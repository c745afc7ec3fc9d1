--------------------------- MODULE BlueprintImport ---------------------------
(***************************************************************************)
(* apps/web/src/blueprint-import-session.ts: the one-use permission to     *)
(* replace the source with one verified import preview.  A snapshot names  *)
(* everything of the page the preview was made from; the profile fields of *)
(* the code's snapshot are left to the profile model.  document is the     *)
(* input generation the result was computed from.                          *)
(***************************************************************************)
EXTENDS Naturals

ImportSnapshot == [requestRevision : Nat, workerId : Nat, sourceRevision : Nat,
                   inputEditGeneration : Nat]
NoImportSnapshot == [requestRevision |-> 0, workerId |-> 0,
                     sourceRevision |-> 0, inputEditGeneration |-> 0]

SessionStates == {"idle", "pending", "verified", "blocked", "failed", "stale",
                  "consumed"}
ImportSession == [state : SessionStates, snapshot : ImportSnapshot,
                  document : Nat]
NewImportSession == [state |-> "idle", snapshot |-> NoImportSnapshot,
                     document |-> 0]

-----------------------------------------------------------------------------
BeginImport(snapshot) ==
    [state |-> "pending", snapshot |-> snapshot, document |-> 0]

(* complete; m.outcome is the verdict, m.document what was converted.       *)
CanCompleteImport(session, requested, m, current) ==
    /\ session.state = "pending"
    /\ session.snapshot = requested
    /\ m.revision = requested.requestRevision
    /\ requested = current

CompleteImport(session, m) ==
    [session EXCEPT !.state = m.outcome, !.document = m.document]

FailImport(session) ==
    IF session.state = "pending" THEN [session EXCEPT !.state = "failed"]
                                 ELSE session

(* Mutants of InvalidateImport: one of the two states is forgotten.         *)
InvalidateOnlyPending(session) ==
    IF session.state # "pending" THEN session
    ELSE [NewImportSession EXCEPT !.state = "stale"]

InvalidateOnlyVerified(session) ==
    IF session.state # "verified" THEN session
    ELSE [NewImportSession EXCEPT !.state = "stale"]

InvalidateImport(session) ==
    IF session.state \in {"idle", "consumed"}
    THEN session
    ELSE [NewImportSession EXCEPT !.state = "stale"]

CanApplyImport(session, current) ==
    session.state = "verified" /\ session.snapshot = current

ConsumeImport == [NewImportSession EXCEPT !.state = "consumed"]
=============================================================================
