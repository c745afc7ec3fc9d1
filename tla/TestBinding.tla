----------------------------- MODULE TestBinding -----------------------------
(***************************************************************************)
(* The page's half of a per-case binding conversation, as records and      *)
(* operators on them:                                                      *)
(*   - apps/web/src/test-binding-controller.ts, which correlates the one   *)
(*     test case awaiting values with a compiler binding;                  *)
(*   - the test variables of apps/web/src/main.ts that every handler that  *)
(*     touches tests changes together.                                     *)
(***************************************************************************)
EXTENDS CompilerScheduler

Snapshot == [revision : Nat, sourceRevision : Nat, workerId : Nat, token : Token]
NoSnapshot == [revision |-> 0, sourceRevision |-> 0, workerId |-> 0,
               token |-> NoToken]

(* pending and the first field of active are request ids, 0 when undefined. *)
Controller == [snapshot : Snapshot, pending : Nat,
               active : [requestId : Nat, compilerRevision : Nat],
               owned : SUBSET Nat, lastRequestId : Nat]
NoActive == [requestId |-> 0, compilerRevision |-> 0]
NewController == [snapshot |-> NoSnapshot, pending |-> 0, active |-> NoActive,
                  owned |-> {}, lastRequestId |-> 0]

(* The page's test state: worker is the revision of the run whose Worker    *)
(* exists; watchdog says that its 1200 ms timer is armed.                   *)
Tests == [revision : Nat, renderTimer : BOOLEAN, worker : Nat,
          watchdog : BOOLEAN, controller : Controller]
NoTests == [revision |-> 0, renderTimer |-> FALSE, worker |-> 0,
            watchdog |-> FALSE, controller |-> NewController]

-----------------------------------------------------------------------------
(* TestBindingController                                                    *)

CancelController(c) ==
    [c EXCEPT !.snapshot = NoSnapshot, !.pending = 0, !.active = NoActive]

BeginRun(c, snapshot) ==
    [CancelController(c) EXCEPT
        !.owned = IF c.snapshot.workerId # snapshot.workerId THEN {} ELSE @,
        !.lastRequestId = 0,
        !.snapshot = snapshot]

CanRequestCase(c, request) ==
    /\ c.snapshot # NoSnapshot
    /\ request.revision = c.snapshot.revision
    /\ request.sourceRevision = c.snapshot.sourceRevision
    /\ request.requestId > c.lastRequestId
    /\ c.pending = 0
    /\ c.active = NoActive

RequestCase(c, request) ==
    [c EXCEPT !.lastRequestId = request.requestId, !.pending = request.requestId]

(* Mutants of TakeCase: the case stays pending; the compiler revision is not*)
(* registered as a case's.                                                  *)
TakeCaseAgain(c, revision) ==
    [c EXCEPT !.active = [requestId |-> c.pending, compilerRevision |-> revision],
              !.owned = @ \cup {revision}]

TakeUnownedCase(c, revision) ==
    [c EXCEPT !.pending = 0,
              !.active = [requestId |-> c.pending, compilerRevision |-> revision]]

TakeCase(c, revision) ==
    [c EXCEPT !.pending = 0,
              !.active = [requestId |-> c.pending, compilerRevision |-> revision],
              !.owned = @ \cup {revision}]

CaseRequest(c, revision) ==
    BindRequest(revision, c.snapshot.sourceRevision, c.snapshot.token, "case")

ReleaseForRetry(c) ==
    [c EXCEPT !.pending = c.active.requestId, !.active = NoActive]

ForgetRevision(c, revision) == [c EXCEPT !.owned = @ \ {revision}]

ClearRevisions(c) == [c EXCEPT !.owned = {}]

(* complete returns undefined when this is false.                           *)
AwaitsResponse(c, w, m) ==
    /\ c.active # NoActive
    /\ c.snapshot # NoSnapshot
    /\ c.snapshot.workerId = w
    /\ c.active.compilerRevision = m.revision
    /\ c.snapshot.sourceRevision = m.sourceRevision

-----------------------------------------------------------------------------
(* main.ts                                                                  *)

(* terminateTestWorker *)
TerminateTests(t) ==
    [t EXCEPT !.worker = 0, !.watchdog = FALSE,
              !.controller = CancelController(@)]

(* cancelTestsForOperation; also scheduleRender's testRevision + terminate  *)
(* + clearTimeout sequence.                                                 *)
CancelTests(t) ==
    [TerminateTests(t) EXCEPT !.revision = @ + 1, !.renderTimer = FALSE]

(* scheduleTestRender *)
ScheduleTests(t) == [CancelTests(t) EXCEPT !.renderTimer = TRUE]

(* The test half of renderProofPending.                                     *)
DropRun(t) == [TerminateTests(t) EXCEPT !.revision = @ + 1]
=============================================================================
