-------------------------- MODULE CompilerScheduler --------------------------
(***************************************************************************)
(* apps/web/src/compiler-worker-scheduler.ts: the class that serialises    *)
(* parse, bind-parameters and import-blueprint requests through one active *)
(* slot and one newest-only queue of one compiler Worker generation.       *)
(*                                                                         *)
(* The scheduler is passive: page handlers call its methods, several of    *)
(* them in one turn.  Its state is therefore a record and every method an  *)
(* operator on that record, so that a handler of CompilerPage is the       *)
(* composition of the calls it makes.                                      *)
(***************************************************************************)
EXTENDS Naturals

Kinds == {"parse", "bind", "import"}

(* Identifiers are naturals; 0 (or a record of zeroes) stands for undefined.*)
(* A token is <<worker generation, sequence>>: the code's nonce.sequence.   *)
Token == Nat \X Nat
NoToken == <<0, 0>>

(* Parameter overrides are told apart only by who chose them; the document  *)
(* of an import by the edit generation of the input it was read from.       *)
Overrides == {"none", "panel", "case"}

Request == [kind : Kinds \cup {"none"}, revision : Nat, sourceRevision : Nat,
            token : Token, overrides : Overrides, document : Nat]
NoRequest == [kind |-> "none", revision |-> 0, sourceRevision |-> 0,
              token |-> NoToken, overrides |-> "none", document |-> 0]

ParseRequest(r) == [NoRequest EXCEPT !.kind = "parse", !.revision = r]
ImportRequest(r, document) ==
    [NoRequest EXCEPT !.kind = "import", !.revision = r, !.document = document]
BindRequest(r, source, token, who) ==
    [NoRequest EXCEPT !.kind = "bind", !.revision = r, !.sourceRevision = source,
                      !.token = token, !.overrides = who]

(* What a Worker posts.  outcome: of a parse, what the compiled source is;  *)
(* of a bind, whether it is bound, failed or hit an expired token (WP1007); *)
(* of an import, the verdict.                                               *)
ParseOutcomes == {"error", "plain", "parametric", "symbolic"}
BindOutcomes == {"bound", "failed", "expired"}
ImportOutcomes == {"verified", "blocked"}
Response == [kind : Kinds \cup {"ready"}, revision : Nat, sourceRevision : Nat,
             token : Token, overrides : Overrides, document : Nat,
             outcome : ParseOutcomes \cup BindOutcomes \cup ImportOutcomes
                           \cup {"none"}]

Capture == [workerId : Nat, sourceRevision : Nat, token : Token]
NoCapture == [workerId |-> 0, sourceRevision |-> 0, token |-> NoToken]

Phases == {"absent", "booting", "ready", "busy"}

Scheduler == [nextWorkerId : Nat, currentWorkerId : Nat, phase : Phases,
              queuedRequest : Request, activeRequest : Request,
              bindingCapture : Capture, completedParse : BOOLEAN]

NewScheduler == [nextWorkerId |-> 0, currentWorkerId |-> 0, phase |-> "absent",
                 queuedRequest |-> NoRequest, activeRequest |-> NoRequest,
                 bindingCapture |-> NoCapture, completedParse |-> FALSE]

-----------------------------------------------------------------------------
HasQueued(s) == s.queuedRequest # NoRequest

(* Mutant of SurvivingQueue: failing clears the queue altogether.           *)
SurvivingNothing(s) == NoRequest

(* A binding or an import dies with the Worker generation it was queued for;*)
(* a queued parse survives it.                                              *)
SurvivingQueue(s) ==
    IF s.queuedRequest.kind = "parse" THEN s.queuedRequest ELSE NoRequest

(* createWorker throws unless phase = "absent".                             *)
CreateWorker(s) ==
    [s EXCEPT !.nextWorkerId = @ + 1,
              !.currentWorkerId = s.nextWorkerId + 1,
              !.phase = "booting",
              !.bindingCapture = NoCapture,
              !.queuedRequest = SurvivingQueue(s),
              !.completedParse = FALSE]

(* Mutant of Enqueue: the capture outlives the source it was made of.       *)
EnqueueKeepingCapture(s, request) == [s EXCEPT !.queuedRequest = request]

Enqueue(s, request) ==
    [s EXCEPT !.queuedRequest = request, !.bindingCapture = NoCapture]

(* A slot for a second kind of operation: the Worker is idle, or it is busy *)
(* with an operation of that same kind, and nothing else is queued.         *)
HasSlot(s, kind) ==
    /\ s.phase = "ready" \/ (s.phase = "busy" /\ s.activeRequest.kind = kind)
    /\ s.currentWorkerId # 0
    /\ s.queuedRequest.kind \in {"none", kind}

CanEnqueueImport(s) == HasSlot(s, "import")

EnqueueImport(s, request) == [s EXCEPT !.queuedRequest = request]

CanEnqueueBinding(s, request) ==
    /\ HasSlot(s, "bind")
    /\ s.bindingCapture # NoCapture
    /\ s.bindingCapture = [workerId |-> s.currentWorkerId,
                           sourceRevision |-> request.sourceRevision,
                           token |-> request.token]

EnqueueBinding(s, request) == [s EXCEPT !.queuedRequest = request]

CanMarkReady(s, w) == s.currentWorkerId = w /\ s.phase = "booting"

MarkReady(s) == [s EXCEPT !.phase = "ready"]

(* Mutant of CanTake: the active slot is not looked at.                     *)
CanTakeWhileBusy(s) == HasQueued(s)

CanTake(s) ==
    s.phase = "ready" /\ s.activeRequest = NoRequest /\ HasQueued(s)

TakeForDispatch(s) ==
    [s EXCEPT !.queuedRequest = NoRequest,
              !.activeRequest = s.queuedRequest,
              !.phase = "busy"]

(* Mutant of IsCold: only the page's first Worker is cold.                  *)
IsFirstCold(s) ==
    s.queuedRequest.kind = "parse" /\ ~s.completedParse /\ s.nextWorkerId = 1

IsCold(s) == s.queuedRequest.kind = "parse" /\ ~s.completedParse

(* complete returns "ignored" when this is false.                           *)
Matches(s, w, m) ==
    /\ s.currentWorkerId = w
    /\ s.phase = "busy"
    /\ s.activeRequest # NoRequest
    /\ s.activeRequest.revision = m.revision
    /\ s.activeRequest.kind = m.kind
    /\ m.kind = "bind" => s.activeRequest.sourceRevision = m.sourceRevision

(* Mutants of Released: any failed binding expires the capture; any binding *)
(* answer drops the bindings queued behind it.                              *)
ReleasedExpiringOnFailure(s, m) ==
    [s EXCEPT !.activeRequest = NoRequest,
              !.phase = "ready",
              !.completedParse = @ \/ m.kind = "parse",
              !.bindingCapture = IF m.kind = "bind" /\ m.outcome # "bound"
                                 THEN NoCapture ELSE @]

ReleasedDroppingQueue(s, m) ==
    [s EXCEPT !.activeRequest = NoRequest,
              !.phase = "ready",
              !.completedParse = @ \/ m.kind = "parse",
              !.queuedRequest = IF m.kind = "bind" /\ @.kind = "bind"
                                THEN NoRequest ELSE @]

Released(s, m) ==
    LET expired == m.kind = "bind" /\ m.outcome = "expired"
        sameCapture == /\ s.queuedRequest.kind = "bind"
                       /\ s.queuedRequest.sourceRevision = m.sourceRevision
                       /\ s.queuedRequest.token = s.activeRequest.token
    IN  [s EXCEPT
           !.activeRequest = NoRequest,
           !.phase = "ready",
           !.completedParse = @ \/ m.kind = "parse",
           !.bindingCapture = IF expired THEN NoCapture ELSE @,
           !.queuedRequest = IF expired /\ sameCapture THEN NoRequest ELSE @]

(* "stale" when something newer waits; only an accepted parse installs a    *)
(* capture.                                                                 *)
Complete(s, w, m) ==
    LET r == Released(s, m)
    IN  IF ~HasQueued(r) /\ m.kind = "parse" /\ m.token # NoToken
        THEN [r EXCEPT !.bindingCapture = [workerId |-> w,
                                           sourceRevision |-> m.revision,
                                           token |-> m.token]]
        ELSE r

Accepts(s, m) == ~HasQueued(Released(s, m))

(* Mutant of Fail: the phase is left as the lost Worker had it.             *)
FailKeepingPhase(s) ==
    [s EXCEPT !.currentWorkerId = 0,
              !.activeRequest = NoRequest,
              !.bindingCapture = NoCapture,
              !.queuedRequest = SurvivingQueue(s),
              !.completedParse = FALSE]

(* fail returns FALSE unless w is the current generation.                   *)
Fail(s) ==
    [s EXCEPT !.currentWorkerId = 0,
              !.phase = "absent",
              !.activeRequest = NoRequest,
              !.bindingCapture = NoCapture,
              !.queuedRequest = SurvivingQueue(s),
              !.completedParse = FALSE]
=============================================================================
