---------------------------- MODULE CompilerPage ----------------------------
(***************************************************************************)
(* The browser workbench around its compiler Worker: the handlers of       *)
(* apps/web/src/main.ts that edit, compile, bind parameters, convert       *)
(* blueprints and run tests; the compiler Worker (parser.worker.ts and     *)
(* CompilerWorkerRuntime); the dedicated test Worker (test.worker.ts and   *)
(* its binding inbox); the messages between them; timers and crashes.      *)
(*                                                                         *)
(* Every handler is one action, because the page runs it in one turn.  A   *)
(* handler that ends in pumpCompilerWorker() ends in Pump, which receives  *)
(* the values the handler has computed so far and primes what it may       *)
(* change.  The prototype profile is ready and never changes here.         *)
(***************************************************************************)
EXTENDS TestBinding, BlueprintImport, Sequences

CONSTANTS
    Inputs,           \* what the user does: a subset of UserInputs
    Faults,           \* what goes wrong: a subset of PossibleFaults
    MaxRevision,      \* bound: the user starts nothing past this revision
    MaxInputEdits,    \* bound: the import input is not edited past this generation
    MaxWorkers,       \* bound: no fault in the last compiler Worker generation
    MaxTestRevision,  \* bound: no test edit, no refused binding past this one
    Cases             \* test cases of a source-bound run

UserInputs == {"edit", "bind", "convert", "apply", "input", "tests"}
PossibleFaults == {"crash", "boot", "timeout", "test crash", "test timeout"}

ASSUME PageAssumption ==
    /\ Inputs \subseteq UserInputs
    /\ Faults \subseteq PossibleFaults
    /\ MaxRevision \in Nat /\ MaxInputEdits \in Nat
    /\ MaxWorkers \in Nat /\ MaxTestRevision \in Nat
    /\ Cases \in Nat

VARIABLES
    sched,             \* compilerWorkerScheduler
    link,              \* the page's end of the current Worker, and its mailbox
    compiler,          \* CompilerWorkerRuntime of the current Worker
    responses,         \* messages posted to the page, not yet delivered
    operationCounter, currentRevision, profileReady, renderTimer,
    parameterSourceRevision, parameterised,
    currentPlan,       \* what the preview is made of
    proof,             \* the state the preview panel shows
    importSession, inputEditGeneration, importRequestRevision,
    tests,             \* the page's test state (TestBinding)
    bench,             \* the dedicated test Worker
    testMail           \* its messages to the page, in order

sourceVars == <<currentRevision, profileReady, renderTimer>>
parameterVars == <<parameterSourceRevision, parameterised>>
previewVars == <<currentPlan, proof>>
importVars == <<importSession, inputEditGeneration, importRequestRevision>>
pumpVars == <<sched, link, compiler, operationCounter, tests>>
vars == <<sched, link, compiler, responses, operationCounter, currentRevision,
          profileReady, renderTimer, parameterSourceRevision, parameterised,
          currentPlan, proof, importSession, inputEditGeneration,
          importRequestRevision, tests, bench, testMail>>

-----------------------------------------------------------------------------
Timer == [workerId : Nat, kind : Kinds \cup {"none"}, revision : Nat,
          cold : BOOLEAN]
NoTimer == [workerId |-> 0, kind |-> "none", revision |-> 0, cold |-> FALSE]

(* parserWorkerId = 0: no Worker.  bootTimer names the generation whose     *)
(* workerBootstrapTimeout is armed.                                         *)
Link == [parserWorkerId : Nat, bootTimer : Nat, workerTimeout : Timer,
         mailbox : Request]
NoLink == [parserWorkerId |-> 0, bootTimer |-> 0, workerTimeout |-> NoTimer,
           mailbox |-> NoRequest]

(* job is the request whose asynchronous handling has begun; session is the *)
(* retained parameterSession.                                               *)
Runtime == [posted : BOOLEAN, parses : Nat, job : Request, sequence : Nat,
            session : [token : Token, revision : Nat]]
NoSession == [token |-> NoToken, revision |-> 0]
NewRuntime == [posted |-> FALSE, parses |-> 0, job |-> NoRequest,
               sequence |-> 0, session |-> NoSession]

(* source: the revision of the text the plan was compiled from.             *)
Plan == [source : Nat, overrides : Overrides]
NoPlan == [source |-> 0, overrides |-> "none"]

Bench == [run : Nat, sourceRevision : Nat,
          state : {"none", "start", "executing", "waiting", "done"},
          requestId : Nat, answer : Nat]
NoBench == [run |-> 0, sourceRevision |-> 0, state |-> "none",
            requestId |-> 0, answer |-> 0]

Mail == [kind : {"executing", "waiting", "bind", "tested"}, revision : Nat,
         sourceRevision : Nat, requestId : Nat]

Post(w, m) == responses' = responses \cup {[worker |-> w, message |-> m]}

Reply(request, outcome) ==
    [kind |-> request.kind, revision |-> request.revision,
     sourceRevision |-> request.sourceRevision, token |-> NoToken,
     overrides |-> request.overrides, document |-> request.document,
     outcome |-> outcome]

ReadyMessage == Reply([NoRequest EXCEPT !.kind = "ready"], "none")

Init ==
    /\ sched = NewScheduler
    /\ link = NoLink
    /\ compiler = NewRuntime
    /\ responses = {}
    /\ operationCounter = 0
    /\ currentRevision = 0
    /\ profileReady = FALSE
    /\ renderTimer = FALSE
    /\ parameterSourceRevision = 0
    /\ parameterised = FALSE
    /\ currentPlan = NoPlan
    /\ proof = "pending"
    /\ importSession = NewImportSession
    /\ inputEditGeneration = 0
    /\ importRequestRevision = 0
    /\ tests = NoTests
    /\ bench = NoBench
    /\ testMail = <<>>

-----------------------------------------------------------------------------
(* pumpCompilerWorker and what it calls                                     *)

(* isTestBindingSnapshotCurrent *)
SnapshotCurrent(s, t, workerId, revision, parameterRevision) ==
    LET n == t.controller.snapshot
    IN  /\ t.worker # 0
        /\ n.revision = t.revision
        /\ n.sourceRevision = revision
        /\ n.workerId = workerId
        /\ n.workerId = s.currentWorkerId
        /\ n.sourceRevision = parameterRevision
        /\ s.bindingCapture = [workerId |-> n.workerId,
                               sourceRevision |-> n.sourceRevision,
                               token |-> n.token]

(* The first half of the pump: an idle scheduler takes the pending test     *)
(* case (dispatchPendingTestBinding), or the run whose snapshot is no       *)
(* longer current is terminated.                                            *)
WithPendingCase(s, t, op, current) ==
    LET request == CaseRequest(t.controller, op + 1)
        taken == TakeCase(t.controller, op + 1)
    IN  IF \/ s.phase # "ready" \/ s.activeRequest # NoRequest \/ HasQueued(s)
           \/ t.controller.pending = 0
        THEN [s |-> s, t |-> t, op |-> op]
        ELSE IF ~current
        THEN [s |-> s, t |-> TerminateTests(t), op |-> op]
        ELSE IF ~CanEnqueueBinding(s, request)
        THEN [s |-> s, op |-> op + 1,
              t |-> TerminateTests([t EXCEPT !.controller =
                                        ReleaseForRetry(taken)])]
        ELSE [s |-> EnqueueBinding(s, request), op |-> op + 1,
              t |-> [t EXCEPT !.controller = taken]]

(* ensureCompilerWorker, when parserWorker is undefined.                    *)
StartWorker(s, l) ==
    LET w == s.nextWorkerId + 1
    IN  /\ sched' = CreateWorker(s)
        /\ link' = [l EXCEPT !.parserWorkerId = w, !.bootTimer = w,
                             !.mailbox = NoRequest]

Dispatch(s, l) ==
    /\ sched' = TakeForDispatch(s)
    /\ link' = [l EXCEPT !.mailbox = s.queuedRequest,
                         !.workerTimeout = [workerId |-> l.parserWorkerId,
                                            kind |-> s.queuedRequest.kind,
                                            revision |-> s.queuedRequest.revision,
                                            cold |-> IsCold(s)]]

(* s0, t0, l, op0: the scheduler, the tests, the link and the counter as    *)
(* the handler leaves them.  A terminated Worker takes its state with it.   *)
Pump(s0, t0, l, op0) ==
    LET current == SnapshotCurrent(s0, t0, l.parserWorkerId, currentRevision',
                                   parameterSourceRevision')
        next == WithPendingCase(s0, t0, op0, current)
        s == next.s
    IN  /\ tests' = next.t
        /\ operationCounter' = next.op
        /\ IF HasQueued(s) /\ s.phase # "busy" /\ l.parserWorkerId = 0
           THEN StartWorker(s, l)
           ELSE IF CanTake(s) THEN Dispatch(s, l)
           ELSE sched' = s /\ link' = l
        /\ compiler' = IF link'.parserWorkerId = link.parserWorkerId
                       THEN compiler ELSE NewRuntime

-----------------------------------------------------------------------------
(* The source editor: scheduleRender and render                             *)

CurrentImportSnapshot ==
    IF link.parserWorkerId = 0 THEN NoImportSnapshot
    ELSE [requestRevision |-> importRequestRevision,
          workerId |-> link.parserWorkerId,
          sourceRevision |-> currentRevision,
          inputEditGeneration |-> inputEditGeneration]

(* Mutant of ProofPending: the old preview stays until the new one comes.   *)
ProofPendingKeepingPlan == proof' = "pending" /\ UNCHANGED currentPlan

(* renderProofPending shows no plan and drops the test run.                 *)
ProofPending == proof' = "pending" /\ currentPlan' = NoPlan

ScheduleRender ==
    /\ operationCounter' = operationCounter + 1
    /\ currentRevision' = operationCounter + 1
    /\ parameterSourceRevision' = 0
    /\ parameterised' = FALSE
    /\ tests' = CancelTests(tests)
    /\ renderTimer' = TRUE
    /\ ProofPending
    /\ UNCHANGED <<sched, link, compiler, responses, profileReady,
                   inputEditGeneration, importRequestRevision, bench, testMail>>

EditSource ==
    /\ "edit" \in Inputs
    /\ operationCounter < MaxRevision
    /\ importSession' = InvalidateImport(importSession)
    /\ ScheduleRender

Render ==
    /\ importSession' = InvalidateImport(importSession)
    /\ currentRevision' = operationCounter + 1
    /\ parameterSourceRevision' = 0
    /\ parameterised' = FALSE
    /\ ProofPending
    /\ Pump(Enqueue(sched, ParseRequest(operationCounter + 1)), DropRun(tests),
            link, operationCounter + 1)

RenderTimerFires ==
    /\ renderTimer
    /\ renderTimer' = FALSE
    /\ IF profileReady
       THEN Render
       ELSE UNCHANGED <<currentRevision, parameterVars, previewVars, pumpVars,
                        importSession>>
    /\ UNCHANGED <<responses, profileReady, inputEditGeneration,
                   importRequestRevision, bench, testMail>>

(* The tail of restorePrototypeProfile.                                     *)
RestoreProfile ==
    /\ ~profileReady
    /\ profileReady' = TRUE
    /\ Render
    /\ UNCHANGED <<responses, renderTimer, inputEditGeneration,
                   importRequestRevision, bench, testMail>>

-----------------------------------------------------------------------------
(* Parameter panel: submitParameterBinding                                  *)

(* The panel is enabled while parameterSourceRevision is defined.  The tests*)
(* are cancelled before the early returns.                                  *)
SubmitBinding ==
    LET capture == sched.bindingCapture
        request == BindRequest(operationCounter + 1, parameterSourceRevision,
                               capture.token, "panel")
        refused == \/ ~profileReady
                   \/ parameterSourceRevision # currentRevision
                   \/ capture.sourceRevision # parameterSourceRevision
        converting == sched.phase = "busy" /\ sched.activeRequest.kind = "import"
    IN  /\ "bind" \in Inputs
        /\ operationCounter < MaxRevision
        /\ parameterSourceRevision # 0
        /\ UNCHANGED <<sourceVars, parameterised, importVars, responses, bench,
                       testMail>>
        /\ IF refused \/ converting
           THEN /\ tests.revision < MaxTestRevision
                /\ tests' = CancelTests(tests)
                /\ UNCHANGED <<sched, link, compiler, operationCounter,
                               previewVars, parameterSourceRevision>>
           ELSE IF CanEnqueueBinding(sched, request)
           THEN /\ ProofPending
                /\ UNCHANGED parameterSourceRevision
                /\ Pump(EnqueueBinding(sched, request), CancelTests(tests), link,
                        operationCounter + 1)
           ELSE /\ parameterSourceRevision' = 0
                /\ operationCounter' = operationCounter + 1
                /\ tests' = CancelTests(tests)
                /\ UNCHANGED <<sched, link, compiler, previewVars>>

-----------------------------------------------------------------------------
(* Blueprint import: the input, Convert and Apply                           *)

ImportAvailable ==
    /\ profileReady
    /\ ~renderTimer
    /\ link.parserWorkerId # 0
    /\ sched.currentWorkerId = link.parserWorkerId
    /\ sched.phase = "ready" \/ (sched.phase = "busy"
                                 /\ sched.activeRequest.kind = "import")
    /\ ~HasQueued(sched)

EditImportInput ==
    /\ "input" \in Inputs
    /\ inputEditGeneration < MaxInputEdits
    /\ inputEditGeneration' = inputEditGeneration + 1
    /\ importSession' = InvalidateImport(importSession)
    /\ UNCHANGED <<sourceVars, parameterVars, previewVars, pumpVars, responses,
                   importRequestRevision, bench, testMail>>

SubmitImport ==
    LET revision == operationCounter + 1
        snapshot == [CurrentImportSnapshot EXCEPT !.requestRevision = revision]
        request == ImportRequest(revision, inputEditGeneration)
    IN  /\ "convert" \in Inputs
        /\ operationCounter < MaxRevision
        /\ ImportAvailable
        /\ importRequestRevision' = revision
        /\ UNCHANGED <<sourceVars, parameterVars, previewVars,
                       inputEditGeneration, responses, bench, testMail>>
        /\ IF CanEnqueueImport(sched)
           THEN /\ importSession' = BeginImport(snapshot)
                /\ Pump(EnqueueImport(sched, request), CancelTests(tests), link,
                        revision)
           ELSE /\ importSession' = FailImport(BeginImport(snapshot))
                /\ operationCounter' = revision
                /\ tests' = CancelTests(tests)
                /\ UNCHANGED <<sched, link, compiler>>

ApplyImport ==
    /\ "apply" \in Inputs
    /\ operationCounter < MaxRevision
    /\ CanApplyImport(importSession, CurrentImportSnapshot)
    /\ importSession' = InvalidateImport(ConsumeImport)
    /\ ScheduleRender

-----------------------------------------------------------------------------
(* Messages of the compiler Worker: handleWorkerMessage                     *)

FromCurrent(r) ==
    r \in responses /\ r.worker = link.parserWorkerId
                    /\ r.worker = sched.currentWorkerId

Delivered(r) == responses' = responses \ {r}

(* Mutant of Idle: the timer variable is reset to the wrong null.           *)
IdleWrongly(l) == [l EXCEPT !.workerTimeout = NoRequest]

(* The handlers of a completion clear the armed request timer.              *)
Idle(l) == [l EXCEPT !.workerTimeout = NoTimer]

IgnoreMessage ==
    /\ \E r \in responses :
        /\ IF r.message.kind = "ready"
           THEN ~(FromCurrent(r) /\ CanMarkReady(sched, r.worker))
           ELSE ~(FromCurrent(r) /\ Matches(sched, r.worker, r.message))
        /\ Delivered(r)
    /\ UNCHANGED <<sourceVars, parameterVars, previewVars, pumpVars, importVars,
                   bench, testMail>>

HandleReady ==
    /\ \E r \in responses :
        /\ r.message.kind = "ready"
        /\ FromCurrent(r) /\ CanMarkReady(sched, r.worker)
        /\ Delivered(r)
    /\ UNCHANGED <<sourceVars, parameterVars, previewVars, importVars, bench,
                   testMail>>
    /\ Pump(MarkReady(sched), tests, [link EXCEPT !.bootTimer = 0],
            operationCounter)

(* A completion the scheduler does not ignore.  isCase: the controller owns *)
(* the revision of this bound response.                                     *)
Completes(r, isCase) ==
    /\ FromCurrent(r)
    /\ r.message.kind # "ready"
    /\ Matches(sched, r.worker, r.message)
    /\ isCase <=> /\ r.message.kind = "bind"
                  /\ r.message.revision \in tests.controller.owned
    /\ Delivered(r)

(* A case's binding: it answers the test Worker, invalidates the run, or is *)
(* of a run that no longer exists.                                          *)
HandleCaseBound ==
    \E r \in responses :
        LET m == r.message
            s == Complete(sched, r.worker, m)
            forgot == [tests EXCEPT !.controller = ForgetRevision(@, m.revision)]
            requestId == forgot.controller.active.requestId
            answered == [forgot EXCEPT !.controller.active = NoActive]
            awaited == AwaitsResponse(forgot.controller, r.worker, m)
            current == SnapshotCurrent(s, answered, link.parserWorkerId,
                                       currentRevision, parameterSourceRevision)
            n == answered.controller.snapshot
            terminates == /\ tests.worker # 0
                          /\ n.revision = tests.revision
                          /\ n.sourceRevision = currentRevision
            cancelled == [answered EXCEPT !.controller = CancelController(@)]
            Continue(t) == Pump(s, t, Idle(link), operationCounter)
        IN  /\ Completes(r, TRUE)
            /\ UNCHANGED <<sourceVars, parameterised, previewVars, importVars,
                           testMail>>
            /\ IF ~awaited
               THEN /\ UNCHANGED <<parameterSourceRevision, bench>>
                    /\ Continue(forgot)
               ELSE IF current
               THEN /\ UNCHANGED parameterSourceRevision
                    /\ bench' = [bench EXCEPT !.answer = requestId]
                    /\ Continue(answered)
               ELSE /\ parameterSourceRevision' =
                          IF terminates THEN 0 ELSE parameterSourceRevision
                    /\ UNCHANGED bench
                    /\ Continue(IF terminates THEN CancelTests(cancelled)
                                              ELSE cancelled)

HandleStaleCompletion ==
    \E r \in responses :
        /\ Completes(r, FALSE)
        /\ ~Accepts(sched, r.message)
        /\ UNCHANGED <<sourceVars, parameterVars, previewVars, importVars, bench,
                       testMail>>
        /\ Pump(Complete(sched, r.worker, r.message), tests, Idle(link),
                operationCounter)

HandleImported ==
    \E r \in responses :
        /\ Completes(r, FALSE)
        /\ Accepts(sched, r.message)
        /\ r.message.kind = "import"
        /\ importSession' =
              IF /\ importSession.snapshot.workerId = r.worker
                 /\ CanCompleteImport(importSession, importSession.snapshot,
                                      r.message, CurrentImportSnapshot)
              THEN CompleteImport(importSession, r.message)
              ELSE importSession
        /\ UNCHANGED <<sourceVars, parameterVars, previewVars,
                       inputEditGeneration, importRequestRevision, bench,
                       testMail>>
        /\ Pump(Complete(sched, r.worker, r.message), tests, Idle(link),
                operationCounter)

(* A bound response that is not a test case's replaces the preview.         *)
HandleBound ==
    \E r \in responses :
        LET m == r.message
            s == Complete(sched, r.worker, m)
            Continue(t) == Pump(s, t, Idle(link), operationCounter)
        IN  /\ Completes(r, FALSE)
            /\ Accepts(sched, m)
            /\ m.kind = "bind"
            /\ UNCHANGED <<sourceVars, parameterised, importVars, bench, testMail>>
            /\ \/ /\ m.sourceRevision # currentRevision
                  /\ UNCHANGED <<parameterSourceRevision, previewVars>>
                  /\ Continue(tests)
               \/ /\ m.sourceRevision = currentRevision
                  /\ m.outcome # "bound"
                  /\ proof' = "invalid" /\ currentPlan' = NoPlan
                  /\ parameterSourceRevision' =
                        IF s.bindingCapture = NoCapture
                        THEN 0 ELSE parameterSourceRevision
                  /\ Continue(tests)
               \/ /\ m.sourceRevision = currentRevision
                  /\ m.outcome = "bound"
                  /\ UNCHANGED parameterSourceRevision
                  /\ \/ /\ proof' = "valid"
                        /\ currentPlan' = [source |-> m.sourceRevision,
                                           overrides |-> m.overrides]
                        /\ Continue(ScheduleTests(tests))
                     \/ \* the bound circuit compiles, its preview throws
                        /\ proof' = "invalid" /\ currentPlan' = NoPlan
                        /\ Continue(tests)

HandleParsed ==
    \E r \in responses :
        LET m == r.message
            s == Complete(sched, r.worker, m)
            Continue(t) == Pump(s, t, Idle(link), operationCounter)
        IN  /\ Completes(r, FALSE)
            /\ Accepts(sched, m)
            /\ m.kind = "parse"
            /\ UNCHANGED <<sourceVars, importVars, bench, testMail>>
            /\ \/ /\ m.revision # currentRevision
                  /\ UNCHANGED <<parameterVars, previewVars>>
                  /\ Continue(tests)
               \/ /\ m.revision = currentRevision
                  /\ m.outcome = "error"
                  /\ parameterSourceRevision' = 0
                  /\ UNCHANGED parameterised
                  /\ proof' = "invalid" /\ currentPlan' = NoPlan
                  /\ Continue(tests)
               \/ /\ m.revision = currentRevision
                  /\ m.outcome # "error"
                  /\ parameterised' = (m.outcome # "plain")
                  /\ parameterSourceRevision' =
                        IF s.bindingCapture.sourceRevision = currentRevision
                        THEN currentRevision ELSE 0
                  /\ IF m.outcome = "symbolic"
                     THEN proof' = "valid" /\ currentPlan' = NoPlan
                     ELSE /\ proof' \in {"valid", "invalid"}
                          /\ currentPlan' = [source |-> m.revision,
                                             overrides |-> "none"]
                  /\ Continue(ScheduleTests(tests))

-----------------------------------------------------------------------------
(* Losing the compiler Worker                                               *)

MayLoseWorker(fault) ==
    /\ fault \in Faults
    /\ sched.nextWorkerId < MaxWorkers

(* Mutant of TestsInvolved: losing the Worker leaves a test run alone.      *)
NoTestsInvolved == FALSE

TestsInvolved == tests.controller.snapshot # NoSnapshot \/ tests.worker # 0

Disowned(t) == [t EXCEPT !.controller = ClearRevisions(@)]

(* The armed bootstrap timer either finds its generation still booting, or  *)
(* does nothing.                                                            *)
HandleBootstrapTimeout ==
    /\ MayLoseWorker("boot")
    /\ link.bootTimer # 0
    /\ link.bootTimer = link.parserWorkerId
    /\ link.bootTimer = sched.currentWorkerId
    /\ sched.phase = "booting"
    /\ importSession' = InvalidateImport(importSession)
    /\ proof' = "invalid" /\ currentPlan' = NoPlan
    /\ UNCHANGED <<sourceVars, parameterVars, inputEditGeneration,
                   importRequestRevision, responses, bench, testMail>>
    /\ Pump(Fail(sched),
            Disowned(IF TestsInvolved THEN CancelTests(tests) ELSE tests),
            [link EXCEPT !.parserWorkerId = 0, !.bootTimer = 0,
                         !.mailbox = NoRequest],
            operationCounter)

OwnsActive == /\ sched.activeRequest.kind = "bind"
              /\ sched.activeRequest.revision \in tests.controller.owned

(* handleWorkerError: an error event of the current Worker.                 *)
HandleWorkerError ==
    LET failed == sched.activeRequest
        ofCurrent == \/ sched.phase = "booting"
                     \/ failed.kind = "parse" /\ failed.revision = currentRevision
                     \/ /\ failed.kind = "bind" /\ ~OwnsActive
                        /\ failed.sourceRevision = currentRevision
    IN  /\ MayLoseWorker("crash")
        /\ link.parserWorkerId # 0
        /\ link.parserWorkerId = sched.currentWorkerId
        /\ importSession' =
              IF /\ failed.kind = "import"
                 /\ importSession.snapshot.requestRevision = failed.revision
              THEN FailImport(importSession)
              ELSE InvalidateImport(importSession)
        /\ parameterSourceRevision' =
              IF \/ failed.kind = "import"
                 \/ parameterSourceRevision = currentRevision
              THEN 0 ELSE parameterSourceRevision
        /\ IF ofCurrent
           THEN proof' = "invalid" /\ currentPlan' = NoPlan
           ELSE UNCHANGED previewVars
        /\ UNCHANGED <<sourceVars, parameterised, inputEditGeneration,
                       importRequestRevision, responses, bench, testMail>>
        /\ Pump(Fail(sched),
                Disowned(IF TestsInvolved THEN CancelTests(tests) ELSE tests),
                NoLink, operationCounter)

(* The request timer armed by Dispatch, when its operation is still active. *)
TimedOut(kind) ==
    /\ MayLoseWorker("timeout")
    /\ link.workerTimeout.kind = kind
    /\ link.workerTimeout.workerId = link.parserWorkerId
    /\ link.workerTimeout.workerId = sched.currentWorkerId
    /\ sched.activeRequest.kind = kind
    /\ sched.activeRequest.revision = link.workerTimeout.revision
    /\ UNCHANGED <<sourceVars, parameterised, inputEditGeneration,
                   importRequestRevision, responses, bench, testMail>>

LoseToTimeout(t) ==
    Pump(Fail(sched), t, [link EXCEPT !.parserWorkerId = 0,
                                      !.workerTimeout = NoTimer,
                                      !.mailbox = NoRequest],
         operationCounter)

CaseBindingTimeout ==
    /\ TimedOut("bind")
    /\ OwnsActive
    /\ parameterSourceRevision' = 0
    /\ UNCHANGED <<previewVars, importSession>>
    /\ LoseToTimeout(CancelTests(Disowned(tests)))

BindingTimeout ==
    /\ TimedOut("bind")
    /\ ~OwnsActive
    /\ IF sched.activeRequest.sourceRevision = currentRevision
       THEN /\ proof' = "invalid" /\ currentPlan' = NoPlan
            /\ parameterSourceRevision' = 0
       ELSE UNCHANGED <<previewVars, parameterSourceRevision>>
    /\ UNCHANGED importSession
    /\ LoseToTimeout(Disowned(tests))

ImportTimeout ==
    /\ TimedOut("import")
    /\ importSession' =
          IF importSession.snapshot = NoImportSnapshot THEN importSession
          ELSE IF importSession.snapshot.requestRevision
                      = sched.activeRequest.revision
          THEN FailImport(importSession)
          ELSE InvalidateImport(importSession)
    /\ parameterSourceRevision' = 0
    /\ UNCHANGED previewVars
    /\ LoseToTimeout(Disowned(tests))

(* Mutant of ParseTimeout: the timeout is not reported.                     *)
SilentParseTimeout ==
    /\ TimedOut("parse")
    /\ UNCHANGED <<previewVars, parameterSourceRevision, importSession>>
    /\ LoseToTimeout(Disowned(tests))

ParseTimeout ==
    /\ TimedOut("parse")
    /\ IF sched.activeRequest.revision = currentRevision
       THEN proof' = "invalid" /\ currentPlan' = NoPlan
       ELSE UNCHANGED previewVars
    /\ UNCHANGED <<parameterSourceRevision, importSession>>
    /\ LoseToTimeout(Disowned(tests))

-----------------------------------------------------------------------------
(* Circuit tests: the editor, runTests and the test Worker's messages       *)

EditTests ==
    /\ "tests" \in Inputs
    /\ tests.revision < MaxTestRevision
    /\ tests' = ScheduleTests(tests)
    /\ UNCHANGED <<sourceVars, parameterVars, previewVars, importVars, sched,
                   link, compiler, operationCounter, responses, bench, testMail>>

NeedsBinding == currentPlan = NoPlan \/ parameterised

HasCurrentCapture ==
    /\ parameterSourceRevision = currentRevision
    /\ sched.bindingCapture # NoCapture
    /\ sched.bindingCapture.sourceRevision = currentRevision
    /\ sched.bindingCapture.workerId = link.parserWorkerId

RunTests ==
    LET revision == tests.revision + 1
        capture == sched.bindingCapture
        started == [TerminateTests(tests) EXCEPT
                        !.revision = revision, !.renderTimer = FALSE,
                        !.worker = revision, !.watchdog = TRUE]
        snapshot == [revision |-> revision, sourceRevision |-> currentRevision,
                     workerId |-> capture.workerId, token |-> capture.token]
        NewBench(source) == [NoBench EXCEPT !.run = revision, !.state = "start",
                                            !.sourceRevision = source]
    IN  /\ tests.renderTimer
        /\ \/ /\ NeedsBinding /\ ~HasCurrentCapture
              /\ tests' = [tests EXCEPT !.renderTimer = FALSE]
              /\ UNCHANGED bench
           \/ /\ NeedsBinding /\ HasCurrentCapture
              /\ tests' = [started EXCEPT !.controller = BeginRun(@, snapshot)]
              /\ bench' = NewBench(currentRevision)
           \/ /\ ~NeedsBinding
              /\ tests' = started
              /\ bench' = NewBench(0)
        /\ UNCHANGED <<sourceVars, parameterVars, previewVars, importVars, sched,
                       link, compiler, operationCounter, responses, testMail>>

FromBench(m) == tests.worker = m.revision /\ tests.revision = m.revision

HandleTestMail ==
    LET m == Head(testMail)
        known == FromBench(m)
        asked == [tests EXCEPT !.watchdog = FALSE,
                               !.controller = RequestCase(@, m)]
    IN  /\ testMail # <<>>
        /\ testMail' = Tail(testMail)
        /\ UNCHANGED <<sourceVars, parameterVars, previewVars, importVars,
                       responses, bench>>
        /\ \/ /\ known /\ m.kind = "bind"
              /\ CanRequestCase(tests.controller, m)
              /\ SnapshotCurrent(sched, asked, link.parserWorkerId,
                                 currentRevision, parameterSourceRevision)
              /\ Pump(sched, asked, link, operationCounter)
           \/ /\ ~(known /\ m.kind = "bind"
                    /\ CanRequestCase(tests.controller, m)
                    /\ SnapshotCurrent(sched, asked, link.parserWorkerId,
                                       currentRevision, parameterSourceRevision))
              /\ tests' = IF ~known THEN tests
                          ELSE IF m.kind \in {"executing", "waiting"}
                          THEN [tests EXCEPT !.watchdog = m.kind = "executing"]
                          ELSE TerminateTests(tests)
              /\ UNCHANGED <<sched, link, compiler, operationCounter>>

(* The 1200 ms watchdog, or an error event of the test Worker.              *)
LoseTestWorker ==
    /\ \/ "test timeout" \in Faults /\ tests.watchdog
       \/ "test crash" \in Faults
    /\ tests.worker # 0
    /\ tests' = TerminateTests(tests)
    /\ UNCHANGED <<sourceVars, parameterVars, previewVars, importVars, sched,
                   link, compiler, operationCounter, responses, bench, testMail>>

-----------------------------------------------------------------------------
(* The compiler Worker: a terminated Worker takes no further step.          *)

compilerFrame == <<sourceVars, parameterVars, previewVars, importVars, sched,
                   operationCounter, tests, bench, testMail>>

WorkerBoots ==
    /\ link.parserWorkerId # 0
    /\ ~compiler.posted
    /\ compiler' = [compiler EXCEPT !.posted = TRUE]
    /\ Post(link.parserWorkerId, ReadyMessage)
    /\ UNCHANGED <<compilerFrame, link>>

(* handle, up to its await: the retained session is dropped at once.        *)
WorkerStartsParse ==
    /\ link.mailbox.kind = "parse"
    /\ compiler.posted
    /\ compiler' = [compiler EXCEPT !.parses = @ + 1, !.session = NoSession,
                                    !.job = link.mailbox]
    /\ link' = [link EXCEPT !.mailbox = NoRequest]
    /\ UNCHANGED <<compilerFrame, responses>>

(* compileResponse: a parameterised source is retained under a new token.   *)
WorkerFinishesParse ==
    \E outcome \in ParseOutcomes :
        LET retains == outcome \in {"parametric", "symbolic"}
            token == <<link.parserWorkerId, compiler.sequence + 1>>
            reply == Reply(compiler.job, outcome)
        IN  /\ compiler.job.kind = "parse"
            /\ compiler' =
                  IF retains
                  THEN [compiler EXCEPT
                          !.job = NoRequest, !.sequence = @ + 1,
                          !.session = [token |-> token,
                                       revision |-> compiler.job.revision]]
                  ELSE [compiler EXCEPT !.job = NoRequest]
            /\ Post(link.parserWorkerId,
                    IF retains THEN [reply EXCEPT !.token = token] ELSE reply)
            /\ UNCHANGED <<compilerFrame, link>>

(* handleBinding is synchronous.                                            *)
WorkerBinds ==
    \E outcome \in BindOutcomes :
        LET request == link.mailbox
            retained == compiler.session = [token |-> request.token,
                                            revision |-> request.sourceRevision]
        IN  /\ request.kind = "bind"
            /\ compiler.posted
            /\ (outcome = "expired") <=> ~retained
            /\ Post(link.parserWorkerId, Reply(request, outcome))
            /\ link' = [link EXCEPT !.mailbox = NoRequest]
            /\ UNCHANGED <<compilerFrame, compiler>>

WorkerStartsImport ==
    /\ link.mailbox.kind = "import"
    /\ compiler.posted
    /\ compiler' = [compiler EXCEPT !.job = link.mailbox]
    /\ link' = [link EXCEPT !.mailbox = NoRequest]
    /\ UNCHANGED <<compilerFrame, responses>>

WorkerFinishesImport ==
    \E outcome \in ImportOutcomes :
        /\ compiler.job.kind = "import"
        /\ compiler' = [compiler EXCEPT !.job = NoRequest]
        /\ Post(link.parserWorkerId, Reply(compiler.job, outcome))
        /\ UNCHANGED <<compilerFrame, link>>

-----------------------------------------------------------------------------
(* The test Worker                                                          *)

benchFrame == <<sourceVars, parameterVars, previewVars, importVars, pumpVars,
                responses>>

BenchAlive == bench.run # 0 /\ tests.worker = bench.run

Say(kind, id) == [kind |-> kind, revision |-> bench.run,
                  sourceRevision |-> bench.sourceRevision, requestId |-> id]

BenchStarts ==
    /\ BenchAlive /\ bench.state = "start"
    /\ bench' = [bench EXCEPT !.state = "executing"]
    /\ testMail' = Append(testMail, Say("executing", 0))
    /\ UNCHANGED benchFrame

(* The resolver of the next case: TestWorkerBindingInbox.request.           *)
BenchAsks ==
    /\ BenchAlive /\ bench.state = "executing"
    /\ bench.sourceRevision # 0
    /\ bench.requestId < Cases
    /\ bench' = [bench EXCEPT !.state = "waiting", !.requestId = @ + 1]
    /\ testMail' = testMail \o <<Say("waiting", 0),
                                 Say("bind", bench.requestId + 1)>>
    /\ UNCHANGED benchFrame

(* Mutant of BenchReceives: the page is not told that execution resumes.    *)
BenchReceivesSilently ==
    /\ BenchAlive /\ bench.answer # 0
    /\ bench' = [bench EXCEPT !.state = "executing", !.answer = 0]
    /\ UNCHANGED testMail
    /\ UNCHANGED benchFrame

(* TestWorkerBindingInbox.receive: only the awaited request id is accepted. *)
BenchReceives ==
    /\ BenchAlive /\ bench.answer # 0
    /\ IF bench.state = "waiting" /\ bench.answer = bench.requestId
       THEN /\ bench' = [bench EXCEPT !.state = "executing", !.answer = 0]
            /\ testMail' = Append(testMail, Say("executing", 0))
       ELSE /\ bench' = [bench EXCEPT !.answer = 0]
            /\ UNCHANGED testMail
    /\ UNCHANGED benchFrame

BenchFinishes ==
    /\ BenchAlive /\ bench.state = "executing"
    /\ bench.sourceRevision = 0 \/ bench.requestId = Cases
    /\ bench' = [bench EXCEPT !.state = "done"]
    /\ testMail' = Append(testMail, Say("tested", 0))
    /\ UNCHANGED benchFrame

-----------------------------------------------------------------------------
User == \/ EditSource \/ SubmitBinding \/ EditImportInput \/ SubmitImport
        \/ ApplyImport \/ EditTests

PageTimers == RenderTimerFires \/ RunTests

Messages == \/ IgnoreMessage \/ HandleReady \/ HandleCaseBound
            \/ HandleStaleCompletion \/ HandleImported \/ HandleBound
            \/ HandleParsed \/ HandleTestMail

Losses == \/ HandleBootstrapTimeout \/ HandleWorkerError \/ CaseBindingTimeout
          \/ BindingTimeout \/ ImportTimeout \/ ParseTimeout \/ LoseTestWorker

CompilerWorker == \/ WorkerBoots \/ WorkerStartsParse \/ WorkerFinishesParse
                  \/ WorkerBinds \/ WorkerStartsImport \/ WorkerFinishesImport

TestWorker == BenchStarts \/ BenchAsks \/ BenchReceives \/ BenchFinishes

Next == \/ User \/ RestoreProfile \/ PageTimers \/ Messages \/ Losses
        \/ CompilerWorker \/ TestWorker

Spec == Init /\ [][Next]_vars

=============================================================================
