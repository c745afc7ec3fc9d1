----------------------- MODULE CompilerPageProperties -----------------------
(***************************************************************************)
(* What CompilerPage must satisfy.  Each run of MCCompilerPage checks the  *)
(* part that its user inputs and faults put at risk.                       *)
(***************************************************************************)
EXTENDS CompilerPage

(* Every variable keeps the type its declaration in the sources gives it.   *)
TypeOK ==
    /\ sched \in Scheduler
    /\ link \in Link
    /\ compiler \in Runtime
    /\ responses \subseteq [worker : Nat, message : Response]
    /\ operationCounter \in Nat
    /\ currentRevision \in Nat
    /\ profileReady \in BOOLEAN
    /\ renderTimer \in BOOLEAN
    /\ parameterSourceRevision \in Nat
    /\ parameterised \in BOOLEAN
    /\ currentPlan \in Plan
    /\ proof \in {"pending", "valid", "invalid"}
    /\ importSession \in ImportSession
    /\ inputEditGeneration \in Nat
    /\ importRequestRevision \in Nat
    /\ tests \in Tests
    /\ bench \in Bench
    /\ testMail \in Seq(Mail)

-----------------------------------------------------------------------------
(* The completions of the current generation that the page has not handled. *)
Undelivered == {r \in responses : r.worker = link.parserWorkerId
                                  /\ r.message.kind # "ready"}

(* One active slot: what the scheduler believes the Worker is doing is in   *)
(* exactly one place, on its way to the Worker, in it, or on its way back.  *)
OneOperation ==
    LET active == sched.activeRequest
        inMail == link.mailbox # NoRequest
        inWorker == compiler.job # NoRequest
        inReply == Undelivered # {}
    IN  IF sched.phase # "busy"
        THEN ~inMail /\ ~inWorker /\ ~inReply
        ELSE \/ inMail /\ ~inWorker /\ ~inReply /\ link.mailbox = active
             \/ ~inMail /\ inWorker /\ ~inReply /\ compiler.job = active
             \/ /\ ~inMail /\ ~inWorker
                /\ \E r \in Undelivered :
                      /\ Undelivered = {r}
                      /\ Matches(sched, r.worker, r.message)

(* A capture the page may bind against is retained by the live Worker under *)
(* the same token and source revision, so no binding of the current         *)
(* generation meets WP1007.                                                 *)
CaptureRetained ==
    LET capture == sched.bindingCapture
    IN  /\ capture # NoCapture =>
              /\ capture.workerId = link.parserWorkerId
              /\ compiler.session = [token |-> capture.token,
                                     revision |-> capture.sourceRevision]
        /\ \A r \in Undelivered : r.message.outcome # "expired"

(* While the parameter panel is enabled, its values belong to the text in   *)
(* the editor and a capture of exactly that text exists.                    *)
PanelIsBacked ==
    parameterSourceRevision # 0 =>
        /\ parameterSourceRevision = currentRevision
        /\ sched.bindingCapture # NoCapture
        /\ sched.bindingCapture.sourceRevision = parameterSourceRevision

(* The 1 s budget of a warm parse is never given to the first parse of a    *)
(* Worker generation, which loads the compiler assets.                      *)
FirstParseIsCold ==
    link.workerTimeout.kind = "parse" /\ ~link.workerTimeout.cold =>
        compiler.parses + (IF link.mailbox.kind = "parse" THEN 1 ELSE 0) > 1

(* A queued parse leaves the queue only for the active slot or for a newer  *)
(* parse: no binding, import, stale answer or lost Worker drops it.         *)
QueuedParseStep ==
    sched.queuedRequest.kind = "parse"
    /\ sched'.queuedRequest # sched.queuedRequest =>
       \/ sched'.activeRequest = sched.queuedRequest
       \/ /\ sched'.queuedRequest.kind = "parse"
          /\ sched'.queuedRequest.revision > sched.queuedRequest.revision

QueuedParseSurvives == [][QueuedParseStep]_vars

(* The page shows what NewestSource promises: preview and panel are of the  *)
(* newest text or empty, across edits, late answers and lost Workers.       *)
Newest == INSTANCE NewestSource WITH
              latest <- currentRevision,
              shown <- currentPlan.source,
              offered <- parameterSourceRevision

ShowsNewestSource == Newest!Spec

-----------------------------------------------------------------------------
(* A verified import preview was converted from the text now in the import  *)
(* input, for the source now in the editor.                                 *)
VerifiedPreviewIsOfInput ==
    importSession.state = "verified" =>
        /\ importSession.document = inputEditGeneration
        /\ importSession.snapshot.sourceRevision = currentRevision

(* An import panel that says pending has a conversion under way in the live *)
(* Worker for it.                                                           *)
PendingImportIsWorkedOn ==
    importSession.state = "pending" =>
        /\ importSession.snapshot.workerId = link.parserWorkerId
        /\ \E request \in {sched.queuedRequest, sched.activeRequest} :
              /\ request.kind = "import"
              /\ request.revision = importSession.snapshot.requestRevision

-----------------------------------------------------------------------------
(* The case the controller holds active is the bind the scheduler holds     *)
(* active, and the page knows that revision as a test case's.               *)
ActiveCaseIsBinding ==
    tests.controller.active # NoActive =>
        /\ sched.activeRequest.kind = "bind"
        /\ sched.activeRequest.revision = tests.controller.active.compilerRevision
        /\ sched.activeRequest.revision \in tests.controller.owned

(* The test Worker is only ever answered about the case it awaits.          *)
AnswerIsAwaited ==
    bench.answer # 0 /\ BenchAlive =>
        /\ bench.state = "waiting"
        /\ bench.answer = bench.requestId

(* A run that executes test code is watched by the 1200 ms timer, unless a  *)
(* message of it that would arm the timer is still on its way; a run whose  *)
(* case waits for the compiler is not.                                      *)
ExecutionIsWatched ==
    /\ BenchAlive /\ bench.state \in {"start", "executing"} =>
          tests.watchdog \/ \E i \in DOMAIN testMail : FromBench(testMail[i])
    /\ tests.controller.pending # 0 \/ tests.controller.active # NoActive =>
          ~tests.watchdog \/ bench.answer # 0 \/ testMail # <<>>

(* A test case that waits for the compiler Worker waits for an operation    *)
(* with a budget: the wait is bounded.                                      *)
WaitingCaseIsBounded ==
    tests.controller.pending # 0 =>
        /\ sched.phase = "busy"
        /\ link.workerTimeout # NoTimer

(* The values of a test case never become the preview.                      *)
CaseLeavesPreviewAlone == currentPlan.overrides # "case"

-----------------------------------------------------------------------------
(* The event loops are fair: timers fire, posted messages are delivered, a  *)
(* Worker handles what it is given.  Nothing is assumed of the user or of   *)
(* faults.                                                                  *)
Fairness ==
    /\ WF_vars(RestoreProfile)
    /\ WF_vars(RenderTimerFires)
    /\ WF_vars(RunTests)
    /\ WF_vars(Messages)
    /\ WF_vars(CompilerWorker)
    /\ WF_vars(TestWorker)

FairSpec == Spec /\ Fairness

(* An edit that waits for its timer, its Worker or its parse is answered in *)
(* the end, or superseded by one that is.                                   *)
Compiling ==
    renderTimer \/ "parse" \in {sched.queuedRequest.kind, sched.activeRequest.kind}

PreviewSettles == proof = "pending" /\ Compiling ~> proof # "pending"

(* A preview that a binding left pending is replaced, or the panel is       *)
(* disabled, which tells the user to compile again.                         *)
BindingSettles ==
    proof = "pending" /\ parameterSourceRevision # 0
        ~> proof # "pending" \/ parameterSourceRevision = 0

(* Every test run ends, whichever Worker is lost, unless its case waits for *)
(* an operation that has timed out, and nothing is left to start a Worker.  *)
CaseIsStranded ==
    /\ tests.controller.pending # 0
    /\ link.parserWorkerId = 0 /\ sched.queuedRequest = NoRequest

TestRunEnds == tests.worker # 0 ~> tests.worker = 0 \/ CaseIsStranded
=============================================================================
