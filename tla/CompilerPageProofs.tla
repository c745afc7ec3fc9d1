-------------------------- MODULE CompilerPageProofs --------------------------
(***************************************************************************)
(* What holds of CompilerPage for every bound, every set of inputs and     *)
(* every set of faults: first the types of everything it is made of, then  *)
(* what the page shows, then how the one operation of the compiler Worker, *)
(* what it retains, the import panel and a test case hang together.        *)
(***************************************************************************)
EXTENDS CompilerPageProperties, TLAPS

-----------------------------------------------------------------------------
(* The scheduler: what its operators return.                                *)

LEMMA RequestTypes ==
    /\ NoToken \in Token
    /\ NoRequest \in Request
    /\ NoCapture \in Capture
    /\ NewScheduler \in Scheduler
<1>1. NoToken \in Token
  BY DEF NoToken, Token
<1>2. NoRequest \in Request
  BY <1>1 DEF NoRequest, Request, Kinds, Overrides
<1>3. NoCapture \in Capture
  BY <1>1 DEF NoCapture, Capture
<1>4. NewScheduler \in Scheduler
  BY <1>2, <1>3 DEF NewScheduler, Scheduler, Phases
<1>. QED  BY <1>1, <1>2, <1>3, <1>4

LEMMA RequestConstructorTypes ==
    ASSUME NEW r \in Nat, NEW source \in Nat, NEW token \in Token,
           NEW who \in Overrides
    PROVE  /\ ParseRequest(r) \in Request
           /\ ImportRequest(r, source) \in Request
           /\ BindRequest(r, source, token, who) \in Request
BY RequestTypes DEF ParseRequest, ImportRequest, BindRequest, NoRequest, Request,
                    Kinds, Overrides

(* Every method returns a scheduler.                                        *)
LEMMA SchedulerOperatorTypes ==
    ASSUME NEW s \in Scheduler, NEW request \in Request
    PROVE  /\ SurvivingQueue(s) \in Request
           /\ CreateWorker(s) \in Scheduler
           /\ Enqueue(s, request) \in Scheduler
           /\ EnqueueImport(s, request) \in Scheduler
           /\ EnqueueBinding(s, request) \in Scheduler
           /\ MarkReady(s) \in Scheduler
           /\ TakeForDispatch(s) \in Scheduler
           /\ Fail(s) \in Scheduler
<1>. USE RequestTypes
<1>1. SurvivingQueue(s) \in Request
  BY DEF SurvivingQueue, Scheduler
<1>2. CreateWorker(s) \in Scheduler
  <2>1. s.nextWorkerId + 1 \in Nat
    BY DEF Scheduler
  <2>. QED  BY <1>1, <2>1 DEF CreateWorker, Scheduler, Phases
<1>3. Fail(s) \in Scheduler
  BY <1>1 DEF Fail, Scheduler, Phases
<1>4. /\ Enqueue(s, request) \in Scheduler
      /\ EnqueueImport(s, request) \in Scheduler
      /\ EnqueueBinding(s, request) \in Scheduler
  BY DEF Enqueue, EnqueueImport, EnqueueBinding, Scheduler
<1>5. /\ MarkReady(s) \in Scheduler
      /\ TakeForDispatch(s) \in Scheduler
  BY DEF MarkReady, TakeForDispatch, Scheduler, Phases
<1>. QED  BY <1>1, <1>2, <1>3, <1>4, <1>5

LEMMA CompleteType ==
    ASSUME NEW s \in Scheduler, NEW w \in Nat, NEW m \in Response
    PROVE  /\ Released(s, m) \in Scheduler
           /\ Complete(s, w, m) \in Scheduler
<1>1. Released(s, m) \in Scheduler
  BY RequestTypes DEF Released, Scheduler, Phases
<1>2. [workerId |-> w, sourceRevision |-> m.revision, token |-> m.token]
          \in Capture
  BY DEF Response, Capture
<1>. QED  BY <1>1, <1>2 DEF Complete, Scheduler

-----------------------------------------------------------------------------
(* TestBinding and BlueprintImport                                          *)

LEMMA ControllerOperatorTypes ==
    ASSUME NEW c \in Controller, NEW n \in Snapshot, NEW r \in Nat,
           NEW m \in Mail
    PROVE  /\ CancelController(c) \in Controller
           /\ BeginRun(c, n) \in Controller
           /\ RequestCase(c, m) \in Controller
           /\ TakeCase(c, r) \in Controller
           /\ CaseRequest(c, r) \in Request
           /\ ReleaseForRetry(c) \in Controller
           /\ ForgetRevision(c, r) \in Controller
           /\ ClearRevisions(c) \in Controller
           /\ [c EXCEPT !.active = NoActive] \in Controller
<1>1. /\ NoSnapshot \in Snapshot
      /\ NoActive \in [requestId : Nat, compilerRevision : Nat]
  BY RequestTypes DEF NoSnapshot, Snapshot, NoActive
<1>2. CancelController(c) \in Controller
  BY <1>1 DEF CancelController, Controller
<1>3. BeginRun(c, n) \in Controller
  BY <1>2 DEF BeginRun, Controller
<1>4. /\ RequestCase(c, m) \in Controller
      /\ ForgetRevision(c, r) \in Controller
      /\ ClearRevisions(c) \in Controller
      /\ [c EXCEPT !.active = NoActive] \in Controller
  BY <1>1 DEF RequestCase, ForgetRevision, ClearRevisions, Controller, Mail
<1>5. TakeCase(c, r) \in Controller
  BY DEF TakeCase, Controller
<1>6. ReleaseForRetry(c) \in Controller
  BY <1>1 DEF ReleaseForRetry, Controller
<1>7. CaseRequest(c, r) \in Request
  BY RequestConstructorTypes DEF CaseRequest, Controller, Snapshot, Overrides
<1>. QED  BY <1>2, <1>3, <1>4, <1>5, <1>6, <1>7

LEMMA TestsOperatorTypes ==
    ASSUME NEW t \in Tests
    PROVE  /\ TerminateTests(t) \in Tests
           /\ CancelTests(t) \in Tests
           /\ ScheduleTests(t) \in Tests
           /\ DropRun(t) \in Tests
           /\ Disowned(t) \in Tests
<1>1. t.controller \in Controller
  BY DEF Tests
<1>2. /\ CancelController(t.controller) \in Controller
      /\ ClearRevisions(t.controller) \in Controller
  <2>1. NoSnapshot \in Snapshot
    BY RequestTypes DEF NoSnapshot, Snapshot
  <2>2. NoActive \in [requestId : Nat, compilerRevision : Nat]
    BY DEF NoActive
  <2>. QED  BY <1>1, <2>1, <2>2
            DEF CancelController, ClearRevisions, Controller
<1>3. TerminateTests(t) \in Tests
  BY <1>2 DEF TerminateTests, Tests
<1>4. CancelTests(t) \in Tests
  <2>1. TerminateTests(t).revision + 1 \in Nat
    BY <1>3 DEF Tests
  <2>. QED  BY <1>3, <2>1 DEF CancelTests, Tests
<1>5. ScheduleTests(t) \in Tests
  BY <1>4 DEF ScheduleTests, Tests
<1>6. DropRun(t) \in Tests
  BY <1>3 DEF DropRun, Tests
<1>7. Disowned(t) \in Tests
  BY <1>2 DEF Disowned, Tests
<1>. QED  BY <1>3, <1>4, <1>5, <1>6, <1>7

LEMMA ImportTypes ==
    /\ NoImportSnapshot \in ImportSnapshot
    /\ NewImportSession \in ImportSession
    /\ ConsumeImport \in ImportSession
    /\ \A n \in ImportSnapshot : BeginImport(n) \in ImportSession
<1>1. NoImportSnapshot \in ImportSnapshot
  BY DEF NoImportSnapshot, ImportSnapshot
<1>. QED  BY <1>1 DEF NewImportSession, ConsumeImport, BeginImport,
                     ImportSession, SessionStates

LEMMA ImportOperatorTypes ==
    ASSUME NEW i \in ImportSession
    PROVE  /\ FailImport(i) \in ImportSession
           /\ InvalidateImport(i) \in ImportSession
           /\ \A m \in Response : m.outcome \in ImportOutcomes =>
                 CompleteImport(i, m) \in ImportSession
<1>1. /\ FailImport(i) \in ImportSession
      /\ InvalidateImport(i) \in ImportSession
  BY ImportTypes
     DEF FailImport, InvalidateImport, NewImportSession, ImportSession,
         SessionStates
<1>2. ASSUME NEW m \in Response, m.outcome \in ImportOutcomes
      PROVE  CompleteImport(i, m) \in ImportSession
  BY <1>2 DEF CompleteImport, ImportSession, SessionStates, ImportOutcomes,
              Response
<1>. QED  BY <1>1, <1>2

-----------------------------------------------------------------------------
(* The pump                                                                 *)

LEMMA PageTypes ==
    /\ NewRuntime \in Runtime
    /\ NoLink \in Link
    /\ NoTimer \in Timer
    /\ NoPlan \in Plan
    /\ NoBench \in Bench
    /\ NoTests \in Tests
<1>1. NewRuntime \in Runtime
  BY RequestTypes DEF NewRuntime, Runtime, NoSession
<1>2. NoTimer \in Timer
  BY DEF NoTimer, Timer
<1>3. NoLink \in Link
  BY <1>2, RequestTypes DEF NoLink, Link
<1>4. NoPlan \in Plan /\ NoBench \in Bench
  BY DEF NoPlan, Plan, Overrides, NoBench, Bench
<1>5. NewController \in Controller
  <2>1. NoSnapshot \in Snapshot
    BY RequestTypes DEF NoSnapshot, Snapshot
  <2>2. NoActive \in [requestId : Nat, compilerRevision : Nat]
    BY DEF NoActive
  <2>. QED  BY <2>1, <2>2 DEF NewController, Controller
<1>6. NoTests \in Tests
  BY <1>5 DEF NoTests, Tests
<1>. QED  BY <1>1, <1>2, <1>3, <1>4, <1>6

LEMMA ReplyTypes ==
    /\ ReadyMessage \in Response
    /\ \A request \in Request :
          \A outcome \in ParseOutcomes \cup BindOutcomes \cup ImportOutcomes :
             request.kind # "none" => Reply(request, outcome) \in Response
BY RequestTypes
   DEF ReadyMessage, Reply, Response, Request, NoRequest, Kinds, Overrides

LEMMA PendingCaseTypes ==
    ASSUME NEW s \in Scheduler, NEW t \in Tests, NEW op \in Nat,
           NEW current \in BOOLEAN
    PROVE  LET next == WithPendingCase(s, t, op, current)
           IN  next.s \in Scheduler /\ next.t \in Tests /\ next.op \in Nat
<1>. DEFINE request == CaseRequest(t.controller, op + 1)
            taken == TakeCase(t.controller, op + 1)
            released == [t EXCEPT !.controller = ReleaseForRetry(taken)]
            took == [t EXCEPT !.controller = taken]
<1>0. /\ t.controller \in Controller
      /\ op + 1 \in Nat
      /\ \E m : m \in Mail
      /\ \E n : n \in Snapshot
  <2>1. [kind |-> "bind", revision |-> 0, sourceRevision |-> 0,
         requestId |-> 0] \in Mail
    BY DEF Mail
  <2>2. NoSnapshot \in Snapshot
    BY RequestTypes DEF NoSnapshot, Snapshot
  <2>. QED  BY <2>1, <2>2 DEF Tests
<1>1. request \in Request /\ taken \in Controller
  BY <1>0, ControllerOperatorTypes
<1>2. ReleaseForRetry(taken) \in Controller
  BY <1>0, <1>1, ControllerOperatorTypes
<1>3. released \in Tests /\ took \in Tests
  BY <1>1, <1>2 DEF Tests
<1>4. TerminateTests(t) \in Tests /\ TerminateTests(released) \in Tests
  BY <1>3, TestsOperatorTypes
<1>5. EnqueueBinding(s, request) \in Scheduler
  BY <1>1, SchedulerOperatorTypes
<1>. HIDE DEF request, taken, released, took
<1>. QED  BY <1>0, <1>3, <1>4, <1>5
          DEF WithPendingCase, request, taken, released, took

LEMMA StartWorkerTypes ==
    ASSUME NEW s \in Scheduler, NEW l \in Link, StartWorker(s, l)
    PROVE  sched' \in Scheduler /\ link' \in Link
<1>1. sched' \in Scheduler
  BY RequestTypes, SchedulerOperatorTypes DEF StartWorker
<1>2. s.nextWorkerId + 1 \in Nat
  BY DEF Scheduler
<1>3. link' \in Link
  BY <1>2, RequestTypes DEF StartWorker, Link
<1>. QED  BY <1>1, <1>3

LEMMA DispatchTypes ==
    ASSUME NEW s \in Scheduler, NEW l \in Link, Dispatch(s, l)
    PROVE  sched' \in Scheduler /\ link' \in Link
<1>1. sched' \in Scheduler
  BY RequestTypes, SchedulerOperatorTypes DEF Dispatch
<1>2. /\ s.queuedRequest \in Request
      /\ IsCold(s) \in BOOLEAN
  BY DEF Scheduler, IsCold
<1>3. [workerId |-> l.parserWorkerId, kind |-> s.queuedRequest.kind,
       revision |-> s.queuedRequest.revision, cold |-> IsCold(s)] \in Timer
  BY <1>2 DEF Timer, Request, Link
<1>4. link' \in Link
  BY <1>2, <1>3 DEF Dispatch, Link
<1>. QED  BY <1>1, <1>4

LEMMA PumpTypes ==
    ASSUME compiler \in Runtime, NEW s0 \in Scheduler, NEW t0 \in Tests,
           NEW l \in Link, NEW op0 \in Nat, Pump(s0, t0, l, op0)
    PROVE  /\ sched' \in Scheduler
           /\ tests' \in Tests
           /\ link' \in Link
           /\ compiler' \in Runtime
           /\ operationCounter' \in Nat
<1>. DEFINE current == SnapshotCurrent(s0, t0, l.parserWorkerId,
                                       currentRevision',
                                       parameterSourceRevision')
            next == WithPendingCase(s0, t0, op0, current)
            s == next.s
<1>1. next.s \in Scheduler /\ next.t \in Tests /\ next.op \in Nat
  <2>1. current \in BOOLEAN
    BY DEF SnapshotCurrent
  <2>. HIDE DEF current
  <2>. QED  BY <2>1, PendingCaseTypes
<1>2. CASE StartWorker(s, l)
  BY <1>1, <1>2, StartWorkerTypes, PageTypes DEF Pump
<1>3. CASE Dispatch(s, l)
  BY <1>1, <1>3, DispatchTypes, PageTypes DEF Pump
<1>4. CASE sched' = s /\ link' = l
  BY <1>1, <1>4, PageTypes DEF Pump
<1>. HIDE DEF current, next, s
<1>. QED  BY <1>2, <1>3, <1>4 DEF Pump, current, next, s

-----------------------------------------------------------------------------
(* The invariant: types, and that an answer to a conversion is a verdict,   *)
(* because the import session takes it as its state.                        *)
TypeInv ==
    /\ TypeOK
    /\ \A r \in responses : r.message.kind = "import" =>
                              r.message.outcome \in ImportOutcomes

LEMMA RenderTypes ==
    ASSUME TypeInv, Render,
           profileReady' \in BOOLEAN, renderTimer' \in BOOLEAN,
           UNCHANGED <<responses, inputEditGeneration, importRequestRevision,
                       bench, testMail>>
    PROVE  TypeInv'
<1>1. /\ operationCounter + 1 \in Nat
      /\ ParseRequest(operationCounter + 1) \in Request
  BY RequestConstructorTypes, RequestTypes DEF TypeInv, TypeOK, Overrides
<1>2. /\ Enqueue(sched, ParseRequest(operationCounter + 1)) \in Scheduler
      /\ DropRun(tests) \in Tests
  BY <1>1, SchedulerOperatorTypes, TestsOperatorTypes DEF TypeInv, TypeOK
<1>3. /\ sched' \in Scheduler
      /\ tests' \in Tests
      /\ link' \in Link
      /\ compiler' \in Runtime
      /\ operationCounter' \in Nat
  BY <1>1, <1>2, PumpTypes DEF Render, TypeInv, TypeOK
<1>4. importSession' \in ImportSession
  BY ImportOperatorTypes, ImportTypes DEF Render, TypeInv, TypeOK
<1>. QED  BY <1>1, <1>3, <1>4, PageTypes DEF Render, ProofPending, TypeInv, TypeOK

LEMMA ScheduleRenderTypes ==
    ASSUME TypeInv, ScheduleRender, importSession' \in ImportSession
    PROVE  TypeInv'
<1>1. CancelTests(tests) \in Tests
  BY TestsOperatorTypes DEF TypeInv, TypeOK
<1>2. renderTimer' \in BOOLEAN /\ profileReady' \in BOOLEAN
  BY DEF ScheduleRender, TypeInv, TypeOK
<1>3. /\ operationCounter' \in Nat /\ currentRevision' \in Nat
      /\ parameterSourceRevision' \in Nat /\ tests' \in Tests
  BY <1>1 DEF ScheduleRender, TypeInv, TypeOK
<1>4. /\ currentPlan' \in Plan
      /\ proof' \in {"pending", "valid", "invalid"}
      /\ parameterised' \in BOOLEAN
  BY PageTypes DEF ScheduleRender, ProofPending
<1>5. UNCHANGED <<sched, link, compiler, responses, inputEditGeneration,
                  importRequestRevision, bench, testMail>>
  BY DEF ScheduleRender
<1>. QED  BY <1>2, <1>3, <1>4, <1>5 DEF TypeInv, TypeOK

LEMMA EditTypes ==
    ASSUME TypeInv, EditSource \/ ApplyImport PROVE TypeInv'
<1>1. importSession' \in ImportSession
  <2>1. /\ InvalidateImport(importSession) \in ImportSession
        /\ ConsumeImport \in ImportSession
    BY ImportOperatorTypes, ImportTypes DEF TypeInv, TypeOK
  <2>2. InvalidateImport(ConsumeImport) \in ImportSession
    BY <2>1, ImportOperatorTypes, ImportTypes
  <2>. QED  BY <2>1, <2>2 DEF EditSource, ApplyImport
<1>. QED  BY <1>1, ScheduleRenderTypes DEF EditSource, ApplyImport

LEMMA SubmitBindingTypes ==
    ASSUME TypeInv, SubmitBinding PROVE TypeInv'
<1>. DEFINE request == BindRequest(operationCounter + 1,
                            parameterSourceRevision,
                            sched.bindingCapture.token, "panel")
<1>1. /\ request \in Request
      /\ operationCounter + 1 \in Nat
  BY RequestConstructorTypes
     DEF TypeInv, TypeOK, Scheduler, Capture, Overrides
<1>2. /\ EnqueueBinding(sched, request) \in Scheduler
      /\ CancelTests(tests) \in Tests
  BY <1>1, SchedulerOperatorTypes, TestsOperatorTypes DEF TypeInv, TypeOK
<1>. HIDE DEF request
<1>3. CASE Pump(EnqueueBinding(sched, request), CancelTests(tests), link,
                operationCounter + 1) /\ ProofPending
           /\ UNCHANGED <<parameterSourceRevision, sourceVars, parameterised,
                          importVars, responses, bench, testMail>>
  <2>1. /\ sched' \in Scheduler
        /\ tests' \in Tests
        /\ link' \in Link
        /\ compiler' \in Runtime
        /\ operationCounter' \in Nat
    BY <1>1, <1>2, <1>3, PumpTypes DEF TypeInv, TypeOK
  <2>. QED  BY <1>3, <2>1, PageTypes
            DEF ProofPending, TypeInv, TypeOK, sourceVars, importVars
<1>4. CASE /\ operationCounter' \in {operationCounter, operationCounter + 1}
           /\ parameterSourceRevision' \in {0, parameterSourceRevision}
           /\ tests' = CancelTests(tests)
           /\ UNCHANGED <<previewVars, sourceVars, parameterised, importVars,
                          responses, bench, testMail, sched, link, compiler>>
  BY <1>1, <1>2, <1>4
     DEF TypeInv, TypeOK, sourceVars, importVars, previewVars
<1>. QED  BY <1>3, <1>4 DEF SubmitBinding, request

LEMMA SubmitImportTypes ==
    ASSUME TypeInv, SubmitImport PROVE TypeInv'
<1>. DEFINE snapshot == [CurrentImportSnapshot EXCEPT
                            !.requestRevision = operationCounter + 1]
            request == ImportRequest(operationCounter + 1, inputEditGeneration)
<1>1. CurrentImportSnapshot \in ImportSnapshot
  BY ImportTypes
     DEF CurrentImportSnapshot, ImportSnapshot, NoImportSnapshot, TypeInv, TypeOK,
         Link
<1>2. /\ snapshot \in ImportSnapshot
      /\ request \in Request
      /\ operationCounter + 1 \in Nat
  BY <1>1, RequestConstructorTypes, RequestTypes
     DEF TypeInv, TypeOK, ImportSnapshot, Overrides
<1>. HIDE DEF snapshot, request
<1>3. /\ BeginImport(snapshot) \in ImportSession
      /\ FailImport(BeginImport(snapshot)) \in ImportSession
      /\ EnqueueImport(sched, request) \in Scheduler
      /\ CancelTests(tests) \in Tests
  <2>1. BeginImport(snapshot) \in ImportSession
    BY <1>2, ImportOperatorTypes, ImportTypes DEF TypeInv, TypeOK
  <2>. QED  BY <1>2, <2>1, ImportOperatorTypes, ImportTypes,
               SchedulerOperatorTypes, TestsOperatorTypes
            DEF TypeInv, TypeOK
<1>4. CASE /\ importSession' = BeginImport(snapshot)
           /\ Pump(EnqueueImport(sched, request), CancelTests(tests), link,
                   operationCounter + 1)
  <2>1. /\ sched' \in Scheduler
        /\ tests' \in Tests
        /\ link' \in Link
        /\ compiler' \in Runtime
        /\ operationCounter' \in Nat
    BY <1>2, <1>3, <1>4, PumpTypes DEF TypeInv, TypeOK
  <2>. QED  BY <1>2, <1>3, <1>4, <2>1
            DEF SubmitImport, TypeInv, TypeOK, sourceVars, parameterVars,
                previewVars
<1>5. CASE /\ importSession' = FailImport(BeginImport(snapshot))
           /\ operationCounter' = operationCounter + 1
           /\ tests' = CancelTests(tests)
           /\ UNCHANGED <<sched, link, compiler>>
  BY <1>2, <1>3, <1>5
     DEF SubmitImport, TypeInv, TypeOK, sourceVars, parameterVars, previewVars
<1>. QED  BY <1>4, <1>5 DEF SubmitImport, snapshot, request

LEMMA UserTypes ==
    ASSUME TypeInv, User PROVE TypeInv'
<1>1. CASE EditImportInput
  <2>1. InvalidateImport(importSession) \in ImportSession
    BY ImportOperatorTypes, ImportTypes DEF TypeInv, TypeOK
  <2>. QED  BY <1>1, <2>1
            DEF EditImportInput, TypeInv, TypeOK, sourceVars, parameterVars,
                previewVars, pumpVars
<1>2. CASE EditTests
  BY <1>2, TestsOperatorTypes
     DEF EditTests, TypeInv, TypeOK, sourceVars, parameterVars, previewVars,
         importVars
<1>. QED  BY <1>1, <1>2, EditTypes, SubmitBindingTypes, SubmitImportTypes
          DEF User

-----------------------------------------------------------------------------
(* Handlers that end in a pump                                              *)

(* What is left to show of a handler when its pump's arguments have types.  *)
LEMMA PumpKeepsTypes ==
    ASSUME TypeInv, NEW s \in Scheduler, NEW t \in Tests, NEW l \in Link,
           Pump(s, t, l, operationCounter),
           UNCHANGED <<sourceVars, inputEditGeneration, importRequestRevision,
                       testMail>>,
           responses' \subseteq responses,
           parameterSourceRevision' \in Nat,
           parameterised' \in BOOLEAN,
           currentPlan' \in Plan,
           proof' \in {"pending", "valid", "invalid"},
           importSession' \in ImportSession,
           bench' \in Bench
    PROVE  TypeInv'
<1>1. /\ sched' \in Scheduler
      /\ tests' \in Tests
      /\ link' \in Link
      /\ compiler' \in Runtime
      /\ operationCounter' \in Nat
  BY PumpTypes DEF TypeInv, TypeOK
<1>. QED  BY <1>1 DEF TypeInv, TypeOK, sourceVars

LEMMA MessageTypes ==
    ASSUME TypeInv, NEW r, FromCurrent(r)
    PROVE  /\ r.worker \in Nat
           /\ r.message \in Response
           /\ Released(sched, r.message) \in Scheduler
           /\ Complete(sched, r.worker, r.message) \in Scheduler
           /\ Idle(link) \in Link
           /\ r.message.kind = "import" => r.message.outcome \in ImportOutcomes
<1>1. /\ r.worker \in Nat
      /\ r.message \in Response
  BY DEF FromCurrent, TypeInv, TypeOK
<1>2. Idle(link) \in Link
  BY PageTypes DEF Idle, Link, TypeInv, TypeOK
<1>. QED  BY <1>1, <1>2, CompleteType DEF TypeInv, TypeOK, FromCurrent

(* What HandleCaseBound does, with types.                                   *)
LEMMA CaseBoundPump ==
    ASSUME TypeInv, HandleCaseBound
    PROVE  /\ parameterSourceRevision' \in {0, parameterSourceRevision}
           /\ bench' \in Bench
           /\ \E r \in responses, t \in Tests :
                 /\ Completes(r, TRUE)
                 /\ Pump(Complete(sched, r.worker, r.message), t, Idle(link),
                         operationCounter)
           /\ UNCHANGED <<sourceVars, parameterised, previewVars, importVars,
                          testMail>>
<1>1. PICK r \in responses :
         LET m == r.message
             s == Complete(sched, r.worker, m)
             forgot == [tests EXCEPT !.controller = ForgetRevision(@, m.revision)]
             answered == [forgot EXCEPT !.controller.active = NoActive]
             cancelled == [answered EXCEPT !.controller = CancelController(@)]
         IN  /\ Completes(r, TRUE)
             /\ parameterSourceRevision' \in {0, parameterSourceRevision}
             /\ bench' \in {bench,
                    [bench EXCEPT !.answer = forgot.controller.active.requestId]}
             /\ \E t \in {forgot, answered, cancelled, CancelTests(cancelled)} :
                   Pump(s, t, Idle(link), operationCounter)
             /\ UNCHANGED <<sourceVars, parameterised, previewVars, importVars,
                            testMail>>
  BY DEF HandleCaseBound
<1>. DEFINE m == r.message
            s == Complete(sched, r.worker, m)
            forgot == [tests EXCEPT !.controller = ForgetRevision(@, m.revision)]
            answered == [forgot EXCEPT !.controller.active = NoActive]
            cancelled == [answered EXCEPT !.controller = CancelController(@)]
<1>2. m \in Response
  BY <1>1, MessageTypes DEF Completes
<1>3. /\ tests.controller \in Controller
      /\ m.revision \in Nat
      /\ [kind |-> "bind", revision |-> 0, sourceRevision |-> 0,
          requestId |-> 0] \in Mail
      /\ NoSnapshot \in Snapshot
  BY <1>2, RequestTypes
     DEF TypeInv, TypeOK, Tests, Response, Mail, NoSnapshot, Snapshot
<1>4. ForgetRevision(tests.controller, m.revision) \in Controller
  BY <1>3, ControllerOperatorTypes
<1>5. forgot \in Tests
  BY <1>4 DEF TypeInv, TypeOK, Tests
<1>6. /\ forgot.controller \in Controller
      /\ [forgot.controller EXCEPT !.active = NoActive] \in Controller
  BY <1>3, <1>5, ControllerOperatorTypes DEF Tests
<1>7. answered \in Tests
  BY <1>5, <1>6 DEF Tests
<1>8. CancelController(answered.controller) \in Controller
  BY <1>3, <1>7, ControllerOperatorTypes DEF Tests
<1>9. cancelled \in Tests /\ CancelTests(cancelled) \in Tests
  <2>1. cancelled \in Tests
    BY <1>7, <1>8 DEF Tests
  <2>. QED  BY <2>1, TestsOperatorTypes
<1>10. bench' \in Bench
  <2>1. forgot.controller.active.requestId \in Nat
    BY <1>6 DEF Controller
  <2>. HIDE DEF forgot
  <2>. QED  BY <1>1, <2>1 DEF Bench, TypeInv, TypeOK, forgot
<1>11. PICK t \in {forgot, answered, cancelled, CancelTests(cancelled)} :
          Pump(s, t, Idle(link), operationCounter)
  BY <1>1
<1>12. t \in Tests
  BY <1>5, <1>7, <1>9
<1>13. /\ r \in responses
       /\ Completes(r, TRUE)
       /\ Pump(Complete(sched, r.worker, r.message), t, Idle(link),
               operationCounter)
       /\ parameterSourceRevision' \in {0, parameterSourceRevision}
       /\ UNCHANGED <<sourceVars, parameterised, previewVars, importVars,
                      testMail>>
  BY <1>1, <1>11
<1>. HIDE DEF m, s, forgot, answered, cancelled
<1>. QED  BY <1>10, <1>12, <1>13

LEMMA CaseBoundTypes ==
    ASSUME TypeInv, HandleCaseBound PROVE TypeInv'
<1>1. PICK r \in responses, t \in Tests :
         /\ Completes(r, TRUE)
         /\ Pump(Complete(sched, r.worker, r.message), t, Idle(link),
                 operationCounter)
  BY CaseBoundPump
<1>2. /\ Complete(sched, r.worker, r.message) \in Scheduler
      /\ Idle(link) \in Link
      /\ responses' \subseteq responses
  BY <1>1, MessageTypes DEF Completes, Delivered
<1>3. /\ parameterSourceRevision' \in {0, parameterSourceRevision}
      /\ bench' \in Bench
      /\ UNCHANGED <<sourceVars, parameterised, previewVars, importVars,
                     testMail>>
  BY CaseBoundPump
<1>. QED  BY <1>1, <1>2, <1>3, PumpKeepsTypes
          DEF TypeInv, TypeOK, importVars, previewVars

LEMMA ImportedTypes ==
    ASSUME TypeInv, HandleReady \/ HandleStaleCompletion \/ HandleImported
    PROVE  TypeInv'
<1>. USE DEF TypeInv, TypeOK
<1>1. CASE HandleReady
  <2>1. /\ MarkReady(sched) \in Scheduler
        /\ [link EXCEPT !.bootTimer = 0] \in Link
    BY RequestTypes, SchedulerOperatorTypes DEF Link
  <2>2. responses' \subseteq responses
    BY <1>1 DEF HandleReady, Delivered
  <2>. QED  BY <1>1, <2>1, <2>2, PumpKeepsTypes
            DEF HandleReady, sourceVars, parameterVars, previewVars, importVars
<1>2. CASE HandleStaleCompletion
  <2>1. PICK r \in responses :
           /\ Completes(r, FALSE)
           /\ Pump(Complete(sched, r.worker, r.message), tests, Idle(link),
                   operationCounter)
    BY <1>2 DEF HandleStaleCompletion
  <2>2. /\ Complete(sched, r.worker, r.message) \in Scheduler
        /\ Idle(link) \in Link
        /\ responses' \subseteq responses
    BY <2>1, MessageTypes DEF Completes, Delivered
  <2>. QED  BY <1>2, <2>1, <2>2, PumpKeepsTypes
            DEF HandleStaleCompletion, sourceVars, parameterVars, previewVars,
                importVars
<1>3. CASE HandleImported
  <2>1. PICK r \in responses :
           /\ Completes(r, FALSE)
           /\ r.message.kind = "import"
           /\ importSession' \in {importSession,
                                  CompleteImport(importSession, r.message)}
           /\ Pump(Complete(sched, r.worker, r.message), tests, Idle(link),
                   operationCounter)
    BY <1>3 DEF HandleImported
  <2>2. /\ Complete(sched, r.worker, r.message) \in Scheduler
        /\ Idle(link) \in Link
        /\ responses' \subseteq responses
        /\ CompleteImport(importSession, r.message) \in ImportSession
    BY <2>1, MessageTypes, ImportOperatorTypes DEF Completes, Delivered
  <2>. QED  BY <1>3, <2>1, <2>2, PumpKeepsTypes
            DEF HandleImported, sourceVars, parameterVars, previewVars
<1>. QED  BY <1>1, <1>2, <1>3

LEMMA BoundTypes ==
    ASSUME TypeInv, HandleBound PROVE TypeInv'
<1>1. PICK r \in responses :
         /\ Completes(r, FALSE)
         /\ parameterSourceRevision' \in {0, parameterSourceRevision}
         /\ currentPlan' \in {currentPlan, NoPlan,
                              [source |-> r.message.sourceRevision,
                               overrides |-> r.message.overrides]}
         /\ proof' \in {proof, "valid", "invalid"}
         /\ \E t \in {tests, ScheduleTests(tests)} :
               Pump(Complete(sched, r.worker, r.message), t, Idle(link),
                    operationCounter)
         /\ UNCHANGED <<sourceVars, parameterised, importVars, bench, testMail>>
  BY DEF HandleBound, previewVars
<1>2. /\ r.message \in Response
      /\ Complete(sched, r.worker, r.message) \in Scheduler
      /\ Idle(link) \in Link
      /\ responses' \subseteq responses
  BY <1>1, MessageTypes DEF Completes, Delivered
<1>3. currentPlan' \in Plan
  BY <1>1, <1>2, PageTypes DEF Plan, Response, TypeInv, TypeOK
<1>4. PICK t \in Tests : Pump(Complete(sched, r.worker, r.message), t, Idle(link),
                              operationCounter)
  BY <1>1, TestsOperatorTypes DEF TypeInv, TypeOK
<1>. QED  BY <1>1, <1>2, <1>3, <1>4, PumpKeepsTypes
          DEF TypeInv, TypeOK, importVars

LEMMA ParsedTypes ==
    ASSUME TypeInv, HandleParsed PROVE TypeInv'
<1>1. PICK r \in responses :
         /\ Completes(r, FALSE)
         /\ parameterSourceRevision' \in {0, currentRevision,
                                          parameterSourceRevision}
         /\ parameterised' \in {parameterised, r.message.outcome # "plain"}
         /\ currentPlan' \in {currentPlan, NoPlan,
                              [source |-> r.message.revision,
                               overrides |-> "none"]}
         /\ proof' \in {proof, "valid", "invalid"}
         /\ \E t \in {tests, ScheduleTests(tests)} :
               Pump(Complete(sched, r.worker, r.message), t, Idle(link),
                    operationCounter)
         /\ UNCHANGED <<sourceVars, importVars, bench, testMail>>
  BY DEF HandleParsed, previewVars, parameterVars
<1>2. /\ r.message \in Response
      /\ Complete(sched, r.worker, r.message) \in Scheduler
      /\ Idle(link) \in Link
      /\ responses' \subseteq responses
  BY <1>1, MessageTypes DEF Completes, Delivered
<1>3. currentPlan' \in Plan
  BY <1>1, <1>2, PageTypes DEF Plan, Response, Overrides, TypeInv, TypeOK
<1>4. PICK t \in Tests : Pump(Complete(sched, r.worker, r.message), t, Idle(link),
                              operationCounter)
  BY <1>1, TestsOperatorTypes DEF TypeInv, TypeOK
<1>5. parameterised' \in BOOLEAN
  BY <1>1 DEF TypeInv, TypeOK
<1>. QED  BY <1>1, <1>2, <1>3, <1>4, <1>5, PumpKeepsTypes
          DEF TypeInv, TypeOK, importVars

LEMMA AskedType ==
    ASSUME TypeInv, testMail # <<>>
    PROVE  [tests EXCEPT !.watchdog = FALSE,
                         !.controller = RequestCase(@, Head(testMail))] \in Tests
<1>1. Head(testMail) \in Mail
  BY DEF TypeInv, TypeOK
<1>2. RequestCase(tests.controller, Head(testMail)) \in Controller
  BY <1>1 DEF RequestCase, Controller, Mail, Tests, TypeInv, TypeOK
<1>. QED  BY <1>2 DEF Tests, TypeInv, TypeOK

LEMMA TestMailTypes ==
    ASSUME TypeInv, HandleTestMail PROVE TypeInv'
<1>. DEFINE m == Head(testMail)
            asked == [tests EXCEPT !.watchdog = FALSE,
                                   !.controller = RequestCase(@, m)]
<1>1. m \in Mail /\ testMail' \in Seq(Mail)
  BY DEF HandleTestMail, TypeInv, TypeOK
<1>2. asked \in Tests
  BY AskedType DEF HandleTestMail
<1>3. CASE Pump(sched, asked, link, operationCounter)
  <2>1. /\ sched' \in Scheduler
        /\ tests' \in Tests
        /\ link' \in Link
        /\ compiler' \in Runtime
        /\ operationCounter' \in Nat
    BY <1>2, <1>3, PumpTypes DEF TypeInv, TypeOK
  <2>. QED  BY <1>1, <2>1
            DEF HandleTestMail, TypeInv, TypeOK, sourceVars, parameterVars,
                previewVars, importVars
<1>4. CASE /\ tests' \in {tests, [tests EXCEPT !.watchdog = m.kind = "executing"],
                          TerminateTests(tests)}
           /\ UNCHANGED <<sched, link, compiler, operationCounter>>
  <2>1. tests' \in Tests
    BY <1>4, TestsOperatorTypes DEF TypeInv, TypeOK, Tests
  <2>. QED  BY <1>1, <1>4, <2>1
            DEF HandleTestMail, TypeInv, TypeOK, sourceVars, parameterVars,
                previewVars, importVars
<1>. QED  BY <1>3, <1>4 DEF HandleTestMail

LEMMA MessagesTypes ==
    ASSUME TypeInv, Messages PROVE TypeInv'
<1>1. CASE IgnoreMessage
  <2>1. responses' \subseteq responses
    BY <1>1 DEF IgnoreMessage, Delivered
  <2>. QED  BY <1>1, <2>1
            DEF IgnoreMessage, TypeInv, TypeOK, sourceVars, parameterVars,
                previewVars, pumpVars, importVars
<1>. QED  BY <1>1, ImportedTypes, CaseBoundTypes, BoundTypes, ParsedTypes,
             TestMailTypes
          DEF Messages

-----------------------------------------------------------------------------
(* Losses                                                                   *)

LEMMA LossTypes ==
    ASSUME TypeInv
    PROVE  /\ Fail(sched) \in Scheduler
           /\ CancelTests(tests) \in Tests
           /\ Disowned(tests) \in Tests
           /\ Disowned(CancelTests(tests)) \in Tests
           /\ CancelTests(Disowned(tests)) \in Tests
           /\ TerminateTests(tests) \in Tests
<1>1. CancelTests(tests) \in Tests /\ Disowned(tests) \in Tests
  BY TestsOperatorTypes DEF TypeInv, TypeOK
<1>2. Fail(sched) \in Scheduler
  BY RequestTypes, SchedulerOperatorTypes DEF TypeInv, TypeOK
<1>. QED  BY <1>1, <1>2, TestsOperatorTypes DEF TypeInv, TypeOK

LEMMA LossesTypes ==
    ASSUME TypeInv, Losses PROVE TypeInv'
<1>1. /\ Fail(sched) \in Scheduler
      /\ CancelTests(tests) \in Tests
      /\ Disowned(tests) \in Tests
      /\ Disowned(CancelTests(tests)) \in Tests
      /\ CancelTests(Disowned(tests)) \in Tests
      /\ TerminateTests(tests) \in Tests
  BY LossTypes
<1>2. /\ InvalidateImport(importSession) \in ImportSession
      /\ FailImport(importSession) \in ImportSession
  BY ImportOperatorTypes DEF TypeInv, TypeOK
<1>3. CASE HandleBootstrapTimeout
  <2>1. [link EXCEPT !.parserWorkerId = 0, !.bootTimer = 0,
                     !.mailbox = NoRequest] \in Link
    BY RequestTypes DEF Link, TypeInv, TypeOK
  <2>2. PICK t \in Tests : Pump(Fail(sched), t,
                                [link EXCEPT !.parserWorkerId = 0,
                                             !.bootTimer = 0,
                                             !.mailbox = NoRequest],
                                operationCounter)
    BY <1>1, <1>3 DEF HandleBootstrapTimeout
  <2>. QED  BY <1>1, <1>2, <1>3, <2>1, <2>2, PumpKeepsTypes, PageTypes
            DEF HandleBootstrapTimeout, TypeInv, TypeOK, parameterVars
<1>4. CASE HandleWorkerError
  <2>1. PICK t \in Tests : Pump(Fail(sched), t, NoLink, operationCounter)
    BY <1>1, <1>4 DEF HandleWorkerError
  <2>2. /\ parameterSourceRevision' \in Nat
        /\ currentPlan' \in Plan
        /\ proof' \in {"pending", "valid", "invalid"}
        /\ importSession' \in ImportSession
    BY <1>2, <1>4, PageTypes DEF HandleWorkerError, TypeInv, TypeOK, previewVars
  <2>. QED  BY <1>1, <1>4, <2>1, <2>2, PumpKeepsTypes, PageTypes
            DEF HandleWorkerError, TypeInv, TypeOK
<1>5. CASE CaseBindingTimeout \/ BindingTimeout \/ ImportTimeout \/ ParseTimeout
  <2>1. [link EXCEPT !.parserWorkerId = 0, !.workerTimeout = NoTimer,
                     !.mailbox = NoRequest] \in Link
    BY RequestTypes, PageTypes DEF Link, TypeInv, TypeOK
  <2>2. PICK t \in Tests : LoseToTimeout(t)
    BY <1>1, <1>5
       DEF CaseBindingTimeout, BindingTimeout, ImportTimeout, ParseTimeout
  <2>3. /\ parameterSourceRevision' \in Nat
        /\ currentPlan' \in Plan
        /\ proof' \in {"pending", "valid", "invalid"}
        /\ importSession' \in ImportSession
    BY <1>2, <1>5, PageTypes
       DEF CaseBindingTimeout, BindingTimeout, ImportTimeout, ParseTimeout,
           TypeInv, TypeOK, previewVars
  <2>4. UNCHANGED <<sourceVars, parameterised, inputEditGeneration,
                    importRequestRevision, responses, bench, testMail>>
    BY <1>5 DEF CaseBindingTimeout, BindingTimeout, ImportTimeout, ParseTimeout,
                TimedOut
  <2>. QED  BY <1>1, <2>1, <2>2, <2>3, <2>4, PumpKeepsTypes
            DEF LoseToTimeout, TypeInv, TypeOK
<1>6. CASE LoseTestWorker
  BY <1>1, <1>6 DEF LoseTestWorker, TypeInv, TypeOK, sourceVars, parameterVars,
                    previewVars, importVars
<1>. QED  BY <1>3, <1>4, <1>5, <1>6 DEF Losses

-----------------------------------------------------------------------------
(* Tests and Workers                                                        *)

LEMMA RunTestsTypes ==
    ASSUME TypeInv, RunTests PROVE TypeInv'
<1>. DEFINE started == [TerminateTests(tests) EXCEPT
                           !.revision = tests.revision + 1, !.renderTimer = FALSE,
                           !.worker = tests.revision + 1, !.watchdog = TRUE]
            snapshot == [revision |-> tests.revision + 1,
                         sourceRevision |-> currentRevision,
                         workerId |-> sched.bindingCapture.workerId,
                         token |-> sched.bindingCapture.token]
            NewBench(source) == [NoBench EXCEPT !.run = tests.revision + 1,
                                                !.state = "start",
                                                !.sourceRevision = source]
            bound == [started EXCEPT !.controller = BeginRun(@, snapshot)]
<1>1. tests.revision + 1 \in Nat /\ TerminateTests(tests) \in Tests
  BY TestsOperatorTypes DEF TypeInv, TypeOK, Tests
<1>2. started \in Tests
  BY <1>1 DEF Tests
<1>3. snapshot \in Snapshot
  BY <1>1 DEF Snapshot, TypeInv, TypeOK, Scheduler, Capture
<1>4. bound \in Tests
  <2>1. started.controller \in Controller
    BY <1>2 DEF Tests
  <2>2. [kind |-> "bind", revision |-> 0, sourceRevision |-> 0,
         requestId |-> 0] \in Mail
    BY DEF Mail
  <2>. HIDE DEF snapshot, started
  <2>3. BeginRun(started.controller, snapshot) \in Controller
    BY <1>3, <2>1, <2>2, ControllerOperatorTypes
  <2>. QED  BY <1>2, <2>3 DEF Tests
<1>5. NewBench(currentRevision) \in Bench /\ NewBench(0) \in Bench
  BY <1>1, PageTypes DEF Bench, TypeInv, TypeOK
<1>6. [tests EXCEPT !.renderTimer = FALSE] \in Tests
  BY DEF TypeInv, TypeOK, Tests
<1>7. /\ tests' \in {[tests EXCEPT !.renderTimer = FALSE], started, bound}
      /\ bench' \in {bench, NewBench(currentRevision), NewBench(0)}
  BY DEF RunTests
<1>. HIDE DEF started, snapshot, NewBench, bound
<1>8. tests' \in Tests /\ bench' \in Bench
  BY <1>2, <1>4, <1>5, <1>6, <1>7 DEF TypeInv, TypeOK
<1>. QED  BY <1>8 DEF RunTests, TypeInv, TypeOK, sourceVars, parameterVars,
                      previewVars, importVars

LEMMA CompilerWorkerTypes ==
    ASSUME TypeInv, CompilerWorker PROVE TypeInv'
<1>. USE DEF TypeInv, TypeOK, compilerFrame, sourceVars, parameterVars,
             previewVars, importVars
<1>1. [link EXCEPT !.mailbox = NoRequest] \in Link
  BY RequestTypes DEF Link
<1>2. /\ link.mailbox \in Request /\ compiler.job \in Request
      /\ link.parserWorkerId \in Nat /\ compiler.sequence + 1 \in Nat
      /\ compiler.parses + 1 \in Nat
      /\ NoSession \in [token : Token, revision : Nat]
      /\ <<link.parserWorkerId, compiler.sequence + 1>> \in Token
  BY RequestTypes DEF Link, Runtime, NoSession, Token
<1>3. CASE WorkerBoots
  <2>1. [compiler EXCEPT !.posted = TRUE] \in Runtime
    BY DEF Runtime
  <2>2. /\ [worker |-> link.parserWorkerId, message |-> ReadyMessage]
               \in [worker : Nat, message : Response]
        /\ ReadyMessage.kind # "import"
    BY <1>2, ReplyTypes DEF ReadyMessage, Reply, NoRequest
  <2>. QED  BY <1>3, <2>1, <2>2 DEF WorkerBoots, Post
<1>4. CASE WorkerStartsParse
  <2>1. [compiler EXCEPT !.parses = @ + 1, !.session = NoSession,
                         !.job = link.mailbox] \in Runtime
    BY <1>2 DEF Runtime
  <2>. QED  BY <1>1, <1>4, <2>1 DEF WorkerStartsParse
<1>5. CASE WorkerStartsImport
  <2>1. [compiler EXCEPT !.job = link.mailbox] \in Runtime
    BY <1>2 DEF Runtime
  <2>. QED  BY <1>1, <1>5, <2>1 DEF WorkerStartsImport
<1>6. CASE WorkerFinishesImport
  <2>1. PICK outcome \in ImportOutcomes :
           Post(link.parserWorkerId, Reply(compiler.job, outcome))
    BY <1>6 DEF WorkerFinishesImport
  <2>2. /\ Reply(compiler.job, outcome) \in Response
        /\ Reply(compiler.job, outcome).outcome \in ImportOutcomes
    BY <1>2, <1>6, ReplyTypes DEF WorkerFinishesImport, Reply
  <2>3. [compiler EXCEPT !.job = NoRequest] \in Runtime
    BY RequestTypes DEF Runtime
  <2>. QED  BY <1>2, <1>6, <2>1, <2>2, <2>3 DEF WorkerFinishesImport, Post
<1>7. CASE WorkerBinds
  <2>1. PICK outcome \in BindOutcomes :
           Post(link.parserWorkerId, Reply(link.mailbox, outcome))
    BY <1>7 DEF WorkerBinds
  <2>2. /\ Reply(link.mailbox, outcome) \in Response
        /\ Reply(link.mailbox, outcome).kind = "bind"
    BY <1>2, <1>7, ReplyTypes DEF WorkerBinds, Reply
  <2>. QED  BY <1>1, <1>2, <1>7, <2>1, <2>2 DEF WorkerBinds, Post
<1>8. CASE WorkerFinishesParse
  <2>. DEFINE token == <<link.parserWorkerId, compiler.sequence + 1>>
              retaining == [compiler EXCEPT
                              !.job = NoRequest, !.sequence = @ + 1,
                              !.session = [token |-> token,
                                           revision |-> compiler.job.revision]]
  <2>1. PICK outcome \in ParseOutcomes :
           /\ compiler' \in {retaining, [compiler EXCEPT !.job = NoRequest]}
           /\ \E reply \in {Reply(compiler.job, outcome),
                            [Reply(compiler.job, outcome) EXCEPT
                                !.token = token]} :
                 Post(link.parserWorkerId, reply)
    BY <1>8 DEF WorkerFinishesParse
  <2>2. PICK reply \in {Reply(compiler.job, outcome),
                        [Reply(compiler.job, outcome) EXCEPT !.token = token]} :
           Post(link.parserWorkerId, reply)
    BY <2>1
  <2>3. /\ Reply(compiler.job, outcome) \in Response
        /\ Reply(compiler.job, outcome).kind = "parse"
    BY <1>2, <1>8, ReplyTypes DEF WorkerFinishesParse, Reply
  <2>4. reply \in Response /\ reply.kind = "parse"
    BY <1>2, <2>2, <2>3 DEF Response
  <2>5. compiler' \in Runtime
    <3>1. [token |-> token, revision |-> compiler.job.revision]
              \in [token : Token, revision : Nat]
      BY <1>2 DEF Request
    <3>2. retaining \in Runtime
      BY <1>2, <3>1, RequestTypes DEF Runtime
    <3>. QED  BY <2>1, <3>2, RequestTypes DEF Runtime
  <2>6. /\ responses' = responses \cup {[worker |-> link.parserWorkerId,
                                         message |-> reply]}
        /\ [worker |-> link.parserWorkerId, message |-> reply]
               \in [worker : Nat, message : Response]
    BY <1>2, <2>2, <2>4 DEF Post
  <2>7. UNCHANGED <<compilerFrame, link>>
    BY <1>8 DEF WorkerFinishesParse
  <2>. HIDE DEF token, retaining
  <2>. QED  BY <2>4, <2>5, <2>6, <2>7
<1>. QED  BY <1>3, <1>4, <1>5, <1>6, <1>7, <1>8 DEF CompilerWorker

LEMMA TestWorkerTypes ==
    ASSUME TypeInv, TestWorker PROVE TypeInv'
<1>. USE DEF TypeInv, TypeOK, benchFrame, pumpVars, sourceVars, parameterVars,
             previewVars, importVars
<1>1. \A kind \in {"executing", "waiting", "bind", "tested"}, id \in Nat :
         Say(kind, id) \in Mail
  BY DEF Say, Mail, Bench
<1>2. bench.requestId + 1 \in Nat
  BY DEF Bench
<1>3. CASE BenchStarts
  <2>1. [bench EXCEPT !.state = "executing"] \in Bench
    BY DEF Bench
  <2>2. Append(testMail, Say("executing", 0)) \in Seq(Mail)
    BY <1>1
  <2>. QED  BY <1>3, <2>1, <2>2 DEF BenchStarts
<1>4. CASE BenchAsks
  <2>1. [bench EXCEPT !.state = "waiting", !.requestId = @ + 1] \in Bench
    BY <1>2 DEF Bench
  <2>2. <<Say("waiting", 0), Say("bind", bench.requestId + 1)>> \in Seq(Mail)
    BY <1>1, <1>2
  <2>3. testMail \o <<Say("waiting", 0), Say("bind", bench.requestId + 1)>>
            \in Seq(Mail)
    BY <2>2
  <2>. QED  BY <1>4, <2>1, <2>3 DEF BenchAsks
<1>5. CASE BenchReceives
  <2>1. /\ [bench EXCEPT !.state = "executing", !.answer = 0] \in Bench
        /\ [bench EXCEPT !.answer = 0] \in Bench
    BY DEF Bench
  <2>2. Append(testMail, Say("executing", 0)) \in Seq(Mail)
    BY <1>1
  <2>. QED  BY <1>5, <2>1, <2>2 DEF BenchReceives
<1>6. CASE BenchFinishes
  <2>1. [bench EXCEPT !.state = "done"] \in Bench
    BY DEF Bench
  <2>2. Append(testMail, Say("tested", 0)) \in Seq(Mail)
    BY <1>1
  <2>. QED  BY <1>6, <2>1, <2>2 DEF BenchFinishes
<1>. QED  BY <1>3, <1>4, <1>5, <1>6 DEF TestWorker

-----------------------------------------------------------------------------
LEMMA TypeInvPreserved ==
    ASSUME TypeInv, [Next]_vars PROVE TypeInv'
<1>1. CASE UNCHANGED vars
  BY <1>1 DEF vars, TypeInv, TypeOK
<1>2. CASE RestoreProfile
  BY <1>2, RenderTypes DEF RestoreProfile, TypeInv, TypeOK
<1>3. CASE RenderTimerFires
  <2>1. CASE profileReady
    BY <1>3, <2>1, RenderTypes DEF RenderTimerFires, TypeInv, TypeOK
  <2>2. CASE ~profileReady
    BY <1>3, <2>2 DEF RenderTimerFires, TypeInv, TypeOK, parameterVars,
                      previewVars, pumpVars
  <2>. QED  BY <2>1, <2>2
<1>. QED  BY <1>1, <1>2, <1>3, UserTypes, MessagesTypes, LossesTypes,
             RunTestsTypes, CompilerWorkerTypes, TestWorkerTypes
          DEF Next, PageTimers

LEMMA InitTypes ==
    Init => TypeInv
<1>1. ASSUME Init
      PROVE  /\ sched \in Scheduler /\ link \in Link /\ compiler \in Runtime
             /\ currentPlan \in Plan /\ importSession \in ImportSession
             /\ tests \in Tests /\ bench \in Bench /\ testMail \in Seq(Mail)
  BY <1>1, RequestTypes, PageTypes, ImportTypes DEF Init
<1>2. ASSUME Init
      PROVE  /\ responses = {} /\ profileReady \in BOOLEAN
             /\ renderTimer \in BOOLEAN /\ parameterised \in BOOLEAN
  BY <1>2 DEF Init
<1>3. ASSUME Init
      PROVE  /\ operationCounter \in Nat /\ currentRevision \in Nat
             /\ parameterSourceRevision \in Nat
             /\ inputEditGeneration \in Nat /\ importRequestRevision \in Nat
             /\ proof \in {"pending", "valid", "invalid"}
  BY <1>3 DEF Init
<1>. QED  BY <1>1, <1>2, <1>3 DEF TypeInv, TypeOK

(* Every variable keeps its type, for every bound, input and fault.         *)
THEOREM PageTypeCorrect == Spec => []TypeOK
<1>1. Init => TypeInv
  BY InitTypes
<1>2. TypeInv => TypeOK
  BY DEF TypeInv
<1>. QED  BY <1>1, <1>2, TypeInvPreserved, PTL DEF Spec

-----------------------------------------------------------------------------
(* The page shows what NewestSource promises.                               *)

(* The counter is ahead of every revision in use, and what is shown or      *)
(* offered is of the current one.                                           *)
NewestInv ==
    /\ operationCounter \in Nat
    /\ currentRevision \in Nat
    /\ currentRevision <= operationCounter
    /\ currentPlan.source \in {0, currentRevision}
    /\ parameterSourceRevision \in {0, currentRevision}

(* A pump takes at most one more revision, for a test case.                 *)
LEMMA PumpCounts ==
    ASSUME NEW s0, NEW t0, NEW l, NEW op0 \in Nat, Pump(s0, t0, l, op0)
    PROVE  operationCounter' \in {op0, op0 + 1}
BY DEF Pump, WithPendingCase

(* Steps that keep the text: the counter may grow, and preview and panel    *)
(* stay of the current revision or empty.                                   *)
KeepsText ==
    /\ operationCounter' \in {operationCounter, operationCounter + 1,
                              operationCounter + 2}
    /\ UNCHANGED currentRevision
    /\ currentPlan'.source \in {0, currentRevision, currentPlan.source}
    /\ parameterSourceRevision' \in {0, currentRevision, parameterSourceRevision}

(* Steps that renew it.                                                     *)
RenewsText ==
    /\ operationCounter' \in {operationCounter + 1, operationCounter + 2}
    /\ currentRevision' = operationCounter + 1
    /\ currentPlan'.source = 0
    /\ parameterSourceRevision' = 0

LEMMA RenderRenews ==
    ASSUME operationCounter \in Nat, Render
    PROVE  RenewsText
<1>1. operationCounter' \in {operationCounter + 1, operationCounter + 1 + 1}
  BY PumpCounts DEF Render
<1>2. /\ currentRevision' = operationCounter + 1
      /\ currentPlan'.source = 0
      /\ parameterSourceRevision' = 0
  BY DEF Render, ProofPending, NoPlan
<1>. QED  BY <1>1, <1>2 DEF RenewsText

LEMMA ScheduleRenderRenews ==
    ASSUME operationCounter \in Nat, ScheduleRender
    PROVE  RenewsText
BY DEF ScheduleRender, ProofPending, NoPlan, RenewsText

LEMMA UserKeepsOrRenews ==
    ASSUME NewestInv, User PROVE KeepsText \/ RenewsText
<1>1. CASE EditSource \/ ApplyImport
  BY <1>1, ScheduleRenderRenews DEF EditSource, ApplyImport, NewestInv
<1>2. CASE SubmitBinding
  <2>. DEFINE request == BindRequest(operationCounter + 1,
                              parameterSourceRevision,
                              sched.bindingCapture.token, "panel")
  <2>1. CASE Pump(EnqueueBinding(sched, request), CancelTests(tests), link,
                  operationCounter + 1) /\ ProofPending
             /\ UNCHANGED <<parameterSourceRevision, sourceVars>>
    <3>1. operationCounter' \in {operationCounter + 1, operationCounter + 1 + 1}
      BY <2>1, PumpCounts DEF NewestInv
    <3>. QED  BY <2>1, <3>1 DEF KeepsText, ProofPending, NoPlan, NewestInv,
                               sourceVars
  <2>2. CASE operationCounter' \in {operationCounter, operationCounter + 1}
             /\ parameterSourceRevision' \in {0, parameterSourceRevision}
             /\ UNCHANGED <<previewVars, sourceVars>>
    BY <2>2 DEF KeepsText, previewVars, sourceVars, NewestInv
  <2>. QED  BY <1>2, <2>1, <2>2 DEF SubmitBinding
<1>3. CASE EditImportInput \/ EditTests
  BY <1>3 DEF EditImportInput, EditTests, KeepsText, sourceVars, parameterVars,
              previewVars, pumpVars, NewestInv
<1>4. CASE SubmitImport
  <2>1. operationCounter' \in {operationCounter + 1, operationCounter + 1 + 1}
    BY <1>4, PumpCounts DEF SubmitImport, NewestInv
  <2>2. UNCHANGED <<sourceVars, parameterVars, previewVars>>
    BY <1>4 DEF SubmitImport
  <2>. QED  BY <2>1, <2>2 DEF KeepsText, sourceVars, parameterVars, previewVars,
                              NewestInv
<1>. QED  BY <1>1, <1>2, <1>3, <1>4 DEF User

LEMMA PumpKeepsCount ==
    ASSUME NewestInv,
           NEW s, NEW t, NEW l, Pump(s, t, l, operationCounter)
    PROVE  operationCounter' \in {operationCounter, operationCounter + 1}
BY PumpCounts DEF NewestInv

LEMMA MessagesKeepText ==
    ASSUME NewestInv, Messages PROVE KeepsText
<1>. USE DEF KeepsText, NewestInv, sourceVars, parameterVars, previewVars
<1>1. CASE IgnoreMessage
  BY <1>1 DEF IgnoreMessage, pumpVars
<1>2. CASE HandleReady \/ HandleStaleCompletion \/ HandleImported
  <2>1. operationCounter' \in {operationCounter, operationCounter + 1}
    BY <1>2, PumpKeepsCount
       DEF HandleReady, HandleStaleCompletion, HandleImported
  <2>. QED  BY <1>2, <2>1 DEF HandleReady, HandleStaleCompletion, HandleImported
<1>3. CASE HandleCaseBound
  <2>1. operationCounter' \in {operationCounter, operationCounter + 1}
    BY <1>3, PumpKeepsCount DEF HandleCaseBound
  <2>2. /\ UNCHANGED <<currentRevision, currentPlan>>
        /\ parameterSourceRevision' \in {0, parameterSourceRevision}
    BY <1>3 DEF HandleCaseBound
  <2>. QED  BY <2>1, <2>2
<1>4. CASE HandleBound
  <2>1. operationCounter' \in {operationCounter, operationCounter + 1}
    BY <1>4, PumpKeepsCount DEF HandleBound
  <2>2. /\ UNCHANGED currentRevision
        /\ parameterSourceRevision' \in {0, parameterSourceRevision}
        /\ currentPlan'.source \in {0, currentRevision, currentPlan.source}
    BY <1>4 DEF HandleBound, NoPlan
  <2>. QED  BY <2>1, <2>2
<1>5. CASE HandleParsed
  <2>1. operationCounter' \in {operationCounter, operationCounter + 1}
    BY <1>5, PumpKeepsCount DEF HandleParsed
  <2>2. /\ UNCHANGED currentRevision
        /\ parameterSourceRevision' \in {0, currentRevision,
                                        parameterSourceRevision}
        /\ currentPlan'.source \in {0, currentRevision, currentPlan.source}
    BY <1>5 DEF HandleParsed, NoPlan
  <2>. QED  BY <2>1, <2>2
<1>6. CASE HandleTestMail
  <2>1. operationCounter' \in {operationCounter, operationCounter + 1}
    BY <1>6, PumpKeepsCount DEF HandleTestMail
  <2>. QED  BY <1>6, <2>1 DEF HandleTestMail
<1>. QED  BY <1>1, <1>2, <1>3, <1>4, <1>5, <1>6 DEF Messages

LEMMA LossesKeepText ==
    ASSUME NewestInv, Losses PROVE KeepsText
<1>. USE DEF KeepsText, NewestInv, sourceVars, parameterVars, previewVars, NoPlan
<1>1. CASE HandleBootstrapTimeout
  BY <1>1, PumpKeepsCount DEF HandleBootstrapTimeout
<1>2. CASE HandleWorkerError
  <2>1. operationCounter' \in {operationCounter, operationCounter + 1}
    BY <1>2, PumpKeepsCount DEF HandleWorkerError
  <2>. QED  BY <1>2, <2>1 DEF HandleWorkerError
<1>3. CASE \/ CaseBindingTimeout \/ BindingTimeout \/ ImportTimeout
           \/ ParseTimeout
  <2>1. operationCounter' \in {operationCounter, operationCounter + 1}
    BY <1>3, PumpKeepsCount
       DEF CaseBindingTimeout, BindingTimeout, ImportTimeout, ParseTimeout,
           LoseToTimeout
  <2>2. /\ UNCHANGED currentRevision
        /\ parameterSourceRevision' \in {0, parameterSourceRevision}
        /\ currentPlan'.source \in {0, currentPlan.source}
    BY <1>3 DEF CaseBindingTimeout, BindingTimeout, ImportTimeout, ParseTimeout,
                TimedOut
  <2>. QED  BY <2>1, <2>2
<1>4. CASE LoseTestWorker
  BY <1>4 DEF LoseTestWorker
<1>. QED  BY <1>1, <1>2, <1>3, <1>4 DEF Losses

LEMMA WorkersKeepText ==
    ASSUME NewestInv, CompilerWorker \/ TestWorker \/ RunTests PROVE KeepsText
<1>. USE DEF KeepsText, NewestInv, sourceVars, parameterVars, previewVars
<1>1. CASE CompilerWorker
  BY <1>1 DEF CompilerWorker, WorkerBoots, WorkerStartsParse,
              WorkerFinishesParse, WorkerBinds, WorkerStartsImport,
              WorkerFinishesImport, compilerFrame
<1>2. CASE TestWorker
  BY <1>2 DEF TestWorker, BenchStarts, BenchAsks, BenchReceives, BenchFinishes,
              benchFrame, pumpVars
<1>3. CASE RunTests
  BY <1>3 DEF RunTests
<1>. QED  BY <1>1, <1>2, <1>3

LEMMA NextKeepsOrRenews ==
    ASSUME NewestInv, [Next]_vars PROVE KeepsText \/ RenewsText
<1>1. CASE UNCHANGED vars
  BY <1>1 DEF vars, KeepsText, NewestInv
<1>2. CASE RestoreProfile
  BY <1>2, RenderRenews DEF RestoreProfile, NewestInv
<1>3. CASE RenderTimerFires
  <2>1. CASE profileReady
    BY <1>3, <2>1, RenderRenews DEF RenderTimerFires, NewestInv
  <2>2. CASE ~profileReady
    BY <1>3, <2>2 DEF RenderTimerFires, KeepsText, NewestInv, parameterVars,
                      previewVars, pumpVars
  <2>. QED  BY <2>1, <2>2
<1>. QED  BY <1>1, <1>2, <1>3, UserKeepsOrRenews, MessagesKeepText,
             LossesKeepText, WorkersKeepText DEF Next, PageTimers

LEMMA NewestInvPreserved ==
    ASSUME NewestInv, [Next]_vars PROVE NewestInv'
BY NextKeepsOrRenews DEF NewestInv, KeepsText, RenewsText

(* The counter is ahead of every revision, and preview and panel are of the *)
(* current revision or empty: the invariant the refinement needs.           *)
THEOREM NewestInvariant == Spec => []NewestInv
<1>1. Init => NewestInv
  BY DEF Init, NewestInv, NoPlan
<1>. QED  BY <1>1, NewestInvPreserved, PTL DEF Spec

(* CompilerPage implements NewestSource: whatever the order of edits, late  *)
(* answers and lost Workers, preview and panel are of the newest text.      *)
THEOREM PageShowsNewestSource == Spec => ShowsNewestSource
<1>1. Init => Newest!Init
  BY DEF Init, NoPlan, Newest!Init
<1>2. NewestInv /\ [Next]_vars => [Newest!Next]_Newest!vars
  <2>. SUFFICES ASSUME NewestInv, [Next]_vars
                PROVE  Newest!Next
    OBVIOUS
  <2>1. CASE RenewsText
    BY <2>1 DEF RenewsText, NewestInv, Newest!Next, Newest!Renew
  <2>2. CASE KeepsText
    BY <2>2 DEF KeepsText, NewestInv, Newest!Next, Newest!Answer
  <2>. QED  BY <2>1, <2>2, NextKeepsOrRenews
<1>. QED  BY <1>1, <1>2, NewestInvariant, PTL
          DEF Spec, ShowsNewestSource, Newest!Spec

-----------------------------------------------------------------------------
(* A queued parse survives.                                                 *)

(* Scheduler and page agree on the Worker; a Worker is busy exactly with an *)
(* active request; the queued request was numbered by the counter op.       *)
SlotInv(s, l, op) ==
    /\ s.currentWorkerId = l.parserWorkerId
    /\ s.phase = "absent" <=> s.currentWorkerId = 0
    /\ s.phase = "busy" <=> s.activeRequest # NoRequest
    /\ s.queuedRequest.revision <= op

(* Between two turns of the page a request waits only for a Worker that     *)
(* boots or is busy: any other Worker was given it by the last pump.        *)
QueueInv ==
    /\ SlotInv(sched, link, operationCounter)
    /\ HasQueued(sched) => sched.phase \in {"booting", "busy"}

(* What a pump does for a parse queued in the scheduler it is given.        *)
ServesQueue(s) ==
    s.queuedRequest.kind = "parse" =>
        \/ sched'.queuedRequest = s.queuedRequest
        \/ sched'.activeRequest = s.queuedRequest

LEMMA PendingCaseSlot ==
    ASSUME NEW s \in Scheduler, NEW t \in Tests, NEW l \in Link,
           NEW op \in Nat, NEW current \in BOOLEAN, SlotInv(s, l, op)
    PROVE  LET next == WithPendingCase(s, t, op, current)
           IN  /\ next.s \in Scheduler /\ next.op \in Nat
               /\ SlotInv(next.s, l, next.op)
               /\ HasQueued(s) => next.s = s
<1>. DEFINE request == CaseRequest(t.controller, op + 1)
            next == WithPendingCase(s, t, op, current)
<1>1. next.s \in Scheduler /\ next.op \in Nat
  BY PendingCaseTypes
<1>2. /\ next.s \in {s, EnqueueBinding(s, request)}
      /\ next.op \in {op, op + 1}
      /\ next.s = EnqueueBinding(s, request) => next.op = op + 1 \/ next.s = s
      /\ HasQueued(s) => next.s = s
  BY DEF WithPendingCase
<1>3. request.revision = op + 1
  BY DEF CaseRequest, BindRequest, NoRequest
<1>4. EnqueueBinding(s, request) =
         [s EXCEPT !.queuedRequest = request]
  BY DEF EnqueueBinding
<1>5. s.queuedRequest.revision \in Nat
  BY DEF Scheduler, Request
<1>. HIDE DEF request, next
<1>6. SlotInv(next.s, l, next.op)
  <2>1. CASE next.s = s
    BY <1>2, <1>5, <2>1 DEF SlotInv
  <2>2. CASE next.s # s
    BY <1>2, <1>3, <1>4, <1>5, <2>2 DEF SlotInv, Scheduler
  <2>. QED  BY <2>1, <2>2
<1>. QED  BY <1>1, <1>2, <1>6 DEF next

LEMMA StartWorkerSlot ==
    ASSUME NEW s \in Scheduler, NEW l \in Link, NEW op \in Nat,
           SlotInv(s, l, op), StartWorker(s, l), l.parserWorkerId = 0
    PROVE  /\ SlotInv(sched', link', op)
           /\ sched'.phase = "booting"
           /\ ServesQueue(s)
<1>1. /\ sched'.currentWorkerId = s.nextWorkerId + 1
      /\ sched'.phase = "booting"
      /\ sched'.activeRequest = s.activeRequest
      /\ sched'.queuedRequest = SurvivingQueue(s)
  BY DEF StartWorker, CreateWorker, Scheduler
<1>2. link'.parserWorkerId = s.nextWorkerId + 1
  BY DEF StartWorker, Link
<1>3. s.nextWorkerId + 1 # 0 /\ s.phase = "absent"
  BY DEF SlotInv, Scheduler
<1>4. SurvivingQueue(s).revision <= op
  BY DEF SurvivingQueue, SlotInv, NoRequest
<1>. QED  BY <1>1, <1>2, <1>3, <1>4 DEF SlotInv, ServesQueue, SurvivingQueue

LEMMA DispatchSlot ==
    ASSUME NEW s \in Scheduler, NEW l \in Link, NEW op \in Nat,
           SlotInv(s, l, op), Dispatch(s, l), CanTake(s)
    PROVE  /\ SlotInv(sched', link', op)
           /\ ~HasQueued(sched')
           /\ ServesQueue(s)
<1>1. /\ sched'.currentWorkerId = s.currentWorkerId
      /\ sched'.phase = "busy"
      /\ sched'.activeRequest = s.queuedRequest
      /\ sched'.queuedRequest = NoRequest
  BY DEF Dispatch, TakeForDispatch, Scheduler
<1>2. link'.parserWorkerId = l.parserWorkerId
  BY DEF Dispatch, Link
<1>. QED  BY <1>1, <1>2
          DEF SlotInv, CanTake, HasQueued, ServesQueue, NoRequest

LEMMA PumpQueue ==
    ASSUME TypeInv, NEW s0 \in Scheduler, NEW t0 \in Tests, NEW l \in Link,
           NEW op0 \in Nat, SlotInv(s0, l, op0), Pump(s0, t0, l, op0)
    PROVE  QueueInv' /\ ServesQueue(s0)
<1>. DEFINE current == SnapshotCurrent(s0, t0, l.parserWorkerId,
                                       currentRevision',
                                       parameterSourceRevision')
            next == WithPendingCase(s0, t0, op0, current)
            s == next.s
<1>1. /\ s \in Scheduler /\ next.op \in Nat
      /\ SlotInv(s, l, next.op)
      /\ HasQueued(s0) => s = s0
  <2>1. current \in BOOLEAN
    BY DEF SnapshotCurrent
  <2>. HIDE DEF current
  <2>. QED  BY <2>1, PendingCaseSlot
<1>2. /\ operationCounter' = next.op
      /\ IF HasQueued(s) /\ s.phase # "busy" /\ l.parserWorkerId = 0
         THEN StartWorker(s, l)
         ELSE IF CanTake(s) THEN Dispatch(s, l)
         ELSE sched' = s /\ link' = l
  BY DEF Pump
<1>. HIDE DEF current, next, s
<1>3. s0.queuedRequest.kind = "parse" => HasQueued(s0) /\ s = s0
  BY <1>1 DEF HasQueued, NoRequest
<1>4. CASE HasQueued(s) /\ s.phase # "busy" /\ l.parserWorkerId = 0
  BY <1>1, <1>2, <1>3, <1>4, StartWorkerSlot DEF QueueInv, ServesQueue
<1>5. CASE CanTake(s) /\ ~(HasQueued(s) /\ s.phase # "busy"
                          /\ l.parserWorkerId = 0)
  BY <1>1, <1>2, <1>3, <1>5, DispatchSlot DEF QueueInv, ServesQueue
<1>6. CASE ~CanTake(s) /\ ~(HasQueued(s) /\ s.phase # "busy"
                           /\ l.parserWorkerId = 0)
  <2>1. sched' = s /\ link' = l
    BY <1>2, <1>6
  <2>2. HasQueued(s) => s.phase \in {"booting", "busy"}
    BY <1>1, <1>6 DEF CanTake, SlotInv, Scheduler, Phases
  <2>. QED  BY <1>1, <1>2, <1>3, <2>1, <2>2 DEF QueueInv, ServesQueue
<1>. QED  BY <1>4, <1>5, <1>6

(* The two shapes a step can have for the queue.                            *)
LEMMA IdleKeepsQueue ==
    ASSUME TypeInv, QueueInv, UNCHANGED sched,
           link'.parserWorkerId = link.parserWorkerId,
           operationCounter' \in {operationCounter, operationCounter + 1}
    PROVE  QueueInv' /\ QueuedParseStep
<1>1. sched.queuedRequest.revision \in Nat /\ operationCounter \in Nat
  BY DEF TypeInv, TypeOK, Scheduler, Request
<1>. QED  BY <1>1 DEF QueueInv, SlotInv, QueuedParseStep

LEMMA PumpKeepsQueue ==
    ASSUME TypeInv, QueueInv,
           NEW s0 \in Scheduler, NEW t0 \in Tests, NEW l \in Link,
           NEW op0 \in Nat, SlotInv(s0, l, op0), Pump(s0, t0, l, op0),
           sched.queuedRequest.kind = "parse" =>
               s0.queuedRequest = sched.queuedRequest
    PROVE  QueueInv' /\ QueuedParseStep
BY PumpQueue DEF ServesQueue, QueuedParseStep

(* A parse newer than a queued one takes its place, and waits as it did.    *)
LEMMA RenderQueue ==
    ASSUME TypeInv, QueueInv, Render PROVE QueueInv' /\ QueuedParseStep
<1>. DEFINE request == ParseRequest(operationCounter + 1)
            s0 == Enqueue(sched, request)
<1>1. /\ operationCounter + 1 \in Nat
      /\ request \in Request
  BY RequestConstructorTypes, RequestTypes DEF TypeInv, TypeOK, Overrides
<1>2. s0 \in Scheduler /\ DropRun(tests) \in Tests
  BY <1>1, SchedulerOperatorTypes, TestsOperatorTypes DEF TypeInv, TypeOK
<1>3. /\ s0.queuedRequest = request
      /\ s0.currentWorkerId = sched.currentWorkerId
      /\ s0.phase = sched.phase
      /\ s0.activeRequest = sched.activeRequest
  BY DEF Enqueue, Scheduler, TypeInv, TypeOK
<1>4. request.kind = "parse" /\ request.revision = operationCounter + 1
  BY DEF ParseRequest, NoRequest
<1>5. SlotInv(s0, link, operationCounter + 1)
  BY <1>1, <1>3, <1>4 DEF SlotInv, QueueInv
<1>6. /\ sched.queuedRequest.revision \in Nat /\ operationCounter \in Nat
      /\ sched.queuedRequest.revision <= operationCounter
  BY DEF TypeInv, TypeOK, Scheduler, Request, QueueInv, SlotInv
<1>. HIDE DEF s0, request
<1>7. Pump(s0, DropRun(tests), link, operationCounter + 1)
  BY DEF Render, s0, request
<1>8. QueueInv' /\ ServesQueue(s0)
  BY <1>1, <1>2, <1>5, <1>7, PumpQueue DEF TypeInv, TypeOK
<1>9. CASE sched.queuedRequest.kind = "parse"
  <2>1. sched.phase \in {"booting", "busy"}
    BY <1>9 DEF QueueInv, HasQueued, NoRequest
  <2>2. sched'.queuedRequest = request
    BY <1>3, <1>4, <1>7, <2>1
       DEF Pump, WithPendingCase, HasQueued, NoRequest, CanTake, StartWorker,
           CreateWorker, SurvivingQueue, QueueInv, SlotInv, Scheduler
  <2>. QED  BY <1>4, <1>6, <1>8, <2>2 DEF QueuedParseStep
<1>10. CASE sched.queuedRequest.kind # "parse"
  BY <1>8, <1>10 DEF QueuedParseStep
<1>. QED  BY <1>9, <1>10

LEMMA UserQueue ==
    ASSUME TypeInv, QueueInv, User PROVE QueueInv' /\ QueuedParseStep
<1>0. operationCounter + 1 \in Nat /\ CancelTests(tests) \in Tests
  BY TestsOperatorTypes DEF TypeInv, TypeOK
<1>1. CASE EditSource \/ ApplyImport
  BY <1>1, IdleKeepsQueue DEF EditSource, ApplyImport, ScheduleRender
<1>2. CASE EditImportInput \/ EditTests
  BY <1>2, IdleKeepsQueue DEF EditImportInput, EditTests, pumpVars
<1>3. CASE SubmitBinding
  <2>. DEFINE request == BindRequest(operationCounter + 1,
                              parameterSourceRevision,
                              sched.bindingCapture.token, "panel")
  <2>1. CASE /\ CanEnqueueBinding(sched, request)
             /\ Pump(EnqueueBinding(sched, request), CancelTests(tests), link,
                     operationCounter + 1)
    <3>1. request \in Request /\ request.revision = operationCounter + 1
      BY <1>0, RequestConstructorTypes
         DEF TypeInv, TypeOK, Scheduler, Capture, Overrides, BindRequest,
             NoRequest
    <3>2. EnqueueBinding(sched, request) \in Scheduler
      BY <3>1, SchedulerOperatorTypes DEF TypeInv, TypeOK
    <3>. HIDE DEF request
    <3>3. SlotInv(EnqueueBinding(sched, request), link, operationCounter + 1)
      BY <1>0, <3>1
         DEF EnqueueBinding, QueueInv, SlotInv, Scheduler, TypeInv, TypeOK
    <3>4. sched.queuedRequest.kind # "parse"
      BY <2>1 DEF CanEnqueueBinding, HasSlot
    <3>. QED  BY <1>0, <2>1, <3>2, <3>3, <3>4, PumpKeepsQueue DEF TypeInv, TypeOK
  <2>2. CASE /\ UNCHANGED <<sched, link>>
             /\ operationCounter' \in {operationCounter, operationCounter + 1}
    BY <2>2, IdleKeepsQueue
  <2>. QED  BY <1>3, <2>1, <2>2 DEF SubmitBinding
<1>4. CASE SubmitImport
  <2>. DEFINE request == ImportRequest(operationCounter + 1, inputEditGeneration)
  <2>1. CASE /\ CanEnqueueImport(sched)
             /\ Pump(EnqueueImport(sched, request), CancelTests(tests), link,
                     operationCounter + 1)
    <3>1. request \in Request /\ request.revision = operationCounter + 1
      BY <1>0, RequestConstructorTypes, RequestTypes
         DEF TypeInv, TypeOK, Overrides, ImportRequest, NoRequest
    <3>2. EnqueueImport(sched, request) \in Scheduler
      BY <3>1, SchedulerOperatorTypes DEF TypeInv, TypeOK
    <3>. HIDE DEF request
    <3>3. SlotInv(EnqueueImport(sched, request), link, operationCounter + 1)
      BY <1>0, <3>1
         DEF EnqueueImport, QueueInv, SlotInv, Scheduler, TypeInv, TypeOK
    <3>4. sched.queuedRequest.kind # "parse"
      BY <2>1 DEF CanEnqueueImport, HasSlot
    <3>. QED  BY <1>0, <2>1, <3>2, <3>3, <3>4, PumpKeepsQueue DEF TypeInv, TypeOK
  <2>2. CASE UNCHANGED <<sched, link>> /\ operationCounter' = operationCounter + 1
    BY <2>2, IdleKeepsQueue
  <2>3. \/ /\ CanEnqueueImport(sched)
           /\ Pump(EnqueueImport(sched, request), CancelTests(tests), link,
                   operationCounter + 1)
        \/ UNCHANGED <<sched, link>> /\ operationCounter' = operationCounter + 1
    BY <1>4, Zenon DEF SubmitImport
  <2>. QED  BY <2>1, <2>2, <2>3
<1>. QED  BY <1>1, <1>2, <1>3, <1>4 DEF User

(* The scheduler after a completion, and what the pump that follows is given.*)
LEMMA CompleteSlot ==
    ASSUME TypeInv, QueueInv, NEW r, NEW isCase, Completes(r, isCase)
    PROVE  LET s == Complete(sched, r.worker, r.message)
           IN  /\ s \in Scheduler
               /\ Idle(link) \in Link
               /\ SlotInv(s, Idle(link), operationCounter)
               /\ sched.queuedRequest.kind = "parse" =>
                      s.queuedRequest = sched.queuedRequest
<1>. DEFINE s == Complete(sched, r.worker, r.message)
<1>1. s \in Scheduler /\ Idle(link) \in Link
  BY MessageTypes DEF Completes
<1>2. /\ s.currentWorkerId = sched.currentWorkerId
      /\ s.phase = "ready"
      /\ s.activeRequest = NoRequest
      /\ s.queuedRequest \in {sched.queuedRequest, NoRequest}
      /\ sched.queuedRequest.kind # "bind" =>
             s.queuedRequest = sched.queuedRequest
  BY DEF Complete, Released, Scheduler, TypeInv, TypeOK
<1>3. sched.currentWorkerId # 0
  BY DEF Completes, Matches, QueueInv, SlotInv
<1>4. Idle(link).parserWorkerId = link.parserWorkerId
  BY DEF Idle, Link, TypeInv, TypeOK
<1>5. s.queuedRequest.revision <= operationCounter
  BY <1>2 DEF QueueInv, SlotInv, NoRequest, TypeInv, TypeOK
<1>. HIDE DEF s
<1>6. SlotInv(s, Idle(link), operationCounter)
  BY <1>2, <1>3, <1>4, <1>5 DEF SlotInv, QueueInv
<1>. QED  BY <1>1, <1>2, <1>6 DEF s

LEMMA MessagesQueue ==
    ASSUME TypeInv, QueueInv, Messages PROVE QueueInv' /\ QueuedParseStep
<1>1. CASE IgnoreMessage
  BY <1>1, IdleKeepsQueue DEF IgnoreMessage, pumpVars
<1>2. CASE HandleReady
  <2>1. /\ MarkReady(sched) \in Scheduler
        /\ [link EXCEPT !.bootTimer = 0] \in Link
    BY RequestTypes, SchedulerOperatorTypes DEF TypeInv, TypeOK, Link
  <2>2. SlotInv(MarkReady(sched), [link EXCEPT !.bootTimer = 0],
                operationCounter)
    BY <1>2 DEF HandleReady, CanMarkReady, MarkReady, QueueInv, SlotInv,
                Scheduler, Link, TypeInv, TypeOK
  <2>3. MarkReady(sched).queuedRequest = sched.queuedRequest
    BY DEF MarkReady, Scheduler, TypeInv, TypeOK
  <2>. QED  BY <1>2, <2>1, <2>2, <2>3, PumpKeepsQueue
            DEF HandleReady, TypeInv, TypeOK
<1>3. ASSUME NEW r, NEW isCase, Completes(r, isCase), NEW t \in Tests,
             Pump(Complete(sched, r.worker, r.message), t, Idle(link),
                  operationCounter)
      PROVE  QueueInv' /\ QueuedParseStep
  <2>. DEFINE s == Complete(sched, r.worker, r.message)
  <2>1. /\ s \in Scheduler
        /\ Idle(link) \in Link
        /\ SlotInv(s, Idle(link), operationCounter)
        /\ sched.queuedRequest.kind = "parse" =>
               s.queuedRequest = sched.queuedRequest
    BY <1>3, CompleteSlot
  <2>2. operationCounter \in Nat /\ Pump(s, t, Idle(link), operationCounter)
    BY <1>3 DEF TypeInv, TypeOK
  <2>. HIDE DEF s
  <2>. QED  BY <2>1, <2>2, PumpKeepsQueue
<1>4. CASE HandleStaleCompletion \/ HandleImported
  BY <1>3, <1>4 DEF HandleStaleCompletion, HandleImported, TypeInv, TypeOK
<1>5. CASE HandleBound \/ HandleParsed
  <2>1. tests \in Tests /\ ScheduleTests(tests) \in Tests
    BY TestsOperatorTypes DEF TypeInv, TypeOK
  <2>2. PICK r \in responses, t \in {tests, ScheduleTests(tests)} :
           /\ Completes(r, FALSE)
           /\ Pump(Complete(sched, r.worker, r.message), t, Idle(link),
                   operationCounter)
    BY <1>5 DEF HandleBound, HandleParsed
  <2>. QED  BY <1>3, <2>1, <2>2
<1>6. CASE HandleCaseBound
  <2>1. PICK r \in responses, t \in Tests :
           /\ Completes(r, TRUE)
           /\ Pump(Complete(sched, r.worker, r.message), t, Idle(link),
                   operationCounter)
    BY <1>6, CaseBoundPump
  <2>. QED  BY <1>3, <2>1
<1>7. CASE HandleTestMail
  <2>. DEFINE asked == [tests EXCEPT !.watchdog = FALSE,
                                     !.controller = RequestCase(@, Head(testMail))]
  <2>1. CASE Pump(sched, asked, link, operationCounter)
    <3>1. asked \in Tests
      <4>1. testMail # <<>>
        BY <1>7 DEF HandleTestMail
      <4>. QED  BY <4>1, AskedType
    <3>2. /\ sched \in Scheduler /\ link \in Link /\ operationCounter \in Nat
          /\ SlotInv(sched, link, operationCounter)
      BY DEF TypeInv, TypeOK, QueueInv
    <3>. HIDE DEF asked
    <3>. QED  BY <2>1, <3>1, <3>2, PumpKeepsQueue
  <2>2. CASE UNCHANGED <<sched, link, compiler, operationCounter>>
    BY <2>2, IdleKeepsQueue
  <2>. QED  BY <1>7, <2>1, <2>2 DEF HandleTestMail
<1>. QED  BY <1>1, <1>2, <1>4, <1>5, <1>6, <1>7 DEF Messages

LEMMA LossesQueue ==
    ASSUME TypeInv, QueueInv, Losses PROVE QueueInv' /\ QueuedParseStep
<1>1. /\ Fail(sched) \in Scheduler
      /\ CancelTests(tests) \in Tests
      /\ Disowned(tests) \in Tests
      /\ Disowned(CancelTests(tests)) \in Tests
      /\ CancelTests(Disowned(tests)) \in Tests
      /\ operationCounter \in Nat
  BY LossTypes DEF TypeInv, TypeOK
<1>2. ASSUME NEW l \in Link, l.parserWorkerId = 0
      PROVE  /\ SlotInv(Fail(sched), l, operationCounter)
             /\ sched.queuedRequest.kind = "parse" =>
                    Fail(sched).queuedRequest = sched.queuedRequest
  <2>1. /\ Fail(sched).currentWorkerId = 0
        /\ Fail(sched).phase = "absent"
        /\ Fail(sched).activeRequest = NoRequest
        /\ Fail(sched).queuedRequest = SurvivingQueue(sched)
    BY DEF Fail, Scheduler, TypeInv, TypeOK
  <2>. QED  BY <1>1, <1>2, <2>1
            DEF SlotInv, QueueInv, SurvivingQueue, NoRequest
<1>3. ASSUME NEW t \in Tests, NEW l \in Link, l.parserWorkerId = 0,
             Pump(Fail(sched), t, l, operationCounter)
      PROVE  QueueInv' /\ QueuedParseStep
  BY <1>1, <1>2, <1>3, PumpKeepsQueue
<1>4. CASE HandleBootstrapTimeout
  <2>. DEFINE l == [link EXCEPT !.parserWorkerId = 0, !.bootTimer = 0,
                                !.mailbox = NoRequest]
  <2>1. l \in Link /\ l.parserWorkerId = 0
    BY RequestTypes DEF Link, TypeInv, TypeOK
  <2>2. PICK t \in Tests : Pump(Fail(sched), t, l, operationCounter)
    BY <1>1, <1>4 DEF HandleBootstrapTimeout
  <2>. HIDE DEF l
  <2>. QED  BY <1>3, <2>1, <2>2
<1>5. CASE HandleWorkerError
  <2>1. PICK t \in Tests : Pump(Fail(sched), t, NoLink, operationCounter)
    BY <1>1, <1>5 DEF HandleWorkerError
  <2>2. NoLink \in Link /\ NoLink.parserWorkerId = 0
    BY PageTypes DEF NoLink
  <2>. QED  BY <1>3, <2>1, <2>2
<1>6. CASE CaseBindingTimeout \/ BindingTimeout \/ ImportTimeout \/ ParseTimeout
  <2>. DEFINE l == [link EXCEPT !.parserWorkerId = 0, !.workerTimeout = NoTimer,
                                !.mailbox = NoRequest]
  <2>1. l \in Link /\ l.parserWorkerId = 0
    BY RequestTypes, PageTypes DEF Link, TypeInv, TypeOK
  <2>2. PICK t \in Tests : LoseToTimeout(t)
    BY <1>1, <1>6
       DEF CaseBindingTimeout, BindingTimeout, ImportTimeout, ParseTimeout
  <2>3. Pump(Fail(sched), t, l, operationCounter)
    BY <2>2 DEF LoseToTimeout
  <2>. HIDE DEF l
  <2>. QED  BY <1>3, <2>1, <2>3
<1>7. CASE LoseTestWorker
  BY <1>7, IdleKeepsQueue DEF LoseTestWorker
<1>. QED  BY <1>4, <1>5, <1>6, <1>7 DEF Losses

LEMMA WorkersQueue ==
    ASSUME TypeInv, QueueInv, CompilerWorker \/ TestWorker \/ RunTests
    PROVE  QueueInv' /\ QueuedParseStep
<1>1. UNCHANGED <<sched, operationCounter>>
  BY DEF CompilerWorker, WorkerBoots, WorkerStartsParse, WorkerFinishesParse,
         WorkerBinds, WorkerStartsImport, WorkerFinishesImport, compilerFrame,
         TestWorker, BenchStarts, BenchAsks, BenchReceives, BenchFinishes,
         benchFrame, pumpVars, RunTests
<1>2. link' \in {link, [link EXCEPT !.mailbox = NoRequest]}
  BY DEF CompilerWorker, WorkerBoots, WorkerStartsParse, WorkerFinishesParse,
         WorkerBinds, WorkerStartsImport, WorkerFinishesImport,
         TestWorker, BenchStarts, BenchAsks, BenchReceives, BenchFinishes,
         benchFrame, pumpVars, RunTests
<1>3. link'.parserWorkerId = link.parserWorkerId
  BY <1>2 DEF Link, TypeInv, TypeOK
<1>. QED  BY <1>1, <1>3, IdleKeepsQueue

LEMMA NextKeepsQueue ==
    ASSUME TypeInv, QueueInv, [Next]_vars PROVE QueueInv' /\ QueuedParseStep
<1>1. CASE UNCHANGED vars
  BY <1>1, IdleKeepsQueue DEF vars
<1>2. CASE RestoreProfile
  BY <1>2, RenderQueue DEF RestoreProfile
<1>3. CASE RenderTimerFires
  <2>1. CASE profileReady
    BY <1>3, <2>1, RenderQueue DEF RenderTimerFires
  <2>2. CASE ~profileReady
    BY <1>3, <2>2, IdleKeepsQueue DEF RenderTimerFires, pumpVars
  <2>. QED  BY <2>1, <2>2
<1>. QED  BY <1>1, <1>2, <1>3, UserQueue, MessagesQueue, LossesQueue,
             WorkersQueue
          DEF Next, PageTimers

(* No step of any actor drops the newest source: a queued parse leaves the  *)
(* queue for the active slot or for a newer parse.                          *)
THEOREM QueuedParseNeverLost == Spec => QueuedParseSurvives
<1>1. Init => TypeInv /\ QueueInv
  <2>1. Init => TypeInv
    BY InitTypes
  <2>2. Init => QueueInv
    BY DEF Init, QueueInv, SlotInv, NewScheduler, NoLink, NoRequest, HasQueued
  <2>. QED  BY <2>1, <2>2
<1>2. TypeInv /\ QueueInv /\ [Next]_vars =>
         (TypeInv /\ QueueInv)' /\ QueuedParseStep
  BY TypeInvPreserved, NextKeepsQueue
<1>. QED  BY <1>1, <1>2, PTL DEF Spec, QueuedParseSurvives

-----------------------------------------------------------------------------
(* The inductive invariant.  Its parts take the values they speak of, for   *)
(* they also hold of what a handler passes to its pump.                     *)

(* The completions posted by the Worker of l that are still on their way.   *)
Replies(l, R) ==
    {r \in R : r.worker = l.parserWorkerId /\ r.message.kind # "ready"}

(* OneOperation of given values; a reply carries the document of its        *)
(* request.                                                                 *)
Operation(s, l, c, R) ==
    /\ IF s.phase # "busy"
       THEN /\ l.mailbox = NoRequest
            /\ c.job = NoRequest
            /\ Replies(l, R) = {}
       ELSE \/ /\ l.mailbox = s.activeRequest /\ l.mailbox # NoRequest
               /\ c.job = NoRequest
               /\ Replies(l, R) = {}
            \/ /\ l.mailbox = NoRequest
               /\ c.job = s.activeRequest /\ c.job # NoRequest
               /\ Replies(l, R) = {}
            \/ /\ l.mailbox = NoRequest
               /\ c.job = NoRequest
               /\ \E r \in R :
                     /\ Replies(l, R) = {r}
                     /\ Matches(s, r.worker, r.message)
                     /\ r.message.document = s.activeRequest.document

(* Every Worker has a number of its own, and the newest is the current one. *)
Generations(s, R) ==
    /\ s.currentWorkerId \in {0, s.nextWorkerId}
    /\ \A r \in R : r.worker # 0 /\ r.worker <= s.nextWorkerId

(* A binding or an import waits only behind an operation of its own kind.   *)
Behind(s) ==
    s.queuedRequest.kind \in {"bind", "import"} =>
        s.phase = "ready" \/ s.activeRequest.kind = s.queuedRequest.kind

(* What the Worker retains is what a capture, a binding that is under way   *)
(* or queued, and a parse that was answered name.                           *)
Captured(s, l, c, R) ==
    LET capture == s.bindingCapture
        Retains(token, revision) ==
            c.session = [token |-> token, revision |-> revision]
    IN  /\ capture # NoCapture =>
              /\ capture.workerId = l.parserWorkerId
              /\ Retains(capture.token, capture.sourceRevision)
        /\ \A r \in Replies(l, R) :
              /\ r.message.outcome # "expired"
              /\ r.message.kind = "parse" /\ r.message.token # NoToken =>
                     Retains(r.message.token, r.message.revision)
        /\ l.mailbox.kind = "bind" =>
              Retains(l.mailbox.token, l.mailbox.sourceRevision)
        /\ \/ s.phase \in {"absent", "booting"}
           \/ "parse" \in {s.queuedRequest.kind, s.activeRequest.kind}
           => capture = NoCapture
        /\ s.queuedRequest.kind = "bind" =>
              /\ capture # NoCapture
              /\ capture.token = s.queuedRequest.token
              /\ capture.sourceRevision = s.queuedRequest.sourceRevision
        /\ s.activeRequest.kind = "bind" /\ capture # NoCapture =>
              capture.sourceRevision = s.activeRequest.sourceRevision

(* A request timer is armed only while a request is active, and a warm      *)
(* parse is not the first of its Worker.                                    *)
Timed(s, l, c, R) ==
    /\ s.phase # "busy" => l.workerTimeout = NoTimer
    /\ \/ s.completedParse
       \/ c.job.kind = "parse"
       \/ \E r \in Replies(l, R) : r.message.kind = "parse"
       => c.parses >= 1
    /\ l.workerTimeout.kind = "parse" /\ ~l.workerTimeout.cold =>
          c.parses + (IF l.mailbox.kind = "parse" THEN 1 ELSE 0) > 1

(* The conversion that an import panel waits for is the newest request.     *)
LatestRequest(s) == IF HasQueued(s) THEN s.queuedRequest ELSE s.activeRequest

(* What a pending or verified import panel stands on.                       *)
Converting(s, l, i, revision, source, generation) ==
    /\ i.state = "pending" =>
          /\ l.parserWorkerId # 0
          /\ i.snapshot = [requestRevision |-> revision,
                           workerId |-> l.parserWorkerId,
                           sourceRevision |-> source,
                           inputEditGeneration |-> generation]
          /\ LatestRequest(s).kind = "import"
          /\ LatestRequest(s).revision = revision
          /\ LatestRequest(s).document = generation
    /\ i.state = "verified" =>
          /\ i.document = generation
          /\ i.snapshot.sourceRevision = source

(* The case that is being bound.                                            *)
CaseBound(s, l, k) ==
    k.active # NoActive =>
        /\ s.activeRequest.kind = "bind"
        /\ s.activeRequest.revision = k.active.compilerRevision
        /\ s.activeRequest.revision \in k.owned
        /\ k.snapshot # NoSnapshot
        /\ k.snapshot.workerId = l.parserWorkerId
        /\ k.snapshot.sourceRevision = s.activeRequest.sourceRevision

(* The controller of a run that is over, or has not begun.                  *)
Quiet(k) == k.snapshot = NoSnapshot /\ k.pending = 0 /\ k.active = NoActive

(* The mail of b's run is any number of "executing" and "waiting", then at  *)
(* most one question: each of the ways a question can be in excludes the    *)
(* others.                                                                  *)
OfRun(b, mail) == {i \in 1 .. Len(mail) : mail[i].revision = b.run}

(* Neither the page nor the compiler has a case of the run.                 *)
NoCase(k, b) == k.pending = 0 /\ k.active = NoActive /\ b.answer = 0

(* The run executes test code, or is over.                                  *)
Executes(t, b, mail) ==
    /\ NoCase(t.controller, b)
    /\ \A i \in OfRun(b, mail) : mail[i].kind # "bind"
    /\ b.state \in {"start", "executing"} =>
          /\ \A i \in OfRun(b, mail) : mail[i].kind = "executing"
          /\ t.watchdog \/ \E i \in OfRun(b, mail) : TRUE

(* Its question is on its way to the page.                                  *)
Asks(t, b, mail) ==
    /\ NoCase(t.controller, b)
    /\ \E i \in OfRun(b, mail) :
          /\ mail[i].kind = "bind" /\ mail[i].requestId = b.requestId
          /\ \A j \in OfRun(b, mail) : j = i \/ (j < i /\ mail[j].kind # "bind")

(* The page has it, has given it to the compiler, or has answered it.       *)
IsServed(t, b, mail) ==
    LET k == t.controller
    IN  /\ \A i \in OfRun(b, mail) : FALSE
        /\ ~t.watchdog
        /\ k.pending \in {0, b.requestId}
        /\ k.active = NoActive \/ k.active.requestId = b.requestId
        /\ b.answer \in {0, b.requestId}
        /\ \/ k.pending = 0 /\ k.active = NoActive
           \/ k.pending = 0 /\ b.answer = 0
           \/ k.active = NoActive /\ b.answer = 0

(* Whose turn it is, told from the state of the test Worker.                *)
Dialogue(t, b, mail) ==
    IF b.state = "waiting" THEN Asks(t, b, mail) \/ IsServed(t, b, mail)
                           ELSE Executes(t, b, mail)

(* A page without a test Worker holds nothing of a run; one that has it     *)
(* agrees with it.                                                          *)
Conversation(t, b, mail) ==
    /\ b.run <= t.revision
    /\ \A i \in 1 .. Len(mail) : mail[i].revision <= t.revision
    /\ t.worker = 0 => Quiet(t.controller)
    /\ t.worker # 0 => /\ t.worker = b.run /\ t.revision = b.run
                       /\ Dialogue(t, b, mail)

(* The compiler's part of a page.                                           *)
Work(s, l, c, R) ==
    /\ Operation(s, l, c, R)
    /\ Generations(s, R)
    /\ Behind(s)
    /\ Captured(s, l, c, R)
    /\ Timed(s, l, c, R)

-----------------------------------------------------------------------------
(* The pump                                                                 *)

(* The four things a pump may come to: it starts a Worker, sends it what is *)
(* queued, sends it the waiting case, or does nothing.                      *)
Starts(s, t, l) ==
    /\ HasQueued(s) /\ s.phase = "absent" /\ l.parserWorkerId = 0
    /\ StartWorker(s, l)
    /\ tests' = t

Serves(s, t, l) ==
    /\ CanTake(s)
    /\ Dispatch(s, l)
    /\ tests' = t

ServesCase(s, t, l, op) ==
    LET request == CaseRequest(t.controller, op + 1)
    IN  /\ s.phase = "ready" /\ s.activeRequest = NoRequest /\ ~HasQueued(s)
        /\ t.controller.pending # 0
        /\ SnapshotCurrent(s, t, l.parserWorkerId, currentRevision',
                           parameterSourceRevision')
        /\ CanEnqueueBinding(s, request)
        /\ Dispatch(EnqueueBinding(s, request), l)
        /\ tests' = [t EXCEPT !.controller = TakeCase(t.controller, op + 1)]

Rests(s, t, l, op) ==
    /\ sched' = s /\ link' = l
    /\ tests' \in {t, TerminateTests(t),
                   TerminateTests([t EXCEPT !.controller =
                       ReleaseForRetry(TakeCase(t.controller, op + 1))])}

(* Every pump is one of them.                                               *)
LEMMA PumpOutcome ==
    ASSUME NEW s \in Scheduler, NEW t \in Tests, NEW l \in Link, NEW op \in Nat,
           SlotInv(s, l, op), Pump(s, t, l, op)
    PROVE  Starts(s, t, l) \/ Serves(s, t, l) \/ ServesCase(s, t, l, op)
               \/ Rests(s, t, l, op)
<1> DEFINE current == SnapshotCurrent(s, t, l.parserWorkerId, currentRevision',
                                      parameterSourceRevision')
           next == WithPendingCase(s, t, op, current)
           request == CaseRequest(t.controller, op + 1)
           taken == TakeCase(t.controller, op + 1)
<1>1. /\ tests' = next.t
      /\ IF HasQueued(next.s) /\ next.s.phase # "busy" /\ l.parserWorkerId = 0
         THEN StartWorker(next.s, l)
         ELSE IF CanTake(next.s) THEN Dispatch(next.s, l)
         ELSE sched' = next.s /\ link' = l
  BY DEF Pump
<1>2. s.phase \in {"ready", "busy", "booting"} => l.parserWorkerId # 0
  BY DEF SlotInv
<1>3. s.phase \in {"absent", "booting", "ready", "busy"}
  BY DEF Scheduler, Phases
<1>4. CASE next.s = s /\ next.t = t
  BY <1>1, <1>2, <1>3, <1>4 DEF Starts, Serves, Rests
<1>5. CASE /\ s.phase = "ready" /\ s.activeRequest = NoRequest /\ ~HasQueued(s)
           /\ next.s = s
           /\ next.t \in {TerminateTests(t),
                          TerminateTests([t EXCEPT !.controller =
                                             ReleaseForRetry(taken)])}
  BY <1>1, <1>5 DEF CanTake, Rests
<1>6. CASE /\ s.phase = "ready" /\ s.activeRequest = NoRequest /\ ~HasQueued(s)
           /\ t.controller.pending # 0 /\ current
           /\ CanEnqueueBinding(s, request)
           /\ next.s = EnqueueBinding(s, request)
           /\ next.t = [t EXCEPT !.controller = taken]
  <2>1. request.kind = "bind"
    BY DEF CaseRequest, BindRequest, NoRequest
  <2> HIDE DEF request, taken, current
  <2>2. CanTake(EnqueueBinding(s, request))
    BY <1>6, <2>1 DEF CanTake, EnqueueBinding, HasQueued, NoRequest, Scheduler
  <2> HIDE DEF next
  <2> QED
    BY <1>1, <1>2, <1>6, <2>2 DEF ServesCase, request, taken, current
<1> QED
  BY <1>4, <1>5, <1>6, Zenon DEF WithPendingCase

-----------------------------------------------------------------------------
(* The compiler's part                                                      *)

(* Two schedulers that differ in what is queued and captured alone.         *)
SameSlot(s, s2) ==
    /\ s2.nextWorkerId = s.nextWorkerId
    /\ s2.currentWorkerId = s.currentWorkerId
    /\ s2.phase = s.phase
    /\ s2.activeRequest = s.activeRequest
    /\ s2.completedParse = s.completedParse

LEMMA SameSlotWork ==
    ASSUME NEW s, NEW s2, NEW l, NEW c, NEW R, SameSlot(s, s2), Work(s, l, c, R)
    PROVE  Operation(s2, l, c, R) /\ Generations(s2, R) /\ Timed(s2, l, c, R)
<1>1. Operation(s2, l, c, R)
  BY DEF SameSlot, Work, Operation, Matches
<1> QED
  BY <1>1 DEF SameSlot, Work, Generations, Timed

(* What a handler queues leaves the operation under way alone.              *)
LEMMA BindingWork ==
    ASSUME NEW s \in Scheduler, NEW l, NEW c, NEW R, Work(s, l, c, R),
           NEW request, request.kind = "bind", CanEnqueueBinding(s, request)
    PROVE  Work(EnqueueBinding(s, request), l, c, R)
<1> DEFINE s2 == EnqueueBinding(s, request)
<1>1. /\ SameSlot(s, s2)
      /\ s2.bindingCapture = s.bindingCapture
      /\ s2.queuedRequest = request
  BY DEF SameSlot, EnqueueBinding, Scheduler
<1>2. /\ s.phase = "ready" \/ (s.phase = "busy" /\ s.activeRequest.kind = "bind")
      /\ s.queuedRequest.kind \in {"none", "bind"}
      /\ s.bindingCapture # NoCapture
      /\ s.bindingCapture.sourceRevision = request.sourceRevision
      /\ s.bindingCapture.token = request.token
  BY DEF CanEnqueueBinding, HasSlot
<1> HIDE DEF s2
<1>3. Captured(s2, l, c, R)
  BY <1>1, <1>2 DEF SameSlot, Captured, Work
<1>4. Behind(s2)
  BY <1>1, <1>2 DEF SameSlot, Behind
<1> QED
  BY <1>1, <1>3, <1>4, SameSlotWork DEF Work, s2

LEMMA ImportWork ==
    ASSUME NEW s \in Scheduler, NEW l, NEW c, NEW R, Work(s, l, c, R),
           NEW request, request.kind = "import", CanEnqueueImport(s)
    PROVE  Work(EnqueueImport(s, request), l, c, R)
<1> DEFINE s2 == EnqueueImport(s, request)
<1>1. /\ SameSlot(s, s2)
      /\ s2.bindingCapture = s.bindingCapture
      /\ s2.queuedRequest = request
  BY DEF SameSlot, EnqueueImport, Scheduler
<1>2. /\ s.phase = "ready" \/ (s.phase = "busy" /\ s.activeRequest.kind = "import")
      /\ s.queuedRequest.kind \in {"none", "import"}
  BY DEF CanEnqueueImport, HasSlot
<1> HIDE DEF s2
<1>3. Captured(s2, l, c, R)
  BY <1>1, <1>2 DEF SameSlot, Captured, Work
<1>4. Behind(s2)
  BY <1>1, <1>2 DEF SameSlot, Behind
<1> QED
  BY <1>1, <1>3, <1>4, SameSlotWork DEF Work, s2

LEMMA ParseWork ==
    ASSUME NEW s \in Scheduler, NEW l, NEW c, NEW R, Work(s, l, c, R),
           NEW request, request.kind = "parse"
    PROVE  Work(Enqueue(s, request), l, c, R)
<1> DEFINE s2 == Enqueue(s, request)
<1>1. /\ SameSlot(s, s2)
      /\ s2.bindingCapture = NoCapture
      /\ s2.queuedRequest = request
  BY DEF SameSlot, Enqueue, Scheduler
<1> HIDE DEF s2
<1>2. Captured(s2, l, c, R)
  BY <1>1 DEF SameSlot, Captured, Work
<1>3. Behind(s2)
  BY <1>1 DEF SameSlot, Behind
<1> QED
  BY <1>1, <1>2, <1>3, SameSlotWork DEF Work, s2

(* A new Worker has nothing to do yet, and nobody has answered for it.      *)
LEMMA StartsWork ==
    ASSUME NEW s \in Scheduler, NEW t, NEW l \in Link, NEW c, NEW R,
           R \subseteq [worker : Nat, message : Response],
           Work(s, l, c, R), Starts(s, t, l)
    PROVE  Work(sched', link', NewRuntime, R)
<1>1. /\ sched'.nextWorkerId = s.nextWorkerId + 1
      /\ sched'.currentWorkerId = s.nextWorkerId + 1
      /\ sched'.phase = "booting"
      /\ sched'.bindingCapture = NoCapture
      /\ sched'.queuedRequest = SurvivingQueue(s)
      /\ sched'.completedParse = FALSE
  BY DEF Starts, StartWorker, CreateWorker, Scheduler
<1>2. /\ link'.parserWorkerId = s.nextWorkerId + 1
      /\ link'.mailbox = NoRequest
      /\ link'.workerTimeout = l.workerTimeout
  BY DEF Starts, StartWorker, Link
<1>3. s.nextWorkerId \in Nat /\ \A r \in R : r.worker \in Nat
  BY DEF Scheduler
<1>4. Generations(sched', R) /\ Replies(link', R) = {}
  BY <1>1, <1>2, <1>3 DEF Work, Generations, Replies
<1>5. Operation(sched', link', NewRuntime, R)
  BY <1>1, <1>2, <1>4 DEF Operation, NewRuntime
<1>6. sched'.queuedRequest.kind \in {"none", "parse"}
  BY <1>1 DEF SurvivingQueue, NoRequest
<1>7. Behind(sched') /\ Captured(sched', link', NewRuntime, R)
  BY <1>1, <1>2, <1>4, <1>6 DEF Behind, Captured, NoRequest
<1>8. Timed(sched', link', NewRuntime, R)
  BY <1>1, <1>2, <1>4 DEF Timed, Work, Starts, NewRuntime, NoTimer, NoRequest
<1> QED
  BY <1>4, <1>5, <1>7, <1>8 DEF Work

(* What is sent becomes the operation under way; a parse that is not the    *)
(* first is sent with the shorter budget.                                   *)
LEMMA DispatchWork ==
    ASSUME NEW s \in Scheduler, NEW l \in Link, NEW c \in Runtime, NEW R,
           Work(s, l, c, R), CanTake(s), Dispatch(s, l)
    PROVE  Work(sched', link', c, R)
<1> DEFINE request == s.queuedRequest
<1>1. /\ sched'.nextWorkerId = s.nextWorkerId
      /\ sched'.currentWorkerId = s.currentWorkerId
      /\ sched'.phase = "busy"
      /\ sched'.bindingCapture = s.bindingCapture
      /\ sched'.queuedRequest = NoRequest
      /\ sched'.activeRequest = request
      /\ sched'.completedParse = s.completedParse
  BY DEF Dispatch, TakeForDispatch, Scheduler
<1>2. /\ link'.parserWorkerId = l.parserWorkerId
      /\ link'.mailbox = request
      /\ link'.workerTimeout.kind = request.kind
      /\ link'.workerTimeout.cold = IsCold(s)
  BY DEF Dispatch, Link
<1>3. /\ request # NoRequest /\ s.phase = "ready"
      /\ request \in Request /\ c.parses \in Nat
  BY DEF CanTake, HasQueued, Scheduler, Runtime
<1> HIDE DEF request
<1>4. Replies(link', R) = Replies(l, R)
  BY <1>2 DEF Replies
<1>5. c.job = NoRequest /\ Replies(l, R) = {}
  BY <1>3 DEF Work, Operation
<1>6. Operation(sched', link', c, R)
  BY <1>1, <1>2, <1>3, <1>4, <1>5 DEF Operation
<1>7. Generations(sched', R) /\ Behind(sched')
  BY <1>1 DEF Work, Generations, Behind, NoRequest
<1>8. Captured(sched', link', c, R)
  <2> DEFINE capture == s.bindingCapture
  <2>1. capture # NoCapture =>
           /\ capture.workerId = l.parserWorkerId
           /\ c.session = [token |-> capture.token,
                           revision |-> capture.sourceRevision]
    BY DEF Work, Captured
  <2>2. request.kind = "parse" => capture = NoCapture
    BY DEF Work, Captured, request
  <2>3. request.kind = "bind" => /\ capture # NoCapture
                                 /\ capture.token = request.token
                                 /\ capture.sourceRevision = request.sourceRevision
    BY DEF Work, Captured, request
  <2> HIDE DEF capture
  <2>4. sched'.bindingCapture = capture
    BY <1>1 DEF capture
  <2> QED
    BY <1>1, <1>2, <1>4, <1>5, <2>1, <2>2, <2>3, <2>4 DEF Captured, NoRequest
<1>9. Timed(sched', link', c, R)
  <2>1. s.completedParse => c.parses >= 1
    BY DEF Work, Timed
  <2>2. request.kind = "parse" /\ ~link'.workerTimeout.cold => s.completedParse
    BY <1>2 DEF IsCold, request
  <2>3. request.kind = "parse" /\ ~link'.workerTimeout.cold => c.parses + 1 > 1
    BY <1>3, <2>1, <2>2
  <2> QED
    BY <1>1, <1>2, <1>4, <1>5, <2>1, <2>3 DEF Timed, NoRequest
<1> QED
  BY <1>6, <1>7, <1>8, <1>9 DEF Work

(* The runtime of the Worker of l, if the page had that one before.         *)
RuntimeOf(l) ==
    IF l.parserWorkerId = link.parserWorkerId THEN compiler ELSE NewRuntime

(* A pump keeps the compiler's part, whichever of the four it comes to.     *)
LEMMA PumpWork ==
    ASSUME compiler \in Runtime, link \in Link,
           NEW s \in Scheduler, NEW t \in Tests, NEW l \in Link, NEW op \in Nat,
           SlotInv(s, l, op), Pump(s, t, l, op),
           link.parserWorkerId <= s.nextWorkerId,
           NEW R, R \subseteq [worker : Nat, message : Response],
           Work(s, l, RuntimeOf(l), R)
    PROVE  Work(sched', link', compiler', R)
<1>1. compiler' = IF link'.parserWorkerId = link.parserWorkerId
                  THEN compiler ELSE NewRuntime
  BY DEF Pump
<1>2. RuntimeOf(l) \in Runtime
  BY PageTypes DEF RuntimeOf
<1>3. CASE Starts(s, t, l)
  <2>1. Work(sched', link', NewRuntime, R)
    BY <1>3, StartsWork
  <2>2. link'.parserWorkerId # link.parserWorkerId
    BY <1>3 DEF Starts, StartWorker, Link, Scheduler
  <2> QED
    BY <1>1, <2>1, <2>2
<1>4. CASE Serves(s, t, l)
  <2>1. link'.parserWorkerId = l.parserWorkerId
    BY <1>4 DEF Serves, Dispatch, Link
  <2> QED
    BY <1>1, <1>2, <1>4, <2>1, DispatchWork DEF Serves, RuntimeOf
<1>5. CASE ServesCase(s, t, l, op)
  <2> DEFINE request == CaseRequest(t.controller, op + 1)
             s2 == EnqueueBinding(s, request)
  <2>1. request.kind = "bind"
    BY DEF CaseRequest, BindRequest, NoRequest
  <2>2. request \in Request
    <3>1. t.controller.snapshot \in Snapshot /\ op + 1 \in Nat
      BY DEF Tests, Controller
    <3> QED
      BY <3>1, RequestConstructorTypes DEF CaseRequest, Snapshot, Overrides
  <2>3. s2 \in Scheduler
    BY <2>2, SchedulerOperatorTypes
  <2>4. CanEnqueueBinding(s, request) /\ Dispatch(s2, l)
    BY <1>5 DEF ServesCase
  <2> HIDE DEF request
  <2>5. CanTake(s2)
    BY <1>5, <2>1 DEF ServesCase, CanTake, EnqueueBinding, HasQueued, NoRequest,
                      Scheduler
  <2>6. Work(s2, l, RuntimeOf(l), R)
    BY <2>1, <2>4, BindingWork
  <2> HIDE DEF s2
  <2>7. Work(sched', link', RuntimeOf(l), R)
    BY <1>2, <2>3, <2>4, <2>5, <2>6, DispatchWork
  <2>8. link'.parserWorkerId = l.parserWorkerId
    BY <2>4 DEF Dispatch, Link
  <2> QED
    BY <1>1, <2>7, <2>8 DEF RuntimeOf
<1>6. CASE Rests(s, t, l, op)
  BY <1>1, <1>6 DEF Rests, RuntimeOf
<1> QED
  BY <1>3, <1>4, <1>5, <1>6, PumpOutcome

-----------------------------------------------------------------------------
(* The invariant of the compiler's part, with what it rests on.             *)
WorkInv ==
    /\ TypeInv
    /\ QueueInv
    /\ Work(sched, link, compiler, responses)

(* The types the proofs below go on asking for.                             *)
LEMMA WorkTypes ==
    ASSUME WorkInv
    PROVE  /\ sched \in Scheduler /\ link \in Link /\ compiler \in Runtime
           /\ tests \in Tests
           /\ responses \subseteq [worker : Nat, message : Response]
           /\ operationCounter \in Nat
           /\ link.parserWorkerId = sched.currentWorkerId
           /\ link.parserWorkerId \in Nat
           /\ link.parserWorkerId <= sched.nextWorkerId
           /\ SlotInv(sched, link, operationCounter)
<1>1. /\ sched \in Scheduler /\ link \in Link /\ compiler \in Runtime
      /\ tests \in Tests
      /\ responses \subseteq [worker : Nat, message : Response]
      /\ operationCounter \in Nat
  BY DEF WorkInv, TypeInv, TypeOK
<1>2. SlotInv(sched, link, operationCounter)
  BY DEF WorkInv, QueueInv
<1>3. link.parserWorkerId = sched.currentWorkerId
  BY <1>2 DEF SlotInv
<1>4. link.parserWorkerId \in Nat /\ sched.nextWorkerId \in Nat
  BY <1>1 DEF Link, Scheduler
<1>5. sched.currentWorkerId \in {0, sched.nextWorkerId}
  BY DEF WorkInv, Work, Generations
<1> QED
  BY <1>1, <1>2, <1>3, <1>4, <1>5

(* A completion is the answer to the active request; nothing else is under  *)
(* way, and it does not find its capture expired.                           *)
LEMMA CompletedWork ==
    ASSUME WorkInv, NEW r, NEW isCase, Completes(r, isCase)
    PROVE  LET s == Complete(sched, r.worker, r.message)
           IN  /\ Work(s, Idle(link), compiler, responses')
               /\ sched.phase = "busy"
               /\ r.message.kind = sched.activeRequest.kind
               /\ r.message.revision = sched.activeRequest.revision
               /\ r.message.document = sched.activeRequest.document
               /\ r.message.kind = "bind" =>
                     r.message.sourceRevision = sched.activeRequest.sourceRevision
               /\ r.message.outcome # "expired"
               /\ r.worker = link.parserWorkerId
               /\ Idle(link).parserWorkerId = link.parserWorkerId
               /\ s.phase = "ready" /\ s.activeRequest = NoRequest
               /\ s.queuedRequest = sched.queuedRequest
               /\ s.currentWorkerId = sched.currentWorkerId
               /\ s.nextWorkerId = sched.nextWorkerId
               /\ r.message.kind # "parse" => s.bindingCapture = sched.bindingCapture
               /\ Accepts(sched, r.message) <=> ~HasQueued(sched)
<1> DEFINE m == r.message
           s == Complete(sched, r.worker, m)
<1>1. /\ r \in responses /\ r.worker = link.parserWorkerId
      /\ r.message.kind # "ready"
      /\ Matches(sched, r.worker, r.message)
      /\ responses' = responses \ {r}
  BY DEF Completes, FromCurrent, Delivered
<1>2. /\ sched.phase = "busy"
      /\ sched.activeRequest # NoRequest
      /\ m.kind = sched.activeRequest.kind
      /\ m.revision = sched.activeRequest.revision
      /\ m.kind = "bind" => m.sourceRevision = sched.activeRequest.sourceRevision
  BY <1>1 DEF Matches
<1>3. /\ Replies(link, responses) = {r}
      /\ link.mailbox = NoRequest /\ compiler.job = NoRequest
      /\ m.document = sched.activeRequest.document
  <2>1. r \in Replies(link, responses)
    BY <1>1 DEF Replies
  <2> QED
    BY <1>2, <2>1 DEF WorkInv, Work, Operation
<1>4. /\ m.outcome # "expired"
      /\ m.kind = "parse" /\ m.token # NoToken =>
            compiler.session = [token |-> m.token, revision |-> m.revision]
      /\ m.kind = "parse" => compiler.parses >= 1
      /\ m.kind = "parse" => sched.bindingCapture = NoCapture
  BY <1>2, <1>3 DEF WorkInv, Work, Captured, Timed
<1>5. /\ Idle(link).parserWorkerId = link.parserWorkerId
      /\ Idle(link).mailbox = NoRequest
      /\ Idle(link).workerTimeout = NoTimer
  BY <1>3, WorkTypes DEF Idle, Link
<1>6. Replies(Idle(link), responses') = {}
  BY <1>1, <1>3, <1>5 DEF Replies
<1>7. /\ s.nextWorkerId = sched.nextWorkerId
      /\ s.currentWorkerId = sched.currentWorkerId
      /\ s.phase = "ready"
      /\ s.activeRequest = NoRequest
      /\ s.queuedRequest = sched.queuedRequest
      /\ s.completedParse => sched.completedParse \/ m.kind = "parse"
      /\ s.bindingCapture =
            IF ~HasQueued(sched) /\ m.kind = "parse" /\ m.token # NoToken
            THEN [workerId |-> r.worker, sourceRevision |-> m.revision,
                  token |-> m.token]
            ELSE sched.bindingCapture
      /\ Accepts(sched, m) <=> ~HasQueued(sched)
  <2> DEFINE u == Released(sched, m)
  <2>1. u = [sched EXCEPT !.activeRequest = NoRequest, !.phase = "ready",
                          !.completedParse = @ \/ m.kind = "parse"]
    BY <1>4, WorkTypes DEF Released, Scheduler
  <2>2. /\ u.nextWorkerId = sched.nextWorkerId
        /\ u.currentWorkerId = sched.currentWorkerId
        /\ u.phase = "ready"
        /\ u.activeRequest = NoRequest
        /\ u.queuedRequest = sched.queuedRequest
        /\ u.bindingCapture = sched.bindingCapture
        /\ u.completedParse => sched.completedParse \/ m.kind = "parse"
        /\ u \in Scheduler
    BY <2>1, WorkTypes, RequestTypes DEF Scheduler, Phases
  <2> HIDE DEF u
  <2>3. s = IF ~HasQueued(u) /\ m.kind = "parse" /\ m.token # NoToken
            THEN [u EXCEPT !.bindingCapture = [workerId |-> r.worker,
                                               sourceRevision |-> m.revision,
                                               token |-> m.token]]
            ELSE u
    BY DEF Complete, u
  <2>4. HasQueued(u) <=> HasQueued(sched)
    BY <2>2 DEF HasQueued
  <2> HIDE DEF s, m
  <2> QED
    BY <2>2, <2>3, <2>4 DEF Scheduler, Accepts, u
<1> HIDE DEF s
<1>8. Operation(s, Idle(link), compiler, responses')
  BY <1>3, <1>5, <1>6, <1>7 DEF Operation
<1>9. Generations(s, responses') /\ Behind(s)
  BY <1>1, <1>7 DEF Generations, Behind, WorkInv, Work
<1>10. Captured(s, Idle(link), compiler, responses')
  <2>1. s.queuedRequest.kind = "bind" => HasQueued(sched)
    BY <1>7 DEF HasQueued, NoRequest
  <2>2. s.queuedRequest.kind = "parse" =>
           HasQueued(sched) /\ sched.bindingCapture = NoCapture
    BY <1>7 DEF HasQueued, NoRequest, WorkInv, Work, Captured
  <2>3. CASE s.bindingCapture = sched.bindingCapture
    <3>1. /\ sched.bindingCapture # NoCapture =>
                /\ sched.bindingCapture.workerId = link.parserWorkerId
                /\ compiler.session = [token |-> sched.bindingCapture.token,
                                       revision |-> sched.bindingCapture.sourceRevision]
          /\ sched.queuedRequest.kind = "bind" =>
                /\ sched.bindingCapture # NoCapture
                /\ sched.bindingCapture.token = sched.queuedRequest.token
                /\ sched.bindingCapture.sourceRevision
                       = sched.queuedRequest.sourceRevision
      BY DEF Captured, WorkInv, Work
    <3> QED
      BY <1>5, <1>6, <1>7, <2>2, <2>3, <3>1 DEF Captured, NoRequest
  <2>4. CASE s.bindingCapture # sched.bindingCapture
    <3>1. /\ ~HasQueued(sched) /\ m.kind = "parse" /\ m.token # NoToken
          /\ s.bindingCapture = [workerId |-> r.worker,
                                 sourceRevision |-> m.revision, token |-> m.token]
      BY <1>7, <2>4
    <3>2. /\ s.bindingCapture.workerId = Idle(link).parserWorkerId
          /\ compiler.session = [token |-> s.bindingCapture.token,
                                 revision |-> s.bindingCapture.sourceRevision]
      BY <1>1, <1>4, <1>5, <3>1
    <3>3. s.queuedRequest.kind \notin {"bind", "parse"}
      BY <2>1, <2>2, <3>1
    <3> HIDE DEF m
    <3> QED
      BY <1>5, <1>6, <1>7, <3>2, <3>3 DEF Captured, NoRequest
  <2> QED
    BY <2>3, <2>4
<1>11. Timed(s, Idle(link), compiler, responses')
  BY <1>3, <1>4, <1>5, <1>6, <1>7 DEF Timed, WorkInv, Work, NoTimer, NoRequest
<1> QED
  BY <1>1, <1>2, <1>3, <1>4, <1>5, <1>7, <1>8, <1>9, <1>10, <1>11
     DEF Work, s

(* ready ends the boot; a request may be waiting, nothing is under way.     *)
LEMMA ReadyWork ==
    ASSUME WorkInv, HandleReady
    PROVE  /\ Work(MarkReady(sched), [link EXCEPT !.bootTimer = 0], compiler,
                   responses')
           /\ sched.phase = "booting"
<1> DEFINE s == MarkReady(sched)
           l == [link EXCEPT !.bootTimer = 0]
<1>1. PICK r \in responses :
         /\ r.message.kind = "ready"
         /\ sched.phase = "booting"
         /\ responses' = responses \ {r}
  BY DEF HandleReady, FromCurrent, CanMarkReady, Delivered
<1>2. /\ l.parserWorkerId = link.parserWorkerId
      /\ l.mailbox = link.mailbox
      /\ l.workerTimeout = link.workerTimeout
  BY WorkTypes DEF Link
<1>3. /\ s.nextWorkerId = sched.nextWorkerId
      /\ s.currentWorkerId = sched.currentWorkerId
      /\ s.phase = "ready"
      /\ s.activeRequest = sched.activeRequest
      /\ s.queuedRequest = sched.queuedRequest
      /\ s.bindingCapture = sched.bindingCapture
      /\ s.completedParse = sched.completedParse
  BY WorkTypes DEF MarkReady, Scheduler
<1> HIDE DEF s, l
<1>4. Replies(l, responses') = Replies(link, responses)
  BY <1>1, <1>2 DEF Replies
<1>5. Operation(s, l, compiler, responses')
  BY <1>1, <1>2, <1>3, <1>4 DEF Operation, WorkInv, Work
<1>6. Generations(s, responses') /\ Behind(s)
  BY <1>1, <1>3 DEF Generations, Behind, WorkInv, Work
<1>7. Captured(s, l, compiler, responses')
  BY <1>1, <1>2, <1>3, <1>4 DEF Captured, WorkInv, Work
<1>8. Timed(s, l, compiler, responses')
  BY <1>1, <1>2, <1>3, <1>4 DEF Timed, WorkInv, Work
<1> QED
  BY <1>1, <1>5, <1>6, <1>7, <1>8 DEF Work, s, l

(* What the page ignores is of a lost Worker, or was never awaited.         *)
LEMMA IgnoreWork ==
    ASSUME WorkInv, IgnoreMessage
    PROVE  Work(sched, link, compiler, responses')
<1>1. PICK r \in responses :
         /\ r.message.kind # "ready" =>
               ~(FromCurrent(r) /\ Matches(sched, r.worker, r.message))
         /\ responses' = responses \ {r}
  BY DEF IgnoreMessage, Delivered
<1>2. r \notin Replies(link, responses)
  <2>1. SUFFICES ASSUME r \in Replies(link, responses) PROVE FALSE
    OBVIOUS
  <2>2. FromCurrent(r) /\ r.message.kind # "ready"
    BY <2>1, WorkTypes DEF Replies, FromCurrent
  <2>3. Matches(sched, r.worker, r.message)
    BY <2>1 DEF WorkInv, Work, Operation
  <2> QED
    BY <1>1, <2>2, <2>3
<1>3. Replies(link, responses') = Replies(link, responses)
  BY <1>1, <1>2 DEF Replies
<1>4. Operation(sched, link, compiler, responses')
  <2>1. \A q \in responses : Replies(link, responses) = {q} => q \in responses'
    BY <1>1, <1>2
  <2> QED
    BY <1>3, <2>1 DEF Operation, WorkInv, Work
<1>5. Generations(sched, responses')
  BY <1>1 DEF Generations, WorkInv, Work
<1>6. /\ Captured(sched, link, compiler, responses')
      /\ Timed(sched, link, compiler, responses')
  BY <1>3 DEF Captured, Timed, WorkInv, Work
<1> QED
  BY <1>4, <1>5, <1>6 DEF WorkInv, Work

(* A lost Worker takes its operation, its capture and its timer with it.    *)
LEMMA LostWork ==
    ASSUME WorkInv, NEW l \in Link, l.parserWorkerId = 0, l.mailbox = NoRequest,
           l.workerTimeout = NoTimer
    PROVE  Work(Fail(sched), l, NewRuntime, responses)
<1> DEFINE s == Fail(sched)
<1>1. /\ s.nextWorkerId = sched.nextWorkerId
      /\ s.currentWorkerId = 0
      /\ s.phase = "absent"
      /\ s.activeRequest = NoRequest
      /\ s.bindingCapture = NoCapture
      /\ s.queuedRequest = SurvivingQueue(sched)
      /\ s.completedParse = FALSE
  BY WorkTypes DEF Fail, Scheduler
<1> HIDE DEF s
<1>2. s.queuedRequest.kind \in {"none", "parse"}
  BY <1>1 DEF SurvivingQueue, NoRequest
<1>3. Generations(s, responses) /\ Replies(l, responses) = {}
  BY <1>1 DEF Generations, Replies, WorkInv, Work
<1>4. Operation(s, l, NewRuntime, responses)
  BY <1>1, <1>3 DEF Operation, NewRuntime
<1>5. Behind(s) /\ Captured(s, l, NewRuntime, responses)
  BY <1>1, <1>2, <1>3 DEF Behind, Captured, NoRequest
<1>6. Timed(s, l, NewRuntime, responses)
  BY <1>1, <1>3 DEF Timed, NewRuntime, NoTimer, NoRequest
<1> QED
  BY <1>3, <1>4, <1>5, <1>6 DEF Work, s

-----------------------------------------------------------------------------
(* The Worker's own steps                                                   *)

(* A posted message other than "ready" joins the replies.                   *)
LEMMA PostedReplies ==
    ASSUME WorkInv, NEW m, Post(link.parserWorkerId, m), link.parserWorkerId # 0
    PROVE  /\ Generations(sched, responses')
           /\ m.kind = "ready" => Replies(link, responses') = Replies(link, responses)
           /\ m.kind # "ready" /\ Replies(link, responses) = {} =>
                 Replies(link, responses')
                     = {[worker |-> link.parserWorkerId, message |-> m]}
<1> DEFINE r == [worker |-> link.parserWorkerId, message |-> m]
<1>1. responses' = responses \cup {r}
  BY DEF Post
<1>2. Generations(sched, responses')
  BY <1>1, WorkTypes DEF Generations, WorkInv, Work
<1> QED
  BY <1>1, <1>2 DEF Replies

(* The request that is on its way to the Worker is the active one.          *)
LEMMA MailIsActive ==
    ASSUME WorkInv, link.mailbox # NoRequest
    PROVE  /\ link.mailbox = sched.activeRequest
           /\ sched.phase = "busy"
           /\ compiler.job = NoRequest
           /\ Replies(link, responses) = {}
           /\ link.parserWorkerId # 0
<1>1. sched.phase = "busy"
  BY DEF WorkInv, Work, Operation
<1>2. link.parserWorkerId # 0
  BY <1>1 DEF WorkInv, QueueInv, SlotInv
<1> QED
  BY <1>1, <1>2 DEF WorkInv, Work, Operation

LEMMA JobIsActive ==
    ASSUME WorkInv, compiler.job # NoRequest
    PROVE  /\ compiler.job = sched.activeRequest
           /\ sched.phase = "busy"
           /\ link.mailbox = NoRequest
           /\ Replies(link, responses) = {}
           /\ link.parserWorkerId # 0
<1>1. sched.phase = "busy"
  BY DEF WorkInv, Work, Operation
<1>2. link.parserWorkerId # 0
  BY <1>1 DEF WorkInv, QueueInv, SlotInv
<1> QED
  BY <1>1, <1>2 DEF WorkInv, Work, Operation

(* The Worker takes what it was sent.                                       *)
LEMMA TakesWork ==
    ASSUME WorkInv, WorkerStartsParse \/ WorkerStartsImport
    PROVE  Work(sched, link', compiler', responses)
<1>1. /\ link.mailbox.kind \in {"parse", "import"}
      /\ link' = [link EXCEPT !.mailbox = NoRequest]
      /\ compiler' \in {[compiler EXCEPT !.parses = @ + 1, !.session = NoSession,
                                         !.job = link.mailbox],
                        [compiler EXCEPT !.job = link.mailbox]}
      /\ link.mailbox.kind = "parse" => compiler'.parses = compiler.parses + 1
      /\ link.mailbox.kind = "import" =>
            compiler'.parses = compiler.parses /\ compiler'.session = compiler.session
  <2>1. CASE WorkerStartsParse
    BY <2>1, WorkTypes DEF WorkerStartsParse, Runtime
  <2>2. CASE WorkerStartsImport
    BY <2>2, WorkTypes DEF WorkerStartsImport, Runtime
  <2> QED
    BY <2>1, <2>2
<1>2. /\ link'.parserWorkerId = link.parserWorkerId
      /\ link'.mailbox = NoRequest
      /\ link'.workerTimeout = link.workerTimeout
      /\ compiler'.job = link.mailbox
      /\ compiler.parses \in Nat
  BY <1>1, WorkTypes DEF Link, Runtime
<1>3. link.mailbox # NoRequest
  BY <1>1 DEF NoRequest
<1>4. /\ link.mailbox = sched.activeRequest
      /\ sched.phase = "busy"
      /\ compiler.job = NoRequest
      /\ Replies(link, responses) = {}
  BY <1>3, MailIsActive
<1>5. Replies(link', responses) = {}
  BY <1>2, <1>4 DEF Replies
<1>6. Operation(sched, link', compiler', responses)
  BY <1>2, <1>3, <1>4, <1>5 DEF Operation
<1>7. Captured(sched, link', compiler', responses)
  <2>1. CASE link.mailbox.kind = "parse"
    <3>1. sched.bindingCapture = NoCapture
      BY <1>4, <2>1 DEF Captured, WorkInv, Work
    <3>2. sched.queuedRequest.kind # "bind"
      BY <3>1 DEF Captured, WorkInv, Work
    <3> QED
      BY <1>2, <1>5, <3>1, <3>2 DEF Captured, NoRequest
  <2>2. CASE link.mailbox.kind = "import"
    BY <1>1, <1>2, <1>5, <2>2 DEF Captured, WorkInv, Work, NoRequest
  <2> QED
    BY <1>1, <2>1, <2>2
<1>8. Timed(sched, link', compiler', responses)
  <2>1. CASE link.mailbox.kind = "parse"
    BY <1>1, <1>2, <1>4, <1>5, <2>1 DEF Timed, WorkInv, Work, NoRequest
  <2>2. CASE link.mailbox.kind = "import"
    BY <1>1, <1>2, <1>4, <1>5, <2>2 DEF Timed, WorkInv, Work, NoRequest
  <2> QED
    BY <1>1, <2>1, <2>2
<1> QED
  BY <1>6, <1>7, <1>8 DEF WorkInv, Work

(* It answers a binding at once, and retains what the binding names.        *)
LEMMA BindsWork ==
    ASSUME WorkInv, WorkerBinds
    PROVE  Work(sched, link', compiler, responses')
<1>1. PICK outcome \in BindOutcomes :
         /\ link.mailbox.kind = "bind"
         /\ outcome = "expired" <=>
               ~(compiler.session = [token |-> link.mailbox.token,
                                     revision |-> link.mailbox.sourceRevision])
         /\ Post(link.parserWorkerId, Reply(link.mailbox, outcome))
         /\ link' = [link EXCEPT !.mailbox = NoRequest]
  BY DEF WorkerBinds
<1> DEFINE m == Reply(link.mailbox, outcome)
           r == [worker |-> link.parserWorkerId, message |-> m]
<1>2. /\ link'.parserWorkerId = link.parserWorkerId
      /\ link'.mailbox = NoRequest
      /\ link'.workerTimeout = link.workerTimeout
  BY <1>1, WorkTypes DEF Link
<1>3. link.mailbox # NoRequest
  BY <1>1 DEF NoRequest
<1>4. /\ link.mailbox = sched.activeRequest
      /\ sched.phase = "busy"
      /\ compiler.job = NoRequest
      /\ Replies(link, responses) = {}
      /\ link.parserWorkerId # 0
  BY <1>3, MailIsActive
<1>5. /\ m.kind = "bind" /\ m.outcome = outcome
      /\ m.revision = sched.activeRequest.revision
      /\ m.sourceRevision = sched.activeRequest.sourceRevision
      /\ m.document = sched.activeRequest.document
  BY <1>1, <1>4 DEF Reply
<1>6. outcome # "expired"
  BY <1>1 DEF WorkInv, Work, Captured
<1> HIDE DEF m
<1>7. /\ Generations(sched, responses')
      /\ Replies(link, responses') = {r}
      /\ r \in responses'
  BY <1>1, <1>4, <1>5, PostedReplies DEF Post, m
<1>8. Replies(link', responses') = {r}
  BY <1>2, <1>7 DEF Replies
<1>9. Matches(sched, r.worker, r.message)
  BY <1>1, <1>3, <1>4, <1>5, WorkTypes DEF Matches
<1>10. Operation(sched, link', compiler, responses')
  BY <1>2, <1>4, <1>5, <1>7, <1>8, <1>9 DEF Operation
<1>11. Captured(sched, link', compiler, responses')
  BY <1>2, <1>5, <1>6, <1>8 DEF Captured, WorkInv, Work, NoRequest
<1>12. Timed(sched, link', compiler, responses')
  BY <1>1, <1>2, <1>4, <1>5, <1>8 DEF Timed, WorkInv, Work, NoRequest
<1> QED
  BY <1>7, <1>10, <1>11, <1>12 DEF WorkInv, Work

(* It finishes a job, and posts what it found.                              *)
LEMMA FinishesWork ==
    ASSUME WorkInv, WorkerFinishesParse \/ WorkerFinishesImport
    PROVE  Work(sched, link, compiler', responses')
<1>1. PICK m :
         /\ compiler.job.kind \in {"parse", "import"}
         /\ Post(link.parserWorkerId, m)
         /\ m.kind = compiler.job.kind /\ m.revision = compiler.job.revision
         /\ m.sourceRevision = compiler.job.sourceRevision
         /\ m.document = compiler.job.document
         /\ m.outcome # "expired"
         /\ compiler'.job = NoRequest /\ compiler'.parses = compiler.parses
         /\ compiler.job.kind = "import" => compiler'.session = compiler.session
         /\ m.kind = "parse" /\ m.token # NoToken =>
               compiler'.session = [token |-> m.token, revision |-> m.revision]
  <2>1. CASE WorkerFinishesParse
    <3>1. PICK outcome \in ParseOutcomes :
             LET retains == outcome \in {"parametric", "symbolic"}
                 token == <<link.parserWorkerId, compiler.sequence + 1>>
                 reply == Reply(compiler.job, outcome)
             IN  /\ compiler.job.kind = "parse"
                 /\ compiler' =
                       IF retains
                       THEN [compiler EXCEPT
                               !.job = NoRequest, !.sequence = @ + 1,
                               !.session = [token |-> token,
                                            revision |-> compiler.job.revision]]
                       ELSE [compiler EXCEPT !.job = NoRequest]
                 /\ Post(link.parserWorkerId,
                         IF retains THEN [reply EXCEPT !.token = token] ELSE reply)
      BY <2>1 DEF WorkerFinishesParse
    <3> DEFINE token == <<link.parserWorkerId, compiler.sequence + 1>>
               reply == Reply(compiler.job, outcome)
    <3>2. outcome # "expired"
      BY DEF ParseOutcomes
    <3>3. CASE outcome \in {"parametric", "symbolic"}
      <4> DEFINE m == [reply EXCEPT !.token = token]
      <4>1. /\ m.kind = "parse" /\ m.revision = compiler.job.revision
            /\ m.sourceRevision = compiler.job.sourceRevision
            /\ m.document = compiler.job.document
            /\ m.outcome = outcome
            /\ m.token = token
        BY <3>1 DEF Reply
      <4>2. /\ compiler'.job = NoRequest /\ compiler'.parses = compiler.parses
            /\ compiler'.session = [token |-> token,
                                    revision |-> compiler.job.revision]
        BY <3>1, <3>3, WorkTypes DEF Runtime
      <4>3. Post(link.parserWorkerId, m)
        BY <3>1, <3>3
      <4> HIDE DEF m, token
      <4> QED
        BY <3>1, <3>2, <4>1, <4>2, <4>3
    <3>4. CASE outcome \notin {"parametric", "symbolic"}
      <4>1. /\ reply.kind = "parse" /\ reply.revision = compiler.job.revision
            /\ reply.sourceRevision = compiler.job.sourceRevision
            /\ reply.document = compiler.job.document
            /\ reply.outcome = outcome
            /\ reply.token = NoToken
        BY <3>1 DEF Reply
      <4>2. compiler'.job = NoRequest /\ compiler'.parses = compiler.parses
        BY <3>1, <3>4, WorkTypes DEF Runtime
      <4>3. Post(link.parserWorkerId, reply)
        BY <3>1, <3>4
      <4> HIDE DEF reply
      <4> QED
        BY <3>1, <3>2, <4>1, <4>2, <4>3
    <3> QED
      BY <3>3, <3>4
  <2>2. CASE WorkerFinishesImport
    <3>1. PICK outcome \in ImportOutcomes :
             /\ compiler.job.kind = "import"
             /\ compiler' = [compiler EXCEPT !.job = NoRequest]
             /\ Post(link.parserWorkerId, Reply(compiler.job, outcome))
      BY <2>2 DEF WorkerFinishesImport
    <3> DEFINE m == Reply(compiler.job, outcome)
    <3>2. /\ m.kind = "import" /\ m.revision = compiler.job.revision
          /\ m.sourceRevision = compiler.job.sourceRevision
          /\ m.document = compiler.job.document
          /\ m.outcome = outcome /\ outcome # "expired"
      BY <3>1 DEF Reply, ImportOutcomes
    <3>3. /\ compiler'.job = NoRequest /\ compiler'.parses = compiler.parses
          /\ compiler'.session = compiler.session
      BY <3>1, WorkTypes DEF Runtime
    <3>4. Post(link.parserWorkerId, m)
      BY <3>1
    <3> HIDE DEF m
    <3> QED
      BY <3>1, <3>2, <3>3, <3>4
  <2> QED
    BY <2>1, <2>2
<1> DEFINE r == [worker |-> link.parserWorkerId, message |-> m]
<1>2. compiler.job # NoRequest
  BY <1>1 DEF NoRequest
<1>3. /\ compiler.job = sched.activeRequest
      /\ sched.phase = "busy"
      /\ link.mailbox = NoRequest
      /\ Replies(link, responses) = {}
      /\ link.parserWorkerId # 0
  BY <1>2, JobIsActive
<1>4. /\ Generations(sched, responses')
      /\ Replies(link, responses') = {r}
      /\ r \in responses'
  BY <1>1, <1>3, PostedReplies DEF Post
<1>5. Matches(sched, r.worker, r.message)
  BY <1>1, <1>2, <1>3, WorkTypes DEF Matches
<1>6. Operation(sched, link, compiler', responses')
  BY <1>1, <1>3, <1>4, <1>5 DEF Operation
<1>7. Captured(sched, link, compiler', responses')
  <2>1. CASE compiler.job.kind = "parse"
    <3>1. sched.bindingCapture = NoCapture
      BY <1>3, <2>1 DEF Captured, WorkInv, Work
    <3>2. sched.queuedRequest.kind # "bind"
      BY <3>1 DEF Captured, WorkInv, Work
    <3> QED
      BY <1>1, <1>3, <1>4, <3>1, <3>2 DEF Captured, NoRequest
  <2>2. CASE compiler.job.kind = "import"
    BY <1>1, <1>3, <1>4, <2>2 DEF Captured, WorkInv, Work, NoRequest
  <2> QED
    BY <1>1, <2>1, <2>2
<1>8. Timed(sched, link, compiler', responses')
  BY <1>1, <1>3, <1>4 DEF Timed, WorkInv, Work, NoRequest
<1> QED
  BY <1>4, <1>6, <1>7, <1>8 DEF WorkInv, Work

LEMMA BootsWork ==
    ASSUME WorkInv, WorkerBoots
    PROVE  Work(sched, link, compiler', responses')
<1>1. /\ compiler'.job = compiler.job /\ compiler'.parses = compiler.parses
      /\ compiler'.session = compiler.session
  BY WorkTypes DEF WorkerBoots, Runtime
<1>2. ReadyMessage.kind = "ready"
  BY DEF ReadyMessage, Reply, NoRequest
<1>3. /\ Generations(sched, responses')
      /\ Replies(link, responses') = Replies(link, responses)
      /\ responses \subseteq responses'
  BY <1>2, PostedReplies DEF WorkerBoots, Post
<1>4. Operation(sched, link, compiler', responses')
  BY <1>1, <1>3 DEF Operation, WorkInv, Work
<1>5. /\ Captured(sched, link, compiler', responses')
      /\ Timed(sched, link, compiler', responses')
  BY <1>1, <1>3 DEF Captured, Timed, WorkInv, Work
<1> QED
  BY <1>3, <1>4, <1>5 DEF WorkInv, Work

-----------------------------------------------------------------------------
(* What every handler that ends in a pump gives it.                         *)
Pumps(s, t, l, op) ==
    /\ s \in Scheduler /\ t \in Tests /\ l \in Link /\ op \in Nat
    /\ SlotInv(s, l, op)
    /\ Pump(s, t, l, op)
    /\ Work(s, l, RuntimeOf(l), responses')

LEMMA PumpedWork ==
    ASSUME WorkInv, responses' \subseteq responses,
           NEW s, NEW t, NEW l, NEW op, Pumps(s, t, l, op),
           s.nextWorkerId = sched.nextWorkerId
    PROVE  Work(sched', link', compiler', responses')
BY WorkTypes, PumpWork DEF Pumps

(* What a handler queues is numbered by the counter it leaves.              *)
LEMMA QueuedSlot ==
    ASSUME WorkInv, NEW s, SameSlot(sched, s),
           s.queuedRequest.revision = operationCounter + 1
    PROVE  SlotInv(s, link, operationCounter + 1)
<1>1. operationCounter + 1 <= operationCounter + 1
  BY WorkTypes
<1> QED
  BY <1>1, WorkTypes DEF SlotInv, SameSlot

LEMMA RenderPumps ==
    ASSUME WorkInv, Render, UNCHANGED responses
    PROVE  Pumps(Enqueue(sched, ParseRequest(operationCounter + 1)),
                 DropRun(tests), link, operationCounter + 1)
<1> DEFINE request == ParseRequest(operationCounter + 1)
           s == Enqueue(sched, request)
<1>0. /\ operationCounter + 1 \in Nat
      /\ sched \in Scheduler /\ tests \in Tests
  BY WorkTypes
<1>1. /\ request \in Request
      /\ request.kind = "parse" /\ request.revision = operationCounter + 1
  <2>1. request \in Request
    BY <1>0, RequestConstructorTypes, RequestTypes DEF Overrides
  <2> QED
    BY <2>1 DEF ParseRequest, NoRequest
<1>2. s \in Scheduler /\ DropRun(tests) \in Tests
  BY <1>0, <1>1, SchedulerOperatorTypes, TestsOperatorTypes
<1> HIDE DEF request
<1>3. Work(s, link, RuntimeOf(link), responses')
  BY <1>1, WorkTypes, ParseWork DEF WorkInv, RuntimeOf
<1>4. SlotInv(s, link, operationCounter + 1)
  <2>1. SameSlot(sched, s) /\ s.queuedRequest = request
    BY WorkTypes DEF Enqueue, SameSlot, Scheduler
  <2> HIDE DEF s
  <2> QED
    BY <1>1, <2>1, QueuedSlot
<1>5. Pump(s, DropRun(tests), link, operationCounter + 1)
  BY DEF Render, request
<1> QED
  BY <1>0, <1>1, <1>2, <1>3, <1>4, <1>5, WorkTypes DEF Pumps, request

LEMMA BindingPumps ==
    ASSUME WorkInv, UNCHANGED responses,
           NEW request, request \in Request, request.kind = "bind",
           request.revision = operationCounter + 1,
           CanEnqueueBinding(sched, request),
           Pump(EnqueueBinding(sched, request), CancelTests(tests), link,
                operationCounter + 1)
    PROVE  Pumps(EnqueueBinding(sched, request), CancelTests(tests), link,
                 operationCounter + 1)
<1>0. /\ operationCounter + 1 \in Nat
      /\ sched \in Scheduler /\ tests \in Tests
  BY WorkTypes
<1>1. /\ EnqueueBinding(sched, request) \in Scheduler
      /\ CancelTests(tests) \in Tests
  BY <1>0, SchedulerOperatorTypes, TestsOperatorTypes
<1>2. Work(EnqueueBinding(sched, request), link, RuntimeOf(link), responses')
  BY WorkTypes, BindingWork DEF WorkInv, RuntimeOf
<1>3. SlotInv(EnqueueBinding(sched, request), link, operationCounter + 1)
  <2> DEFINE s == EnqueueBinding(sched, request)
  <2>1. SameSlot(sched, s) /\ s.queuedRequest = request
    BY WorkTypes DEF EnqueueBinding, SameSlot, Scheduler
  <2> HIDE DEF s
  <2>2. SlotInv(s, link, operationCounter + 1)
    BY <2>1, QueuedSlot
  <2> QED
    BY <2>2 DEF s
<1> QED
  BY <1>0, <1>1, <1>2, <1>3, WorkTypes DEF Pumps

LEMMA ImportPumps ==
    ASSUME WorkInv, UNCHANGED responses,
           NEW request, request \in Request, request.kind = "import",
           request.revision = operationCounter + 1, CanEnqueueImport(sched),
           Pump(EnqueueImport(sched, request), CancelTests(tests), link,
                operationCounter + 1)
    PROVE  Pumps(EnqueueImport(sched, request), CancelTests(tests), link,
                 operationCounter + 1)
<1>0. /\ operationCounter + 1 \in Nat
      /\ sched \in Scheduler /\ tests \in Tests
  BY WorkTypes
<1>1. /\ EnqueueImport(sched, request) \in Scheduler
      /\ CancelTests(tests) \in Tests
  BY <1>0, SchedulerOperatorTypes, TestsOperatorTypes
<1>2. Work(EnqueueImport(sched, request), link, RuntimeOf(link), responses')
  BY WorkTypes, ImportWork DEF WorkInv, RuntimeOf
<1>3. SlotInv(EnqueueImport(sched, request), link, operationCounter + 1)
  <2> DEFINE s == EnqueueImport(sched, request)
  <2>1. SameSlot(sched, s) /\ s.queuedRequest = request
    BY WorkTypes DEF EnqueueImport, SameSlot, Scheduler
  <2> HIDE DEF s
  <2>2. SlotInv(s, link, operationCounter + 1)
    BY <2>1, QueuedSlot
  <2> QED
    BY <2>2 DEF s
<1> QED
  BY <1>0, <1>1, <1>2, <1>3, WorkTypes DEF Pumps

LEMMA ReadyPumps ==
    ASSUME WorkInv, HandleReady
    PROVE  Pumps(MarkReady(sched), tests, [link EXCEPT !.bootTimer = 0],
                 operationCounter)
<1> DEFINE l == [link EXCEPT !.bootTimer = 0]
<1>1. /\ MarkReady(sched) \in Scheduler
      /\ l \in Link /\ l.parserWorkerId = link.parserWorkerId
  BY WorkTypes, RequestTypes, SchedulerOperatorTypes DEF Link
<1>2. Work(MarkReady(sched), l, compiler, responses') /\ sched.phase = "booting"
  BY ReadyWork
<1>3. SlotInv(MarkReady(sched), l, operationCounter)
  BY <1>1, <1>2, WorkTypes DEF MarkReady, SlotInv, Scheduler
<1>4. RuntimeOf(l) = compiler
  BY <1>1 DEF RuntimeOf
<1> QED
  BY <1>1, <1>2, <1>3, <1>4, WorkTypes DEF Pumps, HandleReady

LEMMA CompletedPumps ==
    ASSUME WorkInv, NEW r, NEW isCase, Completes(r, isCase), NEW t \in Tests,
           Pump(Complete(sched, r.worker, r.message), t, Idle(link),
                operationCounter)
    PROVE  Pumps(Complete(sched, r.worker, r.message), t, Idle(link),
                 operationCounter)
<1>1. /\ Complete(sched, r.worker, r.message) \in Scheduler
      /\ Idle(link) \in Link
      /\ SlotInv(Complete(sched, r.worker, r.message), Idle(link), operationCounter)
  BY CompleteSlot DEF WorkInv
<1>2. /\ Work(Complete(sched, r.worker, r.message), Idle(link), compiler, responses')
      /\ Idle(link).parserWorkerId = link.parserWorkerId
  BY CompletedWork
<1> QED
  BY <1>1, <1>2, WorkTypes DEF Pumps, RuntimeOf

LEMMA AskedPumps ==
    ASSUME WorkInv, UNCHANGED responses, NEW t \in Tests,
           Pump(sched, t, link, operationCounter)
    PROVE  Pumps(sched, t, link, operationCounter)
BY WorkTypes DEF Pumps, RuntimeOf, WorkInv

(* Losing the compiler Worker                                               *)
CompilerLosses ==
    \/ HandleBootstrapTimeout \/ HandleWorkerError \/ CaseBindingTimeout
    \/ BindingTimeout \/ ImportTimeout \/ ParseTimeout

LEMMA LostPumps ==
    ASSUME WorkInv, NEW l \in Link, l.parserWorkerId = 0, l.mailbox = NoRequest,
           l.workerTimeout = NoTimer, link.parserWorkerId # 0, UNCHANGED responses,
           NEW t \in Tests, Pump(Fail(sched), t, l, operationCounter)
    PROVE  Pumps(Fail(sched), t, l, operationCounter)
<1>1. Fail(sched) \in Scheduler
  BY LossTypes DEF WorkInv
<1>2. Work(Fail(sched), l, RuntimeOf(l), responses')
  BY LostWork DEF RuntimeOf
<1>3. SlotInv(Fail(sched), l, operationCounter)
  <2>1. /\ Fail(sched).currentWorkerId = 0
        /\ Fail(sched).phase = "absent"
        /\ Fail(sched).activeRequest = NoRequest
        /\ Fail(sched).queuedRequest = SurvivingQueue(sched)
    BY WorkTypes DEF Fail, Scheduler
  <2> QED
    BY <2>1, WorkTypes DEF SlotInv, SurvivingQueue, NoRequest
<1> QED
  BY <1>1, <1>2, <1>3, WorkTypes DEF Pumps

(* What the request timer is for is under way in the live Worker.           *)
LEMMA TimedOutIsBusy ==
    ASSUME WorkInv, NEW kind \in Kinds, TimedOut(kind)
    PROVE  sched.phase = "busy" /\ link.parserWorkerId # 0
<1>1. sched.activeRequest # NoRequest
  BY DEF TimedOut, NoRequest, Kinds
<1> QED
  BY <1>1, WorkTypes DEF SlotInv

(* What a loss leaves of the tests.                                         *)
LostTests(t) ==
    \/ t = Disowned(IF TestsInvolved THEN CancelTests(tests) ELSE tests)
    \/ t = CancelTests(Disowned(tests))
    \/ t = Disowned(tests) /\ ~OwnsActive

(* Every loss of the Worker pumps what Fail leaves of the scheduler.        *)
LEMMA LossPumps ==
    ASSUME WorkInv, CompilerLosses
    PROVE  /\ link.parserWorkerId # 0
           /\ UNCHANGED responses
           /\ \E t \in Tests, l \in Link :
                 /\ l.parserWorkerId = 0
                 /\ LostTests(t)
                 /\ Pumps(Fail(sched), t, l, operationCounter)
<1>1. /\ CancelTests(tests) \in Tests
      /\ Disowned(tests) \in Tests
      /\ Disowned(CancelTests(tests)) \in Tests
      /\ CancelTests(Disowned(tests)) \in Tests
  BY LossTypes DEF WorkInv
<1>2. CASE HandleBootstrapTimeout
  <2> DEFINE l == [link EXCEPT !.parserWorkerId = 0, !.bootTimer = 0,
                               !.mailbox = NoRequest]
  <2>1. /\ l \in Link /\ l.parserWorkerId = 0 /\ l.mailbox = NoRequest
        /\ l.workerTimeout = link.workerTimeout
    BY WorkTypes, RequestTypes DEF Link
  <2>2. /\ link.parserWorkerId # 0 /\ sched.phase = "booting"
        /\ UNCHANGED responses
    BY <1>2 DEF HandleBootstrapTimeout
  <2>3. l.workerTimeout = NoTimer
    BY <2>1, <2>2 DEF WorkInv, Work, Timed
  <2>4. PICK t \in Tests :
             LostTests(t) /\ Pump(Fail(sched), t, l, operationCounter)
    BY <1>1, <1>2 DEF HandleBootstrapTimeout, LostTests
  <2> HIDE DEF l
  <2> QED
    BY <2>1, <2>2, <2>3, <2>4, LostPumps
<1>3. CASE HandleWorkerError
  <2>1. /\ NoLink \in Link /\ NoLink.parserWorkerId = 0
        /\ NoLink.mailbox = NoRequest /\ NoLink.workerTimeout = NoTimer
    BY PageTypes DEF NoLink
  <2>2. link.parserWorkerId # 0 /\ UNCHANGED responses
    BY <1>3 DEF HandleWorkerError
  <2>3. PICK t \in Tests :
             LostTests(t) /\ Pump(Fail(sched), t, NoLink, operationCounter)
    BY <1>1, <1>3 DEF HandleWorkerError, LostTests
  <2> QED
    BY <2>1, <2>2, <2>3, LostPumps
<1>4. CASE CaseBindingTimeout \/ BindingTimeout \/ ImportTimeout \/ ParseTimeout
  <2> DEFINE l == [link EXCEPT !.parserWorkerId = 0, !.workerTimeout = NoTimer,
                               !.mailbox = NoRequest]
  <2>1. /\ l \in Link /\ l.parserWorkerId = 0 /\ l.mailbox = NoRequest
        /\ l.workerTimeout = NoTimer
    BY WorkTypes, RequestTypes, PageTypes DEF Link
  <2>2. PICK kind \in Kinds : TimedOut(kind)
    BY <1>4
       DEF CaseBindingTimeout, BindingTimeout, ImportTimeout, ParseTimeout, Kinds
  <2>3. link.parserWorkerId # 0 /\ UNCHANGED responses
    BY <2>2, TimedOutIsBusy DEF TimedOut
  <2>4. PICK t \in Tests : LostTests(t) /\ LoseToTimeout(t)
    BY <1>1, <1>4
       DEF CaseBindingTimeout, BindingTimeout, ImportTimeout, ParseTimeout,
           LostTests, OwnsActive, TimedOut
  <2>5. Pump(Fail(sched), t, l, operationCounter)
    BY <2>4 DEF LoseToTimeout
  <2> HIDE DEF l
  <2> QED
    BY <2>1, <2>3, <2>4, <2>5, LostPumps
<1> QED
  BY <1>2, <1>3, <1>4 DEF CompilerLosses

-----------------------------------------------------------------------------
(* Every step keeps the compiler's part.                                    *)

LEMMA IdleWork ==
    ASSUME WorkInv, UNCHANGED <<sched, link, compiler, responses>>
    PROVE  Work(sched', link', compiler', responses')
BY DEF WorkInv

LEMMA UserWork ==
    ASSUME WorkInv, User PROVE Work(sched', link', compiler', responses')
<1>1. CASE EditSource \/ ApplyImport
  BY <1>1, IdleWork DEF EditSource, ApplyImport, ScheduleRender
<1>2. CASE EditImportInput \/ EditTests
  BY <1>2, IdleWork DEF EditImportInput, EditTests, pumpVars
<1>3. CASE SubmitBinding
  <2> DEFINE request == BindRequest(operationCounter + 1, parameterSourceRevision,
                                    sched.bindingCapture.token, "panel")
             s == EnqueueBinding(sched, request)
  <2>1. UNCHANGED responses
    BY <1>3 DEF SubmitBinding
  <2>2. CASE /\ CanEnqueueBinding(sched, request)
             /\ Pump(s, CancelTests(tests), link, operationCounter + 1)
    <3>1. parameterSourceRevision \in Nat /\ sched.bindingCapture.token \in Token
      BY DEF WorkInv, TypeInv, TypeOK, Scheduler, Capture
    <3>2. request \in Request
      BY <3>1, WorkTypes, RequestConstructorTypes DEF Overrides
    <3>3. request.kind = "bind" /\ request.revision = operationCounter + 1
      BY DEF BindRequest, NoRequest
    <3> HIDE DEF request
    <3>4. Pumps(s, CancelTests(tests), link, operationCounter + 1)
      BY <2>1, <2>2, <3>2, <3>3, BindingPumps
    <3>5. s.nextWorkerId = sched.nextWorkerId
      BY WorkTypes DEF EnqueueBinding, Scheduler
    <3> HIDE DEF s
    <3> QED
      BY <2>1, <3>4, <3>5, PumpedWork
  <2>3. CASE UNCHANGED <<sched, link, compiler>>
    BY <2>1, <2>3, IdleWork
  <2> QED
    BY <1>3, <2>2, <2>3 DEF SubmitBinding
<1>4. CASE SubmitImport
  <2> DEFINE request == ImportRequest(operationCounter + 1, inputEditGeneration)
             s == EnqueueImport(sched, request)
  <2>1. UNCHANGED responses
    BY <1>4 DEF SubmitImport
  <2>2. CASE /\ CanEnqueueImport(sched)
             /\ Pump(s, CancelTests(tests), link, operationCounter + 1)
    <3>1. inputEditGeneration \in Nat
      BY DEF WorkInv, TypeInv, TypeOK
    <3>2. request \in Request
      BY <3>1, WorkTypes, RequestConstructorTypes, RequestTypes DEF Overrides
    <3>3. request.kind = "import" /\ request.revision = operationCounter + 1
      BY DEF ImportRequest, NoRequest
    <3> HIDE DEF request
    <3>4. Pumps(s, CancelTests(tests), link, operationCounter + 1)
      BY <2>1, <2>2, <3>2, <3>3, ImportPumps
    <3>5. s.nextWorkerId = sched.nextWorkerId
      BY WorkTypes DEF EnqueueImport, Scheduler
    <3> HIDE DEF s
    <3> QED
      BY <2>1, <3>4, <3>5, PumpedWork
  <2>3. CASE UNCHANGED <<sched, link, compiler>>
    BY <2>1, <2>3, IdleWork
  <2> QED
    BY <1>4, <2>2, <2>3, Zenon DEF SubmitImport
<1> QED
  BY <1>1, <1>2, <1>3, <1>4 DEF User

LEMMA RenderWork ==
    ASSUME WorkInv, Render, UNCHANGED responses
    PROVE  Work(sched', link', compiler', responses')
<1> DEFINE s == Enqueue(sched, ParseRequest(operationCounter + 1))
<1>1. Pumps(s, DropRun(tests), link, operationCounter + 1)
  BY RenderPumps
<1>2. s.nextWorkerId = sched.nextWorkerId
  BY WorkTypes DEF Enqueue, Scheduler
<1> HIDE DEF s
<1> QED
  BY <1>1, <1>2, PumpedWork

(* A handler of a completion, with the tests it leaves.                     *)
CompletesWith(r, isCase, t) ==
    /\ Completes(r, isCase)
    /\ Pump(Complete(sched, r.worker, r.message), t, Idle(link), operationCounter)

LEMMA CompletesWithTests ==
    ASSUME WorkInv, \/ HandleCaseBound \/ HandleStaleCompletion
                    \/ HandleImported \/ HandleBound \/ HandleParsed
    PROVE  \E r \in responses, t \in Tests, isCase \in BOOLEAN :
              CompletesWith(r, isCase, t)
<1>1. tests \in Tests /\ ScheduleTests(tests) \in Tests
  BY WorkTypes, TestsOperatorTypes
<1>2. CASE HandleCaseBound
  BY <1>2, CaseBoundPump DEF CompletesWith, WorkInv
<1>3. CASE HandleStaleCompletion
  BY <1>1, <1>3 DEF HandleStaleCompletion, CompletesWith
<1>4. CASE HandleImported
  BY <1>1, <1>4 DEF HandleImported, CompletesWith
<1>5. CASE HandleBound \/ HandleParsed
  <2>1. PICK r \in responses, t \in {tests, ScheduleTests(tests)} :
           /\ Completes(r, FALSE)
           /\ Pump(Complete(sched, r.worker, r.message), t, Idle(link),
                   operationCounter)
    BY <1>5 DEF HandleBound, HandleParsed
  <2> QED
    BY <1>1, <2>1 DEF CompletesWith
<1> QED
  BY <1>2, <1>3, <1>4, <1>5

LEMMA MessagesWork ==
    ASSUME WorkInv, Messages PROVE Work(sched', link', compiler', responses')
<1>1. CASE IgnoreMessage
  BY <1>1, IgnoreWork DEF IgnoreMessage, pumpVars
<1>2. CASE HandleReady
  <2> DEFINE s == MarkReady(sched)
             l == [link EXCEPT !.bootTimer = 0]
  <2>1. Pumps(s, tests, l, operationCounter)
    BY <1>2, ReadyPumps
  <2>2. s.nextWorkerId = sched.nextWorkerId
    BY WorkTypes DEF MarkReady, Scheduler
  <2>3. responses' \subseteq responses
    BY <1>2 DEF HandleReady, Delivered
  <2> HIDE DEF s, l
  <2> QED
    BY <2>1, <2>2, <2>3, PumpedWork
<1>3. CASE \/ HandleCaseBound \/ HandleStaleCompletion \/ HandleImported
           \/ HandleBound \/ HandleParsed
  <2>1. PICK r \in responses, t \in Tests, isCase \in BOOLEAN :
           CompletesWith(r, isCase, t)
    BY <1>3, CompletesWithTests
  <2> DEFINE s == Complete(sched, r.worker, r.message)
  <2>2. Pumps(s, t, Idle(link), operationCounter)
    BY <2>1, CompletedPumps DEF CompletesWith
  <2>3. s.nextWorkerId = sched.nextWorkerId
    BY <2>1, CompletedWork DEF CompletesWith
  <2>4. responses' \subseteq responses
    BY <2>1 DEF CompletesWith, Completes, Delivered
  <2> HIDE DEF s
  <2> QED
    BY <2>2, <2>3, <2>4, PumpedWork
<1>4. CASE HandleTestMail
  <2> DEFINE asked == [tests EXCEPT !.watchdog = FALSE,
                                    !.controller = RequestCase(@, Head(testMail))]
  <2>1. UNCHANGED responses
    BY <1>4 DEF HandleTestMail
  <2>2. CASE Pump(sched, asked, link, operationCounter)
    <3>1. asked \in Tests
      BY <1>4, AskedType DEF HandleTestMail, WorkInv
    <3> HIDE DEF asked
    <3>2. Pumps(sched, asked, link, operationCounter)
      BY <2>1, <2>2, <3>1, AskedPumps
    <3> QED
      BY <2>1, <3>2, PumpedWork
  <2>3. CASE UNCHANGED <<sched, link, compiler, operationCounter>>
    BY <2>1, <2>3, IdleWork
  <2> QED
    BY <1>4, <2>2, <2>3 DEF HandleTestMail
<1> QED
  BY <1>1, <1>2, <1>3, <1>4 DEF Messages

LEMMA LossesWork ==
    ASSUME WorkInv, Losses PROVE Work(sched', link', compiler', responses')
<1>1. CASE CompilerLosses
  <2>1. PICK t \in Tests, l \in Link : Pumps(Fail(sched), t, l, operationCounter)
    BY <1>1, LossPumps
  <2>2. Fail(sched).nextWorkerId = sched.nextWorkerId
    BY WorkTypes DEF Fail, Scheduler
  <2> QED
    BY <1>1, <2>1, <2>2, LossPumps, PumpedWork
<1>2. CASE LoseTestWorker
  BY <1>2, IdleWork DEF LoseTestWorker
<1> QED
  BY <1>1, <1>2 DEF Losses, CompilerLosses

LEMMA WorkersWork ==
    ASSUME WorkInv, CompilerWorker \/ TestWorker \/ RunTests
    PROVE  Work(sched', link', compiler', responses')
<1>1. CASE WorkerBoots
  BY <1>1, BootsWork DEF WorkerBoots, compilerFrame
<1>2. CASE WorkerStartsParse \/ WorkerStartsImport
  BY <1>2, TakesWork DEF WorkerStartsParse, WorkerStartsImport, compilerFrame
<1>3. CASE WorkerFinishesParse \/ WorkerFinishesImport
  BY <1>3, FinishesWork
     DEF WorkerFinishesParse, WorkerFinishesImport, compilerFrame
<1>4. CASE WorkerBinds
  BY <1>4, BindsWork DEF WorkerBinds, compilerFrame
<1>5. CASE TestWorker \/ RunTests
  BY <1>5, IdleWork
     DEF TestWorker, BenchStarts, BenchAsks, BenchReceives, BenchFinishes,
         benchFrame, pumpVars, RunTests
<1> QED
  BY <1>1, <1>2, <1>3, <1>4, <1>5 DEF CompilerWorker

(* The inductive step of WorkInv, one case per group of actions.            *)
LEMMA NextKeepsWork ==
    ASSUME WorkInv, [Next]_vars PROVE WorkInv'
<1>1. TypeInv' /\ QueueInv'
  BY TypeInvPreserved, NextKeepsQueue DEF WorkInv
<1>2. Work(sched', link', compiler', responses')
  <2>1. CASE UNCHANGED vars
    BY <2>1, IdleWork DEF vars
  <2>2. CASE RestoreProfile
    BY <2>2, RenderWork DEF RestoreProfile
  <2>3. CASE RenderTimerFires
    <3>1. CASE profileReady
      BY <2>3, <3>1, RenderWork DEF RenderTimerFires
    <3>2. CASE ~profileReady
      BY <2>3, <3>2, IdleWork DEF RenderTimerFires, pumpVars
    <3> QED
      BY <3>1, <3>2
  <2> QED
    BY <2>1, <2>2, <2>3, UserWork, MessagesWork, LossesWork, WorkersWork
       DEF Next, PageTimers
<1> QED
  BY <1>1, <1>2 DEF WorkInv

LEMMA InitWork ==
    ASSUME Init PROVE WorkInv
<1>1. TypeInv
  BY InitTypes
<1>2. QueueInv
  BY DEF Init, QueueInv, SlotInv, NewScheduler, NoLink, NoRequest, HasQueued
<1>3. Work(sched, link, compiler, responses)
  BY DEF Init, Work, Operation, Generations, Behind, Captured, Timed, Replies,
         NewScheduler, NoLink, NewRuntime, NoRequest, NoCapture, NoTimer
<1> QED
  BY <1>1, <1>2, <1>3 DEF WorkInv

(* The compiler Worker, its mailbox, what it posted and the page's          *)
(* scheduler hang together in every reachable state.                        *)
THEOREM WorkInvariant == Spec => []WorkInv
BY InitWork, NextKeepsWork, PTL DEF Spec

(* One active slot: whatever handleWorkerMessage, a timeout or an error     *)
(* event does next, the operation the scheduler believes under way is in    *)
(* exactly one place.                                                       *)
THEOREM OperationIsInOnePlace == Spec => []OneOperation
<1>1. WorkInv => OneOperation
  <2> SUFFICES ASSUME WorkInv PROVE OneOperation
    OBVIOUS
  <2>1. Undelivered = Replies(link, responses)
    BY DEF Undelivered, Replies
  <2>2. Operation(sched, link, compiler, responses)
    BY DEF WorkInv, Work
  <2> QED
    BY <2>1, <2>2 DEF OneOperation, Operation
<1> QED
  BY <1>1, WorkInvariant, PTL

(* No binding of the current generation meets WP1007: what canEnqueueBinding*)
(* accepts is retained by CompilerWorkerRuntime.                            *)
THEOREM CaptureIsAlwaysRetained == Spec => []CaptureRetained
<1>1. WorkInv => CaptureRetained
  <2> SUFFICES ASSUME WorkInv PROVE CaptureRetained
    OBVIOUS
  <2>1. Undelivered = Replies(link, responses)
    BY DEF Undelivered, Replies
  <2>2. Captured(sched, link, compiler, responses)
    BY DEF WorkInv, Work
  <2> QED
    BY <2>1, <2>2 DEF CaptureRetained, Captured
<1> QED
  BY <1>1, WorkInvariant, PTL

(* dispatchQueuedRequest never gives the first parse of a Worker generation *)
(* the 1 s budget of a warm one.                                            *)
THEOREM FirstParseIsAlwaysCold == Spec => []FirstParseIsCold
<1>1. WorkInv => FirstParseIsCold
  BY DEF WorkInv, Work, Timed, FirstParseIsCold
<1> QED
  BY <1>1, WorkInvariant, PTL

-----------------------------------------------------------------------------
(* The parameter panel                                                      *)

(* A panel enabled for revision p has a capture of it.                      *)
Backed(capture, p) == p # 0 => capture # NoCapture /\ capture.sourceRevision = p

(* The capture stays while the panel is enabled for its source.             *)
PanelInv ==
    /\ WorkInv
    /\ NewestInv
    /\ Backed(sched.bindingCapture, parameterSourceRevision)

(* No pump changes the capture: a Worker is started only without one.       *)
LEMMA PumpKeepsCapture ==
    ASSUME NEW s, NEW t, NEW l, NEW op, Pumps(s, t, l, op)
    PROVE  sched'.bindingCapture = s.bindingCapture
<1>1. /\ s \in Scheduler /\ t \in Tests /\ l \in Link /\ op \in Nat
      /\ SlotInv(s, l, op) /\ Pump(s, t, l, op)
      /\ Captured(s, l, RuntimeOf(l), responses')
  BY DEF Pumps, Work
<1>2. CASE Starts(s, t, l)
  <2>1. sched'.bindingCapture = NoCapture
    BY <1>1, <1>2 DEF Starts, StartWorker, CreateWorker, Scheduler
  <2>2. s.bindingCapture = NoCapture
    BY <1>1, <1>2 DEF Starts, Captured
  <2> QED
    BY <2>1, <2>2
<1>3. CASE Serves(s, t, l)
  BY <1>1, <1>3 DEF Serves, Dispatch, TakeForDispatch, Scheduler
<1>4. CASE ServesCase(s, t, l, op)
  BY <1>1, <1>4
     DEF ServesCase, EnqueueBinding, Dispatch, TakeForDispatch, Scheduler
<1>5. CASE Rests(s, t, l, op)
  BY <1>5 DEF Rests
<1> QED
  BY <1>1, <1>2, <1>3, <1>4, <1>5, PumpOutcome

(* With nothing captured, nothing is offered.                               *)
LEMMA NoCaptureNoPanel ==
    ASSUME PanelInv,
           \/ sched.phase \in {"absent", "booting"}
           \/ sched.activeRequest.kind = "parse"
    PROVE  sched.bindingCapture = NoCapture /\ parameterSourceRevision = 0
BY DEF PanelInv, WorkInv, Work, Captured, Backed

LEMMA KeptPanel ==
    ASSUME PanelInv, sched'.bindingCapture = sched.bindingCapture,
           parameterSourceRevision' \in {0, parameterSourceRevision}
    PROVE  Backed(sched'.bindingCapture, parameterSourceRevision')
BY DEF PanelInv, Backed

LEMMA DisabledPanel ==
    ASSUME parameterSourceRevision' = 0
    PROVE  Backed(sched'.bindingCapture, parameterSourceRevision')
BY DEF Backed

LEMMA UserPanel ==
    ASSUME PanelInv, User
    PROVE  Backed(sched'.bindingCapture, parameterSourceRevision')
<1> USE DEF PanelInv
<1>1. CASE EditSource \/ ApplyImport
  BY <1>1, DisabledPanel DEF EditSource, ApplyImport, ScheduleRender
<1>2. CASE EditImportInput \/ EditTests
  BY <1>2, KeptPanel DEF EditImportInput, EditTests, parameterVars, pumpVars
<1>3. CASE SubmitBinding
  <2> DEFINE request == BindRequest(operationCounter + 1, parameterSourceRevision,
                                    sched.bindingCapture.token, "panel")
             s == EnqueueBinding(sched, request)
  <2>1. UNCHANGED responses
    BY <1>3 DEF SubmitBinding
  <2>2. CASE /\ CanEnqueueBinding(sched, request)
             /\ UNCHANGED parameterSourceRevision
             /\ Pump(s, CancelTests(tests), link, operationCounter + 1)
    <3>1. parameterSourceRevision \in Nat /\ sched.bindingCapture.token \in Token
      BY DEF WorkInv, TypeInv, TypeOK, Scheduler, Capture
    <3>2. request \in Request
      BY <3>1, WorkTypes, RequestConstructorTypes DEF Overrides
    <3>3. request.kind = "bind" /\ request.revision = operationCounter + 1
      BY DEF BindRequest, NoRequest
    <3> HIDE DEF request
    <3>4. Pumps(s, CancelTests(tests), link, operationCounter + 1)
      BY <2>1, <2>2, <3>2, <3>3, BindingPumps
    <3>5. s.bindingCapture = sched.bindingCapture
      BY WorkTypes DEF EnqueueBinding, Scheduler
    <3> HIDE DEF s
    <3>6. sched'.bindingCapture = s.bindingCapture
      BY <3>4, PumpKeepsCapture
    <3> QED
      BY <2>2, <3>5, <3>6, KeptPanel
  <2>3. CASE /\ UNCHANGED sched
             /\ parameterSourceRevision' \in {0, parameterSourceRevision}
    BY <2>3, KeptPanel
  <2> QED
    BY <1>3, <2>2, <2>3 DEF SubmitBinding
<1>4. CASE SubmitImport
  <2> DEFINE request == ImportRequest(operationCounter + 1, inputEditGeneration)
             s == EnqueueImport(sched, request)
  <2>1. UNCHANGED <<responses, parameterSourceRevision>>
    BY <1>4 DEF SubmitImport, parameterVars
  <2>2. CASE /\ CanEnqueueImport(sched)
             /\ Pump(s, CancelTests(tests), link, operationCounter + 1)
    <3>1. inputEditGeneration \in Nat
      BY DEF WorkInv, TypeInv, TypeOK
    <3>2. request \in Request
      BY <3>1, WorkTypes, RequestConstructorTypes, RequestTypes DEF Overrides
    <3>3. request.kind = "import" /\ request.revision = operationCounter + 1
      BY DEF ImportRequest, NoRequest
    <3> HIDE DEF request
    <3>4. Pumps(s, CancelTests(tests), link, operationCounter + 1)
      BY <2>1, <2>2, <3>2, <3>3, ImportPumps
    <3>5. s.bindingCapture = sched.bindingCapture
      BY WorkTypes DEF EnqueueImport, Scheduler
    <3> HIDE DEF s
    <3>6. sched'.bindingCapture = s.bindingCapture
      BY <3>4, PumpKeepsCapture
    <3> QED
      BY <2>1, <3>5, <3>6, KeptPanel
  <2>3. CASE UNCHANGED sched
    BY <2>1, <2>3, KeptPanel
  <2> QED
    BY <1>4, <2>2, <2>3, Zenon DEF SubmitImport
<1> QED
  BY <1>1, <1>2, <1>3, <1>4 DEF User

(* A completion changes the capture only if it is a parse's, and then       *)
(* nothing was captured or offered before.                                  *)
LEMMA CompletedPanel ==
    ASSUME PanelInv, NEW r, NEW isCase, NEW t \in Tests,
           CompletesWith(r, isCase, t)
    PROVE  LET s == Complete(sched, r.worker, r.message)
           IN  /\ sched'.bindingCapture = s.bindingCapture
               /\ r.message.kind # "parse" =>
                     s.bindingCapture = sched.bindingCapture
               /\ r.message.kind = "parse" => parameterSourceRevision = 0
<1>1. WorkInv /\ Completes(r, isCase)
  BY DEF PanelInv, CompletesWith
<1>2. Pumps(Complete(sched, r.worker, r.message), t, Idle(link), operationCounter)
  BY <1>1, CompletedPumps DEF CompletesWith
<1>3. /\ r.message.kind = sched.activeRequest.kind
      /\ r.message.kind # "parse" =>
            Complete(sched, r.worker, r.message).bindingCapture = sched.bindingCapture
  BY <1>1, CompletedWork
<1> QED
  BY <1>2, <1>3, PumpKeepsCapture, NoCaptureNoPanel

LEMMA MessagesPanel ==
    ASSUME PanelInv, Messages
    PROVE  Backed(sched'.bindingCapture, parameterSourceRevision')
<1>1. tests \in Tests /\ ScheduleTests(tests) \in Tests /\ WorkInv
  BY WorkTypes, TestsOperatorTypes DEF PanelInv
<1>2. CASE IgnoreMessage
  BY <1>2, KeptPanel DEF IgnoreMessage, parameterVars, pumpVars
<1>3. CASE HandleReady
  <2> DEFINE s == MarkReady(sched)
             l == [link EXCEPT !.bootTimer = 0]
  <2>1. Pumps(s, tests, l, operationCounter)
    BY <1>1, <1>3, ReadyPumps
  <2>2. s.bindingCapture = sched.bindingCapture
    BY <1>1, WorkTypes DEF MarkReady, Scheduler
  <2> HIDE DEF s, l
  <2>3. sched'.bindingCapture = sched.bindingCapture
    BY <2>1, <2>2, PumpKeepsCapture
  <2> QED
    BY <1>3, <2>3, KeptPanel DEF HandleReady, parameterVars
<1>4. CASE HandleCaseBound
  <2>1. /\ parameterSourceRevision' \in {0, parameterSourceRevision}
        /\ \E r \in responses, t \in Tests : CompletesWith(r, TRUE, t)
    BY <1>1, <1>4, CaseBoundPump DEF CompletesWith, WorkInv
  <2>2. PICK r \in responses, t \in Tests : CompletesWith(r, TRUE, t)
    BY <2>1
  <2>3. r.message.kind = "bind"
    BY <2>2 DEF CompletesWith, Completes
  <2> QED
    BY <2>1, <2>2, <2>3, CompletedPanel, KeptPanel
<1>5. CASE HandleStaleCompletion
  <2>1. PICK r \in responses : CompletesWith(r, FALSE, tests)
    BY <1>5 DEF HandleStaleCompletion, CompletesWith
  <2>2. UNCHANGED parameterSourceRevision
    BY <1>5 DEF HandleStaleCompletion, parameterVars
  <2> QED
    <3>1. CASE r.message.kind = "parse"
      <4>1. parameterSourceRevision = 0
        BY <1>1, <2>1, <3>1, CompletedPanel
      <4> QED
        BY <2>2, <4>1, DisabledPanel
    <3>2. CASE r.message.kind # "parse"
      BY <1>1, <2>1, <2>2, <3>2, CompletedPanel, KeptPanel
    <3> QED
      BY <3>1, <3>2
<1>6. CASE HandleImported
  <2>1. PICK r \in responses : /\ CompletesWith(r, FALSE, tests)
                               /\ r.message.kind = "import"
    BY <1>6 DEF HandleImported, CompletesWith
  <2>2. UNCHANGED parameterSourceRevision
    BY <1>6 DEF HandleImported, parameterVars
  <2> QED
    BY <1>1, <2>1, <2>2, CompletedPanel, KeptPanel
<1>7. CASE HandleBound
  <2>1. PICK r \in responses, t \in {tests, ScheduleTests(tests)} :
           /\ CompletesWith(r, FALSE, t)
           /\ r.message.kind = "bind"
           /\ parameterSourceRevision' \in {0, parameterSourceRevision}
    BY <1>7 DEF HandleBound, CompletesWith
  <2> QED
    BY <1>1, <2>1, CompletedPanel, KeptPanel
<1>8. CASE HandleParsed
  <2>1. PICK r \in responses, t \in {tests, ScheduleTests(tests)} :
           LET s == Complete(sched, r.worker, r.message)
           IN  /\ CompletesWith(r, FALSE, t)
               /\ r.message.kind = "parse"
               /\ \/ parameterSourceRevision' \in {0, parameterSourceRevision}
                  \/ parameterSourceRevision' =
                        IF s.bindingCapture.sourceRevision = currentRevision
                        THEN currentRevision ELSE 0
    BY <1>8 DEF HandleParsed, CompletesWith, parameterVars
  <2> DEFINE s == Complete(sched, r.worker, r.message)
  <2>2. /\ parameterSourceRevision = 0
        /\ sched'.bindingCapture = s.bindingCapture
    BY <1>1, <2>1, CompletedPanel
  <2> HIDE DEF s
  <2> QED
    BY <2>1, <2>2 DEF Backed, NoCapture, s
<1>9. CASE HandleTestMail
  <2> DEFINE asked == [tests EXCEPT !.watchdog = FALSE,
                                    !.controller = RequestCase(@, Head(testMail))]
  <2>1. UNCHANGED <<responses, parameterSourceRevision>>
    BY <1>9 DEF HandleTestMail, parameterVars
  <2>2. CASE Pump(sched, asked, link, operationCounter)
    <3>1. asked \in Tests
      BY <1>1, <1>9, AskedType DEF HandleTestMail, WorkInv
    <3> HIDE DEF asked
    <3>2. Pumps(sched, asked, link, operationCounter)
      BY <1>1, <2>1, <2>2, <3>1, AskedPumps
    <3> QED
      BY <2>1, <3>2, PumpKeepsCapture, KeptPanel
  <2>3. CASE UNCHANGED <<sched, link, compiler, operationCounter>>
    BY <2>1, <2>3, KeptPanel
  <2> QED
    BY <1>9, <2>2, <2>3 DEF HandleTestMail
<1> QED
  BY <1>2, <1>3, <1>4, <1>5, <1>6, <1>7, <1>8, <1>9 DEF Messages

(* A lost Worker takes its capture with it; the panel is disabled, or was.  *)
LEMMA LossesPanel ==
    ASSUME PanelInv, Losses
    PROVE  Backed(sched'.bindingCapture, parameterSourceRevision')
<1>1. CASE LoseTestWorker
  BY <1>1, KeptPanel DEF LoseTestWorker, parameterVars
<1>2. CASE HandleBootstrapTimeout
  <2>1. parameterSourceRevision = 0
    BY <1>2, NoCaptureNoPanel DEF HandleBootstrapTimeout
  <2> QED
    BY <1>2, <2>1, DisabledPanel DEF HandleBootstrapTimeout, parameterVars
<1>3. CASE HandleWorkerError
  BY <1>3, DisabledPanel DEF HandleWorkerError, PanelInv, NewestInv
<1>4. CASE CaseBindingTimeout \/ ImportTimeout
  BY <1>4, DisabledPanel DEF CaseBindingTimeout, ImportTimeout
<1>5. CASE BindingTimeout
  <2>1. CASE parameterSourceRevision' = 0
    BY <2>1, DisabledPanel
  <2>2. CASE /\ sched.activeRequest.kind = "bind"
             /\ sched.activeRequest.sourceRevision # currentRevision
             /\ UNCHANGED parameterSourceRevision
    <3>1. sched.bindingCapture # NoCapture =>
             sched.bindingCapture.sourceRevision = sched.activeRequest.sourceRevision
      BY <2>2 DEF PanelInv, WorkInv, Work, Captured
    <3>2. parameterSourceRevision = 0
      BY <2>2, <3>1 DEF PanelInv, NewestInv, Backed
    <3> QED
      BY <2>2, <3>2, DisabledPanel
  <2> QED
    BY <1>5, <2>1, <2>2 DEF BindingTimeout, TimedOut
<1>6. CASE ParseTimeout
  <2>1. parameterSourceRevision = 0
    BY <1>6, NoCaptureNoPanel DEF ParseTimeout, TimedOut
  <2> QED
    BY <1>6, <2>1, DisabledPanel DEF ParseTimeout
<1> QED
  BY <1>1, <1>2, <1>3, <1>4, <1>5, <1>6 DEF Losses

(* The inductive step of PanelInv.                                          *)
LEMMA NextKeepsPanel ==
    ASSUME PanelInv, [Next]_vars PROVE PanelInv'
<1>1. WorkInv' /\ NewestInv'
  BY NextKeepsWork, NewestInvPreserved DEF PanelInv
<1>2. Backed(sched'.bindingCapture, parameterSourceRevision')
  <2>1. CASE UNCHANGED vars
    BY <2>1, KeptPanel DEF vars
  <2>2. CASE RestoreProfile
    BY <2>2, DisabledPanel DEF RestoreProfile, Render
  <2>3. CASE RenderTimerFires
    BY <2>3, DisabledPanel, KeptPanel
       DEF RenderTimerFires, Render, parameterVars, pumpVars
  <2>4. CASE CompilerWorker \/ TestWorker \/ RunTests
    <3>1. UNCHANGED <<sched, parameterSourceRevision>>
      BY <2>4
         DEF CompilerWorker, WorkerBoots, WorkerStartsParse, WorkerFinishesParse,
             WorkerBinds, WorkerStartsImport, WorkerFinishesImport, compilerFrame,
             TestWorker, BenchStarts, BenchAsks, BenchReceives, BenchFinishes,
             benchFrame, pumpVars, RunTests, parameterVars
    <3> QED
      BY <3>1, KeptPanel
  <2> QED
    BY <2>1, <2>2, <2>3, <2>4, UserPanel, MessagesPanel, LossesPanel
       DEF Next, PageTimers
<1> QED
  BY <1>1, <1>2 DEF PanelInv, Backed

(* The parameter panel is enabled only for the source whose capture is      *)
(* retained, and no revision of the page passes the counter.                *)
THEOREM PanelInvariant == Spec => []PanelInv
<1>1. Init => PanelInv
  <2>1. Init => NewestInv /\ parameterSourceRevision = 0
    BY DEF Init, NewestInv, NoPlan
  <2> QED
    BY <2>1, InitWork DEF PanelInv, Backed
<1> QED
  BY <1>1, NextKeepsPanel, PTL DEF Spec

(* submitParameterBinding may trust the panel: while it is enabled, the     *)
(* scheduler holds a capture of exactly the text in the editor.             *)
THEOREM PanelIsAlwaysBacked == Spec => []PanelIsBacked
<1>1. PanelInv => PanelIsBacked
  BY DEF PanelInv, NewestInv, Backed, PanelIsBacked
<1> QED
  BY <1>1, PanelInvariant, PTL

-----------------------------------------------------------------------------
(* The import panel                                                         *)

(* The import panel and the scheduler agree on the conversion.              *)
ImportInv ==
    /\ WorkInv
    /\ Converting(sched, link, importSession, importRequestRevision,
                  currentRevision, inputEditGeneration)

(* An invalidated or failed session waits for nothing.                      *)
LEMMA ClosedConverting ==
    ASSUME NEW s, NEW l, NEW i, NEW revision, NEW source, NEW generation,
           i.state \notin {"pending", "verified"}
    PROVE  Converting(s, l, i, revision, source, generation)
BY DEF Converting

LEMMA InvalidatedConverting ==
    ASSUME NEW s, NEW l, NEW i, NEW revision, NEW source, NEW generation
    PROVE  Converting(s, l, InvalidateImport(i), revision, source, generation)
<1>1. InvalidateImport(i).state \in {"idle", "consumed", "stale"}
  BY DEF InvalidateImport, NewImportSession
<1> QED
  BY <1>1, ClosedConverting

(* No pump takes the newest request away, or the Worker it is for.          *)
LEMMA PumpConverting ==
    ASSUME NEW s, NEW t, NEW l, NEW op, Pumps(s, t, l, op),
           NEW i, NEW revision, NEW source, NEW generation,
           Converting(s, l, i, revision, source, generation)
    PROVE  Converting(sched', link', i, revision, source, generation)
<1>1. /\ s \in Scheduler /\ t \in Tests /\ l \in Link /\ op \in Nat
      /\ SlotInv(s, l, op) /\ Pump(s, t, l, op)
  BY DEF Pumps
<1>2. SUFFICES ASSUME i.state = "pending"
               PROVE  /\ link'.parserWorkerId = l.parserWorkerId
                      /\ LatestRequest(sched') = LatestRequest(s)
  BY DEF Converting
<1>3. l.parserWorkerId # 0 /\ LatestRequest(s).kind = "import"
  BY <1>2 DEF Converting
<1>4. ~HasQueued(s) => s.activeRequest # NoRequest /\ s.phase = "busy"
  BY <1>1, <1>3 DEF LatestRequest, NoRequest, SlotInv
<1>5. CASE Starts(s, t, l)
  BY <1>3, <1>5 DEF Starts
<1>6. CASE Serves(s, t, l)
  <2>1. /\ sched'.queuedRequest = NoRequest
        /\ sched'.activeRequest = s.queuedRequest
        /\ link'.parserWorkerId = l.parserWorkerId
    BY <1>1, <1>6 DEF Serves, Dispatch, TakeForDispatch, Scheduler, Link
  <2> QED
    BY <1>6, <2>1 DEF Serves, CanTake, LatestRequest, HasQueued
<1>7. CASE ServesCase(s, t, l, op)
  BY <1>4, <1>7 DEF ServesCase
<1>8. CASE Rests(s, t, l, op)
  BY <1>8 DEF Rests
<1> QED
  BY <1>1, <1>5, <1>6, <1>7, <1>8, PumpOutcome

(* A pending session occupies the Worker: its own kind is under way.        *)
LEMMA PendingOccupies ==
    ASSUME ImportInv, importSession.state = "pending"
    PROVE  /\ sched.phase = "busy"
           /\ sched.activeRequest.kind = "import"
<1>1. LatestRequest(sched).kind = "import"
  BY DEF ImportInv, Converting
<1>2. CASE HasQueued(sched)
  <2>1. sched.phase \in {"booting", "busy"} /\ sched.queuedRequest.kind = "import"
    BY <1>1, <1>2 DEF ImportInv, WorkInv, QueueInv, LatestRequest
  <2>2. sched.activeRequest.kind = "import"
    BY <2>1 DEF ImportInv, WorkInv, Work, Behind
  <2> QED
    BY <2>2 DEF ImportInv, WorkInv, QueueInv, SlotInv, NoRequest
<1>3. CASE ~HasQueued(sched)
  BY <1>1, <1>3 DEF ImportInv, WorkInv, QueueInv, SlotInv, NoRequest, LatestRequest
<1> QED
  BY <1>2, <1>3

(* What holds of a session that does not wait, whatever happens to Workers. *)
LEMMA NotPendingConverting ==
    ASSUME ImportInv, importSession.state # "pending", NEW s, NEW l
    PROVE  Converting(s, l, importSession, importRequestRevision,
                      currentRevision, inputEditGeneration)
BY DEF ImportInv, Converting

(* The session and what its snapshot names stay, and so do the newest       *)
(* request and its Worker.                                                  *)
importFrame == <<importSession, importRequestRevision, currentRevision,
                 inputEditGeneration>>

StillConverting == Converting(sched', link', importSession', importRequestRevision',
                         currentRevision', inputEditGeneration')

LEMMA FramedPump ==
    ASSUME UNCHANGED importFrame,
           NEW s, NEW t, NEW l, NEW op, Pumps(s, t, l, op),
           Converting(s, l, importSession, importRequestRevision,
                      currentRevision, inputEditGeneration)
    PROVE  StillConverting
BY PumpConverting DEF importFrame, StillConverting

LEMMA FramedIdle ==
    ASSUME ImportInv, UNCHANGED importFrame, UNCHANGED sched,
           link'.parserWorkerId = link.parserWorkerId
    PROVE  StillConverting
BY DEF ImportInv, importFrame, StillConverting, Converting

LEMMA UserImport ==
    ASSUME ImportInv, User PROVE StillConverting
<1>1. WorkInv
  BY DEF ImportInv
<1>2. CASE EditSource \/ ApplyImport \/ EditImportInput
  BY <1>2, InvalidatedConverting
     DEF EditSource, ApplyImport, EditImportInput, StillConverting
<1>3. CASE EditTests
  BY <1>3, FramedIdle DEF EditTests, importFrame, importVars, sourceVars
<1>4. CASE SubmitBinding
  <2> DEFINE request == BindRequest(operationCounter + 1, parameterSourceRevision,
                                    sched.bindingCapture.token, "panel")
             s == EnqueueBinding(sched, request)
  <2>1. UNCHANGED responses /\ UNCHANGED importFrame
    BY <1>4 DEF SubmitBinding, importFrame, importVars, sourceVars
  <2>2. CASE /\ CanEnqueueBinding(sched, request)
             /\ Pump(s, CancelTests(tests), link, operationCounter + 1)
    <3>1. parameterSourceRevision \in Nat /\ sched.bindingCapture.token \in Token
      BY <1>1 DEF WorkInv, TypeInv, TypeOK, Scheduler, Capture
    <3>2. request \in Request
      BY <1>1, <3>1, WorkTypes, RequestConstructorTypes DEF Overrides
    <3>3. request.kind = "bind" /\ request.revision = operationCounter + 1
      BY DEF BindRequest, NoRequest
    <3> HIDE DEF request
    <3>4. Pumps(s, CancelTests(tests), link, operationCounter + 1)
      BY <1>1, <2>1, <2>2, <3>2, <3>3, BindingPumps
    <3>5. importSession.state # "pending"
      BY <2>2, PendingOccupies DEF CanEnqueueBinding, HasSlot
    <3> HIDE DEF s
    <3> QED
      BY <2>1, <3>4, <3>5, NotPendingConverting, FramedPump
  <2>3. CASE UNCHANGED <<sched, link>>
    BY <2>1, <2>3, FramedIdle
  <2> QED
    BY <1>4, <2>2, <2>3 DEF SubmitBinding
<1>5. CASE SubmitImport
  <2> DEFINE revision == operationCounter + 1
             request == ImportRequest(revision, inputEditGeneration)
             s == EnqueueImport(sched, request)
             snapshot == [CurrentImportSnapshot EXCEPT !.requestRevision = revision]
  <2>1. /\ UNCHANGED <<responses, currentRevision, inputEditGeneration>>
        /\ importRequestRevision' = revision
        /\ link.parserWorkerId # 0
    BY <1>5 DEF SubmitImport, sourceVars, ImportAvailable
  <2>2. CASE /\ CanEnqueueImport(sched)
             /\ importSession' = BeginImport(snapshot)
             /\ Pump(s, CancelTests(tests), link, revision)
    <3>1. inputEditGeneration \in Nat
      BY <1>1 DEF WorkInv, TypeInv, TypeOK
    <3>2. request \in Request
      BY <1>1, <3>1, WorkTypes, RequestConstructorTypes, RequestTypes DEF Overrides
    <3>3. /\ request.kind = "import" /\ request.revision = revision
          /\ request.document = inputEditGeneration
      BY DEF ImportRequest, NoRequest
    <3>4. snapshot = [requestRevision |-> revision,
                      workerId |-> link.parserWorkerId,
                      sourceRevision |-> currentRevision,
                      inputEditGeneration |-> inputEditGeneration]
      BY <2>1 DEF CurrentImportSnapshot
    <3>5. /\ importSession'.state = "pending"
          /\ importSession'.snapshot = snapshot
      BY <2>2 DEF BeginImport
    <3> HIDE DEF request, snapshot
    <3>6. Pumps(s, CancelTests(tests), link, revision)
      BY <1>1, <2>1, <2>2, <3>2, <3>3, ImportPumps
    <3>7. s.queuedRequest = request /\ HasQueued(s)
      BY <1>1, <3>3, WorkTypes DEF EnqueueImport, Scheduler, HasQueued, NoRequest
    <3> HIDE DEF s, revision
    <3>8. Converting(s, link, importSession', importRequestRevision',
                     currentRevision', inputEditGeneration')
      BY <2>1, <3>3, <3>4, <3>5, <3>7 DEF Converting, LatestRequest
    <3> QED
      BY <3>6, <3>8, PumpConverting DEF StillConverting
  <2>3. CASE importSession' = FailImport(BeginImport(snapshot))
    <3>1. importSession'.state = "failed"
      BY <2>3 DEF FailImport, BeginImport
    <3> QED
      BY <3>1, ClosedConverting DEF StillConverting
  <2> QED
    BY <1>5, <2>2, <2>3, Zenon DEF SubmitImport
<1> QED
  BY <1>2, <1>3, <1>4, <1>5 DEF User

(* A completion leaves what is queued, and nothing else waits.              *)
LEMMA CompletedConverting ==
    ASSUME ImportInv, NEW r, NEW isCase, NEW t \in Tests,
           CompletesWith(r, isCase, t), UNCHANGED importFrame,
           HasQueued(sched) \/ importSession.state # "pending"
    PROVE  StillConverting
<1> DEFINE s == Complete(sched, r.worker, r.message)
<1>1. WorkInv /\ Completes(r, isCase)
  BY DEF ImportInv, CompletesWith
<1>2. Pumps(s, t, Idle(link), operationCounter)
  BY <1>1, CompletedPumps DEF CompletesWith
<1>3. /\ s.queuedRequest = sched.queuedRequest
      /\ Idle(link).parserWorkerId = link.parserWorkerId
  BY <1>1, CompletedWork
<1> HIDE DEF s
<1>4. Converting(s, Idle(link), importSession, importRequestRevision,
                 currentRevision, inputEditGeneration)
  BY <1>3 DEF ImportInv, Converting, LatestRequest, HasQueued
<1> QED
  BY <1>2, <1>4, FramedPump

(* A conversion that nothing newer waits behind answers the panel.          *)
LEMMA ImportedConverting ==
    ASSUME ImportInv, HandleImported
    PROVE  StillConverting
<1>1. PICK r \in responses :
         /\ CompletesWith(r, FALSE, tests)
         /\ Accepts(sched, r.message)
         /\ r.message.kind = "import"
         /\ importSession' =
               IF /\ importSession.snapshot.workerId = r.worker
                  /\ CanCompleteImport(importSession, importSession.snapshot,
                                       r.message, CurrentImportSnapshot)
               THEN CompleteImport(importSession, r.message)
               ELSE importSession
  BY DEF HandleImported, CompletesWith
<1>2. UNCHANGED <<importRequestRevision, currentRevision, inputEditGeneration>>
  BY DEF HandleImported, sourceVars
<1>3. WorkInv /\ tests \in Tests /\ Completes(r, FALSE)
  BY <1>1, WorkTypes DEF ImportInv, CompletesWith
<1>4. /\ r.message.revision = sched.activeRequest.revision
      /\ r.message.document = sched.activeRequest.document
      /\ r.worker = link.parserWorkerId
      /\ ~HasQueued(sched)
  BY <1>1, <1>3, CompletedWork
<1>5. r.message.outcome \in ImportOutcomes
  BY <1>1, <1>3, MessageTypes DEF Completes, WorkInv
<1>6. CASE importSession.state = "pending"
  <2>1. /\ link.parserWorkerId # 0
        /\ importSession.snapshot = [requestRevision |-> importRequestRevision,
                                     workerId |-> link.parserWorkerId,
                                     sourceRevision |-> currentRevision,
                                     inputEditGeneration |-> inputEditGeneration]
        /\ sched.activeRequest.revision = importRequestRevision
        /\ sched.activeRequest.document = inputEditGeneration
    BY <1>4, <1>6 DEF ImportInv, Converting, LatestRequest
  <2>2. importSession' = CompleteImport(importSession, r.message)
    BY <1>1, <1>4, <1>6, <2>1 DEF CanCompleteImport, CurrentImportSnapshot
  <2>3. importSession \in ImportSession
    BY <1>3 DEF WorkInv, TypeInv, TypeOK
  <2>4. /\ importSession'.state \in ImportOutcomes
        /\ importSession'.document = inputEditGeneration
        /\ importSession'.snapshot.sourceRevision = currentRevision
    BY <1>4, <1>5, <2>1, <2>2, <2>3 DEF CompleteImport, ImportSession
  <2> QED
    BY <1>2, <2>4 DEF StillConverting, Converting, ImportOutcomes
<1>7. CASE importSession.state # "pending"
  <2>1. UNCHANGED importFrame
    BY <1>1, <1>2, <1>7 DEF CanCompleteImport, importFrame
  <2> QED
    BY <1>1, <1>3, <1>7, <2>1, CompletedConverting
<1> QED
  BY <1>6, <1>7

LEMMA MessagesImport ==
    ASSUME ImportInv, Messages PROVE StillConverting
<1>1. tests \in Tests /\ ScheduleTests(tests) \in Tests /\ WorkInv
  BY WorkTypes, TestsOperatorTypes DEF ImportInv
<1>2. CASE IgnoreMessage
  BY <1>2, FramedIdle
     DEF IgnoreMessage, importFrame, importVars, sourceVars, pumpVars
<1>3. CASE HandleReady
  <2> DEFINE s == MarkReady(sched)
             l == [link EXCEPT !.bootTimer = 0]
  <2>1. Pumps(s, tests, l, operationCounter) /\ sched.phase = "booting"
    BY <1>1, <1>3, ReadyPumps, ReadyWork
  <2>2. importSession.state # "pending"
    BY <2>1, PendingOccupies
  <2>3. UNCHANGED importFrame
    BY <1>3 DEF HandleReady, importFrame, importVars, sourceVars
  <2> HIDE DEF s, l
  <2> QED
    BY <2>1, <2>2, <2>3, NotPendingConverting, FramedPump
<1>4. ASSUME NEW r, NEW isCase, NEW t \in Tests, CompletesWith(r, isCase, t),
             UNCHANGED importFrame, r.message.kind \in {"parse", "bind"}
      PROVE  StillConverting
  <2>1. r.message.kind = sched.activeRequest.kind
    BY <1>1, <1>4, CompletedWork DEF CompletesWith
  <2>2. importSession.state # "pending"
    BY <1>4, <2>1, PendingOccupies
  <2> QED
    BY <1>4, <2>2, CompletedConverting
<1>5. CASE HandleCaseBound
  <2>1. PICK r \in responses, t \in Tests : CompletesWith(r, TRUE, t)
    BY <1>1, <1>5, CaseBoundPump DEF CompletesWith, WorkInv
  <2>2. r.message.kind = "bind"
    BY <2>1 DEF CompletesWith, Completes
  <2>3. UNCHANGED importFrame
    BY <1>5 DEF HandleCaseBound, importFrame, importVars, sourceVars
  <2> QED
    BY <1>4, <2>1, <2>2, <2>3
<1>6. CASE HandleStaleCompletion
  <2>1. PICK r \in responses : /\ CompletesWith(r, FALSE, tests)
                               /\ ~Accepts(sched, r.message)
    BY <1>6 DEF HandleStaleCompletion, CompletesWith
  <2>2. HasQueued(sched)
    BY <1>1, <2>1, CompletedWork DEF CompletesWith
  <2>3. UNCHANGED importFrame
    BY <1>6 DEF HandleStaleCompletion, importFrame, importVars, sourceVars
  <2> QED
    BY <1>1, <2>1, <2>2, <2>3, CompletedConverting
<1>7. CASE HandleBound \/ HandleParsed
  <2>1. PICK r \in responses, t \in {tests, ScheduleTests(tests)} :
           /\ CompletesWith(r, FALSE, t)
           /\ r.message.kind \in {"parse", "bind"}
    BY <1>7 DEF HandleBound, HandleParsed, CompletesWith
  <2>2. UNCHANGED importFrame
    BY <1>7 DEF HandleBound, HandleParsed, importFrame, importVars, sourceVars
  <2> QED
    BY <1>1, <1>4, <2>1, <2>2
<1>8. CASE HandleTestMail
  <2> DEFINE asked == [tests EXCEPT !.watchdog = FALSE,
                                    !.controller = RequestCase(@, Head(testMail))]
  <2>1. UNCHANGED responses /\ UNCHANGED importFrame
    BY <1>8 DEF HandleTestMail, importFrame, importVars, sourceVars
  <2>2. CASE Pump(sched, asked, link, operationCounter)
    <3>1. asked \in Tests
      BY <1>1, <1>8, AskedType DEF HandleTestMail, WorkInv
    <3> HIDE DEF asked
    <3>2. Pumps(sched, asked, link, operationCounter)
      BY <1>1, <2>1, <2>2, <3>1, AskedPumps
    <3> QED
      BY <2>1, <3>2, FramedPump DEF ImportInv
  <2>3. CASE UNCHANGED <<sched, link, compiler, operationCounter>>
    BY <2>1, <2>3, FramedIdle
  <2> QED
    BY <1>8, <2>2, <2>3 DEF HandleTestMail
<1> QED
  BY <1>2, <1>3, <1>5, <1>6, <1>7, <1>8, ImportedConverting DEF Messages

(* A Worker lost to a timeout or an error takes no panel's conversion with  *)
(* it unnoticed.                                                            *)
LEMMA LossesImport ==
    ASSUME ImportInv, Losses PROVE StillConverting
<1>1. WorkInv
  BY DEF ImportInv
<1>2. CASE LoseTestWorker
  BY <1>2, FramedIdle DEF LoseTestWorker, importFrame, importVars, sourceVars
<1>3. ASSUME UNCHANGED <<importRequestRevision, currentRevision,
                         inputEditGeneration>>,
             \/ importSession'.state \notin {"pending", "verified"}
             \/ importSession' = importSession /\ importSession.state # "pending"
      PROVE  StillConverting
  BY <1>3, ClosedConverting, NotPendingConverting DEF StillConverting
<1>4. /\ InvalidateImport(importSession).state \notin {"pending", "verified"}
      /\ FailImport(importSession).state \notin {"pending", "verified"}
            \/ /\ FailImport(importSession) = importSession
               /\ importSession.state # "pending"
  <2>1. importSession \in ImportSession
    BY <1>1 DEF WorkInv, TypeInv, TypeOK
  <2> QED
    BY <2>1 DEF InvalidateImport, FailImport, NewImportSession, ImportSession
<1>5. CASE HandleBootstrapTimeout
  BY <1>3, <1>4, <1>5 DEF HandleBootstrapTimeout, sourceVars
<1>6. CASE HandleWorkerError
  BY <1>3, <1>4, <1>6 DEF HandleWorkerError, sourceVars
<1>7. CASE CaseBindingTimeout \/ BindingTimeout \/ ParseTimeout
  <2>1. /\ sched.activeRequest.kind \in {"bind", "parse"}
        /\ UNCHANGED <<importRequestRevision, currentRevision,
                       inputEditGeneration, importSession>>
    BY <1>7 DEF CaseBindingTimeout, BindingTimeout, ParseTimeout, TimedOut,
                sourceVars
  <2> QED
    BY <1>3, <2>1, PendingOccupies
<1>8. CASE ImportTimeout
  <2>1. UNCHANGED <<importRequestRevision, currentRevision, inputEditGeneration>>
    BY <1>8 DEF ImportTimeout, TimedOut, sourceVars
  <2>2. importSession.snapshot = NoImportSnapshot =>
           importSession.state # "pending"
    BY DEF ImportInv, Converting, NoImportSnapshot
  <2> QED
    BY <1>3, <1>4, <1>8, <2>1, <2>2 DEF ImportTimeout
<1> QED
  BY <1>2, <1>5, <1>6, <1>7, <1>8 DEF Losses

(* The inductive step of ImportInv.                                         *)
LEMMA NextKeepsImport ==
    ASSUME ImportInv, [Next]_vars PROVE ImportInv'
<1>1. WorkInv'
  BY NextKeepsWork DEF ImportInv
<1>2. StillConverting
  <2>1. CASE UNCHANGED vars
    BY <2>1, FramedIdle DEF vars, importFrame
  <2>2. CASE RestoreProfile
    BY <2>2, InvalidatedConverting DEF RestoreProfile, Render, StillConverting
  <2>3. CASE RenderTimerFires
    <3>1. CASE profileReady
      BY <2>3, <3>1, InvalidatedConverting
         DEF RenderTimerFires, Render, StillConverting
    <3>2. CASE ~profileReady
      BY <2>3, <3>2, FramedIdle DEF RenderTimerFires, importFrame, pumpVars
    <3> QED
      BY <3>1, <3>2
  <2>4. CASE CompilerWorker
    <3>1. /\ UNCHANGED sched /\ UNCHANGED importFrame
          /\ link' \in {link, [link EXCEPT !.mailbox = NoRequest]}
      BY <2>4
         DEF CompilerWorker, WorkerBoots, WorkerStartsParse, WorkerFinishesParse,
             WorkerBinds, WorkerStartsImport, WorkerFinishesImport, compilerFrame,
             importFrame, importVars, sourceVars
    <3>2. link'.parserWorkerId = link.parserWorkerId
      BY <3>1, WorkTypes DEF ImportInv, Link
    <3> QED
      BY <3>1, <3>2, FramedIdle
  <2>5. CASE TestWorker \/ RunTests
    <3>1. UNCHANGED <<sched, link>> /\ UNCHANGED importFrame
      BY <2>5
         DEF TestWorker, BenchStarts, BenchAsks, BenchReceives, BenchFinishes,
             benchFrame, pumpVars, RunTests, importFrame, importVars, sourceVars
    <3> QED
      BY <3>1, FramedIdle
  <2> QED
    BY <2>1, <2>2, <2>3, <2>4, <2>5, UserImport, MessagesImport, LossesImport
       DEF Next, PageTimers
<1> QED
  BY <1>1, <1>2 DEF ImportInv, StillConverting

(* BlueprintImportSession and the scheduler agree, in every reachable       *)
(* state, on the conversion under way and on the input it converts.         *)
THEOREM ImportInvariant == Spec => []ImportInv
<1>1. Init => ImportInv
  <2>1. Init => importSession.state = "idle"
    BY DEF Init, NewImportSession
  <2> QED
    BY <2>1, InitWork, ClosedConverting DEF ImportInv
<1> QED
  BY <1>1, NextKeepsImport, PTL DEF Spec

(* What Apply would replace the source with was converted from the text now *)
(* in the import input, for the source now in the editor.                   *)
THEOREM PreviewIsAlwaysOfInput == Spec => []VerifiedPreviewIsOfInput
<1>1. ImportInv => VerifiedPreviewIsOfInput
  BY DEF ImportInv, Converting, VerifiedPreviewIsOfInput
<1> QED
  BY <1>1, ImportInvariant, PTL

(* A panel that says pending waits for a conversion that the live Worker    *)
(* has, or is about to be given: no handler strands it.                     *)
THEOREM PendingImportIsAlwaysWorkedOn == Spec => []PendingImportIsWorkedOn
<1>1. ImportInv => PendingImportIsWorkedOn
  BY DEF ImportInv, Converting, LatestRequest, PendingImportIsWorkedOn
<1> QED
  BY <1>1, ImportInvariant, PTL

-----------------------------------------------------------------------------
(* The test conversation                                                    *)

(* The scheduler, the controller, the test Worker and its mail agree on the *)
(* case.                                                                    *)
TestInv ==
    /\ WorkInv
    /\ CaseBound(sched, link, tests.controller)
    /\ Conversation(tests, bench, testMail)

(* The conversation that a handler leaves to its pump.                      *)
Converses(t) == Conversation(t, bench', testMail')

StillBound == CaseBound(sched', link', tests'.controller)

LEMMA TestTypes ==
    ASSUME TestInv
    PROVE  /\ tests \in Tests /\ tests.revision \in Nat
           /\ tests.controller \in Controller
           /\ bench \in Bench
           /\ testMail \in Seq(Mail)
           /\ Len(testMail) \in Nat
           /\ \A i \in 1 .. Len(testMail) : testMail[i] \in Mail
<1>1. tests \in Tests /\ bench \in Bench /\ testMail \in Seq(Mail)
  BY DEF TestInv, WorkInv, TypeInv, TypeOK
<1> QED
  BY <1>1 DEF Tests

(* A run that is over, one way or another, has nothing bound or asked.      *)
LEMMA OverConversation ==
    ASSUME NEW t, NEW b, NEW mail, Conversation(t, b, mail),
           t.revision \in Nat, b.run \in Nat,
           \A i \in 1 .. Len(mail) : mail[i].revision \in Nat,
           NEW u, u.worker = 0, Quiet(u.controller),
           u.revision \in {t.revision, t.revision + 1}
    PROVE  Conversation(u, b, mail)
BY DEF Conversation

LEMMA OverTests ==
    ASSUME NEW t \in Tests
    PROVE  /\ TerminateTests(t).worker = 0
           /\ TerminateTests(t).revision = t.revision
           /\ Quiet(TerminateTests(t).controller)
           /\ CancelTests(t).worker = 0
           /\ CancelTests(t).revision = t.revision + 1
           /\ Quiet(CancelTests(t).controller)
           /\ ScheduleTests(t).worker = 0
           /\ ScheduleTests(t).revision = t.revision + 1
           /\ Quiet(ScheduleTests(t).controller)
           /\ DropRun(t).worker = 0
           /\ DropRun(t).revision = t.revision + 1
           /\ Quiet(DropRun(t).controller)
<1>1. /\ TerminateTests(t).worker = 0
      /\ TerminateTests(t).revision = t.revision
      /\ Quiet(TerminateTests(t).controller)
      /\ TerminateTests(t) \in Tests
  <2>1. t.controller \in Controller
    BY DEF Tests
  <2>2. Quiet(CancelController(t.controller))
    BY <2>1 DEF Quiet, CancelController, Controller
  <2>3. TerminateTests(t) \in Tests
    BY TestsOperatorTypes
  <2> QED
    BY <2>2, <2>3 DEF TerminateTests, Tests
<1>2. /\ CancelTests(t).worker = 0
      /\ CancelTests(t).revision = t.revision + 1
      /\ CancelTests(t).controller = TerminateTests(t).controller
      /\ CancelTests(t) \in Tests
  <2>1. CancelTests(t) \in Tests
    BY TestsOperatorTypes
  <2> HIDE DEF TerminateTests
  <2> QED
    BY <1>1, <2>1 DEF CancelTests, Tests
<1>3. /\ ScheduleTests(t).worker = 0
      /\ ScheduleTests(t).revision = t.revision + 1
      /\ ScheduleTests(t).controller = CancelTests(t).controller
  BY <1>2 DEF ScheduleTests, Tests
<1>4. /\ DropRun(t).worker = 0
      /\ DropRun(t).revision = t.revision + 1
      /\ DropRun(t).controller = TerminateTests(t).controller
  BY <1>1 DEF DropRun, Tests
<1> QED
  BY <1>1, <1>2, <1>3, <1>4

(* The pump gives the compiler the case the page holds, ends the run, or    *)
(* leaves the tests alone.                                                  *)
LEMMA PumpTests ==
    ASSUME NEW s, NEW t, NEW l, NEW op, Pumps(s, t, l, op),
           CaseBound(s, l, t.controller)
    PROVE  /\ StillBound
           /\ \/ tests' = t
              \/ /\ tests'.worker = 0
                 /\ tests'.revision = t.revision
                 /\ Quiet(tests'.controller)
              \/ /\ t.controller.pending # 0
                 /\ tests'.worker = t.worker
                 /\ tests'.revision = t.revision
                 /\ tests'.watchdog = t.watchdog
                 /\ tests'.controller.pending = 0
                 /\ tests'.controller.active.requestId = t.controller.pending
<1>1. /\ s \in Scheduler /\ t \in Tests /\ l \in Link /\ op \in Nat
      /\ SlotInv(s, l, op) /\ Pump(s, t, l, op)
  BY DEF Pumps
<1>2. t.controller \in Controller
  BY <1>1 DEF Tests
<1>3. s.activeRequest = NoRequest => t.controller.active = NoActive
  BY DEF CaseBound, NoRequest
<1>4. CASE Starts(s, t, l)
  <2>1. t.controller.active = NoActive
    BY <1>1, <1>3, <1>4 DEF Starts, SlotInv
  <2> QED
    BY <1>4, <2>1 DEF Starts, StillBound, CaseBound
<1>5. CASE Serves(s, t, l)
  <2>1. t.controller.active = NoActive
    BY <1>3, <1>5 DEF Serves, CanTake
  <2> QED
    BY <1>5, <2>1 DEF Serves, StillBound, CaseBound
<1>6. CASE ServesCase(s, t, l, op)
  <2> DEFINE request == CaseRequest(t.controller, op + 1)
             k == TakeCase(t.controller, op + 1)
             n == t.controller.snapshot
  <2>1. /\ k.pending = 0
        /\ k.active.requestId = t.controller.pending
        /\ k.active.compilerRevision = op + 1
        /\ op + 1 \in k.owned
        /\ k.snapshot = n
    BY <1>2 DEF TakeCase, Controller
  <2>2. /\ request.kind = "bind" /\ request.revision = op + 1
        /\ request.sourceRevision = n.sourceRevision
    BY DEF CaseRequest, BindRequest, NoRequest
  <2> HIDE DEF request, k
  <2>3. /\ tests' = [t EXCEPT !.controller = k]
        /\ t.controller.pending # 0
        /\ Dispatch(EnqueueBinding(s, request), l)
        /\ n.workerId = l.parserWorkerId /\ n.workerId = s.currentWorkerId
        /\ s.phase = "ready"
    BY <1>6 DEF ServesCase, SnapshotCurrent, request, k
  <2>4. n # NoSnapshot
    BY <1>1, <2>3 DEF SlotInv, NoSnapshot
  <2>5. /\ tests'.controller = k
        /\ tests'.worker = t.worker
        /\ tests'.revision = t.revision
        /\ tests'.watchdog = t.watchdog
    BY <1>1, <2>3 DEF Tests
  <2>6. sched'.activeRequest = request /\ link'.parserWorkerId = l.parserWorkerId
    BY <1>1, <2>3 DEF Dispatch, EnqueueBinding, TakeForDispatch, Scheduler, Link
  <2>7. StillBound
    BY <2>1, <2>2, <2>3, <2>4, <2>5, <2>6 DEF StillBound, CaseBound
  <2> QED
    BY <2>1, <2>3, <2>5, <2>7
<1>7. CASE Rests(s, t, l, op)
  <2> DEFINE u == [t EXCEPT !.controller =
                       ReleaseForRetry(TakeCase(t.controller, op + 1))]
  <2>1. CASE tests' = t
    BY <1>7, <2>1 DEF Rests, StillBound
  <2>2. CASE tests' \in {TerminateTests(t), TerminateTests(u)}
    <3>1. u.revision = t.revision /\ u \in Tests
      <4>1. ReleaseForRetry(TakeCase(t.controller, op + 1)) \in Controller
        <5>1. TakeCase(t.controller, op + 1) \in Controller
          <6> DEFINE revision == op + 1
          <6>1. revision \in Nat
            BY <1>1
          <6> HIDE DEF revision
          <6>2. TakeCase(t.controller, revision) \in Controller
            BY <1>2, <6>1 DEF TakeCase, Controller
          <6> QED
            BY <6>2 DEF revision
        <5>2. NoActive \in [requestId : Nat, compilerRevision : Nat]
          BY DEF NoActive
        <5> QED
          BY <5>1, <5>2 DEF ReleaseForRetry, Controller
      <4> QED
        BY <1>1, <4>1 DEF Tests
    <3> HIDE DEF u
    <3>2. /\ tests'.worker = 0 /\ tests'.revision = t.revision
          /\ Quiet(tests'.controller)
      BY <1>1, <2>2, <3>1, OverTests
    <3> QED
      BY <3>2 DEF StillBound, CaseBound, Quiet
  <2> QED
    BY <1>7, <2>1, <2>2 DEF Rests
<1> QED
  BY <1>1, <1>4, <1>5, <1>6, <1>7, PumpOutcome

(* The pump moves the case from the controller to the compiler.             *)
LEMMA TakenConversation ==
    ASSUME NEW t, NEW b, NEW mail, Conversation(t, b, mail),
           t.controller.pending # 0, b.answer \in Nat,
           NEW u, u.worker = t.worker, u.revision = t.revision,
           u.watchdog = t.watchdog, u.controller.pending = 0,
           u.controller.active.requestId = t.controller.pending
    PROVE  Conversation(u, b, mail)
<1>1. t.worker # 0
  BY DEF Conversation, Quiet
<1>2. b.state = "waiting" /\ IsServed(t, b, mail)
  BY <1>1 DEF Conversation, Dialogue, Executes, Asks, NoCase
<1>3. IsServed(u, b, mail)
  BY <1>2 DEF IsServed
<1> QED
  BY <1>1, <1>2, <1>3 DEF Conversation, Dialogue

LEMMA PumpConverses ==
    ASSUME TestInv, TypeInv',
           NEW s, NEW t, NEW l, NEW op, Pumps(s, t, l, op),
           CaseBound(s, l, t.controller), Converses(t)
    PROVE  StillBound /\ Converses(tests')
<1>1. /\ t \in Tests /\ t.revision \in Nat
      /\ bench'.run \in Nat /\ bench'.answer \in Nat
      /\ \A i \in 1 .. Len(testMail') : testMail'[i].revision \in Nat
  <2>1. bench' \in Bench /\ testMail' \in Seq(Mail)
    BY DEF TypeInv, TypeOK
  <2>2. \A i \in 1 .. Len(testMail') : testMail'[i] \in Mail
    BY <2>1
  <2>3. t \in Tests
    BY DEF Pumps
  <2> QED
    BY <2>1, <2>2, <2>3 DEF Tests, Bench, Mail
<1> QED
  BY <1>1, PumpTests, OverConversation, TakenConversation DEF Converses

(* The shapes a step can have for the conversation.                         *)
StillConversing == StillBound /\ Converses(tests')

(* A handler that ends the run and pumps.                                   *)
LEMMA OverPumps ==
    ASSUME TestInv, TypeInv', UNCHANGED <<bench, testMail>>,
           NEW s, NEW t, NEW l, NEW op, Pumps(s, t, l, op),
           t.worker = 0, Quiet(t.controller),
           t.revision \in {tests.revision, tests.revision + 1}
    PROVE  StillConversing
<1>1. /\ tests.revision \in Nat /\ bench.run \in Nat
      /\ \A i \in 1 .. Len(testMail) : testMail[i].revision \in Nat
      /\ Conversation(tests, bench, testMail)
  BY TestTypes DEF TestInv, Bench, Mail
<1>2. Conversation(t, bench, testMail)
  BY <1>1, OverConversation
<1>3. CaseBound(s, l, t.controller)
  BY DEF CaseBound, Quiet
<1> QED
  BY <1>2, <1>3, PumpConverses DEF Converses, StillConversing

(* A handler that ends the run and does not pump.                           *)
LEMMA OverIdle ==
    ASSUME TestInv, UNCHANGED <<bench, testMail>>,
           tests'.worker = 0, Quiet(tests'.controller),
           tests'.revision \in {tests.revision, tests.revision + 1}
    PROVE  StillConversing
<1>1. /\ tests.revision \in Nat /\ bench.run \in Nat
      /\ \A i \in 1 .. Len(testMail) : testMail[i].revision \in Nat
      /\ Conversation(tests, bench, testMail)
  BY TestTypes DEF TestInv, Bench, Mail
<1>2. Conversation(tests', bench, testMail)
  BY <1>1, OverConversation
<1> QED
  BY <1>2 DEF Converses, StillConversing, StillBound, CaseBound, Quiet

(* A handler that leaves the run alone and pumps.                           *)
LEMMA SamePumps ==
    ASSUME TestInv, TypeInv', UNCHANGED <<bench, testMail>>,
           NEW s, NEW l, NEW op, Pumps(s, tests, l, op),
           CaseBound(s, l, tests.controller)
    PROVE  StillConversing
BY PumpConverses DEF TestInv, Converses, StillConversing

(* A step that leaves the run and the scheduler alone.                      *)
LEMMA SameIdle ==
    ASSUME TestInv, UNCHANGED <<bench, testMail, tests, sched>>,
           link'.parserWorkerId = link.parserWorkerId
    PROVE  StillConversing
BY DEF TestInv, Converses, StillConversing, StillBound, CaseBound

LEMMA UserTests ==
    ASSUME TestInv, TypeInv', User PROVE StillConversing
<1>1. /\ WorkInv /\ tests \in Tests
      /\ CancelTests(tests).worker = 0 /\ Quiet(CancelTests(tests).controller)
      /\ CancelTests(tests).revision = tests.revision + 1
      /\ ScheduleTests(tests).worker = 0 /\ Quiet(ScheduleTests(tests).controller)
      /\ ScheduleTests(tests).revision = tests.revision + 1
  BY TestTypes, OverTests DEF TestInv
<1>2. CASE EditSource \/ ApplyImport
  BY <1>1, <1>2, OverIdle DEF EditSource, ApplyImport, ScheduleRender
<1>3. CASE EditTests
  BY <1>1, <1>3, OverIdle DEF EditTests
<1>4. CASE EditImportInput
  BY <1>4, SameIdle DEF EditImportInput, pumpVars
<1>5. CASE SubmitBinding
  <2> DEFINE request == BindRequest(operationCounter + 1, parameterSourceRevision,
                                    sched.bindingCapture.token, "panel")
             s == EnqueueBinding(sched, request)
  <2>1. UNCHANGED <<responses, bench, testMail>>
    BY <1>5 DEF SubmitBinding
  <2>2. CASE /\ CanEnqueueBinding(sched, request)
             /\ Pump(s, CancelTests(tests), link, operationCounter + 1)
    <3>1. parameterSourceRevision \in Nat /\ sched.bindingCapture.token \in Token
      BY <1>1 DEF WorkInv, TypeInv, TypeOK, Scheduler, Capture
    <3>2. request \in Request
      BY <1>1, <3>1, WorkTypes, RequestConstructorTypes DEF Overrides
    <3>3. request.kind = "bind" /\ request.revision = operationCounter + 1
      BY DEF BindRequest, NoRequest
    <3> HIDE DEF request
    <3>4. Pumps(s, CancelTests(tests), link, operationCounter + 1)
      BY <1>1, <2>1, <2>2, <3>2, <3>3, BindingPumps
    <3> QED
      BY <1>1, <2>1, <3>4, OverPumps
  <2>3. CASE tests' = CancelTests(tests)
    BY <1>1, <2>1, <2>3, OverIdle
  <2> QED
    BY <1>5, <2>2, <2>3 DEF SubmitBinding
<1>6. CASE SubmitImport
  <2> DEFINE request == ImportRequest(operationCounter + 1, inputEditGeneration)
             s == EnqueueImport(sched, request)
  <2>1. UNCHANGED <<responses, bench, testMail>>
    BY <1>6 DEF SubmitImport
  <2>2. CASE /\ CanEnqueueImport(sched)
             /\ Pump(s, CancelTests(tests), link, operationCounter + 1)
    <3>1. inputEditGeneration \in Nat
      BY <1>1 DEF WorkInv, TypeInv, TypeOK
    <3>2. request \in Request
      BY <1>1, <3>1, WorkTypes, RequestConstructorTypes, RequestTypes DEF Overrides
    <3>3. request.kind = "import" /\ request.revision = operationCounter + 1
      BY DEF ImportRequest, NoRequest
    <3> HIDE DEF request
    <3>4. Pumps(s, CancelTests(tests), link, operationCounter + 1)
      BY <1>1, <2>1, <2>2, <3>2, <3>3, ImportPumps
    <3> QED
      BY <1>1, <2>1, <3>4, OverPumps
  <2>3. CASE tests' = CancelTests(tests)
    BY <1>1, <2>1, <2>3, OverIdle
  <2> QED
    BY <1>6, <2>2, <2>3, Zenon DEF SubmitImport
<1> QED
  BY <1>2, <1>3, <1>4, <1>5, <1>6 DEF User

LEMMA RenderTests ==
    ASSUME TestInv, TypeInv', Render, UNCHANGED <<responses, bench, testMail>>
    PROVE  StillConversing
<1>1. /\ WorkInv
      /\ DropRun(tests).worker = 0 /\ Quiet(DropRun(tests).controller)
      /\ DropRun(tests).revision = tests.revision + 1
  BY TestTypes, OverTests DEF TestInv
<1>2. Pumps(Enqueue(sched, ParseRequest(operationCounter + 1)), DropRun(tests),
            link, operationCounter + 1)
  BY <1>1, RenderPumps
<1> QED
  BY <1>1, <1>2, OverPumps

(* Messages of the compiler Worker                                          *)

(* The case that is being bound is the active binding, and the message that *)
(* completes it is the case's.                                              *)
LEMMA CompletedCase ==
    ASSUME TestInv, NEW r, NEW isCase, Completes(r, isCase),
           tests.controller.active # NoActive
    PROVE  /\ isCase
           /\ AwaitsResponse(tests.controller, r.worker, r.message)
<1>1. WorkInv /\ CaseBound(sched, link, tests.controller)
  BY DEF TestInv
<1>2. /\ r.message.kind = sched.activeRequest.kind
      /\ r.message.revision = sched.activeRequest.revision
      /\ r.message.kind = "bind" =>
            r.message.sourceRevision = sched.activeRequest.sourceRevision
      /\ r.worker = link.parserWorkerId
  BY <1>1, CompletedWork
<1> QED
  BY <1>1, <1>2 DEF CaseBound, AwaitsResponse, Completes

(* A completion that leaves no case with the compiler.                      *)
LEMMA CompletedTests ==
    ASSUME TestInv, TypeInv', NEW r, NEW isCase, NEW t \in Tests,
           CompletesWith(r, isCase, t), t.controller.active = NoActive,
           Converses(t)
    PROVE  StillConversing
<1>1. Pumps(Complete(sched, r.worker, r.message), t, Idle(link), operationCounter)
  BY CompletedPumps DEF CompletesWith, TestInv
<1>2. CaseBound(Complete(sched, r.worker, r.message), Idle(link), t.controller)
  BY DEF CaseBound
<1> QED
  BY <1>1, <1>2, PumpConverses DEF StillConversing

(* A completion that is not a case's: no case was with the compiler.        *)
LEMMA NotCaseTests ==
    ASSUME TestInv, TypeInv', UNCHANGED <<bench, testMail>>, NEW r,
           NEW t \in {tests, ScheduleTests(tests)}, CompletesWith(r, FALSE, t)
    PROVE  StillConversing
<1>1. tests \in Tests /\ tests.controller.active = NoActive
  BY TestTypes, CompletedCase DEF CompletesWith
<1>2. CASE t = tests
  BY <1>1, <1>2, CompletedTests DEF Converses, TestInv
<1>3. CASE t = ScheduleTests(tests)
  <2>1. Pumps(Complete(sched, r.worker, r.message), t, Idle(link), operationCounter)
    BY <1>1, <1>3, CompletedPumps, TestsOperatorTypes DEF CompletesWith, TestInv
  <2>2. t.worker = 0 /\ Quiet(t.controller) /\ t.revision = tests.revision + 1
    BY <1>1, <1>3, OverTests
  <2> QED
    BY <2>1, <2>2, OverPumps
<1> QED
  BY <1>2, <1>3

(* The controller and the bench after a case's response.                    *)
LEMMA CaseBoundTests ==
    ASSUME TestInv, TypeInv', HandleCaseBound PROVE StillConversing
<1>1. PICK r \in responses :
         LET m == r.message
             s == Complete(sched, r.worker, m)
             forgot == [tests EXCEPT !.controller = ForgetRevision(@, m.revision)]
             requestId == forgot.controller.active.requestId
             answered == [forgot EXCEPT !.controller.active = NoActive]
             awaited == AwaitsResponse(forgot.controller, r.worker, m)
             cancelled == [answered EXCEPT !.controller = CancelController(@)]
             Continue(t) == Pump(s, t, Idle(link), operationCounter)
         IN  /\ Completes(r, TRUE)
             /\ UNCHANGED testMail
             /\ \/ ~awaited /\ UNCHANGED bench /\ Continue(forgot)
                \/ /\ awaited
                   /\ bench' = [bench EXCEPT !.answer = requestId]
                   /\ Continue(answered)
                \/ /\ awaited
                   /\ UNCHANGED bench
                   /\ Continue(cancelled) \/ Continue(CancelTests(cancelled))
  BY DEF HandleCaseBound
<1> DEFINE m == r.message
           s == Complete(sched, r.worker, m)
           forgot == [tests EXCEPT !.controller = ForgetRevision(@, m.revision)]
           answered == [forgot EXCEPT !.controller.active = NoActive]
           cancelled == [answered EXCEPT !.controller = CancelController(@)]
           awaited == AwaitsResponse(forgot.controller, r.worker, m)
           k == tests.controller
<1>2. /\ Completes(r, TRUE) /\ UNCHANGED testMail
      /\ WorkInv /\ Conversation(tests, bench, testMail)
      /\ tests \in Tests /\ tests.controller \in Controller /\ bench \in Bench
      /\ tests.revision \in Nat /\ m.revision \in Nat
  <2>1. m.revision \in Nat
    BY <1>1, MessageTypes DEF Completes, TestInv, WorkInv, Response
  <2> QED
    BY <1>1, <2>1, TestTypes DEF TestInv
<1>3. /\ forgot.worker = tests.worker /\ forgot.revision = tests.revision
      /\ forgot.watchdog = tests.watchdog
      /\ forgot.controller.pending = k.pending
      /\ forgot.controller.active = k.active
      /\ forgot.controller.snapshot = k.snapshot
      /\ forgot \in Tests /\ forgot.controller \in Controller
  BY <1>2 DEF ForgetRevision, Tests, Controller
<1> HIDE DEF forgot
<1>4. /\ answered.worker = tests.worker /\ answered.revision = tests.revision
      /\ answered.watchdog = tests.watchdog
      /\ answered.controller.pending = k.pending
      /\ answered.controller.active = NoActive
      /\ answered \in Tests /\ answered.controller \in Controller
  <2>1. NoActive \in [requestId : Nat, compilerRevision : Nat]
    BY DEF NoActive
  <2> QED
    BY <1>3, <2>1 DEF Tests, Controller
<1> HIDE DEF answered
<1>5. /\ cancelled.worker = tests.worker /\ cancelled.revision = tests.revision
      /\ cancelled.watchdog = tests.watchdog
      /\ cancelled.controller.pending = 0
      /\ cancelled.controller.active = NoActive
      /\ Quiet(cancelled.controller)
      /\ cancelled \in Tests
  <2>1. NoSnapshot \in Snapshot /\ NoActive \in [requestId : Nat, compilerRevision : Nat]
    BY RequestTypes DEF NoActive, NoSnapshot, Snapshot
  <2>2. CancelController(answered.controller) \in Controller
    BY <1>4, <2>1 DEF CancelController, Controller
  <2>3. cancelled.controller = CancelController(answered.controller)
    BY <1>4 DEF Tests
  <2>4. Quiet(cancelled.controller)
    <3>1. Quiet(CancelController(answered.controller))
      BY <1>4 DEF Quiet, CancelController, Controller
    <3> QED
      BY <2>3, <3>1
  <2>5. cancelled \in Tests
    BY <1>4, <2>2 DEF Tests
  <2> QED
    BY <1>4, <2>4, <2>5 DEF Quiet, Tests
<1> HIDE DEF cancelled
<1>6. k.active # NoActive =>
         /\ AwaitsResponse(k, r.worker, m)
         /\ tests.worker # 0 /\ tests.worker = bench.run
         /\ tests.revision = bench.run /\ bench.state = "waiting"
         /\ IsServed(tests, bench, testMail)
         /\ k.pending = 0 /\ bench.answer = 0
         /\ k.active.requestId = bench.requestId
  <2> SUFFICES ASSUME k.active # NoActive
               PROVE  /\ AwaitsResponse(k, r.worker, m)
                      /\ tests.worker # 0 /\ tests.worker = bench.run
                      /\ tests.revision = bench.run /\ bench.state = "waiting"
                      /\ IsServed(tests, bench, testMail)
                      /\ k.pending = 0 /\ bench.answer = 0
                      /\ k.active.requestId = bench.requestId
    OBVIOUS
  <2>1. AwaitsResponse(k, r.worker, m)
    BY <1>2, CompletedCase
  <2>2. tests.worker # 0
    BY <1>2 DEF Conversation, Quiet
  <2>3. /\ tests.worker = bench.run /\ tests.revision = bench.run
        /\ Dialogue(tests, bench, testMail)
    BY <1>2, <2>2 DEF Conversation
  <2>4. bench.state = "waiting" /\ IsServed(tests, bench, testMail)
    BY <2>3 DEF Dialogue, Executes, Asks, NoCase
  <2>5. k.pending = 0 /\ bench.answer = 0 /\ k.active.requestId = bench.requestId
    BY <2>4 DEF IsServed
  <2> QED
    BY <2>1, <2>2, <2>3, <2>4, <2>5
<1>7. awaited <=> k.active # NoActive
  BY <1>3, <1>6 DEF AwaitsResponse
<1>8. CASE /\ ~awaited /\ UNCHANGED bench
           /\ Pump(s, forgot, Idle(link), operationCounter)
  <2>1. k.active = NoActive
    BY <1>7, <1>8
  <2>2. Conversation(forgot, bench, testMail)
    <3>1. Quiet(k) => Quiet(forgot.controller)
      BY <1>3 DEF Quiet
    <3>2. Dialogue(tests, bench, testMail) => Dialogue(forgot, bench, testMail)
      BY <1>3 DEF Dialogue, Executes, Asks, IsServed, NoCase
    <3> QED
      BY <1>2, <1>3, <3>1, <3>2 DEF Conversation
  <2> QED
    BY <1>2, <1>3, <1>8, <2>1, <2>2, CompletedTests DEF CompletesWith, Converses
<1>9. CASE /\ awaited
           /\ bench' = [bench EXCEPT !.answer = forgot.controller.active.requestId]
           /\ Pump(s, answered, Idle(link), operationCounter)
  <2>1. k.active # NoActive
    BY <1>7, <1>9
  <2>2. /\ bench'.run = bench.run /\ bench'.state = bench.state
        /\ bench'.requestId = bench.requestId
        /\ bench'.answer = bench.requestId
    BY <1>2, <1>3, <1>6, <1>9, <2>1 DEF Bench
  <2>3. OfRun(bench', testMail) = OfRun(bench, testMail)
    BY <2>2 DEF OfRun
  <2>4. IsServed(answered, bench', testMail)
    BY <1>4, <1>6, <2>1, <2>2, <2>3 DEF IsServed
  <2>5. Conversation(answered, bench', testMail)
    BY <1>2, <1>4, <1>6, <2>1, <2>2, <2>4 DEF Conversation, Dialogue
  <2> QED
    BY <1>2, <1>4, <1>9, <2>5, CompletedTests DEF CompletesWith, Converses
<1>10. CASE /\ awaited /\ UNCHANGED bench
            /\ \/ Pump(s, cancelled, Idle(link), operationCounter)
               \/ Pump(s, CancelTests(cancelled), Idle(link), operationCounter)
  <2>1. IsServed(cancelled, bench, testMail)
    BY <1>5, <1>6, <1>7, <1>10 DEF IsServed
  <2>2. Conversation(cancelled, bench, testMail)
    BY <1>2, <1>5, <1>6, <1>7, <1>10, <2>1 DEF Conversation, Dialogue
  <2>3. CASE Pump(s, cancelled, Idle(link), operationCounter)
    BY <1>2, <1>5, <1>10, <2>2, <2>3, CompletedTests DEF CompletesWith, Converses
  <2>4. CASE Pump(s, CancelTests(cancelled), Idle(link), operationCounter)
    <3>1. CancelTests(cancelled) \in Tests
      BY <1>5, TestsOperatorTypes
    <3>2. /\ CancelTests(cancelled).worker = 0
          /\ Quiet(CancelTests(cancelled).controller)
          /\ CancelTests(cancelled).revision = tests.revision + 1
      BY <1>5, OverTests
    <3>3. Pumps(s, CancelTests(cancelled), Idle(link), operationCounter)
      BY <1>2, <2>4, <3>1, CompletedPumps
    <3> QED
      BY <1>2, <1>10, <3>2, <3>3, OverPumps
  <2> QED
    BY <1>10, <2>3, <2>4
<1> QED
  BY <1>1, <1>8, <1>9, <1>10 DEF forgot, answered, cancelled

-----------------------------------------------------------------------------
(* Messages of the test Worker                                              *)

(* The first message is handled: the positions of the others drop by one.   *)
LEMMA TailMail ==
    ASSUME TestInv, testMail # <<>>, testMail' = Tail(testMail)
    PROVE  /\ Len(testMail') = Len(testMail) - 1 /\ Len(testMail') \in Nat
           /\ Head(testMail) = testMail[1] /\ 1 \in 1 .. Len(testMail)
           /\ testMail[1] \in Mail
           /\ \A i \in 1 .. Len(testMail') :
                 i + 1 \in 1 .. Len(testMail) /\ testMail'[i] = testMail[i + 1]
           /\ \A b : /\ \A i \in OfRun(b, testMail') : i + 1 \in OfRun(b, testMail)
                     /\ \A i \in OfRun(b, testMail) :
                           i # 1 => i - 1 \in OfRun(b, testMail')
                                    /\ testMail'[i - 1] = testMail[i]
<1>1. testMail \in Seq(Mail) /\ Len(testMail) \in Nat
  BY TestTypes
<1>2. /\ Len(testMail') = Len(testMail) - 1 /\ Len(testMail') \in Nat
      /\ Head(testMail) = testMail[1] /\ 1 \in 1 .. Len(testMail)
      /\ testMail[1] \in Mail
  BY <1>1
<1>3. \A i \in 1 .. Len(testMail') :
         i + 1 \in 1 .. Len(testMail) /\ testMail'[i] = testMail[i + 1]
  BY <1>1, <1>2
<1>4. \A i \in 1 .. Len(testMail) : i # 1 =>
         i - 1 \in 1 .. Len(testMail') /\ testMail'[i - 1] = testMail[i]
  <2> SUFFICES ASSUME NEW i \in 1 .. Len(testMail), i # 1
               PROVE  i - 1 \in 1 .. Len(testMail') /\ testMail'[i - 1] = testMail[i]
    OBVIOUS
  <2>1. i - 1 \in 1 .. Len(testMail') /\ (i - 1) + 1 = i
    BY <1>1, <1>2
  <2> QED
    BY <1>3, <2>1
<1> QED
  BY <1>2, <1>3, <1>4 DEF OfRun

(* The conversation when a message other than the question is handled.      *)
LEMMA HandledConversation ==
    ASSUME TestInv, testMail # <<>>, testMail' = Tail(testMail),
           NEW t, t.worker = tests.worker, t.revision = tests.revision,
           t.controller = tests.controller,
           tests.worker # 0 /\ testMail[1].revision = bench.run =>
               /\ testMail[1].kind \in {"executing", "waiting"}
               /\ t.watchdog = (testMail[1].kind = "executing"),
           \/ t.watchdog = tests.watchdog
           \/ tests.worker = 0 \/ testMail[1].revision = bench.run
    PROVE  Conversation(t, bench, testMail')
<1> DEFINE mail == testMail'
<1>1. /\ Conversation(tests, bench, testMail)
      /\ \A i \in 1 .. Len(mail) :
            i + 1 \in 1 .. Len(testMail) /\ mail[i] = testMail[i + 1]
      /\ \A i \in OfRun(bench, mail) :
            i + 1 \in OfRun(bench, testMail) /\ mail[i] = testMail[i + 1]
      /\ \A i \in OfRun(bench, testMail) : i # 1 =>
            i - 1 \in OfRun(bench, mail) /\ mail[i - 1] = testMail[i]
      /\ testMail[1].revision = bench.run => 1 \in OfRun(bench, testMail)
      /\ 1 \in OfRun(bench, testMail) => testMail[1].revision = bench.run
  BY TailMail DEF TestInv, OfRun
<1>2. /\ OfRun(bench, testMail) \subseteq Nat
      /\ OfRun(bench, mail) \subseteq Nat
  BY TailMail DEF OfRun
<1> HIDE DEF mail
<1>3. CASE tests.worker = 0
  BY <1>1, <1>3 DEF Conversation, mail
<1>4. CASE tests.worker # 0
  <2>1. /\ t.worker = bench.run /\ t.revision = bench.run
        /\ Dialogue(tests, bench, testMail)
    BY <1>1, <1>4 DEF Conversation
  <2>2. ASSUME Executes(tests, bench, testMail)
      PROVE  Executes(t, bench, mail)
    <3>1. /\ NoCase(t.controller, bench)
          /\ \A i \in OfRun(bench, mail) : mail[i].kind # "bind"
      BY <1>1, <2>2 DEF Executes
    <3>2. ASSUME bench.state \in {"start", "executing"}
          PROVE  /\ \A i \in OfRun(bench, mail) : mail[i].kind = "executing"
                 /\ t.watchdog \/ \E i \in OfRun(bench, mail) : TRUE
      <4>1. /\ \A i \in OfRun(bench, testMail) : testMail[i].kind = "executing"
            /\ tests.watchdog \/ \E i \in OfRun(bench, testMail) : TRUE
        BY <2>2, <3>2 DEF Executes
      <4>2. CASE 1 \in OfRun(bench, testMail)
        <5>1. t.watchdog
          BY <1>1, <1>4, <4>1, <4>2
        <5> QED
          BY <1>1, <4>1, <5>1
      <4>3. CASE 1 \notin OfRun(bench, testMail)
        <5>1. t.watchdog = tests.watchdog
          BY <1>1, <1>4, <4>3
        <5> QED
          BY <1>1, <4>1, <4>3, <5>1
      <4> QED
        BY <4>2, <4>3
    <3> QED
      BY <3>1, <3>2 DEF Executes
  <2>3. ASSUME Asks(tests, bench, testMail)
      PROVE  Asks(t, bench, mail)
    <3>1. PICK i \in OfRun(bench, testMail) :
             /\ testMail[i].kind = "bind" /\ testMail[i].requestId = bench.requestId
             /\ \A j \in OfRun(bench, testMail) :
                   j = i \/ (j < i /\ testMail[j].kind # "bind")
      BY <2>3 DEF Asks
    <3>2. i # 1
      BY <1>1, <1>4, <3>1
    <3>3. i - 1 \in OfRun(bench, mail) /\ mail[i - 1] = testMail[i]
      BY <1>1, <3>2
    <3>4. \A j \in OfRun(bench, mail) :
             j = i - 1 \/ (j < i - 1 /\ mail[j].kind # "bind")
      <4> SUFFICES ASSUME NEW j \in OfRun(bench, mail)
                   PROVE  j = i - 1 \/ (j < i - 1 /\ mail[j].kind # "bind")
        OBVIOUS
      <4>1. j + 1 = i \/ (j + 1 < i /\ mail[j].kind # "bind")
        BY <1>1, <3>1
      <4> QED
        BY <1>2, <4>1
    <3> QED
      BY <2>3, <3>1, <3>3, <3>4 DEF Asks
  <2>4. ASSUME IsServed(tests, bench, testMail)
      PROVE  IsServed(t, bench, mail)
    <3>1. t.watchdog = tests.watchdog
      BY <1>1, <1>4, <2>4 DEF IsServed
    <3> QED
      BY <1>1, <2>4, <3>1 DEF IsServed
  <2>5. Dialogue(t, bench, mail)
    BY <2>1, <2>2, <2>3, <2>4 DEF Dialogue
  <2> QED
    BY <1>1, <2>1, <2>5, <1>4 DEF Conversation, mail
<1> QED
  BY <1>3, <1>4

(* The conversation when the question has come.                             *)
LEMMA AskedConversation ==
    ASSUME TestInv, testMail # <<>>, testMail' = Tail(testMail),
           tests.worker # 0, tests.worker = testMail[1].revision,
           testMail[1].kind = "bind",
           NEW t, t.worker = tests.worker, t.revision = tests.revision,
           ~t.watchdog, t.controller.pending = testMail[1].requestId,
           t.controller.active = tests.controller.active
    PROVE  Conversation(t, bench, testMail')
<1>1. /\ Conversation(tests, bench, testMail)
      /\ \A i \in 1 .. Len(testMail') :
            i + 1 \in 1 .. Len(testMail) /\ testMail'[i] = testMail[i + 1]
      /\ \A i \in OfRun(bench, testMail') : i + 1 \in OfRun(bench, testMail)
      /\ 1 \in 1 .. Len(testMail)
  BY TailMail DEF TestInv
<1>2. /\ tests.worker = bench.run /\ tests.revision = bench.run
      /\ Dialogue(tests, bench, testMail)
  BY <1>1 DEF Conversation
<1>3. 1 \in OfRun(bench, testMail)
  BY <1>1, <1>2 DEF OfRun
<1>4. bench.state = "waiting" /\ Asks(tests, bench, testMail)
  BY <1>2, <1>3 DEF Dialogue, Executes, IsServed
<1>5. PICK i \in OfRun(bench, testMail) :
         /\ testMail[i].requestId = bench.requestId
         /\ \A j \in OfRun(bench, testMail) :
               j = i \/ (j < i /\ testMail[j].kind # "bind")
  BY <1>4 DEF Asks
<1>6. i = 1
  BY <1>3, <1>5
<1>7. \A j \in OfRun(bench, testMail') : FALSE
  <2> SUFFICES ASSUME NEW j \in OfRun(bench, testMail') PROVE FALSE
    OBVIOUS
  <2>1. j \in Nat /\ j >= 1 /\ j + 1 \in OfRun(bench, testMail)
    BY <1>1, TailMail DEF OfRun
  <2>2. j + 1 = 1 \/ j + 1 < 1
    BY <1>5, <1>6, <2>1
  <2> QED
    BY <2>1, <2>2
<1>8. IsServed(t, bench, testMail')
  BY <1>4, <1>5, <1>6, <1>7 DEF IsServed, Asks, NoCase
<1> QED
  BY <1>1, <1>2, <1>4, <1>8 DEF Conversation, Dialogue

(* The page handles the oldest message: a question it answers, or another.  *)
LEMMA TestMailTests ==
    ASSUME TestInv, TypeInv', HandleTestMail PROVE StillConversing
<1> DEFINE m == Head(testMail)
           asked == [tests EXCEPT !.watchdog = FALSE,
                                  !.controller = RequestCase(@, m)]
<1>1. /\ testMail # <<>> /\ testMail' = Tail(testMail)
      /\ UNCHANGED <<responses, bench>>
      /\ \/ /\ FromBench(m) /\ m.kind = "bind"
            /\ SnapshotCurrent(sched, asked, link.parserWorkerId,
                               currentRevision, parameterSourceRevision)
            /\ Pump(sched, asked, link, operationCounter)
         \/ /\ tests' = IF ~FromBench(m) THEN tests
                        ELSE IF m.kind \in {"executing", "waiting"}
                        THEN [tests EXCEPT !.watchdog = m.kind = "executing"]
                        ELSE TerminateTests(tests)
            /\ UNCHANGED <<sched, link, compiler, operationCounter>>
  BY DEF HandleTestMail
<1>2. /\ WorkInv /\ tests \in Tests /\ tests.controller \in Controller
      /\ tests.revision \in Nat
      /\ Conversation(tests, bench, testMail)
      /\ CaseBound(sched, link, tests.controller)
  BY TestTypes DEF TestInv
<1>3. m = testMail[1] /\ m \in Mail
  BY <1>1, TailMail
<1>4. tests.worker # 0 =>
         tests.worker = bench.run /\ (FromBench(m) <=> m.revision = bench.run)
  BY <1>2 DEF Conversation, FromBench
<1>5. CASE /\ FromBench(m) /\ m.kind = "bind"
           /\ SnapshotCurrent(sched, asked, link.parserWorkerId,
                              currentRevision, parameterSourceRevision)
           /\ Pump(sched, asked, link, operationCounter)
  <2>1. /\ asked.worker = tests.worker /\ asked.revision = tests.revision
        /\ ~asked.watchdog
        /\ asked.controller.pending = m.requestId
        /\ asked.controller.active = tests.controller.active
        /\ asked.controller.snapshot = tests.controller.snapshot
        /\ asked.controller.owned = tests.controller.owned
    BY <1>2 DEF RequestCase, Tests, Controller
  <2>2. asked \in Tests
    BY <1>1, <1>2, AskedType DEF WorkInv
  <2> HIDE DEF asked, m
  <2>3. tests.worker # 0
    BY <1>5, <2>1 DEF SnapshotCurrent
  <2>4. Conversation(asked, bench, testMail')
    BY <1>1, <1>3, <1>5, <2>1, <2>3, AskedConversation DEF FromBench
  <2>5. CaseBound(sched, link, asked.controller)
    BY <1>2, <2>1 DEF CaseBound
  <2>6. Pumps(sched, asked, link, operationCounter)
    BY <1>1, <1>2, <1>5, <2>2, AskedPumps
  <2> QED
    BY <1>1, <2>4, <2>5, <2>6, PumpConverses DEF Converses, StillConversing
<1>6. CASE /\ tests' = IF ~FromBench(m) THEN tests
                       ELSE IF m.kind \in {"executing", "waiting"}
                       THEN [tests EXCEPT !.watchdog = m.kind = "executing"]
                       ELSE TerminateTests(tests)
           /\ UNCHANGED <<sched, link, compiler, operationCounter>>
  <2> HIDE DEF m
  <2>1. CASE ~FromBench(m)
    <3>1. tests' = tests
      BY <1>6, <2>1
    <3>2. Conversation(tests, bench, testMail')
      BY <1>1, <1>3, <1>4, <2>1, HandledConversation
    <3> QED
      BY <1>1, <1>2, <1>6, <3>1, <3>2
         DEF Converses, StillConversing, StillBound
  <2>2. CASE FromBench(m) /\ m.kind \in {"executing", "waiting"}
    <3>1. /\ tests'.worker = tests.worker /\ tests'.revision = tests.revision
          /\ tests'.controller = tests.controller
          /\ tests'.watchdog = (m.kind = "executing")
      BY <1>2, <1>6, <2>2 DEF Tests
    <3>2. Conversation(tests', bench, testMail')
      BY <1>1, <1>3, <1>4, <2>2, <3>1, HandledConversation
    <3> QED
      BY <1>1, <1>2, <1>6, <3>1, <3>2
         DEF Converses, StillConversing, StillBound
  <2>3. CASE FromBench(m) /\ m.kind \notin {"executing", "waiting"}
    <3>1. /\ tests'.worker = 0 /\ tests'.revision = tests.revision
          /\ Quiet(tests'.controller)
      BY <1>2, <1>6, <2>3, OverTests
    <3>2. bench.run <= tests.revision
      BY <1>2 DEF Conversation
    <3>3. \A i \in 1 .. Len(testMail') : testMail'[i].revision <= tests.revision
      BY <1>1, <1>2, TailMail DEF Conversation
    <3>4. Conversation(tests', bench, testMail')
      BY <3>1, <3>2, <3>3 DEF Conversation
    <3> QED
      BY <1>1, <3>1, <3>4
         DEF Converses, StillConversing, StillBound, CaseBound, Quiet
  <2> QED
    BY <2>1, <2>2, <2>3
<1> QED
  BY <1>1, <1>5, <1>6

LEMMA MessagesTests ==
    ASSUME TestInv, TypeInv', Messages PROVE StillConversing
<1>1. WorkInv /\ CaseBound(sched, link, tests.controller)
  BY DEF TestInv
<1>2. CASE IgnoreMessage
  BY <1>2, SameIdle DEF IgnoreMessage, pumpVars
<1>3. CASE HandleReady
  <2> DEFINE s == MarkReady(sched)
             l == [link EXCEPT !.bootTimer = 0]
  <2>1. Pumps(s, tests, l, operationCounter) /\ sched.phase = "booting"
    BY <1>1, <1>3, ReadyPumps, ReadyWork
  <2>2. tests.controller.active = NoActive
    BY <1>1, <2>1, WorkTypes DEF CaseBound, SlotInv, NoRequest
  <2>3. UNCHANGED <<bench, testMail>>
    BY <1>3 DEF HandleReady
  <2> HIDE DEF s, l
  <2>4. CaseBound(s, l, tests.controller)
    BY <2>2 DEF CaseBound
  <2> QED
    BY <2>1, <2>3, <2>4, SamePumps
<1>4. CASE HandleStaleCompletion
  <2>1. PICK r \in responses : CompletesWith(r, FALSE, tests)
    BY <1>4 DEF HandleStaleCompletion, CompletesWith
  <2>2. UNCHANGED <<bench, testMail>>
    BY <1>4 DEF HandleStaleCompletion
  <2> QED
    BY <2>1, <2>2, NotCaseTests
<1>5. CASE HandleImported
  <2>1. PICK r \in responses : CompletesWith(r, FALSE, tests)
    BY <1>5 DEF HandleImported, CompletesWith
  <2>2. UNCHANGED <<bench, testMail>>
    BY <1>5 DEF HandleImported
  <2> QED
    BY <2>1, <2>2, NotCaseTests
<1>6. CASE HandleBound \/ HandleParsed
  <2>1. PICK r \in responses, t \in {tests, ScheduleTests(tests)} :
           CompletesWith(r, FALSE, t)
    BY <1>6 DEF HandleBound, HandleParsed, CompletesWith
  <2>2. UNCHANGED <<bench, testMail>>
    BY <1>6 DEF HandleBound, HandleParsed
  <2> QED
    BY <2>1, <2>2, NotCaseTests
<1> QED
  BY <1>2, <1>3, <1>4, <1>5, <1>6, CaseBoundTests, TestMailTests DEF Messages

-----------------------------------------------------------------------------
(* Losses                                                                   *)

(* Forgetting what the controller owns does not disturb the conversation.   *)
LEMMA DisownedTests ==
    ASSUME NEW t \in Tests
    PROVE  /\ Disowned(t).worker = t.worker
           /\ Disowned(t).revision = t.revision
           /\ Disowned(t).watchdog = t.watchdog
           /\ Disowned(t).controller.snapshot = t.controller.snapshot
           /\ Disowned(t).controller.pending = t.controller.pending
           /\ Disowned(t).controller.active = t.controller.active
<1>1. t.controller \in Controller
  BY DEF Tests
<1> QED
  BY <1>1 DEF Disowned, ClearRevisions, Tests, Controller

LEMMA DisownedConversation ==
    ASSUME NEW t \in Tests, NEW b, NEW mail, Conversation(t, b, mail)
    PROVE  Conversation(Disowned(t), b, mail)
<1> DEFINE u == Disowned(t)
<1>1. /\ u.worker = t.worker /\ u.revision = t.revision
      /\ u.watchdog = t.watchdog
      /\ u.controller.snapshot = t.controller.snapshot
      /\ u.controller.pending = t.controller.pending
      /\ u.controller.active = t.controller.active
  BY DisownedTests
<1> HIDE DEF u
<1>2. Dialogue(t, b, mail) => Dialogue(u, b, mail)
  BY <1>1 DEF Dialogue, Executes, Asks, IsServed, NoCase
<1>3. Conversation(u, b, mail)
  BY <1>1, <1>2 DEF Conversation, Quiet
<1> QED
  BY <1>3 DEF u

(* A loss ends a run that has a case with the compiler.                     *)
LEMMA LossesTests ==
    ASSUME TestInv, TypeInv', Losses PROVE StillConversing
<1>1. /\ WorkInv /\ tests \in Tests /\ tests.revision \in Nat
      /\ CaseBound(sched, link, tests.controller)
      /\ Conversation(tests, bench, testMail)
  BY TestTypes DEF TestInv
<1>2. CASE LoseTestWorker
  BY <1>1, <1>2, OverTests, OverIdle DEF LoseTestWorker
<1>3. CASE CompilerLosses
  <2>1. UNCHANGED <<bench, testMail>>
    BY <1>3 DEF CompilerLosses, HandleBootstrapTimeout, HandleWorkerError,
         CaseBindingTimeout, BindingTimeout, ImportTimeout, ParseTimeout, TimedOut
  <2>2. PICK t \in Tests, l \in Link :
           LostTests(t) /\ Pumps(Fail(sched), t, l, operationCounter)
    BY <1>1, <1>3, LossPumps
  <2>3. /\ CancelTests(tests) \in Tests
        /\ CancelTests(tests).worker = 0
        /\ CancelTests(tests).revision = tests.revision + 1
        /\ Quiet(CancelTests(tests).controller)
    BY <1>1, OverTests, TestsOperatorTypes
  <2>4. CASE t = Disowned(CancelTests(tests))
    BY <2>1, <2>2, <2>3, <2>4, DisownedTests, OverPumps DEF Quiet
  <2>5. CASE t = CancelTests(Disowned(tests))
    <3>1. Disowned(tests) \in Tests /\ Disowned(tests).revision = tests.revision
      BY <1>1, LossTypes, DisownedTests DEF WorkInv
    <3>2. /\ t.worker = 0 /\ t.revision = tests.revision + 1
          /\ Quiet(t.controller)
      BY <2>5, <3>1, OverTests
    <3> QED
      BY <2>1, <2>2, <3>2, OverPumps
  <2>6. CASE t = Disowned(tests) /\ ~TestsInvolved
    <3>1. tests.worker = 0 /\ Quiet(tests.controller)
      BY <1>1, <2>6 DEF TestsInvolved, Conversation
    <3>2. t.worker = 0 /\ t.revision = tests.revision /\ Quiet(t.controller)
      BY <1>1, <2>6, <3>1, DisownedTests DEF Quiet
    <3> QED
      BY <2>1, <2>2, <3>2, OverPumps
  <2>7. CASE t = Disowned(tests) /\ ~OwnsActive
    <3>1. tests.controller.active = NoActive
      BY <1>1, <2>7 DEF CaseBound, OwnsActive
    <3>2. CaseBound(Fail(sched), l, t.controller)
      BY <1>1, <2>7, <3>1, DisownedTests DEF CaseBound
    <3>3. Converses(t)
      BY <1>1, <2>1, <2>7, DisownedConversation DEF Converses
    <3> QED
      BY <2>2, <3>2, <3>3, PumpConverses DEF StillConversing
  <2> QED
    BY <2>2, <2>4, <2>5, <2>6, <2>7 DEF LostTests
<1> QED
  BY <1>2, <1>3 DEF Losses, CompilerLosses

-----------------------------------------------------------------------------
(* A run starts: its number is new, so none of the mail is its.             *)
LEMMA RunTestsTests ==
    ASSUME TestInv, RunTests PROVE StillConversing
<1> DEFINE revision == tests.revision + 1
           started == [TerminateTests(tests) EXCEPT
                           !.revision = revision, !.renderTimer = FALSE,
                           !.worker = revision, !.watchdog = TRUE]
<1>1. /\ tests \in Tests /\ tests.revision \in Nat
      /\ tests.controller \in Controller
      /\ CaseBound(sched, link, tests.controller)
      /\ Conversation(tests, bench, testMail)
      /\ \A i \in 1 .. Len(testMail) : testMail[i].revision \in Nat
      /\ UNCHANGED <<sched, link, testMail>>
  BY TestTypes DEF TestInv, RunTests, Mail
<1>2. CASE tests' = [tests EXCEPT !.renderTimer = FALSE] /\ UNCHANGED bench
  <2>1. /\ tests'.worker = tests.worker /\ tests'.revision = tests.revision
        /\ tests'.watchdog = tests.watchdog
        /\ tests'.controller = tests.controller
    BY <1>1, <1>2 DEF Tests
  <2>2. Conversation(tests', bench, testMail)
    BY <1>1, <2>1
       DEF Conversation, Dialogue, Executes, Asks, IsServed
  <2> QED
    BY <1>1, <1>2, <2>1, <2>2 DEF StillConversing, StillBound, Converses
<1>3. CASE /\ \/ tests' = started
              \/ \E n : tests' = [started EXCEPT !.controller = BeginRun(@, n)]
           /\ bench'.run = revision /\ bench'.state = "start" /\ bench'.answer = 0
  <2>1. /\ started.worker = revision /\ started.revision = revision
        /\ started.watchdog
        /\ started.controller.pending = 0
        /\ started.controller.active = NoActive
        /\ started.controller \in Controller
        /\ started \in Tests
    <3>1. TerminateTests(tests) \in Tests
      BY <1>1, TestsOperatorTypes
    <3>2. /\ TerminateTests(tests).controller.pending = 0
          /\ TerminateTests(tests).controller.active = NoActive
      BY <1>1, OverTests DEF Quiet
    <3>3. revision \in Nat
      BY <1>1
    <3> HIDE DEF revision
    <3> QED
      BY <3>1, <3>2, <3>3 DEF Tests
  <2> HIDE DEF started
  <2>2. \A n : /\ BeginRun(started.controller, n).pending = 0
               /\ BeginRun(started.controller, n).active = NoActive
    BY <2>1 DEF BeginRun, CancelController, Controller
  <2>3. /\ tests'.worker = revision /\ tests'.revision = revision
        /\ tests'.watchdog
        /\ tests'.controller.pending = 0
        /\ tests'.controller.active = NoActive
    BY <1>3, <2>1, <2>2 DEF Tests
  <2>4. /\ revision # 0
        /\ \A i \in 1 .. Len(testMail) :
              testMail[i].revision <= revision /\ testMail[i].revision # revision
    BY <1>1 DEF Conversation
  <2>5. \A i \in OfRun(bench', testMail) : FALSE
    BY <1>3, <2>4 DEF OfRun
  <2>6. Executes(tests', bench', testMail)
    BY <1>3, <2>3, <2>5 DEF Executes, NoCase
  <2>7. revision <= revision
    BY <1>1
  <2> HIDE DEF revision
  <2>8. Conversation(tests', bench', testMail)
    BY <1>3, <2>3, <2>4, <2>6, <2>7 DEF Conversation, Dialogue
  <2> QED
    BY <1>1, <2>3, <2>8 DEF StillConversing, StillBound, Converses, CaseBound
<1>4. \A source : LET b == [NoBench EXCEPT !.run = revision, !.state = "start",
                                           !.sourceRevision = source]
                  IN  b.run = revision /\ b.state = "start" /\ b.answer = 0
  BY DEF NoBench
<1> HIDE DEF started, revision
<1>5. \/ tests' = [tests EXCEPT !.renderTimer = FALSE] /\ UNCHANGED bench
      \/ /\ \/ tests' = started
            \/ \E n : tests' = [started EXCEPT !.controller = BeginRun(@, n)]
         /\ \E source : bench' = [NoBench EXCEPT !.run = revision,
                                                 !.state = "start",
                                                 !.sourceRevision = source]
  BY DEF RunTests, started, revision
<1> QED
  BY <1>2, <1>3, <1>4, <1>5

(* The test Worker: what it says comes last.                                *)
LEMMA AppendMail ==
    ASSUME TestInv, NEW m, testMail' = Append(testMail, m)
    PROVE  /\ Len(testMail') = Len(testMail) + 1 /\ Len(testMail) \in Nat
           /\ testMail'[Len(testMail) + 1] = m
           /\ \A i \in 1 .. Len(testMail) : testMail'[i] = testMail[i]
BY TestTypes

(* The two messages of a question, in their order.                          *)
LEMMA AppendTwoMails ==
    ASSUME TestInv, NEW m, NEW n, testMail' = testMail \o <<m, n>>
    PROVE  /\ Len(testMail') = Len(testMail) + 2 /\ Len(testMail) \in Nat
           /\ testMail'[Len(testMail) + 1] = m
           /\ testMail'[Len(testMail) + 2] = n
           /\ \A i \in 1 .. Len(testMail) : testMail'[i] = testMail[i]
<1>1. testMail \in Seq(Mail) /\ Len(testMail) \in Nat
  BY TestTypes
<1>2. Len(<<m, n>>) = 2 /\ <<m, n>>[1] = m /\ <<m, n>>[2] = n
  OBVIOUS
<1>3. Len(testMail') = Len(testMail) + 2
  BY <1>1
<1>4. \A i \in 1 .. Len(testMail) : testMail'[i] = testMail[i]
  BY <1>1
<1> QED
  BY <1>1, <1>2, <1>3, <1>4

(* What the test Worker says is of its run.                                 *)
LEMMA SaidMail ==
    ASSUME TestInv, NEW m, m.revision = bench.run, bench'.run = bench.run,
           testMail' = Append(testMail, m)
    PROVE  /\ \A i \in 1 .. Len(testMail') :
                 testMail'[i] = m \/ \E j \in 1 .. Len(testMail) :
                                        testMail'[i] = testMail[j]
           /\ Len(testMail) + 1 \in OfRun(bench', testMail')
           /\ testMail'[Len(testMail) + 1] = m
           /\ \A i \in OfRun(bench', testMail') :
                 i = Len(testMail) + 1 \/ ( i \in OfRun(bench, testMail)
                                            /\ testMail'[i] = testMail[i] )
BY AppendMail DEF OfRun

LEMMA SaidTwoMails ==
    ASSUME TestInv, NEW m, NEW n, m.revision = bench.run, n.revision = bench.run,
           bench'.run = bench.run, testMail' = testMail \o <<m, n>>
    PROVE  /\ \A i \in 1 .. Len(testMail') :
                 \/ testMail'[i] \in {m, n}
                 \/ \E j \in 1 .. Len(testMail) : testMail'[i] = testMail[j]
           /\ Len(testMail) + 1 \in Nat
           /\ Len(testMail) + 2 \in OfRun(bench', testMail')
           /\ testMail'[Len(testMail) + 1] = m
           /\ testMail'[Len(testMail) + 2] = n
           /\ \A i \in OfRun(bench', testMail') :
                 \/ i \in {Len(testMail) + 1, Len(testMail) + 2}
                 \/ /\ i \in OfRun(bench, testMail) /\ testMail'[i] = testMail[i]
                    /\ i < Len(testMail) + 2
BY AppendTwoMails DEF OfRun

(* The four steps of the test Worker.                                       *)
LEMMA BenchTests ==
    ASSUME TestInv, TestWorker PROVE StillConversing
<1>1. /\ UNCHANGED <<tests, sched, link>>
      /\ tests.worker = bench.run /\ bench.run # 0
  BY DEF TestWorker, BenchStarts, BenchAsks, BenchReceives, BenchFinishes,
         benchFrame, pumpVars, BenchAlive
<1>2. /\ tests.revision \in Nat /\ bench \in Bench
      /\ Conversation(tests, bench, testMail)
      /\ CaseBound(sched, link, tests.controller)
  BY TestTypes DEF TestInv
<1>3. /\ tests.revision = bench.run
      /\ bench.run <= bench.run
      /\ \A i \in 1 .. Len(testMail) : testMail[i].revision <= bench.run
      /\ Dialogue(tests, bench, testMail)
  BY <1>1, <1>2 DEF Conversation
<1>4. StillBound
  BY <1>1, <1>2 DEF StillBound
<1>5. ASSUME bench'.run = bench.run,
             \A i \in 1 .. Len(testMail') : testMail'[i].revision <= bench.run,
             Dialogue(tests, bench', testMail')
      PROVE  StillConversing
  BY <1>1, <1>3, <1>4, <1>5 DEF StillConversing, Converses, Conversation
<1>6. \A kind, id : /\ Say(kind, id).revision = bench.run
                    /\ Say(kind, id).kind = kind
                    /\ Say(kind, id).requestId = id
  BY DEF Say
<1>7. CASE BenchStarts \/ BenchFinishes
  <2>1. PICK kind \in {"executing", "tested"} :
           /\ bench.state \in {"start", "executing"}
           /\ testMail' = Append(testMail, Say(kind, 0))
           /\ bench'.run = bench.run /\ bench'.answer = bench.answer
           /\ bench'.state = IF kind = "executing" THEN "executing" ELSE "done"
    BY <1>2, <1>7 DEF BenchStarts, BenchFinishes, Bench
  <2> DEFINE m == Say(kind, 0)
  <2>2. m.revision = bench.run /\ m.kind = kind
    BY <1>6
  <2> HIDE DEF m
  <2>3. Executes(tests, bench, testMail)
    BY <1>3, <2>1 DEF Dialogue
  <2>4. Executes(tests, bench', testMail')
    <3>1. /\ NoCase(tests.controller, bench')
          /\ \A i \in OfRun(bench, testMail) : testMail[i].kind = "executing"
      BY <2>1, <2>3 DEF Executes, NoCase
    <3>2. /\ Len(testMail) + 1 \in OfRun(bench', testMail')
          /\ \A i \in OfRun(bench', testMail') :
                testMail'[i] = m \/ testMail'[i].kind = "executing"
      BY <2>1, <2>2, <3>1, SaidMail DEF m
    <3>3. kind = "executing" \/ bench'.state = "done"
      BY <2>1
    <3>4. \A i \in OfRun(bench', testMail') : testMail'[i].kind # "bind"
      BY <2>2, <3>2
    <3>5. kind = "executing" =>
             \A i \in OfRun(bench', testMail') : testMail'[i].kind = "executing"
      BY <2>2, <3>2
    <3> QED
      BY <3>1, <3>2, <3>3, <3>4, <3>5 DEF Executes
  <2>5. \A i \in 1 .. Len(testMail') : testMail'[i].revision <= bench.run
    BY <1>3, <2>1, <2>2, SaidMail DEF m
  <2> QED
    BY <1>5, <2>1, <2>4, <2>5 DEF Dialogue
<1>8. CASE BenchAsks
  <2> DEFINE m == Say("waiting", 0)
             n == Say("bind", bench.requestId + 1)
  <2>1. /\ testMail' = testMail \o <<m, n>>
        /\ bench.state = "executing" /\ bench'.state = "waiting"
        /\ bench'.run = bench.run /\ bench'.answer = bench.answer
        /\ bench'.requestId = bench.requestId + 1
    BY <1>2, <1>8 DEF BenchAsks, Bench
  <2>2. /\ m.revision = bench.run /\ m.kind = "waiting"
        /\ n.revision = bench.run /\ n.kind = "bind"
        /\ n.requestId = bench'.requestId
    BY <1>6, <2>1
  <2> HIDE DEF m, n
  <2>3. Executes(tests, bench, testMail)
    BY <1>3, <2>1 DEF Dialogue
  <2>4. /\ NoCase(tests.controller, bench')
        /\ \A i \in OfRun(bench, testMail) : testMail[i].kind = "executing"
    BY <2>1, <2>3 DEF Executes, NoCase
  <2>5. /\ \A i \in 1 .. Len(testMail') :
              \/ testMail'[i] \in {m, n}
              \/ \E j \in 1 .. Len(testMail) : testMail'[i] = testMail[j]
        /\ Len(testMail) + 1 \in Nat
        /\ Len(testMail) + 2 \in OfRun(bench', testMail')
        /\ testMail'[Len(testMail) + 1] = m
        /\ testMail'[Len(testMail) + 2] = n
        /\ \A i \in OfRun(bench', testMail') :
              \/ i \in {Len(testMail) + 1, Len(testMail) + 2}
              \/ /\ i \in OfRun(bench, testMail) /\ testMail'[i] = testMail[i]
                 /\ i < Len(testMail) + 2
    BY <2>1, <2>2, SaidTwoMails
  <2>6. \A i \in 1 .. Len(testMail') : testMail'[i].revision <= bench.run
    BY <1>3, <2>2, <2>5
  <2>7. Len(testMail) \in Nat
    BY TestTypes
  <2>8. \A i \in OfRun(bench', testMail') :
           \/ i = Len(testMail) + 2
           \/ i < Len(testMail) + 2 /\ testMail'[i].kind # "bind"
    <3> SUFFICES ASSUME NEW i \in OfRun(bench', testMail'),
                        i # Len(testMail) + 2
                 PROVE  i < Len(testMail) + 2 /\ testMail'[i].kind # "bind"
      OBVIOUS
    <3>1. CASE i = Len(testMail) + 1
      BY <2>2, <2>5, <2>7, <3>1
    <3>2. CASE i \in OfRun(bench, testMail) /\ testMail'[i] = testMail[i]
               /\ i < Len(testMail) + 2
      BY <2>4, <3>2
    <3> QED
      BY <2>5, <3>1, <3>2
  <2>9. Asks(tests, bench', testMail')
    BY <2>2, <2>4, <2>5, <2>8 DEF Asks
  <2> QED
    BY <1>5, <2>1, <2>6, <2>9 DEF Dialogue
<1>9. CASE BenchReceives
  <2>1. bench.answer # 0 /\ bench.state = "waiting"
    BY <1>3, <1>9 DEF BenchReceives, Dialogue, Executes, NoCase
  <2>2. IsServed(tests, bench, testMail)
    BY <1>3, <2>1 DEF Dialogue, Asks, NoCase
  <2>3. bench.answer = bench.requestId
    BY <2>1, <2>2 DEF IsServed
  <2> DEFINE m == Say("executing", 0)
  <2>4. /\ testMail' = Append(testMail, m)
        /\ bench'.run = bench.run /\ bench'.state = "executing"
        /\ bench'.answer = 0
    BY <1>2, <1>9, <2>1, <2>3 DEF BenchReceives, Bench
  <2>5. m.revision = bench.run /\ m.kind = "executing"
    BY <1>6
  <2> HIDE DEF m
  <2>6. Executes(tests, bench', testMail')
    BY <2>1, <2>2, <2>4, <2>5, SaidMail DEF IsServed, Executes, NoCase
  <2>7. \A i \in 1 .. Len(testMail') : testMail'[i].revision <= bench.run
    BY <1>3, <2>4, <2>5, SaidMail
  <2> QED
    BY <1>5, <2>4, <2>6, <2>7 DEF Dialogue
<1> QED
  BY <1>7, <1>8, <1>9 DEF TestWorker

-----------------------------------------------------------------------------
(* Every step keeps the conversation.                                       *)
LEMMA NextKeepsTests ==
    ASSUME TestInv, [Next]_vars PROVE TestInv'
<1>1. WorkInv' /\ TypeInv'
  BY NextKeepsWork DEF TestInv, WorkInv
<1>2. StillConversing
  <2>1. CASE UNCHANGED vars
    BY <2>1, SameIdle DEF vars
  <2>2. CASE RestoreProfile
    BY <1>1, <2>2, RenderTests DEF RestoreProfile
  <2>3. CASE RenderTimerFires
    <3>1. CASE profileReady
      BY <1>1, <2>3, <3>1, RenderTests DEF RenderTimerFires
    <3>2. CASE ~profileReady
      BY <2>3, <3>2, SameIdle DEF RenderTimerFires, pumpVars
    <3> QED
      BY <3>1, <3>2
  <2>4. CASE CompilerWorker
    <3>1. /\ UNCHANGED <<sched, tests, bench, testMail>>
          /\ link' \in {link, [link EXCEPT !.mailbox = NoRequest]}
      BY <2>4
         DEF CompilerWorker, WorkerBoots, WorkerStartsParse, WorkerFinishesParse,
             WorkerBinds, WorkerStartsImport, WorkerFinishesImport, compilerFrame
    <3>2. link'.parserWorkerId = link.parserWorkerId
      BY <3>1, WorkTypes DEF TestInv, Link
    <3> QED
      BY <3>1, <3>2, SameIdle
  <2> QED
    BY <1>1, <2>1, <2>2, <2>3, <2>4, UserTests, MessagesTests, LossesTests,
       RunTestsTests, BenchTests
       DEF Next, PageTimers
<1> QED
  BY <1>1, <1>2 DEF TestInv, StillConversing, StillBound, Converses

LEMMA InitTests ==
    ASSUME Init PROVE TestInv
<1>1. WorkInv
  BY InitWork
<1>2. CaseBound(sched, link, tests.controller)
  BY DEF Init, CaseBound, NoTests, NewController
<1>3. Conversation(tests, bench, testMail)
  BY DEF Init, Conversation, Quiet, NoTests, NewController, NoBench
<1> QED
  BY <1>1, <1>2, <1>3 DEF TestInv

(* The page's controller, the dedicated test Worker and the mail between    *)
(* them agree, in every reachable state, on whose turn it is: the question  *)
(* of a run is in the mail, pending, with the compiler or answered, and in  *)
(* one of these places only.                                                *)
THEOREM TestInvariant == Spec => []TestInv
BY InitTests, NextKeepsTests, PTL DEF Spec

(* TestBindingController.active and the scheduler's activeRequest name the  *)
(* same bind, whichever of a completion, a timeout, an error or a new run   *)
(* comes first.                                                             *)
THEOREM ActiveCaseIsAlwaysBinding == Spec => []ActiveCaseIsBinding
<1>1. TestInv => ActiveCaseIsBinding
  BY DEF TestInv, CaseBound, ActiveCaseIsBinding
<1> QED
  BY <1>1, TestInvariant, PTL

(* TestWorkerBindingInbox.receive never meets an answer it does not await.  *)
THEOREM AnswerIsAlwaysAwaited == Spec => []AnswerIsAwaited
<1>1. TestInv => AnswerIsAwaited
  <2> SUFFICES ASSUME TestInv, bench.answer # 0, BenchAlive
               PROVE  bench.state = "waiting" /\ bench.answer = bench.requestId
    BY DEF AnswerIsAwaited
  <2>1. Dialogue(tests, bench, testMail)
    BY DEF TestInv, Conversation, BenchAlive
  <2>2. bench.state = "waiting" /\ IsServed(tests, bench, testMail)
    BY <2>1 DEF Dialogue, Executes, Asks, NoCase
  <2> QED
    BY <2>2 DEF IsServed
<1> QED
  BY <1>1, TestInvariant, PTL

(* armTestExecutionWatchdog and its clearing: a run that executes test code *)
(* is watched, or a message that arms the timer is on its way; a run that   *)
(* waits for the compiler is not watched.                                   *)
THEOREM ExecutionIsAlwaysWatched == Spec => []ExecutionIsWatched
<1>1. TestInv => ExecutionIsWatched
  <2> SUFFICES ASSUME TestInv PROVE ExecutionIsWatched
    OBVIOUS
  <2>1. /\ Conversation(tests, bench, testMail)
        /\ DOMAIN testMail = 1 .. Len(testMail)
    BY TestTypes DEF TestInv
  <2>2. ASSUME BenchAlive, bench.state \in {"start", "executing"}
        PROVE  tests.watchdog \/ \E i \in DOMAIN testMail : FromBench(testMail[i])
    <3>1. /\ tests.worker = bench.run /\ tests.revision = bench.run
          /\ Executes(tests, bench, testMail)
      BY <2>1, <2>2 DEF Conversation, BenchAlive, Dialogue
    <3>2. tests.watchdog \/ \E i \in OfRun(bench, testMail) : TRUE
      BY <2>2, <3>1 DEF Executes
    <3> QED
      BY <2>1, <3>1, <3>2 DEF OfRun, FromBench
  <2>3. ASSUME tests.controller.pending # 0 \/ tests.controller.active # NoActive
        PROVE  ~tests.watchdog
    <3>1. Dialogue(tests, bench, testMail)
      BY <2>1, <2>3 DEF Conversation, Quiet
    <3> QED
      BY <2>3, <3>1 DEF Dialogue, Executes, Asks, IsServed, NoCase
  <2> QED
    BY <2>2, <2>3 DEF ExecutionIsWatched
<1> QED
  BY <1>1, TestInvariant, PTL
=============================================================================
