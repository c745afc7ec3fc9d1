----------------------- MODULE PrototypeProfileProofs -----------------------
(***************************************************************************)
(* What holds of PrototypeProfile for every set of profiles, every bound,  *)
(* and every mix of inputs and faults.                                     *)
(***************************************************************************)
EXTENDS PrototypeProfileProperties, TLAPS

-----------------------------------------------------------------------------
(* The scheduler: what its operators return, with a profile as well.        *)

LEMMA RequestTypes ==
    /\ NoToken \in Token
    /\ NoRequest \in Request
    /\ NoCapture \in Capture
    /\ NewScheduler \in Scheduler
<1>1. NoToken \in Token
  BY DEF NoToken, Token
<1>2. NoRequest \in Request
  BY <1>1 DEF NoRequest, Request, Kinds, Overrides
<1>3. NoCapture \in Capture
  BY <1>1 DEF NoCapture, Capture
<1>4. NewScheduler \in Scheduler
  BY <1>2, <1>3 DEF NewScheduler, Scheduler, Phases
<1>. QED  BY <1>1, <1>2, <1>3, <1>4

LEMMA RequestConstructorTypes ==
    ASSUME NEW r \in Nat, NEW source \in Nat, NEW token \in Token,
           NEW who \in Overrides
    PROVE  /\ ParseRequest(r) \in Request
           /\ ImportRequest(r, source) \in Request
           /\ BindRequest(r, source, token, who) \in Request
BY RequestTypes DEF ParseRequest, ImportRequest, BindRequest, NoRequest, Request,
                    Kinds, Overrides

(* Every method returns a scheduler.                                        *)
LEMMA SchedulerOperatorTypes ==
    ASSUME NEW s \in Scheduler, NEW request \in Request
    PROVE  /\ SurvivingQueue(s) \in Request
           /\ CreateWorker(s) \in Scheduler
           /\ Enqueue(s, request) \in Scheduler
           /\ EnqueueImport(s, request) \in Scheduler
           /\ EnqueueBinding(s, request) \in Scheduler
           /\ MarkReady(s) \in Scheduler
           /\ TakeForDispatch(s) \in Scheduler
           /\ Fail(s) \in Scheduler
<1>. USE RequestTypes
<1>1. SurvivingQueue(s) \in Request
  BY DEF SurvivingQueue, Scheduler
<1>2. CreateWorker(s) \in Scheduler
  <2>1. s.nextWorkerId + 1 \in Nat
    BY DEF Scheduler
  <2>. QED  BY <1>1, <2>1 DEF CreateWorker, Scheduler, Phases
<1>3. Fail(s) \in Scheduler
  BY <1>1 DEF Fail, Scheduler, Phases
<1>4. /\ Enqueue(s, request) \in Scheduler
      /\ EnqueueImport(s, request) \in Scheduler
      /\ EnqueueBinding(s, request) \in Scheduler
  BY DEF Enqueue, EnqueueImport, EnqueueBinding, Scheduler
<1>5. /\ MarkReady(s) \in Scheduler
      /\ TakeForDispatch(s) \in Scheduler
  BY DEF MarkReady, TakeForDispatch, Scheduler, Phases
<1>. QED  BY <1>1, <1>2, <1>3, <1>4, <1>5

-----------------------------------------------------------------------------
(* The inductive invariant.                                                 *)

(* Every variable has its type.                                             *)
Typed ==
    /\ sched \in Scheduler /\ page \in Page /\ worker \in Worker
    /\ queuedProfile \in ProfileRequest
    /\ operationCounter \in Nat /\ currentRevision \in Nat
    /\ currentRevision <= operationCounter
    /\ store \subseteq Profile
    /\ selection \in Files \cup {Builtin, None}
    /\ reads \subseteq [revision : Nat, file : Files]
    /\ saves \subseteq [revision : Nat, profile : Profile]
    /\ responses \subseteq [worker : Nat, revision : Nat, environment : Contents,
                            error : BOOLEAN, plan : SUBSET Contents]

(* A reference names the content it stands for.                             *)
Sound(request) == request.reference => request.identity = request.content

(* A request is for the profile page p has selected.                        *)
Serves(p, request) ==
    /\ request.content = p.active.content
    /\ p.ready /\ ~p.restoreError

(* What is queued and what the Worker parses was numbered by the counter    *)
(* op, and is for the selected profile if it is of the current revision.    *)
Queued(s, q, p, op, current) ==
    HasQueued(s) =>
        /\ s.queuedRequest.revision \in 1 .. op
        /\ Sound(q)
        /\ s.queuedRequest.revision = current => Serves(p, q)

Parsing(w, p, op, current) ==
    /\ \A c \in w.loaded : Loads(c)
    /\ w.revision # 0 =>
          /\ w.revision <= op
          /\ Sound(w.request)
          /\ w.revision = current => Serves(p, w.request)

(* So is every answer.                                                      *)
Answered(r, p, op, current) ==
    /\ r.revision \in 1 .. op
    /\ r.environment # None => Loads(r.environment)
    /\ r.revision = current =>
          /\ r.environment \in {None, p.active.content}
          /\ r.plan \subseteq {p.active.content}
          /\ p.ready /\ ~p.restoreError

InFlight(p, op, current) ==
    \A r \in responses : Answered(r, p, op, current)

(* An identity is None or that of the content.                              *)
Pure(profile) == profile.identity \in {None, profile.content}

PurePage(p) == Pure(p.active) /\ Pure(p.before)

(* A choice being read is the only one, and the page waits for it if it is  *)
(* the newest.                                                              *)
Reading(R, p) ==
    /\ \A r \in R : r.revision \in 1 .. p.selectionRevision
    /\ \A r1, r2 \in R : r1.revision = r2.revision => r1 = r2
    /\ \A r \in R : r.revision = p.selectionRevision => ~p.ready /\ ~p.pending

(* A profile being written was accepted; if the choice is the newest it is  *)
(* still in use.                                                            *)
Saving(V, p) ==
    \A v \in V :
        /\ v.revision <= p.selectionRevision
        /\ v.profile.content \in Files /\ Loads(v.profile.content)
        /\ v.profile.identity = v.profile.content
        /\ v.revision = p.selectionRevision =>
              p.active = v.profile /\ p.ready /\ ~p.pending

(* Until the last visit's choice is restored, or replaced, there is none.   *)
Restoring(p) ==
    restoring /\ p.selectionRevision = 0 => ~p.ready /\ ~p.pending

Stored == \A p \in store : Pure(p) /\ Loads(p.content)

Carried ==
    /\ Queued(sched, queuedProfile, page, operationCounter, currentRevision)
    /\ Parsing(worker, page, operationCounter, currentRevision)
    /\ InFlight(page, operationCounter, currentRevision)

ProfileInv ==
    /\ Typed
    /\ Carried
    /\ PurePage(page)
    /\ Reading(reads, page) /\ Saving(saves, page) /\ Restoring(page)
    /\ Stored
    /\ PreviewUsesSelectedProfile

-----------------------------------------------------------------------------
(* The records.                                                             *)

(* The types and guards that a state with ProfileInv has.                   *)
LEMMA ProfileTypes ==
    /\ NoProfile \in Profile /\ NoProfile.content = None /\ NoProfile.identity = None
    /\ NewPage \in Page /\ PurePage(NewPage)
    /\ NoProfileRequest \in ProfileRequest
    /\ NoWorker \in Worker
<1>1. None \in Contents
  BY DEF Contents
<1>2. NoProfile \in Profile /\ NoProfile.content = None /\ NoProfile.identity = None
  BY <1>1 DEF NoProfile, Profile
<1>3. NewPage \in Page /\ NewPage.active = NoProfile /\ NewPage.before = NoProfile
  BY <1>1, <1>2 DEF NewPage, Page
<1> QED
  BY <1>1, <1>2, <1>3 DEF NoProfileRequest, ProfileRequest, NoWorker, Worker, PurePage,
                          Pure

(* A request for the selected profile serves it.                            *)
LEMMA RequestServes ==
    ASSUME NEW p \in Page, Pure(p.active)
    PROVE  /\ RequestFor(p) \in ProfileRequest
           /\ Sound(RequestFor(p))
           /\ RequestFor(p).content = p.active.content
BY DEF RequestFor, ProfileRequest, Page, Profile, Sound, Pure

(* What the pump sends instead of a lost reference serves the same profile. *)
LEMMA ResentServes ==
    ASSUME NEW p \in Page, NEW q \in ProfileRequest, Sound(q)
    PROVE  /\ Resent(p, q) \in ProfileRequest
           /\ Sound(Resent(p, q))
           /\ Serves(p, q) => Serves(p, Resent(p, q))
BY DEF Resent, ProfileRequest, Page, Profile, Sound, Serves

-----------------------------------------------------------------------------
(* What is in flight when the selection stays, and when a new revision      *)
(* leaves it behind.                                                        *)

SameSelection(p, p2) ==
    /\ p2.active.content = p.active.content
    /\ p2.ready = p.ready /\ p2.restoreError = p.restoreError

(* A step that keeps what is selected keeps what serves it.                 *)
LEMMA SelectionStays ==
    ASSUME NEW p, NEW p2, SameSelection(p, p2), NEW op, NEW current
    PROVE  /\ \A s, q : Queued(s, q, p, op, current) => Queued(s, q, p2, op, current)
           /\ \A w : Parsing(w, p, op, current) => Parsing(w, p2, op, current)
           /\ InFlight(p, op, current) => InFlight(p2, op, current)
<1>1. \A r : Serves(p, r) <=> Serves(p2, r)
  BY DEF Serves, SameSelection
<1>2. \A r : Answered(r, p, op, current) => Answered(r, p2, op, current)
  BY DEF Answered, SameSelection
<1> QED
  BY <1>1, <1>2 DEF Queued, Parsing, InFlight

(* What was for an older revision is for no later one.                      *)
LEMMA RevisionPasses ==
    ASSUME NEW p, NEW p2, NEW op \in Nat, NEW current
    PROVE  /\ \A s \in Scheduler : \A q :
                  Queued(s, q, p, op, current) => Queued(s, q, p2, op + 1, op + 1)
           /\ \A w \in Worker :
                  Parsing(w, p, op, current) => Parsing(w, p2, op + 1, op + 1)
           /\ responses \subseteq [worker : Nat, revision : Nat, environment : Contents,
                                   error : BOOLEAN, plan : SUBSET Contents] =>
                  (InFlight(p, op, current) => InFlight(p2, op + 1, op + 1))
<1>1. ASSUME NEW s \in Scheduler, NEW q, Queued(s, q, p, op, current)
      PROVE  Queued(s, q, p2, op + 1, op + 1)
  BY <1>1 DEF Queued
<1>2. ASSUME NEW w \in Worker, Parsing(w, p, op, current)
      PROVE  Parsing(w, p2, op + 1, op + 1)
  <2>1. w.revision \in Nat
    BY DEF Worker
  <2> QED
    BY <1>2, <2>1 DEF Parsing
<1>3. ASSUME NEW r, Answered(r, p, op, current)
      PROVE  Answered(r, p2, op + 1, op + 1)
  BY <1>3 DEF Answered
<1> QED
  BY <1>1, <1>2, <1>3 DEF InFlight

-----------------------------------------------------------------------------
(* The pump.                                                                *)

(* Everything but what the page believes of the Worker.                     *)
SamePage(p, p2) ==
    /\ p2.active = p.active /\ p2.before = p.before
    /\ p2.pending = p.pending /\ p2.ready = p.ready
    /\ p2.restoreError = p.restoreError
    /\ p2.selectionRevision = p.selectionRevision

(* A page of the same selection keeps the parts about reading and saving.   *)
LEMMA SamePageKeeps ==
    ASSUME NEW p, NEW p2, SamePage(p, p2)
    PROVE  /\ SameSelection(p, p2)
           /\ PurePage(p) => PurePage(p2)
           /\ \A R : Reading(R, p) => Reading(R, p2)
           /\ \A V : Saving(V, p) => Saving(V, p2)
           /\ Restoring(p) => Restoring(p2)
BY DEF SamePage, SameSelection, PurePage, Reading, Saving, Restoring

(* Forgetting a Worker's profiles leaves the rest of the page alone.        *)
LEMMA ForgettingIsSame ==
    ASSUME NEW p \in Page
    PROVE  /\ [p EXCEPT !.workerIdentity = None] \in Page
           /\ SamePage(p, [p EXCEPT !.workerIdentity = None])
BY DEF Page, SamePage, Contents

(* The pump sends only what serves the current revision.                    *)
LEMMA PumpStep ==
    ASSUME NEW s \in Scheduler, NEW p \in Page, NEW q \in ProfileRequest,
           NEW w \in Worker, NEW op \in Nat, NEW current,
           Queued(s, q, p, op, current), Parsing(w, p, op, current),
           Pump(s, p, q, w)
    PROVE  /\ sched' \in Scheduler /\ page' \in Page
           /\ queuedProfile' \in ProfileRequest /\ worker' \in Worker
           /\ SamePage(p, page')
           /\ Queued(sched', queuedProfile', page', op, current)
           /\ Parsing(worker', page', op, current)
<1> USE DEF Pump
<1>1. queuedProfile' = q
  OBVIOUS
<1>2. CASE HasQueued(s) /\ s.phase # "busy" /\ w.id = 0
  <2>1. /\ sched' = CreateWorker(s)
        /\ page' = [p EXCEPT !.workerIdentity = None]
        /\ worker' = [NoWorker EXCEPT !.id = s.nextWorkerId + 1]
    BY <1>2
  <2>2. sched' \in Scheduler
    BY <2>1, SchedulerOperatorTypes, RequestTypes
  <2>3. page' \in Page /\ SamePage(p, page')
    BY <2>1, ForgettingIsSame
  <2>4. worker' \in Worker /\ worker'.revision = 0 /\ worker'.loaded = {}
    <3>1. s.nextWorkerId + 1 \in Nat
      BY DEF Scheduler
    <3> QED
      BY <2>1, <3>1, ProfileTypes DEF NoWorker, Worker
  <2>5. Queued(sched', q, page', op, current)
    <3>1. sched'.queuedRequest \in {s.queuedRequest, NoRequest}
      BY <2>1 DEF CreateWorker, SurvivingQueue, Scheduler
    <3>2. Queued(sched', q, p, op, current)
      BY <3>1 DEF Queued, HasQueued
    <3> QED
      BY <2>3, <3>2, SamePageKeeps, SelectionStays
  <2> QED
    BY <1>1, <2>2, <2>3, <2>4, <2>5 DEF Parsing
<1>3. CASE ~(HasQueued(s) /\ s.phase # "busy" /\ w.id = 0) /\ CanTake(s)
  <2>1. /\ sched' = TakeForDispatch(s)
        /\ page' = p
        /\ worker' = [w EXCEPT !.revision = s.queuedRequest.revision,
                               !.request = Resent(p, q)]
    BY <1>3
  <2>2. HasQueued(s)
    BY <1>3 DEF CanTake
  <2>3. /\ s.queuedRequest.revision \in 1 .. op
        /\ Sound(q)
        /\ s.queuedRequest.revision = current => Serves(p, q)
    BY <2>2 DEF Queued
  <2>4. sched' \in Scheduler /\ ~HasQueued(sched')
    BY <2>1, SchedulerOperatorTypes, RequestTypes
       DEF TakeForDispatch, Scheduler, HasQueued
  <2>5. /\ worker' \in Worker
        /\ worker'.loaded = w.loaded
        /\ worker'.revision = s.queuedRequest.revision
        /\ worker'.request = Resent(p, q)
    <3>1. s.queuedRequest.revision \in Nat
      BY DEF Scheduler, Request
    <3> QED
      BY <2>1, <2>3, <3>1, ResentServes DEF Worker
  <2>6. Parsing(worker', p, op, current)
    BY <2>3, <2>5, ResentServes DEF Parsing
  <2> QED
    BY <1>1, <2>1, <2>4, <2>5, <2>6 DEF SamePage, Queued
<1>4. CASE ~(HasQueued(s) /\ s.phase # "busy" /\ w.id = 0) /\ ~CanTake(s)
  BY <1>4 DEF SamePage
<1> QED
  BY <1>2, <1>3, <1>4

-----------------------------------------------------------------------------
(* Rendering.                                                               *)

(* Nothing is for the new revision yet.                                     *)
LEMMA ScheduleRenderCarries ==
    ASSUME Typed, Carried, NEW p \in Page, ScheduleRender(p),
           UNCHANGED queuedProfile, responses' \subseteq responses,
           sched' \in Scheduler,
           sched'.queuedRequest \in {sched.queuedRequest, NoRequest},
           worker' \in {worker, NoWorker}
    PROVE  Carried' /\ PreviewUsesSelectedProfile'
<1>1. /\ page' = p
      /\ operationCounter' = operationCounter + 1
      /\ currentRevision' = operationCounter + 1
      /\ shown' = {}
  BY DEF ScheduleRender
<1>2. Queued(sched', queuedProfile', page', operationCounter', currentRevision')
  <2>1. Queued(sched', queuedProfile, page, operationCounter, currentRevision)
    BY DEF Carried, Queued, HasQueued
  <2> QED
    BY <1>1, <2>1, RevisionPasses DEF Typed
<1>3. Parsing(worker', page', operationCounter', currentRevision')
  <2>1. CASE worker' = worker
    BY <1>1, <2>1, RevisionPasses DEF Typed, Carried
  <2>2. CASE worker' = NoWorker
    BY <2>2 DEF Parsing, NoWorker
  <2> QED
    BY <2>1, <2>2
<1>4. InFlight(page, operationCounter, currentRevision)'
  <2>1. InFlight(page', operationCounter + 1, operationCounter + 1)
    BY RevisionPasses DEF Typed, Carried
  <2> QED
    BY <1>1, <2>1 DEF InFlight
<1> QED
  BY <1>1, <1>2, <1>3, <1>4 DEF Carried, PreviewUsesSelectedProfile

(* The request of the new revision serves the profile it is rendered with.  *)
LEMMA RenderCarries ==
    ASSUME Typed, Carried, NEW p \in Page, PurePage(p), p.ready, Render(p),
           UNCHANGED responses,
           SameSelection(page, p) \/ ~page.ready
    PROVE  /\ Carried' /\ PreviewUsesSelectedProfile'
           /\ SamePage(p, page')
           /\ sched' \in Scheduler /\ page' \in Page
           /\ queuedProfile' \in ProfileRequest /\ worker' \in Worker
           /\ operationCounter' \in Nat /\ currentRevision' \in Nat
           /\ currentRevision' <= operationCounter'
<1>1. PreviewUsesSelectedProfile'
  BY DEF Render, PreviewUsesSelectedProfile
<1>2. CASE p.restoreError
  <2>1. page' = p /\ UNCHANGED <<operationCounter, currentRevision, sched,
                                 queuedProfile, worker>>
    BY <1>2 DEF Render
  <2>2. CASE SameSelection(page, p)
    <3>1. /\ Queued(sched, queuedProfile, p, operationCounter, currentRevision)
          /\ Parsing(worker, p, operationCounter, currentRevision)
          /\ InFlight(p, operationCounter, currentRevision)
      BY <2>2, SelectionStays DEF Carried
    <3> QED
      BY <1>1, <2>1, <3>1 DEF Carried, InFlight, SamePage, Typed
  <2>3. CASE ~page.ready
    <3>1. /\ Queued(sched, queuedProfile, p, operationCounter, currentRevision)
          /\ Parsing(worker, p, operationCounter, currentRevision)
      BY <2>3 DEF Carried, Queued, Parsing, Serves
    <3>2. InFlight(p, operationCounter, currentRevision)
      BY <2>3 DEF Carried, InFlight, Answered
    <3> QED
      BY <1>1, <2>1, <3>1, <3>2 DEF Carried, InFlight, SamePage, Typed
  <2> QED
    BY <2>2, <2>3
<1>3. CASE ~p.restoreError
  <2> DEFINE r == operationCounter + 1
             s == Enqueue(sched, ParseRequest(r))
  <2>1. /\ operationCounter' = r /\ currentRevision' = r
        /\ Pump(s, p, RequestFor(p), worker)
    BY <1>3 DEF Render
  <2>2. r \in Nat /\ r \in 1 .. r
    BY DEF Typed
  <2>3. s \in Scheduler /\ s.queuedRequest.revision = r
    <3>1. NoToken \in Token /\ ParseRequest(r) \in Request
      BY <2>2, RequestTypes, RequestConstructorTypes DEF Overrides
    <3>2. ParseRequest(r).revision = r
      BY DEF ParseRequest, NoRequest
    <3> QED
      BY <3>1, <3>2, SchedulerOperatorTypes DEF Typed, Enqueue, Scheduler
  <2>4. Queued(s, RequestFor(p), p, r, r)
    BY <1>3, <2>2, <2>3, RequestServes DEF Queued, Serves, PurePage
  <2>5. Parsing(worker, p, r, r)
    BY RevisionPasses DEF Typed, Carried
  <2>6. /\ sched' \in Scheduler /\ page' \in Page
        /\ queuedProfile' \in ProfileRequest /\ worker' \in Worker
        /\ SamePage(p, page')
        /\ Queued(sched', queuedProfile', page', r, r)
        /\ Parsing(worker', page', r, r)
    <3>1. RequestFor(p) \in ProfileRequest /\ worker \in Worker
      BY RequestServes DEF Typed, PurePage
    <3> HIDE DEF r, s
    <3> QED
      BY <2>1, <2>2, <2>3, <2>4, <2>5, <3>1, PumpStep
  <2>7. InFlight(page', r, r)
    BY RevisionPasses DEF Typed, Carried
  <2> HIDE DEF r, s
  <2> QED
    BY <1>1, <2>1, <2>2, <2>6, <2>7 DEF Carried, InFlight
<1> QED
  BY <1>2, <1>3

-----------------------------------------------------------------------------
(* The user.                                                                *)

(* A choice is numbered higher than what is still being read or written.    *)
LEMMA NewChoice ==
    ASSUME Typed, Reading(reads, page), Saving(saves, page), NEW p \in Page,
           p.selectionRevision = page.selectionRevision + 1
    PROVE  Reading(reads, p) /\ Saving(saves, p) /\ Restoring(p)
<1>1. page.selectionRevision \in Nat /\ p.selectionRevision \in Nat
  BY DEF Typed, Page
<1>2. Reading(reads, p)
  BY <1>1 DEF Reading, Typed
<1>3. Saving(saves, p)
  BY <1>1 DEF Saving, Typed
<1> QED
  BY <1>1, <1>2, <1>3 DEF Restoring

(* A render is scheduled with a page that satisfies its part.               *)
LEMMA Rescheduled ==
    ASSUME ProfileInv, NEW p \in Page, PurePage(p), ScheduleRender(p),
           UNCHANGED <<queuedProfile, restoring>>,
           responses' \subseteq responses,
           sched' \in Scheduler,
           sched'.queuedRequest \in {sched.queuedRequest, NoRequest},
           worker' \in {worker, NoWorker},
           reads' \subseteq [revision : Nat, file : Files], Reading(reads', p),
           saves' \subseteq saves, Saving(saves, p), Restoring(p),
           UNCHANGED store, selection' \in Files \cup {Builtin, None}
    PROVE  ProfileInv'
<1>1. /\ page' = p
      /\ operationCounter' = operationCounter + 1
      /\ currentRevision' = operationCounter + 1
  BY DEF ScheduleRender
<1>2. Carried' /\ PreviewUsesSelectedProfile'
  BY ScheduleRenderCarries DEF ProfileInv
<1>3. Typed'
  BY <1>1, ProfileTypes DEF ProfileInv, Typed
<1>4. Saving(saves', p)
  BY DEF Saving
<1> QED
  BY <1>1, <1>2, <1>3, <1>4 DEF ProfileInv, PurePage, Reading, Saving, Restoring, Stored

(* The inductive step of an edit.                                           *)
LEMMA EditStep ==
    ASSUME ProfileInv, EditSource PROVE ProfileInv'
<1>1. ScheduleRender(page) /\ UNCHANGED <<userFrame, reads, diskVars>>
  BY DEF EditSource
<1> QED
  BY <1>1, Rescheduled DEF ProfileInv, Typed, userFrame, diskVars

(* The inductive step of choosing a profile file.                           *)
LEMMA ChooseStep ==
    ASSUME ProfileInv, ChooseFile PROVE ProfileInv'
<1>1. PICK f \in Files :
          LET p == [page EXCEPT
                      !.selectionRevision = @ + 1, !.before = page.active,
                      !.identityBefore = page.workerIdentity, !.pending = FALSE,
                      !.workerIdentity = None, !.ready = FALSE]
          IN  /\ reads' = reads \cup {[revision |-> p.selectionRevision, file |-> f]}
              /\ ScheduleRender(p)
              /\ UNCHANGED <<userFrame, diskVars>>
  BY DEF ChooseFile
<1> DEFINE p == [page EXCEPT
                   !.selectionRevision = @ + 1, !.before = page.active,
                   !.identityBefore = page.workerIdentity, !.pending = FALSE,
                   !.workerIdentity = None, !.ready = FALSE]
           r == [revision |-> p.selectionRevision, file |-> f]
<1>2. /\ page \in Page /\ page.selectionRevision \in Nat
      /\ page.selectionRevision + 1 \in Nat
      /\ page.active \in Profile /\ page.workerIdentity \in Contents
      /\ None \in Contents
  BY DEF ProfileInv, Typed, Page, Contents
<1>3. /\ p \in Page
      /\ p.active = page.active /\ p.before = page.active
      /\ ~p.pending /\ ~p.ready
      /\ p.selectionRevision = page.selectionRevision + 1
  BY <1>2 DEF Page
<1>4. r \in [revision : Nat, file : Files] /\ r.revision = p.selectionRevision
  BY <1>2, <1>3
<1> HIDE DEF p, r
<1>5. ScheduleRender(p) /\ reads' = reads \cup {r} /\ UNCHANGED <<userFrame, diskVars>>
  BY <1>1 DEF p, r
<1>6. Reading(reads, p) /\ Saving(saves, p) /\ Restoring(p)
  BY <1>3, NewChoice DEF ProfileInv
<1>7. Reading(reads \cup {r}, p)
  <2>1. \A q \in reads : q.revision # r.revision
    BY <1>2, <1>3, <1>4 DEF ProfileInv, Reading, Typed
  <2> QED
    BY <1>2, <1>3, <1>4, <1>6, <2>1 DEF Reading
<1>8. reads' \subseteq [revision : Nat, file : Files] /\ PurePage(p)
  BY <1>3, <1>4, <1>5 DEF ProfileInv, Typed, PurePage
<1> QED
  BY <1>3, <1>5, <1>6, <1>7, <1>8, Rescheduled DEF ProfileInv, Typed, userFrame, diskVars

(* The inductive step of choosing a file that is not a profile.             *)
LEMMA MalformedStep ==
    ASSUME ProfileInv, ChooseMalformedFiles PROVE ProfileInv'
<1> DEFINE p == [page EXCEPT
                   !.selectionRevision = @ + 1, !.before = NoProfile,
                   !.identityBefore = None, !.pending = FALSE, !.ready = TRUE,
                   !.restoreError = IF page.active = NoProfile THEN TRUE ELSE @]
<1>1. /\ page \in Page /\ page.selectionRevision \in Nat
      /\ page.selectionRevision + 1 \in Nat
      /\ NoProfile \in Profile /\ None \in Contents
  BY ProfileTypes DEF ProfileInv, Typed, Page, Contents
<1>2. /\ p \in Page
      /\ p.active = page.active /\ p.before = NoProfile
      /\ p.selectionRevision = page.selectionRevision + 1
  BY <1>1 DEF Page
<1>3. ScheduleRender(p) /\ UNCHANGED <<userFrame, reads, diskVars>>
  BY DEF ChooseMalformedFiles
<1> HIDE DEF p
<1>4. PurePage(p)
  BY <1>2, ProfileTypes DEF ProfileInv, PurePage, Pure
<1>5. Reading(reads, p) /\ Saving(saves, p) /\ Restoring(p)
  BY <1>2, NewChoice DEF ProfileInv
<1> QED
  BY <1>2, <1>3, <1>4, <1>5, Rescheduled DEF ProfileInv, Typed, userFrame, diskVars

(* The inductive step of returning to the built-in profile.                 *)
LEMMA DisableStep ==
    ASSUME ProfileInv, DisableProfile PROVE ProfileInv'
<1> DEFINE p == [NewPage EXCEPT !.ready = TRUE,
                   !.selectionRevision = page.selectionRevision + 1]
<1>1. /\ NewPage \in Page /\ page.selectionRevision + 1 \in Nat /\ PurePage(NewPage)
  BY ProfileTypes DEF ProfileInv, Typed, Page
<1>2. /\ p \in Page
      /\ p.active = NewPage.active /\ p.before = NewPage.before
      /\ p.selectionRevision = page.selectionRevision + 1
  BY <1>1 DEF Page
<1>3. /\ ScheduleRender(p) /\ selection' = None
      /\ UNCHANGED <<userFrame, reads, saves, store>>
  BY DEF DisableProfile
<1> HIDE DEF p
<1>4. PurePage(p)
  BY <1>1, <1>2 DEF PurePage
<1>5. Reading(reads, p) /\ Saving(saves, p) /\ Restoring(p)
  BY <1>2, NewChoice DEF ProfileInv
<1> QED
  BY <1>2, <1>3, <1>4, <1>5, Rescheduled DEF ProfileInv, Typed, userFrame

(* What a visit leaves is in the store.                                     *)
LEMMA ReloadStep ==
    ASSUME ProfileInv, Reload PROVE ProfileInv'
<1>1. /\ sched' = NewScheduler
      /\ operationCounter' = operationCounter + 1
      /\ currentRevision' = 0
      /\ queuedProfile' = NoProfileRequest /\ page' = NewPage /\ shown' = {}
      /\ worker' = NoWorker /\ responses' = {} /\ reads' = {} /\ saves' = {}
      /\ UNCHANGED selection
  BY DEF Reload
<1>2. PICK written \in SUBSET saves : store' = store \cup {v.profile : v \in written}
  BY DEF Reload
<1>3. \A v \in written : /\ v.profile \in Profile /\ Pure(v.profile)
                         /\ Loads(v.profile.content)
  BY DEF ProfileInv, Typed, Saving, Pure
<1>4. store' \subseteq Profile /\ Stored'
  BY <1>2, <1>3 DEF ProfileInv, Typed, Stored
<1>5. Typed'
  BY <1>1, <1>4, ProfileTypes, RequestTypes DEF ProfileInv, Typed
<1>6. Carried'
  BY <1>1 DEF Carried, Queued, HasQueued, NewScheduler, Parsing, NoWorker, InFlight
<1>7. Reading(reads', page') /\ Saving(saves', page')
  BY <1>1 DEF Reading, Saving
<1>8. Restoring(page)'
  BY <1>1 DEF Restoring, NewPage
<1> QED
  BY <1>1, <1>4, <1>5, <1>6, <1>7, <1>8, ProfileTypes
     DEF ProfileInv, PurePage, Reading, Saving, PreviewUsesSelectedProfile

-----------------------------------------------------------------------------
(* Files and storage.                                                       *)

(* A choice that was read is not read again, and its page is not older.     *)
LEMMA ReadDone ==
    ASSUME Typed, Reading(reads, page), Saving(saves, page), NEW r \in reads,
           r.revision = page.selectionRevision,
           NEW p, p.selectionRevision = page.selectionRevision
    PROVE  /\ Reading(reads \ {r}, p) /\ Saving(saves, p) /\ Restoring(p)
<1>1. \A q \in reads \ {r} : q.revision # page.selectionRevision
  BY DEF Reading
<1>2. Reading(reads \ {r}, p)
  BY <1>1 DEF Reading
<1>3. ~page.ready /\ page.selectionRevision # 0
  BY DEF Reading, Typed
<1>4. Saving(saves, p)
  BY <1>3 DEF Saving
<1> QED
  BY <1>2, <1>3, <1>4 DEF Restoring

(* The inductive step of a file that was read.                              *)
LEMMA ReadFinishesStep ==
    ASSUME ProfileInv, ReadFinishes PROVE ProfileInv'
<1>1. PICK r \in reads :
        /\ reads' = reads \ {r}
        /\ IF r.revision = page.selectionRevision
           THEN ScheduleRender([page EXCEPT
                    !.ready = TRUE, !.restoreError = FALSE, !.pending = TRUE,
                    !.active = [content |-> r.file, identity |-> None],
                    !.workerIdentity = None])
           ELSE UNCHANGED <<page, operationCounter, currentRevision, renderTimer,
                            shown>>
        /\ UNCHANGED <<userFrame, diskVars>>
  BY DEF ReadFinishes
<1>2. CASE r.revision = page.selectionRevision
  <2> DEFINE chosen == [content |-> r.file, identity |-> None]
             p == [page EXCEPT
                     !.ready = TRUE, !.restoreError = FALSE, !.pending = TRUE,
                     !.active = chosen, !.workerIdentity = None]
  <2>1. /\ page \in Page /\ chosen \in Profile /\ Pure(chosen) /\ None \in Contents
    BY DEF ProfileInv, Typed, Contents, Profile, Pure
  <2> HIDE DEF chosen
  <2>2. /\ p \in Page /\ p.active = chosen /\ p.before = page.before
        /\ p.selectionRevision = page.selectionRevision
    BY <2>1 DEF Page
  <2>3. ScheduleRender(p) /\ UNCHANGED <<userFrame, diskVars>>
    BY <1>1, <1>2 DEF chosen
  <2> HIDE DEF p
  <2>4. PurePage(p)
    BY <2>1, <2>2 DEF ProfileInv, PurePage
  <2>5. Reading(reads', p) /\ Saving(saves, p) /\ Restoring(p)
    BY <1>1, <1>2, <2>2, ReadDone DEF ProfileInv
  <2> QED
    BY <1>1, <2>2, <2>3, <2>4, <2>5, Rescheduled
       DEF ProfileInv, Typed, userFrame, diskVars
<1>3. CASE r.revision # page.selectionRevision
  <2>1. Reading(reads', page)
    BY <1>1 DEF ProfileInv, Reading
  <2>2. UNCHANGED <<sched, queuedProfile, page, worker, operationCounter,
                    currentRevision, shown, responses, restoring, saves, store,
                    selection>>
    BY <1>1, <1>3 DEF userFrame, diskVars
  <2> QED
    BY <1>1, <2>1, <2>2
       DEF ProfileInv, Typed, Carried, InFlight, PurePage, Reading, Saving,
           Restoring, Stored, PreviewUsesSelectedProfile
<1> QED
  BY <1>2, <1>3

(* The inductive step of a file that could not be read.                     *)
LEMMA ReadFailsStep ==
    ASSUME ProfileInv, ReadFails PROVE ProfileInv'
<1> DEFINE p == [page EXCEPT
              !.ready = TRUE, !.pending = FALSE, !.active = page.before,
              !.workerIdentity = page.identityBefore, !.before = NoProfile,
              !.identityBefore = None,
              !.restoreError = (page.before = NoProfile)]
<1>1. PICK r \in reads :
        /\ r.revision = page.selectionRevision
        /\ reads' = reads \ {r}
        /\ ScheduleRender(p)
        /\ UNCHANGED <<userFrame, diskVars>>
  BY DEF ReadFails
<1>2. /\ page \in Page /\ page.before \in Profile /\ page.identityBefore \in Contents
      /\ NoProfile \in Profile /\ None \in Contents
  BY ProfileTypes DEF ProfileInv, Typed, Page, Contents
<1>3. /\ p \in Page /\ p.active = page.before /\ p.before = NoProfile
      /\ p.selectionRevision = page.selectionRevision
  BY <1>2 DEF Page
<1> HIDE DEF p
<1>4. PurePage(p)
  BY <1>3, ProfileTypes DEF ProfileInv, PurePage, Pure
<1>5. Reading(reads', p) /\ Saving(saves, p) /\ Restoring(p)
  BY <1>1, <1>3, ReadDone DEF ProfileInv
<1> QED
  BY <1>1, <1>3, <1>4, <1>5, Rescheduled DEF ProfileInv, Typed, userFrame, diskVars

(* The inductive step of a write that ended.                                *)
LEMMA SaveFinishesStep ==
    ASSUME ProfileInv, SaveFinishes
    PROVE  ProfileInv' /\ (selection' # selection => selection' = page'.active.identity)
<1>1. PICK v \in saves :
        /\ saves' = saves \ {v}
        /\ \/ /\ store' = store \cup {v.profile}
              /\ selection' = IF v.revision = page.selectionRevision
                              THEN v.profile.identity ELSE selection
           \/ UNCHANGED <<store, selection>>
  BY DEF SaveFinishes
<1>2. UNCHANGED <<sched, queuedProfile, page, worker, operationCounter,
                  currentRevision, shown, responses, restoring, reads>>
  BY DEF SaveFinishes, userFrame
<1>3. /\ v.profile \in Profile /\ v.profile.content \in Files
      /\ Loads(v.profile.content) /\ v.profile.identity = v.profile.content
      /\ v.revision = page.selectionRevision => page.active = v.profile
  BY DEF ProfileInv, Typed, Saving
<1>4. store' \subseteq Profile /\ Stored'
  BY <1>1, <1>3 DEF ProfileInv, Typed, Stored, Pure
<1>5. /\ selection' \in Files \cup {Builtin, None}
      /\ selection' # selection => selection' = page'.active.identity
  BY <1>1, <1>2, <1>3 DEF ProfileInv, Typed
<1>6. Saving(saves', page)
  BY <1>1 DEF ProfileInv, Saving
<1> QED
  BY <1>1, <1>2, <1>4, <1>5, <1>6
     DEF ProfileInv, Typed, Carried, InFlight, PurePage, Reading, Saving, Restoring,
         PreviewUsesSelectedProfile

(* A render keeps the rest of the invariant of the page it is done with.    *)
LEMMA Rendered ==
    ASSUME ProfileInv, NEW p \in Page, PurePage(p), p.ready, Render(p),
           SameSelection(page, p) \/ ~page.ready,
           UNCHANGED <<responses, reads, saves, store, selection>>,
           Reading(reads, p), Saving(saves, p),
           ~(restoring' /\ p.selectionRevision = 0)
    PROVE  ProfileInv'
<1>1. /\ Carried' /\ PreviewUsesSelectedProfile' /\ SamePage(p, page')
      /\ sched' \in Scheduler /\ page' \in Page
      /\ queuedProfile' \in ProfileRequest /\ worker' \in Worker
      /\ operationCounter' \in Nat /\ currentRevision' \in Nat
      /\ currentRevision' <= operationCounter'
  BY RenderCarries DEF ProfileInv
<1>2. PurePage(page') /\ Reading(reads, page') /\ Saving(saves, page')
  BY <1>1, SamePageKeeps
<1>3. Restoring(page)'
  BY <1>1 DEF Restoring, SamePage
<1> QED
  BY <1>1, <1>2, <1>3 DEF ProfileInv, Typed, PurePage, Reading, Saving, Stored

(* The inductive step of the timer of a scheduled render.                   *)
LEMMA RenderTimerStep ==
    ASSUME ProfileInv, RenderTimerFires PROVE ProfileInv'
<1>1. UNCHANGED <<responses, reads, saves, store, selection, restoring>>
  BY DEF RenderTimerFires, diskVars
<1>2. CASE page.ready
  <2>1. Render(page)
    BY <1>2 DEF RenderTimerFires
  <2>2. SameSelection(page, page)
    BY DEF SameSelection
  <2>3. ~(restoring' /\ page.selectionRevision = 0)
    BY <1>1, <1>2 DEF ProfileInv, Restoring
  <2> QED
    BY <1>1, <1>2, <2>1, <2>2, <2>3, Rendered DEF ProfileInv, Typed
<1>3. CASE ~page.ready
  <2>1. UNCHANGED <<sched, queuedProfile, page, worker, operationCounter,
                    currentRevision, shown>>
    BY <1>3 DEF RenderTimerFires, pumpVars
  <2> QED
    BY <1>1, <2>1
       DEF ProfileInv, Typed, Carried, InFlight, PurePage, Reading, Saving,
           Restoring, Stored, PreviewUsesSelectedProfile
<1> QED
  BY <1>2, <1>3

(* Nothing was rendered or chosen before the saved choice is restored.      *)
LEMMA RestoreStep ==
    ASSUME ProfileInv, RestoreFinishes PROVE ProfileInv'
<1>1. /\ restoring /\ restoring' = FALSE
      /\ UNCHANGED <<responses, reads, saves, store, selection>>
  BY DEF RestoreFinishes, diskVars
<1>2. CASE page.selectionRevision # 0
  <2>1. UNCHANGED <<sched, queuedProfile, page, worker, operationCounter,
                    currentRevision, shown>>
    BY <1>2 DEF RestoreFinishes, pumpVars
  <2> QED
    BY <1>1, <2>1
       DEF ProfileInv, Typed, Carried, InFlight, PurePage, Reading, Saving,
           Restoring, Stored, PreviewUsesSelectedProfile
<1>3. CASE page.selectionRevision = 0
  <2>1. PICK profile : \E failed \in BOOLEAN :
            /\ Render([page EXCEPT !.active = profile, !.ready = TRUE,
                                   !.restoreError = failed])
            /\ \/ profile = [content |-> Builtin, identity |-> None]
               \/ profile = NoProfile
               \/ profile \in store
    <3> DEFINE Restored(profile, failed) ==
                   Render([page EXCEPT !.active = profile, !.ready = TRUE,
                                       !.restoreError = failed])
    <3>1. \/ Restored([content |-> Builtin, identity |-> None], FALSE)
          \/ Restored(NoProfile, FALSE)
          \/ \E s \in store : Restored(s, FALSE)
          \/ Restored(NoProfile, TRUE)
      BY <1>3 DEF RestoreFinishes
    <3> HIDE DEF Restored
    <3>2. \E profile : \E failed \in BOOLEAN :
            /\ Restored(profile, failed)
            /\ \/ profile = [content |-> Builtin, identity |-> None]
               \/ profile = NoProfile
               \/ profile \in store
      BY <3>1
    <3> QED
      BY <3>2 DEF Restored
  <2>2. profile \in Profile /\ Pure(profile)
    <3>1. [content |-> Builtin, identity |-> None] \in Profile
      BY DEF Profile, Contents
    <3>2. Pure([content |-> Builtin, identity |-> None])
      BY DEF Pure
    <3>3. NoProfile \in Profile /\ Pure(NoProfile)
      BY ProfileTypes DEF Pure
    <3> QED
      BY <2>1, <3>1, <3>2, <3>3 DEF ProfileInv, Typed, Stored
  <2>3. PICK failed \in BOOLEAN :
             Render([page EXCEPT !.active = profile, !.ready = TRUE,
                                 !.restoreError = failed])
    BY <2>1
  <2> DEFINE p == [page EXCEPT !.active = profile, !.ready = TRUE,
                               !.restoreError = failed]
  <2>4. /\ p \in Page /\ p.active = profile /\ p.before = page.before /\ p.ready
        /\ p.selectionRevision = 0
    BY <1>3, <2>2 DEF ProfileInv, Typed, Page
  <2>5. Render(p)
    BY <2>3
  <2> HIDE DEF p
  <2>6. ~page.ready
    BY <1>1, <1>3 DEF ProfileInv, Restoring
  <2>7. \A r \in reads : r.revision # 0
    BY DEF ProfileInv, Reading, Typed
  <2>8. Reading(reads, p)
    BY <1>3, <2>4, <2>7 DEF ProfileInv, Reading
  <2>9. Saving(saves, p)
    BY <1>3, <2>4, <2>6 DEF ProfileInv, Saving
  <2>10. PurePage(p)
    BY <2>2, <2>4 DEF ProfileInv, PurePage
  <2> QED
    BY <1>1, <2>4, <2>5, <2>6, <2>8, <2>9, <2>10, Rendered
<1> QED
  BY <1>2, <1>3

-----------------------------------------------------------------------------
(* The compiler Worker.                                                     *)

(* It answers with the content it was asked for, or with none.              *)
LEMMA WorkerStep ==
    ASSUME ProfileInv, WorkerParses PROVE ProfileInv'
<1> DEFINE request == worker.request
           uses == request.content # None
           found == uses /\ Resolves(worker, request)
           environment == IF found THEN Environment(request) ELSE None
<1>1. PICK compiles \in BOOLEAN :
        /\ worker.revision # 0
        /\ compiles => found \/ ~uses
        /\ worker' = [worker EXCEPT
                        !.loaded = IF found THEN @ \cup {environment} ELSE @,
                        !.revision = 0, !.request = NoProfileRequest]
        /\ responses' = responses \cup
              {[worker |-> worker.id, revision |-> worker.revision,
                environment |-> environment, error |-> uses /\ ~found,
                plan |-> IF compiles THEN {environment} ELSE {}]}
  BY DEF WorkerParses
<1> DEFINE answer == [worker |-> worker.id, revision |-> worker.revision,
                      environment |-> environment, error |-> uses /\ ~found,
                      plan |-> IF compiles THEN {environment} ELSE {}]
<1>2. UNCHANGED <<sched, operationCounter, currentRevision, queuedProfile, page,
                  shown, reads, saves, store, selection, restoring>>
  BY DEF WorkerParses, diskVars
<1>3. /\ worker \in Worker /\ request \in ProfileRequest /\ Sound(request)
      /\ worker.id \in Nat /\ worker.revision \in Nat
      /\ worker.revision <= operationCounter
      /\ worker.revision = currentRevision => Serves(page, request)
      /\ \A c \in worker.loaded : Loads(c)
  BY <1>1 DEF ProfileInv, Typed, Carried, Parsing, Worker
<1>4. Environment(request) = request.content /\ request.content \in Contents
  BY <1>3 DEF Environment, Sound, ProfileRequest
<1>5. found => Loads(request.content)
  BY <1>3 DEF Resolves, Sound
<1>6. environment \in Contents /\ environment \in {None, request.content}
  BY <1>4 DEF Contents
<1>7. /\ environment # None => Loads(environment)
      /\ compiles => environment = request.content
  BY <1>1, <1>4, <1>5
<1>8. (uses /\ ~found) \in BOOLEAN
  OBVIOUS
<1> HIDE DEF environment
<1>9. answer \in [worker : Nat, revision : Nat, environment : Contents,
                  error : BOOLEAN, plan : SUBSET Contents]
  BY <1>3, <1>6, <1>8
<1>10. Answered(answer, page, operationCounter, currentRevision)
  BY <1>1, <1>3, <1>6, <1>7 DEF Answered, Serves, ProfileInv, Typed
<1>11. worker' \in Worker /\ Parsing(worker', page, operationCounter, currentRevision)
  <2>1. PICK loaded \in SUBSET Contents :
          /\ worker' = [worker EXCEPT !.loaded = loaded, !.revision = 0,
                                      !.request = NoProfileRequest]
          /\ \A c \in loaded : Loads(c)
    <3>1. CASE found
      <4> DEFINE loaded == worker.loaded \cup {environment}
      <4>1. loaded \in SUBSET Contents
        BY <1>3, <1>6 DEF Worker
      <4>2. \A c \in loaded : Loads(c)
        BY <1>3, <1>4, <1>5, <3>1 DEF environment
      <4>3. worker' = [worker EXCEPT !.loaded = loaded, !.revision = 0,
                                     !.request = NoProfileRequest]
        BY <1>1, <3>1
      <4> HIDE DEF loaded, found
      <4> QED
        BY <4>1, <4>2, <4>3
    <3>2. CASE ~found
      <4>1. worker' = [worker EXCEPT !.loaded = worker.loaded, !.revision = 0,
                                     !.request = NoProfileRequest]
        BY <1>1, <3>2
      <4>2. worker.loaded \in SUBSET Contents
        BY <1>3 DEF Worker
      <4> HIDE DEF found
      <4> QED
        BY <1>3, <4>1, <4>2
    <3> QED
      BY <3>1, <3>2
  <2> QED
    BY <1>3, <2>1, ProfileTypes DEF Worker, Parsing
<1> HIDE DEF answer
<1>12. responses' = responses \cup {answer}
  BY <1>1 DEF answer
<1> HIDE DEF uses, found, request
<1>13. InFlight(page, operationCounter, currentRevision)'
  BY <1>2, <1>10, <1>12 DEF ProfileInv, Carried, InFlight
<1>14. Typed'
  BY <1>2, <1>9, <1>11, <1>12 DEF ProfileInv, Typed
<1> QED
  BY <1>2, <1>11, <1>13, <1>14
     DEF ProfileInv, Carried, PurePage, Reading, Saving, Restoring, Stored,
         PreviewUsesSelectedProfile

(* A pump that leaves the revision, with a page that keeps its profile.     *)
LEMMA Pumped ==
    ASSUME Typed, Carried, NEW s \in Scheduler, NEW p \in Page, NEW w \in Worker,
           s.queuedRequest \in {sched.queuedRequest, NoRequest},
           w \in {worker, NoWorker},
           SameSelection(page, p), PurePage(p),
           UNCHANGED <<operationCounter, currentRevision, restoring, selection>>,
           Pump(s, p, queuedProfile, w),
           responses' \subseteq responses,
           reads' = reads, Reading(reads, p), Saving(saves', p),
           saves' \subseteq [revision : Nat, profile : Profile],
           Restoring(p), UNCHANGED store, Stored,
           shown' # {} =>
               shown' = {page.active.content} /\ page.ready /\ ~page.restoreError
    PROVE  ProfileInv'
<1>1. /\ Queued(s, queuedProfile, p, operationCounter, currentRevision)
      /\ Parsing(w, p, operationCounter, currentRevision)
  <2>1. Queued(s, queuedProfile, page, operationCounter, currentRevision)
    BY DEF Carried, Queued, HasQueued
  <2>2. Parsing(w, page, operationCounter, currentRevision)
    BY DEF Carried, Parsing, NoWorker
  <2> QED
    BY <2>1, <2>2, SelectionStays
<1>2. /\ sched' \in Scheduler /\ page' \in Page
      /\ queuedProfile' \in ProfileRequest /\ worker' \in Worker
      /\ SamePage(p, page')
      /\ Queued(sched', queuedProfile', page', operationCounter, currentRevision)
      /\ Parsing(worker', page', operationCounter, currentRevision)
  BY <1>1, PumpStep DEF Typed
<1>3. /\ SameSelection(p, page') /\ PurePage(page') /\ Reading(reads, page')
      /\ Saving(saves', page') /\ Restoring(page')
  BY <1>2, SamePageKeeps
<1>4. SameSelection(page, page')
  BY <1>3 DEF SameSelection
<1>5. InFlight(page', operationCounter, currentRevision)
  BY <1>4, SelectionStays DEF Carried
<1>6. Carried'
  BY <1>2, <1>5 DEF Carried, InFlight
<1>7. Typed'
  BY <1>2 DEF Typed
<1> QED
  BY <1>3, <1>4, <1>6, <1>7
     DEF ProfileInv, PurePage, Reading, Saving, Restoring, Stored,
         PreviewUsesSelectedProfile, SameSelection

(* The inductive step of a Worker that became ready.                        *)
LEMMA ReadyStep ==
    ASSUME ProfileInv, HandleReady PROVE ProfileInv'
<1>1. /\ Pump(MarkReady(sched), page, queuedProfile, worker)
      /\ UNCHANGED <<operationCounter, currentRevision, shown, responses, reads,
                     saves, store, selection, restoring>>
  BY DEF HandleReady, diskVars
<1>2. MarkReady(sched) \in Scheduler
  BY SchedulerOperatorTypes, RequestTypes DEF ProfileInv, Typed
<1>3. MarkReady(sched).queuedRequest = sched.queuedRequest
  BY DEF MarkReady, ProfileInv, Typed, Scheduler
<1>4. SameSelection(page, page)
  BY DEF SameSelection
<1> QED
  BY <1>1, <1>2, <1>3, <1>4, Pumped
     DEF ProfileInv, Typed, PreviewUsesSelectedProfile

(* The inductive step of an answer that belongs to no request.              *)
LEMMA IgnoreStep ==
    ASSUME ProfileInv, IgnoreResponse PROVE ProfileInv'
BY DEF IgnoreResponse, pumpVars, parsedFrame, ProfileInv, Typed, Carried, InFlight,
       PurePage, Reading, Saving, Restoring, Stored, PreviewUsesSelectedProfile

(* The scheduler after an answer: its slot is free, the rest as it was.     *)
LEMMA CompletedScheduler ==
    ASSUME NEW s \in Scheduler, NEW w \in Nat, NEW r \in Nat
    PROVE  /\ Complete(s, w, ParseMessage(r)) \in Scheduler
           /\ Complete(s, w, ParseMessage(r)).queuedRequest = s.queuedRequest
<1> DEFINE m == ParseMessage(r)
<1>1. m.kind = "parse" /\ m.token = NoToken
  BY DEF ParseMessage
<1>2. Released(s, m) = [s EXCEPT !.activeRequest = NoRequest, !.phase = "ready",
                                 !.completedParse = @ \/ m.kind = "parse",
                                 !.bindingCapture = @, !.queuedRequest = @]
  BY <1>1 DEF Released
<1>3. Released(s, m) \in Scheduler /\ Released(s, m).queuedRequest = s.queuedRequest
  BY <1>1, <1>2, RequestTypes DEF Scheduler, Phases
<1>4. Complete(s, w, m) = Released(s, m)
  BY <1>1 DEF Complete
<1> QED
  BY <1>3, <1>4

(* The profile before a choice is back, with nothing being read or written  *)
(* for the choice.                                                          *)
LEMMA RollingBack ==
    ASSUME ProfileInv, NEW p \in Page, SamePage(page, p), CanRollback(page)
    PROVE  /\ RolledBack(p) \in Page /\ PurePage(RolledBack(p))
           /\ Reading(reads, RolledBack(p)) /\ Saving(saves, RolledBack(p))
           /\ Restoring(RolledBack(p))
<1> DEFINE identity == IF p.before = NoProfile THEN None ELSE p.identityBefore
<1>1. /\ NoProfile \in Profile /\ None \in Contents /\ identity \in Contents
      /\ p.before \in Profile
  BY ProfileTypes DEF Page, Contents
<1>2. RolledBack(p) =
          [p EXCEPT !.pending = FALSE, !.active = p.before,
                    !.workerIdentity = identity, !.before = NoProfile,
                    !.identityBefore = None, !.ready = TRUE,
                    !.restoreError = FALSE]
  BY DEF RolledBack
<1> HIDE DEF identity
<1>3. /\ RolledBack(p) \in Page
      /\ RolledBack(p).active = page.before /\ RolledBack(p).before = NoProfile
      /\ RolledBack(p).selectionRevision = page.selectionRevision
  BY <1>1, <1>2 DEF Page, SamePage
<1>4. page.pending
  BY DEF CanRollback
<1>5. Reading(reads, RolledBack(p))
  BY <1>3, <1>4 DEF ProfileInv, Reading
<1>6. Saving(saves, RolledBack(p))
  BY <1>3, <1>4 DEF ProfileInv, Saving
<1>7. Restoring(RolledBack(p))
  BY <1>3, <1>4 DEF ProfileInv, Restoring
<1>8. PurePage(RolledBack(p))
  BY <1>3, ProfileTypes DEF ProfileInv, PurePage, Pure
<1> QED
  BY <1>3, <1>5, <1>6, <1>7, <1>8

(* An answer that names its content commits it; any other forgets or rolls  *)
(* back.                                                                    *)
LEMMA CommitTypes ==
    ASSUME ProfileInv, NEW c \in Contents, c = page.active.content, c # None
    PROVE  LET p == Committed(page, c)
               saved == [page.active EXCEPT !.identity = c]
           IN  /\ p \in Page /\ SameSelection(page, p) /\ PurePage(p)
               /\ p.active = saved /\ saved \in Profile
               /\ saved.content = c /\ saved.identity = c
               /\ p.ready = page.ready /\ ~p.pending
               /\ p.selectionRevision = page.selectionRevision
<1> DEFINE p == Committed(page, c)
           saved == [page.active EXCEPT !.identity = c]
<1>1. page.active \in Profile /\ NoProfile \in Profile /\ None \in Contents
  BY ProfileTypes DEF ProfileInv, Typed, Page, Contents
<1>2. saved \in Profile /\ saved.content = c /\ saved.identity = c
  BY <1>1 DEF Profile
<1>3. p = [page EXCEPT !.workerIdentity = c, !.active = saved, !.pending = FALSE,
                       !.before = NoProfile, !.identityBefore = None]
  BY DEF Committed, ProfileInv, Typed, Page
<1> HIDE DEF saved
<1>4. /\ p \in Page /\ p.active = saved /\ p.before = NoProfile
      /\ p.ready = page.ready /\ p.restoreError = page.restoreError /\ ~p.pending
      /\ p.selectionRevision = page.selectionRevision
  BY <1>1, <1>2, <1>3 DEF ProfileInv, Typed, Page
<1> HIDE DEF p
<1>5. SameSelection(page, p) /\ PurePage(p)
  BY <1>2, <1>4, ProfileTypes DEF SameSelection, PurePage, Pure
<1> QED
  BY <1>2, <1>4, <1>5 DEF p, saved

(* The inductive step of an answered parse: commit, or roll back.           *)
LEMMA ParsedStep ==
    ASSUME ProfileInv, HandleParsed PROVE ProfileInv'
<1> DEFINE m(r) == ParseMessage(r.revision)
           s(r) == Complete(sched, r.worker, m(r))
           forgot == [page EXCEPT !.workerIdentity = None]
           saved(r) == [page.active EXCEPT !.identity = r.environment]
           concerns(r) == Accepts(sched, m(r)) /\ Concerns(r)
           Continue(r, p, plan) ==
                /\ shown' = plan
                /\ Pump(s(r), p, queuedProfile, worker)
                /\ UNCHANGED <<operationCounter, currentRevision, renderTimer>>
           Retry(r, p) ==
                /\ sched' = s(r)
                /\ ScheduleRender(p)
                /\ UNCHANGED <<queuedProfile, worker>>
<1>1. PICK r \in responses :
            /\ responses' = responses \ {r}
            /\ saves' = IF concerns(r) /\ NeedsSave(r)
                        THEN saves \cup {[revision |-> page.selectionRevision,
                                          profile |-> saved(r)]}
                        ELSE saves
            /\ IF ~concerns(r)
               THEN Continue(r, page, shown)
               ELSE IF page.active = NoProfile
               THEN Continue(r, page, r.plan)
               ELSE IF r.environment # None
               THEN Continue(r, Committed(page, r.environment), r.plan)
               ELSE IF r.error /\ page.active.content = Builtin
               THEN Retry(r, [forgot EXCEPT !.active = NoProfile, !.pending = FALSE])
               ELSE IF r.error /\ CanRollback(page)
               THEN Retry(r, RolledBack(forgot))
               ELSE Continue(r, forgot, r.plan)
            /\ UNCHANGED parsedFrame
  BY DEF HandleParsed
<1>2. /\ responses' \subseteq responses
      /\ UNCHANGED <<reads, store, selection, restoring>>
  BY <1>1 DEF parsedFrame
<1>3. s(r) \in Scheduler /\ s(r).queuedRequest = sched.queuedRequest
  BY CompletedScheduler DEF ProfileInv, Typed
<1>4. forgot \in Page /\ SamePage(page, forgot)
  BY ForgettingIsSame DEF ProfileInv, Typed
<1>5. /\ SameSelection(page, forgot) /\ PurePage(forgot)
      /\ Reading(reads, forgot) /\ Saving(saves, forgot) /\ Restoring(forgot)
  BY <1>4, SamePageKeeps DEF ProfileInv
<1>6. /\ SameSelection(page, page) /\ page \in Page /\ worker \in Worker
      /\ saves \subseteq [revision : Nat, profile : Profile]
      /\ page.selectionRevision \in Nat
      /\ r.environment \in Contents
  BY DEF SameSelection, ProfileInv, Typed, Page
<1>7. Answered(r, page, operationCounter, currentRevision)
  BY DEF ProfileInv, Carried, InFlight
<1>8. ASSUME concerns(r)
      PROVE  /\ page.ready /\ ~page.restoreError
             /\ r.plan # {} => r.plan = {page.active.content}
             /\ r.environment # None =>
                    r.environment = page.active.content /\ Loads(r.environment)
  BY <1>7, <1>8 DEF Concerns, Answered
<1> HIDE DEF m, s, forgot, concerns
<1>9. CASE ~concerns(r)
  BY <1>1, <1>2, <1>3, <1>6, <1>9, Pumped DEF ProfileInv, PreviewUsesSelectedProfile
<1>10. CASE concerns(r) /\ page.active = NoProfile
  <2>1. saves' = saves
    BY <1>1, <1>10, ProfileTypes, ProfileAssumption DEF NeedsSave
  <2> QED
    BY <1>1, <1>2, <1>3, <1>6, <1>8, <1>10, <2>1, Pumped DEF ProfileInv
<1>11. CASE concerns(r) /\ page.active # NoProfile /\ r.environment # None
  <2> DEFINE p == Committed(page, r.environment)
             v == [revision |-> page.selectionRevision, profile |-> saved(r)]
  <2>1. /\ p \in Page /\ SameSelection(page, p) /\ PurePage(p)
        /\ p.active = saved(r) /\ saved(r) \in Profile
        /\ saved(r).content = r.environment /\ saved(r).identity = r.environment
        /\ p.ready /\ ~p.pending
        /\ p.selectionRevision = page.selectionRevision
    BY <1>6, <1>8, <1>11, CommitTypes
  <2>2. Continue(r, p, r.plan)
    BY <1>1, <1>11
  <2>3. /\ v \in [revision : Nat, profile : Profile]
        /\ v.revision = page.selectionRevision /\ v.profile = saved(r)
    BY <1>6, <2>1
  <2>4. \/ saves' = saves
        \/ saves' = saves \cup {v} /\ page.active.content \in Files
    BY <1>1 DEF NeedsSave
  <2> HIDE DEF p, v, saved
  <2>5. Saving(saves, p)
    <3>1. ASSUME NEW w \in saves, w.revision = p.selectionRevision
          PROVE  p.active = w.profile
      <4>1. /\ page.active = w.profile /\ w.profile.identity = w.profile.content
            /\ w.profile \in Profile
        BY <2>1, <3>1, <1>6 DEF ProfileInv, Saving
      <4>2. saved(r) = [page.active EXCEPT !.identity = page.active.identity]
        BY <1>8, <1>11, <4>1 DEF saved
      <4> QED
        BY <2>1, <4>1, <4>2 DEF Profile
    <3> QED
      BY <2>1, <3>1 DEF ProfileInv, Saving
  <2>6. Saving(saves', p)
    <3>1. CASE saves' = saves
      BY <2>5, <3>1
    <3>2. CASE saves' = saves \cup {v} /\ page.active.content \in Files
      BY <1>8, <1>11, <1>6, <2>1, <2>3, <2>5, <3>2 DEF Saving
    <3> QED
      BY <2>4, <3>1, <3>2
  <2>7. Reading(reads, p) /\ Restoring(p)
    BY <1>8, <1>11, <2>1 DEF ProfileInv, Reading, Restoring
  <2>8. saves' \subseteq [revision : Nat, profile : Profile]
    BY <1>6, <2>3, <2>4
  <2> QED
    BY <1>2, <1>3, <1>6, <1>8, <1>11, <2>1, <2>2, <2>6, <2>7, <2>8, Pumped
       DEF ProfileInv
<1>12. CASE concerns(r) /\ page.active # NoProfile /\ r.environment = None
  <2>1. saves' = saves
    BY <1>1, <1>12 DEF NeedsSave
  <2>2. CASE r.error /\ page.active.content = Builtin
    <3> DEFINE p == [forgot EXCEPT !.active = NoProfile, !.pending = FALSE]
    <3>1. /\ p \in Page /\ p.active = NoProfile /\ p.before = page.before
          /\ ~p.pending /\ p.ready = page.ready
          /\ p.selectionRevision = page.selectionRevision
      BY <1>4, ProfileTypes DEF Page, SamePage
    <3>2. Retry(r, p)
      BY <1>1, <1>12, <2>2
    <3> HIDE DEF p
    <3>3. PurePage(p)
      BY <3>1, ProfileTypes DEF ProfileInv, PurePage, Pure
    <3>4. Reading(reads, p) /\ Restoring(p)
      BY <3>1 DEF ProfileInv, Reading, Restoring
    <3>5. \A v \in saves : v.revision # page.selectionRevision
      BY <2>2, ProfileAssumption DEF ProfileInv, Saving
    <3>6. Saving(saves, p)
      BY <3>1, <3>5 DEF ProfileInv, Saving
    <3> QED
      BY <1>2, <1>3, <2>1, <3>1, <3>2, <3>3, <3>4, <3>6, Rescheduled
         DEF ProfileInv, Typed
  <2>3. CASE ~(r.error /\ page.active.content = Builtin) /\ r.error /\ CanRollback(page)
    <3>1. Retry(r, RolledBack(forgot))
      BY <1>1, <1>12, <2>3
    <3>2. /\ RolledBack(forgot) \in Page /\ PurePage(RolledBack(forgot))
          /\ Reading(reads, RolledBack(forgot)) /\ Saving(saves, RolledBack(forgot))
          /\ Restoring(RolledBack(forgot))
      BY <1>4, <2>3, RollingBack
    <3> QED
      BY <1>2, <1>3, <2>1, <3>1, <3>2, Rescheduled DEF ProfileInv, Typed
  <2>4. CASE /\ ~(r.error /\ page.active.content = Builtin)
             /\ ~(r.error /\ CanRollback(page))
    BY <1>1, <1>2, <1>3, <1>4, <1>5, <1>6, <1>8, <1>12, <2>1, <2>4, Pumped
       DEF ProfileInv
  <2> QED
    BY <2>2, <2>3, <2>4
<1> QED
  BY <1>9, <1>10, <1>11, <1>12

(* Losing the Worker forgets what it had, or rolls a pending choice back.   *)
LEMMA LossStep ==
    ASSUME ProfileInv, NEW clears \in BOOLEAN, LoseWorker(clears)
    PROVE  ProfileInv'
<1> DEFINE forgot == [page EXCEPT !.workerIdentity = None]
<1>1. /\ UNCHANGED <<responses, saves, reads, store, selection, restoring>>
      /\ IF CanRollback(page)
         THEN /\ sched' = Fail(sched)
              /\ worker' = NoWorker
              /\ ScheduleRender(RolledBack(forgot))
              /\ UNCHANGED queuedProfile
         ELSE /\ shown' = IF clears THEN {} ELSE shown
              /\ Pump(Fail(sched), forgot, queuedProfile, NoWorker)
              /\ UNCHANGED <<operationCounter, currentRevision, renderTimer>>
  BY DEF LoseWorker, parsedFrame
<1>2. forgot \in Page /\ SamePage(page, forgot)
  BY ForgettingIsSame DEF ProfileInv, Typed
<1>3. /\ SameSelection(page, forgot) /\ PurePage(forgot)
      /\ Reading(reads, forgot) /\ Saving(saves, forgot) /\ Restoring(forgot)
  BY <1>2, SamePageKeeps DEF ProfileInv
<1>4. /\ Fail(sched) \in Scheduler
      /\ Fail(sched).queuedRequest \in {sched.queuedRequest, NoRequest}
  <2>1. Fail(sched) \in Scheduler
    BY SchedulerOperatorTypes, RequestTypes DEF ProfileInv, Typed
  <2>2. Fail(sched).queuedRequest = SurvivingQueue(sched)
    BY DEF Fail, ProfileInv, Typed, Scheduler
  <2> QED
    BY <2>1, <2>2 DEF SurvivingQueue
<1> HIDE DEF forgot
<1>5. CASE CanRollback(page)
  <2>1. ScheduleRender(RolledBack(forgot))
    BY <1>1, <1>5
  <2>2. /\ RolledBack(forgot) \in Page /\ PurePage(RolledBack(forgot))
        /\ Reading(reads, RolledBack(forgot)) /\ Saving(saves, RolledBack(forgot))
        /\ Restoring(RolledBack(forgot))
    BY <1>2, <1>5, RollingBack
  <2> QED
    BY <1>1, <1>4, <1>5, <2>1, <2>2, Rescheduled DEF ProfileInv, Typed
<1>6. CASE ~CanRollback(page)
  <2>1. saves' \subseteq [revision : Nat, profile : Profile]
    BY <1>1 DEF ProfileInv, Typed
  <2>2. shown' # {} =>
            shown' = {page.active.content} /\ page.ready /\ ~page.restoreError
    BY <1>1, <1>6 DEF ProfileInv, PreviewUsesSelectedProfile
  <2> QED
    BY <1>1, <1>2, <1>3, <1>4, <1>6, <2>1, <2>2, ProfileTypes, Pumped DEF ProfileInv
<1> QED
  BY <1>5, <1>6

-----------------------------------------------------------------------------
(* The theorems.                                                            *)

(* The invariant holds initially.                                           *)
LEMMA ProfileInit == Init => ProfileInv
<1> SUFFICES ASSUME Init PROVE ProfileInv
  OBVIOUS
<1>1. selection \in Files \cup {Builtin, None}
  BY ProfileAssumption DEF Init
<1>2. \A p \in store : p \in Profile /\ Pure(p) /\ Loads(p.content)
  <2>1. \A p \in store : \E c \in LoadableFiles : p = [content |-> c, identity |-> c]
    BY DEF Init
  <2> QED
    BY <2>1, ProfileAssumption DEF Profile, Contents, Pure, Loads
<1>3. Typed
  BY <1>1, <1>2, ProfileTypes, RequestTypes DEF Init, Typed
<1>4. Carried
  BY DEF Init, Carried, Queued, HasQueued, NewScheduler, Parsing, NoWorker, InFlight
<1>5. PurePage(page) /\ Stored /\ Restoring(page)
  BY <1>2, ProfileTypes DEF Init, Stored, Restoring, NewPage
<1> QED
  BY <1>3, <1>4, <1>5
     DEF Init, ProfileInv, Reading, Saving, PreviewUsesSelectedProfile

(* Every step preserves the invariant.                                      *)
LEMMA ProfileNext ==
    ASSUME ProfileInv, [Next]_vars PROVE ProfileInv'
<1>1. CASE User
  BY <1>1, EditStep, ChooseStep, MalformedStep, DisableStep, ReloadStep DEF User
<1>2. CASE Storage
  BY <1>2, ReadFinishesStep, ReadFailsStep, SaveFinishesStep, RestoreStep DEF Storage
<1>3. CASE Messages
  BY <1>3, ReadyStep, IgnoreStep, ParsedStep DEF Messages
<1>4. CASE Losses
  <2>1. (sched.activeRequest.revision = currentRevision) \in BOOLEAN
    OBVIOUS
  <2>2. (\/ sched.phase = "booting"
         \/ sched.activeRequest.revision = currentRevision) \in BOOLEAN
    OBVIOUS
  <2>3. \E clears \in BOOLEAN : LoseWorker(clears)
    BY <1>4, <2>1, <2>2
       DEF Losses, HandleBootstrapTimeout, HandleWorkerError, RequestTimeout
  <2> QED
    BY <2>3, LossStep
<1>5. CASE UNCHANGED vars
  BY <1>5
     DEF vars, ProfileInv, Typed, Carried, InFlight, PurePage, Reading, Saving,
         Restoring, Stored, PreviewUsesSelectedProfile
<1> QED
  BY <1>1, <1>2, <1>3, <1>4, <1>5, RenderTimerStep, WorkerStep DEF Next

(* Whatever is chosen, rolled back, restored or lost, and in whatever order *)
(* Worker, files and storage answer: the inductive invariant.               *)
THEOREM ProfileInvariant == Spec => []ProfileInv
<1> QED
  BY ProfileInit, ProfileNext, PTL DEF Spec

(* The preview was compiled with the profile the page says is selected      *)
(* (main.ts, handleWorkerMessage and rollbackPendingPrototypeProfile).      *)
THEOREM PreviewAlwaysUsesSelectedProfile == Spec => []PreviewUsesSelectedProfile
<1>1. ProfileInv => PreviewUsesSelectedProfile
  BY DEF ProfileInv
<1> QED
  BY <1>1, ProfileInvariant, PTL

(* A profile is identified by its own digest, on the page, while it is      *)
(* written, and in the store (main.ts, handleWorkerMessage).                *)
THEOREM IdentityIsAlwaysOfContent == Spec => []IdentityIsOfContent
<1>1. ProfileInv => IdentityIsOfContent
  BY DEF ProfileInv, PurePage, Pure, Saving, Stored, IdentityIsOfContent
<1> QED
  BY <1>1, ProfileInvariant, PTL

(* What a later visit restores was accepted by a Worker                     *)
(* (main.ts, handleWorkerMessage and restorePrototypeProfile;               *)
(* prototype-profile-store.ts).                                             *)
THEOREM StoredProfilesAlwaysLoad == Spec => []StoredProfilesLoad
<1>1. ProfileInv => StoredProfilesLoad
  BY DEF ProfileInv, Stored, StoredProfilesLoad
<1> QED
  BY <1>1, ProfileInvariant, PTL

(* A write that ends late selects its profile only if the page still uses   *)
(* it (main.ts, the write after the commit in handleWorkerMessage).          *)
THEOREM SavedChoiceIsAlwaysInUse == Spec => SavedChoiceIsInUse
<1>1. ProfileInv /\ [Next]_vars =>
          [selection' # selection => selection' = page'.active.identity]_vars
  <2> SUFFICES ASSUME ProfileInv, Next, selection' # selection
               PROVE  selection' = page'.active.identity
    OBVIOUS
  <2>1. SaveFinishes \/ DisableProfile
    BY DEF Next, User, Storage, Messages, Losses, EditSource, ChooseFile,
           ChooseMalformedFiles, Reload, ReadFinishes, ReadFails, RestoreFinishes,
           RenderTimerFires, WorkerParses, HandleReady, IgnoreResponse, HandleParsed,
           HandleBootstrapTimeout, HandleWorkerError, RequestTimeout, LoseWorker,
           parsedFrame, diskVars
  <2>2. CASE DisableProfile
    <3>1. /\ NewPage \in Page /\ NewPage.active.identity = None
          /\ page.selectionRevision + 1 \in Nat
      BY ProfileTypes DEF ProfileInv, Typed, Page, NewPage
    <3>2. page'.active = NewPage.active /\ selection' = None
      BY <2>2, <3>1 DEF DisableProfile, ScheduleRender, Page
    <3> QED
      BY <3>1, <3>2
  <2> QED
    BY <2>1, <2>2, SaveFinishesStep
<1> QED
  BY <1>1, ProfileInvariant, PTL DEF Spec, SavedChoiceIsInUse
=============================================================================
