--------------------------- MODULE PrototypeProfile ---------------------------
(***************************************************************************)
(* The prototype profile of the browser workbench: choosing, validating,   *)
(* rolling back, disabling, saving and restoring it (apps/web/src/main.ts, *)
(* prototype-profile-*.ts), and the profiles a compiler Worker has loaded  *)
(* (#resolveEnvironment of compiler-worker-request.ts).  The scheduler is  *)
(* CompilerScheduler; parses are the only requests here.                   *)
(***************************************************************************)
EXTENDS CompilerScheduler

CONSTANTS
    Files,          \* profiles the user may choose, named by their content
    LoadableFiles,  \* those the Worker accepts
    Builtin,        \* the bundled profile
    BuiltinLoads,   \* whether the Worker accepts it
    None,           \* no profile; as a saved selection: disabled
    Selections,     \* what an earlier visit may have saved
    Inputs,         \* what the user does
    Faults,         \* what goes wrong
    MaxRevision,    \* bound: no edit, choice, disabling or reload past it
    MaxWorkers,     \* bound: no fault in the last Worker generation
    MaxSelections   \* bound: choices and disablings of one visit

ProfileInputs == {"edit", "choose", "malformed", "disable", "reload"}
ProfileFaults == {"crash", "boot", "timeout", "read", "save", "fetch", "missing"}

ASSUME ProfileAssumption ==
    /\ LoadableFiles \subseteq Files
    /\ Builtin \notin Files /\ None \notin Files /\ Builtin # None
    /\ BuiltinLoads \in BOOLEAN
    /\ Selections \subseteq Files \cup {Builtin, None}
    /\ Inputs \subseteq ProfileInputs
    /\ Faults \subseteq ProfileFaults
    /\ MaxRevision \in Nat /\ MaxWorkers \in Nat /\ MaxSelections \in Nat

VARIABLES
    sched, operationCounter, currentRevision, renderTimer,
    queuedProfile,   \* the profile carried by the queued parse
    page,            \* the page's profile variables
    shown,           \* the profile of the plan in the preview, {} without plan
    worker,          \* the current compiler Worker
    responses,       \* its parse responses, not yet delivered
    reads,           \* file choices being read
    saves,           \* profiles being written to IndexedDB
    store,           \* profiles in IndexedDB
    selection,       \* PROFILE_SELECTION_KEY of the tab; Builtin when unset
    restoring        \* restorePrototypeProfile has not finished

pumpVars == <<sched, queuedProfile, page, worker>>
diskVars == <<saves, store, selection>>
vars == <<sched, operationCounter, currentRevision, renderTimer, queuedProfile,
          page, shown, worker, responses, reads, saves, store, selection,
          restoring>>

-----------------------------------------------------------------------------
(* The records the page and the Worker keep, and what they start as.       *)
Contents == Files \cup {Builtin, None}

(* identity = None: not validated yet.                                      *)
Profile == [content : Contents, identity : Contents]
NoProfile == [content |-> None, identity |-> None]

Page == [active : Profile, workerIdentity : Contents,
         before : Profile, identityBefore : Contents,
         pending : BOOLEAN, ready : BOOLEAN, restoreError : BOOLEAN,
         selectionRevision : Nat]
NewPage == [active |-> NoProfile, workerIdentity |-> None,
            before |-> NoProfile, identityBefore |-> None,
            pending |-> FALSE, ready |-> FALSE, restoreError |-> FALSE,
            selectionRevision |-> 0]

(* A request carries the profile, or a reference to what the Worker has.    *)
ProfileRequest == [content : Contents, identity : Contents, reference : BOOLEAN]
NoProfileRequest == [content |-> None, identity |-> None, reference |-> FALSE]

(* revision # 0: the parse the Worker was given and has not answered.       *)
Worker == [id : Nat, loaded : SUBSET Contents, revision : Nat,
           request : ProfileRequest]
NoWorker == [id |-> 0, loaded |-> {}, revision |-> 0,
             request |-> NoProfileRequest]

ParseMessage(r) == [kind |-> "parse", revision |-> r, token |-> NoToken]

Init ==
    /\ sched = NewScheduler
    /\ operationCounter = 0 /\ currentRevision = 0 /\ renderTimer = FALSE
    /\ queuedProfile = NoProfileRequest
    /\ page = NewPage
    /\ shown = {}
    /\ worker = NoWorker
    /\ responses = {}
    /\ reads = {} /\ saves = {}
    /\ selection \in Selections
    /\ \E missing \in {{}} \cup (IF "missing" \in Faults THEN {{selection}} ELSE {}) :
          store = {[content |-> c, identity |-> c] :
                      c \in ({selection} \cap LoadableFiles) \ missing}
    /\ restoring = TRUE

-----------------------------------------------------------------------------
(* selectedPrototypeProfileRequest                                          *)
RequestFor(p) ==
    [content |-> p.active.content, identity |-> p.active.identity,
     reference |-> p.workerIdentity # None
                   /\ p.workerIdentity = p.active.identity]

(* Mutant of Resent: a reference is sent as it was queued.                  *)
ResentAsQueued(p, request) == request

(* The pump replaces a reference to what the Worker lost by the profile, if *)
(* that is still the active one.                                            *)
Resent(p, request) ==
    IF /\ request.reference
       /\ request.identity # p.workerIdentity
       /\ request.identity = p.active.identity
    THEN [request EXCEPT !.content = p.active.content, !.reference = FALSE]
    ELSE request

(* pumpCompilerWorker and ensureCompilerWorker, from the values the handler *)
(* has computed.                                                            *)
Pump(s, p, q, w) ==
    /\ queuedProfile' = q
    /\ IF HasQueued(s) /\ s.phase # "busy" /\ w.id = 0
       THEN /\ sched' = CreateWorker(s)
            /\ page' = [p EXCEPT !.workerIdentity = None]
            /\ worker' = [NoWorker EXCEPT !.id = s.nextWorkerId + 1]
       ELSE IF CanTake(s)
       THEN /\ sched' = TakeForDispatch(s)
            /\ page' = p
            /\ worker' = [w EXCEPT !.revision = s.queuedRequest.revision,
                                   !.request = Resent(p, q)]
       ELSE sched' = s /\ page' = p /\ worker' = w

Render(p) ==
    /\ shown' = {}
    /\ IF p.restoreError
       THEN /\ page' = p
            /\ UNCHANGED <<operationCounter, currentRevision, sched,
                           queuedProfile, worker>>
       ELSE /\ operationCounter' = operationCounter + 1
            /\ currentRevision' = operationCounter + 1
            /\ Pump(Enqueue(sched, ParseRequest(operationCounter + 1)), p,
                    RequestFor(p), worker)

(* The new revision makes every answer under way one of the past.           *)
ScheduleRender(p) ==
    /\ page' = p
    /\ operationCounter' = operationCounter + 1
    /\ currentRevision' = operationCounter + 1
    /\ renderTimer' = TRUE
    /\ shown' = {}

RenderTimerFires ==
    /\ renderTimer
    /\ renderTimer' = FALSE
    /\ IF page.ready THEN Render(page)
       ELSE UNCHANGED <<pumpVars, operationCounter, currentRevision, shown>>
    /\ UNCHANGED <<responses, reads, diskVars, restoring>>

-----------------------------------------------------------------------------
(* The user *)

MayAct(input) == input \in Inputs /\ operationCounter < MaxRevision
MayChoose(input) == MayAct(input) /\ page.selectionRevision < MaxSelections

userFrame == <<sched, queuedProfile, worker, responses, restoring>>

EditSource ==
    /\ MayAct("edit")
    /\ ScheduleRender(page)
    /\ UNCHANGED <<userFrame, reads, diskVars>>

(* The change event of the file input; reading the file is asynchronous.    *)
ChooseFile ==
    \E f \in Files :
        LET p == [page EXCEPT
                    !.selectionRevision = @ + 1, !.before = page.active,
                    !.identityBefore = page.workerIdentity, !.pending = FALSE,
                    !.workerIdentity = None, !.ready = FALSE]
        IN  /\ MayChoose("choose")
            /\ reads' = reads \cup {[revision |-> p.selectionRevision, file |-> f]}
            /\ ScheduleRender(p)
            /\ UNCHANGED <<userFrame, diskVars>>

(* A choice of files that are no pair: the previous profile is back at once.*)
ChooseMalformedFiles ==
    /\ MayChoose("malformed")
    /\ ScheduleRender([page EXCEPT
          !.selectionRevision = @ + 1, !.before = NoProfile,
          !.identityBefore = None, !.pending = FALSE, !.ready = TRUE,
          !.restoreError = IF page.active = NoProfile THEN TRUE ELSE @])
    /\ UNCHANGED <<userFrame, reads, diskVars>>

DisableProfile ==
    /\ MayChoose("disable")
    /\ selection' = None
    /\ ScheduleRender([NewPage EXCEPT !.ready = TRUE,
          !.selectionRevision = page.selectionRevision + 1])
    /\ UNCHANGED <<userFrame, reads, saves, store>>

(* Leaving and visiting the page again: only the storage survives, with any *)
(* of the writes under way.                                                 *)
Reload ==
    /\ MayAct("reload")
    /\ sched' = NewScheduler
    /\ operationCounter' = operationCounter + 1
    /\ currentRevision' = 0 /\ renderTimer' = FALSE
    /\ queuedProfile' = NoProfileRequest /\ page' = NewPage /\ shown' = {}
    /\ worker' = NoWorker /\ responses' = {} /\ reads' = {} /\ saves' = {}
    /\ \E written \in SUBSET saves : store' = store \cup {v.profile : v \in written}
    /\ UNCHANGED selection
    /\ restoring' = TRUE

-----------------------------------------------------------------------------
(* Files, storage and the bundled asset answer                              *)

ReadFinishes ==
    \E r \in reads :
        /\ reads' = reads \ {r}
        /\ IF r.revision = page.selectionRevision
           THEN ScheduleRender([page EXCEPT
                    !.ready = TRUE, !.restoreError = FALSE, !.pending = TRUE,
                    !.active = [content |-> r.file, identity |-> None],
                    !.workerIdentity = None])
           ELSE UNCHANGED <<page, operationCounter, currentRevision, renderTimer,
                            shown>>
        /\ UNCHANGED <<userFrame, diskVars>>

ReadFails ==
    \E r \in reads :
        /\ "read" \in Faults
        /\ r.revision = page.selectionRevision
        /\ reads' = reads \ {r}
        /\ ScheduleRender([page EXCEPT
              !.ready = TRUE, !.pending = FALSE, !.active = page.before,
              !.workerIdentity = page.identityBefore, !.before = NoProfile,
              !.identityBefore = None,
              !.restoreError = (page.before = NoProfile)])
        /\ UNCHANGED <<userFrame, diskVars>>

(* Mutant of SaveFinishes: a late save selects its profile all the same.    *)
SaveAlwaysSelects ==
    \E v \in saves :
        /\ saves' = saves \ {v}
        /\ store' = store \cup {v.profile}
        /\ selection' = v.profile.identity
        /\ UNCHANGED <<userFrame, page, operationCounter, currentRevision,
                       renderTimer, shown, reads>>

(* The selection follows only if the user has not chosen again meanwhile.   *)
SaveFinishes ==
    \E v \in saves :
        /\ saves' = saves \ {v}
        /\ \/ /\ store' = store \cup {v.profile}
              /\ selection' = IF v.revision = page.selectionRevision
                              THEN v.profile.identity ELSE selection
           \/ "save" \in Faults /\ UNCHANGED <<store, selection>>
        /\ UNCHANGED <<userFrame, page, operationCounter, currentRevision,
                       renderTimer, shown, reads>>

(* restorePrototypeProfile, from its last await to its end.                 *)
RestoreFinishes ==
    LET stored == {s \in store : s.identity = selection}
        Restored(profile, failed) ==
            Render([page EXCEPT !.active = profile, !.ready = TRUE,
                                !.restoreError = failed])
    IN  /\ restoring
        /\ restoring' = FALSE
        /\ IF page.selectionRevision # 0
           THEN UNCHANGED <<pumpVars, operationCounter, currentRevision, shown>>
           ELSE \/ /\ selection = Builtin
                   /\ Restored([content |-> Builtin, identity |-> None], FALSE)
                \/ /\ selection = Builtin /\ "fetch" \in Faults
                   /\ Restored(NoProfile, FALSE)
                \/ /\ selection = None
                   /\ Restored(NoProfile, FALSE)
                \/ /\ selection \in Files
                   /\ \E s \in stored : Restored(s, FALSE)
                \/ /\ selection \in Files /\ stored = {}
                   /\ Restored(NoProfile, TRUE)
        /\ UNCHANGED <<renderTimer, responses, reads, diskVars>>

-----------------------------------------------------------------------------
(* The compiler Worker *)

Loads(c) == c \in LoadableFiles \/ (c = Builtin /\ BuiltinLoads)

(* #resolveEnvironment: WP1002 for a reference it does not hold, WP1001 for *)
(* a profile that is not the one pinned.                                    *)
Resolves(w, request) ==
    IF request.reference THEN request.identity \in w.loaded
    ELSE /\ Loads(request.content)
         /\ request.identity \in {None, request.content}

Environment(request) ==
    IF request.reference THEN request.identity ELSE request.content

WorkerParses ==
    \E compiles \in BOOLEAN :
        LET request == worker.request
            uses == request.content # None
            found == uses /\ Resolves(worker, request)
            environment == IF found THEN Environment(request) ELSE None
        IN  /\ worker.revision # 0
            /\ compiles => found \/ ~uses
            /\ worker' = [worker EXCEPT
                            !.loaded = IF found THEN @ \cup {environment} ELSE @,
                            !.revision = 0, !.request = NoProfileRequest]
            /\ responses' = responses \cup
                  {[worker |-> worker.id, revision |-> worker.revision,
                    environment |-> environment, error |-> uses /\ ~found,
                    plan |-> IF compiles THEN {environment} ELSE {}]}
            /\ UNCHANGED <<sched, operationCounter, currentRevision, renderTimer,
                           queuedProfile, page, shown, reads, diskVars,
                           restoring>>

HandleReady ==
    /\ worker.id # 0
    /\ CanMarkReady(sched, worker.id)
    /\ Pump(MarkReady(sched), page, queuedProfile, worker)
    /\ UNCHANGED <<operationCounter, currentRevision, renderTimer, shown,
                   responses, reads, diskVars, restoring>>

-----------------------------------------------------------------------------
(* rollbackPendingPrototypeProfile *)
(* Mutant of CanRollback: a rejected choice stays.                          *)
NeverRollsBack(p) == FALSE

CanRollback(p) == p.pending /\ p.active # NoProfile

RolledBack(p) ==
    [p EXCEPT !.pending = FALSE, !.active = p.before,
              !.workerIdentity = IF p.before = NoProfile THEN None
                                 ELSE p.identityBefore,
              !.before = NoProfile, !.identityBefore = None,
              !.ready = TRUE, !.restoreError = FALSE]

(* The Worker has loaded the active profile: it is committed.               *)
Committed(p, identity) ==
    [p EXCEPT !.workerIdentity = identity, !.active.identity = identity,
              !.pending = FALSE, !.before = NoProfile, !.identityBefore = None]

(* Mutant of Concerns: whatever is answered is about the current text.      *)
ConcernsAnything(r) == TRUE

Concerns(r) == r.revision = currentRevision

(* Mutant of NeedsSave: a profile is saved whatever the Worker answered.    *)
NeedsSaveAnyway(r) ==
    page.active.content \in Files /\ page.active.identity = None

(* A custom profile is saved when the Worker first names its identity.      *)
NeedsSave(r) ==
    /\ r.environment # None
    /\ page.active.content \in Files /\ page.active.identity = None

parsedFrame == <<reads, store, selection, restoring>>

IgnoreResponse ==
    \E r \in responses :
        /\ ~(r.worker = worker.id
             /\ Matches(sched, r.worker, ParseMessage(r.revision)))
        /\ responses' = responses \ {r}
        /\ UNCHANGED <<pumpVars, operationCounter, currentRevision, renderTimer,
                       shown, saves, parsedFrame>>

HandleParsed ==
    \E r \in responses :
        LET m == ParseMessage(r.revision)
            s == Complete(sched, r.worker, m)
            forgot == [page EXCEPT !.workerIdentity = None]
            saved == [page.active EXCEPT !.identity = r.environment]
            Continue(p, plan) ==
                /\ shown' = plan
                /\ Pump(s, p, queuedProfile, worker)
                /\ UNCHANGED <<operationCounter, currentRevision, renderTimer>>
            Retry(p) ==
                /\ sched' = s
                /\ ScheduleRender(p)
                /\ UNCHANGED <<queuedProfile, worker>>
        IN  /\ r.worker = worker.id
            /\ Matches(sched, r.worker, m)
            /\ responses' = responses \ {r}
            /\ saves' = IF Accepts(sched, m) /\ Concerns(r) /\ NeedsSave(r)
                        THEN saves \cup {[revision |-> page.selectionRevision,
                                          profile |-> saved]}
                        ELSE saves
            /\ IF ~(Accepts(sched, m) /\ Concerns(r))
               THEN Continue(page, shown)
               ELSE IF page.active = NoProfile
               THEN Continue(page, r.plan)
               ELSE IF r.environment # None
               THEN Continue(Committed(page, r.environment), r.plan)
               ELSE IF r.error /\ page.active.content = Builtin
               THEN Retry([forgot EXCEPT !.active = NoProfile, !.pending = FALSE])
               ELSE IF r.error /\ CanRollback(page)
               THEN Retry(RolledBack(forgot))
               ELSE Continue(forgot, r.plan)
            /\ UNCHANGED parsedFrame

-----------------------------------------------------------------------------
(* Losing the Worker rolls a pending choice back.                           *)

MayLoseWorker(fault) ==
    /\ fault \in Faults
    /\ worker.id # 0
    /\ sched.nextWorkerId < MaxWorkers

LoseWorker(clears) ==
    LET forgot == [page EXCEPT !.workerIdentity = None]
    IN  /\ IF CanRollback(page)
           THEN /\ sched' = Fail(sched)
                /\ worker' = NoWorker
                /\ ScheduleRender(RolledBack(forgot))
                /\ UNCHANGED queuedProfile
           ELSE /\ shown' = IF clears THEN {} ELSE shown
                /\ Pump(Fail(sched), forgot, queuedProfile, NoWorker)
                /\ UNCHANGED <<operationCounter, currentRevision, renderTimer>>
        /\ UNCHANGED <<responses, saves, parsedFrame>>

HandleBootstrapTimeout ==
    /\ MayLoseWorker("boot")
    /\ sched.phase = "booting"
    /\ LoseWorker(TRUE)

HandleWorkerError ==
    /\ MayLoseWorker("crash")
    /\ LoseWorker(\/ sched.phase = "booting"
                  \/ sched.activeRequest.revision = currentRevision)

RequestTimeout ==
    /\ MayLoseWorker("timeout")
    /\ sched.phase = "busy"
    /\ LoseWorker(sched.activeRequest.revision = currentRevision)

-----------------------------------------------------------------------------
User == \/ EditSource \/ ChooseFile \/ ChooseMalformedFiles \/ DisableProfile
        \/ Reload
Storage == ReadFinishes \/ ReadFails \/ SaveFinishes \/ RestoreFinishes
Messages == HandleReady \/ IgnoreResponse \/ HandleParsed
Losses == HandleBootstrapTimeout \/ HandleWorkerError \/ RequestTimeout

Next == User \/ RenderTimerFires \/ Storage \/ WorkerParses \/ Messages \/ Losses

Spec == Init /\ [][Next]_vars
=============================================================================
