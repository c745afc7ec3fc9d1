-------------------------- MODULE OfflineShellProofs --------------------------
(***************************************************************************)
(* The cache of the worker that serves pages is complete, for any number   *)
(* of builds, pages and deployments.  The invariant says so of the workers *)
(* that may come to serve them too: the waiting one, and the installing    *)
(* one from the moment it has stored what it fetched.  And no page loses a *)
(* file it could load, since a served page keeps its worker.               *)
(*                                                                         *)
(* Last, a page of the serving build loads all it asks for: what a page    *)
(* has loaded is in the manifest of its build, and the manifest is closed, *)
(* as following the names once more than there are chunks adds nothing.    *)
(***************************************************************************)
EXTENDS OfflineShellProperties, FiniteSetTheorems, WellFoundedInduction, TLAPS

MaybeBuild == Builds \cup {NoBuild}

Complete(build) ==
    /\ caches[build].shell # NoBuild
    /\ Manifest(build) \subseteq caches[build].files

Holds(build) == build # NoBuild /\ build \notin deleted => Complete(build)

Shaped ==
    /\ server \in Builds
    /\ caches = [b \in Builds |-> caches[b]]
    /\ registration \in [installing : MaybeBuild, waiting : MaybeBuild,
                         active : MaybeBuild, activated : BOOLEAN]
    /\ install = [files |-> install.files, shell |-> install.shell,
                  phase |-> install.phase]

(* What an installation has fetched is what it will need.                   *)
Installing ==
    /\ install.phase \in {"begun", "files", "shell", "opened", "stored"}
    /\ install.phase # "begun" =>
          /\ registration.installing # NoBuild
          /\ Manifest(registration.installing) \subseteq install.files
    /\ install.phase \in {"shell", "opened", "stored"} => install.shell # NoBuild
    /\ install.phase = "opened" =>
          Present(registration.installing) \/ registration.installing \in deleted
    /\ install.phase = "stored" => Holds(registration.installing)

Inv ==
    /\ Shaped
    /\ Installing
    /\ Holds(registration.waiting)
    /\ Holds(registration.active)

-----------------------------------------------------------------------------
(* What a worker puts into a cache only adds to it.                         *)
LEMMA PutShapes ==
    ASSUME Shaped, NEW build, NEW files, NEW shell,
           caches' = PutInto(build, files, shell)
    PROVE  caches' = [b \in Builds |-> caches'[b]]
BY DEF PutInto, Shaped

LEMMA PutOne ==
    ASSUME Shaped, NEW build, NEW files, NEW shell,
           caches' = PutInto(build, files, shell)
    PROVE  \A b \in Builds : \/ caches'[b] = caches[b]
                             \/ caches'[b] = With(caches[b], files, shell)
BY DEF PutInto, Shaped

LEMMA PutKeeps ==
    ASSUME Shaped, NEW build, NEW files, NEW shell,
           caches' = PutInto(build, files, shell)
    PROVE  \A b \in Builds : /\ Present(b) => Present(b)'
                             /\ caches[b].files \subseteq caches'[b].files
                             /\ Complete(b) => Complete(b)'
<1> TAKE b \in Builds
<1>1. CASE caches'[b] = caches[b]
  BY <1>1 DEF Present, Complete
<1>2. CASE caches'[b] = With(caches[b], files, shell)
  <2>1. /\ caches'[b].present = TRUE
        /\ caches'[b].shell = IF shell = NoBuild THEN caches[b].shell ELSE shell
        /\ caches'[b].files = caches[b].files \cup files
    BY <1>2 DEF With
  <2> QED
    BY <2>1 DEF Present, Complete
<1> QED
  BY <1>1, <1>2, PutOne

(* A step that leaves the workers alone and whose caches lose nothing.      *)
LEMMA QuietStep ==
    ASSUME Inv, UNCHANGED <<registration, install, deleted>>, server' \in Builds,
           caches' = [b \in Builds |-> caches'[b]],
           \A b \in Builds : /\ Present(b) => Present(b)'
                             /\ Complete(b) => Complete(b)'
    PROVE  Inv'
<1>1. ASSUME NEW b \in MaybeBuild, Holds(b)
      PROVE  Holds(b)'
  BY <1>1 DEF Holds, MaybeBuild
<1>2. /\ registration.installing \in MaybeBuild /\ registration.waiting \in MaybeBuild
      /\ registration.active \in MaybeBuild
  BY DEF Inv, Shaped
<1>3. Holds(registration.waiting)' /\ Holds(registration.active)'
  BY <1>1, <1>2 DEF Inv, Holds
<1>4. Shaped'
  BY DEF Inv, Shaped
<1>5. install.phase = "stored" => Holds(registration.installing)'
  BY <1>1, <1>2 DEF Inv, Installing, Holds
<1>6. install.phase = "opened" => Present(registration.installing)' \/ registration.installing \in deleted
  BY <1>2 DEF Inv, Installing, Present, MaybeBuild
<1>7. Installing'
  BY <1>5, <1>6 DEF Inv, Installing
<1> QED
  BY <1>3, <1>4, <1>7 DEF Inv

(* A step of nothing.                                                      *)
LEMMA StutterStep ==
    ASSUME Inv, UNCHANGED <<registration, install, deleted, caches>>, server' \in Builds
    PROVE  Inv'
<1>1. caches' = [b \in Builds |-> caches'[b]]
  BY DEF Inv, Shaped
<1>2. \A b \in Builds : /\ Present(b) => Present(b)'
                        /\ Complete(b) => Complete(b)'
  BY DEF Complete, Present
<1> QED
  BY <1>1, <1>2, QuietStep

(* Something is put into the cache of the worker in charge.                *)
LEMMA PutStep ==
    ASSUME Inv, UNCHANGED <<registration, install, deleted, server>>,
           NEW files, NEW shell, caches' = Put(files, shell)
    PROVE  Inv'
<1>1. server' \in Builds /\ Shaped
  BY DEF Inv, Shaped
<1> QED
  BY <1>1, PutShapes, PutKeeps, QuietStep DEF Put

-----------------------------------------------------------------------------
(* Installation.                                                            *)
LEMMA RegisterStep ==
    ASSUME Inv, NEW p \in Pages, Register(p)
    PROVE  Inv'
<1>1. /\ registration.installing = NoBuild
      /\ registration' = [registration EXCEPT !.installing = server]
      /\ UNCHANGED <<server, caches, install, deleted>>
  BY DEF Register
<1>2. install.phase = "begun"
  BY <1>1 DEF Inv, Installing
<1>3. Shaped'
  BY <1>1 DEF Inv, Shaped, MaybeBuild
<1>4. Installing'
  BY <1>1, <1>2 DEF Installing
<1>5. Holds(registration.waiting)' /\ Holds(registration.active)'
  BY <1>1 DEF Inv, Shaped, Holds, Complete
<1> QED
  BY <1>3, <1>4, <1>5 DEF Inv

(* The files of the build arrive, all of them or none.                     *)
LEMMA FetchFilesStep ==
    ASSUME Inv, FetchFiles
    PROVE  Inv'
<1> DEFINE build == registration.installing
<1>1. /\ build # NoBuild /\ Answered(build)
      /\ install' = [install EXCEPT !.files = Manifest(build) \cap Files(Bundle[server]),
                                    !.phase = "files"]
      /\ UNCHANGED <<server, caches, registration, deleted>>
  BY DEF FetchFiles
<1>2. Manifest(build) \subseteq Files(Bundle[server])
  BY <1>1 DEF Answered
<1>3. install' = [files |-> Manifest(build) \cap Files(Bundle[server]),
                  shell |-> install.shell, phase |-> "files"]
  BY <1>1 DEF Inv, Shaped
<1>4. Shaped'
  BY <1>1, <1>3 DEF Inv, Shaped
<1>5. Installing'
  <2>1. install'.phase = "files" /\ Manifest(build) \subseteq install'.files
    BY <1>2, <1>3
  <2> QED
    BY <1>1, <2>1 DEF Installing
<1>6. Holds(registration.waiting)' /\ Holds(registration.active)'
  BY <1>1 DEF Inv, Holds, Complete
<1> QED
  BY <1>4, <1>5, <1>6 DEF Inv

(* The index page arrives, of the build deployed by then.                  *)
LEMMA FetchIndexStep ==
    ASSUME Inv, FetchIndex
    PROVE  Inv'
<1>1. /\ install.phase = "files"
      /\ install' = [install EXCEPT !.shell = server, !.phase = "shell"]
      /\ UNCHANGED <<server, caches, registration, deleted>>
  BY DEF FetchIndex
<1>2. install' = [files |-> install.files, shell |-> server, phase |-> "shell"]
  BY <1>1 DEF Inv, Shaped
<1>3. server # NoBuild
  BY BuildsAssumption DEF Inv, Shaped
<1>4. Shaped'
  BY <1>1, <1>2 DEF Inv, Shaped
<1>5. Installing'
  BY <1>1, <1>2, <1>3 DEF Inv, Installing
<1>6. Holds(registration.waiting)' /\ Holds(registration.active)'
  BY <1>1 DEF Inv, Holds, Complete
<1> QED
  BY <1>4, <1>5, <1>6 DEF Inv

(* Opening a cache takes nothing from it.                                   *)
LEMMA OpenCacheStep ==
    ASSUME Inv, OpenCache
    PROVE  Inv'
<1> DEFINE build == registration.installing
<1>1. /\ install.phase = "shell"
      /\ caches' = PutInto(build, {}, NoBuild)
      /\ install' = [install EXCEPT !.phase = "opened"]
      /\ UNCHANGED <<server, registration, deleted>>
  BY DEF OpenCache
<1>2. install' = [files |-> install.files, shell |-> install.shell, phase |-> "opened"]
  BY <1>1 DEF Inv, Shaped
<1>3. /\ build \in Builds /\ install.shell # NoBuild
      /\ Manifest(build) \subseteq install.files
  BY <1>1 DEF Inv, Shaped, Installing, MaybeBuild
<1>4. /\ caches' = [b \in Builds |-> caches'[b]]
      /\ \A b \in Builds : Complete(b) => Complete(b)'
  BY <1>1, PutShapes, PutKeeps DEF Inv
<1>5. Present(build)'
  <2>1. caches'[build] = With(caches[build], {}, NoBuild)
    BY <1>1, <1>3 DEF Inv, Shaped, PutInto
  <2> QED
    BY <1>1, <2>1 DEF With, Present
<1>6. Shaped'
  BY <1>1, <1>2, <1>4 DEF Inv, Shaped
<1>7. Installing'
  <2>1. Present(registration.installing)'
    BY <1>1, <1>5 DEF Present
  <2>2. install'.phase = "opened" /\ install'.files = install.files
        /\ install'.shell = install.shell
    BY <1>2
  <2>3. registration'.installing # NoBuild
    BY <1>1 DEF Inv, Installing
  <2> QED
    BY <1>1, <1>3, <2>1, <2>2, <2>3 DEF Installing
<1>8. Holds(registration.waiting)' /\ Holds(registration.active)'
  BY <1>1, <1>4 DEF Inv, Shaped, Holds, MaybeBuild
<1> QED
  BY <1>6, <1>7, <1>8 DEF Inv

(* The shell is in the worker's cache, or the cache was deleted.            *)
LEMMA StoreShellStep ==
    ASSUME Inv, StoreShell
    PROVE  Inv'
<1> DEFINE build == registration.installing
<1>1. /\ install.phase = "opened"
      /\ install' = [install EXCEPT !.phase = "stored"]
      /\ UNCHANGED <<server, registration>>
  BY DEF StoreShell
<1>2. install' = [files |-> install.files, shell |-> install.shell, phase |-> "stored"]
  BY <1>1 DEF Inv, Shaped
<1>3. /\ build \in Builds /\ install.shell # NoBuild
      /\ Manifest(build) \subseteq install.files
  BY <1>1 DEF Inv, Shaped, Installing, MaybeBuild
<1>4. registration.waiting \in MaybeBuild /\ registration.active \in MaybeBuild
  BY DEF Inv, Shaped
<1>5. /\ caches' = [b \in Builds |-> caches'[b]] /\ Holds(build)'
      /\ Holds(registration.waiting)' /\ Holds(registration.active)'
  <2>1. CASE Present(build)
    <3>1. /\ caches' = PutInto(build, install.files, install.shell)
          /\ deleted' = deleted \ {build}
      BY <2>1 DEF StoreShell
    <3>2. /\ caches' = [b \in Builds |-> caches'[b]]
          /\ \A b \in Builds : Complete(b) => Complete(b)'
      BY <3>1, PutShapes, PutKeeps DEF Inv
    <3>3. caches'[build] = With(caches[build], install.files, install.shell)
      BY <1>3, <3>1 DEF Inv, Shaped, PutInto
    <3>4. caches'[build].shell = install.shell /\ install.files \subseteq caches'[build].files
      BY <1>3, <3>3 DEF With
    <3>5. Complete(build)'
      BY <1>1, <1>3, <3>4 DEF Complete
    <3>6. ASSUME NEW b \in MaybeBuild, Holds(b)
          PROVE  b # NoBuild /\ b \notin deleted' => Complete(b)'
      BY <1>1, <3>1, <3>2, <3>5, <3>6 DEF Holds, MaybeBuild, Complete
    <3> QED
      BY <1>1, <1>4, <3>2, <3>5, <3>6 DEF Inv, Holds, Complete
  <2>2. CASE ~Present(build)
    <3>1. UNCHANGED <<caches, deleted>> /\ build \in deleted
      BY <1>1, <2>2 DEF StoreShell, Inv, Installing
    <3> QED
      BY <1>1, <3>1 DEF Inv, Shaped, Holds, Complete
  <2> QED
    BY <2>1, <2>2
<1>6. Shaped'
  BY <1>1, <1>2, <1>5 DEF Inv, Shaped
<1>7. Installing'
  <2>1. Holds(registration.installing)'
    BY <1>1, <1>5 DEF Holds, Complete
  <2>2. install'.phase = "stored" /\ install'.files = install.files
        /\ install'.shell = install.shell
    BY <1>2
  <2>3. registration'.installing # NoBuild
    BY <1>1 DEF Inv, Installing
  <2> QED
    BY <1>1, <1>3, <2>1, <2>2, <2>3 DEF Installing
<1> QED
  BY <1>5, <1>6, <1>7 DEF Inv

(* A failed installation takes nothing from the caches.                     *)
LEMMA InstallFailsStep ==
    ASSUME Inv, InstallFails
    PROVE  Inv'
<1>1. /\ registration' = [registration EXCEPT !.installing = NoBuild]
      /\ install' = NoInstall
      /\ UNCHANGED <<server, deleted>>
  BY DEF InstallFails
<1>2. /\ caches' = [b \in Builds |-> caches'[b]]
      /\ \A b \in Builds : Complete(b) => Complete(b)'
  <2>1. CASE UNCHANGED caches
    BY <2>1 DEF Inv, Shaped, Complete
  <2>2. CASE \E files \in SUBSET install.files :
                caches' = PutInto(registration.installing, files, NoBuild)
    BY <2>2, PutShapes, PutKeeps DEF Inv
  <2> QED
    BY <2>1, <2>2 DEF InstallFails
<1>3. Shaped'
  BY <1>1, <1>2 DEF Inv, Shaped, MaybeBuild, NoInstall
<1>4. Installing'
  BY <1>1 DEF Installing, NoInstall
<1>5. /\ registration'.waiting = registration.waiting
      /\ registration'.active = registration.active
  BY <1>1 DEF Inv, Shaped
<1>6. Holds(registration.waiting)' /\ Holds(registration.active)'
  BY <1>1, <1>2, <1>5 DEF Inv, Shaped, Holds, MaybeBuild
<1> QED
  BY <1>3, <1>4, <1>6 DEF Inv

(* An installed worker waits with its shell in its cache.                  *)
LEMMA InstallEndsStep ==
    ASSUME Inv, InstallEnds
    PROVE  Inv'
<1>1. /\ install.phase = "stored"
      /\ registration' = [registration EXCEPT !.waiting = registration.installing,
                                              !.installing = NoBuild]
      /\ install' = NoInstall
      /\ UNCHANGED <<server, caches, deleted>>
  BY DEF InstallEnds
<1>2. /\ registration'.waiting = registration.installing
      /\ registration'.active = registration.active
  BY <1>1 DEF Inv, Shaped
<1>3. Shaped'
  BY <1>1 DEF Inv, Shaped, MaybeBuild, NoInstall
<1>4. Installing'
  BY <1>1 DEF Installing, NoInstall
<1>5. Holds(registration.waiting)' /\ Holds(registration.active)'
  BY <1>1, <1>2 DEF Inv, Installing, Holds, Complete
<1> QED
  BY <1>3, <1>4, <1>5 DEF Inv

-----------------------------------------------------------------------------
(* Activation.                                                              *)
LEMMA ActivateStep ==
    ASSUME Inv, Activate
    PROVE  Inv'
<1>1. /\ registration' = [registration EXCEPT !.waiting = NoBuild, !.activated = FALSE,
                                              !.active = registration.waiting]
      /\ UNCHANGED <<server, caches, install, deleted>>
  BY DEF Activate
<1>2. /\ registration'.waiting = NoBuild /\ registration'.active = registration.waiting
      /\ registration'.installing = registration.installing
  BY <1>1 DEF Inv, Shaped
<1>3. Shaped'
  BY <1>1 DEF Inv, Shaped, MaybeBuild
<1>4. Installing'
  BY <1>1, <1>2 DEF Inv, Installing, Holds, Complete, Present
<1>5. Holds(registration.waiting)' /\ Holds(registration.active)'
  BY <1>1, <1>2 DEF Inv, Holds, Complete
<1> QED
  BY <1>3, <1>4, <1>5 DEF Inv

(* The workers whose caches the activation deletes are noted.               *)
LEMMA CleanUpStep ==
    ASSUME Inv, CleanUp
    PROVE  Inv'
<1> DEFINE noted == ({registration.waiting} \cup Storing) \ {Active, NoBuild}
<1>1. /\ caches' = [b \in Builds |-> IF b = Active THEN caches[b] ELSE NoCache]
      /\ deleted' = deleted \cup noted
      /\ registration' = [registration EXCEPT !.activated = TRUE]
      /\ UNCHANGED <<server, install>>
  BY DEF CleanUp
<1>2. /\ registration'.waiting = registration.waiting
      /\ registration'.active = registration.active
      /\ registration'.installing = registration.installing
  BY <1>1 DEF Inv, Shaped
<1>3. Shaped'
  <2>1. caches' = [b \in Builds |-> caches'[b]]
    BY <1>1
  <2> QED
    BY <1>1, <2>1 DEF Inv, Shaped
<1>4. ASSUME NEW b \in MaybeBuild, Holds(b), b \in noted \/ b = Active \/ b = NoBuild
      PROVE  b # NoBuild /\ b \notin deleted' => Complete(b)'
  <2>1. SUFFICES ASSUME b # NoBuild, b \notin deleted'
                 PROVE  Complete(b)'
    OBVIOUS
  <2>2. b = Active /\ b \in Builds /\ Complete(b)
    BY <1>1, <1>4, <2>1 DEF Holds, MaybeBuild
  <2>3. caches'[b] = caches[b]
    BY <1>1, <2>2
  <2> QED
    BY <2>2, <2>3 DEF Complete
<1>5. /\ registration.waiting \in MaybeBuild /\ registration.active \in MaybeBuild
      /\ registration.installing \in MaybeBuild
  BY DEF Inv, Shaped
<1>6. registration.waiting \in noted \/ registration.waiting \in {Active, NoBuild}
  OBVIOUS
<1>7. install.phase \in {"opened", "stored"} =>
          registration.installing \in noted \/ registration.installing \in {Active, NoBuild}
  BY DEF Storing
<1> HIDE DEF noted
<1>8. Holds(registration.waiting)' /\ Holds(registration.active)'
  BY <1>2, <1>4, <1>5, <1>6 DEF Inv, Holds, Active
<1>9. ASSUME install.phase = "opened"
      PROVE  Present(registration.installing)' \/ registration.installing \in deleted'
  <2>1. SUFFICES ASSUME registration.installing \notin deleted'
                 PROVE  Present(registration.installing)'
    OBVIOUS
  <2>2. /\ registration.installing = Active /\ registration.installing \in Builds
        /\ Present(registration.installing)
    BY <1>1, <1>5, <1>7, <1>9, <2>1 DEF Inv, Installing, MaybeBuild
  <2> QED
    BY <1>1, <1>2, <2>2 DEF Present
<1>10. Installing'
  BY <1>1, <1>2, <1>4, <1>5, <1>7, <1>9 DEF Inv, Installing, Holds
<1> QED
  BY <1>3, <1>8, <1>10 DEF Inv

(* A failed clean-up leaves the caches alone.                              *)
LEMMA CleanUpFailsStep ==
    ASSUME Inv, CleanUpFails
    PROVE  Inv'
<1>1. /\ registration' = [registration EXCEPT !.activated = TRUE]
      /\ UNCHANGED <<server, caches, install, deleted>>
  BY DEF CleanUpFails
<1>2. /\ registration'.waiting = registration.waiting
      /\ registration'.active = registration.active
      /\ registration'.installing = registration.installing
  BY <1>1 DEF Inv, Shaped
<1>3. Shaped'
  BY <1>1 DEF Inv, Shaped
<1>4. Installing' /\ Holds(registration.waiting)' /\ Holds(registration.active)'
  BY <1>1, <1>2 DEF Inv, Installing, Holds, Complete, Present
<1> QED
  BY <1>3, <1>4 DEF Inv

-----------------------------------------------------------------------------
(* Pages load what they want, and what was missing is put into the cache.   *)
LEMMA LoadStep ==
    ASSUME Inv, NEW p \in Pages, NEW file,
           LoadDirectly(p, file) \/ LoadCached(p, file) \/ LoadMissing(p, file)
    PROVE  Inv'
<1>1. UNCHANGED <<server, registration, install, deleted>>
  BY DEF LoadDirectly, LoadCached, LoadMissing, Load
<1>2. CASE UNCHANGED caches
  BY <1>1, <1>2, StutterStep DEF Inv, Shaped
<1>3. CASE caches' = Put({file}, NoBuild)
  BY <1>1, <1>3, PutStep
<1> QED
  BY <1>2, <1>3 DEF LoadDirectly, LoadCached, LoadMissing

(* A navigation opens a page or stores the shell it was answered with.     *)
LEMMA NavigationStep ==
    ASSUME Inv, NEW p \in Pages,
           \/ NavigateDirectly(p) \/ NavigateOnline(p) \/ NavigationIsStored(p)
           \/ NavigateOffline(p) \/ Warm(p) \/ Close(p)
    PROVE  Inv'
<1>1. CASE NavigateDirectly(p) \/ NavigateOnline(p) \/ Close(p)
  BY <1>1, StutterStep DEF NavigateDirectly, NavigateOnline, Close, Inv, Shaped
<1>2. CASE NavigationIsStored(p)
  BY <1>2, PutStep DEF NavigationIsStored
<1>3. CASE NavigateOffline(p)
  BY <1>3, PutStep DEF NavigateOffline
<1>4. CASE Warm(p)
  BY <1>4, PutStep DEF Warm
<1> QED
  BY <1>1, <1>2, <1>3, <1>4

(* Every step keeps the invariant.                                         *)
LEMMA NextInv ==
    ASSUME Inv, [Next]_vars
    PROVE  Inv'
<1>1. CASE UNCHANGED vars \/ Network
  BY <1>1, StutterStep DEF vars, Network, Inv, Shaped
<1>2. CASE \E build \in Builds : Deploy(build)
  BY <1>2, StutterStep DEF Deploy
<1>3. CASE \E p \in Pages : Register(p)
  BY <1>3, RegisterStep
<1>4. CASE \E p \in Pages :
              \/ NavigateDirectly(p) \/ NavigateOnline(p) \/ NavigationIsStored(p)
              \/ NavigateOffline(p) \/ Warm(p) \/ Close(p)
  BY <1>4, NavigationStep
<1>5. CASE \E p \in Pages, file \in AllFiles :
              LoadDirectly(p, file) \/ LoadCached(p, file) \/ LoadMissing(p, file)
  BY <1>5, LoadStep
<1>6. CASE \/ FetchFiles \/ FetchIndex \/ OpenCache \/ StoreShell
           \/ InstallFails \/ InstallEnds
  BY <1>6, FetchFilesStep, FetchIndexStep, OpenCacheStep, StoreShellStep,
     InstallFailsStep, InstallEndsStep
<1>7. CASE Activate \/ CleanUp \/ CleanUpFails
  BY <1>7, ActivateStep, CleanUpStep, CleanUpFailsStep
<1> QED
  BY <1>1, <1>2, <1>3, <1>4, <1>5, <1>6, <1>7 DEF Next

(* What an installation does to the caches is to put files into its own.    *)
LEMMA StoringAdds ==
    ASSUME Inv, OpenCache \/ StoreShell \/ InstallFails
    PROVE  \A b \in Builds :
               /\ caches[b].files \subseteq caches'[b].files
               /\ \/ caches'[b] = caches[b]
                  \/ \E files, shell : /\ shell \in {install.shell, NoBuild}
                                      /\ caches'[b] = With(caches[b], files, shell)
<1>1. CASE UNCHANGED caches
  BY <1>1
<1>2. CASE ~UNCHANGED caches
  <2>1. PICK files, shell : /\ shell \in {install.shell, NoBuild}
                            /\ caches' = PutInto(registration.installing, files, shell)
    BY <1>2 DEF OpenCache, StoreShell, InstallFails
  <2>2. \A b \in Builds : caches[b].files \subseteq caches'[b].files
    BY <2>1, PutKeeps DEF Inv
  <2>3. \A b \in Builds : \/ caches'[b] = caches[b]
                          \/ caches'[b] = With(caches[b], files, shell)
    BY <2>1, PutOne DEF Inv
  <2> QED
    BY <2>1, <2>2, <2>3
<1> QED
  BY <1>1, <1>2

(* The invariant holds at first.                                           *)
LEMMA InitInv == Init => Inv
<1> SUFFICES ASSUME Init PROVE Inv
  OBVIOUS
<1>1. Shaped
  BY BuildsAssumption DEF Init, Shaped, MaybeBuild, NoInstall
<1>2. Installing
  BY DEF Init, Installing, NoInstall
<1>3. Holds(registration.waiting) /\ Holds(registration.active)
  BY DEF Init, Holds
<1> QED
  BY <1>1, <1>2, <1>3 DEF Inv

(* The worker that serves pages has every file of its build in its cache,   *)
(* whatever fails, is superseded or is deployed on the way, unless its      *)
(* cache was deleted before it was active (sw.js, install and activate).    *)
THEOREM CacheAlwaysComplete == Spec => []CacheIsComplete
<1>1. Init => Inv
  BY InitInv
<1>2. Inv /\ [Next]_vars => Inv'
  BY NextInv
<1>3. Inv => CacheIsComplete
  BY DEF Inv, Holds, Complete, CacheIsComplete, Active
<1> QED
  BY <1>1, <1>2, <1>3, PTL DEF Spec

-----------------------------------------------------------------------------
(* A page that is served, or about to be, is served by a worker that has    *)
(* been activated, which is what the activation of the next one waits for.  *)
Served ==
    \A p \in Pages :
        /\ pages[p].answer # NoBuild => Active # NoBuild /\ registration.activated
        /\ pages[p].controlled => Active # NoBuild /\ registration.activated

PagesShaped ==
    pages = [p \in Pages |-> [build |-> pages[p].build, files |-> pages[p].files,
                              controlled |-> pages[p].controlled,
                              answer |-> pages[p].answer]]

KeepInv == Inv /\ Served /\ PagesShaped

(* What a page of the same build finds in the cache.                        *)
Keeps(p) ==
    pages[p].build # NoBuild /\ pages'[p].build = pages[p].build =>
        Cached(p) \subseteq Cached(p)'

(* A page is a record of its four fields.                                   *)
LEMMA PageShape ==
    ASSUME KeepInv, NEW p \in Pages
    PROVE  pages[p] = [build |-> pages[p].build, files |-> pages[p].files,
                       controlled |-> pages[p].controlled, answer |-> pages[p].answer]
<1>1. pages = [q \in Pages |-> [build |-> pages[q].build, files |-> pages[q].files,
                               controlled |-> pages[q].controlled,
                               answer |-> pages[q].answer]]
  BY DEF KeepInv, PagesShaped
<1> QED
  BY <1>1

(* A step that leaves the workers alone and only adds to a cache, if a page *)
(* it opens is served by the active worker.                                 *)
LEMMA ServedByTheSame ==
    ASSUME KeepInv, UNCHANGED registration,
           NEW files, NEW shell, caches' = caches \/ caches' = Put(files, shell),
           NEW q \in Pages, NEW page,
           pages' = pages \/ pages' = [pages EXCEPT ![q] = page],
           pages' # pages =>
               /\ page = [build |-> page.build, files |-> page.files,
                          controlled |-> page.controlled, answer |-> page.answer]
               /\ page.controlled \/ page.answer # NoBuild =>
                      Active # NoBuild /\ registration.activated
               /\ page.build # NoBuild /\ page.build = pages[q].build
                  /\ pages[q].controlled => page.controlled
    PROVE  Served' /\ PagesShaped' /\ \A p \in Pages : Keeps(p)
<1>1. \A p \in Pages : pages'[p] = IF p = q /\ pages' # pages THEN page ELSE pages[p]
  BY DEF KeepInv, PagesShaped
<1>2. PagesShaped'
  BY <1>1 DEF KeepInv, PagesShaped
<1>3. Active' = Active
  BY DEF Active
<1>4. Served'
  BY <1>1, <1>3 DEF KeepInv, Served
<1>5. Active # NoBuild => caches[Active].files \subseteq caches'[Active].files
  <2> SUFFICES ASSUME Active # NoBuild, caches' = Put(files, shell)
               PROVE  caches[Active].files \subseteq caches'[Active].files
    OBVIOUS
  <2>1. caches'[Active] = With(caches[Active], files, shell)
    BY DEF Put, PutInto, KeepInv, Inv, Shaped, Active, MaybeBuild
  <2> QED
    BY <2>1 DEF With
<1>6. ASSUME NEW p \in Pages
      PROVE  Keeps(p)
  <2> SUFFICES ASSUME pages[p].build # NoBuild, pages'[p].build = pages[p].build,
                      pages[p].controlled
               PROVE  caches[Active].files \subseteq Cached(p)'
    BY DEF Keeps, Cached
  <2>1. Active # NoBuild
    BY DEF KeepInv, Served
  <2>2. pages'[p].controlled
    BY <1>1
  <2> QED
    BY <1>3, <1>5, <2>1, <2>2 DEF Cached
<1> QED
  BY <1>2, <1>4, <1>6

(* Opening, warming and closing a page take no file from another.          *)
LEMMA NavigatingKeeps ==
    ASSUME KeepInv, NEW q \in Pages,
           \/ NavigateDirectly(q) \/ NavigateOnline(q) \/ NavigationIsStored(q)
           \/ NavigateOffline(q) \/ Warm(q) \/ Close(q)
    PROVE  Served' /\ PagesShaped' /\ \A p \in Pages : Keeps(p)
<1>1. CASE NavigateDirectly(q)
  BY <1>1, ServedByTheSame DEF NavigateDirectly, Opened, KeepInv, Served
<1>2. CASE NavigateOnline(q)
  <2> DEFINE page == [build |-> pages[q].build, files |-> pages[q].files,
                      controlled |-> pages[q].controlled, answer |-> server]
  <2>1. pages' = [pages EXCEPT ![q] = page]
    <3>1. pages' = [pages EXCEPT ![q] = [pages[q] EXCEPT !.answer = server]]
      BY <1>2 DEF NavigateOnline
    <3>2. [pages[q] EXCEPT !.answer = server] = page
      <4>1. PICK build, files, controlled, answer :
                pages[q] = [build |-> build, files |-> files, controlled |-> controlled,
                            answer |-> answer]
        BY PageShape
      <4> QED
        BY <4>1
    <3> QED
      BY <3>1, <3>2
  <2>2. /\ page = [build |-> page.build, files |-> page.files,
                   controlled |-> page.controlled, answer |-> page.answer]
        /\ page.controlled = pages[q].controlled
    OBVIOUS
  <2>3. Active # NoBuild /\ registration.activated /\ UNCHANGED <<registration, caches>>
    BY <1>2 DEF NavigateOnline, Answers
  <2> HIDE DEF page
  <2> QED
    BY <2>1, <2>2, <2>3, ServedByTheSame
<1>3. CASE NavigationIsStored(q)
  <2>1. Active # NoBuild /\ registration.activated
    BY <1>3 DEF NavigationIsStored, KeepInv, Served
  <2> QED
    BY <1>3, <2>1, ServedByTheSame DEF NavigationIsStored, Opened
<1>4. CASE NavigateOffline(q)
  <2>1. Active # NoBuild /\ registration.activated
    BY <1>4 DEF NavigateOffline, Answers
  <2>2. CASE caches[Active].shell = NoBuild
    BY <1>4, <2>1, <2>2, ServedByTheSame DEF NavigateOffline, NoPage
  <2>3. CASE caches[Active].shell # NoBuild
    BY <1>4, <2>1, <2>3, ServedByTheSame DEF NavigateOffline, Opened
  <2> QED
    BY <2>2, <2>3
<1>5. CASE Warm(q)
  <2>1. PICK files, shell : caches' = Put(files, shell)
    BY <1>5 DEF Warm
  <2> QED
    BY <1>5, <2>1, ServedByTheSame DEF Warm
<1>6. CASE Close(q)
  BY <1>6, ServedByTheSame DEF Close, NoPage
<1> QED
  BY <1>1, <1>2, <1>3, <1>4, <1>5, <1>6

(* Loading a file takes none away.                                         *)
LEMMA LoadingKeeps ==
    ASSUME KeepInv, NEW q \in Pages, NEW file \in AllFiles,
           LoadDirectly(q, file) \/ LoadCached(q, file) \/ LoadMissing(q, file)
    PROVE  Served' /\ PagesShaped' /\ \A p \in Pages : Keeps(p)
<1>1. Load(q, file) /\ (caches' = caches \/ caches' = Put({file}, NoBuild))
  BY DEF LoadDirectly, LoadCached, LoadMissing
<1> DEFINE page == [build |-> pages[q].build, files |-> pages[q].files \cup {file},
                    controlled |-> pages[q].controlled, answer |-> pages[q].answer]
<1>2. pages' = [pages EXCEPT ![q] = page]
  <2>1. pages' = [pages EXCEPT ![q] =
            [pages[q] EXCEPT !.files = pages[q].files \cup {file}]]
    BY <1>1 DEF Load
  <2>2. [pages[q] EXCEPT !.files = pages[q].files \cup {file}] = page
    <3>1. PICK build, files, controlled, answer :
              pages[q] = [build |-> build, files |-> files, controlled |-> controlled,
                          answer |-> answer]
      BY PageShape
    <3> QED
      BY <3>1
  <2> QED
    BY <2>1, <2>2
<1>3. /\ page = [build |-> page.build, files |-> page.files,
                 controlled |-> page.controlled, answer |-> page.answer]
      /\ page.controlled = pages[q].controlled /\ page.answer = pages[q].answer
  OBVIOUS
<1>4. page.controlled \/ page.answer # NoBuild => Active # NoBuild /\ registration.activated
  BY <1>3 DEF KeepInv, Served
<1>5. UNCHANGED registration
  BY <1>1 DEF Load
<1> HIDE DEF page
<1> QED
  BY <1>1, <1>2, <1>3, <1>4, <1>5, ServedByTheSame

(* A worker is activated when no page is served.                            *)
LEMMA ActivatingKeeps ==
    ASSUME KeepInv, Activate \/ CleanUp \/ CleanUpFails
    PROVE  Served' /\ PagesShaped' /\ \A p \in Pages : Keeps(p)
<1>1. \A p \in Pages : ~pages[p].controlled /\ pages[p].answer = NoBuild
  BY DEF KeepInv, Served, Activate, Activates, Unused, Uses, CleanUp, CleanUpFails
<1>2. \A p \in Pages : Keeps(p)
  BY <1>1 DEF Keeps, Cached
<1>3. CASE Activate \/ CleanUpFails
  BY <1>1, <1>2, <1>3 DEF Activate, CleanUpFails, Served, PagesShaped, KeepInv
<1>4. CASE CleanUp
  <2>1. pages' = [p \in Pages |->
            [build |-> pages[p].build, files |-> pages[p].files,
             controlled |-> pages[p].build # NoBuild, answer |-> pages[p].answer]]
    BY <1>4 DEF CleanUp, KeepInv, PagesShaped
  <2>2. PagesShaped'
    BY <2>1 DEF PagesShaped
  <2>3. Active' # NoBuild /\ registration'.activated
    BY <1>4 DEF CleanUp, Active, KeepInv, Inv, Shaped
  <2> QED
    BY <1>2, <2>2, <2>3 DEF Served
<1> QED
  BY <1>3, <1>4

(* Every step keeps what the open pages can load.                          *)
LEMMA NextKeeps ==
    ASSUME KeepInv, [Next]_vars
    PROVE  KeepInv' /\ \A p \in Pages : Keeps(p)
<1>1. Inv'
  BY NextInv DEF KeepInv
<1> SUFFICES Served' /\ PagesShaped' /\ \A p \in Pages : Keeps(p)
  BY <1>1 DEF KeepInv
<1>2. CASE /\ UNCHANGED pages
           /\ registration'.active = registration.active
           /\ registration'.activated = registration.activated
           /\ Active # NoBuild => caches[Active].files \subseteq caches'[Active].files
  BY <1>2 DEF KeepInv, Served, PagesShaped, Keeps, Cached, Active
<1>3. CASE UNCHANGED vars
  BY <1>2, <1>3 DEF vars
<1>4. CASE \E build \in Builds : Deploy(build)
  BY <1>2, <1>4 DEF Deploy
<1>5. CASE Network \/ FetchFiles \/ FetchIndex
  BY <1>2, <1>5 DEF Network, FetchFiles, FetchIndex
<1>6. CASE (\E p \in Pages : Register(p)) \/ InstallEnds
  <2>1. /\ UNCHANGED <<pages, caches>>
        /\ registration'.active = registration.active
        /\ registration'.activated = registration.activated
    BY <1>6 DEF Register, InstallEnds, KeepInv, Inv, Shaped
  <2> QED
    BY <1>2, <2>1
<1>7. CASE OpenCache \/ StoreShell \/ InstallFails
  <2>1. \A b \in Builds : caches[b].files \subseteq caches'[b].files
    BY <1>7, StoringAdds DEF KeepInv
  <2>2. /\ UNCHANGED pages
        /\ registration'.active = registration.active
        /\ registration'.activated = registration.activated
    BY <1>7 DEF OpenCache, StoreShell, InstallFails, KeepInv, Inv, Shaped
  <2>3. Active \in MaybeBuild
    BY DEF KeepInv, Inv, Shaped, Active
  <2> QED
    BY <1>2, <2>1, <2>2, <2>3 DEF MaybeBuild
<1>8. CASE \E p \in Pages :
              \/ NavigateDirectly(p) \/ NavigateOnline(p) \/ NavigationIsStored(p)
              \/ NavigateOffline(p) \/ Warm(p) \/ Close(p)
  BY <1>8, NavigatingKeeps
<1>9. CASE \E p \in Pages, file \in AllFiles :
              LoadDirectly(p, file) \/ LoadCached(p, file) \/ LoadMissing(p, file)
  BY <1>9, LoadingKeeps
<1>10. CASE Activate \/ CleanUp \/ CleanUpFails
  BY <1>10, ActivatingKeeps
<1> QED
  BY <1>3, <1>4, <1>5, <1>6, <1>7, <1>8, <1>9, <1>10 DEF Next

(* What a page could load from the cache it can load from it as long as it  *)
(* stays open: no activation takes it away (sw.js, install and activate).   *)
THEOREM PagesAlwaysKeepTheirFiles == Spec => PagesKeepTheirFiles
<1>1. Init => KeepInv
  <2> SUFFICES ASSUME Init PROVE Served /\ PagesShaped
    BY InitInv DEF KeepInv
  <2> QED
    BY DEF Init, NoPage, Served, PagesShaped
<1>2. KeepInv /\ [Next]_vars => KeepInv'
  BY NextKeeps
<1>3. KeepInv /\ [Next]_vars =>
          [\A p \in Pages :
              pages[p].build # NoBuild /\ pages'[p].build = pages[p].build =>
                  Cached(p) \subseteq Cached(p)']_vars
  BY NextKeeps DEF Keeps
<1> QED
  BY <1>1, <1>2, <1>3, PTL DEF Spec, PagesKeepTheirFiles

-----------------------------------------------------------------------------
(* Following names, chunk by chunk: as many times as there are chunks is    *)
(* often enough, since a time that finds no new one is the last.            *)
Followed(bundle, files) == files \cup (Named(bundle, files) \cap Chunks(bundle))

Roots(bundle) == (bundle.html \cup bundle.workers) \cap Chunks(bundle)

FollowedOn(files, bundle) == Followed(bundle, files)

(* The order of the naturals, as the library takes one.                     *)
Below == {ss \in Nat \X Nat : ss[1] < ss[2]}

(* A set of naturals has a least element, so induction needs no operator.   *)
LEMMA NaturalInduction ==
    ASSUME NEW G \in SUBSET Nat, 0 \in G, \A m \in G : m + 1 \in G
    PROVE  G = Nat
<1>1. IsWellFoundedOn(Below, Nat)
  BY NatLessThanWellFounded, Zenon DEF OpToRel, Below
<1>2. SUFFICES ASSUME Nat \ G # {} PROVE FALSE
  OBVIOUS
<1>3. PICK k \in Nat \ G : \A j \in Nat \ G : ~(<<j, k>> \in Below)
  BY <1>1, <1>2, WFMin
<1>4. k # 0 /\ k - 1 \in Nat
  OBVIOUS
<1>5. k - 1 \in G
  <2>1. <<k - 1, k>> \in Below
    BY <1>4 DEF Below
  <2>. QED  BY <1>3, <1>4, <2>1
<1>6. (k - 1) + 1 \in G
  BY <1>5
<1>. QED  BY <1>6

Following == INSTANCE LeftFolds WITH Op <- FollowedOn

LEMMA FollowingInducts == Following!Induction
BY NaturalInduction DEF Following!Induction

LEMMA JavaScriptReached ==
    ASSUME NEW bundle, Cardinality(Chunks(bundle)) \in Nat
    PROVE  \E f : /\ f[0] = Roots(bundle)
                  /\ \A i \in 1..Cardinality(Chunks(bundle)) :
                        f[i] = Followed(bundle, f[i - 1])
                  /\ JavaScript(bundle) = f[Cardinality(Chunks(bundle))]
<1> DEFINE size == Cardinality(Chunks(bundle))
           IsReached(f) == f = [n \in 0..size |->
               IF n = 0 THEN (bundle.html \cup bundle.workers) \cap Chunks(bundle)
               ELSE f[n - 1] \cup (Named(bundle, f[n - 1]) \cap Chunks(bundle))]
           reached == CHOOSE f : IsReached(f)
           always == [i \in 0..size |-> bundle]
<1>1. \E f : IsReached(f)
  <2>1. PICK f : Following!IsRun(f, Roots(bundle), always, size)
    BY Following!RunExists, FollowingInducts
  <2>2. \A n \in 0..size : always[n] = bundle
    OBVIOUS
  <2> HIDE DEF always, size
  <2>3. \A n \in 0..size :
            f[n] = IF n = 0 THEN (bundle.html \cup bundle.workers) \cap Chunks(bundle)
                   ELSE f[n - 1] \cup (Named(bundle, f[n - 1]) \cap Chunks(bundle))
    BY <2>1, <2>2 DEF Following!IsRun, FollowedOn, Followed, Roots
  <2>4. f = [n \in 0..size |-> f[n]]
    BY <2>1 DEF Following!IsRun
  <2>5. IsReached(f)
    BY <2>3, <2>4, Zenon
  <2> QED
    BY <2>5
<1>2. IsReached(reached)
  BY <1>1
<1>3. JavaScript(bundle) = reached[size]
  BY DEF JavaScript
<1> HIDE DEF reached, size
<1>4. size \in Nat
  BY DEF size
<1>5. \A n \in 0..size :
          reached[n] = IF n = 0 THEN Roots(bundle) ELSE Followed(bundle, reached[n - 1])
  BY <1>2 DEF Followed, Roots
<1>6. reached[0] = Roots(bundle) /\ \A i \in 1..size : reached[i] = Followed(bundle, reached[i - 1])
  BY <1>4, <1>5
<1> QED
  BY <1>3, <1>6 DEF size

(* What no chunk of it leads out of.                                        *)
Closed(bundle, files) == Named(bundle, files) \cap Chunks(bundle) \subseteq files

LEMMA JavaScriptClosed ==
    ASSUME NEW bundle, IsFiniteSet(Chunks(bundle))
    PROVE  /\ Roots(bundle) \subseteq JavaScript(bundle)
           /\ JavaScript(bundle) \subseteq Chunks(bundle)
           /\ Closed(bundle, JavaScript(bundle))
<1> DEFINE size == Cardinality(Chunks(bundle))
<1>1. size \in Nat
  BY FS_CardinalityType
<1>2. PICK f : /\ f[0] = Roots(bundle)
               /\ \A i \in 1..size : f[i] = Followed(bundle, f[i - 1])
               /\ JavaScript(bundle) = f[size]
  BY <1>1, JavaScriptReached
<1> HIDE DEF size
<1> DEFINE Good == {n \in Nat : n <= size =>
                        /\ Roots(bundle) \subseteq f[n] /\ f[n] \subseteq Chunks(bundle)
                        /\ Closed(bundle, f[n]) \/ Cardinality(f[n]) >= n}
<1>3. 0 \in Good
  <2>1. f[0] \subseteq Chunks(bundle)
    BY <1>2 DEF Roots
  <2>2. Cardinality(f[0]) >= 0
    BY <2>1, FS_Subset, FS_CardinalityType
  <2> QED
    BY <1>2, <2>1, <2>2
<1>4. ASSUME NEW n \in Good
      PROVE  n + 1 \in Good
  <2> SUFFICES ASSUME n + 1 <= size
               PROVE  /\ Roots(bundle) \subseteq f[n + 1] /\ f[n + 1] \subseteq Chunks(bundle)
                      /\ Closed(bundle, f[n + 1]) \/ Cardinality(f[n + 1]) >= n + 1
    OBVIOUS
  <2> HIDE DEF Good
  <2>1. /\ Roots(bundle) \subseteq f[n] /\ f[n] \subseteq Chunks(bundle)
        /\ Closed(bundle, f[n]) \/ Cardinality(f[n]) >= n
    BY <1>1 DEF Good
  <2>2. n \in Nat /\ n + 1 \in 1..size /\ (n + 1) - 1 = n
    BY <1>1 DEF Good
  <2>3. f[n + 1] = Followed(bundle, f[n])
    BY <1>2, <2>2
  <2>4. /\ f[n] \subseteq f[n + 1] /\ f[n + 1] \subseteq Chunks(bundle)
    BY <2>1, <2>3 DEF Followed
  <2>5. CASE Closed(bundle, f[n])
    <3>1. f[n + 1] = f[n]
      BY <2>3, <2>5 DEF Closed, Followed
    <3> QED
      BY <2>1, <2>5, <3>1
  <2>6. CASE ~Closed(bundle, f[n])
    <3>1. f[n + 1] # f[n]
      BY <2>3, <2>6 DEF Closed, Followed
    <3>2. IsFiniteSet(f[n + 1])
      BY <2>4, FS_Subset
    <3>3. /\ Cardinality(f[n]) <= Cardinality(f[n + 1])
          /\ Cardinality(f[n]) # Cardinality(f[n + 1])
      BY <2>4, <3>1, <3>2, FS_Subset
    <3>4. Cardinality(f[n]) \in Nat /\ Cardinality(f[n + 1]) \in Nat
      BY <2>1, <2>4, FS_Subset, FS_CardinalityType
    <3> QED
      BY <2>1, <2>2, <2>4, <2>6, <3>3, <3>4
  <2> QED
    BY <2>5, <2>6
<1>5. Good = Nat
  <2>1. Good \in SUBSET Nat
    OBVIOUS
  <2> HIDE DEF Good
  <2> QED
    BY <1>3, <1>4, <2>1, NaturalInduction
<1>6. /\ Roots(bundle) \subseteq f[size] /\ f[size] \subseteq Chunks(bundle)
      /\ Closed(bundle, f[size]) \/ Cardinality(f[size]) >= size
  BY <1>1, <1>5
<1>7. ASSUME Cardinality(f[size]) >= size
      PROVE  f[size] = Chunks(bundle)
  <2>1. Cardinality(f[size]) <= size
    BY <1>6, FS_Subset DEF size
  <2>2. Cardinality(f[size]) \in Nat
    BY <1>6, FS_Subset, FS_CardinalityType
  <2>3. Cardinality(f[size]) = Cardinality(Chunks(bundle))
    BY <1>1, <1>7, <2>1, <2>2 DEF size
  <2> QED
    BY <1>6, <2>3, FS_Subset
<1>8. Closed(bundle, f[size])
  BY <1>6, <1>7 DEF Closed
<1> QED
  BY <1>2, <1>6, <1>8

(* The manifest of a build has whatever its own files ask for.              *)
LEMMA ManifestSuffices ==
    ASSUME NEW build \in Builds, NEW files, files \subseteq Manifest(build)
    PROVE  Bundle[build].html \cup Named(Bundle[build], files) \subseteq Manifest(build)
<1> DEFINE bundle == Bundle[build]
           code == JavaScript(bundle)
<1>1. /\ IsFiniteSet(Chunks(bundle))
      /\ \A f \in Chunks(bundle) : bundle.code[f] \subseteq Chunks(bundle) \cup bundle.assets
  BY BundleAssumption
<1>2. /\ Roots(bundle) \subseteq code /\ code \subseteq Chunks(bundle)
      /\ Closed(bundle, code)
  BY <1>1, JavaScriptClosed
<1>3. Manifest(build) = bundle.html \cup code \cup (Named(bundle, code) \cap bundle.assets)
  BY DEF Manifest
<1> HIDE DEF bundle, code
<1>4. files \cap Chunks(bundle) \subseteq code
  BY <1>2, <1>3 DEF Roots, Closed
<1>5. Named(bundle, files) \subseteq Named(bundle, code)
  BY <1>4 DEF Named, Chunks
<1>6. Named(bundle, code) \subseteq Chunks(bundle) \cup bundle.assets
  BY <1>1 DEF Named, Chunks
<1>7. Named(bundle, code) \cap Chunks(bundle) \subseteq code
  BY <1>2 DEF Closed
<1>8. bundle.html \cup Named(bundle, files) \subseteq Manifest(build)
  BY <1>3, <1>5, <1>6, <1>7
<1> QED
  BY <1>8 DEF bundle

-----------------------------------------------------------------------------
(* What a page has loaded is in the manifest of its build, wherever it came *)
(* from; and shells are of builds.                                          *)
Loaded(page) ==
    /\ page.build \in MaybeBuild /\ page.answer \in MaybeBuild
    /\ page.build # NoBuild => page.files \subseteq Manifest(page.build)

ShellsKnown ==
    /\ install.shell \in MaybeBuild
    /\ \A b \in Builds : caches[b].shell \in MaybeBuild

LoadInv == KeepInv /\ ShellsKnown /\ \A p \in Pages : Loaded(pages[p])

LEMMA PutShell ==
    ASSUME LoadInv, NEW files, NEW shell \in MaybeBuild,
           caches' = caches \/ caches' = Put(files, shell), UNCHANGED install
    PROVE  ShellsKnown'
<1>1. \A b \in Builds : \/ caches'[b] = caches[b]
                        \/ caches'[b] = With(caches[b], files, shell)
  BY DEF LoadInv, KeepInv, Inv, Shaped, Put, PutInto
<1>2. \A b \in Builds : caches'[b].shell \in {caches[b].shell, shell}
  <2>1. \A cache : With(cache, files, shell).shell \in {cache.shell, shell}
    BY DEF With
  <2> QED
    BY <1>1, <2>1
<1> QED
  BY <1>2 DEF LoadInv, ShellsKnown, MaybeBuild

LEMMA OnePage ==
    ASSUME LoadInv, NEW q \in Pages, NEW page, Loaded(page), pages' = [pages EXCEPT ![q] = page]
    PROVE  \A p \in Pages : Loaded(pages[p])'
<1>1. \A p \in Pages : pages'[p] = IF p = q THEN page ELSE pages[p]
  BY DEF LoadInv, KeepInv, PagesShaped
<1>2. \A p \in Pages : Loaded(pages'[p])
  BY <1>1 DEF LoadInv
<1> QED
  BY <1>2 DEF Loaded, MaybeBuild

LEMMA OpenedLoaded ==
    ASSUME NEW build \in MaybeBuild, NEW controlled
    PROVE  Loaded(Opened(build, controlled)) /\ Loaded(NoPage)
BY DEF Loaded, Opened, NoPage, MaybeBuild

LEMMA NavigatingLoads ==
    ASSUME LoadInv, NEW q \in Pages,
           \/ NavigateDirectly(q) \/ NavigateOnline(q) \/ NavigationIsStored(q)
           \/ NavigateOffline(q) \/ Warm(q) \/ Close(q)
    PROVE  ShellsKnown' /\ \A p \in Pages : Loaded(pages[p])'
<1>0. /\ server \in MaybeBuild /\ NoBuild \in MaybeBuild /\ Active \in MaybeBuild
      /\ Loaded(pages[q])
  BY DEF LoadInv, KeepInv, Inv, Shaped, Active, MaybeBuild
<1>1. CASE NavigateDirectly(q)
  BY <1>0, <1>1, PutShell, OnePage, OpenedLoaded DEF NavigateDirectly
<1>2. CASE NavigateOnline(q)
  <2> DEFINE page == [pages[q] EXCEPT !.answer = server]
  <2>1. /\ page.build = pages[q].build /\ page.files = pages[q].files
        /\ page.answer = server
    <3>1. PICK build, files, controlled, answer :
              pages[q] = [build |-> build, files |-> files, controlled |-> controlled,
                          answer |-> answer]
      BY PageShape DEF LoadInv
    <3> QED
      BY <3>1
  <2>2. pages' = [pages EXCEPT ![q] = page] /\ UNCHANGED <<caches, install>>
    BY <1>2 DEF NavigateOnline
  <2> HIDE DEF page
  <2>3. Loaded(page)
    BY <1>0, <2>1 DEF Loaded
  <2> QED
    BY <1>0, <2>2, <2>3, PutShell, OnePage
<1>3. CASE NavigationIsStored(q)
  <2>1. pages[q].answer \in MaybeBuild
    BY <1>0 DEF Loaded
  <2> QED
    BY <1>0, <1>3, <2>1, PutShell, OnePage, OpenedLoaded DEF NavigationIsStored
<1>4. CASE NavigateOffline(q)
  <2> DEFINE shell == caches[Active].shell
             page == IF shell = NoBuild THEN NoPage ELSE Opened(shell, TRUE)
  <2>1. shell \in MaybeBuild
    BY <1>0, <1>4 DEF NavigateOffline, Answers, LoadInv, ShellsKnown, MaybeBuild
  <2>2. /\ pages' = [pages EXCEPT ![q] = page]
        /\ caches' = Put({}, NoBuild) /\ UNCHANGED install
    BY <1>4 DEF NavigateOffline
  <2> HIDE DEF shell
  <2>3. Loaded(page)
    BY <1>0, <2>1, OpenedLoaded
  <2> HIDE DEF page
  <2> QED
    BY <1>0, <2>2, <2>3, PutShell, OnePage
<1>5. CASE Warm(q)
  <2>1. PICK files \in SUBSET pages[q].files, shell \in WarmShells(q) : caches' = Put(files, shell)
    BY <1>5 DEF Warm
  <2>2. shell \in MaybeBuild
    BY <1>0, <2>1 DEF WarmShells, Loaded
  <2>3. ShellsKnown' /\ UNCHANGED pages
    BY <1>5, <2>1, <2>2, PutShell DEF Warm
  <2> QED
    BY <2>3 DEF LoadInv, Loaded, MaybeBuild
<1>6. CASE Close(q)
  BY <1>0, <1>6, PutShell, OnePage, OpenedLoaded DEF Close
<1> QED
  BY <1>1, <1>2, <1>3, <1>4, <1>5, <1>6

(* What a page wants is in its manifest, so what it loads is.               *)
LEMMA WantedInManifest ==
    ASSUME LoadInv, NEW q \in Pages, pages[q].build # NoBuild
    PROVE  Wanted(q) \subseteq Manifest(pages[q].build)
<1>1. pages[q].build \in Builds /\ pages[q].files \subseteq Manifest(pages[q].build)
  BY DEF LoadInv, Loaded, MaybeBuild
<1> QED
  BY <1>1, ManifestSuffices DEF Wanted

LEMMA LoadingLoads ==
    ASSUME LoadInv, NEW q \in Pages, NEW file,
           LoadDirectly(q, file) \/ LoadCached(q, file) \/ LoadMissing(q, file)
    PROVE  ShellsKnown' /\ \A p \in Pages : Loaded(pages[p])'
<1>1. /\ Load(q, file) /\ (caches' = caches \/ caches' = Put({file}, NoBuild))
      /\ NoBuild \in MaybeBuild
  BY DEF LoadDirectly, LoadCached, LoadMissing, MaybeBuild
<1> DEFINE page == [pages[q] EXCEPT !.files = @ \cup {file}]
<1>2. /\ page.build = pages[q].build /\ page.files = pages[q].files \cup {file}
      /\ page.answer = pages[q].answer
  <2>1. PICK build, files, controlled, answer :
            pages[q] = [build |-> build, files |-> files, controlled |-> controlled,
                        answer |-> answer]
    BY PageShape DEF LoadInv
  <2> QED
    BY <2>1
<1>3. pages' = [pages EXCEPT ![q] = page] /\ UNCHANGED install
  BY <1>1 DEF Load
<1> HIDE DEF page
<1>4. file \in Manifest(pages[q].build)
  BY <1>1, WantedInManifest DEF Load
<1>5. Loaded(page)
  BY <1>2, <1>4 DEF LoadInv, Loaded
<1> QED
  BY <1>1, <1>3, <1>5, PutShell, OnePage

LEMMA NextLoads ==
    ASSUME LoadInv, [Next]_vars
    PROVE  LoadInv'
<1>1. KeepInv'
  BY NextKeeps DEF LoadInv
<1> SUFFICES ShellsKnown' /\ \A p \in Pages : Loaded(pages[p])'
  BY <1>1 DEF LoadInv
<1>2. CASE UNCHANGED <<pages, caches, install>>
  BY <1>2 DEF LoadInv, ShellsKnown, Loaded, MaybeBuild
<1>3. CASE UNCHANGED vars \/ (\E build \in Builds : Deploy(build)) \/ Network
           \/ (\E p \in Pages : Register(p)) \/ Activate \/ CleanUpFails
  BY <1>2, <1>3 DEF vars, Deploy, Network, Register, Activate, CleanUpFails
<1>4. CASE FetchFiles \/ FetchIndex \/ InstallEnds
  <2>1. UNCHANGED <<pages, caches>> /\ install'.shell \in {install.shell, server, NoBuild}
    <3>1. install = [files |-> install.files, shell |-> install.shell, phase |-> install.phase]
      BY DEF LoadInv, KeepInv, Inv, Shaped
    <3>2. CASE FetchFiles
      <4>1. PICK files : install' = [install EXCEPT !.files = files, !.phase = "files"]
        BY <3>2 DEF FetchFiles
      <4> QED
        BY <3>1, <3>2, <4>1 DEF FetchFiles
    <3>3. CASE FetchIndex
      BY <3>1, <3>3 DEF FetchIndex
    <3>4. CASE InstallEnds
      BY <3>4 DEF InstallEnds, NoInstall
    <3> QED
      BY <1>4, <3>2, <3>3, <3>4
  <2>2. install'.shell \in MaybeBuild
    BY <2>1 DEF LoadInv, ShellsKnown, KeepInv, Inv, Shaped, MaybeBuild
  <2> QED
    BY <2>1, <2>2 DEF LoadInv, ShellsKnown, Loaded, MaybeBuild
<1>5. CASE OpenCache \/ StoreShell \/ InstallFails
  <2>1. \A b \in Builds :
            \/ caches'[b] = caches[b]
            \/ \E files, shell : /\ shell \in {install.shell, NoBuild}
                                /\ caches'[b] = With(caches[b], files, shell)
    BY <1>5, StoringAdds DEF LoadInv, KeepInv
  <2>2. UNCHANGED pages /\ install'.shell \in {install.shell, NoBuild}
    BY <1>5 DEF OpenCache, StoreShell, InstallFails, NoInstall, LoadInv, KeepInv, Inv, Shaped
  <2>3. \A b \in Builds : caches'[b].shell \in {caches[b].shell, install.shell, NoBuild}
    <3>1. \A cache, files, shell : With(cache, files, shell).shell \in {cache.shell, shell}
      BY DEF With
    <3> QED
      BY <2>1, <3>1
  <2>4. ShellsKnown'
    BY <2>2, <2>3 DEF LoadInv, ShellsKnown, MaybeBuild
  <2> QED
    BY <2>2, <2>4 DEF LoadInv, Loaded, MaybeBuild
<1>6. CASE CleanUp
  <2>1. \A p \in Pages : /\ pages'[p].build = pages[p].build /\ pages'[p].files = pages[p].files
                         /\ pages'[p].answer = pages[p].answer
    <3>1. ASSUME NEW p \in Pages
          PROVE  /\ pages'[p].build = pages[p].build /\ pages'[p].files = pages[p].files
                 /\ pages'[p].answer = pages[p].answer
      <4>1. PICK build, files, controlled, answer :
                pages[p] = [build |-> build, files |-> files, controlled |-> controlled,
                            answer |-> answer]
        BY PageShape DEF LoadInv
      <4>2. pages'[p] = [pages[p] EXCEPT !.controlled = pages[p].build # NoBuild]
        BY <1>6 DEF CleanUp
      <4> QED
        BY <4>1, <4>2
    <3> QED
      BY <3>1
  <2>2. ShellsKnown'
    BY <1>6 DEF CleanUp, LoadInv, ShellsKnown, NoCache, MaybeBuild
  <2> QED
    BY <2>1, <2>2 DEF LoadInv, Loaded, MaybeBuild
<1>7. CASE \E p \in Pages :
              \/ NavigateDirectly(p) \/ NavigateOnline(p) \/ NavigationIsStored(p)
              \/ NavigateOffline(p) \/ Warm(p) \/ Close(p)
  BY <1>7, NavigatingLoads
<1>8. CASE \E p \in Pages, file \in AllFiles :
              LoadDirectly(p, file) \/ LoadCached(p, file) \/ LoadMissing(p, file)
  BY <1>8, LoadingLoads
<1> QED
  BY <1>3, <1>4, <1>5, <1>6, <1>7, <1>8 DEF Next

LEMMA LoadInvLoads == LoadInv => OwnPagesLoad
<1> SUFFICES ASSUME LoadInv, NEW p \in Pages, pages[p].controlled,
                    pages[p].build = Active, Active \notin deleted
             PROVE  Wanted(p) \subseteq caches[Active].files
  BY DEF OwnPagesLoad
<1>1. Active # NoBuild
  BY DEF LoadInv, KeepInv, Served
<1>2. Manifest(Active) \subseteq caches[Active].files
  BY <1>1 DEF LoadInv, KeepInv, Inv, Holds, Complete, Active
<1> QED
  BY <1>1, <1>2, WantedInManifest

(* A page of the active worker's build can load whatever it may come to ask *)
(* for, for any builds: what the code of a chunk names is reached by the    *)
(* manifest, however long the way (shell-manifest.ts), and a page asks only *)
(* for what its index.html or a file it has loaded names.                   *)
THEOREM OwnPagesAlwaysLoad == Spec => []OwnPagesLoad
<1>1. Init => LoadInv
  <2> SUFFICES ASSUME Init PROVE LoadInv
    OBVIOUS
  <2>1. Served /\ PagesShaped
    BY DEF Init, NoPage, Served, PagesShaped
  <2>2. ShellsKnown /\ \A p \in Pages : Loaded(pages[p])
    BY DEF Init, ShellsKnown, NoInstall, NoCache, NoPage, Loaded, MaybeBuild
  <2> QED
    BY <2>1, <2>2, InitInv DEF LoadInv, KeepInv
<1>2. LoadInv /\ [Next]_vars => LoadInv'
  BY NextLoads
<1> QED
  BY <1>1, <1>2, LoadInvLoads, PTL DEF Spec
=============================================================================
