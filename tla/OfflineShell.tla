----------------------------- MODULE OfflineShell -----------------------------
(***************************************************************************)
(* Offline use of the production page: the service worker of a build       *)
(* (public/sw.js), the manifest it is built with (shell-manifest.ts) and   *)
(* what a page asks of it (offline.ts).  A static server holds one build   *)
(* at a time and is redeployed at any moment; the network comes and goes.  *)
(* When a browser installs, activates and stops a worker is external, as   *)
(* the Service Workers standard has it: one worker installs at a time, the *)
(* waiting one replaces another, and is activated once no page uses the    *)
(* active one.  A worker may be stopped whenever it is not done.           *)
(***************************************************************************)
EXTENDS FiniteSets, Naturals

CONSTANTS
    Builds,      \* a build is what its identity digests: equal content is one build
    Bundle,      \* of each build, the files that index.html and each chunk name
    FirstBuild,
    NoBuild,
    Pages,
    MaxDeployments  \* bounds how often another build is deployed

ASSUME BuildsAssumption ==
    /\ FirstBuild \in Builds /\ NoBuild \notin Builds /\ MaxDeployments \in Nat

VARIABLES
    server,        \* the build that is deployed
    deployments,   \* how often another one was
    online,
    caches,        \* the cache of each build, if there is one
    registration,  \* the workers of the scope, each named by its build
    install,       \* what the installing worker has fetched
    pages,
    deleted        \* the workers whose cache was deleted before they were active

vars == <<server, deployments, online, caches, registration, install, pages, deleted>>

-----------------------------------------------------------------------------
(* A bundle: index.html names the files in html, a chunk those in code; all *)
(* but index.html, sw.js and the maps have the digest of their content in   *)
(* their name.                                                              *)
Named(bundle, files) == UNION {bundle.code[f] : f \in files \cap DOMAIN bundle.code}

Chunks(bundle) == DOMAIN bundle.code
Files(bundle) == bundle.html \cup Chunks(bundle) \cup bundle.assets

(* Only a file of the bundle is looked for in the code of a chunk.          *)
ASSUME BundleAssumption ==
    \A b \in Builds :
        /\ IsFiniteSet(Chunks(Bundle[b]))
        /\ \A f \in Chunks(Bundle[b]) :
              Bundle[b].code[f] \subseteq Chunks(Bundle[b]) \cup Bundle[b].assets

(* referencedJavaScriptChunks: what can be reached from index.html and from *)
(* the chunks that are known to be Workers.                                 *)
JavaScript(bundle) ==
    LET reached[n \in 0..Cardinality(Chunks(bundle))] ==
            IF n = 0 THEN (bundle.html \cup bundle.workers) \cap Chunks(bundle)
            ELSE reached[n - 1] \cup (Named(bundle, reached[n - 1]) \cap Chunks(bundle))
    IN  reached[Cardinality(Chunks(bundle))]

(* Mutant of Manifest: only the files that index.html names.                *)
ManifestOfIndex(build) == Bundle[build].html

(* createShellManifest, without index.html, which every manifest ends with. *)
Manifest(build) ==
    LET bundle == Bundle[build]
    IN  bundle.html \cup JavaScript(bundle)
            \cup (Named(bundle, JavaScript(bundle)) \cap bundle.assets)

-----------------------------------------------------------------------------
(* A cache: the files in it, and the build whose index.html is its shell.   *)
NoCache == [present |-> FALSE, files |-> {}, shell |-> NoBuild]
NoInstall == [files |-> {}, shell |-> NoBuild, phase |-> "begun"]
NoPage == [build |-> NoBuild, files |-> {}, controlled |-> FALSE, answer |-> NoBuild]

(* caches.open and put.                                                     *)
With(cache, files, shell) ==
    [present |-> TRUE, files |-> cache.files \cup files,
     shell |-> IF shell = NoBuild THEN cache.shell ELSE shell]

Active == registration.active
PutInto(build, files, shell) == [caches EXCEPT ![build] = With(@, files, shell)]
Put(files, shell) == PutInto(Active, files, shell)

Opened(build, controlled) ==
    [build |-> build, files |-> {}, controlled |-> controlled, answer |-> NoBuild]

Init ==
    /\ server = FirstBuild /\ deployments = 0 /\ online = TRUE
    /\ caches = [b \in Builds |-> NoCache]
    /\ registration = [installing |-> NoBuild, waiting |-> NoBuild, active |-> NoBuild,
                       activated |-> FALSE]
    /\ install = NoInstall
    /\ pages = [p \in Pages |-> NoPage]
    /\ deleted = {}

-----------------------------------------------------------------------------
(* The environment.                                                         *)
Deploy(build) ==
    /\ build # server /\ deployments < MaxDeployments
    /\ server' = build /\ deployments' = deployments + 1
    /\ UNCHANGED <<online, caches, registration, install, pages, deleted>>

Network ==
    /\ online' = ~online
    /\ UNCHANGED <<server, deployments, caches, registration, install, pages, deleted>>

Close(p) ==
    /\ pages[p].build # NoBuild /\ pages[p].answer = NoBuild
    /\ pages' = [pages EXCEPT ![p] = NoPage]
    /\ UNCHANGED <<server, deployments, online, caches, registration, install, deleted>>

-----------------------------------------------------------------------------
(* When a worker may be activated.  The worker never calls skipWaiting.      *)
Uses(p) == pages[p].controlled \/ pages[p].answer # NoBuild

(* Mutant of Unused: skipWaiting is called.                                 *)
UnusedOrSkipped == TRUE

Unused == \A p \in Pages : ~Uses(p)

Activates ==
    /\ registration.waiting # NoBuild
    /\ Active = NoBuild \/ (registration.activated /\ Unused)

-----------------------------------------------------------------------------
(* Installation: precacheApplication.  The page registers the script of the *)
(* server when it has loaded, and the browser looks for a newer one.  An    *)
(* activation that is due, or under way, is over before (this favours the   *)
(* code: the standard lets them overlap).                                   *)
Newest == IF registration.waiting # NoBuild THEN registration.waiting ELSE Active

Register(p) ==
    /\ pages[p].build # NoBuild
    /\ online /\ registration.installing = NoBuild /\ server # Newest
    /\ ~Activates /\ (Active # NoBuild => registration.activated)
    /\ registration' = [registration EXCEPT !.installing = server]
    /\ UNCHANGED <<server, deployments, online, caches, install, pages, deleted>>

(* Mutant of Answered: the status of an answer is not looked at.            *)
AnsweredAnyhow(build) == online

(* The server has every file the manifest names.                            *)
Answered(build) == online /\ Manifest(build) \subseteq Files(Bundle[server])

(* fetchShellResource: first the files, in one step since the order of the  *)
(* fetches decides nothing, a file being the same on every server that has  *)
(* it; then index.html, the last name of the manifest, as it is by then.    *)
FetchFiles ==
    LET build == registration.installing
    IN  /\ build # NoBuild /\ install = NoInstall
        /\ Answered(build)
        /\ install' = [install EXCEPT !.files = Manifest(build) \cap Files(Bundle[server]),
                                      !.phase = "files"]
        /\ UNCHANGED <<server, deployments, online, caches, registration, pages, deleted>>

FetchIndex ==
    /\ install.phase = "files" /\ online
    /\ install' = [install EXCEPT !.shell = server, !.phase = "shell"]
    /\ UNCHANGED <<server, deployments, online, caches, registration, pages, deleted>>

(* The cache is opened before anything is put into it; the activation of    *)
(* another worker may delete it in between.                                 *)
OpenCache ==
    LET build == registration.installing
    IN  /\ install.phase = "shell"
        /\ caches' = PutInto(build, {}, NoBuild)
        /\ install' = [install EXCEPT !.phase = "opened"]
        /\ UNCHANGED <<server, deployments, online, registration, pages, deleted>>

(* What is put into a deleted cache is lost.  The puts are one step: until  *)
(* the last one only that worker's build reads them, and a file is the same *)
(* wherever it came from.                                                   *)
Present(build) == caches[build].present

StoreShell ==
    LET build == registration.installing
    IN  /\ install.phase = "opened"
        /\ IF Present(build)
           THEN /\ caches' = PutInto(build, install.files, install.shell)
                /\ deleted' = deleted \ {build}
           ELSE UNCHANGED <<caches, deleted>>
        /\ install' = [install EXCEPT !.phase = "stored"]
        /\ UNCHANGED <<server, deployments, online, registration, pages>>

(* A fetch fails or is answered with an error, a put fails, or the worker   *)
(* is stopped: some of the files may have been put, and stay.               *)
InstallFails ==
    LET build == registration.installing
    IN  /\ build # NoBuild
        /\ \/ UNCHANGED caches
           \/ /\ install.phase = "opened" /\ Present(build)
              /\ \E files \in SUBSET install.files : caches' = PutInto(build, files, NoBuild)
        /\ registration' = [registration EXCEPT !.installing = NoBuild]
        /\ install' = NoInstall
        /\ UNCHANGED <<server, deployments, online, pages, deleted>>

InstallEnds ==
    /\ install.phase = "stored"
    /\ registration' = [registration EXCEPT !.waiting = registration.installing,
                                            !.installing = NoBuild]
    /\ install' = NoInstall
    /\ UNCHANGED <<server, deployments, online, caches, pages, deleted>>

-----------------------------------------------------------------------------
(* Activation.                                                              *)
Activate ==
    /\ Activates
    /\ registration' = [registration EXCEPT !.waiting = NoBuild, !.activated = FALSE,
                                            !.active = registration.waiting]
    /\ UNCHANGED <<server, deployments, online, caches, install, pages, deleted>>

Storing ==
    IF install.phase \in {"opened", "stored"} THEN {registration.installing} ELSE {}

(* The activate event deletes every other cache and claims every page.      *)
CleanUp ==
    /\ Active # NoBuild /\ ~registration.activated
    /\ caches' = [b \in Builds |-> IF b = Active THEN caches[b] ELSE NoCache]
    /\ deleted' = deleted \cup (({registration.waiting} \cup Storing) \ {Active, NoBuild})
    /\ pages' = [p \in Pages |->
                    [pages[p] EXCEPT !.controlled = pages[p].build # NoBuild]]
    /\ registration' = [registration EXCEPT !.activated = TRUE]
    /\ UNCHANGED <<server, deployments, online, install>>

(* The worker is activated even if its event is cut short.                  *)
CleanUpFails ==
    /\ Active # NoBuild /\ ~registration.activated
    /\ registration' = [registration EXCEPT !.activated = TRUE]
    /\ UNCHANGED <<server, deployments, online, caches, install, pages, deleted>>

-----------------------------------------------------------------------------
(* Pages.  A navigation is answered by the active worker, if there is one,  *)
(* once it is activated.                                                    *)
Navigable(p) == pages[p].answer = NoBuild
Answers == Active # NoBuild /\ registration.activated

NavigateDirectly(p) ==
    /\ Navigable(p) /\ Active = NoBuild /\ online
    /\ pages' = [pages EXCEPT ![p] = Opened(server, FALSE)]
    /\ UNCHANGED <<server, deployments, online, caches, registration, install, deleted>>

(* The fetch listener: the network answers first ...                        *)
NavigateOnline(p) ==
    /\ Navigable(p) /\ Answers /\ online
    /\ pages' = [pages EXCEPT ![p].answer = server]
    /\ UNCHANGED <<server, deployments, online, caches, registration, install, deleted>>

(* ... and what it answered becomes the shell of the worker's cache.        *)
NavigationIsStored(p) ==
    /\ pages[p].answer # NoBuild
    /\ caches' = Put({}, pages[p].answer)
    /\ pages' = [pages EXCEPT ![p] = Opened(pages[p].answer, TRUE)]
    /\ UNCHANGED <<server, deployments, online, registration, install, deleted>>

(* The network fails: the shell, or an error page where there is none.      *)
NavigateOffline(p) ==
    LET shell == caches[Active].shell
    IN  /\ Navigable(p) /\ Answers /\ ~online
        /\ caches' = Put({}, NoBuild)
        /\ pages' = [pages EXCEPT ![p] = IF shell = NoBuild THEN NoPage
                                         ELSE Opened(shell, TRUE)]
        /\ UNCHANGED <<server, deployments, online, registration, install, deleted>>

(* What a page may ask for: what index.html or what it has loaded names.    *)
Wanted(p) ==
    LET bundle == Bundle[pages[p].build]
    IN  (bundle.html \cup Named(bundle, pages[p].files)) \ pages[p].files

Load(p, file) ==
    /\ pages[p].build # NoBuild /\ file \in Wanted(p)
    /\ pages' = [pages EXCEPT ![p].files = @ \cup {file}]
    /\ UNCHANGED <<server, deployments, online, registration, install, deleted>>

FromServer(file) == online /\ file \in Files(Bundle[server])

LoadDirectly(p, file) ==
    /\ ~pages[p].controlled /\ FromServer(file)
    /\ Load(p, file) /\ UNCHANGED caches

LoadCached(p, file) ==
    /\ pages[p].controlled /\ registration.activated /\ file \in caches[Active].files
    /\ Load(p, file) /\ UNCHANGED caches

LoadMissing(p, file) ==
    /\ pages[p].controlled /\ registration.activated /\ file \notin caches[Active].files
    /\ FromServer(file)
    /\ Load(p, file)
    /\ caches' = Put({file}, NoBuild)

(* warm-cache: of what the page has loaded the worker adds what is in its   *)
(* manifest and not in its cache, as far as it can be fetched once more,    *)
(* perhaps from the browser's own cache; the shell too.                     *)
WarmShells(p) ==
    IF caches[Active].shell # NoBuild THEN {NoBuild}
    ELSE {NoBuild, pages[p].build} \cup (IF online THEN {server} ELSE {})

Warm(p) ==
    /\ pages[p].build # NoBuild /\ Active # NoBuild
    /\ \E files \in SUBSET ((pages[p].files \cap Manifest(Active)) \ caches[Active].files),
          shell \in WarmShells(p) :
          caches' = Put(files, shell)
    /\ UNCHANGED <<server, deployments, online, registration, install, pages, deleted>>

-----------------------------------------------------------------------------
AllFiles == UNION {Files(Bundle[b]) : b \in Builds}

Next ==
    \/ \E build \in Builds : Deploy(build)
    \/ Network
    \/ \E p \in Pages :
          \/ Close(p) \/ Register(p) \/ Warm(p)
          \/ NavigateDirectly(p) \/ NavigateOnline(p) \/ NavigationIsStored(p)
          \/ NavigateOffline(p)
    \/ \E p \in Pages, file \in AllFiles :
          LoadDirectly(p, file) \/ LoadCached(p, file) \/ LoadMissing(p, file)
    \/ FetchFiles \/ FetchIndex \/ OpenCache \/ StoreShell
    \/ InstallFails \/ InstallEnds
    \/ Activate \/ CleanUp \/ CleanUpFails

Spec == Init /\ [][Next]_vars
=============================================================================
