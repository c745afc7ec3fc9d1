------------------------ MODULE OfflineShellProperties ------------------------
(* What the service workers of several builds must satisfy.                 *)
EXTENDS OfflineShell

(* The worker that serves pages has every file of its build in its cache,   *)
(* whichever deployments, failed installations, superseded workers and      *)
(* warm-ups there were: a failed or interrupted installation leaves the     *)
(* caches of others complete (sw.js, precacheApplication and the activate   *)
(* event).  Not so when an older worker's activation deleted its cache.     *)
CacheIsComplete ==
    Active # NoBuild /\ Active \notin deleted =>
        /\ caches[Active].shell # NoBuild
        /\ Manifest(Active) \subseteq caches[Active].files

(* A page of the active worker's build can load whatever it may come to ask *)
(* for, offline and after its build has left the server: the manifest has   *)
(* every file that can be reached (shell-manifest.ts).                      *)
OwnPagesLoad ==
    \A p \in Pages :
        /\ pages[p].controlled /\ pages[p].build = Active /\ Active \notin deleted
        => Wanted(p) \subseteq caches[Active].files

(* "Keep a new worker waiting so existing pages can continue using old      *)
(* hashed assets" (sw.js:46): what a page could load from the cache it can  *)
(* load from it as long as it stays open.                                   *)
Cached(p) == IF pages[p].controlled THEN caches[Active].files ELSE {}

PagesKeepTheirFiles ==
    [][\A p \in Pages :
          pages[p].build # NoBuild /\ pages'[p].build = pages[p].build =>
              Cached(p) \subseteq Cached(p)']_vars
=============================================================================
