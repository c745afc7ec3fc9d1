---------------------- MODULE PrototypeProfileProperties ----------------------
(* What PrototypeProfile must satisfy.                                      *)
EXTENDS PrototypeProfile

(* The circuit in the preview was compiled with the profile the page says   *)
(* is selected, whatever was chosen, rolled back or lost meanwhile.         *)
PreviewUsesSelectedProfile ==
    shown # {} => shown = {page.active.content} /\ page.ready /\ ~page.restoreError

(* An identity is only ever given to the content it is the digest of, on    *)
(* the page and in IndexedDB; a late answer commits no other profile.       *)
IdentityIsOfContent ==
    \A p \in {page.active, page.before} \cup store \cup {v.profile : v \in saves} :
        p.identity \in {None, p.content}

(* What a reload restores is a profile that a Worker accepted.              *)
StoredProfilesLoad == \A p \in store : Loads(p.content)

(* The saved choice changes only to what the page uses at that moment.      *)
SavedChoiceIsInUse ==
    [][selection' # selection => selection' = page'.active.identity]_vars

-----------------------------------------------------------------------------
(* The event loop, storage and the Worker are fair; nothing else is.        *)
Fairness ==
    /\ WF_vars(RenderTimerFires)
    /\ WF_vars(ReadFinishes)
    /\ WF_vars(RestoreFinishes)
    /\ WF_vars(WorkerParses)
    /\ WF_vars(Messages)

FairSpec == Spec /\ Fairness

(* A chosen profile is in the end committed, rolled back or replaced.       *)
ChoiceSettles == page.pending ~> ~page.pending
=============================================================================
