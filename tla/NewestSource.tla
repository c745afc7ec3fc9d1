----------------------------- MODULE NewestSource -----------------------------
(***************************************************************************)
(* What the workbench promises whoever edits: the preview and the parameter*)
(* panel are of the text in the editor, or empty.  No late answer, failure *)
(* or retry shows an older text, and no revision comes back.               *)
(***************************************************************************)
EXTENDS Naturals

VARIABLES
    latest,   \* the revision of the text in the editor
    shown,    \* the revision the preview was made from, 0 for none
    offered   \* the revision the parameter panel binds, 0 when disabled

vars == <<latest, shown, offered>>

Init == latest = 0 /\ shown = 0 /\ offered = 0

(* Editing, or compiling again, clears both before anything newer arrives.  *)
Renew ==
    /\ latest' \in Nat /\ latest' > latest
    /\ shown' = 0
    /\ offered' = 0

(* An answer about the newest text shows it, or shows that it failed.       *)
Answer ==
    /\ shown' \in {0, latest}
    /\ offered' \in {0, latest}
    /\ UNCHANGED latest

Next == Renew \/ Answer

Spec == Init /\ [][Next]_vars
=============================================================================
