----------------------------- MODULE ColorPromise -----------------------------
(***************************************************************************)
(* What an engine for wire colours promises, whatever structure it keeps:  *)
(* it accepts a constraint exactly if some colouring satisfies it and all  *)
(* those accepted before, and it resolves to the least such colouring.     *)
(*                                                                         *)
(* Networks are the numbers 1..size in the order of their registration; 0  *)
(* is the colour red itself, so a fixed colour is a constraint with 0.     *)
(***************************************************************************)
EXTENDS Integers

Red == 0
Green == 1
Colors == {Red, Green}
Xor(a, b) == IF a = b THEN 0 ELSE 1

VARIABLES
    size,      \* how many networks are registered
    possible,  \* the colourings that satisfy every accepted constraint
    outcome,   \* what the last operation returned or threw
    colors     \* the colouring it returned, if it was a resolution

vars == <<size, possible, outcome, colors>>

NoColors == [i \in {0} |-> Red]

Init ==
    /\ size = 0
    /\ possible = {NoColors}
    /\ outcome = "none"
    /\ colors = NoColors

Register ==
    /\ size' = size + 1
    /\ possible' = {c \in [0..size' -> Colors] : \E d \in possible :
                       \A i \in 0..size : c[i] = d[i]}
    /\ outcome' = "added"
    /\ colors' = NoColors

(* The two have the same colour (parity 0), or different ones (parity 1).   *)
Constrain == \E l, r \in 0..size, parity \in {0, 1} :
    LET left == {c \in possible : Xor(c[l], c[r]) = parity}
    IN  /\ possible' = IF left = {} THEN possible ELSE left
        /\ outcome' = IF left = {} THEN "conflict" ELSE "accepted"
        /\ colors' = NoColors
        /\ UNCHANGED size

Relate == \E l, r \in 1..size :
    /\ outcome' = IF \A c \in possible : c[l] = c[r] THEN "same"
                  ELSE IF \A c \in possible : c[l] # c[r] THEN "different"
                  ELSE "unrelated"
    /\ colors' = NoColors
    /\ UNCHANGED <<size, possible>>

(* Red comes before green, and networks in the order of registration: where *)
(* another colouring first departs from the least one, the least is red.    *)
Resolve ==
    /\ outcome' = "resolved"
    /\ colors' \in possible
    /\ \A d \in possible, i \in 0..size :
          (\A j \in 0..size : j < i => d[j] = colors'[j]) /\ d[i] # colors'[i]
             => colors'[i] = Red
    /\ UNCHANGED <<size, possible>>

Refuse ==
    /\ outcome' = "unknown"
    /\ colors' = NoColors
    /\ UNCHANGED <<size, possible>>

Next == Register \/ Constrain \/ Relate \/ Resolve \/ Refuse

Spec == Init /\ [][Next]_vars
=============================================================================
