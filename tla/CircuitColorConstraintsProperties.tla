------------------- MODULE CircuitColorConstraintsProperties -------------------
(* What CircuitColorConstraints must satisfy.                               *)
EXTENDS CircuitColorConstraints

(* The union-find keeps its shape: parents and parities of registered       *)
(* networks, and ranks that grow towards the root, so that find ends.       *)
TypeOK ==
    /\ engine.size \in Nat /\ engine \in Engine(engine.size)
    /\ \A i \in 0..engine.size :
          engine.parent[i] # i => engine.rank[i] < engine.rank[engine.parent[i]]

(* The colourings that agree with the parity of every node to its parent.   *)
Possible(e) ==
    {c \in [0..e.size -> {Red, Green}] :
        c[0] = Red /\ \A i \in 0..e.size : Xor(c[i], c[e.parent[i]]) = e.parity[i]}

(* The engine keeps its promise: a constraint is rejected exactly when the  *)
(* accepted ones contradict it, whatever order they came in and whatever    *)
(* was asked in between, and the colours are the least that satisfy all.    *)
Promise == INSTANCE ColorPromise WITH size <- engine.size, possible <- Possible(engine)

KeepsPromise == Promise!Spec

(* A copy made for a preflight relates all networks as the original does:   *)
(* the slot clone leaves out, the anchor's, is never the parent of another. *)
PreflightAgrees ==
    \A l, r \in 1..engine.size : RelationOf(Clone(engine), l, r) = RelationOf(engine, l, r)

(* The copy is "an isolated preflight copy" (circuit-color-constraints.ts,  *)
(* line 67): it accepts what the original accepts, fixed colours included.  *)
CloneIsCopy == Possible(Clone(engine)) = Possible(engine)
=============================================================================
