------------------------ MODULE CircuitColorConstraints ------------------------
(***************************************************************************)
(* The engine that checks wire colours while a source is elaborated        *)
(* (packages/compiler/src/circuit-color-constraints.ts): a union-find with *)
(* ranks, path compression and the parity of each node to its parent.      *)
(*                                                                         *)
(* A network is its index in the order of registration; index 0 is the     *)
(* anchor, which is red.  The class is a set of operators on the record of *)
(* its fields; the actions call its public methods in any order.           *)
(***************************************************************************)
EXTENDS Integers

CONSTANT MaxNetworks    \* bounds the networks a run registers

ASSUME NetworksAssumption == MaxNetworks \in Nat

Red == 0
Green == 1
Xor(a, b) == IF a = b THEN 0 ELSE 1

Engine(n) == [size : {n}, parent : [0..n -> 0..n], rank : [0..n -> Nat],
              parity : [0..n -> {0, 1}]]

NewEngine == [size |-> 0, parent |-> [i \in {0} |-> 0],
              rank |-> [i \in {0} |-> 0], parity |-> [i \in {0} |-> 0]]

-----------------------------------------------------------------------------
(* find: the root of each index and its parity to it.                       *)
RootOf(e) ==
    LET root[i \in 0..e.size] ==
            IF e.parent[i] = i THEN [index |-> i, parity |-> 0]
            ELSE [index |-> root[e.parent[i]].index,
                  parity |-> Xor(e.parity[i], root[e.parent[i]].parity)]
    IN  root

(* The indices find visits below the root.                                  *)
PathOf(e) ==
    LET path[i \in 0..e.size] ==
            IF e.parent[i] = i THEN {} ELSE {i} \cup path[e.parent[i]]
    IN  path

(* Mutant of Compressed: an index keeps its parity to its former parent.    *)
CompressedKeepingParity(e, visited) ==
    [e EXCEPT !.parent = [j \in 0..e.size |->
                              IF j \in visited THEN RootOf(e)[j].index ELSE @[j]]]

(* ... and what it leaves: every visited index hangs below its root.        *)
Compressed(e, visited) ==
    LET root == RootOf(e)
    IN  [e EXCEPT
          !.parent = [j \in 0..e.size |-> IF j \in visited THEN root[j].index ELSE @[j]],
          !.parity = [j \in 0..e.size |-> IF j \in visited THEN root[j].parity ELSE @[j]]]

Found(e, i) == Compressed(e, PathOf(e)[i])

(* Mutant of Linked: the root of greater rank goes below.                   *)
LinkedUnderSmaller(e, left, right, expected) ==
    LET swap == e.rank[left.index] > e.rank[right.index]
        top == IF swap THEN right.index ELSE left.index
        low == IF swap THEN left.index ELSE right.index
    IN  [e EXCEPT
          !.parent[low] = top,
          !.parity[low] = Xor(Xor(left.parity, right.parity), expected),
          !.rank[top] = IF e.rank[low] = e.rank[top] THEN @ + 1 ELSE @]

(* The root of smaller rank goes below the other one, the right one below   *)
(* the left one if they are equal.                                          *)
Linked(e, left, right, expected) ==
    LET swap == e.rank[left.index] < e.rank[right.index]
        top == IF swap THEN right.index ELSE left.index
        low == IF swap THEN left.index ELSE right.index
    IN  [e EXCEPT
          !.parent[low] = top,
          !.parity[low] = Xor(Xor(left.parity, right.parity), expected),
          !.rank[top] = IF e.rank[low] = e.rank[top] THEN @ + 1 ELSE @]

Unite(e, l, r, expected) ==
    LET left == RootOf(e)[l]
        right == RootOf(e)[r]
        found == Found(Found(e, l), r)
    IN  IF left.index = right.index
        THEN [engine |-> found,
              outcome |-> IF Xor(left.parity, right.parity) = expected
                          THEN "accepted" ELSE "conflict"]
        ELSE [engine |-> Linked(found, left, right, expected), outcome |-> "accepted"]

Add(e) ==
    LET new == e.size + 1
    IN  [size |-> new,
         parent |-> [i \in 0..new |-> IF i = new THEN new ELSE e.parent[i]],
         rank |-> [i \in 0..new |-> IF i = new THEN 0 ELSE e.rank[i]],
         parity |-> [i \in 0..new |-> IF i = new THEN 0 ELSE e.parity[i]]]

(* Mutant of Clone: parities start afresh.                                  *)
CloneForgettingParity(e) ==
    [e EXCEPT !.parent[0] = 0, !.rank[0] = 0, !.parity = [i \in 0..e.size |-> 0]]

(* clone copies every slot but the anchor's, which it starts afresh.        *)
Clone(e) == [e EXCEPT !.parent[0] = 0, !.rank[0] = 0, !.parity[0] = 0]

RelationOf(e, l, r) ==
    LET left == RootOf(e)[l]
        right == RootOf(e)[r]
    IN  IF left.index # right.index THEN "unrelated"
        ELSE IF left.parity = right.parity THEN "same" ELSE "different"

(* resolve: the anchor's component is oriented by the anchor, every other   *)
(* one by its first member in the order of registration, which is red.      *)
Orientation(e, index) ==
    LET root == RootOf(e)
        First(k) == /\ root[k].index = index
                    /\ \A j \in 1..e.size : root[j].index = index => k <= j
    IN  IF index = root[0].index THEN root[0].parity
        ELSE root[CHOOSE k \in 1..e.size : First(k)].parity

Coloring(e) ==
    LET root == RootOf(e)
    IN  [i \in 0..e.size |-> Xor(root[i].parity, Orientation(e, root[i].index))]

-----------------------------------------------------------------------------
VARIABLES
    engine,    \* the fields of the class
    outcome,   \* what the last call returned or threw
    colors     \* the colours it returned, if it was resolve

vars == <<engine, outcome, colors>>

NoColors == [i \in {0} |-> Red]

Init == engine = NewEngine /\ outcome = "none" /\ colors = NoColors

AddNetwork ==
    /\ engine.size < MaxNetworks
    /\ engine' = Add(engine)
    /\ outcome' = "added"
    /\ colors' = NoColors

(* Both same and different, and fix with the anchor on the right.           *)
Require(l, r, expected) ==
    LET result == Unite(engine, l, r, expected)
    IN  /\ engine' = result.engine
        /\ outcome' = result.outcome
        /\ colors' = NoColors

Constrain == \E l, r \in 1..engine.size, expected \in {0, 1} : Require(l, r, expected)

Fix == \E i \in 1..engine.size, color \in {Red, Green} : Require(i, 0, color)

Relate == \E l, r \in 1..engine.size :
    /\ engine' = Found(Found(engine, l), r)
    /\ outcome' = RelationOf(engine, l, r)
    /\ colors' = NoColors

Resolve ==
    /\ engine' = Compressed(engine, 0..engine.size)
    /\ colors' = Coloring(engine)
    /\ outcome' = "resolved"

(* A call that names a network that is not registered throws; relation has  *)
(* looked up its left network by then.                                      *)
Unknown ==
    /\ \/ UNCHANGED engine
       \/ \E l \in 1..engine.size : engine' = Found(engine, l)
    /\ outcome' = "unknown"
    /\ colors' = NoColors

Next == AddNetwork \/ Constrain \/ Fix \/ Relate \/ Resolve \/ Unknown

Spec == Init /\ [][Next]_vars
=============================================================================
