--------------------- MODULE CircuitColorConstraintsProofs ---------------------
(***************************************************************************)
(* The engine keeps ColorPromise, for any number of networks.  find is a   *)
(* recursive function, so each step shows a solution of its equation       *)
(* (IsRoot) for the engine it leaves, and ranks, which grow towards the    *)
(* root, show that there is only one (RootUnique).                         *)
(***************************************************************************)
EXTENDS CircuitColorConstraintsProperties, WellFoundedInduction, TLAPS

Nodes(e) == 0..e.size

(* A solution of the equation of find.                                      *)
IsRoot(e, f) ==
    f = [i \in 0..e.size |->
            IF e.parent[i] = i THEN [index |-> i, parity |-> 0]
            ELSE [index |-> f[e.parent[i]].index,
                  parity |-> Xor(e.parity[i], f[e.parent[i]].parity)]]

(* The shape of the forest, with a bound on its ranks.                      *)
Forest(e) ==
    /\ e.size \in Nat /\ e \in Engine(e.size)
    /\ \A i \in Nodes(e) : e.parent[i] # i => e.rank[i] < e.rank[e.parent[i]]
    /\ \A i \in Nodes(e) : e.parent[i] = i => e.parity[i] = 0
    /\ \E m \in Nat : \A i \in Nodes(e) : e.rank[i] <= m

EngineInv(e) == Forest(e) /\ \E f : IsRoot(e, f)

(* The colours c agree with the parity of every node to its parent.         *)
Agrees(c, e) == \A i \in Nodes(e) : Xor(c[i], c[e.parent[i]]) = e.parity[i]

RootRecord(e) == [index : Nodes(e), parity : {0, 1}]

-----------------------------------------------------------------------------
Below == {ss \in Nat \X Nat : ss[1] < ss[2]}

(* A set of natural numbers has a least element.                            *)
LEMMA LeastNatural ==
    ASSUME NEW S \in SUBSET Nat, S # {}
    PROVE  \E m \in S : \A k \in S : m <= k
<1>1. IsWellFoundedOn(Below, Nat)
    BY NatLessThanWellFounded, Zenon DEF OpToRel, Below
<1>2. PICK x \in S : \A y \in S : ~(<<y, x>> \in Below)
    BY <1>1, WFMin
<1>3. \A y \in S : ~(y < x)
    BY <1>2 DEF Below
<1> QED BY <1>3

(* A node of greatest rank among B is a root or has its parent outside B:   *)
(* what holds of roots and passes from parent to child holds of all nodes.  *)
LEMMA RankInduction ==
    ASSUME NEW e, Forest(e), NEW B \in SUBSET Nodes(e), B # {}
    PROVE  \E i \in B : e.parent[i] = i \/ e.parent[i] \notin B
<1>1. PICK m \in Nat : \A i \in Nodes(e) : e.rank[i] <= m
    BY DEF Forest
<1>2. \A i \in Nodes(e) : e.rank[i] \in Nat
    BY DEF Forest, Engine, Nodes
<1> DEFINE S == {m - e.rank[i] : i \in B}
<1>3. S \in SUBSET Nat /\ S # {}
    BY <1>1, <1>2
<1>4. PICK k \in S : \A j \in S : k <= j
    BY <1>3, LeastNatural
<1>5. PICK i \in B : k = m - e.rank[i]
    BY <1>4
<1>6. ASSUME e.parent[i] # i, e.parent[i] \in B PROVE FALSE
    <2>1. e.rank[i] < e.rank[e.parent[i]]
        BY <1>6 DEF Forest
    <2>2. m - e.rank[e.parent[i]] \in S
        BY <1>6
    <2>3. k <= m - e.rank[e.parent[i]]
        BY <1>4, <2>2
    <2> QED BY <2>1, <2>3, <1>5, <1>2, <1>6
<1> QED BY <1>6

(* find ends: its equation has one solution.                                *)
LEMMA RootUnique ==
    ASSUME NEW e, Forest(e), NEW f, NEW g, IsRoot(e, f), IsRoot(e, g)
    PROVE  f = g
<1> DEFINE B == {i \in Nodes(e) : f[i] # g[i]}
<1>1. CASE B # {}
    <2>1. PICK i \in B : e.parent[i] = i \/ e.parent[i] \notin B
        BY <1>1, RankInduction
    <2>2. e.parent[i] \in Nodes(e)
        BY DEF Forest, Engine, Nodes
    <2>3. f[i] = IF e.parent[i] = i THEN [index |-> i, parity |-> 0]
                 ELSE [index |-> f[e.parent[i]].index,
                       parity |-> Xor(e.parity[i], f[e.parent[i]].parity)]
        BY Zenon DEF IsRoot, Nodes
    <2>4. g[i] = IF e.parent[i] = i THEN [index |-> i, parity |-> 0]
                 ELSE [index |-> g[e.parent[i]].index,
                       parity |-> Xor(e.parity[i], g[e.parent[i]].parity)]
        BY Zenon DEF IsRoot, Nodes
    <2>5. e.parent[i] # i => f[e.parent[i]] = g[e.parent[i]]
        BY <2>1, <2>2
    <2>6. f[i] = g[i]
        BY <2>3, <2>4, <2>5, Zenon
    <2> QED BY <2>6
<1>2. CASE B = {}
    <2>1. \A i \in 0..e.size : f[i] = g[i]
        BY <1>2 DEF Nodes
    <2>2. f = [i \in 0..e.size |-> f[i]]
        BY Zenon DEF IsRoot
    <2>3. g = [i \in 0..e.size |-> g[i]]
        BY Zenon DEF IsRoot
    <2> QED BY <2>1, <2>2, <2>3, Zenon
<1> QED BY <1>1, <1>2

LEMMA RootOfIsRoot ==
    ASSUME NEW e, NEW f, IsRoot(e, f)
    PROVE  IsRoot(e, RootOf(e))
BY Zenon DEF IsRoot, RootOf

(* What find returns: a root, of no smaller rank, reached over the parent.  *)
LEMMA RootFacts ==
    ASSUME NEW e, EngineInv(e)
    PROVE  /\ IsRoot(e, RootOf(e))
           /\ RootOf(e) \in [Nodes(e) -> RootRecord(e)]
           /\ \A i \in Nodes(e) :
                /\ e.parent[RootOf(e)[i].index] = RootOf(e)[i].index
                /\ e.parent[i] = i => RootOf(e)[i] = [index |-> i, parity |-> 0]
                /\ e.parent[i] = i => RootOf(e)[i].index = i /\ RootOf(e)[i].parity = 0
                /\ e.parent[i] # i =>
                      /\ RootOf(e)[i].index = RootOf(e)[e.parent[i]].index
                      /\ RootOf(e)[i].parity = Xor(e.parity[i], RootOf(e)[e.parent[i]].parity)
                      /\ RootOf(e)[i].index # i
                      /\ e.rank[i] < e.rank[RootOf(e)[i].index]
<1> DEFINE f == RootOf(e)
           Good(i) == /\ f[i] \in RootRecord(e)
                      /\ e.parent[f[i].index] = f[i].index
                      /\ e.rank[i] <= e.rank[f[i].index]
           B == {i \in Nodes(e) : ~Good(i)}
<1>1. IsRoot(e, f)
    BY RootOfIsRoot DEF EngineInv
<1>2. \A i \in Nodes(e) : e.parent[i] \in Nodes(e) /\ e.rank[i] \in Nat /\ e.parity[i] \in {0, 1}
    BY DEF EngineInv, Forest, Engine, Nodes
<1>3. \A i \in Nodes(e) :
        /\ e.parent[i] = i => f[i] = [index |-> i, parity |-> 0]
        /\ e.parent[i] # i => f[i] = [index |-> f[e.parent[i]].index,
                                      parity |-> Xor(e.parity[i], f[e.parent[i]].parity)]
    BY <1>1 DEF IsRoot, Nodes
<1>4. \A i \in Nodes(e) : e.parent[i] # i => e.rank[i] < e.rank[e.parent[i]]
    BY DEF EngineInv, Forest
<1> HIDE DEF f
<1>5. ASSUME NEW i \in Nodes(e), e.parent[i] = i PROVE Good(i)
    <2>1. f[i] = [index |-> i, parity |-> 0]
        BY <1>3, <1>5
    <2>2. f[i] \in RootRecord(e)
        BY <2>1 DEF RootRecord
    <2>3. f[i].index = i
        BY <2>1
    <2> QED BY <2>2, <2>3, <1>2, <1>5
<1>6. ASSUME NEW i \in Nodes(e), e.parent[i] # i, Good(e.parent[i])
      PROVE  Good(i) /\ e.rank[i] < e.rank[f[i].index]
    <2> DEFINE p == e.parent[i]
    <2>0. f[i] = [index |-> f[p].index, parity |-> Xor(e.parity[i], f[p].parity)]
        BY <1>3, <1>6
    <2>1. f[i].index = f[p].index /\ f[p].index \in Nodes(e)
        BY <2>0, <1>6 DEF RootRecord
    <2>2. f[i] \in RootRecord(e)
        BY <2>0, <2>1 DEF RootRecord, Xor
    <2>3. e.rank[i] < e.rank[f[i].index]
        BY <1>2, <1>4, <1>6, <2>1
    <2> QED BY <2>1, <2>2, <2>3, <1>2, <1>6
<1>7. \A i \in Nodes(e) : Good(i)
    <2>1. SUFFICES ASSUME B # {} PROVE FALSE
        OBVIOUS
    <2>2. PICK i \in B : e.parent[i] = i \/ e.parent[i] \notin B
        BY <2>1, RankInduction DEF EngineInv
    <2> QED BY <2>2, <1>2, <1>5, <1>6
<1>8. f \in [Nodes(e) -> RootRecord(e)]
    <2>1. f = [i \in Nodes(e) |-> f[i]]
        BY <1>1 DEF IsRoot, Nodes
    <2> QED BY <2>1, <1>7
<1>9. ASSUME NEW i \in Nodes(e), e.parent[i] # i
      PROVE  f[i].index # i /\ e.rank[i] < e.rank[f[i].index]
    <2>1. e.rank[i] < e.rank[f[i].index]
        BY <1>2, <1>6, <1>7, <1>9
    <2> QED BY <2>1, <1>2
<1>10. ASSUME NEW i \in Nodes(e), e.parent[i] # i
       PROVE  /\ f[i].index = f[e.parent[i]].index
              /\ f[i].parity = Xor(e.parity[i], f[e.parent[i]].parity)
    <2>1. f[i] = [index |-> f[e.parent[i]].index,
                  parity |-> Xor(e.parity[i], f[e.parent[i]].parity)]
        BY <1>3, <1>10
    <2> QED BY <2>1
<1>11. ASSUME NEW i \in Nodes(e), e.parent[i] = i PROVE f[i].index = i /\ f[i].parity = 0
    <2>1. f[i] = [index |-> i, parity |-> 0]
        BY <1>3, <1>11
    <2> QED BY <2>1
<1> QED BY <1>1, <1>3, <1>7, <1>8, <1>9, <1>10, <1>11 DEF f

(* Colours agree with the forest if they agree with every node's root.      *)
LEMMA AgreesByRoot ==
    ASSUME NEW e, EngineInv(e), NEW c \in [Nodes(e) -> {0, 1}]
    PROVE  Agrees(c, e) <=>
              \A i \in Nodes(e) : Xor(c[i], c[RootOf(e)[i].index]) = RootOf(e)[i].parity
<1> DEFINE f == RootOf(e)
           Good(i) == Xor(c[i], c[f[i].index]) = f[i].parity
           B == {i \in Nodes(e) : ~Good(i)}
<1>1. \A i \in Nodes(e) : /\ e.parent[i] \in Nodes(e) /\ e.parity[i] \in {0, 1}
                          /\ c[i] \in {0, 1}
                          /\ e.parent[i] = i => e.parity[i] = 0
    BY DEF EngineInv, Forest, Engine, Nodes
<1>2. \A i \in Nodes(e) : f[i] \in RootRecord(e)
    BY RootFacts
<1>3. \A i \in Nodes(e) : f[i].index \in Nodes(e) /\ f[i].parity \in {0, 1}
    BY <1>2 DEF RootRecord
<1>4. \A i \in Nodes(e) : e.parent[i] = i => f[i].index = i /\ f[i].parity = 0
    BY RootFacts
<1>5. \A i \in Nodes(e) : e.parent[i] # i => /\ f[i].index = f[e.parent[i]].index
                                             /\ f[i].parity = Xor(e.parity[i], f[e.parent[i]].parity)
    BY RootFacts
<1> HIDE DEF f
<1>6. ASSUME Agrees(c, e) PROVE \A i \in Nodes(e) : Good(i)
    <2>1. ASSUME NEW i \in Nodes(e), e.parent[i] = i PROVE Good(i)
        BY <1>4, <2>1 DEF Xor
    <2>2. ASSUME NEW i \in Nodes(e), e.parent[i] # i, Good(e.parent[i]) PROVE Good(i)
        <3>1. Xor(c[i], c[e.parent[i]]) = e.parity[i]
            BY <1>6 DEF Agrees
        <3>2. c[i] \in {0, 1} /\ c[e.parent[i]] \in {0, 1} /\ c[f[i].index] \in {0, 1}
            BY <1>1, <1>3
        <3> QED BY <3>1, <3>2, <2>2, <1>5 DEF Xor
    <2>3. SUFFICES ASSUME B # {} PROVE FALSE
        OBVIOUS
    <2>4. PICK i \in B : e.parent[i] = i \/ e.parent[i] \notin B
        BY <2>3, RankInduction DEF EngineInv
    <2> QED BY <2>4, <2>1, <2>2, <1>1
<1>7. ASSUME \A i \in Nodes(e) : Good(i) PROVE Agrees(c, e)
    <2>1. ASSUME NEW i \in Nodes(e), e.parent[i] = i
          PROVE  Xor(c[i], c[e.parent[i]]) = e.parity[i]
        BY <1>1, <2>1 DEF Xor
    <2>2. ASSUME NEW i \in Nodes(e), e.parent[i] # i
          PROVE  Xor(c[i], c[e.parent[i]]) = e.parity[i]
        <3> DEFINE p == e.parent[i]
        <3>1. c[i] \in {0, 1} /\ c[p] \in {0, 1} /\ c[f[i].index] \in {0, 1}
              /\ e.parity[i] \in {0, 1} /\ f[p].parity \in {0, 1}
            BY <1>1, <1>3
        <3>2. /\ Xor(c[i], c[f[i].index]) = f[i].parity
              /\ Xor(c[p], c[f[i].index]) = f[p].parity
              /\ f[i].parity = Xor(e.parity[i], f[p].parity)
            BY <1>1, <1>5, <1>7, <2>2
        <3> QED BY <3>1, <3>2 DEF Xor
    <2> QED BY <2>1, <2>2 DEF Agrees
<1> QED BY <1>6, <1>7 DEF f

(* Any colours of the roots extend to colours that agree with the forest.   *)
LEMMA PaintedAgrees ==
    ASSUME NEW e, EngineInv(e), NEW o \in [Nodes(e) -> {0, 1}], NEW c,
           c = [i \in Nodes(e) |-> Xor(RootOf(e)[i].parity, o[RootOf(e)[i].index])]
    PROVE  c \in [Nodes(e) -> {0, 1}] /\ Agrees(c, e)
<1> DEFINE f == RootOf(e)
<1>1. \A i \in Nodes(e) : f[i] \in RootRecord(e) /\ e.parent[f[i].index] = f[i].index
    BY RootFacts
<1>2. \A i \in Nodes(e) : f[i].index \in Nodes(e) /\ f[i].parity \in {0, 1}
    BY <1>1 DEF RootRecord
<1>3. \A i \in Nodes(e) : f[f[i].index].index = f[i].index /\ f[f[i].index].parity = 0
    BY RootFacts, <1>1, <1>2
<1>4. c \in [Nodes(e) -> {0, 1}]
    BY DEF Xor
<1>5. ASSUME NEW i \in Nodes(e) PROVE Xor(c[i], c[f[i].index]) = f[i].parity
    <2> DEFINE k == f[i].index
    <2>1. c[i] = Xor(f[i].parity, o[k]) /\ c[k] = Xor(0, o[k])
        BY <1>2, <1>3
    <2>2. f[i].parity \in {0, 1} /\ o[k] \in {0, 1}
        BY <1>2
    <2> QED BY <2>1, <2>2 DEF Xor
<1> QED BY <1>4, <1>5, AgreesByRoot

-----------------------------------------------------------------------------
(* What find leaves has the same roots, and the same colours agree with it. *)
LEMMA CompressedKeeps ==
    ASSUME NEW e, EngineInv(e), NEW visited
    PROVE  LET d == Compressed(e, visited)
           IN  /\ EngineInv(d)
               /\ d.size = e.size /\ d.rank = e.rank
               /\ RootOf(d) = RootOf(e)
               /\ \A c \in [Nodes(e) -> {0, 1}] : Agrees(c, d) <=> Agrees(c, e)
<1> DEFINE f == RootOf(e)
           d == Compressed(e, visited)
           parent == [j \in 0..e.size |-> IF j \in visited THEN f[j].index ELSE e.parent[j]]
           parity == [j \in 0..e.size |-> IF j \in visited THEN f[j].parity ELSE e.parity[j]]
<1>1. /\ e.size \in Nat /\ e \in Engine(e.size)
      /\ e.parent \in [0..e.size -> 0..e.size]
      /\ e.rank \in [0..e.size -> Nat] /\ e.parity \in [0..e.size -> {0, 1}]
    BY DEF EngineInv, Forest, Engine
<1>2. /\ d = [e EXCEPT !.parent = parent, !.parity = parity]
      /\ d.size = e.size /\ d.rank = e.rank /\ d.parent = parent /\ d.parity = parity
    <2>1. d = [e EXCEPT !.parent = parent, !.parity = parity]
        BY DEF Compressed
    <2> QED BY <2>1, <1>1 DEF Engine
<1>3. \A i \in Nodes(e) : /\ f[i] \in RootRecord(e) /\ e.parent[f[i].index] = f[i].index
                          /\ f[i].index \in Nodes(e) /\ f[i].parity \in {0, 1}
    BY RootFacts DEF RootRecord
<1>4. \A i \in Nodes(e) : e.parent[i] # i =>
          /\ f[i].index = f[e.parent[i]].index
          /\ f[i].parity = Xor(e.parity[i], f[e.parent[i]].parity)
          /\ f[i].index # i
          /\ e.rank[i] < e.rank[f[i].index]
    BY RootFacts
<1>5. \A i \in Nodes(e) : e.parent[i] = i => /\ f[i] = [index |-> i, parity |-> 0]
                                             /\ f[i].index = i /\ f[i].parity = 0
    BY RootFacts
<1> HIDE DEF d, f
<1>6. d \in Engine(d.size)
    <2>1. parent \in [0..e.size -> 0..e.size] /\ parity \in [0..e.size -> {0, 1}]
        BY <1>1, <1>3 DEF Nodes
    <2> QED BY <2>1, <1>1, <1>2 DEF Engine
<1>7. \A i \in Nodes(e) : d.parent[i] = i <=> e.parent[i] = i
    <2> TAKE i \in Nodes(e)
    <2>1. e.parent[i] = i => f[i].index = i
        BY <1>5
    <2>2. d.parent[i] = IF i \in visited THEN f[i].index ELSE e.parent[i]
        BY <1>2 DEF Nodes
    <2> QED BY <2>1, <2>2, <1>4
<1>8. Forest(d)
    <2>1. ASSUME NEW i \in Nodes(e), d.parent[i] # i PROVE d.rank[i] < d.rank[d.parent[i]]
        <3>1. e.parent[i] # i
            BY <2>1, <1>7
        <3>2. e.rank[i] < e.rank[f[i].index] /\ e.rank[i] < e.rank[e.parent[i]]
            BY <3>1, <1>4 DEF EngineInv, Forest
        <3>3. d.parent[i] = f[i].index \/ d.parent[i] = e.parent[i]
            BY <1>2 DEF Nodes
        <3> QED BY <3>2, <3>3, <1>2
    <2>2. \A i \in Nodes(e) : d.parent[i] = i => d.parity[i] = 0
        <3> TAKE i \in Nodes(e)
        <3>1. e.parent[i] = i => f[i].parity = 0 /\ e.parity[i] = 0
            BY <1>5 DEF EngineInv, Forest
        <3> QED BY <3>1, <1>2, <1>7 DEF Nodes
    <2>3. PICK m \in Nat : \A i \in Nodes(e) : e.rank[i] <= m
        BY DEF EngineInv, Forest
    <2> QED BY <2>1, <2>2, <2>3, <1>1, <1>2, <1>6 DEF Forest, Nodes
<1>9. IsRoot(d, f)
    <2>1. ASSUME NEW i \in Nodes(e)
          PROVE  f[i] = IF d.parent[i] = i THEN [index |-> i, parity |-> 0]
                        ELSE [index |-> f[d.parent[i]].index,
                              parity |-> Xor(d.parity[i], f[d.parent[i]].parity)]
        <3>1. CASE e.parent[i] = i
            BY <3>1, <1>5, <1>7
        <3>2. CASE e.parent[i] # i /\ i \in visited
            <4>1. d.parent[i] = f[i].index /\ d.parity[i] = f[i].parity
                BY <3>2, <1>2 DEF Nodes
            <4>3. Xor(f[i].parity, 0) = f[i].parity
                BY <1>3 DEF Xor
            <4>4. f[i] = [index |-> f[i].index, parity |-> f[i].parity]
                BY <1>3 DEF RootRecord
            <4>5. f[f[i].index].index = f[i].index /\ f[f[i].index].parity = 0
                BY <1>3, <1>5
            <4> QED BY <4>1, <4>3, <4>4, <4>5, <3>2, <1>7, Zenon
        <3>3. CASE e.parent[i] # i /\ i \notin visited
            <4>1. d.parent[i] = e.parent[i] /\ d.parity[i] = e.parity[i]
                BY <3>3, <1>2 DEF Nodes
            <4>2. f[i] = [index |-> f[i].index, parity |-> f[i].parity]
                BY <1>3 DEF RootRecord
            <4> QED BY <4>1, <4>2, <3>3, <1>4, Zenon
        <3> QED BY <3>1, <3>2, <3>3
    <2>2. f = [i \in 0..e.size |-> f[i]]
        BY RootFacts DEF IsRoot, f
    <2>3. f = [i \in 0..e.size |->
                 IF d.parent[i] = i THEN [index |-> i, parity |-> 0]
                 ELSE [index |-> f[d.parent[i]].index,
                       parity |-> Xor(d.parity[i], f[d.parent[i]].parity)]]
        BY <2>1, <2>2, Zenon DEF Nodes
    <2> QED BY <2>3, <1>2, Zenon DEF IsRoot
<1>10. RootOf(d) = f
    BY <1>8, <1>9, RootOfIsRoot, RootUnique
<1>11. EngineInv(d)
    BY <1>8, <1>9 DEF EngineInv
<1>12. \A c \in [Nodes(e) -> {0, 1}] : Agrees(c, d) <=> Agrees(c, e)
    <2> TAKE c \in [Nodes(e) -> {0, 1}]
    <2>1. c \in [Nodes(d) -> {0, 1}] /\ Nodes(d) = Nodes(e)
        BY <1>2 DEF Nodes
    <2>2. Agrees(c, d) <=> \A i \in Nodes(d) : Xor(c[i], c[RootOf(d)[i].index]) = RootOf(d)[i].parity
        BY <2>1, <1>11, AgreesByRoot
    <2>3. Agrees(c, e) <=> \A i \in Nodes(e) : Xor(c[i], c[f[i].index]) = f[i].parity
        BY AgreesByRoot DEF f
    <2> QED BY <2>1, <2>2, <2>3, <1>10
<1> QED BY <1>2, <1>10, <1>11, <1>12 DEF d, f

(* Linking two components adds the one constraint to the forest.            *)
LEMMA LinkedKeeps ==
    ASSUME NEW e, EngineInv(e), NEW l \in Nodes(e), NEW r \in Nodes(e),
           NEW expected \in {0, 1}, RootOf(e)[l].index # RootOf(e)[r].index
    PROVE  LET d == Linked(e, RootOf(e)[l], RootOf(e)[r], expected)
           IN  /\ EngineInv(d)
               /\ d.size = e.size
               /\ \A c \in [Nodes(e) -> {0, 1}] :
                     Agrees(c, d) <=> Agrees(c, e) /\ Xor(c[l], c[r]) = expected
<1> DEFINE f == RootOf(e)
           left == f[l]
           right == f[r]
           d == Linked(e, left, right, expected)
           swap == e.rank[left.index] < e.rank[right.index]
           top == IF swap THEN right.index ELSE left.index
           low == IF swap THEN left.index ELSE right.index
           parity == Xor(Xor(left.parity, right.parity), expected)
           rank == IF e.rank[low] = e.rank[top] THEN e.rank[top] + 1 ELSE e.rank[top]
           g == [i \in 0..e.size |->
                   IF f[i].index = low
                   THEN [index |-> top, parity |-> Xor(f[i].parity, parity)]
                   ELSE f[i]]
<1>1. /\ e.size \in Nat /\ e \in Engine(e.size)
      /\ e.parent \in [0..e.size -> 0..e.size]
      /\ e.rank \in [0..e.size -> Nat] /\ e.parity \in [0..e.size -> {0, 1}]
    BY DEF EngineInv, Forest, Engine
<1>2. \A i \in Nodes(e) : /\ f[i] \in RootRecord(e) /\ e.parent[f[i].index] = f[i].index
                          /\ f[i].index \in Nodes(e) /\ f[i].parity \in {0, 1}
    BY RootFacts DEF RootRecord
<1>3. \A i \in Nodes(e) : e.parent[i] = i => /\ f[i] = [index |-> i, parity |-> 0]
                                             /\ f[i].index = i /\ f[i].parity = 0
    BY RootFacts
<1>4. \A i \in Nodes(e) : e.parent[i] # i =>
          /\ f[i].index = f[e.parent[i]].index
          /\ f[i].parity = Xor(e.parity[i], f[e.parent[i]].parity)
    BY RootFacts
<1>5. IsRoot(e, f)
    BY RootFacts
<1> HIDE DEF f
<1>6. /\ top \in 0..e.size /\ low \in 0..e.size /\ top # low
      /\ e.parent[top] = top /\ e.parent[low] = low
      /\ e.rank[low] <= e.rank[top]
    <2>1. left.index # right.index
        BY DEF f
    <2>2. /\ left.index \in 0..e.size /\ right.index \in 0..e.size
          /\ e.parent[left.index] = left.index /\ e.parent[right.index] = right.index
        BY <1>2 DEF Nodes
    <2>3. e.rank[left.index] \in Nat /\ e.rank[right.index] \in Nat
        BY <2>2, <1>1
    <2>4. CASE swap
        BY <2>1, <2>2, <2>3, <2>4
    <2>5. CASE ~swap
        BY <2>1, <2>2, <2>3, <2>5
    <2> QED BY <2>4, <2>5
<1>7. /\ f[top].index = top /\ f[low].index = low
      /\ f[top].parity = 0 /\ f[low].parity = 0
    BY <1>3, <1>6 DEF Nodes
<1>8. parity \in {0, 1} /\ rank \in Nat
    <2>1. parity \in {0, 1}
        BY DEF Xor
    <2>2. e.rank[top] \in Nat
        BY <1>1, <1>6
    <2>3. rank \in Nat
        BY <2>2
    <2> QED BY <2>1, <2>3
<1>9. d = [e EXCEPT !.parent[low] = top, !.parity[low] = parity, !.rank[top] = rank]
    BY DEF Linked
<1> HIDE DEF parity, rank, top, low, d
<1>10. /\ d.size = e.size
       /\ d.parent = [e.parent EXCEPT ![low] = top]
       /\ d.parity = [e.parity EXCEPT ![low] = parity]
       /\ d.rank = [e.rank EXCEPT ![top] = rank]
    BY <1>1, <1>9 DEF Engine
<1>11. d \in Engine(d.size)
    <2>1. /\ d.parent \in [0..e.size -> 0..e.size] /\ d.rank \in [0..e.size -> Nat]
          /\ d.parity \in [0..e.size -> {0, 1}]
        BY <1>1, <1>6, <1>8, <1>10
    <2>2. d = [size |-> d.size, parent |-> d.parent, rank |-> d.rank, parity |-> d.parity]
        BY <1>1, <1>9 DEF Engine
    <2> QED BY <2>1, <2>2, <1>10 DEF Engine
<1>12. \A i \in Nodes(e) : /\ i = low => d.parent[i] = top /\ d.parity[i] = parity
                           /\ i # low => d.parent[i] = e.parent[i] /\ d.parity[i] = e.parity[i]
                           /\ i # top => d.rank[i] = e.rank[i]
    <2>1. \A i \in Nodes(e) : d.parent[i] = IF i = low THEN top ELSE e.parent[i]
        BY <1>1, <1>10 DEF Nodes
    <2>2. \A i \in Nodes(e) : d.parity[i] = IF i = low THEN parity ELSE e.parity[i]
        BY <1>1, <1>10 DEF Nodes
    <2>3. \A i \in Nodes(e) : d.rank[i] = IF i = top THEN rank ELSE e.rank[i]
        BY <1>1, <1>10 DEF Nodes
    <2> QED BY <2>1, <2>2, <2>3
<1>13. d.rank[top] = rank /\ rank > e.rank[low] /\ rank >= e.rank[top]
    <2>1. e.rank[top] \in Nat /\ e.rank[low] \in Nat
        BY <1>1, <1>6
    <2>2. rank > e.rank[low] /\ rank >= e.rank[top]
        BY <2>1, <1>6 DEF rank
    <2> QED BY <2>2, <1>1, <1>6, <1>10
<1>14. Forest(d)
    <2>1. ASSUME NEW i \in Nodes(e), d.parent[i] # i PROVE d.rank[i] < d.rank[d.parent[i]]
        <3>1. CASE i = low
            BY <3>1, <1>6, <1>12, <1>13
        <3>2. CASE i # low
            <4> DEFINE p == e.parent[i]
            <4>0. d.parent[i] = p /\ p # i /\ p \in Nodes(e)
                BY <3>2, <2>1, <1>1, <1>12 DEF Nodes
            <4>1. p # i /\ p \in Nodes(e) /\ e.rank[i] < e.rank[p] /\ d.parent[i] = p
                BY <4>0 DEF EngineInv, Forest
            <4>2. d.rank[p] >= e.rank[p]
                <5>1. e.rank[p] \in Nat
                    BY <4>1, <1>1 DEF Nodes
                <5>2. p # top => d.rank[p] = e.rank[p]
                    BY <4>1, <1>12
                <5> QED BY <5>1, <5>2, <1>13
            <4>3. d.rank[i] = e.rank[i]
                BY <4>1, <1>6, <1>12
            <4>4. e.rank[i] \in Nat /\ e.rank[p] \in Nat /\ d.rank[p] \in Nat
                BY <4>1, <1>1, <1>8, <1>10 DEF Nodes
            <4> QED BY <4>1, <4>2, <4>3, <4>4
        <3> QED BY <3>1, <3>2
    <2>2. ASSUME NEW i \in Nodes(e), d.parent[i] = i PROVE d.parity[i] = 0
        BY <2>2, <1>6, <1>12 DEF EngineInv, Forest
    <2>3. PICK m \in Nat : \A i \in Nodes(e) : e.rank[i] <= m
        BY DEF EngineInv, Forest
    <2>4. \A i \in Nodes(e) : d.rank[i] <= m + 1
        <3>1. e.rank[top] <= m /\ e.rank[top] \in Nat /\ m + 1 \in Nat
            BY <2>3, <1>1, <1>6 DEF Nodes
        <3>0. rank <= m + 1
            BY <3>1 DEF rank
        <3> TAKE i \in Nodes(e)
        <3>2. e.rank[i] <= m /\ e.rank[i] \in Nat
            BY <2>3, <1>1 DEF Nodes
        <3> QED BY <3>0, <3>1, <3>2, <1>12, <1>13
    <2>5. m + 1 \in Nat /\ Nodes(d) = Nodes(e)
        BY <1>10 DEF Nodes
    <2> QED BY <2>1, <2>2, <2>4, <2>5, <1>1, <1>10, <1>11 DEF Forest
<1>15. IsRoot(d, g)
    <2>1. \A i \in Nodes(e) : g[i] = IF f[i].index = low
                                     THEN [index |-> top, parity |-> Xor(f[i].parity, parity)]
                                     ELSE f[i]
        BY DEF Nodes
    <2>2. ASSUME NEW i \in Nodes(e)
          PROVE  g[i] = IF d.parent[i] = i THEN [index |-> i, parity |-> 0]
                        ELSE [index |-> g[d.parent[i]].index,
                              parity |-> Xor(d.parity[i], g[d.parent[i]].parity)]
        <3>1. CASE i = low
            <4>0. top \in Nodes(e) /\ low \in Nodes(e)
                BY <1>6 DEF Nodes
            <4>1. g[low] = [index |-> top, parity |-> Xor(0, parity)] /\ g[top] = f[top]
                BY <4>0, <2>1, <1>6, <1>7, Zenon
            <4>2. Xor(0, parity) = Xor(parity, 0)
                BY <1>8 DEF Xor
            <4>3. d.parent[i] = top /\ d.parity[i] = parity /\ top # i
                BY <4>0, <3>1, <1>6, <1>12
            <4>4. g[top].index = top /\ g[top].parity = 0
                BY <4>1, <1>7
            <4> QED BY <4>1, <4>2, <4>3, <4>4, <3>1, Zenon
        <3>2. CASE i # low /\ e.parent[i] = i
            <4>1. g[i] = [index |-> i, parity |-> 0]
                BY <3>2, <2>1, <1>3
            <4> QED BY <4>1, <3>2, <1>12
        <3>3. CASE e.parent[i] # i
            <4> DEFINE p == e.parent[i]
            <4>1. p \in Nodes(e) /\ i # low /\ d.parent[i] = p /\ d.parity[i] = e.parity[i]
                BY <3>3, <1>1, <1>6, <1>12 DEF Nodes
            <4>2. f[i].index = f[p].index /\ f[i].parity = Xor(e.parity[i], f[p].parity)
                BY <3>3, <1>4
            <4>3. CASE f[p].index = low
                <5>1. g[i] = [index |-> top, parity |-> Xor(f[i].parity, parity)]
                    BY <4>2, <4>3, <2>1
                <5>2. g[p] = [index |-> top, parity |-> Xor(f[p].parity, parity)]
                    BY <4>1, <4>3, <2>1
                <5>3. g[p].index = top /\ g[p].parity = Xor(f[p].parity, parity)
                    BY <5>2
                <5>4. f[p].parity \in {0, 1} /\ e.parity[i] \in {0, 1}
                    BY <4>1, <1>1, <1>2 DEF Nodes
                <5>5. Xor(f[i].parity, parity) = Xor(e.parity[i], g[p].parity)
                    BY <5>3, <5>4, <4>2, <1>8 DEF Xor
                <5> QED BY <5>1, <5>3, <5>5, <4>1, <3>3, Zenon
            <4>4. CASE f[p].index # low
                <5>1. g[i] = f[i] /\ g[p] = f[p]
                    BY <4>1, <4>2, <4>4, <2>1, Zenon
                <5>2. f[i] = [index |-> f[i].index, parity |-> f[i].parity]
                    BY <1>2 DEF RootRecord
                <5> QED BY <5>1, <5>2, <4>1, <4>2, <3>3, Zenon
            <4> QED BY <4>3, <4>4
        <3> QED BY <3>1, <3>2, <3>3
    <2> QED BY <2>2, <1>10 DEF IsRoot, Nodes
<1>16. ASSUME NEW c \in [Nodes(e) -> {0, 1}]
       PROVE  Agrees(c, d) <=> Agrees(c, e) /\ Xor(c[l], c[r]) = expected
    <2>1. Agrees(c, d) <=> Agrees(c, e) /\ Xor(c[low], c[top]) = parity
        <3>1. \A i \in Nodes(e) : i # low =>
                 (Xor(c[i], c[d.parent[i]]) = d.parity[i] <=> Xor(c[i], c[e.parent[i]]) = e.parity[i])
            BY <1>12
        <3>2. Xor(c[low], c[d.parent[low]]) = d.parity[low] <=> Xor(c[low], c[top]) = parity
            BY <1>6, <1>12 DEF Nodes
        <3>3. Xor(c[low], c[e.parent[low]]) = e.parity[low]
            BY <1>6 DEF Xor, EngineInv, Forest, Nodes
        <3>4. low \in Nodes(e) /\ Nodes(d) = Nodes(e)
            BY <1>6, <1>10 DEF Nodes
        <3> QED BY <3>1, <3>2, <3>3, <3>4 DEF Agrees
    <2>2. ASSUME Agrees(c, e)
          PROVE  Xor(c[low], c[top]) = parity <=> Xor(c[l], c[r]) = expected
        <3>1. /\ Xor(c[l], c[left.index]) = left.parity
              /\ Xor(c[r], c[right.index]) = right.parity
            BY <2>2, AgreesByRoot DEF f
        <3>2. /\ c[l] \in {0, 1} /\ c[r] \in {0, 1}
              /\ c[left.index] \in {0, 1} /\ c[right.index] \in {0, 1}
              /\ left.parity \in {0, 1} /\ right.parity \in {0, 1}
            BY <1>2
        <3>3. \/ low = left.index /\ top = right.index
              \/ low = right.index /\ top = left.index
            BY DEF low, top
        <3>4. Xor(c[low], c[top]) = Xor(c[left.index], c[right.index])
            BY <3>3 DEF Xor
        <3> QED BY <3>1, <3>2, <3>4 DEF Xor, parity
    <2> QED BY <2>1, <2>2
<1> QED BY <1>10, <1>14, <1>15, <1>16 DEF EngineInv, d, f

(* A new network is a component of its own, of either colour.               *)
LEMMA AddKeeps ==
    ASSUME NEW e, EngineInv(e)
    PROVE  LET d == Add(e)
           IN  /\ EngineInv(d)
               /\ d.size = e.size + 1
               /\ \A c \in [Nodes(d) -> {0, 1}], b \in [Nodes(e) -> {0, 1}] :
                     (\A i \in Nodes(e) : c[i] = b[i]) => (Agrees(c, d) <=> Agrees(b, e))
<1> DEFINE f == RootOf(e)
           d == Add(e)
           new == e.size + 1
           g == [i \in 0..new |-> IF i = new THEN [index |-> new, parity |-> 0] ELSE f[i]]
<1>1. /\ e.size \in Nat /\ new \in Nat /\ new \notin 0..e.size
      /\ e.parent \in [0..e.size -> 0..e.size]
      /\ e.rank \in [0..e.size -> Nat] /\ e.parity \in [0..e.size -> {0, 1}]
      /\ 0..new = 0..e.size \cup {new}
    BY DEF EngineInv, Forest, Engine
<1>2. /\ d.size = new
      /\ d.parent = [i \in 0..new |-> IF i = new THEN new ELSE e.parent[i]]
      /\ d.rank = [i \in 0..new |-> IF i = new THEN 0 ELSE e.rank[i]]
      /\ d.parity = [i \in 0..new |-> IF i = new THEN 0 ELSE e.parity[i]]
      /\ d = [size |-> d.size, parent |-> d.parent, rank |-> d.rank, parity |-> d.parity]
    BY DEF Add
<1>3. f = [i \in 0..e.size |->
            IF e.parent[i] = i THEN [index |-> i, parity |-> 0]
            ELSE [index |-> f[e.parent[i]].index,
                  parity |-> Xor(e.parity[i], f[e.parent[i]].parity)]]
    BY RootFacts DEF IsRoot
<1> HIDE DEF d, f
<1>4. d \in Engine(d.size)
    <2>1. /\ d.parent \in [0..new -> 0..new] /\ d.rank \in [0..new -> Nat]
          /\ d.parity \in [0..new -> {0, 1}]
        BY <1>1, <1>2
    <2> QED BY <2>1, <1>2 DEF Engine
<1>5. /\ \A i \in Nodes(e) : /\ d.parent[i] = e.parent[i] /\ d.rank[i] = e.rank[i]
                             /\ d.parity[i] = e.parity[i]
                             /\ e.parent[i] \in Nodes(e) /\ e.rank[i] \in Nat
                             /\ i # new
      /\ d.parent[new] = new /\ d.rank[new] = 0 /\ d.parity[new] = 0
      /\ Nodes(d) = Nodes(e) \cup {new}
    BY <1>1, <1>2 DEF Nodes
<1>6. Forest(d)
    <2>1. \A i \in Nodes(d) : d.parent[i] # i => d.rank[i] < d.rank[d.parent[i]]
        BY <1>5 DEF EngineInv, Forest
    <2>2. \A i \in Nodes(d) : d.parent[i] = i => d.parity[i] = 0
        BY <1>5 DEF EngineInv, Forest
    <2>3. PICK m \in Nat : \A i \in Nodes(e) : e.rank[i] <= m
        BY DEF EngineInv, Forest
    <2>4. \A i \in Nodes(d) : d.rank[i] <= m
        BY <2>3, <1>5
    <2> QED BY <2>1, <2>2, <2>3, <2>4, <1>1, <1>2, <1>4 DEF Forest
<1>7. IsRoot(d, g)
    <2>1. /\ \A i \in Nodes(e) : g[i] = f[i]
          /\ g[new] = [index |-> new, parity |-> 0]
          /\ g = [i \in 0..new |-> g[i]]
        BY <1>1 DEF Nodes
    <2> HIDE DEF g
    <2>2. ASSUME NEW i \in Nodes(e)
          PROVE  g[i] = IF d.parent[i] = i THEN [index |-> i, parity |-> 0]
                        ELSE [index |-> g[d.parent[i]].index,
                              parity |-> Xor(d.parity[i], g[d.parent[i]].parity)]
        <3>1. f[i] = IF e.parent[i] = i THEN [index |-> i, parity |-> 0]
                     ELSE [index |-> f[e.parent[i]].index,
                           parity |-> Xor(e.parity[i], f[e.parent[i]].parity)]
            BY <1>3, Zenon DEF Nodes
        <3>2. /\ g[i] = f[i] /\ g[e.parent[i]] = f[e.parent[i]]
              /\ d.parent[i] = e.parent[i] /\ d.parity[i] = e.parity[i]
            BY <2>1, <1>5
        <3> QED BY <3>1, <3>2, Zenon
    <2>3. \A i \in 0..new :
             g[i] = IF d.parent[i] = i THEN [index |-> i, parity |-> 0]
                    ELSE [index |-> g[d.parent[i]].index,
                          parity |-> Xor(d.parity[i], g[d.parent[i]].parity)]
        BY <2>1, <2>2, <1>1, <1>5, Zenon DEF Nodes
    <2>4. g = [i \in 0..new |->
                 IF d.parent[i] = i THEN [index |-> i, parity |-> 0]
                 ELSE [index |-> g[d.parent[i]].index,
                       parity |-> Xor(d.parity[i], g[d.parent[i]].parity)]]
        BY <2>1, <2>3, Zenon
    <2> QED BY <2>4, <1>2, Zenon DEF IsRoot
<1>8. ASSUME NEW c \in [Nodes(d) -> {0, 1}], NEW b \in [Nodes(e) -> {0, 1}],
             \A i \in Nodes(e) : c[i] = b[i]
      PROVE  Agrees(c, d) <=> Agrees(b, e)
    <2>1. \A i \in Nodes(e) : Xor(c[i], c[d.parent[i]]) = Xor(b[i], b[e.parent[i]])
        BY <1>5, <1>8
    <2>2. Xor(c[new], c[d.parent[new]]) = d.parity[new]
        BY <1>5 DEF Xor
    <2> QED BY <2>1, <2>2, <1>5 DEF Agrees
<1> QED BY <1>2, <1>6, <1>7, <1>8 DEF EngineInv, d

(* Accepted constraints always have a colouring with the anchor red.        *)
LEMMA SomePossible ==
    ASSUME NEW e, EngineInv(e)
    PROVE  Possible(e) # {}
<1> DEFINE f == RootOf(e)
           o == [i \in Nodes(e) |-> IF i = f[0].index THEN f[0].parity ELSE 0]
           c == [i \in Nodes(e) |-> Xor(f[i].parity, o[f[i].index])]
<1>1. \A i \in Nodes(e) : f[i].index \in Nodes(e) /\ f[i].parity \in {0, 1}
    BY RootFacts DEF RootRecord
<1>2. 0 \in Nodes(e)
    BY DEF EngineInv, Forest, Nodes
<1>3. o \in [Nodes(e) -> {0, 1}]
    BY <1>1, <1>2
<1>4. c \in [Nodes(e) -> {0, 1}] /\ Agrees(c, e)
    BY <1>3, PaintedAgrees
<1>5. c[0] = 0
    BY <1>1, <1>2 DEF Xor
<1>6. c \in Possible(e)
    BY <1>4, <1>5 DEF Possible, Agrees, Nodes, Red, Green
<1> QED BY <1>6

-----------------------------------------------------------------------------
(* A new engine knows the anchor only.                                      *)
LEMMA NewEngineInv == EngineInv(NewEngine)
<1> DEFINE e == NewEngine
           f == [i \in {0} |-> [index |-> 0, parity |-> 0]]
<1>1. /\ e.size = 0 /\ e.parent = [i \in {0} |-> 0]
      /\ e.rank = [i \in {0} |-> 0] /\ e.parity = [i \in {0} |-> 0]
      /\ e = [size |-> e.size, parent |-> e.parent, rank |-> e.rank, parity |-> e.parity]
      /\ 0..0 = {0}
    BY DEF NewEngine
<1> HIDE DEF e
<1>2. e \in Engine(e.size)
    <2>1. e.parent \in [0..0 -> 0..0] /\ e.rank \in [0..0 -> Nat] /\ e.parity \in [0..0 -> {0, 1}]
        BY <1>1
    <2> QED BY <2>1, <1>1 DEF Engine
<1>3. Forest(e)
    BY <1>1, <1>2 DEF Forest, Nodes
<1>4. IsRoot(e, f)
    BY <1>1 DEF IsRoot
<1> QED BY <1>3, <1>4 DEF EngineInv, e

(* The colourings are the same whatever find visited.                       *)
LEMMA VisitedPossible ==
    ASSUME NEW e, EngineInv(e), NEW visited
    PROVE  LET d == Compressed(e, visited)
           IN  /\ EngineInv(d) /\ d.size = e.size
               /\ RootOf(d) = RootOf(e)
               /\ Possible(d) = Possible(e)
<1> DEFINE d == Compressed(e, visited)
<1>1. /\ EngineInv(d) /\ d.size = e.size /\ RootOf(d) = RootOf(e)
      /\ \A c \in [Nodes(e) -> {0, 1}] : Agrees(c, d) <=> Agrees(c, e)
    BY CompressedKeeps
<1> HIDE DEF d
<1>2. Possible(d) = Possible(e)
    BY <1>1 DEF Possible, Agrees, Nodes, Red, Green
<1> QED BY <1>1, <1>2 DEF d

(* What two calls of find leave.                                            *)
LEMMA FoundKeeps ==
    ASSUME NEW e, EngineInv(e), NEW l, NEW r
    PROVE  LET d == Found(Found(e, l), r)
           IN  /\ EngineInv(d) /\ d.size = e.size
               /\ RootOf(d) = RootOf(e)
               /\ Possible(d) = Possible(e)
<1> DEFINE m == Found(e, l)
<1>1. EngineInv(m) /\ m.size = e.size /\ RootOf(m) = RootOf(e) /\ Possible(m) = Possible(e)
    BY VisitedPossible DEF Found
<1> HIDE DEF m
<1> DEFINE d == Found(m, r)
<1>2. EngineInv(d) /\ d.size = m.size /\ RootOf(d) = RootOf(m) /\ Possible(d) = Possible(m)
    BY <1>1, VisitedPossible DEF Found
<1> QED BY <1>1, <1>2 DEF m

LEMMA PossibleAgrees ==
    ASSUME NEW e
    PROVE  Possible(e) = {c \in [Nodes(e) -> {0, 1}] : c[0] = 0 /\ Agrees(c, e)}
BY DEF Possible, Agrees, Nodes, Red, Green

(* In one component every colouring relates two nodes alike.                *)
LEMMA SameComponent ==
    ASSUME NEW e, EngineInv(e), NEW l \in Nodes(e), NEW r \in Nodes(e),
           RootOf(e)[l].index = RootOf(e)[r].index, NEW c \in Possible(e)
    PROVE  Xor(c[l], c[r]) = Xor(RootOf(e)[l].parity, RootOf(e)[r].parity)
<1> DEFINE f == RootOf(e)
<1>1. c \in [Nodes(e) -> {0, 1}] /\ Agrees(c, e)
    BY PossibleAgrees
<1>2. /\ Xor(c[l], c[f[l].index]) = f[l].parity
      /\ Xor(c[r], c[f[r].index]) = f[r].parity
    BY <1>1, AgreesByRoot
<1>3. f[l].index \in Nodes(e) /\ f[l].parity \in {0, 1} /\ f[r].parity \in {0, 1}
    BY RootFacts DEF RootRecord
<1>4. c[l] \in {0, 1} /\ c[r] \in {0, 1} /\ c[f[l].index] \in {0, 1}
    BY <1>1, <1>3
<1> QED BY <1>2, <1>3, <1>4 DEF Xor

(* Between two components both relations are possible.                      *)
LEMMA OtherComponent ==
    ASSUME NEW e, EngineInv(e), NEW l \in Nodes(e), NEW r \in Nodes(e),
           NEW expected \in {0, 1}, RootOf(e)[l].index # RootOf(e)[r].index
    PROVE  LET d == Linked(e, RootOf(e)[l], RootOf(e)[r], expected)
           IN  /\ EngineInv(d) /\ d.size = e.size
               /\ Possible(d) = {c \in Possible(e) : Xor(c[l], c[r]) = expected}
               /\ Possible(d) # {}
<1> DEFINE d == Linked(e, RootOf(e)[l], RootOf(e)[r], expected)
<1>1. /\ EngineInv(d) /\ d.size = e.size
      /\ \A c \in [Nodes(e) -> {0, 1}] :
            Agrees(c, d) <=> Agrees(c, e) /\ Xor(c[l], c[r]) = expected
    BY LinkedKeeps
<1> HIDE DEF d
<1>2. Possible(d) = {c \in [Nodes(e) -> {0, 1}] : c[0] = 0 /\ Agrees(c, d)}
    BY <1>1, PossibleAgrees DEF Nodes
<1>3. Possible(d) = {c \in Possible(e) : Xor(c[l], c[r]) = expected}
    BY <1>1, <1>2, PossibleAgrees
<1>4. Possible(d) # {}
    BY <1>1, SomePossible
<1> QED BY <1>1, <1>3, <1>4 DEF d

(* The colourings that satisfy one more constraint.                         *)
Still(e, l, r, expected) == {c \in Possible(e) : Xor(c[l], c[r]) = expected}

(* unite accepts a constraint exactly if some colouring satisfies it and    *)
(* all those accepted before.                                               *)
LEMMA UniteKeeps ==
    ASSUME NEW e, EngineInv(e), NEW l \in Nodes(e), NEW r \in Nodes(e),
           NEW expected \in {0, 1}
    PROVE  /\ EngineInv(Unite(e, l, r, expected).engine)
           /\ Unite(e, l, r, expected).engine.size = e.size
           /\ Possible(Unite(e, l, r, expected).engine) =
                  IF Still(e, l, r, expected) = {} THEN Possible(e) ELSE Still(e, l, r, expected)
           /\ Unite(e, l, r, expected).outcome =
                  IF Still(e, l, r, expected) = {} THEN "conflict" ELSE "accepted"
<1> DEFINE u == Unite(e, l, r, expected)
           still == Still(e, l, r, expected)
           left == RootOf(e)[l]
           right == RootOf(e)[r]
           found == Found(Found(e, l), r)
<1>1. /\ EngineInv(found) /\ found.size = e.size
      /\ RootOf(found) = RootOf(e) /\ Possible(found) = Possible(e)
    BY FoundKeeps
<1> HIDE DEF found
<1>2. CASE left.index = right.index
    <2> DEFINE answer == IF Xor(left.parity, right.parity) = expected
                         THEN "accepted" ELSE "conflict"
    <2>1. u = [engine |-> found, outcome |-> answer]
        BY <1>2 DEF Unite, found
    <2> HIDE DEF u, answer
    <2>2. u.engine = found /\ u.outcome = answer
        BY <2>1
    <2>3. \A c \in Possible(e) : Xor(c[l], c[r]) = Xor(left.parity, right.parity)
        BY <1>2, SameComponent
    <2>4. Possible(e) # {}
        BY SomePossible
    <2> HIDE DEF left, right
    <2>5. /\ Xor(left.parity, right.parity) = expected => still = Possible(e)
          /\ Xor(left.parity, right.parity) # expected => still = {}
        BY <2>3 DEF Still
    <2> HIDE DEF still
    <2>6. u.outcome = IF still = {} THEN "conflict" ELSE "accepted"
        BY <2>2, <2>4, <2>5 DEF answer
    <2>7. Possible(u.engine) = IF still = {} THEN Possible(e) ELSE still
        BY <2>2, <2>4, <2>5, <1>1
    <2> QED BY <2>2, <2>6, <2>7, <1>1 DEF u, still
<1>3. CASE left.index # right.index
    <2> DEFINE d == Linked(found, left, right, expected)
    <2>1. u = [engine |-> d, outcome |-> "accepted"]
        BY <1>3 DEF Unite, found
    <2>2. u.engine = d /\ u.outcome = "accepted"
        BY <2>1
    <2>3. l \in Nodes(found) /\ r \in Nodes(found)
        BY <1>1 DEF Nodes
    <2>4. /\ EngineInv(d) /\ d.size = found.size
          /\ Possible(d) = {c \in Possible(found) : Xor(c[l], c[r]) = expected}
          /\ Possible(d) # {}
        BY <1>1, <1>3, <2>3, OtherComponent
    <2> HIDE DEF d
    <2>5. Possible(d) = still /\ still # {}
        BY <2>4, <1>1 DEF Still
    <2> HIDE DEF u, still
    <2>6. u.outcome = IF still = {} THEN "conflict" ELSE "accepted"
        BY <2>2, <2>5
    <2> QED BY <2>2, <2>4, <2>5, <2>6, <1>1 DEF u, still
<1> QED BY <1>2, <1>3

-----------------------------------------------------------------------------
(* A new network takes either colour, whatever the others have.             *)
LEMMA AddPossible ==
    ASSUME NEW e, EngineInv(e)
    PROVE  LET d == Add(e)
           IN  /\ EngineInv(d) /\ d.size = e.size + 1
               /\ Possible(d) = {c \in [0..e.size + 1 -> {0, 1}] :
                                    \E b \in Possible(e) : \A i \in 0..e.size : c[i] = b[i]}
<1> DEFINE d == Add(e)
<1>1. /\ EngineInv(d) /\ d.size = e.size + 1
      /\ \A c \in [Nodes(d) -> {0, 1}], b \in [Nodes(e) -> {0, 1}] :
            (\A i \in Nodes(e) : c[i] = b[i]) => (Agrees(c, d) <=> Agrees(b, e))
    BY AddKeeps
<1> HIDE DEF d
<1>2. e.size \in Nat /\ Nodes(e) \subseteq Nodes(d) /\ 0 \in Nodes(e)
    BY <1>1 DEF EngineInv, Forest, Nodes
<1>3. Possible(d) = {c \in [Nodes(d) -> {0, 1}] : c[0] = 0 /\ Agrees(c, d)}
    BY PossibleAgrees
<1>4. ASSUME NEW c \in [Nodes(d) -> {0, 1}], c[0] = 0, Agrees(c, d)
      PROVE  \E b \in Possible(e) : \A i \in Nodes(e) : c[i] = b[i]
    <2> DEFINE b == [i \in Nodes(e) |-> c[i]]
    <2>1. b \in [Nodes(e) -> {0, 1}] /\ b[0] = 0 /\ \A i \in Nodes(e) : c[i] = b[i]
        BY <1>2, <1>4
    <2>2. Agrees(b, e)
        BY <2>1, <1>1, <1>4
    <2> QED BY <2>1, <2>2, PossibleAgrees
<1>5. ASSUME NEW c \in [Nodes(d) -> {0, 1}], NEW b \in Possible(e),
             \A i \in Nodes(e) : c[i] = b[i]
      PROVE  c[0] = 0 /\ Agrees(c, d)
    <2>1. b \in [Nodes(e) -> {0, 1}] /\ b[0] = 0 /\ Agrees(b, e)
        BY PossibleAgrees
    <2> QED BY <2>1, <1>1, <1>2, <1>5
<1>6. Possible(d) = {c \in [Nodes(d) -> {0, 1}] :
                        \E b \in Possible(e) : \A i \in Nodes(e) : c[i] = b[i]}
    BY <1>3, <1>4, <1>5
<1> QED BY <1>1, <1>6 DEF d, Nodes

(* relation answers what all possible colourings have in common.            *)
LEMMA RelationIsCommon ==
    ASSUME NEW e, EngineInv(e), NEW l \in Nodes(e), NEW r \in Nodes(e)
    PROVE  RelationOf(e, l, r) =
              IF \A c \in Possible(e) : c[l] = c[r] THEN "same"
              ELSE IF \A c \in Possible(e) : c[l] # c[r] THEN "different"
              ELSE "unrelated"
<1> DEFINE left == RootOf(e)[l]
           right == RootOf(e)[r]
<1>1. left.parity \in {0, 1} /\ right.parity \in {0, 1}
    BY RootFacts DEF RootRecord
<1>2. PICK b : b \in Possible(e)
    BY SomePossible
<1>3. CASE left.index = right.index
    <2>1. \A c \in Possible(e) : Xor(c[l], c[r]) = Xor(left.parity, right.parity)
        BY <1>3, SameComponent
    <2>2. \A c \in Possible(e) : c[l] = c[r] <=> left.parity = right.parity
        BY <2>1, <1>1 DEF Xor
    <2>3. RelationOf(e, l, r) = IF left.parity = right.parity THEN "same" ELSE "different"
        BY <1>3 DEF RelationOf
    <2> HIDE DEF left, right
    <2> QED BY <2>2, <2>3, <1>2
<1>4. CASE left.index # right.index
    <2>1. \E c \in Possible(e) : Xor(c[l], c[r]) = 0
        <3> DEFINE d == Linked(e, left, right, 0)
        <3>1. Possible(d) = {c \in Possible(e) : Xor(c[l], c[r]) = 0} /\ Possible(d) # {}
            BY <1>4, OtherComponent
        <3> HIDE DEF d
        <3> QED BY <3>1
    <2>2. \E c \in Possible(e) : Xor(c[l], c[r]) = 1
        <3> DEFINE d == Linked(e, left, right, 1)
        <3>1. Possible(d) = {c \in Possible(e) : Xor(c[l], c[r]) = 1} /\ Possible(d) # {}
            BY <1>4, OtherComponent
        <3> HIDE DEF d
        <3> QED BY <3>1
    <2>3. ~(\A c \in Possible(e) : c[l] = c[r]) /\ ~(\A c \in Possible(e) : c[l] # c[r])
        BY <2>1, <2>2 DEF Xor
    <2>4. RelationOf(e, l, r) = "unrelated"
        BY <1>4 DEF RelationOf
    <2> QED BY <2>3, <2>4
<1> QED BY <1>3, <1>4

(* Every component off the anchor's has a first member.                     *)
LEMMA FirstMember ==
    ASSUME NEW e, EngineInv(e), NEW index \in Nodes(e),
           RootOf(e)[index].index = index, index # RootOf(e)[0].index
    PROVE  \E m \in 1..e.size :
              /\ RootOf(e)[m].index = index
              /\ \A j \in 1..e.size : RootOf(e)[j].index = index => m <= j
              /\ Orientation(e, index) = RootOf(e)[m].parity
<1> DEFINE root == RootOf(e)
           First(k) == /\ root[k].index = index
                       /\ \A j \in 1..e.size : root[j].index = index => k <= j
           S == {k \in 1..e.size : root[k].index = index}
<1>1. e.size \in Nat
    BY DEF EngineInv, Forest
<1>2. index \in S
    <2>1. index # 0
        OBVIOUS
    <2> QED BY <2>1, <1>1 DEF Nodes
<1>3. S \in SUBSET Nat
    BY <1>1
<1>4. PICK k \in S : \A j \in S : k <= j
    BY <1>2, <1>3, LeastNatural
<1>5. k \in 1..e.size /\ First(k)
    BY <1>4
<1> DEFINE m == CHOOSE n \in 1..e.size : First(n)
<1>6. m \in 1..e.size /\ First(m)
    BY <1>5, Zenon
<1>7. Orientation(e, index) = root[m].parity
    BY Zenon DEF Orientation
<1> HIDE DEF m
<1> QED BY <1>6, <1>7

(* resolve finds the least of the possible colourings.                      *)
LEMMA ColoringIsLeast ==
    ASSUME NEW e, EngineInv(e)
    PROVE  /\ Coloring(e) \in Possible(e)
           /\ \A d \in Possible(e), i \in 0..e.size :
                 (\A j \in 0..e.size : j < i => d[j] = Coloring(e)[j]) /\ d[i] # Coloring(e)[i]
                    => Coloring(e)[i] = 0
<1> DEFINE f == RootOf(e)
           col == Coloring(e)
           o == [k \in Nodes(e) |-> IF f[k].index = k THEN Orientation(e, k) ELSE 0]
<1>1. /\ e.size \in Nat /\ 0 \in Nodes(e) /\ 1..e.size \subseteq Nodes(e)
      /\ \A i \in Nodes(e) : i \in Nat
    BY DEF EngineInv, Forest, Nodes
<1>2. \A i \in Nodes(e) : /\ f[i].index \in Nodes(e) /\ f[i].parity \in {0, 1}
                          /\ e.parent[f[i].index] = f[i].index
    BY RootFacts DEF RootRecord
<1>3. \A i \in Nodes(e) : f[f[i].index].index = f[i].index
    BY RootFacts, <1>2
<1>4. Orientation(e, f[0].index) = f[0].parity
    BY DEF Orientation
<1>5. \A k \in Nodes(e) : f[k].index = k /\ k # f[0].index =>
          \E m \in 1..e.size :
              /\ f[m].index = k
              /\ \A j \in 1..e.size : f[j].index = k => m <= j
              /\ Orientation(e, k) = f[m].parity
    BY FirstMember
<1>6. col = [i \in Nodes(e) |-> Xor(f[i].parity, Orientation(e, f[i].index))]
    BY DEF Coloring, Nodes
<1> HIDE DEF f, col
<1>7. o \in [Nodes(e) -> {0, 1}]
    <2>1. ASSUME NEW k \in Nodes(e), f[k].index = k PROVE Orientation(e, k) \in {0, 1}
        BY <2>1, <1>1, <1>2, <1>4, <1>5
    <2> QED BY <2>1
<1>8. col = [i \in Nodes(e) |-> Xor(f[i].parity, o[f[i].index])]
    <2>1. \A i \in Nodes(e) : o[f[i].index] = Orientation(e, f[i].index)
        BY <1>2, <1>3
    <2> HIDE DEF o
    <2> QED BY <2>1, <1>6
<1>9. col \in [Nodes(e) -> {0, 1}] /\ Agrees(col, e)
    BY <1>7, <1>8, PaintedAgrees DEF f
<1>10. \A i \in Nodes(e) : col[i] = Xor(f[i].parity, Orientation(e, f[i].index))
    BY <1>6
<1>11. col[0] = 0
    BY <1>1, <1>4, <1>10 DEF Xor
<1>12. col \in Possible(e)
    BY <1>9, <1>11, PossibleAgrees
<1>13. ASSUME NEW d \in Possible(e), NEW i \in Nodes(e),
              \A j \in Nodes(e) : j < i => d[j] = col[j], d[i] # col[i]
       PROVE  col[i] = 0
    <2>1. d \in [Nodes(e) -> {0, 1}] /\ d[0] = 0
        BY PossibleAgrees
    <2>2. ASSUME NEW m \in Nodes(e), f[m].index = f[i].index PROVE d[m] # col[m]
        <3>1. Xor(d[m], d[i]) = Xor(f[m].parity, f[i].parity)
            BY <2>2, SameComponent DEF f
        <3>2. Xor(col[m], col[i]) = Xor(f[m].parity, f[i].parity)
            BY <2>2, <1>12, SameComponent DEF f
        <3>3. d[m] \in {0, 1} /\ d[i] \in {0, 1} /\ col[m] \in {0, 1} /\ col[i] \in {0, 1}
            BY <2>1, <1>9
        <3> QED BY <3>1, <3>2, <3>3, <1>13 DEF Xor
    <2>3. f[i].index # f[0].index
        BY <2>1, <2>2, <1>1, <1>11
    <2>4. PICK m \in 1..e.size :
              /\ f[m].index = f[i].index
              /\ \A j \in 1..e.size : f[j].index = f[i].index => m <= j
              /\ Orientation(e, f[i].index) = f[m].parity
        BY <2>3, <1>2, <1>3, <1>5
    <2>5. i \in 1..e.size /\ m \in Nodes(e)
        BY <2>3, <1>1 DEF Nodes
    <2>6. m <= i /\ ~(m < i)
        BY <2>2, <2>4, <2>5, <1>13
    <2>7. m = i
        BY <2>5, <2>6, <1>1
    <2> QED BY <2>4, <2>7, <1>2, <1>10 DEF Xor
<1> QED BY <1>12, <1>13 DEF col, Nodes

-----------------------------------------------------------------------------
(* The union-find stays a forest whose find ends, whatever is called.       *)
LEMMA NextKeepsEngine ==
    ASSUME EngineInv(engine), [Next]_vars
    PROVE  EngineInv(engine')
<1>1. engine.size \in Nat
    BY DEF EngineInv, Forest
<1>2. CASE AddNetwork
    BY <1>2, AddPossible DEF AddNetwork
<1>3. CASE Constrain
    <2>1. PICK l, r \in 1..engine.size, expected \in {0, 1} :
             engine' = Unite(engine, l, r, expected).engine
        BY <1>3 DEF Constrain, Require
    <2>2. l \in Nodes(engine) /\ r \in Nodes(engine)
        BY <1>1 DEF Nodes
    <2> QED BY <2>1, <2>2, UniteKeeps, Zenon
<1>4. CASE Fix
    <2>1. PICK i \in 1..engine.size, color \in {0, 1} :
             engine' = Unite(engine, i, 0, color).engine
        BY <1>4 DEF Fix, Require, Red, Green
    <2>2. i \in Nodes(engine) /\ 0 \in Nodes(engine)
        BY <1>1 DEF Nodes
    <2> QED BY <2>1, <2>2, UniteKeeps, Zenon
<1>5. CASE Relate
    BY <1>5, FoundKeeps DEF Relate
<1>6. CASE Resolve
    BY <1>6, VisitedPossible DEF Resolve
<1>7. CASE Unknown
    BY <1>7, VisitedPossible DEF Unknown, Found
<1>8. CASE UNCHANGED vars
    BY <1>8 DEF vars
<1> QED BY <1>2, <1>3, <1>4, <1>5, <1>6, <1>7, <1>8 DEF Next

(* For any number of networks the engine is a forest in which find ends.    *)
THEOREM EngineCorrect == Spec => []EngineInv(engine)
<1>1. Init => EngineInv(engine)
    BY NewEngineInv DEF Init
<1>2. EngineInv(engine) /\ [Next]_vars => EngineInv(engine)'
    BY NextKeepsEngine
<1> QED BY <1>1, <1>2, PTL DEF Spec

(* In particular its parents, ranks and parities keep their types.          *)
THEOREM ColorsTypeCorrect == Spec => []TypeOK
<1>1. EngineInv(engine) => TypeOK
    BY DEF EngineInv, Forest, TypeOK, Nodes
<1> QED BY <1>1, EngineCorrect, PTL

(* A constraint step of the engine is one of the promise.                   *)
LEMMA RequireKeepsPromise ==
    ASSUME EngineInv(engine), NEW l \in Nodes(engine), NEW r \in Nodes(engine),
           NEW expected \in {0, 1}, Require(l, r, expected)
    PROVE  Promise!Next
<1> DEFINE u == Unite(engine, l, r, expected)
           still == Still(engine, l, r, expected)
<1>1. /\ u.engine.size = engine.size
      /\ Possible(u.engine) = IF still = {} THEN Possible(engine) ELSE still
      /\ u.outcome = IF still = {} THEN "conflict" ELSE "accepted"
    BY UniteKeeps
<1>2. engine' = u.engine /\ outcome' = u.outcome /\ colors' = NoColors
    BY DEF Require
<1>3. still = {c \in Possible(engine) : Promise!Xor(c[l], c[r]) = expected}
    BY DEF Still, Xor, Promise!Xor
<1> HIDE DEF u, still
<1>4. outcome' = IF still = {} THEN "conflict" ELSE "accepted"
    BY <1>1, <1>2
<1>5. Possible(engine)' = IF still = {} THEN Possible(engine) ELSE still
    <2>1. Possible(engine') = IF still = {} THEN Possible(engine) ELSE still
        BY <1>1, <1>2
    <2> QED BY <2>1
<1>6. engine'.size = engine.size
    BY <1>1, <1>2
<1>7. Promise!NoColors = NoColors
    BY DEF Promise!NoColors, NoColors, Promise!Red, Red
<1>8. Promise!Constrain
    BY <1>2, <1>3, <1>4, <1>5, <1>6, <1>7 DEF Promise!Constrain, Nodes
<1> QED BY <1>8 DEF Promise!Next

(* Every step of the engine is one of the promise, or leaves it alone.      *)
LEMMA StepKeepsPromise ==
    ASSUME EngineInv(engine), [Next]_vars
    PROVE  [Promise!Next]_(Promise!vars)
<1>1. engine.size \in Nat
    BY DEF EngineInv, Forest
<1>2. Promise!NoColors = NoColors
    BY DEF Promise!NoColors, NoColors, Promise!Red, Red
<1>3. CASE AddNetwork
    <2>1. /\ engine' = Add(engine) /\ outcome' = "added" /\ colors' = NoColors
        BY <1>3 DEF AddNetwork
    <2>2. /\ engine'.size = engine.size + 1
          /\ Possible(engine') = {c \in [0..engine.size + 1 -> {0, 1}] :
                \E b \in Possible(engine) : \A i \in 0..engine.size : c[i] = b[i]}
        BY <2>1, AddPossible
    <2>3. Promise!Register
        BY <2>1, <2>2, <1>2 DEF Promise!Register, Promise!Colors, Promise!Red, Promise!Green
    <2> QED BY <2>3 DEF Promise!Next
<1>4. CASE Constrain
    <2>1. PICK l, r \in 1..engine.size, expected \in {0, 1} : Require(l, r, expected)
        BY <1>4 DEF Constrain
    <2> QED BY <2>1, <1>1, RequireKeepsPromise DEF Nodes
<1>5. CASE Fix
    <2>1. PICK i \in 1..engine.size, color \in {0, 1} : Require(i, 0, color)
        BY <1>5 DEF Fix, Red, Green
    <2> QED BY <2>1, <1>1, RequireKeepsPromise DEF Nodes
<1>6. CASE Relate
    <2>1. PICK l, r \in 1..engine.size :
             /\ engine' = Found(Found(engine, l), r)
             /\ outcome' = RelationOf(engine, l, r)
             /\ colors' = NoColors
        BY <1>6 DEF Relate
    <2>2. engine'.size = engine.size /\ Possible(engine') = Possible(engine)
        BY <2>1, FoundKeeps
    <2>3. l \in Nodes(engine) /\ r \in Nodes(engine)
        BY <2>1, <1>1 DEF Nodes
    <2>4. RelationOf(engine, l, r) =
             IF \A c \in Possible(engine) : c[l] = c[r] THEN "same"
             ELSE IF \A c \in Possible(engine) : c[l] # c[r] THEN "different"
             ELSE "unrelated"
        BY <2>3, RelationIsCommon
    <2>5. Promise!Relate
        BY <2>1, <2>2, <2>4, <1>2 DEF Promise!Relate
    <2> QED BY <2>5 DEF Promise!Next
<1>7. CASE Resolve
    <2>1. /\ engine' = Compressed(engine, 0..engine.size)
          /\ colors' = Coloring(engine) /\ outcome' = "resolved"
        BY <1>7 DEF Resolve
    <2>2. engine'.size = engine.size /\ Possible(engine') = Possible(engine)
        BY <2>1, VisitedPossible
    <2>3. Promise!Resolve
        BY <2>1, <2>2, ColoringIsLeast DEF Promise!Resolve, Promise!Red
    <2> QED BY <2>3 DEF Promise!Next
<1>8. CASE Unknown
    <2>1. outcome' = "unknown" /\ colors' = NoColors
        BY <1>8 DEF Unknown
    <2>2. engine'.size = engine.size /\ Possible(engine') = Possible(engine)
        BY <1>8, VisitedPossible DEF Unknown, Found
    <2>3. Promise!Refuse
        BY <2>1, <2>2, <1>2 DEF Promise!Refuse
    <2> QED BY <2>3 DEF Promise!Next
<1>9. CASE UNCHANGED vars
    BY <1>9 DEF vars, Promise!vars
<1> QED BY <1>3, <1>4, <1>5, <1>6, <1>7, <1>8, <1>9 DEF Next

(* The engine keeps its promise, for any number of networks: it rejects a   *)
(* constraint exactly if no colouring satisfies it and those accepted, and  *)
(* resolves to the least colouring that satisfies all.                      *)
THEOREM EngineKeepsPromise == Spec => KeepsPromise
<1>1. Init => Promise!Init
    <2>1. Possible(NewEngine) = {NoColors}
        BY DEF Possible, NewEngine, NoColors, Xor, Red, Green
    <2>2. NewEngine.size = 0
        BY DEF NewEngine
    <2> QED BY <2>1, <2>2 DEF Init, Promise!Init, Promise!NoColors, NoColors, Promise!Red, Red
<1>2. EngineInv(engine) /\ [Next]_vars => [Promise!Next]_(Promise!vars)
    BY StepKeepsPromise
<1> QED BY <1>1, <1>2, EngineCorrect, PTL DEF Spec, KeepsPromise, Promise!Spec

-----------------------------------------------------------------------------
(* The anchor never gets a child: its rank stays 0, and ranks grow towards  *)
(* the root.                                                                *)
AnchorInv(e) == EngineInv(e) /\ e.rank[0] = 0

LEMMA AnchorIsLeaf ==
    ASSUME NEW e, AnchorInv(e)
    PROVE  /\ 0 \in Nodes(e)
           /\ \A i \in Nodes(e) : i # 0 =>
                 e.parent[i] # 0 /\ RootOf(e)[i].index # 0
<1>1. /\ e.size \in Nat /\ 0 \in Nodes(e)
      /\ \A i \in Nodes(e) : e.rank[i] \in Nat
      /\ \A i \in Nodes(e) : e.parent[i] # i => e.rank[i] < e.rank[e.parent[i]]
    BY DEF AnchorInv, EngineInv, Forest, Engine, Nodes
<1>2. \A i \in Nodes(e) : i # 0 => e.parent[i] # 0
    BY <1>1 DEF AnchorInv
<1>3. \A i \in Nodes(e) : i # 0 => RootOf(e)[i].index # 0
    <2> SUFFICES ASSUME NEW i \in Nodes(e), i # 0, RootOf(e)[i].index = 0
                 PROVE  FALSE
        OBVIOUS
    <2>1. /\ e.parent[i] = i => RootOf(e)[i].index = i
          /\ e.parent[i] # i => e.rank[i] < e.rank[RootOf(e)[i].index]
        BY RootFacts DEF AnchorInv
    <2> QED BY <1>1, <2>1 DEF AnchorInv
<1> QED BY <1>1, <1>2, <1>3

(* Where unite puts the roots of a network and of a network or the anchor,  *)
(* the anchor is not the one on top.                                        *)
LEMMA LinkedAnchor ==
    ASSUME NEW e, AnchorInv(e), NEW l \in Nodes(e), l # 0, NEW r \in Nodes(e),
           NEW expected
    PROVE  Linked(e, RootOf(e)[l], RootOf(e)[r], expected).rank[0] = 0
<1> DEFINE left == RootOf(e)[l]
           right == RootOf(e)[r]
           swap == e.rank[left.index] < e.rank[right.index]
           top == IF swap THEN right.index ELSE left.index
           low == IF swap THEN left.index ELSE right.index
<1>1. /\ left.index \in Nodes(e) /\ right.index \in Nodes(e) /\ left.index # 0
      /\ 0 \in Nodes(e)
    BY RootFacts, AnchorIsLeaf DEF AnchorInv, RootRecord
<1>2. /\ e.rank \in [Nodes(e) -> Nat] /\ e.rank[0] = 0
    BY DEF AnchorInv, EngineInv, Forest, Engine, Nodes
<1> HIDE DEF left, right
<1>3. top # 0
    BY <1>1, <1>2
<1>4. Linked(e, left, right, expected).rank =
          [e.rank EXCEPT ![top] = IF e.rank[low] = e.rank[top] THEN @ + 1 ELSE @]
    <2>1. e \in Engine(e.size)
        BY DEF AnchorInv, EngineInv, Forest
    <2> HIDE DEF top, low
    <2>2. [e EXCEPT !.parent[low] = top,
                    !.parity[low] = Xor(Xor(left.parity, right.parity), expected),
                    !.rank[top] = IF e.rank[low] = e.rank[top] THEN @ + 1 ELSE @].rank =
              [e.rank EXCEPT ![top] = IF e.rank[low] = e.rank[top] THEN @ + 1 ELSE @]
        BY <2>1 DEF Engine
    <2> QED BY <2>2 DEF Linked, top, low
<1> HIDE DEF top
<1> QED BY <1>1, <1>2, <1>3, <1>4 DEF left, right

(* Compressing a path moves no root and no rank.                            *)
LEMMA FoundAnchor ==
    ASSUME NEW e, AnchorInv(e), NEW l
    PROVE  AnchorInv(Found(e, l)) /\ RootOf(Found(e, l)) = RootOf(e)
           /\ Nodes(Found(e, l)) = Nodes(e)
BY CompressedKeeps DEF AnchorInv, Found, Nodes

(* unite leaves the anchor without a child.                                 *)
LEMMA UniteAnchor ==
    ASSUME NEW e, AnchorInv(e), NEW l \in Nodes(e), l # 0, NEW r \in Nodes(e),
           NEW expected \in {0, 1}
    PROVE  AnchorInv(Unite(e, l, r, expected).engine)
<1> DEFINE found == Found(Found(e, l), r)
           left == RootOf(e)[l]
           right == RootOf(e)[r]
<1>1. EngineInv(Unite(e, l, r, expected).engine)
    BY UniteKeeps DEF AnchorInv
<1>2. AnchorInv(found) /\ RootOf(found) = RootOf(e) /\ Nodes(found) = Nodes(e)
    <2>1. /\ AnchorInv(Found(e, l)) /\ RootOf(Found(e, l)) = RootOf(e)
          /\ Nodes(Found(e, l)) = Nodes(e)
        BY FoundAnchor
    <2> QED BY <2>1, FoundAnchor
<1>3. Unite(e, l, r, expected).engine \in {found, Linked(found, left, right, expected)}
    BY DEF Unite
<1> HIDE DEF found
<1>4. Linked(found, left, right, expected).rank[0] = 0
    BY <1>2, LinkedAnchor
<1>5. Unite(e, l, r, expected).engine.rank[0] = 0
    BY <1>2, <1>3, <1>4 DEF AnchorInv
<1> QED BY <1>1, <1>5 DEF AnchorInv

(* So does every call of the engine.                                        *)
LEMMA NextKeepsAnchor ==
    ASSUME AnchorInv(engine), [Next]_vars
    PROVE  AnchorInv(engine')
<1>1. EngineInv(engine) /\ EngineInv(engine') /\ engine.size \in Nat
    BY NextKeepsEngine DEF AnchorInv, EngineInv, Forest
<1>2. CASE AddNetwork
    <2>1. engine'.rank[0] = engine.rank[0]
        BY <1>1, <1>2 DEF AddNetwork, Add
    <2> QED BY <1>1, <2>1 DEF AnchorInv
<1>3. CASE Constrain
    <2>1. PICK l, r \in 1..engine.size, expected \in {0, 1} :
             engine' = Unite(engine, l, r, expected).engine
        BY <1>3 DEF Constrain, Require
    <2>2. l \in Nodes(engine) /\ l # 0 /\ r \in Nodes(engine)
        BY <1>1 DEF Nodes
    <2> QED BY <2>1, <2>2, UniteAnchor
<1>4. CASE Fix
    <2>1. PICK i \in 1..engine.size, color \in {0, 1} :
             engine' = Unite(engine, i, 0, color).engine
        BY <1>4 DEF Fix, Require, Red, Green
    <2>2. i \in Nodes(engine) /\ i # 0 /\ 0 \in Nodes(engine)
        BY <1>1 DEF Nodes
    <2> QED BY <2>1, <2>2, UniteAnchor
<1>5. CASE Relate
    BY <1>5, FoundAnchor DEF Relate
<1>6. CASE Resolve
    BY <1>1, <1>6, CompressedKeeps DEF Resolve, AnchorInv
<1>7. CASE Unknown
    BY <1>7, FoundAnchor DEF Unknown
<1>8. CASE UNCHANGED vars
    BY <1>8 DEF vars
<1> QED BY <1>2, <1>3, <1>4, <1>5, <1>6, <1>7, <1>8 DEF Next

(* A copy has the roots of the original, except that its anchor is alone.   *)
LEMMA CloneRoots ==
    ASSUME NEW e, AnchorInv(e)
    PROVE  /\ AnchorInv(Clone(e)) /\ Clone(e).size = e.size
           /\ \A i \in 1..e.size : RootOf(Clone(e))[i] = RootOf(e)[i]
<1> DEFINE d == Clone(e)
           f == RootOf(e)
           g == [i \in 0..e.size |-> IF i = 0 THEN [index |-> 0, parity |-> 0] ELSE f[i]]
<1>1. /\ e.size \in Nat /\ e \in Engine(e.size)
      /\ 0 \in 0..e.size /\ \A i \in 0..e.size : i # 0 => e.parent[i] # 0
      /\ \A i \in 0..e.size : e.parent[i] \in 0..e.size
    BY AnchorIsLeaf DEF AnchorInv, EngineInv, Forest, Nodes, Engine
<1>2. /\ d.size = e.size
      /\ d.parent[0] = 0
      /\ \A i \in 0..e.size : i # 0 =>
            d.parent[i] = e.parent[i] /\ d.parity[i] = e.parity[i]
    BY <1>1 DEF Clone, Engine
<1>3. IsRoot(e, f)
    BY RootFacts DEF AnchorInv
<1>4. \A i \in 0..e.size :
         f[i] = IF e.parent[i] = i THEN [index |-> i, parity |-> 0]
                ELSE [index |-> f[e.parent[i]].index,
                      parity |-> Xor(e.parity[i], f[e.parent[i]].parity)]
    BY <1>3, Zenon DEF IsRoot
<1> HIDE DEF d, f
<1>5. \A i \in 0..d.size :
         g[i] = IF d.parent[i] = i THEN [index |-> i, parity |-> 0]
                ELSE [index |-> g[d.parent[i]].index,
                      parity |-> Xor(d.parity[i], g[d.parent[i]].parity)]
    <2> SUFFICES ASSUME NEW i \in 0..e.size
                 PROVE  g[i] = IF d.parent[i] = i THEN [index |-> i, parity |-> 0]
                               ELSE [index |-> g[d.parent[i]].index,
                                     parity |-> Xor(d.parity[i], g[d.parent[i]].parity)]
        BY <1>2
    <2>1. CASE i = 0
        BY <1>1, <1>2, <2>1
    <2>2. CASE i # 0
        <3>1. g[i] = f[i] /\ g[e.parent[i]] = f[e.parent[i]]
            BY <1>1, <2>2
        <3>2. d.parent[i] = e.parent[i] /\ d.parity[i] = e.parity[i]
            BY <1>2, <2>2
        <3>3. f[i] = IF e.parent[i] = i THEN [index |-> i, parity |-> 0]
                     ELSE [index |-> f[e.parent[i]].index,
                           parity |-> Xor(e.parity[i], f[e.parent[i]].parity)]
            BY <1>4
        <3> HIDE DEF g
        <3> QED BY <3>1, <3>2, <3>3
    <2> QED BY <2>1, <2>2
<1>6. IsRoot(d, g)
    BY <1>2, <1>5 DEF IsRoot
<1>7. Forest(d)
    <2>1. d \in Engine(d.size)
        BY <1>1 DEF Clone, Engine, d
    <2>2. /\ \A i \in 0..e.size : e.parent[i] # i => e.rank[i] < e.rank[e.parent[i]]
          /\ \A i \in 0..e.size : e.parent[i] = i => e.parity[i] = 0
          /\ \A i \in 0..e.size : e.rank[i] \in Nat
          /\ e.rank[0] = 0
        BY DEF AnchorInv, EngineInv, Forest, Engine, Nodes
    <2>3. d.parity[0] = 0 /\ \A i \in 0..e.size : d.rank[i] = e.rank[i]
        BY <1>1, <2>2 DEF Clone, Engine, d
    <2>4. PICK m \in Nat : \A i \in 0..e.size : e.rank[i] <= m
        BY DEF AnchorInv, EngineInv, Forest, Nodes
    <2>5. \A i \in 0..e.size : d.parent[i] # i => d.rank[i] < d.rank[d.parent[i]]
        BY <1>1, <1>2, <2>2, <2>3
    <2>6. \A i \in 0..e.size : d.parent[i] = i => d.parity[i] = 0
        BY <1>2, <2>2, <2>3
    <2>7. \A i \in 0..e.size : d.rank[i] <= m
        BY <2>3, <2>4
    <2> QED BY <1>1, <1>2, <2>1, <2>5, <2>6, <2>7 DEF Forest, Nodes
<1>8. RootOf(d) = g
    BY <1>6, <1>7, RootOfIsRoot, RootUnique
<1>9. d.rank[0] = 0
    BY <1>1 DEF Clone, Engine, AnchorInv, d
<1>10. AnchorInv(d)
    BY <1>6, <1>7, <1>9 DEF AnchorInv, EngineInv
<1> QED BY <1>1, <1>2, <1>8, <1>10 DEF d, f

-----------------------------------------------------------------------------
(* Networks that can only differ go on to: whatever is united, registered   *)
(* or copied.                                                               *)
Apart(e, l, r) == \A c \in Possible(e) : c[l] # c[r]

LEMMA UniteApart ==
    ASSUME NEW e, AnchorInv(e), NEW l \in 1..e.size, NEW r \in 0..e.size,
           NEW expected \in {0, 1}
    PROVE  /\ AnchorInv(Unite(e, l, r, expected).engine)
           /\ Unite(e, l, r, expected).engine.size = e.size
           /\ \A i, j \in 0..e.size :
                 Apart(e, i, j) => Apart(Unite(e, l, r, expected).engine, i, j)
           /\ Apart(e, l, r) /\ expected = 0 => Unite(e, l, r, expected).outcome = "conflict"
           /\ Possible(Unite(e, l, r, expected).engine) \subseteq Possible(e)
           /\ Unite(e, l, r, expected).outcome = "accepted" =>
                 \A c \in Possible(Unite(e, l, r, expected).engine) : Xor(c[l], c[r]) = expected
<1>1. /\ EngineInv(e) /\ l \in Nodes(e) /\ l # 0 /\ r \in Nodes(e)
    BY DEF AnchorInv, EngineInv, Forest, Nodes
<1>2. AnchorInv(Unite(e, l, r, expected).engine)
    BY <1>1, UniteAnchor
<1> DEFINE u == Unite(e, l, r, expected)
           still == Still(e, l, r, expected)
<1>3. /\ u.engine.size = e.size
      /\ Possible(u.engine) = IF still = {} THEN Possible(e) ELSE still
      /\ u.outcome = IF still = {} THEN "conflict" ELSE "accepted"
    BY <1>1, UniteKeeps
<1>4. still \subseteq Possible(e)
    BY DEF Still
<1>5. Apart(e, l, r) /\ expected = 0 => still = {}
    BY DEF Apart, Still, Xor
<1>8. \A c \in still : Xor(c[l], c[r]) = expected
    BY DEF Still
<1> HIDE DEF u, still
<1>6. Possible(u.engine) \subseteq Possible(e)
    BY <1>3, <1>4
<1>7. \A i, j \in 0..e.size : Apart(e, i, j) => Apart(u.engine, i, j)
    BY <1>6 DEF Apart
<1>9. u.outcome = "accepted" => \A c \in Possible(u.engine) : Xor(c[l], c[r]) = expected
    BY <1>3, <1>8
<1> QED BY <1>2, <1>3, <1>5, <1>6, <1>7, <1>9 DEF u

LEMMA AddApart ==
    ASSUME NEW e, AnchorInv(e)
    PROVE  /\ AnchorInv(Add(e)) /\ Add(e).size = e.size + 1
           /\ \A i, j \in 0..e.size : Apart(e, i, j) => Apart(Add(e), i, j)
<1> DEFINE d == Add(e)
<1>1. EngineInv(e) /\ e.size \in Nat
    BY DEF AnchorInv, EngineInv, Forest
<1>2. /\ EngineInv(d) /\ d.size = e.size + 1
      /\ Possible(d) = {c \in [0..e.size + 1 -> {0, 1}] :
                           \E b \in Possible(e) : \A i \in 0..e.size : c[i] = b[i]}
    BY <1>1, AddPossible
<1>3. d.rank[0] = 0
    BY <1>1 DEF Add, AnchorInv
<1> HIDE DEF d
<1>4. \A i, j \in 0..e.size : Apart(e, i, j) => Apart(d, i, j)
    BY <1>2 DEF Apart
<1> QED BY <1>2, <1>3, <1>4 DEF d, AnchorInv

(* A new network can be given either colour, beside any that there is.      *)
LEMMA NewIsFree ==
    ASSUME NEW e, EngineInv(e), NEW l \in 0..e.size, NEW expected \in {0, 1}
    PROVE  \E c \in Possible(Add(e)) : Xor(c[l], c[e.size + 1]) = expected
<1> DEFINE d == Add(e)
           n == e.size + 1
<1>1. e.size \in Nat
    BY DEF EngineInv, Forest
<1>2. Possible(d) = {c \in [0..n -> {0, 1}] :
                         \E b \in Possible(e) : \A i \in 0..e.size : c[i] = b[i]}
    BY <1>1, AddPossible
<1>3. l \in 0..n /\ n \in 0..n /\ n # l /\ \A i \in 0..e.size : i \in 0..n /\ i # n
    BY <1>1
<1>4. PICK b : b \in Possible(e)
    BY <1>1, SomePossible
<1>5. b \in [0..e.size -> {0, 1}]
    BY <1>4 DEF Possible, Red, Green
<1> DEFINE other == IF expected = 0 THEN b[l] ELSE 1 - b[l]
           c == [i \in 0..n |-> IF i = n THEN other ELSE b[i]]
<1>6. other \in {0, 1} /\ Xor(b[l], other) = expected
    BY <1>5 DEF Xor
<1>7. c \in [0..n -> {0, 1}]
  <2>1. \A i \in 0..n : i # n => i \in 0..e.size
    BY <1>1
  <2> HIDE DEF other, n
  <2> QED BY <1>5, <1>6, <2>1
<1> HIDE DEF d, n, other
<1>8. c[n] = other /\ \A i \in 0..e.size : c[i] = b[i]
    BY <1>3
<1> HIDE DEF c
<1>9. c \in Possible(d) /\ Xor(c[l], c[n]) = expected
    BY <1>2, <1>4, <1>6, <1>7, <1>8
<1> QED BY <1>9 DEF d, n

LEMMA NewTakesColor ==
    ASSUME NEW e, AnchorInv(e), NEW color \in {0, 1}
    PROVE  Unite(Add(e), e.size + 1, 0, color).outcome = "accepted"
<1> DEFINE d == Add(e)
           n == e.size + 1
           still == Still(d, n, 0, color)
<1>1. EngineInv(e) /\ e.size \in Nat /\ 0 \in 0..e.size
    BY DEF AnchorInv, EngineInv, Forest
<1>2. EngineInv(d) /\ n \in Nodes(d) /\ 0 \in Nodes(d) /\ n # 0
    BY <1>1, AddPossible DEF Nodes
<1>3. \E c \in Possible(d) : Xor(c[0], c[n]) = color
    BY <1>1, NewIsFree
<1> HIDE DEF d, n
<1>4. still # {}
    BY <1>3 DEF Still, Xor
<1> HIDE DEF still
<1>5. Unite(d, n, 0, color).outcome = IF still = {} THEN "conflict" ELSE "accepted"
    BY <1>2, UniteKeeps DEF still
<1> QED BY <1>4, <1>5 DEF d, n

LEMMA NewApart ==
    ASSUME NEW e, AnchorInv(e), NEW l \in 1..e.size
    PROVE  Apart(Unite(Add(e), l, e.size + 1, 1).engine, l, e.size + 1)
<1> DEFINE d == Add(e)
           n == e.size + 1
           still == Still(d, l, n, 1)
<1>1. EngineInv(e) /\ e.size \in Nat /\ l \in 0..e.size
    BY DEF AnchorInv, EngineInv, Forest
<1>2. EngineInv(d) /\ l \in Nodes(d) /\ n \in Nodes(d)
    BY <1>1, AddPossible DEF Nodes
<1>3. still # {}
  <2>1. \E c \in Possible(d) : Xor(c[l], c[n]) = 1
    BY <1>1, NewIsFree
  <2> HIDE DEF d, n
  <2> QED BY <2>1 DEF Still
<1> HIDE DEF d, n
<1>4. Possible(Unite(d, l, n, 1).engine) = still
  <2>1. Possible(Unite(d, l, n, 1).engine) = IF still = {} THEN Possible(d) ELSE still
    BY <1>2, UniteKeeps
  <2> HIDE DEF still
  <2> QED BY <1>3, <2>1
<1>5. \A a \in still : a[l] # a[n]
    BY DEF Still, Xor
<1> HIDE DEF still
<1>6. Apart(Unite(d, l, n, 1).engine, l, n)
    BY <1>4, <1>5 DEF Apart
<1> QED BY <1>6 DEF d, n

LEMMA ApartIsRelation ==
    ASSUME NEW e, EngineInv(e), NEW l \in Nodes(e), NEW r \in Nodes(e)
    PROVE  Apart(e, l, r) <=> RelationOf(e, l, r) = "different"
<1>1. Possible(e) # {}
    BY SomePossible
<1>2. RelationOf(e, l, r) =
         IF \A c \in Possible(e) : c[l] = c[r] THEN "same"
         ELSE IF \A c \in Possible(e) : c[l] # c[r] THEN "different"
         ELSE "unrelated"
    BY RelationIsCommon
<1> QED BY <1>1, <1>2 DEF Apart

(* A copy of an engine whose anchor is a root is the engine.                *)
LEMMA CloneIsSame ==
    ASSUME NEW e, AnchorInv(e), e.parent[0] = 0
    PROVE  Clone(e) = e
<1>1. e \in Engine(e.size) /\ e.size \in Nat /\ e.rank[0] = 0
    BY DEF AnchorInv, EngineInv, Forest
<1>2. e.parity[0] = 0
  <2>1. PICK c : c \in Possible(e)
    BY SomePossible DEF AnchorInv
  <2>2. 0 \in 0..e.size
    BY <1>1
  <2> QED BY <2>1, <2>2 DEF Possible, Xor
<1>3. /\ [e.parent EXCEPT ![0] = 0] = e.parent /\ [e.rank EXCEPT ![0] = 0] = e.rank
      /\ [e.parity EXCEPT ![0] = 0] = e.parity
    BY <1>1, <1>2 DEF Engine
<1> QED BY <1>1, <1>3 DEF Clone, Engine

LEMMA CloneApart ==
    ASSUME NEW e, AnchorInv(e)
    PROVE  /\ AnchorInv(Clone(e)) /\ Clone(e).size = e.size
           /\ \A i, j \in 1..e.size : Apart(e, i, j) => Apart(Clone(e), i, j)
<1> DEFINE d == Clone(e)
<1>1. /\ AnchorInv(d) /\ d.size = e.size /\ e.size \in Nat
      /\ \A i \in 1..e.size : RootOf(d)[i] = RootOf(e)[i]
    BY CloneRoots DEF AnchorInv, EngineInv, Forest
<1> HIDE DEF d
<1>2. \A i, j \in 1..e.size : RelationOf(d, i, j) = RelationOf(e, i, j)
    BY <1>1 DEF RelationOf
<1>3. \A i \in 1..e.size : i \in Nodes(e) /\ i \in Nodes(d)
    BY <1>1 DEF Nodes
<1>4. ASSUME NEW i \in 1..e.size, NEW j \in 1..e.size
      PROVE  Apart(e, i, j) <=> Apart(d, i, j)
    <2>1. Apart(e, i, j) <=> RelationOf(e, i, j) = "different"
        BY <1>3, ApartIsRelation DEF AnchorInv
    <2>2. Apart(d, i, j) <=> RelationOf(d, i, j) = "different"
        BY <1>1, <1>3, ApartIsRelation DEF AnchorInv
    <2> QED BY <1>2, <2>1, <2>2
<1> QED BY <1>1, <1>4 DEF d

-----------------------------------------------------------------------------
(* For any number of networks and any calls before it, the copy made for a  *)
(* preflight answers relation as the original does, although clone() leaves *)
(* the anchor's slot out: no network was ever put below the anchor.         *)
THEOREM PreflightAlwaysAgrees == Spec => []PreflightAgrees
<1>1. Init => AnchorInv(engine)
    BY NewEngineInv DEF Init, AnchorInv, NewEngine
<1>2. AnchorInv(engine) /\ [Next]_vars => AnchorInv(engine)'
    BY NextKeepsAnchor DEF AnchorInv
<1>3. AnchorInv(engine) => PreflightAgrees
    BY CloneRoots DEF PreflightAgrees, RelationOf
<1> QED BY <1>1, <1>2, <1>3, PTL DEF Spec
=============================================================================
