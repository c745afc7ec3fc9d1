------------------------ MODULE ElaborationPlanProofs ------------------------
(***************************************************************************)
(* What holds of the plan that a recorder seals, for every program, every  *)
(* bound and whatever is rolled back on the way: its transfers replay, and *)
(* so does all of it; and what the recorder holds has the types of the     *)
(* model.                                                                  *)
(*                                                                         *)
(* A topology is Sound when what it records agrees with what its colour    *)
(* engine keeps apart, and this lets a replay of its transfers follow the  *)
(* recorder's links to the same roots.  It is Explained when every         *)
(* colouring that the engine leaves possible obeys what was recorded: one  *)
(* of them then solves the plan.  There is one lemma for each operator, as *)
(* in ElaborationProofs.  Last, handles, borrows and frames name what      *)
(* there is (Recorded), since each step only gives or notes such (Tidy).   *)
(***************************************************************************)
EXTENDS ElaborationProofs, WellFoundedInduction

-----------------------------------------------------------------------------
(* The colours of a recorder are those of an engine, whose proofs apply.    *)
Engines == INSTANCE CircuitColorConstraintsProofs
               WITH engine <- topology.engine, outcome <- status, colors <- pairs

LEMMA SameFind ==
    ASSUME NEW e
    PROVE  /\ Colors!RootOf(e) = Engines!RootOf(e)
           /\ \A i : Colors!Found(e, i) = Engines!Found(e, i)
<1>1. Colors!RootOf(e) = Engines!RootOf(e)
  BY Zenon DEF Engines!RootOf, Colors!RootOf, Engines!Xor, Colors!Xor
<1>2. Colors!PathOf(e) = Engines!PathOf(e)
  BY Zenon DEF Engines!PathOf, Colors!PathOf
<1>3. \A visited : Colors!Compressed(e, visited) = Engines!Compressed(e, visited)
  BY <1>1, Zenon DEF Engines!Compressed, Colors!Compressed
<1>4. \A i : Colors!Found(e, i) = Engines!Found(e, i)
  BY <1>2, <1>3, Zenon DEF Engines!Found, Colors!Found
<1> QED
  BY <1>1, <1>4

LEMMA SameUnite ==
    ASSUME NEW e, NEW l, NEW r, NEW expected
    PROVE  Colors!Unite(e, l, r, expected) = Engines!Unite(e, l, r, expected)
<1>1. \A a, b : Colors!Xor(a, b) = Engines!Xor(a, b)
  BY Zenon DEF Engines!Xor, Colors!Xor
<1>2. ASSUME NEW d, NEW a, NEW b
      PROVE  Colors!Linked(d, a, b, expected) = Engines!Linked(d, a, b, expected)
  <2> DEFINE swap == d.rank[a.index] < d.rank[b.index]
             top == IF swap THEN b.index ELSE a.index
             low == IF swap THEN a.index ELSE b.index
             parity == Engines!Xor(Engines!Xor(a.parity, b.parity), expected)
             result == [d EXCEPT !.parent[low] = top, !.parity[low] = parity,
                                 !.rank[top] = IF d.rank[low] = d.rank[top] THEN @ + 1 ELSE @]
  <2>1. Engines!Linked(d, a, b, expected) = result
    BY DEF Engines!Linked
  <2>2. Colors!Xor(Colors!Xor(a.parity, b.parity), expected) = parity
    BY <1>1
  <2> DEFINE other == Colors!Xor(Colors!Xor(a.parity, b.parity), expected)
  <2>3. Colors!Linked(d, a, b, expected) =
            [d EXCEPT !.parent[low] = top, !.parity[low] = other,
                      !.rank[top] = IF d.rank[low] = d.rank[top] THEN @ + 1 ELSE @]
    BY DEF Colors!Linked
  <2> HIDE DEF top, low, parity, other
  <2> QED
    BY <2>1, <2>2, <2>3, Zenon DEF other
<1>3. \A d : /\ Colors!RootOf(d) = Engines!RootOf(d)
             /\ \A i : Colors!Found(d, i) = Engines!Found(d, i)
  BY SameFind
<1> QED
  BY <1>1, <1>2, <1>3, Zenon DEF Engines!Unite, Colors!Unite

LEMMA SameAdd ==
    ASSUME NEW e
    PROVE  Colors!Add(e) = Engines!Add(e)
BY Zenon DEF Engines!Add, Colors!Add

LEMMA SameClone ==
    ASSUME NEW e
    PROVE  Colors!Clone(e) = Engines!Clone(e)
BY Zenon DEF Engines!Clone, Colors!Clone

(* Two networks can only have different colours.                            *)
Apart(t, l, r) == Engines!Apart(t.engine, l, r)

KeepsApart(t, u) ==
    \A l, r \in 1..Len(t.own) : Apart(t, l, r) => Apart(u, l, r)

(* The colourings of its networks that a topology leaves possible; an       *)
(* engine may leave fewer of them later.                                    *)
Suits(t, c) == \E b \in Engines!Possible(t.engine) : \A i \in 0..Len(t.own) : c[i] = b[i]

Narrows(t, u) ==
    /\ 1..Len(t.own) \subseteq 1..Len(u.own)
    /\ \A c : Suits(u, c) => Suits(t, c)

Differing(a, b) == IF a = b THEN 0 ELSE 1

ColorsFit(t) == Engines!AnchorInv(t.engine) /\ t.engine.size = Len(t.own)

LEMMA SuitsRange ==
    ASSUME NEW t, WellFormed(t), ColorsFit(t), NEW c, Suits(t, c)
    PROVE  c[0] = 0 /\ \A n \in 1..Len(t.own) : c[n] \in {0, 1}
<1> DEFINE e == t.engine
<1>1. PICK b \in Engines!Possible(e) : \A i \in 0..Len(t.own) : c[i] = b[i]
  BY DEF Suits
<1>2. Len(t.own) \in Nat /\ e.size = Len(t.own)
  BY OwnTypes DEF ColorsFit
<1> HIDE DEF e
<1>3. b \in [0..e.size -> {0, 1}] /\ b[0] = 0
  BY <1>1 DEF Engines!Possible, Engines!Red, Engines!Green
<1> QED
  BY <1>1, <1>2, <1>3

LEMMA SuitsApart ==
    ASSUME NEW t, NEW l \in 1..Len(t.own), NEW r \in 1..Len(t.own), Apart(t, l, r),
           NEW c, Suits(t, c)
    PROVE  c[l] # c[r]
<1>1. PICK b \in Engines!Possible(t.engine) : \A i \in 0..Len(t.own) : c[i] = b[i]
  BY DEF Suits
<1>2. b[l] # b[r]
  BY DEF Apart, Engines!Apart
<1> QED
  BY <1>1, <1>2

LEMMA SomeSuits ==
    ASSUME NEW t, ColorsFit(t)
    PROVE  \E c : Suits(t, c)
<1> DEFINE e == t.engine
<1>1. Engines!EngineInv(e)
  BY DEF ColorsFit, Engines!AnchorInv
<1> HIDE DEF e
<1>2. Engines!Possible(e) # {}
  BY <1>1, Engines!SomePossible, BoundsAssumption DEF BoundsAssumption
<1> QED
  BY <1>2 DEF Suits, e

LEMMA SameColorsNarrow ==
    ASSUME NEW t, NEW u, u.engine = t.engine, Len(u.own) = Len(t.own)
    PROVE  Narrows(t, u)
BY DEF Narrows, Suits

LEMMA ColoredFits ==
    ASSUME NEW t, WellFormed(t), ColorsFit(t), NEW l \in 1..Len(t.own),
           NEW r \in 0..Len(t.own), NEW expected \in {0, 1}
    PROVE  LET colored == Colored(t, l, r, expected)
           IN  /\ ColorsFit(colored.t) /\ KeepsApart(t, colored.t) /\ Narrows(t, colored.t)
               /\ (colored.ok => \A c : Suits(colored.t, c) => Differing(c[l], c[r]) = expected)
               /\ (Apart(t, l, r) /\ expected = 0 => ~colored.ok)
<1> DEFINE e == t.engine
           colored == Colored(t, l, r, expected)
           united == Engines!Unite(e, l, r, expected)
<1>1. /\ Engines!AnchorInv(united.engine) /\ united.engine.size = e.size
      /\ \A i, j \in 0..e.size : Engines!Apart(e, i, j) => Engines!Apart(united.engine, i, j)
      /\ Engines!Apart(e, l, r) /\ expected = 0 => united.outcome = "conflict"
      /\ Engines!Possible(united.engine) \subseteq Engines!Possible(e)
      /\ united.outcome = "accepted" =>
            \A b \in Engines!Possible(united.engine) : Differing(b[l], b[r]) = expected
  <2>1. Engines!AnchorInv(e) /\ l \in 1..e.size /\ r \in 0..e.size
    BY DEF ColorsFit
  <2>2. \A a, b : Differing(a, b) = Engines!Xor(a, b)
    BY DEF Differing, Engines!Xor
  <2> HIDE DEF e
  <2> QED
    BY <2>1, <2>2, Engines!UniteApart, BoundsAssumption DEF BoundsAssumption
<1>2. /\ colored.ok <=> united.outcome = "accepted"
      /\ colored.t.engine = united.engine /\ colored.t.own = t.own
  <2>1. Colors!Unite(e, l, r, expected) = united
    BY SameUnite
  <2> HIDE DEF united
  <2> QED
    BY <2>1 DEF Colored, Recolored, WellFormed
<1> HIDE DEF united, colored
<1>3. ColorsFit(colored.t)
  BY <1>1, <1>2 DEF ColorsFit
<1>4. KeepsApart(t, colored.t)
  <2>1. \A i \in 1..Len(t.own) : i \in 0..e.size
    BY DEF ColorsFit
  <2> QED
    BY <1>1, <1>2, <2>1 DEF KeepsApart, Apart
<1>5. Apart(t, l, r) /\ expected = 0 => ~colored.ok
  BY <1>1, <1>2 DEF Apart
<1>6. Narrows(t, colored.t)
  BY <1>1, <1>2 DEF Narrows, Suits
<1>7. ASSUME colored.ok, NEW c, Suits(colored.t, c)
      PROVE  Differing(c[l], c[r]) = expected
  <2>1. PICK b \in Engines!Possible(united.engine) : \A i \in 0..Len(t.own) : c[i] = b[i]
    BY <1>2, <1>7 DEF Suits
  <2>2. Differing(b[l], b[r]) = expected
    BY <1>1, <1>2, <1>7, <2>1
  <2>3. l \in 0..Len(t.own) /\ r \in 0..Len(t.own)
    OBVIOUS
  <2> QED
    BY <2>1, <2>2, <2>3
<1> QED
  BY <1>3, <1>4, <1>5, <1>6, <1>7 DEF colored

-----------------------------------------------------------------------------
(* A topology is sound: its colours are of its networks, the lanes of an    *)
(* output can only have different colours, and each transfer is of networks *)
(* that no earlier one has consumed.                                        *)
OwnExact(r) ==
    r.generation \in Nat /\ r.owner >= Lost /\ r.color \in {Red, Green, NoColor}

LaneExact(h) == h.generation \in Nat /\ h.borrow = NoBorrow

OutputSound(t, comb) ==
    /\ Len(comb.lanes) \in {1, 2}
    /\ \A i \in 1..Len(comb.lanes) : LaneExact(comb.lanes[i])
    /\ Len(comb.lanes) = 2 => Apart(t, comb.lanes[1].network, comb.lanes[2].network)

InOrder(transfers, own, i) ==
    /\ transfers[i][1] # transfers[i][2]
    /\ own[transfers[i][2]].consumed
    /\ \A j \in 1..i - 1 : transfers[j][2] \notin {transfers[i][1], transfers[i][2]}

Sound(t) ==
    /\ ColorsFit(t)
    /\ \A n \in 1..Len(t.own) : OwnExact(t.own[n])
    /\ \A c \in 1..Len(t.combs) : OutputSound(t, t.combs[c])
    /\ \A i \in 1..Len(t.transfers) : InOrder(t.transfers, t.own, i)

(* A colouring obeys what was recorded: the fixed colours, the transfers,   *)
(* and the two wires of the networks that are read by one input connector.  *)
Parted(t, inputs, c) ==
    \A l, r \in inputs : LogicalRoot(t, l) # LogicalRoot(t, r) => c[l] # c[r]

Obeys(t, c) ==
    /\ \A n \in 1..Len(t.own) : t.own[n].color \in {NoColor, c[n]}
    /\ \A i \in 1..Len(t.transfers) : c[t.transfers[i][1]] = c[t.transfers[i][2]]
    /\ \A k \in 1..Len(t.combs) : Parted(t, t.combs[k].inputs, c)

(* The engine leaves no colouring that does not, and a call keeps it so.    *)
Explained(t) == \A c : Suits(t, c) => Obeys(t, c)

Explains(t, u) == Narrows(t, u) /\ (Explained(t) => Explained(u))

(* The lanes of an output keep their networks, and so do its inputs.        *)
SameNetworks(comb, new) ==
    /\ new.inputs = comb.inputs
    /\ Len(new.lanes) = Len(comb.lanes)
    /\ \A i \in 1..Len(comb.lanes) :
          /\ new.lanes[i].network = comb.lanes[i].network
          /\ LaneExact(comb.lanes[i]) => LaneExact(new.lanes[i])

Consumes(own, new) ==
    /\ Len(own) <= Len(new)
    /\ \A n \in 1..Len(own) : own[n].consumed => new[n].consumed

LEMMA OutputStaysSound ==
    ASSUME NEW t, WellFormed(t), NEW c \in 1..Len(t.combs), OutputSound(t, t.combs[c]),
           NEW u, KeepsApart(t, u), NEW new, SameNetworks(t.combs[c], new)
    PROVE  OutputSound(u, new)
<1> DEFINE comb == t.combs[c]
<1>1. \A i \in 1..Len(comb.lanes) : comb.lanes[i].network \in 1..Len(t.own)
  BY CombinatorTypes DEF HandleOf
<1> HIDE DEF comb
<1>2. /\ Len(new.lanes) = Len(comb.lanes) /\ Len(comb.lanes) \in {1, 2}
      /\ \A i \in 1..Len(comb.lanes) :
            new.lanes[i].network = comb.lanes[i].network /\ LaneExact(new.lanes[i])
  BY DEF OutputSound, SameNetworks, comb
<1>3. ASSUME Len(comb.lanes) = 2
      PROVE  Apart(u, new.lanes[1].network, new.lanes[2].network)
  <2>1. 1 \in 1..Len(comb.lanes) /\ 2 \in 1..Len(comb.lanes)
    BY <1>3
  <2>2. Apart(t, comb.lanes[1].network, comb.lanes[2].network)
    BY <1>3 DEF OutputSound, comb
  <2>3. Apart(u, comb.lanes[1].network, comb.lanes[2].network)
    BY <1>1, <2>1, <2>2 DEF KeepsApart
  <2> QED
    BY <1>2, <2>1, <2>3
<1> QED
  BY <1>2, <1>3 DEF OutputSound

LEMMA LinksStayInOrder ==
    ASSUME NEW t, WellFormed(t), NEW own, Consumes(t.own, own),
           NEW i \in 1..Len(t.transfers), InOrder(t.transfers, t.own, i)
    PROVE  InOrder(t.transfers, own, i)
<1>1. t.transfers[i][2] \in 1..Len(t.own)
  BY TransferTypes
<1> QED
  BY <1>1 DEF InOrder, Consumes

(* What keeps the transfers and the networks of the lanes.                  *)
LEMMA StaysSound ==
    ASSUME NEW t, WellFormed(t), Sound(t), NEW u, ColorsFit(u), KeepsApart(t, u),
           Consumes(t.own, u.own), \A n \in 1..Len(u.own) : OwnExact(u.own[n]),
           Len(u.combs) = Len(t.combs),
           \A c \in 1..Len(t.combs) : SameNetworks(t.combs[c], u.combs[c]),
           u.transfers = t.transfers
    PROVE  Sound(u)
<1>1. \A c \in 1..Len(u.combs) : OutputSound(u, u.combs[c])
  BY OutputStaysSound DEF Sound
<1>2. \A i \in 1..Len(u.transfers) : InOrder(u.transfers, u.own, i)
  BY LinksStayInOrder DEF Sound
<1> QED
  BY <1>1, <1>2 DEF Sound

RootAlong(links, n) ==
    LET root[i \in 0..Len(links)] ==
            IF i = 0 THEN n
            ELSE IF links[i][2] = root[i - 1] THEN links[i][1] ELSE root[i - 1]
    IN  root[Len(links)]

LEMMA LogicalRootAlong ==
    ASSUME NEW t, NEW n
    PROVE  LogicalRoot(t, n) = RootAlong(t.transfers, n)
BY DEF LogicalRoot, RootAlong

LEMMA StaysExplained ==
    ASSUME NEW t, NEW u, Narrows(t, u), u.transfers = t.transfers,
           \A k \in 1..Len(u.combs) : \E j \in 1..Len(t.combs) :
               u.combs[k].inputs = t.combs[j].inputs,
           \A c : Suits(u, c) => \A n \in 1..Len(u.own) :
               \/ u.own[n].color \in {NoColor, c[n]}
               \/ n \in 1..Len(t.own) /\ u.own[n].color = t.own[n].color
    PROVE  Explains(t, u)
<1>1. \A n : LogicalRoot(u, n) = LogicalRoot(t, n)
  BY LogicalRootAlong
<1>2. \A inputs, c : Parted(t, inputs, c) => Parted(u, inputs, c)
  BY <1>1 DEF Parted
<1>3. ASSUME Explained(t), NEW c, Suits(u, c)
      PROVE  Obeys(u, c)
  <2>1. Obeys(t, c)
    BY <1>3 DEF Narrows, Explained
  <2>2. \A n \in 1..Len(u.own) : u.own[n].color \in {NoColor, c[n]}
    BY <1>3, <2>1 DEF Obeys
  <2>3. \A k \in 1..Len(u.combs) : Parted(u, u.combs[k].inputs, c)
    BY <1>2, <2>1 DEF Obeys
  <2> QED
    BY <2>1, <2>2, <2>3 DEF Obeys
<1> QED
  BY <1>3 DEF Explains, Explained

LEMMA ExplainsTransitive ==
    ASSUME NEW t, NEW u, NEW v, Explains(t, u), Explains(u, v)
    PROVE  Explains(t, v)
BY DEF Explains, Narrows

LEMMA ExplainsReflexive ==
    ASSUME NEW t
    PROVE  Explains(t, t)
BY DEF Explains, Narrows

LEMMA SameNetworksReflexive ==
    ASSUME NEW comb
    PROVE  SameNetworks(comb, comb)
BY DEF SameNetworks

LEMMA ConsumesReflexive ==
    ASSUME NEW t, WellFormed(t)
    PROVE  Consumes(t.own, t.own)
BY OwnTypes DEF Consumes

(* Only the colours change ...                                              *)
LEMMA ColoredSound ==
    ASSUME NEW t, WellFormed(t), Sound(t), NEW l \in 1..Len(t.own),
           NEW r \in 0..Len(t.own), NEW expected \in {0, 1}
    PROVE  LET colored == Colored(t, l, r, expected)
           IN  /\ Sound(colored.t) /\ WellFormed(colored.t) /\ KeepsApart(t, colored.t)
               /\ Explains(t, colored.t)
               /\ (colored.ok => \A c : Suits(colored.t, c) => Differing(c[l], c[r]) = expected)
               /\ (Apart(t, l, r) /\ expected = 0 => ~colored.ok)
<1> DEFINE colored == Colored(t, l, r, expected)
           u == colored.t
<1>1. /\ ColorsFit(t)
      /\ \A n \in 1..Len(t.own) : OwnExact(t.own[n])
  BY DEF Sound
<1>2. /\ ColorsFit(u) /\ KeepsApart(t, u) /\ Narrows(t, u)
      /\ (colored.ok => \A c : Suits(u, c) => Differing(c[l], c[r]) = expected)
      /\ (Apart(t, l, r) /\ expected = 0 => ~colored.ok)
  BY <1>1, ColoredFits
<1>3. WellFormed(u) /\ u.own = t.own /\ u.combs = t.combs /\ u.transfers = t.transfers
  BY ColoredGrows DEF Grows, Larger
<1> HIDE DEF colored
<1>4. /\ Consumes(t.own, u.own)
      /\ \A c \in 1..Len(t.combs) : SameNetworks(t.combs[c], u.combs[c])
  BY <1>3, SameNetworksReflexive, ConsumesReflexive
<1>5. Sound(u)
  BY <1>1, <1>2, <1>3, <1>4, StaysSound
<1>6. Explains(t, u)
  BY <1>2, <1>3, StaysExplained
<1> QED
  BY <1>2, <1>3, <1>5, <1>6 DEF colored

(* ... or all but the colours.                                              *)
LEMMA SameColorsSound ==
    ASSUME NEW t, WellFormed(t), Sound(t), NEW u, u.engine = t.engine,
           Len(u.own) = Len(t.own), Consumes(t.own, u.own),
           \A n \in 1..Len(t.own) : OwnExact(u.own[n]),
           Len(u.combs) = Len(t.combs),
           \A c \in 1..Len(t.combs) : SameNetworks(t.combs[c], u.combs[c]),
           u.transfers = t.transfers
    PROVE  /\ Sound(u)
           /\ ((\A n \in 1..Len(t.own) : u.own[n].color = t.own[n].color) => Explains(t, u))
<1>1. ColorsFit(u) /\ KeepsApart(t, u)
  BY DEF Sound, ColorsFit, KeepsApart, Apart
<1>2. \A k \in 1..Len(u.combs) : \E j \in 1..Len(t.combs) :
         u.combs[k].inputs = t.combs[j].inputs
  BY DEF SameNetworks
<1>3. Narrows(t, u)
  BY SameColorsNarrow
<1> QED
  BY <1>1, <1>2, <1>3, StaysSound, StaysExplained

(* A network is added, and has perhaps a colour.                            *)
LEMMA AddedSound ==
    ASSUME NEW t, WellFormed(t), Sound(t), NEW owner \in Int, owner >= Lost,
           NEW color \in {Red, Green, NoColor}, NEW u, WellFormed(u),
           u.engine = Colors!Add(t.engine), u.own = Append(t.own, Added(owner, color)),
           u.transfers = t.transfers, u.combs = t.combs
    PROVE  /\ Sound(u) /\ Len(u.own) = Len(t.own) + 1 /\ Narrows(t, u)
           /\ u.own[Len(t.own) + 1] = Added(owner, color)
           /\ \A n \in 1..Len(t.own) : u.own[n] = t.own[n]
<1> DEFINE record == Added(owner, color)
           size == Len(t.own)
<1>1. record \in Ownership /\ OwnExact(record)
  BY DEF Added, Ownership, NoBorrow, OwnExact, Red, Green, NoColor
<1>2. /\ size \in Nat /\ Len(u.own) = size + 1 /\ u.own[size + 1] = record
      /\ \A n \in 1..size : u.own[n] = t.own[n]
  <2> HIDE DEF record
  <2> QED
    BY <1>1, OwnTypes, AppendProperties DEF WellFormed, record
<1> HIDE DEF record
<1>3. \A n \in 1..size + 1 : n \in 1..size \/ n = size + 1
  BY <1>2
<1>4. \A n \in 1..Len(u.own) : OwnExact(u.own[n])
  BY <1>1, <1>2, <1>3 DEF Sound
<1>5. Consumes(t.own, u.own)
  BY <1>2 DEF Consumes
<1>6. Engines!AnchorInv(t.engine) /\ t.engine.size = size
  BY DEF Sound, ColorsFit
<1>7. /\ Engines!AnchorInv(Engines!Add(t.engine))
      /\ Engines!Add(t.engine).size = size + 1
      /\ \A i, j \in 0..size : Engines!Apart(t.engine, i, j)
                                   => Engines!Apart(Engines!Add(t.engine), i, j)
  BY <1>6, Engines!AddApart, BoundsAssumption DEF BoundsAssumption
<1>8. u.engine = Engines!Add(t.engine)
  BY SameAdd
<1>9. ColorsFit(u)
  BY <1>2, <1>7, <1>8 DEF ColorsFit
<1>10. KeepsApart(t, u)
  <2>1. \A i \in 1..size : i \in 0..size
    BY <1>2
  <2> QED
    BY <1>7, <1>8, <2>1 DEF KeepsApart, Apart
<1>11. \A c \in 1..Len(t.combs) : SameNetworks(t.combs[c], u.combs[c])
  BY SameNetworksReflexive
<1>12. Narrows(t, u)
  <2> DEFINE e == t.engine
             d == Engines!Add(e)
  <2>1. Engines!EngineInv(e) /\ e.size = size
    BY <1>6 DEF Engines!AnchorInv
  <2> HIDE DEF e
  <2>2. \A a \in Engines!Possible(d) : \E b \in Engines!Possible(e) :
           \A i \in 0..e.size : a[i] = b[i]
    BY <2>1, Engines!AddPossible, BoundsAssumption DEF BoundsAssumption
  <2>3. u.engine = d /\ t.engine = e
    BY <1>8 DEF e
  <2> HIDE DEF d
  <2>4. \A i \in 0..size : i \in 0..size + 1
    BY <1>2
  <2>5. \A c : Suits(u, c) => Suits(t, c)
    BY <1>2, <2>1, <2>2, <2>3, <2>4 DEF Suits
  <2>6. 1..size \subseteq 1..size + 1
    BY <1>2
  <2> QED
    BY <1>2, <2>5, <2>6 DEF Narrows
<1> QED
  BY <1>2, <1>4, <1>5, <1>9, <1>10, <1>11, <1>12, StaysSound DEF record

(* The colour of a new network is always accepted.                          *)
LEMMA NewColored ==
    ASSUME NEW t, ColorsFit(t), NEW u, u.engine = Colors!Add(t.engine),
           NEW color \in {0, 1}, NEW n, n = Len(t.own) + 1
    PROVE  Colored(u, n, 0, color).ok
<1> DEFINE e == t.engine
<1>1. Engines!AnchorInv(e) /\ n = e.size + 1
  BY DEF ColorsFit
<1>2. u.engine = Engines!Add(e)
  BY SameAdd
<1> HIDE DEF e
<1>3. Engines!Unite(Engines!Add(e), n, 0, color).outcome = "accepted"
  BY <1>1, Engines!NewTakesColor, BoundsAssumption DEF BoundsAssumption
<1> DEFINE anchor == 0
<1>4. Colors!Unite(u.engine, n, anchor, color) = Engines!Unite(u.engine, n, anchor, color)
  <2> HIDE DEF anchor
  <2> QED
    BY SameUnite
<1> QED
  BY <1>2, <1>3, <1>4 DEF Colored, Recolored

LEMMA NewNetworkSound ==
    ASSUME NEW t, WellFormed(t), Sound(t), NEW owner \in Int, owner >= Lost,
           NEW color \in {Red, Green, NoColor}
    PROVE  LET new == NewNetwork(t, owner, color)
           IN  /\ Sound(new) /\ WellFormed(new) /\ Explains(t, new)
               /\ (color = NoColor => new.engine = Colors!Add(t.engine))
<1> DEFINE new == NewNetwork(t, owner, color)
           record == Added(owner, color)
           own == Append(t.own, record)
           added == [engine |-> Colors!Add(t.engine), own |-> own,
                     transfers |-> t.transfers, combs |-> t.combs]
<1>1. color \in Int /\ (color # NoColor => color \in {0, 1})
  BY DEF Red, Green, NoColor
<1>2. /\ new = [engine |-> new.engine, own |-> own, transfers |-> t.transfers,
                combs |-> t.combs]
      /\ WellFormed(new) /\ Len(new.own) = Len(t.own) + 1
  <2>1. /\ new = [engine |-> new.engine, own |-> own, transfers |-> t.transfers,
                  combs |-> t.combs]
    BY <1>1, NewNetworkParts
  <2>2. WellFormed(new) /\ Len(new.own) = Len(t.own) + 1
    BY <1>1, NewNetworkGrows DEF Larger
  <2> QED
    BY <2>1, <2>2
<1>3. new = IF color = NoColor THEN added
            ELSE Colored(added, Len(t.own) + 1, 0, color).t
  <2>1. added = [t EXCEPT !.engine = Colors!Add(@), !.own = Append(@, record)]
    <3> HIDE DEF record
    <3> DEFINE v == [t EXCEPT !.engine = Colors!Add(@)]
    <3>1. t = [engine |-> t.engine, own |-> t.own, transfers |-> t.transfers,
               combs |-> t.combs]
      BY DEF WellFormed
    <3>2. v = [engine |-> Colors!Add(t.engine), own |-> t.own,
               transfers |-> t.transfers, combs |-> t.combs]
      BY <3>1
    <3>3. [t EXCEPT !.engine = Colors!Add(@), !.own = Append(@, record)]
              = [v EXCEPT !.own = Append(t.own, record)]
      OBVIOUS
    <3> HIDE DEF v
    <3> QED
      BY <3>2, <3>3
  <2> HIDE DEF added
  <2> QED
    BY <2>1 DEF NewNetwork, Added
<1> HIDE DEF new
<1>4. WellFormed(added)
  <2> HIDE DEF own
  <2>1. new.own = own /\ new.transfers = t.transfers /\ new.combs = t.combs
    BY <1>2
  <2> QED
    BY <1>2, <2>1 DEF WellFormed
<1>5. added.engine = Colors!Add(t.engine) /\ added.own = own
      /\ added.transfers = t.transfers /\ added.combs = t.combs
  OBVIOUS
<1> HIDE DEF added
<1>6. /\ Sound(added) /\ Len(added.own) = Len(t.own) + 1 /\ Narrows(t, added)
      /\ added.own[Len(t.own) + 1] = record
      /\ \A n \in 1..Len(t.own) : added.own[n] = t.own[n]
  BY <1>4, <1>5, AddedSound
<1>7. ASSUME color # NoColor
      PROVE  /\ Sound(new) /\ Narrows(t, new)
             /\ \A c : Suits(new, c) => c[Len(t.own) + 1] = color
  <2>1. color \in {0, 1}
    BY <1>1, <1>7
  <2> DEFINE n == Len(t.own) + 1
             anchor == 0
             colored == Colored(added, n, anchor, color)
  <2>2. n \in 1..Len(added.own) /\ anchor \in 0..Len(added.own)
    BY <1>6, OwnTypes
  <2>3. colored.ok
    <3>1. ColorsFit(t)
      BY DEF Sound
    <3> HIDE DEF n
    <3> QED
      BY <1>5, <2>1, <3>1, NewColored DEF n
  <2> HIDE DEF n, anchor
  <2>4. /\ Sound(colored.t) /\ Explains(added, colored.t) /\ WellFormed(colored.t)
        /\ \A c : Suits(colored.t, c) => Differing(c[n], c[anchor]) = color
    BY <1>4, <1>6, <2>1, <2>2, <2>3, ColoredSound
  <2>5. new = colored.t
    BY <1>3, <1>7 DEF n, anchor
  <2>6. Narrows(t, new)
    BY <1>6, <2>4, <2>5 DEF Explains, Narrows
  <2> HIDE DEF colored
  <2>7. ASSUME NEW c, Suits(new, c)
        PROVE  c[n] = color
    <3>1. c[anchor] = 0 /\ c[n] \in {0, 1}
      <4>1. ColorsFit(new) /\ Len(new.own) = n
        BY <1>2, <2>4, <2>5 DEF Sound, n
      <4>2. n \in 1..Len(new.own)
        BY <4>1, <1>6, <2>2 DEF n
      <4> QED
        BY <2>7, <4>1, <4>2, <1>2, SuitsRange DEF anchor
    <3>2. Differing(c[n], c[anchor]) = color
      BY <2>4, <2>5, <2>7
    <3> QED
      BY <3>1, <3>2 DEF Differing
  <2> QED
    BY <2>4, <2>5, <2>6, <2>7 DEF n
<1>8. Narrows(t, new)
  BY <1>3, <1>6, <1>7
<1>9. ASSUME NEW c, Suits(new, c), NEW n \in 1..Len(new.own)
      PROVE  \/ new.own[n].color \in {NoColor, c[n]}
             \/ n \in 1..Len(t.own) /\ new.own[n].color = t.own[n].color
  <2>1. new.own = added.own /\ Len(new.own) = Len(t.own) + 1 /\ Len(t.own) \in Nat
    BY <1>2, <1>5, OwnTypes
  <2>2. n \in 1..Len(t.own) \/ n = Len(t.own) + 1
    BY <2>1
  <2>3. record.color = color
    BY DEF Added
  <2> QED
    BY <1>6, <1>7, <1>9, <2>1, <2>2, <2>3
<1>10. new.transfers = t.transfers /\ new.combs = t.combs
  BY <1>2
<1>11. Explains(t, new)
  BY <1>8, <1>9, <1>10, StaysExplained
<1>12. color = NoColor => new.engine = Colors!Add(t.engine)
  BY <1>3, <1>5
<1>13. Sound(new)
  BY <1>3, <1>6, <1>7
<1> QED
  BY <1>2, <1>11, <1>12, <1>13 DEF new

(* Networks change otherwise, and none is unconsumed.                       *)
LEMMA OwnSound ==
    ASSUME NEW t, WellFormed(t), Sound(t), NEW own, Len(own) = Len(t.own),
           Consumes(t.own, own), \A n \in 1..Len(t.own) : OwnExact(own[n])
    PROVE  LET u == [t EXCEPT !.own = own]
           IN  /\ Sound(u)
               /\ ((\A n \in 1..Len(t.own) : own[n].color = t.own[n].color) => Explains(t, u))
<1> DEFINE u == WithOwn(t, own)
<1>1. /\ u.own = own /\ u.combs = t.combs /\ u.transfers = t.transfers
      /\ u.engine = t.engine
  BY WithOwnParts
<1>2. u = [t EXCEPT !.own = own]
  BY DEF WithOwn
<1> HIDE DEF u
<1>3. \A c \in 1..Len(t.combs) : SameNetworks(t.combs[c], u.combs[c])
  BY <1>1, SameNetworksReflexive
<1>4. /\ Sound(u)
      /\ ((\A n \in 1..Len(t.own) : u.own[n].color = t.own[n].color) => Explains(t, u))
  <2>1. /\ Len(u.own) = Len(t.own) /\ Consumes(t.own, u.own) /\ Len(u.combs) = Len(t.combs)
        /\ \A n \in 1..Len(t.own) : OwnExact(u.own[n])
    BY <1>1
  <2> QED
    BY <1>1, <1>3, <2>1, SameColorsSound
<1> QED
  BY <1>1, <1>2, <1>4

LEMMA FieldSound ==
    ASSUME NEW t, WellFormed(t), Sound(t), NEW n \in 1..Len(t.own), NEW o,
           OwnExact(o), t.own[n].consumed => o.consumed
    PROVE  LET u == [t EXCEPT !.own[n] = o]
           IN  Sound(u) /\ (o.color = t.own[n].color => Explains(t, u))
<1> DEFINE own == [t.own EXCEPT ![n] = o]
<1>1. t.own \in [1..Len(t.own) -> Ownership] /\ Len(t.own) \in Nat
  BY OwnTypes
<1>2. /\ DOMAIN own = 1..Len(t.own) /\ own[n] = o
      /\ \A m \in 1..Len(t.own) : m # n => own[m] = t.own[m]
      /\ Len(own) = Len(t.own)
  <2>1. own = [m \in 1..Len(t.own) |-> IF m = n THEN o ELSE t.own[m]]
    BY <1>1
  <2>2. own \in [1..Len(t.own) -> {own[m] : m \in 1..Len(t.own)}]
    <3> HIDE DEF own
    <3> QED
      BY <2>1
  <2> HIDE DEF own
  <2>3. Len(own) = Len(t.own)
    BY <1>1, <2>2, FunctionIsSequence
  <2> QED
    BY <2>1, <2>3
<1>3. [t EXCEPT !.own[n] = o] = [t EXCEPT !.own = own]
  OBVIOUS
<1> HIDE DEF own
<1>4. Consumes(t.own, own)
  BY <1>1, <1>2 DEF Consumes
<1>5. \A m \in 1..Len(t.own) : OwnExact(own[m])
  BY <1>2 DEF Sound
<1>6. o.color = t.own[n].color => \A m \in 1..Len(t.own) : own[m].color = t.own[m].color
  BY <1>2
<1> QED
  BY <1>2, <1>3, <1>4, <1>5, <1>6, OwnSound

LEMMA PaintedSound ==
    ASSUME NEW t, WellFormed(t), Sound(t), NEW n \in 1..Len(t.own),
           NEW color \in {Red, Green, NoColor}
    PROVE  Sound([t EXCEPT !.own[n].color = color])
<1> DEFINE r == t.own[n]
           o == [r EXCEPT !.color = color]
<1>1. r \in Ownership /\ OwnExact(r)
  BY OwnTypes DEF Sound
<1> HIDE DEF r
<1>2. OwnExact(o) /\ o.consumed = r.consumed
  BY <1>1 DEF OwnExact, Ownership
<1>3. [t EXCEPT !.own[n].color = color] = [t EXCEPT !.own[n] = o]
  BY DEF r
<1> HIDE DEF o
<1> QED
  BY <1>2, <1>3, FieldSound DEF r

LEMMA RequireColorSound ==
    ASSUME NEW t, WellFormed(t), Sound(t), NEW n \in 1..Len(t.own),
           NEW color \in {Red, Green, NoColor}
    PROVE  LET required == RequireColor(t, n, color)
           IN  Sound(required.t) /\ (required.ok => Explains(t, required.t))
<1>1. CASE color = NoColor \/ t.own[n].color \notin {NoColor, color}
  BY <1>1, ExplainsReflexive DEF RequireColor, Refused
<1>2. CASE color # NoColor /\ t.own[n].color \in {NoColor, color}
  <2> DEFINE anchor == 0
             colored == Colored(t, n, anchor, color)
             v == colored.t
             u == [v EXCEPT !.own[n].color = color]
  <2>1. v.own = t.own
    BY ColoredGrows
  <2>2. /\ WellFormed(v) /\ Sound(v) /\ Explains(t, v)
        /\ colored.ok => \A c : Suits(v, c) => Differing(c[n], c[anchor]) = color
    <3>1. color \in {0, 1} /\ anchor \in 0..Len(t.own)
      BY <1>2, OwnTypes DEF Red, Green, NoColor
    <3> HIDE DEF anchor
    <3> QED
      BY <3>1, ColoredSound
  <2>3. RequireColor(t, n, color).t = u /\ RequireColor(t, n, color).ok = colored.ok
    BY <1>2 DEF RequireColor, Painted, Colored, Recolored
  <2> HIDE DEF colored
  <2>4. Sound(u)
    BY <2>1, <2>2, PaintedSound
  <2>5. /\ u.engine = v.engine /\ u.transfers = v.transfers /\ u.combs = v.combs
        /\ u.own = [v.own EXCEPT ![n].color = color]
    BY <2>2 DEF WellFormed
  <2>6. /\ \A m \in 1..Len(t.own) : m # n => u.own[m] = v.own[m]
        /\ u.own[n].color = color /\ Len(u.own) = Len(t.own)
    <3> DEFINE o == [v.own[n] EXCEPT !.color = color]
               own == [v.own EXCEPT ![n] = o]
    <3>1. v.own[n] \in Ownership /\ v.own \in [1..Len(t.own) -> Ownership] /\ Len(t.own) \in Nat
      BY <2>1, OwnTypes
    <3> DEFINE r == v.own[n]
               q == [r EXCEPT !.color = color]
    <3>2. o \in Ownership /\ o.color = color
      <4>1. r \in Ownership /\ color \in Int
        BY <3>1 DEF Red, Green, NoColor
      <4> HIDE DEF r
      <4>2. q \in Ownership /\ q.color = color
        BY <4>1 DEF Ownership
      <4> QED
        BY <4>2 DEF r
    <3>3. u.own = own
      BY <2>5
    <3> HIDE DEF o, u
    <3>4. own[n] = o /\ \A m \in 1..Len(t.own) : m # n => own[m] = v.own[m]
      BY <3>1
    <3>5. own \in [1..Len(t.own) -> Ownership]
      BY <3>1, <3>2
    <3> HIDE DEF own
    <3>6. Len(own) = Len(t.own)
      BY <3>1, <3>5, FunctionIsSequence
    <3> QED
      BY <3>2, <3>3, <3>4, <3>6
  <2> HIDE DEF u
  <2>7. Narrows(v, u)
    BY <2>1, <2>5, <2>6, SameColorsNarrow
  <2>8. ASSUME colored.ok, NEW c, Suits(u, c), NEW m \in 1..Len(u.own)
        PROVE  \/ u.own[m].color \in {NoColor, c[m]}
               \/ m \in 1..Len(v.own) /\ u.own[m].color = v.own[m].color
    <3>1. CASE m # n
      BY <2>1, <2>6, <2>8, <3>1
    <3>2. CASE m = n
      <4>1. Suits(v, c)
        BY <2>7, <2>8 DEF Narrows
      <4>2. c[anchor] = 0 /\ c[n] \in {0, 1}
        BY <2>1, <2>2, <4>1, SuitsRange DEF Sound
      <4>3. Differing(c[n], c[anchor]) = color
        BY <2>2, <2>8, <4>1
      <4> QED
        BY <2>6, <3>2, <4>2, <4>3 DEF Differing
    <3> QED
      BY <3>1, <3>2
  <2>9. colored.ok => Explains(v, u)
    <3>1. \A k \in 1..Len(u.combs) : \E j \in 1..Len(v.combs) :
             u.combs[k].inputs = v.combs[j].inputs
      BY <2>5
    <3>2. u.transfers = v.transfers
      BY <2>5
    <3> HIDE DEF v
    <3> QED
      BY <2>7, <2>8, <3>1, <3>2, StaysExplained
  <2> QED
    BY <2>2, <2>3, <2>4, <2>9, ExplainsTransitive
<1> QED
  BY <1>1, <1>2

LEMMA MoveToSound ==
    ASSUME NEW t, WellFormed(t), Sound(t), NEW n \in 1..Len(t.own),
           NEW owner \in Int, owner >= Lost
    PROVE  Sound(MoveTo(t, n, owner)) /\ Explains(t, MoveTo(t, n, owner))
<1> DEFINE r == t.own[n]
           o == [r EXCEPT !.generation = @ + 1, !.owner = owner]
<1>1. r \in Ownership /\ OwnExact(r)
  BY OwnTypes DEF Sound
<1>2. MoveTo(t, n, owner) = [t EXCEPT !.own[n] = o]
  BY <1>1 DEF MoveTo, WellFormed, Ownership
<1> HIDE DEF r
<1>3. OwnExact(o) /\ o.consumed = r.consumed /\ o.color = r.color
  <2> DEFINE p == [r EXCEPT !.generation = @ + 1]
  <2>1. /\ p \in Ownership /\ p.consumed = r.consumed
        /\ p.generation \in Nat /\ p.color = r.color
    BY <1>1 DEF Ownership, OwnExact
  <2>2. o = [p EXCEPT !.owner = owner]
    OBVIOUS
  <2> HIDE DEF p, o
  <2>3. /\ o.consumed = r.consumed /\ o.generation \in Nat /\ o.color = r.color
        /\ o.owner = owner
    BY <2>1, <2>2 DEF Ownership
  <2> QED
    BY <1>1, <2>3 DEF OwnExact
<1> HIDE DEF o
<1> QED
  BY <1>2, <1>3, FieldSound DEF r

LEMMA ConsumedSound ==
    ASSUME NEW t, WellFormed(t), Sound(t), NEW n \in 1..Len(t.own)
    PROVE  LET u == [t EXCEPT !.own[n].consumed = TRUE] IN Sound(u) /\ Explains(t, u)
<1> DEFINE r == t.own[n]
           o == [r EXCEPT !.consumed = TRUE]
<1>1. r \in Ownership /\ OwnExact(r)
  BY OwnTypes DEF Sound
<1> HIDE DEF r
<1>2. OwnExact(o) /\ o.consumed /\ o.color = r.color
  BY <1>1 DEF OwnExact, Ownership
<1>3. [t EXCEPT !.own[n].consumed = TRUE] = [t EXCEPT !.own[n] = o]
  BY DEF r
<1> HIDE DEF o
<1> QED
  BY <1>2, <1>3, FieldSound DEF r

(* Outputs change otherwise, and keep their networks.                       *)
LEMMA CombsSound ==
    ASSUME NEW t, WellFormed(t), Sound(t), NEW combs, Len(combs) = Len(t.combs),
           \A c \in 1..Len(t.combs) : SameNetworks(t.combs[c], combs[c])
    PROVE  Sound(WithCombs(t, combs)) /\ Explains(t, WithCombs(t, combs))
<1> DEFINE u == WithCombs(t, combs)
<1>1. /\ u.own = t.own /\ u.combs = combs /\ u.transfers = t.transfers
      /\ u.engine = t.engine
  BY WithCombsParts
<1> HIDE DEF u
<1>2. Consumes(t.own, u.own) /\ \A n \in 1..Len(t.own) : OwnExact(u.own[n])
  BY <1>1, ConsumesReflexive DEF Sound
<1>3. Sound(u) /\ Explains(t, u)
  BY <1>1, <1>2, SameColorsSound
<1> QED
  BY <1>3 DEF u

LEMMA MarkUsedSound ==
    ASSUME NEW t, WellFormed(t), Sound(t), NEW networks
    PROVE  /\ Sound(MarkUsed(t, networks)) /\ Explains(t, MarkUsed(t, networks))
           /\ MarkUsed(t, networks).engine = t.engine
<1> DEFINE combs == Marked(t, networks)
<1>1. MarkUsed(t, networks) = WithCombs(t, combs)
  BY DEF MarkUsed, Marked, WithCombs
<1>2. Len(combs) = Len(t.combs)
  BY MarkedTypes
<1>3. ASSUME NEW c \in 1..Len(t.combs)
      PROVE  SameNetworks(t.combs[c], combs[c])
  <2> DEFINE comb == t.combs[c]
             touched == LanesOf(comb) \cap networks # {}
             new == [comb EXCEPT !.used = @ \/ touched]
  <2>1. combs[c] = new
    BY DEF Marked
  <2>2. comb \in Combinator(Len(t.own))
    BY CombinatorTypes
  <2> HIDE DEF combs, touched, comb
  <2>3. new.lanes = comb.lanes /\ new.inputs = comb.inputs
    BY <2>2 DEF Combinator
  <2> HIDE DEF new
  <2> QED
    BY <2>1, <2>3 DEF SameNetworks, comb
<1> HIDE DEF combs
<1>4. Sound(WithCombs(t, combs)) /\ Explains(t, WithCombs(t, combs))
  BY <1>2, <1>3, CombsSound
<1> QED
  BY <1>1, <1>4, WithCombsParts

(* The second lane of an output has the other colour than the first.        *)
LEMMA HandleExact ==
    ASSUME NEW t, WellFormed(t), Sound(t), NEW n \in 1..Len(t.own), NEW capability
    PROVE  /\ LaneExact(Handle(t, n, capability, NoBorrow))
           /\ Handle(t, n, capability, NoBorrow).network = n
BY DEF Handle, LaneExact, Sound, OwnExact

LEMMA LanedSound ==
    ASSUME NEW t, WellFormed(t), Sound(t), NEW c \in 1..Len(t.combs),
           NEW n \in 1..Len(t.own), Len(t.combs[c].lanes) = 1,
           Apart(t, t.combs[c].lanes[1].network, n)
    PROVE  Sound(Laned(t, c, n)) /\ Explains(t, Laned(t, c, n))
<1> DEFINE h == Handle(t, n, "owned", NoBorrow)
           old == t.combs[c].lanes
           lanes == Append(old, h)
           comb == [t.combs[c] EXCEPT !.lanes = lanes]
           combs == [t.combs EXCEPT ![c] = comb]
           u == WithCombs(t, combs)
<1>1. Len(t.combs) \in Nat /\ t.combs \in [1..Len(t.combs) -> Combinator(Len(t.own))]
      /\ t.combs[c] \in Combinator(Len(t.own)) /\ old \in Seq(HandleOf(Len(t.own)))
  BY CombinatorTypes
<1>2. LaneExact(h) /\ h.network = n /\ h \in HandleOf(Len(t.own))
  <2>1. NoBorrow \in Int
    BY DEF NoBorrow
  <2> QED
    BY <2>1, HandleExact, HandleTypes
<1>3. /\ u.own = t.own /\ u.combs = combs /\ u.transfers = t.transfers
      /\ u.engine = t.engine /\ Laned(t, c, n) = u
  <2>1. Laned(t, c, n) = u
    BY DEF Laned, WithCombs
  <2> HIDE DEF combs
  <2> QED
    BY <2>1, WithCombsParts
<1>4. \A i \in 1..Len(old) : LaneExact(old[i])
  BY DEF Sound, OutputSound
<1> HIDE DEF h, old, u
<1>5. Len(old) = 1
  BY DEF old
<1>6. /\ Len(lanes) = 2 /\ lanes[1] = old[1] /\ lanes[2] = h
  <2>1. /\ Len(lanes) = Len(old) + 1 /\ lanes[Len(old) + 1] = h
        /\ \A i \in 1..Len(old) : lanes[i] = old[i]
    BY <1>1, <1>2, AppendProperties
  <2> HIDE DEF lanes
  <2> QED
    BY <1>5, <2>1
<1> HIDE DEF lanes
<1>7. comb.lanes = lanes /\ comb.inputs = t.combs[c].inputs
  BY <1>1 DEF Combinator
<1> HIDE DEF comb
<1>8. combs[c] = comb /\ \A d \in 1..Len(t.combs) : d # c => combs[d] = t.combs[d]
  BY <1>1
<1>9. Len(combs) = Len(t.combs)
  <2>1. combs = [d \in 1..Len(t.combs) |-> IF d = c THEN comb ELSE t.combs[d]]
    BY <1>1
  <2>2. combs \in [1..Len(t.combs) -> {combs[d] : d \in 1..Len(t.combs)}]
    <3> HIDE DEF combs
    <3> QED
      BY <2>1
  <2> HIDE DEF combs
  <2> QED
    BY <1>1, <2>2, FunctionIsSequence
<1> HIDE DEF combs
<1>10. ColorsFit(u) /\ KeepsApart(t, u) /\ \A l, r : Apart(t, l, r) => Apart(u, l, r)
  BY <1>3 DEF Sound, ColorsFit, KeepsApart, Apart
<1>11. ASSUME NEW d \in 1..Len(t.combs)
       PROVE  OutputSound(u, combs[d])
  <2>1. CASE d # c
    <3>1. OutputSound(t, t.combs[d])
      BY DEF Sound
    <3> QED
      BY <1>8, <1>10, <2>1, <3>1, OutputStaysSound, SameNetworksReflexive
  <2>2. CASE d = c
    <3>1. \A i \in 1..2 : LaneExact(lanes[i])
      <4>1. \A i \in 1..2 : i = 1 \/ i = 2
        OBVIOUS
      <4>2. LaneExact(old[1])
        BY <1>4, <1>5
      <4> QED
        BY <1>2, <1>6, <4>1, <4>2
    <3>2. Apart(u, lanes[1].network, lanes[2].network)
      BY <1>2, <1>6, <1>10 DEF old
    <3> QED
      BY <1>6, <1>7, <1>8, <2>2, <3>1, <3>2 DEF OutputSound
  <2> QED
    BY <2>1, <2>2
<1>12. \A i \in 1..Len(u.transfers) : InOrder(u.transfers, u.own, i)
  BY <1>3 DEF Sound
<1>13. \A m \in 1..Len(u.own) : OwnExact(u.own[m])
  BY <1>3 DEF Sound
<1>14. Sound(u)
  BY <1>3, <1>9, <1>10, <1>11, <1>12, <1>13 DEF Sound
<1>15. Explains(t, u)
  <2>1. \A d \in 1..Len(t.combs) : combs[d].inputs = t.combs[d].inputs
    BY <1>7, <1>8
  <2>2. \A k \in 1..Len(u.combs) : \E j \in 1..Len(t.combs) :
           u.combs[k].inputs = t.combs[j].inputs
    BY <1>3, <1>9, <2>1
  <2>3. Narrows(t, u)
    BY <1>3, SameColorsNarrow
  <2> QED
    BY <1>3, <2>2, <2>3, StaysExplained
<1> QED
  BY <1>3, <1>14, <1>15

OwnersExact == OwnersKnown /\ Owner(frames) >= 0 /\ Caller >= 0

LEMMA WithSecondarySound ==
    ASSUME NEW t, WellFormed(t), Sound(t), NEW c \in 1..Len(t.combs), OwnersExact,
           Len(t.combs[c].lanes) = 1
    PROVE  Sound(WithSecondary(t, c)) /\ Explains(t, WithSecondary(t, c))
<1> DEFINE n == Len(t.own) + 1
           l == t.combs[c].lanes[1].network
           new == NewNetwork(t, Owner(frames), NoColor)
           colored == Colored(new, l, n, 1)
<1>1. /\ Sound(new) /\ WellFormed(new) /\ new.engine = Colors!Add(t.engine)
      /\ Len(new.own) = n /\ new.combs = t.combs /\ Explains(t, new)
  <2>1. Owner(frames) \in Int /\ Owner(frames) >= Lost /\ NoColor \in Int
        /\ NoColor \in {Red, Green, NoColor}
    BY DEF OwnersExact, OwnersKnown, Lost, NoColor
  <2> QED
    BY <2>1, NewNetworkSound, NewNetworkGrows
<1> HIDE DEF new
<1>2. /\ l \in 1..Len(t.own) /\ l \in 1..Len(new.own) /\ n \in 1..Len(new.own)
      /\ n \in 0..Len(new.own) /\ 1 \in {0, 1}
  <2>1. t.combs[c].lanes[1] \in HandleOf(Len(t.own)) /\ Len(t.own) \in Nat
    BY CombinatorTypes, OwnTypes
  <2>2. t.combs[c].lanes[1].network \in 1..Len(t.own)
    BY <2>1 DEF HandleOf
  <2> QED
    BY <1>1, <2>1, <2>2
<1>3. /\ Sound(colored.t) /\ WellFormed(colored.t)
      /\ colored.t.own = new.own /\ colored.t.combs = new.combs
      /\ Explains(new, colored.t)
  <2> DEFINE one == 1
  <2> HIDE DEF l, n, one
  <2>1. one \in {0, 1}
    BY DEF one
  <2>2. /\ Sound(Colored(new, l, n, one).t) /\ WellFormed(Colored(new, l, n, one).t)
        /\ Explains(new, Colored(new, l, n, one).t)
    BY <1>1, <1>2, <2>1, ColoredSound
  <2>3. /\ Colored(new, l, n, one).t.own = new.own
        /\ Colored(new, l, n, one).t.combs = new.combs
    BY <1>1, ColoredGrows
  <2> QED
    BY <2>2, <2>3 DEF one
<1>4. Apart(colored.t, l, n)
  <2> DEFINE e == t.engine
             united == Engines!Unite(Engines!Add(e), l, n, 1)
  <2>1. colored.t.engine = united.engine
    <3>1. new.engine = Engines!Add(e)
      BY <1>1, SameAdd
    <3>2. colored.t.engine = Colors!Unite(new.engine, l, n, 1).engine
      <4> HIDE DEF l, n
      <4> QED
        BY <1>1 DEF Colored, Recolored, WellFormed
    <3> HIDE DEF l, n
    <3> QED
      BY <3>1, <3>2, SameUnite
  <2>2. Engines!AnchorInv(e) /\ e.size = Len(t.own)
    BY DEF Sound, ColorsFit
  <2> HIDE DEF l, e
  <2>3. Engines!Apart(Engines!Unite(Engines!Add(e), l, e.size + 1, 1).engine, l, e.size + 1)
    BY <1>2, <2>2, Engines!NewApart, BoundsAssumption DEF BoundsAssumption
  <2> HIDE DEF colored
  <2> QED
    BY <2>1, <2>2, <2>3 DEF Apart
<1>5. WithSecondary(t, c) = Laned(colored.t, c, n)
  BY DEF WithSecondary, new
<1>6. c \in 1..Len(colored.t.combs) /\ Len(colored.t.combs[c].lanes) = 1
      /\ colored.t.combs[c].lanes[1].network = l /\ n \in 1..Len(colored.t.own)
  BY <1>1, <1>2, <1>3
<1> HIDE DEF colored, l, n
<1>7. Sound(Laned(colored.t, c, n)) /\ Explains(colored.t, Laned(colored.t, c, n))
  BY <1>3, <1>4, <1>6, LanedSound
<1> QED
  BY <1>1, <1>3, <1>5, <1>7, ExplainsTransitive

LEMMA TwoInTurn ==
    ASSUME NEW S, NEW a \in S, NEW b \in S, NEW s, s = <<a>> \o <<b>>
    PROVE  s \in Seq(S) /\ Len(s) = 2 /\ s[1] = a /\ s[2] = b
<1>1. /\ <<a>> \in Seq(S) /\ Len(<<a>>) = 1 /\ <<a>>[1] = a
      /\ <<b>> \in Seq(S) /\ Len(<<b>>) = 1 /\ <<b>>[1] = b
  OBVIOUS
<1> DEFINE p == <<a>>
           q == <<b>>
<1> HIDE DEF p, q
<1>2. /\ p \o q \in Seq(S) /\ Len(p \o q) = Len(p) + Len(q)
      /\ \A i \in 1..Len(p) : (p \o q)[i] = p[i]
      /\ \A i \in Len(p) + 1..Len(p) + Len(q) : (p \o q)[i] = q[i - Len(p)]
  <2>1. p \in Seq(S) /\ q \in Seq(S)
    BY <1>1 DEF p, q
  <2>2. /\ p \o q \in Seq(S) /\ Len(p \o q) = Len(p) + Len(q)
        /\ \A i \in 1..Len(p) + Len(q) :
              (p \o q)[i] = IF i <= Len(p) THEN p[i] ELSE q[i - Len(p)]
    BY <2>1, ConcatProperties
  <2>3. Len(p) = 1 /\ Len(q) = 1
    BY <1>1 DEF p, q
  <2> QED
    BY <2>2, <2>3
<1>3. Len(p) = 1 /\ p[1] = a /\ Len(q) = 1 /\ q[1] = b /\ s = p \o q
  BY <1>1 DEF p, q
<1> QED
  BY <1>2, <1>3

(* What is taken of an output are lanes of it, both of them or one.         *)
LEMMA TakeLanesSound ==
    ASSUME NEW t, WellFormed(t), Sound(t), NEW c \in 1..Len(t.combs),
           NEW count \in {1, 2}, OwnersExact
    PROVE  LET taken == TakeLanes(t, c, count)
           IN  /\ Sound(taken.t) /\ WellFormed(taken.t) /\ Explains(t, taken.t)
               /\ (taken.ok /\ count = 2 =>
                     Apart(taken.t, taken.lanes[1].network, taken.lanes[2].network))
<1> DEFINE short == Len(FreeLanes(t, c)) < count /\ Len(t.combs[c].lanes) < 2
           u == IF short THEN WithSecondary(t, c) ELSE t
           free == FreeLanes(u, c)
           lanes == u.combs[c].lanes
           first == FirstLanes(u, free, count)
<1>1. Len(t.combs[c].lanes) \in {1, 2}
  BY DEF Sound, OutputSound
<1>2. Sound(u) /\ c \in 1..Len(u.combs) /\ WellFormed(u) /\ Explains(t, u)
  <2>1. CASE short
    <3>1. \A k \in {1, 2} : k < 2 => k = 1
      OBVIOUS
    <3>4. Len(t.combs[c].lanes) = 1
      BY <1>1, <2>1, <3>1, Zenon
    <3>2. Sound(WithSecondary(t, c)) /\ Explains(t, WithSecondary(t, c))
      BY <3>4, WithSecondarySound
    <3>3. Len(WithSecondary(t, c).combs) = Len(t.combs) /\ WellFormed(WithSecondary(t, c))
      BY WithSecondaryGrows DEF OwnersExact, Grows, Larger
    <3> QED
      BY <2>1, <3>2, <3>3
  <2>2. CASE ~short
    BY <2>2, ExplainsReflexive
  <2> QED
    BY <2>1, <2>2
<1>3. TakeLanes(t, c, count) = first
  BY DEF TakeLanes, FreeLanesOf
<1> HIDE DEF u
<1>4. first.t = u
  BY DEF FirstLanes
<1>5. /\ Len(lanes) \in {1, 2}
      /\ (Len(lanes) = 2 => Apart(u, lanes[1].network, lanes[2].network))
  BY <1>2 DEF Sound, OutputSound
<1>6. ASSUME first.ok, count = 2
      PROVE  Apart(u, first.lanes[1].network, first.lanes[2].network)
  <2>1. Len(free) >= 2
    BY <1>6 DEF FirstLanes
  <2> DEFINE Free1(i) == IF Consumable(u, lanes[i]) THEN <<lanes[i]>> ELSE <<>>
  <2>2. free = IF Len(lanes) = 1 THEN Free1(1) ELSE Free1(1) \o Free1(2)
    BY DEF FreeLanes
  <2> HIDE DEF free, lanes
  <2> DEFINE H == HandleOf(Len(u.own))
  <2>3. /\ Len(lanes) = 2 /\ free \in Seq(H)
        /\ Len(free) = 2 /\ free[1] = lanes[1] /\ free[2] = lanes[2]
    <3>1. CASE Len(lanes) = 1
      BY <2>1, <2>2, <3>1
    <3>2. CASE Len(lanes) # 1
      <4>1. Len(lanes) = 2 /\ free = Free1(1) \o Free1(2)
        BY <1>5, <2>2, <3>2
      <4>2. CASE Consumable(u, lanes[1]) /\ Consumable(u, lanes[2])
        <5>1. lanes[1] \in H /\ lanes[2] \in H
          <6>1. \A i \in 1..Len(lanes) : lanes[i] \in H
            BY <1>2, CombinatorTypes DEF lanes
          <6>2. 1 \in 1..Len(lanes) /\ 2 \in 1..Len(lanes)
            BY <4>1
          <6> QED
            BY <6>1, <6>2
        <5>2. free = <<lanes[1]>> \o <<lanes[2]>>
          BY <4>1, <4>2
        <5> HIDE DEF H
        <5>3. free \in Seq(H) /\ Len(free) = 2 /\ free[1] = lanes[1] /\ free[2] = lanes[2]
          BY <5>1, <5>2, TwoInTurn
        <5> QED
          BY <4>1, <5>3
      <4>3. CASE ~Consumable(u, lanes[1]) /\ Consumable(u, lanes[2])
        BY <2>1, <4>1, <4>3
      <4>4. CASE Consumable(u, lanes[1]) /\ ~Consumable(u, lanes[2])
        BY <2>1, <4>1, <4>4
      <4>5. CASE ~Consumable(u, lanes[1]) /\ ~Consumable(u, lanes[2])
        BY <2>1, <4>1, <4>5
      <4> QED
        BY <4>2, <4>3, <4>4, <4>5
    <3> QED
      BY <3>1, <3>2
  <2>4. first.lanes = SubSeq(free, 1, 2)
    BY <1>6, <2>1, <2>3 DEF FirstLanes
  <2> HIDE DEF H
  <2>5. first.lanes[1] = lanes[1] /\ first.lanes[2] = lanes[2]
    BY <2>3, <2>4, SubSeqProperties
  <2> QED
    BY <1>5, <2>3, <2>5
<1> HIDE DEF first, free, lanes
<1> QED
  BY <1>2, <1>3, <1>4, <1>6

-----------------------------------------------------------------------------
(* A network that transfers have taken into others has become one of those. *)
Rooted(root, link) == IF link[2] = root THEN link[1] ELSE root

(* The order of the naturals, as the library takes one.                     *)
Below == {ss \in Nat \X Nat : ss[1] < ss[2]}

(* A set of naturals has a least element, so induction needs no operator.   *)
LEMMA NaturalInduction ==
    ASSUME NEW G \in SUBSET Nat, 0 \in G, \A m \in G : m + 1 \in G
    PROVE  G = Nat
<1>1. IsWellFoundedOn(Below, Nat)
  BY NatLessThanWellFounded, Zenon DEF OpToRel, Below
<1>2. SUFFICES ASSUME Nat \ G # {} PROVE FALSE
  OBVIOUS
<1>3. PICK k \in Nat \ G : \A j \in Nat \ G : ~(<<j, k>> \in Below)
  BY <1>1, <1>2, WFMin
<1>4. k # 0 /\ k - 1 \in Nat
  OBVIOUS
<1>5. k - 1 \in G
  <2>1. <<k - 1, k>> \in Below
    BY <1>4 DEF Below
  <2>. QED  BY <1>3, <1>4, <2>1
<1>6. (k - 1) + 1 \in G
  BY <1>5
<1>. QED  BY <1>6

(* A set of naturals that is not empty has a least element.                 *)
LEMMA LeastExists ==
    ASSUME NEW S \in SUBSET Nat, S # {}
    PROVE  \E n \in S : \A m \in S : n <= m
<1>1. IsWellFoundedOn(Below, Nat)
  BY NatLessThanWellFounded, Zenon DEF OpToRel, Below
<1>2. PICK n \in S : \A m \in S : ~(<<m, n>> \in Below)
  BY <1>1, WFMin
<1>3. ASSUME NEW m \in S, m < n
      PROVE  FALSE
  <2>1. <<m, n>> \in Nat \X Nat
    OBVIOUS
  <2>2. <<m, n>> \in Below
    BY <1>3, <2>1 DEF Below
  <2>. QED  BY <1>2, <2>2
<1>4. \A m \in S : n <= m
  BY <1>3
<1>. QED  BY <1>4

Rooting == INSTANCE LeftFolds WITH Op <- Rooted

LEMMA RootingInducts == Rooting!Induction
BY NaturalInduction DEF Rooting!Induction

(* What it has become after each of them.                                   *)
Along(links, n) == CHOOSE g : Rooting!IsRun(g, n, links, Len(links))

LEMMA AlongSteps ==
    ASSUME NEW links, Len(links) \in Nat, NEW n
    PROVE  /\ Along(links, n)[0] = n
           /\ \A i \in 1..Len(links) :
                 Along(links, n)[i] = Rooted(Along(links, n)[i - 1], links[i])
           /\ RootAlong(links, n) = Along(links, n)[Len(links)]
<1> DEFINE size == Len(links)
           root == CHOOSE g : Rooting!IsRun(g, n, links, size)
<1>1. RootAlong(links, n) = root[size]
  BY DEF RootAlong, Rooting!IsRun, Rooted
<1>2. root = Along(links, n)
  BY DEF Along
<1> HIDE DEF size
<1>3. size \in Nat
  BY DEF size
<1>4. Rooting!IsRun(root, n, links, size)
  BY <1>3, Rooting!RunExists, RootingInducts
<1> HIDE DEF root
<1>5. \A i \in 0..size : root[i] = IF i = 0 THEN n ELSE Rooted(root[i - 1], links[i])
  BY <1>4 DEF Rooting!IsRun
<1>6. root[0] = n /\ \A i \in 1..size : root[i] = Rooted(root[i - 1], links[i])
  BY <1>3, <1>5
<1> QED
  BY <1>1, <1>2, <1>6 DEF size

LEMMA RootAppended ==
    ASSUME NEW links, Len(links) \in Nat, NEW longer, NEW link,
           Len(longer) = Len(links) + 1, longer[Len(links) + 1] = link,
           \A i \in 1..Len(links) : longer[i] = links[i], NEW n
    PROVE  RootAlong(longer, n) = Rooted(RootAlong(links, n), link)
<1> DEFINE size == Len(links)
           f == Along(links, n)
           g == Along(longer, n)
<1>1. /\ f[0] = n /\ \A i \in 1..size : f[i] = Rooted(f[i - 1], links[i])
      /\ RootAlong(links, n) = f[size]
  BY AlongSteps
<1>2. /\ g[0] = n /\ \A i \in 1..size + 1 : g[i] = Rooted(g[i - 1], longer[i])
      /\ RootAlong(longer, n) = g[size + 1]
  BY AlongSteps
<1>3. size \in Nat /\ longer[size + 1] = link /\ \A i \in 1..size : longer[i] = links[i]
  OBVIOUS
<1> HIDE DEF f, g, size
<1> DEFINE Good == {m \in Nat : m <= size => g[m] = f[m]}
<1>4. 0 \in Good
  BY <1>1, <1>2
<1>5. ASSUME NEW m \in Good
      PROVE  m + 1 \in Good
  <2>1. ASSUME m + 1 <= size
        PROVE  g[m + 1] = f[m + 1]
    <3>1. /\ m + 1 \in 1..size /\ m + 1 \in 1..size + 1
          /\ (m + 1) - 1 = m /\ g[m] = f[m]
      BY <1>3, <2>1
    <3>2. g[m + 1] = Rooted(g[m], longer[m + 1]) /\ f[m + 1] = Rooted(f[m], links[m + 1])
      BY <1>1, <1>2, <3>1
    <3> QED
      BY <1>3, <3>1, <3>2
  <2> QED
    BY <2>1
<1>6. Good = Nat
  <2>1. Good \in SUBSET Nat
    OBVIOUS
  <2> HIDE DEF Good
  <2> QED
    BY <1>4, <1>5, <2>1, NaturalInduction
<1>7. g[size] = f[size]
  BY <1>3, <1>6
<1>8. g[size + 1] = Rooted(g[size], longer[size + 1])
  <2>1. size + 1 \in 1..size + 1 /\ (size + 1) - 1 = size
    BY <1>3
  <2> QED
    BY <1>2, <2>1
<1> QED
  BY <1>1, <1>2, <1>3, <1>7, <1>8

(* A transfer of two networks that the engine leaves no colouring of with   *)
(* different colours.                                                       *)
LEMMA LinkExplains ==
    ASSUME NEW t, WellFormed(t), NEW u, Narrows(t, u), NEW link,
           u.transfers = Append(t.transfers, link), link \in Link(Len(t.own)),
           \A k \in 1..Len(u.combs) : \E j \in 1..Len(t.combs) :
               u.combs[k].inputs = t.combs[j].inputs,
           Len(u.own) = Len(t.own),
           \A n \in 1..Len(t.own) : u.own[n].color = t.own[n].color,
           \A c : Suits(u, c) => c[link[1]] = c[link[2]]
    PROVE  Explains(t, u)
<1> DEFINE size == Len(t.transfers)
<1>1. /\ Len(u.transfers) = size + 1 /\ u.transfers[size + 1] = link
      /\ \A i \in 1..size : u.transfers[i] = t.transfers[i]
  BY AppendProperties DEF WellFormed
<1>2. size \in Nat
  BY TransferTypes
<1>3. \A n : LogicalRoot(u, n) = Rooted(LogicalRoot(t, n), link)
  <2> DEFINE links == t.transfers
             longer == u.transfers
  <2>1. /\ Len(links) \in Nat /\ Len(longer) = Len(links) + 1
        /\ longer[Len(links) + 1] = link
        /\ \A i \in 1..Len(links) : longer[i] = links[i]
    BY <1>1, <1>2
  <2> HIDE DEF links, longer
  <2>2. \A n : RootAlong(longer, n) = Rooted(RootAlong(links, n), link)
    BY <2>1, RootAppended
  <2> QED
    BY <2>2, LogicalRootAlong DEF links, longer
<1>4. \A inputs, c : Parted(t, inputs, c) => Parted(u, inputs, c)
  BY <1>3 DEF Parted
<1>5. ASSUME Explained(t), NEW c, Suits(u, c)
      PROVE  Obeys(u, c)
  <2>1. Obeys(t, c)
    BY <1>5 DEF Narrows, Explained
  <2>2. \A n \in 1..Len(u.own) : u.own[n].color \in {NoColor, c[n]}
    BY <2>1 DEF Obeys
  <2>3. \A k \in 1..Len(u.combs) : Parted(u, u.combs[k].inputs, c)
    BY <1>4, <2>1 DEF Obeys
  <2>4. \A i \in 1..Len(u.transfers) : c[u.transfers[i][1]] = c[u.transfers[i][2]]
    <3>1. \A i \in 1..size : c[t.transfers[i][1]] = c[t.transfers[i][2]]
      BY <2>1 DEF Obeys
    <3>2. \A i \in 1..size + 1 : i \in 1..size \/ i = size + 1
      BY <1>2
    <3>3. c[link[1]] = c[link[2]]
      BY <1>5
    <3> HIDE DEF size
    <3> QED
      BY <1>1, <3>1, <3>2, <3>3
  <2> QED
    BY <2>2, <2>3, <2>4 DEF Obeys
<1> QED
  BY <1>5 DEF Explains, Explained

(* A transfer of networks that none has consumed is in order.               *)
LEMMA LinkedSound ==
    ASSUME NEW t, WellFormed(t), Sound(t), NEW destination \in 1..Len(t.own),
           NEW source \in 1..Len(t.own), destination # source, t.own[source].consumed,
           \A j \in 1..Len(t.transfers) : t.transfers[j][2] \notin {destination, source}
    PROVE  LET u == Linked2(t, destination, source)
           IN  /\ Sound(u) /\ u.engine = t.engine /\ u.own = t.own
               /\ ((\A c : Suits(t, c) => c[destination] = c[source]) => Explains(t, u))
<1> DEFINE link == <<destination, source>>
           transfers == Append(t.transfers, link)
           size == Len(t.transfers)
           v == [t EXCEPT !.transfers = Append(@, link)]
<1>1. /\ transfers \in Seq(Link(Len(t.own))) /\ Len(transfers) = size + 1
      /\ \A i \in 1..size : transfers[i] = t.transfers[i]
      /\ transfers[size + 1] = link
  <2>1. link \in Link(Len(t.own))
    BY DEF Link
  <2> HIDE DEF link
  <2> QED
    BY <2>1, AppendProperties DEF WellFormed
<1>2. size \in Nat /\ link[1] = destination /\ link[2] = source
  BY TransferTypes
<1>3. v = [engine |-> t.engine, own |-> t.own, transfers |-> transfers, combs |-> t.combs]
  <2>1. t = [engine |-> t.engine, own |-> t.own, transfers |-> t.transfers,
             combs |-> t.combs]
    BY DEF WellFormed
  <2>2. v = [t EXCEPT !.transfers = transfers]
    OBVIOUS
  <2> HIDE DEF transfers, v
  <2> QED
    BY <2>1, <2>2
<1> HIDE DEF v, transfers, link, size
<1>4. /\ v.engine = t.engine /\ v.own = t.own /\ v.transfers = transfers
      /\ v.combs = t.combs
  BY <1>3
<1>5. WellFormed(v)
  BY <1>1, <1>3, <1>4 DEF WellFormed
<1>6. \A i \in 1..size + 1 : i \in 1..size \/ i = size + 1
  BY <1>2
<1>7. ASSUME NEW i \in 1..size + 1
      PROVE  InOrder(transfers, t.own, i)
  <2>1. \A j \in 1..size : \A k \in 1..j - 1 : k \in 1..size
    BY <1>2
  <2>2. CASE i \in 1..size
    <3>1. InOrder(t.transfers, t.own, i)
      BY <2>2 DEF Sound, size
    <3> QED
      BY <1>1, <2>1, <2>2, <3>1 DEF InOrder
  <2>3. CASE i = size + 1
    <3>1. \A j \in 1..i - 1 : j \in 1..size
      BY <1>2, <2>3
    <3> QED
      BY <1>1, <1>2, <2>3, <3>1 DEF InOrder, size
  <2> QED
    BY <1>6, <2>2, <2>3
<1>8. ColorsFit(v) /\ KeepsApart(t, v)
  BY <1>4 DEF Sound, ColorsFit, KeepsApart, Apart
<1>9. \A c \in 1..Len(v.combs) : OutputSound(v, v.combs[c])
  <2>1. \A c \in 1..Len(t.combs) : OutputSound(t, t.combs[c])
    BY DEF Sound
  <2> QED
    BY <1>4, <1>8, <2>1, OutputStaysSound, SameNetworksReflexive
<1>10. Sound(v)
  BY <1>1, <1>4, <1>7, <1>8, <1>9 DEF Sound
<1> DEFINE u == MarkUsed(v, {destination, source})
<1>11. Linked2(t, destination, source) = u
  BY DEF Linked2, v, link
<1>12. Sound(u) /\ u.engine = v.engine /\ u.own = v.own /\ Explains(v, u)
  BY <1>5, <1>10, MarkUsedSound, MarkUsedGrows
<1> HIDE DEF u
<1>13. ASSUME \A c : Suits(t, c) => c[destination] = c[source]
       PROVE  Explains(t, v)
  <2>1. Narrows(t, v)
    BY <1>4, SameColorsNarrow
  <2>2. \A c : Suits(v, c) => c[link[1]] = c[link[2]]
    BY <1>2, <1>13, <2>1 DEF Narrows
  <2>3. v.transfers = Append(t.transfers, link) /\ link \in Link(Len(t.own))
    BY <1>4 DEF transfers, link, Link
  <2> QED
    BY <1>4, <2>1, <2>2, <2>3, LinkExplains
<1> QED
  BY <1>4, <1>11, <1>12, <1>13, ExplainsTransitive

LEMMA TransferredSound ==
    ASSUME NEW t, WellFormed(t), Sound(t), NEW destination \in 1..Len(t.own),
           NEW source \in 1..Len(t.own), destination # source,
           ~t.own[destination].consumed, ~t.own[source].consumed,
           NEW same, same.ok, same.t = t, same = [ok |-> same.ok, t |-> same.t]
    PROVE  LET w == Transferred(same, destination, source).t
           IN  /\ Sound(w) /\ KeepsApart(t, w)
               /\ ((\A c : Suits(t, c) => c[destination] = c[source]) => Explains(t, w))
               /\ \A n \in 1..Len(t.own) : n # source => w.own[n] = t.own[n]
<1> DEFINE u == [t EXCEPT !.own[source].consumed = TRUE]
           w == Linked2(u, destination, source)
<1>1. Transferred(same, destination, source).t = w
  <2>1. [t EXCEPT !.transfers = Append(@, <<destination, source>>),
                  !.own[source].consumed = TRUE]
            = [u EXCEPT !.transfers = Append(@, <<destination, source>>)]
    BY LinkedAndConsumed
  <2> HIDE DEF u
  <2> QED
    BY <2>1 DEF Transferred, Linked2
<1>2. Sound(u) /\ Explains(t, u)
  BY ConsumedSound
<1>3. /\ u.engine = t.engine /\ u.transfers = t.transfers /\ u.combs = t.combs
      /\ u.own = [t.own EXCEPT ![source].consumed = TRUE]
  BY DEF WellFormed
<1>4. /\ \A n \in 1..Len(t.own) : n # source => u.own[n] = t.own[n]
      /\ u.own[source].consumed /\ Len(u.own) = Len(t.own)
  <2> DEFINE r == t.own[source]
             o == [r EXCEPT !.consumed = TRUE]
             own == [t.own EXCEPT ![source] = o]
  <2>1. /\ t.own \in [1..Len(t.own) -> Ownership] /\ Len(t.own) \in Nat
        /\ r \in Ownership
    BY OwnTypes
  <2>2. u.own = own
    BY <1>3
  <2> HIDE DEF r
  <2>3. o \in Ownership /\ o.consumed
    BY <2>1 DEF Ownership
  <2> HIDE DEF o
  <2>4. /\ own \in [1..Len(t.own) -> Ownership] /\ own[source] = o
        /\ \A n \in 1..Len(t.own) : n # source => own[n] = t.own[n]
    BY <2>1, <2>3
  <2> HIDE DEF own, u
  <2> QED
    BY <2>1, <2>2, <2>3, <2>4, FunctionIsSequence
<1>5. WellFormed(u)
  <2>1. /\ u = [engine |-> u.engine, own |-> u.own, transfers |-> u.transfers,
                combs |-> u.combs]
    <3> DEFINE own == [t.own EXCEPT ![source].consumed = TRUE]
    <3>1. u = WithOwn(t, own)
      BY DEF WithOwn
    <3> HIDE DEF own, u
    <3> QED
      BY <3>1, WithOwnParts
  <2> DEFINE r == t.own[source]
             o == [r EXCEPT !.consumed = TRUE]
             own == [t.own EXCEPT ![source] = o]
  <2>2. r \in Ownership /\ t.own \in [1..Len(t.own) -> Ownership] /\ u = WithOwn(t, own)
    BY OwnTypes DEF WithOwn
  <2> HIDE DEF r
  <2>3. /\ o \in Ownership /\ o.generation = r.generation /\ r.generation \in Int
    BY <2>2 DEF Ownership
  <2> HIDE DEF o
  <2>4. /\ own \in [1..Len(t.own) -> Ownership]
        /\ \A n \in 1..Len(t.own) : t.own[n].generation <= own[n].generation
    <3>1. \A n \in 1..Len(t.own) : t.own[n].generation \in Int
      BY OwnTypes DEF Ownership
    <3> QED
      BY <2>2, <2>3, <3>1 DEF r
  <2> HIDE DEF own, u
  <2> QED
    BY <2>2, <2>4, OwnChanged
<1>6. \A j \in 1..Len(u.transfers) : u.transfers[j][2] \notin {destination, source}
  <2>1. \A j \in 1..Len(t.transfers) : t.own[t.transfers[j][2]].consumed
    BY DEF Sound, InOrder
  <2> QED
    BY <1>3, <2>1
<1> HIDE DEF u
<1>7. /\ Sound(w) /\ w.engine = u.engine /\ w.own = u.own
      /\ ((\A c : Suits(u, c) => c[destination] = c[source]) => Explains(u, w))
  BY <1>2, <1>4, <1>5, <1>6, LinkedSound
<1> HIDE DEF w
<1>8. KeepsApart(t, w)
  BY <1>3, <1>7 DEF KeepsApart, Apart
<1>9. (\A c : Suits(t, c) => c[destination] = c[source]) => Explains(t, w)
  <2>1. \A c : Suits(u, c) => Suits(t, c)
    BY <1>2 DEF Explains, Narrows
  <2> QED
    BY <1>2, <1>7, <2>1, ExplainsTransitive
<1> QED
  BY <1>1, <1>4, <1>7, <1>8, <1>9

LEMMA TransferNetworkSound ==
    ASSUME NEW t, WellFormed(t), Sound(t), OwnersKnown,
           NEW destination \in HandleOf(Len(t.own)), NEW source \in HandleOf(Len(t.own)),
           \/ ~Of(t, destination).consumed
           \/ Apart(t, destination.network, source.network)
    PROVE  LET result == TransferNetwork(t, destination, source)
           IN  /\ Sound(result.t) /\ WellFormed(result.t) /\ KeepsApart(t, result.t)
               /\ (result.ok => Explains(t, result.t))
               /\ \A n \in 1..Len(t.own) :
                     n # source.network => result.t.own[n] = t.own[n]
<1> DEFINE d == destination.network
           s == source.network
           same == Colored(t, d, s, 0)
           result == TransferNetwork(t, destination, source)
           Good(u) == /\ Sound(u) /\ KeepsApart(t, u)
                      /\ \A n \in 1..Len(t.own) : n # s => u.own[n] = t.own[n]
<1>1. d \in 1..Len(t.own) /\ s \in 1..Len(t.own) /\ s \in 0..Len(t.own) /\ Len(t.own) \in Nat
  <2>1. d \in 1..Len(t.own) /\ s \in 1..Len(t.own)
    BY DEF HandleOf
  <2> QED
    BY <2>1, OwnTypes
<1>2. WellFormed(result.t)
  BY TransferNetworkGrows DEF Outcome, Grows, Larger
<1>3. /\ Sound(same.t) /\ WellFormed(same.t) /\ KeepsApart(t, same.t)
      /\ Explains(t, same.t)
      /\ (same.ok => \A c : Suits(same.t, c) => c[d] = c[s])
      /\ same.t.own = t.own /\ (Apart(t, d, s) => ~same.ok)
      /\ same = [ok |-> same.ok, t |-> same.t]
  <2> DEFINE none == 0
  <2> HIDE DEF d, s, none
  <2>1. none \in {0, 1} /\ none = 0
    BY DEF none
  <2>2. /\ Sound(Colored(t, d, s, none).t) /\ WellFormed(Colored(t, d, s, none).t)
        /\ KeepsApart(t, Colored(t, d, s, none).t)
        /\ Explains(t, Colored(t, d, s, none).t)
        /\ (Colored(t, d, s, none).ok =>
              \A c : Suits(Colored(t, d, s, none).t, c) => Differing(c[d], c[s]) = none)
        /\ (Apart(t, d, s) => ~Colored(t, d, s, none).ok)
    BY <1>1, <2>1, ColoredSound
  <2>3. Colored(t, d, s, none).t.own = t.own
    BY ColoredGrows
  <2>4. same = [ok |-> same.ok, t |-> same.t]
    BY DEF Colored, Recolored
  <2>5. \A a, b : Differing(a, b) = 0 => a = b
    BY DEF Differing
  <2> QED
    BY <2>2, <2>3, <2>4, <2>5 DEF none
<1>4. CASE ~Consumable(t, source) \/ d = s
  <2>1. result.t = t /\ ~result.ok
    BY <1>4 DEF TransferNetwork, Refused
  <2> QED
    BY <1>2, <2>1 DEF KeepsApart
<1>5. CASE Consumable(t, source) /\ d # s
  <2>1. result = Transferred(same, d, s)
    BY <1>5 DEF TransferNetwork
  <2> HIDE DEF same, d, s, result
  <2>2. CASE ~same.ok
    <3>1. result = same
      BY <2>1, <2>2 DEF Transferred
    <3> QED
      BY <1>2, <1>3, <3>1 DEF d, s, result
  <2>3. CASE same.ok
    <3>1. ~t.own[d].consumed /\ ~t.own[s].consumed
      BY <1>3, <1>5, <2>3 DEF Consumable, Readable, Current, Of, d, s
    <3> DEFINE u == same.t
               w == Transferred(same, d, s).t
    <3>2. /\ u.own = t.own /\ WellFormed(u) /\ Sound(u) /\ same.t = u
          /\ same = [ok |-> same.ok, t |-> same.t]
      BY <1>3
    <3> HIDE DEF u
    <3>3. /\ Sound(w) /\ KeepsApart(u, w)
          /\ ((\A c : Suits(u, c) => c[d] = c[s]) => Explains(u, w))
          /\ \A n \in 1..Len(u.own) : n # s => w.own[n] = u.own[n]
      BY <1>1, <1>5, <2>3, <3>1, <3>2, TransferredSound
    <3>4. KeepsApart(t, w)
      BY <1>3, <3>2, <3>3 DEF KeepsApart
    <3>5. Explains(t, w)
      BY <1>3, <2>3, <3>3, ExplainsTransitive DEF u
    <3> HIDE DEF w
    <3> QED
      BY <1>2, <2>1, <3>2, <3>3, <3>4, <3>5 DEF w, d, s, result
  <2> QED
    BY <2>2, <2>3
<1> QED
  BY <1>4, <1>5

(* Of two transfers, the second may be into the source of the first only if *)
(* the sources are coloured apart, as the lanes of an output are.           *)
LEMMA TransferAllSound ==
    ASSUME NEW t, WellFormed(t), Sound(t), OwnersKnown, NEW destinations, NEW sources,
           destinations[1] \in HandleOf(Len(t.own)), OneOrTwoOf(t, sources),
           ~Of(t, destinations[1]).consumed,
           Len(sources) # 1 => /\ destinations[2] \in HandleOf(Len(t.own))
                               /\ ~Of(t, destinations[2]).consumed
                               /\ \/ destinations[2].network # sources[1].network
                                  \/ Apart(t, sources[1].network, sources[2].network)
    PROVE  LET result == TransferAll(t, destinations, sources)
           IN  Sound(result.t) /\ (result.ok => Explains(t, result.t))
<1> DEFINE first == TransferNetwork(t, destinations[1], sources[1])
           second == TransferNetwork(first.t, destinations[2], sources[2])
<1>1. /\ sources[1] \in HandleOf(Len(t.own))
      /\ Len(sources) # 1 => sources[2] \in HandleOf(Len(t.own))
  BY OneOrTwoTypes
<1>2. Outcome(t, first)
  BY <1>1, TransferNetworkGrows
<1>3. /\ Sound(first.t) /\ WellFormed(first.t) /\ KeepsApart(t, first.t)
      /\ (first.ok => Explains(t, first.t))
      /\ \A n \in 1..Len(t.own) : n # sources[1].network => first.t.own[n] = t.own[n]
  BY <1>1, TransferNetworkSound
<1> HIDE DEF first
<1>4. HandleOf(Len(t.own)) \subseteq HandleOf(Len(first.t.own))
  BY <1>2, OwnTypes, HandlesWiden DEF Outcome, Grows, Larger, OwnGrows
<1>5. ASSUME Len(sources) # 1
      PROVE  Sound(second.t) /\ (second.ok => Explains(first.t, second.t))
  <2>1. /\ destinations[2] \in HandleOf(Len(first.t.own))
        /\ sources[2] \in HandleOf(Len(first.t.own))
    BY <1>1, <1>4, <1>5
  <2>2. \/ ~Of(first.t, destinations[2]).consumed
        \/ Apart(first.t, destinations[2].network, sources[2].network)
    <3>1. /\ destinations[2].network \in 1..Len(t.own)
          /\ sources[1].network \in 1..Len(t.own) /\ sources[2].network \in 1..Len(t.own)
      BY <1>1, <1>5 DEF HandleOf
    <3>2. CASE destinations[2].network # sources[1].network
      BY <1>3, <1>5, <3>1, <3>2 DEF Of
    <3>3. CASE destinations[2].network = sources[1].network
      BY <1>3, <1>5, <3>1, <3>3 DEF KeepsApart
    <3> QED
      BY <3>2, <3>3
  <2> QED
    BY <1>3, <2>1, <2>2, TransferNetworkSound
<1> DEFINE next == TransferNext(first, destinations[2], sources[2])
<1>6. Len(sources) # 1 => Sound(next.t) /\ (next.ok => Explains(t, next.t))
  <2>1. next = IF first.ok THEN second ELSE first
    BY DEF TransferNext
  <2> HIDE DEF next, second
  <2> QED
    BY <1>3, <1>5, <2>1, ExplainsTransitive
<1>7. TransferAll(t, destinations, sources) = IF Len(sources) = 1 THEN first ELSE next
  BY DEF TransferAll, first
<1> HIDE DEF next
<1> QED
  BY <1>3, <1>6, <1>7

LEMMA AlongStays ==
    ASSUME NEW links, Len(links) \in Nat, NEW S, NEW n \in S,
           \A i \in 1..Len(links) : links[i][2] \in S => links[i][1] \in S
    PROVE  \A m \in 0..Len(links) : Along(links, n)[m] \in S
<1> DEFINE size == Len(links)
           root == Along(links, n)
<1>1. root[0] = n /\ \A i \in 1..size : root[i] = Rooted(root[i - 1], links[i])
  BY AlongSteps
<1>2. size \in Nat /\ \A i \in 1..size : links[i][2] \in S => links[i][1] \in S
  OBVIOUS
<1> HIDE DEF root, size
<1> DEFINE Good == {m \in Nat : m <= size => root[m] \in S}
<1>3. 0 \in Good
  BY <1>1
<1>4. ASSUME NEW m \in Good
      PROVE  m + 1 \in Good
  <2>1. ASSUME m + 1 <= size
        PROVE  root[m + 1] \in S
    <3>1. m + 1 \in 1..size /\ (m + 1) - 1 = m /\ m <= size
      BY <1>2, <2>1
    <3>2. root[m + 1] = Rooted(root[m], links[m + 1])
      BY <1>1, <3>1
    <3> QED
      BY <1>2, <3>1, <3>2 DEF Rooted
  <2> QED
    BY <2>1
<1>5. Good = Nat
  <2>1. Good \in SUBSET Nat
    OBVIOUS
  <2> HIDE DEF Good
  <2> QED
    BY <1>3, <1>4, <2>1, NaturalInduction
<1>6. \A m \in 0..size : root[m] \in S
  BY <1>2, <1>5
<1> QED
  BY <1>6 DEF root, size

LEMMA RootInRange ==
    ASSUME NEW t, WellFormed(t), NEW n \in 1..Len(t.own)
    PROVE  LogicalRoot(t, n) \in 1..Len(t.own)
<1> DEFINE links == t.transfers
           size == Len(links)
           networks == 1..Len(t.own)
<1>1. size \in Nat /\ \A i \in 1..size : links[i][1] \in networks
  BY TransferTypes
<1>2. n \in networks /\ LogicalRoot(t, n) = RootAlong(links, n)
  BY LogicalRootAlong
<1> HIDE DEF links, networks
<1>3. RootAlong(links, n) = Along(links, n)[size] /\ size \in 0..size
  BY <1>1, AlongSteps
<1>4. Along(links, n)[size] \in networks
  BY <1>1, <1>2, <1>3, AlongStays
<1> QED
  BY <1>2, <1>3, <1>4 DEF networks

(* ... of the same colour, if the transfers join networks of one colour.    *)
JoinsAlike(t, c) ==
    \A i \in 1..Len(t.transfers) : c[t.transfers[i][1]] = c[t.transfers[i][2]]

LEMMA AlongColored ==
    ASSUME NEW t, WellFormed(t), NEW n \in 1..Len(t.own), NEW c, JoinsAlike(t, c)
    PROVE  \A m \in 0..Len(t.transfers) :
               /\ Along(t.transfers, n)[m] \in 1..Len(t.own)
               /\ c[Along(t.transfers, n)[m]] = c[n]
<1> DEFINE links == t.transfers
           alike == {k \in 1..Len(t.own) : c[k] = c[n]}
<1>1. /\ Len(links) \in Nat /\ n \in alike
      /\ \A i \in 1..Len(links) : links[i][2] \in alike => links[i][1] \in alike
  BY TransferTypes DEF JoinsAlike
<1> HIDE DEF links, alike
<1>2. \A m \in 0..Len(links) : Along(links, n)[m] \in alike
  BY <1>1, AlongStays
<1> QED
  BY <1>2 DEF links, alike

LEMMA RootColored ==
    ASSUME NEW t, WellFormed(t), NEW n \in 1..Len(t.own), NEW c, JoinsAlike(t, c)
    PROVE  c[LogicalRoot(t, n)] = c[n]
<1> DEFINE links == t.transfers
<1>1. LogicalRoot(t, n) = RootAlong(links, n) /\ Len(links) \in Nat
  BY LogicalRootAlong, TransferTypes
<1>2. \A m \in 0..Len(links) : c[Along(links, n)[m]] = c[n]
  BY AlongColored
<1> HIDE DEF links
<1>3. RootAlong(links, n) = Along(links, n)[Len(links)] /\ Len(links) \in 0..Len(links)
  BY <1>1, AlongSteps
<1> QED
  BY <1>1, <1>2, <1>3

LEMMA ManyOf ==
    ASSUME NEW size \in Nat, NEW S \in SUBSET (1..size)
    PROVE  /\ \A a, b \in S : a # b => ~(Cardinality(S) < 2)
           /\ \A a, b, d \in S : a # b /\ b # d /\ a # d => Cardinality(S) > 2
<1>1. IsFiniteSet(S) /\ Cardinality(S) \in Nat
  <2>1. IsFiniteSet(1..size)
    BY FS_Interval
  <2> QED
    BY <2>1, FS_Subset, FS_CardinalityType
<1>2. \A a : IsFiniteSet({a}) /\ Cardinality({a}) = 1
  BY FS_Singleton
<1>3. \A a, b : a # b => IsFiniteSet({a, b}) /\ Cardinality({a, b}) = 2
  <2> TAKE a, b
  <2>1. {a} \cup {b} = {a, b} /\ (a # b => b \notin {a})
    OBVIOUS
  <2> DEFINE single == {a}
             double == {a, b}
  <2>2. IsFiniteSet(single) /\ Cardinality(single) = 1 /\ single \cup {b} = double
        /\ (a # b => b \notin single)
    BY <1>2, <2>1
  <2> HIDE DEF single, double
  <2>3. b \notin single => IsFiniteSet(double) /\ Cardinality(double) = Cardinality(single) + 1
    BY <2>2, FS_AddElement
  <2>4. a # b => IsFiniteSet(double) /\ Cardinality(double) = 2
    BY <2>2, <2>3
  <2> QED
    BY <2>4 DEF double
<1>4. ASSUME NEW a \in S, NEW b \in S, a # b
      PROVE  Cardinality(S) >= 2
  <2> DEFINE double == {a, b}
  <2>1. double \in SUBSET S /\ Cardinality(double) = 2
    BY <1>3, <1>4
  <2> HIDE DEF double
  <2>2. Cardinality(double) <= Cardinality(S)
    BY <1>1, <2>1, FS_Subset
  <2> QED
    BY <1>1, <2>1, <2>2
<1>5. ASSUME NEW a \in S, NEW b \in S, NEW d \in S, a # b, b # d, a # d
      PROVE  Cardinality(S) > 2
  <2> DEFINE double == {a, b}
             triple == double \cup {d}
  <2>1. /\ triple \in SUBSET S /\ d \notin double
        /\ IsFiniteSet(double) /\ Cardinality(double) = 2
    BY <1>3, <1>5
  <2> HIDE DEF double
  <2>2. Cardinality(triple) = Cardinality(double) + 1
    BY <2>1, FS_AddElement
  <2> HIDE DEF triple
  <2>3. Cardinality(triple) <= Cardinality(S)
    BY <1>1, <2>1, FS_Subset
  <2> QED
    BY <1>1, <2>1, <2>2, <2>3
<1>6. \A k \in Nat : (k >= 2 => ~(k < 2)) /\ (k > 2 => k > 2)
  OBVIOUS
<1> QED
  BY <1>1, <1>4, <1>5, <1>6

LEMMA TwoOfMany ==
    ASSUME NEW size \in Nat, NEW S \in SUBSET (1..size), ~(Cardinality(S) < 2)
    PROVE  LET least == CHOOSE n \in S : \A m \in S : n <= m
               other == CHOOSE n \in S : n # least
           IN  least \in S /\ other \in S /\ other # least
<1> DEFINE least == CHOOSE n \in S : \A m \in S : n <= m
           other == CHOOSE n \in S : n # least
<1>1. S # {} /\ \A n \in S : S # {n}
  <2>1. 0 < 2 /\ 1 < 2
    OBVIOUS
  <2>2. Cardinality({}) = 0 /\ \A n : Cardinality({n}) = 1
    BY FS_EmptySet, FS_Singleton
  <2> QED
    BY <2>1, <2>2, Zenon
<1>2. least \in S
  <2>1. S \in SUBSET Nat
    OBVIOUS
  <2>2. \E n \in S : \A m \in S : n <= m
    BY <1>1, <2>1, LeastExists
  <2> QED
    BY <2>2
<1> HIDE DEF least
<1>3. \E n \in S : n # least
  BY <1>1, <1>2
<1>4. other \in S /\ other # least
  BY <1>3
<1> QED
  BY <1>2, <1>4 DEF least

LEMMA RegisterInputsSound ==
    ASSUME NEW t, WellFormed(t), Sound(t), NEW inputs \in SUBSET (1..Len(t.own))
    PROVE  LET result == RegisterInputs(t, inputs)
           IN  /\ Sound(result.t) /\ Narrows(t, result.t) /\ result.t.own = t.own
               /\ result.t.combs = t.combs /\ result.t.transfers = t.transfers
               /\ (result.ok => \A c : Suits(result.t, c) /\ JoinsAlike(t, c) =>
                                           Parted(t, inputs, c))
<1> DEFINE roots == InputRoots(t, inputs)
           least == CHOOSE n \in roots : \A m \in roots : n <= m
           other == CHOOSE n \in roots : n # least
           result == RegisterInputs(t, inputs)
<1>1. Len(t.own) \in Nat
  BY OwnTypes
<1>2. roots \in SUBSET (1..Len(t.own))
  <2>1. \A n \in inputs : LogicalRoot(t, n) \in 1..Len(t.own)
    BY RootInRange
  <2> QED
    BY <2>1 DEF InputRoots
<1>3. result = IF Cardinality(roots) > 2 THEN Refused(t)
               ELSE IF Cardinality(roots) < 2 THEN [ok |-> TRUE, t |-> t]
               ELSE Colored(t, least, other, 1)
  BY DEF RegisterInputs
<1>4. ASSUME ~(Cardinality(roots) < 2)
      PROVE  least \in roots /\ other \in roots /\ other # least
  <2> HIDE DEF roots
  <2> QED
    BY <1>1, <1>2, <1>4, TwoOfMany
<1>7. \A n \in inputs : LogicalRoot(t, n) \in roots
  BY DEF InputRoots
<1> HIDE DEF roots, least, other
<1>8. Narrows(t, t)
  BY DEF Narrows
<1>5. CASE result = Refused(t)
  <2>1. result.t = t /\ ~result.ok
    BY <1>5 DEF Refused
  <2> HIDE DEF result
  <2> QED
    BY <1>8, <2>1 DEF result
<1>9. CASE Cardinality(roots) < 2 /\ result = [ok |-> TRUE, t |-> t]
  <2>1. result.t = t
    BY <1>9
  <2>2. \A a, b \in roots : a = b
    BY <1>1, <1>2, <1>9, ManyOf, Zenon
  <2>3. \A c : Parted(t, inputs, c)
    BY <1>7, <2>2 DEF Parted
  <2> HIDE DEF result
  <2> QED
    BY <1>8, <2>1, <2>3 DEF result
<1> HIDE DEF result
<1>6. CASE /\ ~(Cardinality(roots) < 2) /\ ~(Cardinality(roots) > 2)
           /\ result = Colored(t, least, other, 1)
  <2> DEFINE one == 1
  <2> HIDE DEF one
  <2>3. least \in roots /\ other \in roots /\ other # least
    BY <1>4, <1>6, Zenon
  <2>1. least \in 1..Len(t.own) /\ other \in 0..Len(t.own) /\ one \in {0, 1}
    BY <1>1, <1>2, <2>3 DEF one
  <2> DEFINE colored == Colored(t, least, other, one)
  <2>2. /\ Sound(colored.t) /\ Explains(t, colored.t)
        /\ (colored.ok => \A c : Suits(colored.t, c) => Differing(c[least], c[other]) = one)
    BY <2>1, ColoredSound
  <2>4. /\ colored.t.own = t.own /\ colored.t.combs = t.combs
        /\ colored.t.transfers = t.transfers
    BY ColoredGrows
  <2> HIDE DEF colored
  <2>5. \A a \in roots : a \in {least, other}
    <3>1. \A a, b, d \in roots : ~(a # b /\ b # d /\ a # d)
      BY <1>1, <1>2, <1>6, ManyOf, Zenon
    <3> QED
      BY <2>3, <3>1
  <2>6. ASSUME colored.ok, NEW c, Suits(colored.t, c), JoinsAlike(t, c),
               NEW l \in inputs, NEW r \in inputs, LogicalRoot(t, l) # LogicalRoot(t, r)
        PROVE  c[l] # c[r]
    <3>1. c[least] # c[other]
      BY <2>2, <2>6 DEF Differing, one
    <3>2. c[LogicalRoot(t, l)] = c[l] /\ c[LogicalRoot(t, r)] = c[r]
      BY <2>6, RootColored
    <3> QED
      BY <1>7, <2>5, <2>6, <3>1, <3>2
  <2>7. result = colored
    BY <1>6 DEF colored, one
  <2>8. Narrows(t, colored.t)
    BY <2>2 DEF Explains
  <2>9. colored.ok => \A c : Suits(colored.t, c) /\ JoinsAlike(t, c) => Parted(t, inputs, c)
    BY <2>6 DEF Parted
  <2> QED
    BY <2>2, <2>4, <2>7, <2>8, <2>9 DEF result
<1>10. \/ result = Refused(t)
       \/ Cardinality(roots) < 2 /\ result = [ok |-> TRUE, t |-> t]
       \/ /\ ~(Cardinality(roots) < 2) /\ ~(Cardinality(roots) > 2)
          /\ result = Colored(t, least, other, 1)
  BY <1>3, Zenon
<1> QED
  BY <1>5, <1>6, <1>9, <1>10

(* u is t with a combinator more that reads inputs, nothing else changed.   *)
CombinatorAdded(t, inputs, u) ==
    /\ Sound(u) /\ u.engine = t.engine /\ u.own = t.own
    /\ u.transfers = t.transfers
    /\ \A k \in 1..Len(u.combs) :
          \/ u.combs[k].inputs = inputs
          \/ \E j \in 1..Len(t.combs) : u.combs[k].inputs = t.combs[j].inputs

(* A combinator has one lane when it is made.                               *)
LEMMA CombinatorOnSound ==
    ASSUME NEW t, WellFormed(t), Sound(t), NEW n \in 1..Len(t.own), NEW inputs
    PROVE  CombinatorAdded(t, inputs, CombinatorOn(t, n, inputs))
<1> DEFINE size == Len(t.combs)
           h == Handle(t, n, "owned", NoBorrow)
           comb == [lanes |-> <<h>>, inputs |-> inputs, used |-> FALSE]
           combs == Append(t.combs, comb)
           u == WithCombs(t, combs)
<1>1. size \in Nat /\ t.combs \in [1..size -> Combinator(Len(t.own))]
  BY CombinatorTypes
<1>2. LaneExact(h)
  BY HandleExact
<1>3. u = CombinatorOn(t, n, inputs)
  BY DEF CombinatorOn, WithCombs
<1>4. /\ u.own = t.own /\ u.combs = combs /\ u.transfers = t.transfers
      /\ u.engine = t.engine
  <2> HIDE DEF combs
  <2> QED
    BY WithCombsParts
<1> HIDE DEF u, h
<1>5. Len(comb.lanes) = 1 /\ comb.lanes[1] = h /\ comb.inputs = inputs
  OBVIOUS
<1> HIDE DEF comb
<1>6. /\ Len(combs) = size + 1 /\ combs[size + 1] = comb
      /\ \A c \in 1..size : combs[c] = t.combs[c]
  <2> DEFINE S == {t.combs[c] : c \in 1..size} \cup {comb}
  <2>1. t.combs \in Seq(S) /\ comb \in S
    <3>1. t.combs \in [1..size -> S]
      BY <1>1
    <3> HIDE DEF S, size
    <3>2. t.combs \in Seq(S)
      BY <1>1, <3>1, FunctionIsSequence
    <3> QED
      BY <3>2 DEF S
  <2> HIDE DEF S
  <2> QED
    BY <2>1, AppendProperties
<1> HIDE DEF combs, size
<1>7. \A c \in 1..size + 1 : c \in 1..size \/ c = size + 1
  BY <1>1
<1>8. ColorsFit(u) /\ KeepsApart(t, u)
  BY <1>4 DEF Sound, ColorsFit, KeepsApart, Apart
<1>9. \A c \in 1..size : OutputSound(u, combs[c])
  <2>1. \A c \in 1..size : OutputSound(t, t.combs[c])
    BY DEF Sound, size
  <2> QED
    BY <1>6, <1>8, <2>1, OutputStaysSound, SameNetworksReflexive DEF size
<1>10. OutputSound(u, comb)
  <2>1. \A i \in 1..1 : i = 1
    OBVIOUS
  <2> QED
    BY <1>2, <1>5, <2>1 DEF OutputSound
<1>11. \A m \in 1..Len(u.own) : OwnExact(u.own[m])
  BY <1>4 DEF Sound
<1>12. \A i \in 1..Len(u.transfers) : InOrder(u.transfers, u.own, i)
  BY <1>4 DEF Sound
<1>13. Sound(u)
  BY <1>4, <1>6, <1>7, <1>8, <1>9, <1>10, <1>11, <1>12 DEF Sound
<1>14. \A k \in 1..Len(u.combs) :
          \/ u.combs[k].inputs = inputs
          \/ \E j \in 1..Len(t.combs) : u.combs[k].inputs = t.combs[j].inputs
  BY <1>4, <1>5, <1>6, <1>7 DEF size
<1>15. CombinatorAdded(t, inputs, u)
  BY <1>4, <1>13, <1>14 DEF CombinatorAdded
<1> QED
  BY <1>3, <1>15

LEMMA FreshSound ==
    ASSUME NEW t, WellFormed(t), Sound(t), OwnersExact
    PROVE  LET new == NewNetwork(t, Owner(frames), NoColor)
           IN  /\ Sound(new) /\ WellFormed(new) /\ Len(new.own) = Len(t.own) + 1
               /\ Explains(t, new)
               /\ Grows(t, new) /\ new.own = Append(t.own, Added(Owner(frames), NoColor))
<1>1. Owner(frames) \in Int /\ Owner(frames) >= Lost /\ NoColor \in Int
      /\ NoColor \in {Red, Green, NoColor} /\ Owner(frames) <= called
  BY DEF OwnersExact, OwnersKnown, Lost, NoColor
<1> DEFINE new == NewNetwork(t, Owner(frames), NoColor)
<1>2. Sound(new) /\ WellFormed(new) /\ Explains(t, new)
  BY <1>1, NewNetworkSound
<1>3. Grows(t, new) /\ Len(new.own) = Len(t.own) + 1
  BY <1>1, NewNetworkGrows
<1>4. new.own = Append(t.own, Added(Owner(frames), NoColor))
  BY <1>1, NewNetworkParts
<1> QED
  BY <1>2, <1>3, <1>4

LEMMA CreateCombinatorSound ==
    ASSUME NEW t, WellFormed(t), Sound(t), OwnersExact, NEW inputs \in SUBSET (1..Len(t.own))
    PROVE  LET result == CreateCombinator(t, inputs)
           IN  Sound(result.t) /\ (result.ok => Explains(t, result.t))
<1> DEFINE n == Len(t.own) + 1
           new == NewNetwork(t, Owner(frames), NoColor)
           u == CombinatorOn(new, n, inputs)
<1>1. Sound(new) /\ WellFormed(new) /\ Len(new.own) = n /\ Explains(t, new)
  BY FreshSound
<1> HIDE DEF new
<1>2. n \in 1..Len(new.own) /\ inputs \in SUBSET (1..Len(new.own))
  BY <1>1, OwnTypes
<1> HIDE DEF n
<1>3. /\ Sound(u) /\ WellFormed(u) /\ u.own = new.own /\ u.engine = new.engine
      /\ u.transfers = new.transfers
      /\ \A k \in 1..Len(u.combs) :
            \/ u.combs[k].inputs = inputs
            \/ \E j \in 1..Len(new.combs) : u.combs[k].inputs = new.combs[j].inputs
  <2>1. WellFormed(u)
    BY <1>1, <1>2, CombinatorOnLarger DEF Larger
  <2>2. /\ Sound(u) /\ u.engine = new.engine /\ u.own = new.own
        /\ u.transfers = new.transfers
        /\ \A k \in 1..Len(u.combs) :
              \/ u.combs[k].inputs = inputs
              \/ \E j \in 1..Len(new.combs) : u.combs[k].inputs = new.combs[j].inputs
    <3>1. CombinatorAdded(new, inputs, u)
      BY <1>1, <1>2, CombinatorOnSound
    <3> HIDE DEF u
    <3> QED
      BY <3>1 DEF CombinatorAdded
  <2> QED
    BY <2>1, <2>2
<1>4. CreateCombinator(t, inputs) = RegisterInputs(u, inputs)
  BY DEF CreateCombinator, new, n
<1> HIDE DEF u
<1> DEFINE result == RegisterInputs(u, inputs)
           v == result.t
<1>5. /\ Sound(v) /\ Narrows(u, v) /\ v.own = u.own /\ v.combs = u.combs
      /\ v.transfers = u.transfers
      /\ (result.ok => \A c : Suits(v, c) /\ JoinsAlike(u, c) => Parted(u, inputs, c))
  BY <1>2, <1>3, RegisterInputsSound
<1>6. Narrows(new, v)
  <2>1. Narrows(new, u)
    BY <1>3, SameColorsNarrow
  <2> QED
    BY <1>5, <2>1 DEF Narrows
<1>7. \A m : LogicalRoot(v, m) = LogicalRoot(new, m) /\ LogicalRoot(u, m) = LogicalRoot(new, m)
  BY <1>3, <1>5, LogicalRootAlong
<1> HIDE DEF v, result
<1>8. ASSUME result.ok, Explained(new), NEW c, Suits(v, c)
      PROVE  Obeys(v, c)
  <2>1. Obeys(new, c)
    BY <1>6, <1>8 DEF Narrows, Explained
  <2>2. JoinsAlike(u, c)
    BY <1>3, <2>1 DEF JoinsAlike, Obeys
  <2>3. Parted(u, inputs, c)
    BY <1>5, <1>8, <2>2
  <2>4. \A some : Parted(new, some, c) => Parted(v, some, c)
    BY <1>7 DEF Parted
  <2>5. Parted(v, inputs, c)
    BY <1>7, <2>3 DEF Parted
  <2>6. \A k \in 1..Len(v.combs) : Parted(v, v.combs[k].inputs, c)
    <3>1. \A j \in 1..Len(new.combs) : Parted(new, new.combs[j].inputs, c)
      BY <2>1 DEF Obeys
    <3> QED
      BY <1>3, <1>5, <2>4, <2>5, <3>1
  <2> QED
    BY <1>3, <1>5, <2>1, <2>6 DEF Obeys
<1>9. result.ok => Explains(new, v)
  BY <1>6, <1>8 DEF Explains, Explained
<1> QED
  BY <1>1, <1>4, <1>5, <1>9, ExplainsTransitive DEF v, result

(* What is joined goes into a network that is none of the inputs.           *)
LEMMA JoinAllSound ==
    ASSUME NEW t, WellFormed(t), Sound(t), OwnersExact, NEW inputs, OneOrTwoOf(t, inputs)
    PROVE  LET result == JoinAll(t, inputs)
           IN  Sound(result.t) /\ (result.ok => Explains(t, result.t))
<1> DEFINE new == NewNetwork(t, Owner(frames), NoColor)
           result == JoinAll(t, inputs)
           destinations == [i \in 1..Len(inputs) |-> Newest(new)]
           joined == TransferAll(new, destinations, inputs)
<1>1. /\ Sound(new) /\ WellFormed(new) /\ Len(new.own) = Len(t.own) + 1
      /\ new.own = Append(t.own, Added(Owner(frames), NoColor)) /\ Explains(t, new)
  BY FreshSound
<1>2. \/ result = Refused(t) \/ result = Refused(new) \/ result = joined
  BY DEF JoinAll, JoinNew, JoinInto
<1> HIDE DEF new
<1>3. Len(t.own) \in Nat
  BY OwnTypes
<1>4. /\ destinations[1] = Newest(new)
      /\ Len(inputs) # 1 => destinations[2] = Newest(new)
  BY OneOrTwoTypes
<1>5. Newest(new) \in HandleOf(Len(new.own)) /\ Newest(new).network = Len(t.own) + 1
  BY <1>1, <1>3, NewestTypes
<1>6. OneOrTwoOf(new, inputs) /\ inputs[1] \in HandleOf(Len(t.own))
  <2> DEFINE m == Len(t.own)
             k == Len(new.own)
  <2>1. HandleOf(m) \subseteq HandleOf(k)
    BY <1>1, <1>3, HandlesWiden
  <2>2. inputs \in Seq(HandleOf(m)) /\ inputs[1] \in HandleOf(m)
    BY OneOrTwoTypes DEF OneOrTwoOf
  <2> HIDE DEF m, k
  <2>3. inputs \in Seq(HandleOf(k))
    BY <2>1, <2>2, SeqMonotonic
  <2> QED
    BY <2>2, <2>3 DEF OneOrTwoOf, k, m
<1>7. ~Of(new, Newest(new)).consumed
  <2> DEFINE record == Added(Owner(frames), NoColor)
  <2>1. ~record.consumed
    BY DEF Added
  <2>2. new.own[Len(t.own) + 1] = record
    <3> DEFINE S == {t.own[n] : n \in 1..Len(t.own)} \cup {record}
    <3>1. t.own \in [1..Len(t.own) -> S] /\ record \in S
      BY OwnTypes
    <3> HIDE DEF S, record
    <3>2. t.own \in Seq(S)
      BY <1>3, <3>1, FunctionIsSequence
    <3> QED
      BY <1>1, <3>1, <3>2, AppendProperties DEF record
  <2> QED
    BY <1>5, <2>1, <2>2 DEF Of
<1>8. Newest(new).network # inputs[1].network
  <2>1. inputs[1].network \in 1..Len(t.own)
    BY <1>6 DEF HandleOf
  <2> QED
    BY <1>3, <1>5, <2>1
<1> SUFFICES Sound(result.t) /\ (result.ok => Explains(t, result.t))
  OBVIOUS
<1> HIDE DEF destinations, result
<1>9. Sound(joined.t) /\ (joined.ok => Explains(new, joined.t))
  <2>1. OwnersKnown
    BY DEF OwnersExact
  <2> QED
    BY <1>1, <1>4, <1>5, <1>6, <1>7, <1>8, <2>1, TransferAllSound
<1> HIDE DEF joined
<1>10. CASE result = Refused(t) \/ result = Refused(new)
  BY <1>1, <1>10 DEF Refused
<1>11. CASE result = joined
  BY <1>1, <1>9, <1>11, ExplainsTransitive
<1> QED
  BY <1>2, <1>10, <1>11

LEMMA RestoredSound ==
    ASSUME NEW saved, WellFormed(saved), Sound(saved)
    PROVE  /\ Sound(Restored(saved))
           /\ "colors" \in ForgottenBy(saved) \/ Restored(saved) = saved
<1> DEFINE u == Restored(saved)
           e == saved.engine
<1>1. /\ u.own = saved.own /\ u.combs = saved.combs /\ u.transfers = saved.transfers
      /\ u.engine = Engines!Clone(e)
  <2>1. Colors!Clone(e) = Engines!Clone(e)
    BY SameClone
  <2> QED
    BY <2>1 DEF Restored, WellFormed
<1>2. Engines!AnchorInv(e) /\ e.size = Len(saved.own)
  BY DEF Sound, ColorsFit
<1> HIDE DEF u, e
<1>3. /\ Engines!AnchorInv(Engines!Clone(e)) /\ Engines!Clone(e).size = e.size
      /\ \A i, j \in 1..e.size :
            Engines!Apart(e, i, j) => Engines!Apart(Engines!Clone(e), i, j)
  BY <1>2, Engines!CloneApart, BoundsAssumption DEF BoundsAssumption
<1>4. ColorsFit(u)
  BY <1>1, <1>2, <1>3 DEF ColorsFit
<1>5. KeepsApart(saved, u)
  BY <1>1, <1>2, <1>3 DEF KeepsApart, Apart, e
<1>6. /\ Consumes(saved.own, u.own)
      /\ \A n \in 1..Len(u.own) : OwnExact(u.own[n])
      /\ \A c \in 1..Len(saved.combs) : SameNetworks(saved.combs[c], u.combs[c])
  BY <1>1, ConsumesReflexive, SameNetworksReflexive DEF Sound
<1>7. Sound(u)
  BY <1>1, <1>4, <1>5, <1>6, StaysSound
<1>8. ASSUME e.parent[0] = 0
      PROVE  u = saved
  <2>1. Engines!Clone(e) = e
    BY <1>2, <1>8, Engines!CloneIsSame, BoundsAssumption DEF BoundsAssumption
  <2>2. u = [saved EXCEPT !.engine = Colors!Clone(@)]
    BY DEF u, Restored
  <2>3. Colors!Clone(e) = e
    BY <2>1, SameClone
  <2> HIDE DEF u
  <2> QED
    BY <2>2, <2>3 DEF e, WellFormed
<1>9. "colors" \in ForgottenBy(saved) \/ e.parent[0] = 0
  BY DEF ForgottenBy, e
<1> QED
  BY <1>7, <1>8, <1>9 DEF u

LEMMA ReturnAllSound ==
    ASSUME NEW networks \in SUBSET (1..Len(topology.own)), NEW lanes, NEW marked,
           WellFormed(topology), Sound(topology), OwnersExact
    PROVE  /\ Sound(ReturnAll(networks, lanes, marked))
           /\ Explains(topology, ReturnAll(networks, lanes, marked))
<1> DEFINE size == Len(topology.own)
           Movement(n) == [topology.own[n] EXCEPT !.generation = @ + 1, !.owner = Caller]
           moved == [n \in 1..size |-> IF n \in networks THEN Movement(n)
                                       ELSE topology.own[n]]
           Renewed(lane) == IF lane \in lanes
                            THEN [lane EXCEPT !.generation = @ + 1, !.capability = "owned"]
                            ELSE lane
           Comb(c) == [topology.combs[c] EXCEPT
                          !.lanes = [i \in 1..Len(@) |-> Renewed(@[i])]]
           combs == [c \in 1..Len(topology.combs) |-> Comb(c)]
           v == [topology EXCEPT !.own = moved]
           w == WithCombs(v, combs)
           touched == IF marked THEN networks ELSE {}
           Marking(c) == [combs[c] EXCEPT !.used = @ \/ LanesOf(combs[c]) \cap touched # {}]
           marks == [c \in 1..Len(combs) |-> Marking(c)]
           u == MarkUsed(w, touched)
<1>1. ReturnAll(networks, lanes, marked) = u
  <2>1. w = [topology EXCEPT !.own = moved, !.combs = combs]
    BY DEF WithCombs
  <2> QED
    BY <2>1 DEF ReturnAll
<1>2. /\ size \in Nat /\ \A n \in 1..size : topology.own[n] \in Ownership
      /\ \A n \in 1..size : OwnExact(topology.own[n])
  BY OwnTypes DEF Sound
<1>3. /\ u.own = moved /\ u.combs = marks /\ u.engine = topology.engine
      /\ u.transfers = topology.transfers
  <2>1. w = [engine |-> topology.engine, own |-> moved, transfers |-> topology.transfers,
             combs |-> combs]
    <3>1. topology = [engine |-> topology.engine, own |-> topology.own,
                      transfers |-> topology.transfers, combs |-> topology.combs]
      BY DEF WellFormed
    <3> HIDE DEF moved, combs
    <3>2. v = [engine |-> topology.engine, own |-> moved,
               transfers |-> topology.transfers, combs |-> topology.combs]
      BY <3>1
    <3> HIDE DEF v
    <3> QED
      BY <3>2 DEF WithCombs
  <2>2. u = [w EXCEPT !.combs = [c \in 1..Len(w.combs) |->
                [w.combs[c] EXCEPT !.used = @ \/ LanesOf(w.combs[c]) \cap touched # {}]]]
    BY DEF MarkUsed
  <2> HIDE DEF w
  <2>3. w.combs = combs
    BY <2>1
  <2>4. u = [w EXCEPT !.combs = marks]
    <3> HIDE DEF combs, moved, touched, u
    <3> QED
      BY <2>2, <2>3
  <2> HIDE DEF moved, combs, marks, u
  <2> QED
    BY <2>1, <2>4
<1> HIDE DEF u, w, v
<1>4. ASSUME NEW n \in networks
      PROVE  /\ OwnExact(Movement(n)) /\ Movement(n).consumed = topology.own[n].consumed
             /\ Movement(n).color = topology.own[n].color
  <2> DEFINE r == topology.own[n]
             p == [r EXCEPT !.generation = @ + 1]
             q == [p EXCEPT !.owner = Caller]
  <2>1. r \in Ownership /\ OwnExact(r)
    BY <1>2
  <2>2. Movement(n) = q
    OBVIOUS
  <2> HIDE DEF r, Movement
  <2>3. /\ p \in Ownership /\ p.consumed = r.consumed /\ p.generation \in Nat
        /\ p.color = r.color
    BY <2>1 DEF Ownership, OwnExact
  <2> HIDE DEF p
  <2>4. /\ q.consumed = r.consumed /\ q.generation \in Nat /\ q.color = r.color
        /\ q.owner = Caller
    BY <2>3 DEF Ownership
  <2>5. Caller >= Lost
    BY DEF OwnersExact, OwnersKnown, Lost
  <2> HIDE DEF q
  <2> QED
    BY <2>1, <2>2, <2>4, <2>5 DEF OwnExact, r
<1> HIDE DEF Movement
<1>5. \A n \in 1..size : /\ OwnExact(moved[n])
                          /\ moved[n].consumed = topology.own[n].consumed
                          /\ moved[n].color = topology.own[n].color
  BY <1>2, <1>4
<1>6. Len(moved) = size
  <2>1. moved \in [1..size -> {moved[n] : n \in 1..size}]
    OBVIOUS
  <2> HIDE DEF moved
  <2> QED
    BY <1>2, <2>1, FunctionIsSequence
<1> HIDE DEF moved, size
<1>7. Consumes(topology.own, u.own)
  <2>1. \A n \in 1..size : topology.own[n].consumed => moved[n].consumed
    BY <1>5, Zenon
  <2>2. size <= size
    BY <1>2
  <2> QED
    BY <1>3, <1>6, <2>1, <2>2 DEF Consumes, size
<1>8. \A h \in HandleOf(size) :
         Renewed(h).network = h.network /\ (LaneExact(h) => LaneExact(Renewed(h)))
  <2> TAKE h \in HandleOf(size)
  <2> DEFINE p == [h EXCEPT !.generation = @ + 1]
             q == [p EXCEPT !.capability = "owned"]
  <2>1. Renewed(h) = IF h \in lanes THEN q ELSE h
    OBVIOUS
  <2>2. /\ p \in HandleOf(size) /\ p.network = h.network /\ p.borrow = h.borrow
        /\ p.generation = h.generation + 1
    BY DEF HandleOf
  <2> HIDE DEF p, Renewed
  <2>3. q.network = h.network /\ q.borrow = h.borrow /\ q.generation = h.generation + 1
    BY <2>2 DEF HandleOf
  <2> HIDE DEF q
  <2>4. LaneExact(h) => LaneExact(q)
    BY <2>3 DEF LaneExact
  <2>5. CASE h \in lanes
    BY <2>1, <2>3, <2>4, <2>5
  <2>6. CASE h \notin lanes
    BY <2>1, <2>6
  <2> QED
    BY <2>5, <2>6
<1>9. ASSUME NEW c \in 1..Len(topology.combs)
      PROVE  SameNetworks(topology.combs[c], Marking(c))
  <2> DEFINE comb == topology.combs[c]
             k == Len(comb.lanes)
             new == [i \in 1..k |-> Renewed(comb.lanes[i])]
             hit == LanesOf(combs[c]) \cap touched # {}
  <2>1. /\ comb \in Combinator(size) /\ k \in Nat
        /\ \A i \in 1..k : comb.lanes[i] \in HandleOf(size)
    BY CombinatorTypes DEF size
  <2>2. Comb(c) = [comb EXCEPT !.lanes = new] /\ combs[c] = Comb(c)
    OBVIOUS
  <2>3. Marking(c) = [combs[c] EXCEPT !.used = @ \/ hit]
    OBVIOUS
  <2>4. \A i \in 1..k : new[i] = Renewed(comb.lanes[i])
    OBVIOUS
  <2>5. Len(new) = k
    <3>1. new \in [1..k -> {new[i] : i \in 1..k}]
      OBVIOUS
    <3> HIDE DEF new, k
    <3> QED
      BY <2>1, <3>1, FunctionIsSequence
  <2> HIDE DEF comb, new, combs, Comb, Marking, hit
  <2>6. /\ Comb(c).lanes = new /\ Comb(c).inputs = comb.inputs
        /\ Comb(c) = [lanes |-> new, inputs |-> Comb(c).inputs, used |-> Comb(c).used]
    BY <2>1, <2>2 DEF Combinator
  <2>7. Marking(c).lanes = new /\ Marking(c).inputs = comb.inputs
    BY <2>2, <2>3, <2>6
  <2> HIDE DEF Renewed
  <2> QED
    BY <1>8, <2>1, <2>4, <2>5, <2>7 DEF SameNetworks, comb
<1>10. Len(combs) = Len(topology.combs) /\ Len(marks) = Len(topology.combs)
  <2>1. Len(topology.combs) \in Nat
    BY CombinatorTypes
  <2>2. combs \in [1..Len(topology.combs) -> {combs[c] : c \in 1..Len(topology.combs)}]
    OBVIOUS
  <2> HIDE DEF combs
  <2>3. Len(combs) = Len(topology.combs)
    BY <2>1, <2>2, FunctionIsSequence
  <2>4. marks \in [1..Len(topology.combs) -> {marks[c] : c \in 1..Len(topology.combs)}]
    BY <2>3
  <2> HIDE DEF marks
  <2> QED
    BY <2>1, <2>3, <2>4, FunctionIsSequence
<1>11. \A c \in 1..Len(topology.combs) : marks[c] = Marking(c)
  BY <1>10
<1> HIDE DEF marks, Marking, combs
<1>12. \A c \in 1..Len(topology.combs) : SameNetworks(topology.combs[c], u.combs[c])
  BY <1>3, <1>9, <1>11
<1>13. Len(u.own) = Len(topology.own) /\ Len(u.combs) = Len(topology.combs)
       /\ \A n \in 1..Len(topology.own) : OwnExact(u.own[n])
  BY <1>3, <1>5, <1>6, <1>10 DEF size
<1>14. Sound(u) /\ Explains(topology, u)
  <2>1. \A n \in 1..Len(topology.own) : u.own[n].color = topology.own[n].color
    BY <1>3, <1>5 DEF size
  <2> QED
    BY <1>3, <1>7, <1>12, <1>13, <2>1, SameColorsSound
<1> QED
  BY <1>1, <1>14

-----------------------------------------------------------------------------
(* The steps that change the borrows, or the marks of an output.            *)
LEMMA LendSound ==
    ASSUME NEW t, WellFormed(t), Sound(t), NEW n \in 1..Len(t.own), NEW capability, NEW id
    PROVE  /\ Sound(Lending(t, n, capability, id))
           /\ Explains(t, Lending(t, n, capability, id))
<1> DEFINE r == t.own[n]
           written == [r EXCEPT !.writer = id]
           read == [r EXCEPT !.readers = @ \cup {id}]
<1>1. r \in Ownership /\ OwnExact(r)
  BY OwnTypes DEF Sound
<1>2. /\ [t EXCEPT !.own[n].writer = id] = [t EXCEPT !.own[n] = written]
      /\ [t EXCEPT !.own[n].readers = @ \cup {id}] = [t EXCEPT !.own[n] = read]
  OBVIOUS
<1>3. r.consumed = t.own[n].consumed /\ r.color = t.own[n].color
  OBVIOUS
<1> HIDE DEF r
<1>4. /\ OwnExact(written) /\ written.consumed = r.consumed /\ written.color = r.color
      /\ OwnExact(read) /\ read.consumed = r.consumed /\ read.color = r.color
  BY <1>1 DEF OwnExact, Ownership
<1> HIDE DEF written, read
<1>5. /\ Sound([t EXCEPT !.own[n] = written]) /\ Explains(t, [t EXCEPT !.own[n] = written])
      /\ Sound([t EXCEPT !.own[n] = read]) /\ Explains(t, [t EXCEPT !.own[n] = read])
  BY <1>3, <1>4, FieldSound
<1> QED
  BY <1>2, <1>5 DEF Lending

LEMMA ReleasedSound ==
    ASSUME WellFormed(topology), Sound(topology), NEW frame \in FrameRecord
    PROVE  LET u == [topology EXCEPT !.own = Released(frame)]
           IN  Sound(u) /\ Explains(topology, u)
<1> DEFINE own == Released(frame)
           size == Len(topology.own)
<1>1. ASSUME NEW n \in 1..size
      PROVE  /\ OwnExact(own[n]) /\ own[n].consumed = topology.own[n].consumed
             /\ own[n].color = topology.own[n].color
  <2> DEFINE o == topology.own[n]
             gone == frame.borrows
             lost == n \in frame.moves /\ ~o.consumed /\ o.owner = frame.owner
             readers == o.readers \ gone
             writer == IF o.writer \in gone THEN NoBorrow ELSE o.writer
             generation == IF lost THEN o.generation + 1 ELSE o.generation
             owner == IF lost THEN Lost ELSE o.owner
             s == own[n]
  <2>1. o \in Ownership /\ OwnExact(o)
    BY OwnTypes DEF Sound
  <2>2. s = [o EXCEPT !.readers = readers, !.writer = writer,
                      !.generation = generation, !.owner = owner]
    BY DEF Released
  <2>3. generation \in Nat /\ owner >= Lost
    <3> HIDE DEF o, lost
    <3> QED
      BY <2>1 DEF OwnExact, Lost
  <2>4. o = [consumed |-> o.consumed, generation |-> o.generation, owner |-> o.owner,
             color |-> o.color, readers |-> o.readers, writer |-> o.writer]
    <3> HIDE DEF o
    <3> QED
      BY <2>1 DEF Ownership
  <2> HIDE DEF o, readers, writer, generation, owner
  <2>5. s = [consumed |-> o.consumed, generation |-> generation, owner |-> owner,
             color |-> o.color, readers |-> readers, writer |-> writer]
    <3> HIDE DEF s
    <3> QED
      BY <2>2, <2>4
  <2> HIDE DEF s
  <2>6. OwnExact(s) /\ s.consumed = o.consumed /\ s.color = o.color
    BY <2>1, <2>3, <2>5 DEF OwnExact
  <2> QED
    BY <2>6 DEF s, o
<1>2. Len(own) = size
  <2>1. size \in Nat
    BY OwnTypes
  <2>2. own \in [1..size -> {own[n] : n \in 1..size}]
    BY DEF Released
  <2> HIDE DEF own
  <2> QED
    BY <2>1, <2>2, FunctionIsSequence
<1> HIDE DEF own
<1>3. Consumes(topology.own, own)
  <2>1. size \in Nat
    BY OwnTypes
  <2> QED
    BY <1>1, <1>2, <2>1 DEF Consumes
<1>4. \A n \in 1..size : own[n].color = topology.own[n].color
  BY <1>1
<1> QED
  BY <1>1, <1>2, <1>3, <1>4, OwnSound DEF own

LEMMA UsedSound ==
    ASSUME NEW t, WellFormed(t), Sound(t), NEW c
    PROVE  LET u == [t EXCEPT !.combs[c].used = TRUE] IN Sound(u) /\ Explains(t, u)
<1> DEFINE comb == [t.combs[c] EXCEPT !.used = TRUE]
           combs == [t.combs EXCEPT ![c] = comb]
           size == Len(t.own)
<1>1. Len(t.combs) \in Nat /\ t.combs \in [1..Len(t.combs) -> Combinator(size)]
  BY CombinatorTypes
<1>2. c \in 1..Len(t.combs) => /\ comb \in Combinator(size)
                                /\ comb.lanes = t.combs[c].lanes
                                /\ comb.inputs = t.combs[c].inputs
  BY CombinatorTypes DEF Combinator
<1>3. combs \in [1..Len(t.combs) -> Combinator(size)]
  <2> HIDE DEF comb
  <2> QED
    BY <1>1, <1>2
<1>4. Len(combs) = Len(t.combs)
  <2> HIDE DEF combs
  <2> QED
    BY <1>1, <1>3, FunctionIsSequence
<1>5. \A d \in 1..Len(t.combs) : SameNetworks(t.combs[d], combs[d])
  <2>1. \A d \in 1..Len(t.combs) : combs[d] = IF d = c THEN comb ELSE t.combs[d]
    BY <1>1
  <2> HIDE DEF combs, comb
  <2> QED
    BY <1>2, <2>1 DEF SameNetworks
<1>6. Sound(WithCombs(t, combs)) /\ Explains(t, WithCombs(t, combs))
  <2> HIDE DEF combs
  <2> QED
    BY <1>4, <1>5, CombsSound
<1> QED
  BY <1>6 DEF WithCombs

(* To take lanes changes no network that there was.                         *)
LEMMA TakeLanesKeeps ==
    ASSUME NEW t, WellFormed(t), NEW c \in 1..Len(t.combs), NEW count, OwnersKnown
    PROVE  \A n \in 1..Len(t.own) : TakeLanes(t, c, count).t.own[n] = t.own[n]
<1> DEFINE new == NewNetwork(t, Owner(frames), NoColor)
           colored == Colored(new, t.combs[c].lanes[1].network, Len(t.own) + 1, 1).t
           u == WithSecondary(t, c)
           record == Added(Owner(frames), NoColor)
<1>1. /\ Owner(frames) \in Int /\ NoColor \in Int /\ t.own \in Seq(Ownership)
      /\ record \in Ownership
  BY DEF OwnersKnown, NoColor, WellFormed, Added, Ownership, NoBorrow
<1>2. new.own = Append(t.own, record) /\ WellFormed(new)
  <2>1. new.own = Append(t.own, record)
    BY <1>1, NewNetworkParts
  <2>2. Grows(t, new)
    BY <1>1, NewNetworkGrows DEF OwnersKnown
  <2> HIDE DEF new
  <2> QED
    BY <2>1, <2>2 DEF Grows, Larger
<1>3. colored.own = new.own /\ WellFormed(colored)
  BY <1>2, ColoredGrows DEF Grows, Larger
<1> HIDE DEF record, new, colored
<1>4. u.own = colored.own
  <2>1. u = Laned(colored, c, Len(t.own) + 1)
    BY DEF WithSecondary, colored, new
  <2> HIDE DEF u
  <2> QED
    BY <1>3, <2>1 DEF Laned, WellFormed
<1> HIDE DEF u
<1>5. \A n \in 1..Len(t.own) : u.own[n] = t.own[n]
  BY <1>1, <1>2, <1>3, <1>4, AppendProperties
<1>6. TakeLanes(t, c, count).t \in {t, u}
  BY DEF TakeLanes, FreeLanesOf, FirstLanes, u
<1> QED
  BY <1>5, <1>6

-----------------------------------------------------------------------------
(* The steps.                                                               *)
LEMMA OwnersAreExact ==
    ASSUME Inv
    PROVE  OwnersExact
<1>1. Typed /\ OwnersRise /\ OwnersKnown
  BY TypesAndOwners DEF Inv
<1>2. ASSUME NEW stack \in Seq(FrameRecord),
             \A i \in 1..Len(stack) : 0 < stack[i].owner
      PROVE  Owner(stack) >= 0
  <2>1. CASE stack = <<>>
    BY <2>1 DEF Owner, TopLevel
  <2>2. CASE stack # <<>>
    <3>1. Len(stack) \in 1..Len(stack)
      BY <2>2, EmptySeq, LenProperties
    <3>2. stack[Len(stack)] \in FrameRecord
      BY <3>1, ElementOfSeq
    <3>3. Owner(stack) = stack[Len(stack)].owner
      BY <2>2 DEF Owner
    <3> QED
      BY <1>2, <3>1, <3>2, <3>3 DEF FrameRecord
  <2> QED
    BY <2>1, <2>2
<1>3. Owner(frames) >= 0
  BY <1>1, <1>2 DEF Typed, OwnersRise
<1>4. Caller >= 0
  <2> DEFINE last == Len(frames)
             rest == SubSeq(frames, 1, last - 1)
  <2>1. last \in Nat /\ frames \in Seq(FrameRecord)
    BY <1>1, FrameTypes DEF Typed
  <2>2. CASE last = 0
    <3>1. rest = <<>>
      BY <1>1, <2>2, SubSeqProperties DEF Typed
    <3>2. Caller = TopLevel
      BY <3>1 DEF Caller, Owner
    <3> QED
      BY <3>2 DEF TopLevel
  <2>3. CASE last # 0
    <3>1. /\ rest \in Seq(FrameRecord) /\ Len(rest) = last - 1
          /\ \A i \in 1..last - 1 : rest[i] = frames[i]
      <4>1. \A i \in 1..last - 1 : frames[i] \in FrameRecord
        BY <1>1, <2>1, FrameTypes
      <4>2. 1 \in Int /\ last - 1 \in Int
        BY <2>1
      <4> HIDE DEF last
      <4>3. /\ rest \in Seq(FrameRecord)
            /\ Len(rest) = IF 1 <= last - 1 THEN (last - 1) - 1 + 1 ELSE 0
            /\ \A i \in 1..(last - 1) - 1 + 1 : rest[i] = frames[1 + i - 1]
        BY <4>1, <4>2, SubSeqProperties
      <4> HIDE DEF rest
      <4>4. last \in Nat /\ last # 0
        BY <2>1, <2>3
      <4> QED
        BY <4>3, <4>4
    <3>2. \A i \in 1..last - 1 : i \in 1..last
      BY <2>1
    <3>3. \A i \in 1..Len(rest) : 0 < rest[i].owner
      BY <1>1, <3>1, <3>2 DEF OwnersRise
    <3> HIDE DEF rest
    <3>4. Owner(rest) >= 0
      BY <1>2, <3>1, <3>3
    <3> QED
      BY <3>4 DEF Caller, rest
  <2> QED
    BY <2>2, <2>3
<1> QED
  BY <1>1, <1>3, <1>4 DEF OwnersExact

(* The colours that a program may require.                                  *)
LEMMA RequiredColors ==
    ASSUME NEW color \in Requirements
    PROVE  color \in {Red, Green, NoColor}
BY RequirementsAssumption

(* The two networks of a pair can only have different colours.              *)
PairsApart(t, paired) ==
    \A pair \in paired : \E l, r \in 1..Len(t.own) :
        pair = {l, r} /\ \A c : Suits(t, c) => c[l] # c[r]

(* What rollbacks have left of this.                                        *)
Remembers(t, paired, undone) ==
    /\ "colors" \in undone \/ Explained(t)
    /\ undone \cap {"pairs", "colors"} = {} => PairsApart(t, paired)

(* What the steps start from.                                               *)
Grounded ==
    /\ Inv /\ Sound(topology) /\ Remembers(topology, pairs, forgotten)
    /\ factory.phase # "none" =>
          Sound(factory.saved) /\ Remembers(factory.saved, factory.pairs, forgotten)

LEMMA StaysRemembered ==
    ASSUME NEW t, NEW u, NEW paired, NEW undone, NEW undoing, undone \subseteq undoing,
           Remembers(t, paired, undone), "colors" \in undoing \/ Explains(t, u)
    PROVE  Remembers(u, paired, undoing)
<1>1. CASE "colors" \in undoing
  BY <1>1 DEF Remembers
<1>2. CASE Explains(t, u) /\ "colors" \notin undoing
  <2>1. PairsApart(t, paired) => PairsApart(u, paired)
    BY <1>2 DEF PairsApart, Explains, Narrows
  <2>2. Explained(u)
    BY <1>2 DEF Remembers, Explains
  <2>3. undoing \cap {"pairs", "colors"} = {} => PairsApart(u, paired)
    BY <1>2, <2>1 DEF Remembers
  <2> QED
    BY <2>2, <2>3 DEF Remembers
<1> QED
  BY <1>1, <1>2

LEMMA GroundedHas ==
    ASSUME Grounded
    PROVE  /\ Inv /\ Sound(topology) /\ WellFormed(topology) /\ Typed
           /\ OwnersExact /\ OwnersKnown
BY OwnersAreExact, TypesAndOwners DEF Grounded

(* A call changes the topology to a sound one that the calls before still   *)
(* explain, if it is accepted.                                              *)
Lasting(result) == Sound(result.t) /\ (result.ok => Explains(topology, result.t))

SoundStep == Sound(topology') /\ ("colors" \in forgotten' \/ Explains(topology, topology'))

LEMMA KeptSound ==
    ASSUME Grounded, topology' = topology
    PROVE  SoundStep
BY ExplainsReflexive DEF Grounded, SoundStep

LEMMA ChangedSound ==
    ASSUME NEW t, topology' = t, Sound(t), Explains(topology, t)
    PROVE  SoundStep
BY DEF SoundStep

LEMMA RefusedLasting ==
    ASSUME Grounded
    PROVE  Lasting(Refused(topology))
BY DEF Lasting, Refused, Grounded

LEMMA PoisonSound ==
    ASSUME Grounded, NEW result, Poison(result)
    PROVE  SoundStep
BY KeptSound DEF Poison

LEMMA RollBackSound ==
    ASSUME Grounded, NEW result, RollBack(result)
    PROVE  SoundStep
<1>1. /\ topology' = Restored(topology)
      /\ forgotten' = forgotten \cup ForgottenBy(topology)
  BY DEF RollBack
<1>2. /\ Sound(Restored(topology))
      /\ "colors" \in ForgottenBy(topology) \/ Restored(topology) = topology
  BY GroundedHas, RestoredSound
<1> QED
  BY <1>1, <1>2, ExplainsReflexive DEF SoundStep

LEMMA AcceptSound ==
    ASSUME Grounded, NEW result, NEW given, Accept(result, given), Lasting(result)
    PROVE  SoundStep
BY DEF Accept, Lasting, SoundStep

LEMMA AcceptOrPoisonSound ==
    ASSUME Grounded, NEW result, AcceptOrPoison(result), Lasting(result)
    PROVE  SoundStep
BY PoisonSound, AcceptSound DEF AcceptOrPoison

LEMMA AcceptOrRollBackSound ==
    ASSUME Grounded, NEW result, AcceptOrRollBack(result), Lasting(result)
    PROVE  SoundStep
BY RollBackSound, AcceptSound DEF AcceptOrRollBack

LEMMA NetworkSound ==
    ASSUME Grounded, NEW color \in Requirements, Network(color)
    PROVE  SoundStep
<1> DEFINE t == NewNetwork(topology, Owner(frames), color)
<1>1. Owner(frames) \in Int /\ Owner(frames) >= Lost
  BY GroundedHas DEF OwnersExact, OwnersKnown, Lost
<1>2. Sound(t) /\ Explains(topology, t)
  BY <1>1, GroundedHas, RequiredColors, NewNetworkSound
<1>3. topology' = t
  BY DEF Network, Declared, Accept
<1> HIDE DEF t
<1> QED
  BY <1>2, <1>3, ChangedSound

LEMMA BindSound ==
    ASSUME Grounded, NEW h \in Usable, NEW color \in Requirements, Bind(h, color)
    PROVE  SoundStep
<1> DEFINE colored == RequireColor(topology, h.network, color)
<1>1. h.network \in 1..Len(topology.own)
  BY GroundedHas, UsableTypes
<1>2. AcceptOrPoison(colored)
  BY DEF Bind
<1>3. Sound(colored.t) /\ (colored.ok => Explains(topology, colored.t))
  BY <1>1, GroundedHas, RequiredColors, RequireColorSound
<1> HIDE DEF colored
<1> QED
  BY <1>2, <1>3, AcceptOrPoisonSound DEF Lasting

LEMMA TakeSound ==
    ASSUME Grounded, NEW destination \in Usable, NEW source \in Usable,
           Take(destination, source)
    PROVE  SoundStep
<1>1. /\ destination \in HandleOf(Len(topology.own))
      /\ source \in HandleOf(Len(topology.own))
  BY UsableTypes, GroundedHas
<1>2. CASE Consumable(topology, destination)
  <2>1. ~Of(topology, destination).consumed
    BY <1>2 DEF Consumable, Readable, Current
  <2> DEFINE result == TransferNetwork(topology, destination, source)
  <2>2. AcceptOrPoison(result)
    BY <1>2 DEF Take
  <2>3. Sound(result.t) /\ (result.ok => Explains(topology, result.t))
    BY <1>1, <2>1, GroundedHas, TransferNetworkSound
  <2> HIDE DEF result
  <2> QED
    BY <2>2, <2>3, AcceptOrPoisonSound DEF Lasting
<1>3. CASE ~Consumable(topology, destination)
  <2>1. AcceptOrPoison(Refused(topology))
    BY <1>3 DEF Take
  <2> QED
    BY <2>1, RefusedLasting, AcceptOrPoisonSound
<1> QED
  BY <1>2, <1>3

LEMMA PairSound ==
    ASSUME Grounded, NEW left \in Usable, NEW right \in Usable, Pair(left, right)
    PROVE  SoundStep
<1> DEFINE networks == {left.network, right.network}
           united == Colored(topology, left.network, right.network, 1)
<1>1. left.network \in 1..Len(topology.own) /\ right.network \in 0..Len(topology.own)
  BY UsableTypes, GroundedHas
<1>2. Lasting(united) /\ WellFormed(united.t)
  <2> DEFINE one == 1
  <2>1. one \in {0, 1}
    OBVIOUS
  <2> HIDE DEF one
  <2>2. LET colored == Colored(topology, left.network, right.network, one)
        IN  Sound(colored.t) /\ WellFormed(colored.t) /\ Explains(topology, colored.t)
    BY <1>1, <2>1, GroundedHas, ColoredSound
  <2> QED
    BY <2>2 DEF one, Lasting
<1>3. united = [ok |-> united.ok, t |-> united.t]
  BY DEF Colored, Recolored
<1>4. PICK apart : /\ apart = [ok |-> apart.ok, t |-> apart.t]
                   /\ Lasting(apart) /\ WellFormed(apart.t)
                   /\ Paired(apart, networks)
  <2>1. Paired(united, networks) \/ Paired(Refused(topology), networks)
    BY DEF Pair
  <2>2. /\ Refused(topology).t = topology
        /\ Refused(topology) = [ok |-> Refused(topology).ok, t |-> Refused(topology).t]
    BY DEF Refused
  <2> HIDE DEF united, networks
  <2> QED
    BY <1>2, <1>3, <2>1, <2>2, GroundedHas, RefusedLasting
<1> HIDE DEF united, networks
<1>5. CASE Poison(apart)
  BY <1>5, PoisonSound
<1>6. CASE Accept([apart EXCEPT !.t = MarkUsed(@, networks)], {})
  <2> DEFINE result == [apart EXCEPT !.t = MarkUsed(@, networks)]
  <2>1. result.t = MarkUsed(apart.t, networks) /\ result.ok = apart.ok
    BY <1>4
  <2>2. Sound(MarkUsed(apart.t, networks)) /\ Explains(apart.t, MarkUsed(apart.t, networks))
    BY <1>4, MarkUsedSound DEF Lasting
  <2>3. Accept(result, {})
    BY <1>6
  <2> HIDE DEF result
  <2>4. Lasting(result)
    BY <1>4, <2>1, <2>2, ExplainsTransitive DEF Lasting
  <2> QED
    BY <2>3, <2>4, AcceptSound
<1> QED
  BY <1>4, <1>5, <1>6 DEF Paired

LEMMA PairedApart ==
    ASSUME Grounded, NEW left \in Usable, NEW right \in Usable, Pair(left, right)
    PROVE  \/ pairs' = pairs
           \/ \E l, r \in 1..Len(topology'.own) :
                 /\ pairs' = pairs \cup {{l, r}}
                 /\ \A c : Suits(topology', c) => c[l] # c[r]
<1> DEFINE l == left.network
           r == right.network
           networks == {l, r}
           one == 1
           united == Colored(topology, l, r, one)
           result == [united EXCEPT !.t = MarkUsed(@, networks)]
<1>1. /\ l \in 1..Len(topology.own) /\ r \in 1..Len(topology.own) /\ one \in {0, 1}
      /\ r \in 0..Len(topology.own)
  BY UsableTypes, GroundedHas DEF HandleOf
<1>2. CASE Poison(united) \/ Poison(Refused(topology))
  BY <1>2 DEF Poison
<1>3. CASE Accept(result, {}) /\ pairs' = pairs \cup {networks}
  <2>1. united = [ok |-> united.ok, t |-> united.t]
    BY DEF Colored, Recolored
  <2> HIDE DEF one
  <2>2. /\ Sound(united.t) /\ WellFormed(united.t) /\ Explains(topology, united.t)
        /\ (united.ok => \A c : Suits(united.t, c) => Differing(c[l], c[r]) = one)
    BY <1>1, GroundedHas, ColoredSound
  <2> HIDE DEF united
  <2>3. result.ok = united.ok /\ result.t = MarkUsed(united.t, networks)
    BY <2>1
  <2>4. Explains(united.t, MarkUsed(united.t, networks))
    BY <2>2, MarkUsedSound
  <2>5. united.ok /\ topology' = MarkUsed(united.t, networks)
    BY <1>3, <2>3 DEF Accept
  <2>6. Narrows(united.t, topology') /\ Narrows(topology, topology')
    BY <2>2, <2>4, <2>5, ExplainsTransitive DEF Explains
  <2>7. \A c : Suits(topology', c) => Differing(c[l], c[r]) = 1
    BY <2>2, <2>5, <2>6 DEF Narrows, one
  <2>8. \A c : Suits(topology', c) => c[l] # c[r]
    BY <2>7 DEF Differing
  <2>9. l \in 1..Len(topology'.own) /\ r \in 1..Len(topology'.own)
    BY <1>1, <2>6 DEF Narrows
  <2> HIDE DEF l, r
  <2> QED
    BY <1>3, <2>8, <2>9
<1>4. CASE Accept([Refused(topology) EXCEPT !.t = MarkUsed(@, networks)], {})
  <2>1. ~[Refused(topology) EXCEPT !.t = MarkUsed(@, networks)].ok
    BY DEF Refused
  <2> QED
    BY <1>4, <2>1 DEF Accept
<1>5. Paired(united, networks) \/ Paired(Refused(topology), networks)
  BY DEF Pair
<1> HIDE DEF united, networks
<1> QED
  BY <1>2, <1>3, <1>4, <1>5 DEF Paired, result

LEMMA CompareSound ==
    ASSUME Grounded, NEW operands, Compare(operands)
    PROVE  SoundStep
<1> DEFINE networks == {h.network : h \in operands}
           result == [ok |-> \A h \in operands : Readable(topology, h),
                      t |-> MarkUsed(topology, networks)]
<1>1. Poison(result) \/ Accept(result, {})
  BY DEF Compare
<1>2. result.t = MarkUsed(topology, networks)
  OBVIOUS
<1> HIDE DEF result, networks
<1>3. Lasting(result)
  BY <1>2, GroundedHas, MarkUsedSound DEF Lasting
<1> QED
  BY <1>1, <1>3, PoisonSound, AcceptSound

LEMMA DeciderSound ==
    ASSUME Grounded, NEW left \in conditions, NEW right \in conditions,
           Decider(left \cup right)
    PROVE  SoundStep
<1> DEFINE inputs == left \cup right
<1>1. inputs \in SUBSET (1..Len(topology.own))
  BY GroundedHas DEF Inv, NamedKnown
<1> DEFINE result == CreateCombinator(topology, inputs)
<1>2. AcceptOrRollBack(result)
  BY DEF Decider
<1> HIDE DEF inputs
<1>3. Sound(result.t) /\ (result.ok => Explains(topology, result.t))
  BY <1>1, GroundedHas, CreateCombinatorSound
<1> HIDE DEF result
<1> QED
  BY <1>2, <1>3, AcceptOrRollBackSound DEF Lasting

(* A lane, and a network perhaps.                                           *)
LEMMA LaneAndOthers ==
    ASSUME Inv, NEW t, WellFormed(t), Grows(topology, t),
           NEW lanes, OneOrTwoOf(t, lanes), Len(lanes) = 1,
           NEW others \in {<<>>} \cup One
    PROVE  OneOrTwoOf(t, lanes \o others)
<1> DEFINE H == HandleOf(Len(t.own))
           inputs == lanes \o others
<1>1. HandleOf(Len(topology.own)) \subseteq H
  BY TypesAndOwners, OwnTypes, HandlesWiden DEF Grows, Larger, OwnGrows
<1>2. others \in Seq(H) /\ Len(others) \in {0, 1}
  <2> HIDE DEF H
  <2>1. Usable \subseteq H
    BY <1>1, UsableTypes, TypesAndOwners
  <2>2. CASE others = <<>>
    BY <2>2, EmptySeq
  <2>3. CASE others \in One
    <3>1. PICK h \in Usable : others = <<h>>
      BY <2>3 DEF One
    <3> QED
      BY <2>1, <3>1
  <2> QED
    BY <2>2, <2>3
<1>3. lanes \in Seq(H)
  BY DEF OneOrTwoOf
<1> HIDE DEF H
<1>4. inputs \in Seq(H) /\ Len(inputs) = 1 + Len(others)
  BY <1>2, <1>3, ConcatProperties
<1> HIDE DEF inputs
<1>5. Len(inputs) \in {1, 2}
  <2>1. \A k \in {0, 1} : 1 + k \in {1, 2}
    OBVIOUS
  <2> QED
    BY <1>2, <1>4, <2>1, Zenon
<1> QED
  BY <1>4, <1>5 DEF OneOrTwoOf, H, inputs

LEMMA JoinedSound ==
    ASSUME Grounded, NEW result, Joined(result), Lasting(result)
    PROVE  SoundStep
BY RollBackSound, AcceptSound DEF Joined

LEMMA JoinSound ==
    ASSUME Grounded, NEW inputs \in One \cup Two, Join(inputs)
    PROVE  SoundStep
<1> DEFINE result == JoinAll(topology, inputs)
<1>1. OneOrTwoOf(topology, inputs)
  BY OneOrTwoUsable, GroundedHas
<1>2. Sound(result.t) /\ (result.ok => Explains(topology, result.t))
  BY <1>1, GroundedHas, JoinAllSound
<1>3. Joined(result)
  BY DEF Join
<1> HIDE DEF result
<1> QED
  BY <1>2, <1>3, JoinedSound DEF Lasting

LEMMA JoinCombinatorSound ==
    ASSUME Grounded, NEW c \in Combinators, NEW others \in {<<>>} \cup One,
           JoinCombinator(c, others)
    PROVE  SoundStep
<1> DEFINE taken == TakeLanes(topology, c, 1)
           inputs == taken.lanes \o others
           joined == JoinAll(taken.t, inputs)
           one == 1
<1>1. c \in 1..Len(topology.combs) /\ one \in {1, 2}
  BY DEF Combinators
<1>2. /\ Grows(topology, taken.t) /\ WellFormed(taken.t)
      /\ taken.ok => OneOrTwoOf(taken.t, taken.lanes) /\ Len(taken.lanes) = 1
  BY <1>1, GroundedHas, TakeLanesGrows
<1>3. Sound(taken.t) /\ Explains(topology, taken.t)
  <2> HIDE DEF one
  <2>1. LET lanes == TakeLanes(topology, c, one)
        IN  Sound(lanes.t) /\ Explains(topology, lanes.t)
    BY <1>1, GroundedHas, TakeLanesSound
  <2> QED
    BY <2>1 DEF one
<1>4. Joined(JoinTaken(taken, others))
  BY DEF JoinCombinator
<1> HIDE DEF taken
<1>5. taken.ok => Lasting(joined)
  <2>1. taken.ok => OneOrTwoOf(taken.t, inputs)
    BY <1>2, GroundedHas, LaneAndOthers
  <2> HIDE DEF inputs
  <2>2. taken.ok => Sound(joined.t) /\ (joined.ok => Explains(taken.t, joined.t))
    BY <1>2, <1>3, <2>1, GroundedHas, JoinAllSound
  <2> HIDE DEF joined
  <2> QED
    BY <1>3, <2>2, ExplainsTransitive DEF Lasting
<1>6. JoinTaken(taken, others) = IF taken.ok THEN joined ELSE Refused(topology)
  BY DEF JoinTaken
<1> HIDE DEF joined
<1>7. Lasting(JoinTaken(taken, others))
  BY <1>5, <1>6, RefusedLasting
<1> QED
  BY <1>4, <1>7, JoinedSound

LEMMA DestructureSound ==
    ASSUME Grounded, NEW c \in Combinators, Destructure(c)
    PROVE  SoundStep
<1> DEFINE t == IF Len(topology.combs[c].lanes) = 2 THEN topology
                ELSE WithSecondary(topology, c)
<1>1. c \in 1..Len(topology.combs) /\ Len(topology.combs[c].lanes) \in {1, 2}
  BY GroundedHas DEF Combinators, Sound, OutputSound
<1>2. Len(topology.combs[c].lanes) # 2 =>
         Sound(WithSecondary(topology, c)) /\ Explains(topology, WithSecondary(topology, c))
  BY <1>1, GroundedHas, WithSecondarySound
<1>3. Sound(t) /\ Explains(topology, t)
  BY <1>2, GroundedHas, ExplainsReflexive
<1>4. topology' = t
  BY DEF Destructure, BothLanes, Accept
<1> HIDE DEF t
<1> QED
  BY <1>3, <1>4, ChangedSound

LEMMA AttachManySound ==
    ASSUME Grounded, NEW c \in Combinators, NEW destinations \in One \cup Two,
           AttachMany(c, destinations)
    PROVE  SoundStep
<1> DEFINE count == Len(destinations)
           taken == TakeLanes(topology, c, count)
           transferred == TransferAll(taken.t, destinations, taken.lanes)
<1>1. c \in 1..Len(topology.combs)
  BY DEF Combinators
<1>2. OneOrTwoOf(topology, destinations) /\ count \in {1, 2}
  BY OneOrTwoUsable, GroundedHas DEF OneOrTwoOf
<1> HIDE DEF count
<1>3. /\ Grows(topology, taken.t) /\ WellFormed(taken.t)
      /\ taken.ok => OneOrTwoOf(taken.t, taken.lanes) /\ Len(taken.lanes) = count
  BY <1>1, <1>2, GroundedHas, TakeLanesGrows
<1>4. /\ Sound(taken.t) /\ Explains(topology, taken.t)
      /\ taken.ok /\ count = 2 =>
             Apart(taken.t, taken.lanes[1].network, taken.lanes[2].network)
  BY <1>1, <1>2, GroundedHas, TakeLanesSound
<1>5. \A n \in 1..Len(topology.own) : taken.t.own[n] = topology.own[n]
  BY <1>1, GroundedHas, TakeLanesKeeps
<1>6. HandleOf(Len(topology.own)) \subseteq HandleOf(Len(taken.t.own))
  <2> HIDE DEF taken
  <2> QED
    BY <1>3, GroundedHas, OwnTypes, HandlesWiden DEF Grows, Larger, OwnGrows
<1>7. Connected(IF Attachable(destinations) THEN AttachTaken(taken, destinations)
                ELSE Refused(topology), c)
  BY DEF AttachMany, count
<1> HIDE DEF taken
<1>8. ASSUME Attachable(destinations), NEW i \in 1..count
      PROVE  ~Of(taken.t, destinations[i]).consumed
  <2>1. ~Of(topology, destinations[i]).consumed
    BY <1>8 DEF Attachable, Writable, Readable, Current, count
  <2>2. destinations[i] \in HandleOf(Len(topology.own))
    <3> DEFINE H == HandleOf(Len(topology.own))
    <3>1. destinations \in Seq(H)
      BY <1>2 DEF OneOrTwoOf
    <3> HIDE DEF H
    <3>2. destinations[i] \in H
      BY <3>1, ElementOfSeq DEF count
    <3> QED
      BY <3>2 DEF H
  <2>3. destinations[i].network \in 1..Len(topology.own)
    BY <2>2 DEF HandleOf
  <2> QED
    BY <1>5, <2>1, <2>3 DEF Of
<1>9. ASSUME Attachable(destinations), taken.ok
      PROVE  Lasting(transferred)
  <2>1. /\ destinations[1] \in HandleOf(Len(taken.t.own))
        /\ count # 1 => destinations[2] \in HandleOf(Len(taken.t.own))
        /\ 1 \in 1..count /\ (count # 1 => 2 \in 1..count)
    BY <1>2, <1>6, OneOrTwoTypes DEF count
  <2>2. count # 1 => count = 2
    BY <1>2
  <2>3. Sound(transferred.t) /\ (transferred.ok => Explains(taken.t, transferred.t))
    BY <1>3, <1>4, <1>8, <1>9, <2>1, <2>2, GroundedHas, TransferAllSound
  <2> HIDE DEF transferred
  <2> QED
    BY <1>4, <2>3, ExplainsTransitive DEF Lasting
<1> DEFINE Good(result) == /\ result = [ok |-> result.ok, t |-> result.t]
                           /\ Lasting(result) /\ WellFormed(result.t)
<1>10. PICK result : Connected(result, c) /\ Good(result)
  <2>1. Good(Refused(topology))
    BY GroundedHas, RefusedLasting DEF Refused
  <2>2. Attachable(destinations) /\ taken.ok => Good(transferred)
    <3> SUFFICES ASSUME Attachable(destinations), taken.ok PROVE Good(transferred)
      OBVIOUS
    <3>1. /\ destinations[1] \in HandleOf(Len(taken.t.own))
          /\ Len(destinations) # 1 => destinations[2] \in HandleOf(Len(taken.t.own))
      BY <1>2, <1>6, OneOrTwoTypes
    <3>2. Outcome(taken.t, transferred)
      BY <1>3, <3>1, GroundedHas, TransferAllGrows DEF count
    <3> HIDE DEF transferred
    <3> QED
      BY <1>9, <3>2 DEF Outcome, Grows, Larger
  <2>3. \/ AttachTaken(taken, destinations) = Refused(topology)
        \/ taken.ok /\ AttachTaken(taken, destinations) = transferred
    BY DEF AttachTaken
  <2> HIDE DEF transferred, Good
  <2> QED
    BY <1>7, <2>1, <2>2, <2>3
<1> DEFINE used == [result EXCEPT !.t.combs[c].used = TRUE]
<1>11. Lasting(used)
  <2> DEFINE u == [result.t EXCEPT !.combs[c].used = TRUE]
  <2>1. Sound(u) /\ Explains(result.t, u)
    BY <1>10, UsedSound DEF Lasting
  <2>2. used.t = u /\ used.ok = result.ok
    BY <1>10
  <2> HIDE DEF u, used
  <2> QED
    BY <1>10, <2>1, <2>2, ExplainsTransitive DEF Lasting
<1>12. AcceptOrRollBack(IF result.ok THEN used ELSE result)
  BY <1>10 DEF Connected
<1> HIDE DEF used
<1> QED
  BY <1>10, <1>11, <1>12, AcceptOrRollBackSound

LEMMA MoveFromSound ==
    ASSUME Grounded, NEW t, WellFormed(t), Sound(t), Explains(topology, t),
           NEW h \in HandleOf(Len(t.own)), NEW color \in Requirements, MoveFrom(t, h, color)
    PROVE  SoundStep
<1> DEFINE n == h.network
           colored == RequireColor(t, n, color)
           result == Moved(t, h, colored)
<1>1. n \in 1..Len(t.own) /\ Owner(frames) \in Int /\ Owner(frames) >= Lost
  BY GroundedHas DEF HandleOf, OwnersExact, OwnersKnown, Lost
<1>2. Grows(t, colored.t) /\ Len(colored.t.own) = Len(t.own)
  BY <1>1, RequireColorGrows, ColorsAreInt, GroundedHas
<1>3. Sound(colored.t) /\ (colored.ok => Explains(t, colored.t))
  BY <1>1, RequireColorSound, RequiredColors
<1>4. result.t = MoveTo(colored.t, n, Owner(frames)) /\ (result.ok => colored.ok)
  BY DEF Moved
<1>5. MoveIn(result, n)
  BY DEF MoveFrom
<1> HIDE DEF n, colored, result
<1>6. Lasting(result)
  <2>1. Sound(result.t) /\ Explains(colored.t, result.t)
    BY <1>1, <1>2, <1>3, <1>4, MoveToSound DEF Grows, Larger
  <2> QED
    BY <1>3, <1>4, <2>1, ExplainsTransitive DEF Lasting
<1> QED
  BY <1>5, <1>6, RollBackSound, AcceptSound DEF MoveIn

LEMMA MoveParameterSound ==
    ASSUME Grounded, NEW h \in Usable, NEW color \in Requirements, MoveParameter(h, color)
    PROVE  SoundStep
BY UsableTypes, GroundedHas, ExplainsReflexive, MoveFromSound DEF MoveParameter

LEMMA MoveCombinatorParameterSound ==
    ASSUME Grounded, NEW c \in Combinators, NEW color \in Requirements,
           MoveCombinatorParameter(c, color)
    PROVE  SoundStep
<1> DEFINE one == 1
           taken == TakeLanes(topology, c, 1)
<1>1. c \in 1..Len(topology.combs) /\ one \in {1, 2}
  BY DEF Combinators
<1>2. WellFormed(taken.t) /\ (taken.ok => taken.lanes[1] \in HandleOf(Len(taken.t.own)))
  BY <1>1, GroundedHas, TakeLanesGrows, OneOrTwoTypes
<1>3. Sound(taken.t) /\ Explains(topology, taken.t)
  <2> HIDE DEF one
  <2>1. LET lanes == TakeLanes(topology, c, one)
        IN  Sound(lanes.t) /\ Explains(topology, lanes.t)
    BY <1>1, GroundedHas, TakeLanesSound
  <2> QED
    BY <2>1 DEF one
<1>4. MoveTaken(taken, color)
  BY DEF MoveCombinatorParameter
<1> HIDE DEF taken
<1> QED
  BY <1>2, <1>3, <1>4, MoveFromSound, RollBackSound DEF MoveTaken

LEMMA ImplicitNetworkParameterSound ==
    ASSUME Grounded, NEW h \in Usable, NEW color \in Requirements,
           ImplicitNetworkParameter(h, color)
    PROVE  SoundStep
<1> DEFINE result == RequireColor(topology, h.network, color)
<1>1. h.network \in 1..Len(topology.own)
  BY GroundedHas, UsableTypes
<1>2. Sound(result.t) /\ (result.ok => Explains(topology, result.t))
  BY <1>1, GroundedHas, RequiredColors, RequireColorSound
<1>3. Referred(result, h.network)
  BY DEF ImplicitNetworkParameter
<1> HIDE DEF result
<1> QED
  BY <1>2, <1>3, PoisonSound, AcceptSound DEF Referred, Lasting

LEMMA ReturnNetworkSound ==
    ASSUME Grounded, NEW h \in Usable, NEW capability, NEW color \in Requirements,
           ReturnNetwork(h, capability, color)
    PROVE  SoundStep
<1> DEFINE n == h.network
           colored == RequireColor(topology, n, color)
           marked == MarkUsed(colored.t, {n})
           t == Returned(colored, n)
<1>1. n \in 1..Len(topology.own) /\ Caller \in Int /\ Caller >= Lost
  BY GroundedHas, UsableTypes DEF OwnersExact, OwnersKnown, Lost
<1>2. Sound(colored.t) /\ (colored.ok => Explains(topology, colored.t))
  BY <1>1, GroundedHas, RequiredColors, RequireColorSound
<1>3. Grows(topology, colored.t) /\ Len(colored.t.own) = Len(topology.own)
  BY <1>1, RequireColorGrows, ColorsAreInt, GroundedHas
<1>4. Passed(colored, h, capability) \/ ReturnOwned(colored, h, capability)
  BY DEF ReturnNetwork
<1>5. t = MoveTo(marked, n, Caller)
  BY DEF Returned
<1> HIDE DEF colored
<1>6. WellFormed(colored.t)
  BY <1>3 DEF Grows, Larger
<1>7. /\ Sound(marked) /\ WellFormed(marked) /\ marked.own = colored.t.own
      /\ Explains(colored.t, marked)
  <2> DEFINE networks == {n}
  <2>1. networks \subseteq 1..Len(colored.t.own)
    BY <1>1, <1>3
  <2> HIDE DEF networks
  <2>2. /\ Sound(MarkUsed(colored.t, networks)) /\ Explains(colored.t, MarkUsed(colored.t, networks))
        /\ Grows(colored.t, MarkUsed(colored.t, networks))
        /\ MarkUsed(colored.t, networks).own = colored.t.own
    BY <1>2, <1>6, MarkUsedSound, MarkUsedGrows
  <2> QED
    BY <2>2 DEF networks, Grows, Larger
<1> HIDE DEF marked
<1>8. Sound(t) /\ (colored.ok => Explains(topology, t))
  <2> HIDE DEF t
  <2>1. Sound(t) /\ Explains(marked, t)
    BY <1>1, <1>3, <1>5, <1>7, MoveToSound
  <2> QED
    BY <1>2, <1>7, <2>1, ExplainsTransitive
<1>9. CASE Passed(colored, h, capability)
  BY <1>2, <1>9, PoisonSound, AcceptSound DEF Passed, Lasting
<1>10. CASE ReturnOwned(colored, h, capability)
  <2>1. Poison(Refused(topology)) \/ (colored.ok /\ topology' = t)
    BY <1>10 DEF ReturnOwned, ReturnedTo, Accept
  <2> HIDE DEF t
  <2> QED
    BY <1>8, <2>1, PoisonSound, ChangedSound
<1> QED
  BY <1>4, <1>9, <1>10

LEMMA LeaveSound ==
    ASSUME Grounded, NEW result, NEW networks, NEW given, Leave(result, networks, given),
           Sound(result.t), Explains(topology, result.t)
    PROVE  SoundStep
BY PoisonSound, ChangedSound DEF Leave, Accept

LEMMA ReturnWithSound ==
    ASSUME Grounded, NEW given \in SUBSET HandleOf(Len(topology.own)),
           NEW lanes \in SUBSET HandleOf(Len(topology.own)), ReturnWith(given, lanes)
    PROVE  SoundStep
<1> DEFINE moving == Moving(given, lanes)
           networks == {h.network : h \in moving}
           charged == dslCalls + Cardinality(networks)
           u == ReturnAll(networks, lanes, TRUE)
           result == [ok |-> ValueReturns(given, lanes, moving) /\ charged <= DslCallBudget,
                      t |-> u]
           returned == {[h EXCEPT !.capability = "owned", !.generation = @ + 1] : h \in moving}
<1>1. networks \in SUBSET (1..Len(topology.own))
  BY DEF Moving, HandleOf
<1>2. Leave(result, networks, returned)
  BY DEF ReturnWith, ReturnFrom, ReturnMoving
<1>3. result.t = u
  OBVIOUS
<1> HIDE DEF result, networks, returned
<1>4. Sound(u) /\ Explains(topology, u)
  <2> DEFINE marked == TRUE
  <2> HIDE DEF marked
  <2>1. LET all == ReturnAll(networks, lanes, marked) IN Sound(all) /\ Explains(topology, all)
    BY <1>1, GroundedHas, ReturnAllSound
  <2> QED
    BY <2>1 DEF marked
<1> HIDE DEF u
<1> QED
  BY <1>2, <1>3, <1>4, LeaveSound

LEMMA ReturnValueSound ==
    ASSUME Grounded, NEW given \in SUBSET Usable, NEW combinators \in SUBSET Combinators,
           ReturnValue(given, combinators)
    PROVE  SoundStep
<1>1. given \in SUBSET HandleOf(Len(topology.own))
  BY UsableTypes, GroundedHas
<1>2. UNION {OwnedLanes(c) : c \in combinators} \in SUBSET HandleOf(Len(topology.own))
  BY OwnedLanesTypes, GroundedHas
<1> QED
  BY <1>1, <1>2, ReturnWithSound DEF ReturnValue

LEMMA ReturnCombinatorSound ==
    ASSUME Grounded, NEW c \in Combinators, ReturnCombinator(c)
    PROVE  SoundStep
<1> DEFINE lanes == OwnedLanes(c)
           networks == {h.network : h \in lanes}
           result == [ok |-> \A h \in lanes : Returnable(topology, h),
                      t |-> ReturnAll(networks, lanes, FALSE)]
<1>1. lanes \in SUBSET HandleOf(Len(topology.own))
  BY OwnedLanesTypes, GroundedHas
<1> HIDE DEF lanes
<1>2. networks \in SUBSET (1..Len(topology.own))
  BY <1>1 DEF HandleOf
<1>3. Leave(result, networks, {})
  BY DEF ReturnCombinator, ReturnLanes, lanes
<1>4. result.t = ReturnAll(networks, lanes, FALSE)
  OBVIOUS
<1> HIDE DEF result, networks
<1>5. Sound(result.t) /\ Explains(topology, result.t)
  <2> DEFINE marked == FALSE
  <2> HIDE DEF marked
  <2>1. LET all == ReturnAll(networks, lanes, marked) IN Sound(all) /\ Explains(topology, all)
    BY <1>2, GroundedHas, ReturnAllSound
  <2> QED
    BY <1>4, <2>1 DEF marked
<1> QED
  BY <1>3, <1>5, LeaveSound

LEMMA BorrowParameterSound ==
    ASSUME Grounded, NEW h \in Usable, NEW capability, NEW color \in Requirements,
           BorrowParameter(h, capability, color)
    PROVE  SoundStep
<1> DEFINE id == Len(borrows) + 1
           n == h.network
           colored == RequireColor(topology, n, color)
           result == Lend(colored, h, capability, id)
<1>1. n \in 1..Len(topology.own)
  BY GroundedHas, UsableTypes
<1>2. Sound(colored.t) /\ (colored.ok => Explains(topology, colored.t))
  BY <1>1, GroundedHas, RequiredColors, RequireColorSound
<1>3. WellFormed(colored.t) /\ Len(colored.t.own) = Len(topology.own)
  BY <1>1, RequireColorGrows, ColorsAreInt, GroundedHas DEF Grows, Larger
<1>4. result.t = Lending(colored.t, n, capability, id) /\ (result.ok => colored.ok)
  BY DEF Lend, Lending
<1>5. Lent(result, h, capability, id)
  BY DEF BorrowParameter
<1> HIDE DEF result, id, n, colored
<1>6. Lasting(result)
  <2>1. Sound(result.t) /\ Explains(colored.t, result.t)
    BY <1>1, <1>2, <1>3, <1>4, LendSound
  <2> QED
    BY <1>2, <1>4, <2>1, ExplainsTransitive DEF Lasting
<1> QED
  BY <1>5, <1>6, PoisonSound, AcceptSound DEF Lent

LEMMA EnterFunctionSound ==
    ASSUME Grounded, NEW default, EnterFunction(default)
    PROVE  SoundStep
<1> DEFINE t == NewNetwork(topology, called + 1, NoColor)
<1>1. topology' = t \/ topology' = topology
  BY DEF EnterFunction, Entered
<1>2. /\ called + 1 \in Int /\ called + 1 >= Lost /\ NoColor \in {Red, Green, NoColor}
  BY GroundedHas DEF Typed, Lost
<1>3. Sound(t) /\ Explains(topology, t)
  BY <1>2, GroundedHas, NewNetworkSound
<1> HIDE DEF t
<1> QED
  BY <1>1, <1>3, KeptSound, ChangedSound

LEMMA ExitInstanceSound ==
    ASSUME Grounded, ExitInstance
    PROVE  SoundStep
<1>1. Frame \in FrameRecord
  BY LastFrame, GroundedHas DEF ExitInstance
<1> DEFINE u == [topology EXCEPT !.own = Released(Frame)]
<1>2. Sound(u) /\ Explains(topology, u)
  BY <1>1, GroundedHas, ReleasedSound
<1>3. topology' = u
  BY DEF ExitInstance
<1> HIDE DEF u
<1> QED
  BY <1>2, <1>3, ChangedSound

(* The topology of the snapshot comes back, if the colours forgot nothing;  *)
(* the pairs stay.                                                          *)
Undone ==
    /\ factory.phase # "none" /\ Sound(topology') /\ pairs' = pairs
    /\ "colors" \in forgotten' \/ topology' = factory.saved
    /\ "pairs" \in forgotten' \/ pairs = factory.pairs

LEMMA FactoryThrowsSound ==
    ASSUME Grounded, FactoryThrows
    PROVE  SoundStep \/ Undone
<1>1. CASE Poison(Refused(topology))
  BY <1>1, PoisonSound
<1>2. CASE /\ factory.phase = "left" /\ topology' = Restored(factory.saved)
           /\ ForgottenBy(factory.saved) \subseteq forgotten' /\ pairs' = pairs
           /\ "pairs" \in forgotten' \/ pairs = factory.pairs
  <2>1. WellFormed(factory.saved)
    BY <1>2, GroundedHas DEF Inv, FactoryInStep, InStep
  <2>2. Sound(factory.saved)
    BY <1>2 DEF Grounded
  <2>3. /\ Sound(Restored(factory.saved))
        /\ "colors" \in ForgottenBy(factory.saved) \/ Restored(factory.saved) = factory.saved
    BY <2>1, <2>2, RestoredSound
  <2> QED
    BY <1>2, <2>3 DEF Undone
<1> QED
  BY <1>1, <1>2 DEF FactoryThrows

(* Every step leaves a sound topology and a sound snapshot.                 *)
LEMMA StepsSound ==
    ASSUME Grounded, Next
    PROVE  SoundStep \/ Undone
<1>1. \A l, r \in Usable : {l, r} \in SUBSET Usable
  OBVIOUS
<1>2. /\ \A c \in Combinators : {c} \in SUBSET Combinators
      /\ \A h \in Usable : {h} \in SUBSET Usable
      /\ {} \in SUBSET Combinators /\ {} \in SUBSET Usable
  OBVIOUS
<1>3. CASE \E color \in Requirements : Network(color)
  BY <1>3, NetworkSound
<1>4. CASE \E h \in Usable, color \in Requirements \ {NoColor} : Bind(h, color)
  BY <1>4, BindSound
<1>5. CASE \/ \E default \in BOOLEAN : EnterFunction(default)
           \/ ExitInstance \/ FactoryThrows
  BY <1>5, EnterFunctionSound, ExitInstanceSound, FactoryThrowsSound
<1>6. CASE \E h \in Usable, color \in Requirements :
               \/ \E capability \in {"readonly", "ref"} : BorrowParameter(h, capability, color)
               \/ MoveParameter(h, color)
               \/ ImplicitNetworkParameter(h, color)
               \/ \E capability \in {"owned", "readonly"} : ReturnNetwork(h, capability, color)
  BY <1>6, BorrowParameterSound, MoveParameterSound, ImplicitNetworkParameterSound,
     ReturnNetworkSound
<1>7. CASE \E c \in Combinators, color \in Requirements : MoveCombinatorParameter(c, color)
  BY <1>7, MoveCombinatorParameterSound
<1>8. CASE \E c \in Combinators :
               ReturnValue({}, {c}) \/ ReturnCombinator(c) \/ Destructure(c)
  BY <1>2, <1>8, ReturnValueSound, ReturnCombinatorSound, DestructureSound
<1>9. CASE \E h \in Usable, c \in Combinators : ReturnValue({h}, {c})
  BY <1>2, <1>9, ReturnValueSound
<1>10. CASE \E given \in OneOrTwo : ReturnValue(given, {}) \/ Compare(given)
  <2>1. OneOrTwo \subseteq SUBSET Usable
    BY <1>1 DEF OneOrTwo
  <2> QED
    BY <1>2, <1>10, <2>1, ReturnValueSound, CompareSound
<1>11. CASE \E l, r \in Usable : Take(l, r) \/ Pair(l, r)
  BY <1>11, TakeSound, PairSound
<1>12. CASE \E hs \in One \cup Two : Join(hs)
  BY <1>12, JoinSound
<1>13. CASE \E c \in Combinators, hs \in {<<>>} \cup One : JoinCombinator(c, hs)
  BY <1>13, JoinCombinatorSound
<1>14. CASE \E left, right \in conditions : Decider(left \cup right)
  BY <1>14, DeciderSound
<1>15. CASE \E c \in Combinators, hs \in One \cup Two : AttachMany(c, hs)
  BY <1>15, AttachManySound
<1>16. CASE Instantiate \/ FactoryReturns \/ Plan
  BY <1>16, KeptSound DEF Instantiate, FactoryReturns, Plan
<1>17. CASE OverBudget
  BY <1>17, PoisonSound DEF OverBudget
<1> QED
  BY <1>3, <1>4, <1>5, <1>6, <1>7, <1>8, <1>9, <1>10, <1>11, <1>12, <1>13, <1>14, <1>15,
     <1>16, <1>17 DEF Next

LEMMA SnapshotStays ==
    ASSUME Inv, Next, factory'.phase # "none"
    PROVE  \/ /\ factory.phase # "none" /\ factory'.saved = factory.saved
              /\ factory'.pairs = factory.pairs
           \/ factory'.saved = topology /\ factory'.pairs = pairs
<1>1. CASE Quietly
  BY <1>1 DEF Quietly
<1>2. CASE \E h \in Usable, color \in Requirements, capability \in {"readonly", "ref"} :
               BorrowParameter(h, capability, color)
  BY <1>2 DEF BorrowParameter, Lent, Accept, Poison
<1>3. ASSUME NEW phase, factory' = [factory EXCEPT !.phase = phase], factory.phase # "none"
      PROVE  factory'.saved = factory.saved /\ factory'.pairs = factory.pairs
  <2>1. factory = [phase |-> factory.phase, depth |-> factory.depth,
                   saved |-> factory.saved, pairs |-> factory.pairs]
    BY <1>3 DEF Inv, FactoryInStep
  <2> QED
    BY <1>3, <2>1
<1>4. CASE \E default \in BOOLEAN : EnterFunction(default)
  <2>1. \/ factory' = [factory EXCEPT !.phase = "running"] /\ factory.phase = "begun"
        \/ factory' = factory
    BY <1>4 DEF EnterFunction
  <2> QED
    BY <1>3, <2>1
<1>5. CASE ExitInstance
  <2>1. \/ factory' = [factory EXCEPT !.phase = "left"] /\ factory.phase = "running"
        \/ factory' = factory
    BY <1>5 DEF ExitInstance
  <2> QED
    BY <1>3, <2>1
<1>6. CASE Instantiate
  BY <1>6 DEF Instantiate
<1>7. CASE FactoryReturns \/ FactoryThrows
  BY <1>7 DEF FactoryReturns, FactoryThrows, NoFactory, Poison
<1> QED
  BY <1>1, <1>2, <1>4, <1>5, <1>6, <1>7, QuietSteps

LEMMA ForgottenGrows ==
    ASSUME Inv, Next
    PROVE  forgotten \subseteq forgotten'
<1>1. CASE Quietly
  BY <1>1 DEF Quietly
<1>2. CASE \/ \E default \in BOOLEAN : EnterFunction(default)
           \/ \E h \in Usable, color \in Requirements, capability \in {"readonly", "ref"} :
                 BorrowParameter(h, capability, color)
           \/ ExitInstance \/ Instantiate \/ FactoryReturns \/ FactoryThrows
  BY <1>2 DEF EnterFunction, BorrowParameter, Lent, Accept, Poison, ExitInstance, Instantiate,
              FactoryReturns, FactoryThrows
<1> QED
  BY <1>1, <1>2, QuietSteps

LEMMA OnlyPairPairs ==
    ASSUME Next
    PROVE  pairs' = pairs \/ \E l, r \in Usable : Pair(l, r)
<1>1. ASSUME NEW result, NEW given,
             \/ AcceptOrPoison(result) \/ AcceptOrRollBack(result) \/ Joined(result)
             \/ Poison(result) \/ RollBack(result) \/ (Accept(result, given) /\ Idle)
      PROVE  pairs' = pairs
  BY <1>1 DEF AcceptOrPoison, AcceptOrRollBack, Joined, Idle, Poison, RollBack
<1>2. CASE \E color \in Requirements : Network(color)
  BY <1>2 DEF Network, Declared, Idle
<1>3. CASE \E h \in Usable, color \in Requirements \ {NoColor} : Bind(h, color)
  BY <1>1, <1>3 DEF Bind
<1>4. CASE \/ \E default \in BOOLEAN : EnterFunction(default)
           \/ ExitInstance \/ Instantiate \/ FactoryReturns \/ FactoryThrows \/ Plan \/ OverBudget
  BY <1>4 DEF EnterFunction, ExitInstance, Instantiate, FactoryReturns, FactoryThrows, Plan,
              OverBudget, Poison
<1>5. ASSUME NEW t, NEW h, NEW color, MoveFrom(t, h, color)
      PROVE  pairs' = pairs
  BY <1>5 DEF MoveFrom, MoveIn, RollBack
<1>6. ASSUME NEW h \in Usable, NEW color \in Requirements,
             \/ \E capability \in {"readonly", "ref"} : BorrowParameter(h, capability, color)
             \/ MoveParameter(h, color)
             \/ ImplicitNetworkParameter(h, color)
             \/ \E capability \in {"owned", "readonly"} : ReturnNetwork(h, capability, color)
      PROVE  pairs' = pairs
  <2>1. CASE \E capability \in {"readonly", "ref"} : BorrowParameter(h, capability, color)
    BY <2>1 DEF BorrowParameter, Lent, Poison
  <2>2. CASE MoveParameter(h, color) \/ ImplicitNetworkParameter(h, color)
    BY <1>5, <2>2 DEF MoveParameter, ImplicitNetworkParameter, Referred, Poison
  <2>3. CASE \E capability \in {"owned", "readonly"} : ReturnNetwork(h, capability, color)
    BY <2>3 DEF ReturnNetwork, Passed, ReturnOwned, ReturnedTo, Idle, Poison
  <2> QED
    BY <1>6, <2>1, <2>2, <2>3
<1>7. CASE \E c \in Combinators, color \in Requirements : MoveCombinatorParameter(c, color)
  BY <1>5, <1>7 DEF MoveCombinatorParameter, MoveTaken, RollBack
<1>8. ASSUME NEW given, NEW combinators, ReturnValue(given, combinators)
      PROVE  pairs' = pairs
  BY <1>8 DEF ReturnValue, ReturnWith, ReturnFrom, ReturnMoving, Leave, Poison
<1>9. CASE \E c \in Combinators : ReturnCombinator(c) \/ Destructure(c)
  BY <1>9 DEF ReturnCombinator, ReturnLanes, Leave, Poison, Destructure, BothLanes, Idle
<1>10. CASE \E given \in OneOrTwo : Compare(given)
  BY <1>10 DEF Compare, Poison
<1>11. CASE \E l, r \in Usable : Take(l, r)
  BY <1>1, <1>11 DEF Take
<1>12. CASE \/ \E hs \in One \cup Two : Join(hs)
            \/ \E c \in Combinators, hs \in {<<>>} \cup One : JoinCombinator(c, hs)
  BY <1>1, <1>12 DEF Join, JoinCombinator
<1>13. CASE \/ \E left, right \in conditions : Decider(left \cup right)
            \/ \E c \in Combinators, hs \in One \cup Two : AttachMany(c, hs)
  BY <1>1, <1>13 DEF Decider, AttachMany, Connected
<1> QED
  BY <1>2, <1>3, <1>4, <1>6, <1>7, <1>8, <1>9, <1>10, <1>11, <1>12, <1>13 DEF Next

LEMMA PairsStayApart ==
    ASSUME Grounded, Next, PairsApart(topology', pairs)
    PROVE  PairsApart(topology', pairs')
<1>1. CASE pairs' = pairs
  BY <1>1
<1>2. CASE \E l, r \in 1..Len(topology'.own) :
              pairs' = pairs \cup {{l, r}} /\ \A c : Suits(topology', c) => c[l] # c[r]
  BY <1>2 DEF PairsApart
<1> QED
  BY <1>1, <1>2, OnlyPairPairs, PairedApart

LEMMA NextGrounded ==
    ASSUME Grounded, [Next]_vars
    PROVE  Grounded'
<1>1. Inv /\ Inv'
  BY NextInv DEF Grounded
<1>2. CASE Next
  <2>1. SoundStep \/ Undone
    BY <1>2, StepsSound
  <2>2. forgotten \subseteq forgotten'
    BY <1>1, <1>2, ForgottenGrows
  <2>3. \A t : Remembers(t, pairs, forgotten) => Remembers(t, pairs, forgotten')
    BY <2>2, StaysRemembered, ExplainsReflexive
  <2>4. factory'.phase # "none" =>
            Sound(factory'.saved) /\ Remembers(factory'.saved, factory'.pairs, forgotten')
    <3>1. factory.phase # "none" => Remembers(factory.saved, factory.pairs, forgotten')
      BY <2>2, StaysRemembered, ExplainsReflexive DEF Grounded
    <3>2. Remembers(topology, pairs, forgotten')
      BY <2>3 DEF Grounded
    <3> QED
      BY <1>1, <1>2, <3>1, <3>2, SnapshotStays DEF Grounded
  <2>5. CASE SoundStep
    <3>1. Remembers(topology', pairs, forgotten')
      BY <2>2, <2>5, StaysRemembered DEF Grounded, SoundStep
    <3>2. Remembers(topology', pairs', forgotten')
      BY <1>2, <3>1, PairsStayApart DEF Remembers
    <3> QED
      BY <1>1, <2>4, <2>5, <3>2 DEF Grounded, SoundStep
  <2>6. CASE Undone
    <3>1. Remembers(factory.saved, factory.pairs, forgotten')
      BY <2>2, <2>6, StaysRemembered, ExplainsReflexive DEF Grounded, Undone
    <3>2. Remembers(topology', pairs', forgotten')
      BY <2>6, <3>1 DEF Undone, Remembers
    <3> QED
      BY <1>1, <2>4, <2>6, <3>2 DEF Grounded, Undone
  <2> QED
    BY <2>1, <2>5, <2>6
<1>3. CASE UNCHANGED vars
  BY <1>1, <1>3 DEF Grounded, vars
<1> QED
  BY <1>2, <1>3

LEMMA InitGrounded == Init => Grounded
<1> SUFFICES ASSUME Init PROVE Grounded
  OBVIOUS
<1>1. /\ topology.engine = Colors!NewEngine /\ topology.own = <<>>
      /\ topology.combs = <<>> /\ topology.transfers = <<>>
      /\ factory.phase = "none"
  BY DEF Init, NoFactory
<1>2. Len(<<>>) = 0
  BY EmptySeq
<1>3. ColorsFit(topology)
  <2>1. Colors!NewEngine = Engines!NewEngine
    BY Zenon DEF Colors!NewEngine, Engines!NewEngine
  <2>2. Engines!EngineInv(Engines!NewEngine)
    BY Engines!NewEngineInv, BoundsAssumption DEF BoundsAssumption
  <2>3. Engines!AnchorInv(Engines!NewEngine) /\ Engines!NewEngine.size = 0
    BY <2>2 DEF Engines!AnchorInv, Engines!NewEngine
  <2> QED
    BY <1>1, <1>2, <2>1, <2>3 DEF ColorsFit
<1>4. Sound(topology)
  BY <1>1, <1>2, <1>3 DEF Sound
<1>5. Explained(topology) /\ PairsApart(topology, pairs)
  BY <1>1, <1>2 DEF Explained, Obeys, PairsApart, Init
<1> QED
  BY <1>1, <1>4, <1>5, InitInv DEF Grounded, Remembers

LEMMA AlwaysGrounded == Spec => []Grounded
<1>1. Grounded /\ [Next]_vars => Grounded'
  BY NextGrounded
<1> QED
  BY <1>1, InitGrounded, PTL DEF Spec

-----------------------------------------------------------------------------
(* The replay of the transfers that were recorded: its survivors are what   *)
(* the networks have become, what no transfer has consumed is its own, and  *)
(* each transfer is of two such networks, so that only the fixed colours    *)
(* can refuse it.                                                           *)
Replayed(replay, transfer) == Direct!Transferred(PlanOf, replay, transfer)

Replaying == INSTANCE LeftFolds WITH Op <- Replayed

LEMMA ReplayingInducts == Replaying!Induction
BY NaturalInduction DEF Replaying!Induction

Sources(m) == {topology.transfers[j][2] : j \in 1..m}

Follows(replay, m) ==
    /\ replay = [root |-> replay.root, consumed |-> replay.consumed,
                 failure |-> replay.failure]
    /\ replay.failure \in {"none", "RT2014"}
    /\ replay.failure = "none" =>
          /\ replay.consumed = Sources(m)
          /\ \A n \in Networks : replay.root[n] = Along(topology.transfers, n)[m]
          /\ \A n \in Networks \ Sources(m) : replay.root[n] = n

LEMMA PlanParts ==
    ASSUME WellFormed(topology)
    PROVE  /\ Len(PlanOf.fixed) = Len(topology.own)
           /\ \A n \in Networks : PlanOf.fixed[n] = topology.own[n].color
           /\ PlanOf.transfers = topology.transfers /\ PlanOf.pairs = pairs
<1> DEFINE fixed == [n \in Networks |-> topology.own[n].color]
<1>1. /\ PlanOf.fixed = fixed /\ PlanOf.transfers = topology.transfers
      /\ PlanOf.pairs = pairs
  BY DEF PlanOf
<1>2. fixed \in [1..Len(topology.own) -> {fixed[n] : n \in Networks}]
  BY DEF Networks
<1>3. Len(topology.own) \in Nat
  BY OwnTypes
<1>5. \A n \in Networks : fixed[n] = topology.own[n].color
  OBVIOUS
<1> HIDE DEF fixed
<1>4. Len(fixed) = Len(topology.own)
  BY <1>2, <1>3, FunctionIsSequence
<1> QED
  BY <1>1, <1>4, <1>5

LEMMA TransferFollows ==
    ASSUME WellFormed(topology), Sound(topology), NEW m \in Nat,
           m + 1 \in 1..Len(topology.transfers), NEW replay, Follows(replay, m)
    PROVE  Follows(Replayed(replay, topology.transfers[m + 1]), m + 1)
<1> DEFINE transfer == topology.transfers[m + 1]
           d == transfer[1]
           s == transfer[2]
           next == Replayed(replay, transfer)
           top == replay.root[d]
           low == replay.root[s]
           colors == Direct!FixedIn(PlanOf, replay, top) \cup Direct!FixedIn(PlanOf, replay, low)
           failed == [replay EXCEPT !.failure = "RT2014"]
           root == [n \in Networks |-> IF replay.root[n] = low THEN top ELSE replay.root[n]]
           merged == [replay EXCEPT !.root = root, !.consumed = @ \cup {s}]
<1>1. d \in Networks /\ s \in Networks /\ d # s
  BY TransferTypes DEF Networks, Sound, InOrder
<1>2. d \notin Sources(m) /\ s \notin Sources(m)
  <2>1. \A j \in 1..m : j \in 1..(m + 1) - 1
    OBVIOUS
  <2> QED
    BY <2>1 DEF Sound, InOrder, Sources
<1>3. Sources(m + 1) = Sources(m) \cup {s}
  <2>1. 1..m + 1 = 1..m \cup {m + 1}
    OBVIOUS
  <2> QED
    BY <2>1 DEF Sources
<1> HIDE DEF transfer
<1>4. CASE replay.failure # "none"
  <2>1. next = replay
    BY <1>4 DEF Replayed, Direct!Transferred
  <2> QED
    BY <1>4, <2>1 DEF Follows, transfer
<1>5. CASE replay.failure = "none"
  <2>1. /\ top = d /\ low = s /\ replay.consumed = Sources(m)
        /\ {d, s} \cap Networks = {d, s} /\ {d, s} \cap replay.consumed = {}
    BY <1>1, <1>2, <1>5 DEF Follows
  <2>2. next = failed \/ next = merged
    <3>1. 1..Len(PlanOf.fixed) = Networks
      BY PlanParts DEF Networks
    <3> QED
      BY <1>1, <1>5, <2>1, <3>1 DEF Replayed, Direct!Transferred
  <2>3. CASE next = failed
    <3>1. /\ next = [root |-> replay.root, consumed |-> replay.consumed, failure |-> "RT2014"]
      BY <2>3 DEF Follows
    <3> HIDE DEF next, failed
    <3> QED
      BY <3>1 DEF Follows, next, transfer
  <2>4. CASE next = merged
    <3>1. next = [root |-> root, consumed |-> Sources(m + 1), failure |-> "none"]
      <4> HIDE DEF root, next
      <4> QED
        BY <1>3, <1>5, <2>1, <2>4 DEF Follows
    <3>2. ASSUME NEW n \in Networks \ Sources(m + 1)
          PROVE  root[n] = n
      <4>1. n # s /\ replay.root[n] = n
        BY <1>3, <1>5 DEF Follows
      <4> QED
        BY <2>1, <4>1
    <3>3. ASSUME NEW n \in Networks
          PROVE  root[n] = Along(topology.transfers, n)[m + 1]
      <4> DEFINE links == topology.transfers
                 along == Along(links, n)
      <4>1. m + 1 \in 1..Len(links) /\ (m + 1) - 1 = m /\ Len(links) \in Nat
        BY TransferTypes
      <4> HIDE DEF links
      <4>2. along[m + 1] = Rooted(along[m], links[m + 1])
        BY <4>1, AlongSteps
      <4> HIDE DEF along
      <4>3. replay.root[n] = along[m]
        BY <1>5 DEF Follows, along, links
      <4>4. s = links[m + 1][2] /\ d = links[m + 1][1]
        BY DEF transfer, links
      <4>5. root[n] = IF replay.root[n] = s THEN d ELSE replay.root[n]
        BY <2>1
      <4> HIDE DEF root
      <4> QED
        BY <4>2, <4>3, <4>4, <4>5 DEF Rooted, along, links
    <3> HIDE DEF root, next
    <3> QED
      BY <3>1, <3>2, <3>3 DEF Follows, next, transfer
  <2> QED
    BY <2>2, <2>3, <2>4
<1> QED
  BY <1>4, <1>5

(* The replay counts with the same operator.                                *)
LEMMA SameCardinality == \A S : Direct!Cardinality(S) = Cardinality(S)
BY Zenon DEF Direct!Cardinality, Cardinality

(* A colouring that obeys what was recorded is of the fixed colours that    *)
(* meet in a survivor, so that they are one at most.                        *)
LEMMA FixedAlike ==
    ASSUME WellFormed(topology), NEW c, Obeys(topology, c),
           NEW m \in 0..Len(topology.transfers), NEW replay, Follows(replay, m),
           replay.failure = "none", NEW root
    PROVE  Direct!FixedIn(PlanOf, replay, root) \subseteq {c[root]}
<1>1. 1..Len(PlanOf.fixed) = Networks
  BY PlanParts DEF Networks
<1>2. ASSUME NEW n \in Networks, replay.root[n] = root, PlanOf.fixed[n] # NoColor
      PROVE  PlanOf.fixed[n] = c[root]
  <2>1. PlanOf.fixed[n] = c[n]
    BY <1>2, PlanParts DEF Obeys, Networks
  <2>2. replay.root[n] = Along(topology.transfers, n)[m]
    BY DEF Follows
  <2>3. c[Along(topology.transfers, n)[m]] = c[n]
    BY AlongColored DEF Obeys, JoinsAlike, Networks
  <2> QED
    BY <1>2, <2>1, <2>2, <2>3
<1>3. Direct!NoColor = NoColor
  BY DEF Direct!NoColor, NoColor
<1> QED
  BY <1>1, <1>2, <1>3 DEF Direct!FixedIn

LEMMA TransferHolds ==
    ASSUME WellFormed(topology), Sound(topology), NEW c, Obeys(topology, c), NEW m \in Nat,
           m + 1 \in 1..Len(topology.transfers), NEW replay, Follows(replay, m),
           replay.failure = "none"
    PROVE  Replayed(replay, topology.transfers[m + 1]).failure = "none"
<1> DEFINE transfer == topology.transfers[m + 1]
           d == transfer[1]
           s == transfer[2]
           next == Replayed(replay, transfer)
           top == replay.root[d]
           low == replay.root[s]
           colors == Direct!FixedIn(PlanOf, replay, top) \cup Direct!FixedIn(PlanOf, replay, low)
           merged == [replay EXCEPT
                        !.root = [n \in 1..Len(PlanOf.fixed) |-> IF @[n] = low THEN top ELSE @[n]],
                        !.consumed = @ \cup {s}]
<1>1. Follows(next, m + 1)
  BY TransferFollows
<1>2. m \in 0..Len(topology.transfers)
  OBVIOUS
<1>3. d \in Networks /\ s \in Networks
  BY TransferTypes DEF Networks
<1>4. c[top] = c[d] /\ c[low] = c[s] /\ c[d] = c[s]
  <2>1. \A n \in Networks : c[replay.root[n]] = c[n]
    BY <1>2, AlongColored DEF Obeys, JoinsAlike, Networks, Follows
  <2>2. c[d] = c[s]
    BY DEF Obeys
  <2> QED
    BY <1>3, <2>1, <2>2
<1>5. ~(Direct!Cardinality(colors) > 1)
  <2> DEFINE color == c[d]
             single == {color}
  <2>1. colors \in SUBSET single
    BY <1>2, <1>4, FixedAlike
  <2>2. IsFiniteSet(single) /\ Cardinality(single) = 1
    BY FS_Singleton
  <2> HIDE DEF colors, single
  <2>3. Cardinality(colors) <= 1 /\ Cardinality(colors) \in Nat
    BY <2>1, <2>2, FS_Subset, FS_CardinalityType
  <2> QED
    BY <2>3, SameCardinality
<1>6. replay = [root |-> replay.root, consumed |-> replay.consumed, failure |-> "none"]
  BY DEF Follows
<1>7. merged.failure = "none"
  BY <1>6
<1>8. next.failure \in {"RT2011", "RT2012", "RT2013"} \/ next = merged
  <2>1. \A code : [replay EXCEPT !.failure = code].failure = code
    BY <1>6
  <2> HIDE DEF merged
  <2> QED
    BY <1>5, <2>1 DEF Replayed, Direct!Transferred, merged
<1>9. next.failure \in {"none", "RT2014"}
  BY <1>1 DEF Follows
<1> HIDE DEF next
<1>10. next.failure = "none"
  BY <1>7, <1>8, <1>9
<1> QED
  BY <1>10 DEF next

LEMMA SoundReplays ==
    ASSUME WellFormed(topology), Sound(topology)
    PROVE  LET replay == Direct!Collapsed(PlanOf)
           IN  /\ Follows(replay, Len(topology.transfers))
               /\ ((\E c : Obeys(topology, c)) => replay.failure = "none")
<1> DEFINE size == Len(topology.transfers)
           start == Direct!Started(PlanOf)
           after == CHOOSE g : Replaying!IsRun(g, start, topology.transfers, size)
           Alike == \E c : Obeys(topology, c)
<1>1. Direct!Collapsed(PlanOf) = after[size]
  BY PlanParts DEF Direct!Collapsed, Replaying!IsRun, Replayed
<1>2. size \in Nat
  BY TransferTypes
<1>8. \A n \in Networks : Along(topology.transfers, n)[0] = n
  BY <1>2, AlongSteps
<1> HIDE DEF size
<1>3. /\ after[0] = start
      /\ \A i \in 1..size : after[i] = Replayed(after[i - 1], topology.transfers[i])
  <2> DEFINE transfers == topology.transfers
  <2> HIDE DEF start, transfers
  <2>1. LET g == CHOOSE h : Replaying!IsRun(h, start, transfers, size)
        IN  g[0] = start /\ \A i \in 1..size : g[i] = Replayed(g[i - 1], transfers[i])
    BY <1>2, Replaying!RunSteps, ReplayingInducts
  <2> QED
    BY <2>1 DEF transfers
<1> HIDE DEF after
<1> DEFINE Good == {m \in Nat :
               m <= size => Follows(after[m], m) /\ (Alike => after[m].failure = "none")}
<1>4. 0 \in Good
  <2>1. start = [root |-> [n \in Networks |-> n], consumed |-> {}, failure |-> "none"]
    BY PlanParts DEF Direct!Started, Networks
  <2>2. Sources(0) = {}
    BY DEF Sources
  <2>3. Follows(start, 0) /\ start.failure = "none"
    <3> HIDE DEF start
    <3> QED
      BY <1>8, <2>1, <2>2 DEF Follows
  <2> HIDE DEF start, Alike
  <2> QED
    BY <1>3, <2>3
<1>5. ASSUME NEW m \in Good
      PROVE  m + 1 \in Good
  <2>1. ASSUME m + 1 <= size
        PROVE  Follows(after[m + 1], m + 1) /\ (Alike => after[m + 1].failure = "none")
    <3>1. m + 1 \in 1..size /\ (m + 1) - 1 = m /\ m <= size /\ m \in Nat
      BY <1>2, <2>1
    <3>2. after[m + 1] = Replayed(after[m], topology.transfers[m + 1])
      BY <1>3, <3>1
    <3>3. Follows(after[m], m) /\ (Alike => after[m].failure = "none")
      BY <3>1
    <3>4. Follows(after[m + 1], m + 1)
      BY <3>1, <3>2, <3>3, TransferFollows DEF size
    <3>5. Alike => after[m + 1].failure = "none"
      BY <3>1, <3>2, <3>3, TransferHolds DEF size
    <3> QED
      BY <3>4, <3>5
  <2> HIDE DEF Alike
  <2> QED
    BY <2>1
<1>6. Good = Nat
  <2>1. Good \in SUBSET Nat
    OBVIOUS
  <2> HIDE DEF Good
  <2> QED
    BY <1>4, <1>5, <2>1, NaturalInduction
<1> HIDE DEF Alike
<1>7. Follows(after[size], size) /\ (Alike => after[size].failure = "none")
  BY <1>2, <1>6
<1> QED
  BY <1>1, <1>7 DEF size, Alike

LEMMA GroundedReplays == Grounded => TransfersReplay
<1> SUFFICES ASSUME Grounded PROVE TransfersReplay
  OBVIOUS
<1>1. Direct!Collapsed(PlanOf).failure \in {"none", "RT2014"}
  BY GroundedHas, SoundReplays DEF Follows
<1> QED
  BY <1>1 DEF TransfersReplay

(* The transfers of a plan replay whatever was rolled back among them: each *)
(* is of two networks that are registered, that no earlier transfer has     *)
(* consumed and that have not become one                                    *)
(* (packages/runtime/src/direct-plan.ts, collapseTransfers).                *)
THEOREM TransfersAlwaysReplay == Spec => []TransfersReplay
BY AlwaysGrounded, GroundedReplays, PTL

-----------------------------------------------------------------------------
(* The rest of the replay, with a colouring that the engine leaves.  What   *)
(* it keeps apart has two survivors at most.                                *)
Survivors == {Direct!Collapsed(PlanOf).root[n] : n \in Networks}

Divided(networks, c) ==
    /\ networks \subseteq Survivors
    /\ \A l, r \in networks : l # r => c[l] # c[r]

LEMMA PairSize ==
    ASSUME NEW a, NEW b, a # b
    PROVE  IsFiniteSet({a, b}) /\ Cardinality({a, b}) = 2
<1> DEFINE single == {a}
           double == {a, b}
<1>1. IsFiniteSet(single) /\ Cardinality(single) = 1 /\ single \cup {b} = double /\ b \notin single
  BY FS_Singleton
<1> HIDE DEF single, double
<1>2. IsFiniteSet(double) /\ Cardinality(double) = Cardinality(single) + 1
  BY <1>1, FS_AddElement
<1>3. IsFiniteSet(double) /\ Cardinality(double) = 2
  BY <1>1, <1>2
<1> QED
  BY <1>3 DEF double

LEMMA DividedIsSmall ==
    ASSUME NEW networks, NEW c, Divided(networks, c), \A n \in networks : c[n] \in {0, 1}
    PROVE  ~(Cardinality(networks) > 2)
<1>1. CASE networks = {}
  <2>1. Cardinality({}) = 0 /\ ~(0 > 2)
    BY FS_EmptySet
  <2> QED
    BY <1>1, <2>1
<1>2. CASE \E a : networks = {a}
  <2>1. (\A a : Cardinality({a}) = 1) /\ ~(1 > 2)
    BY FS_Singleton
  <2> QED
    BY <1>2, <2>1, Zenon
<1>3. CASE \E a, b \in networks : a # b
  <2>1. PICK a \in networks, b \in networks : a # b
    BY <1>3
  <2>2. \A d \in networks : d = a \/ d = b
    BY <2>1 DEF Divided
  <2>3. networks = {a, b}
    BY <2>1, <2>2
  <2>4. Cardinality({a, b}) = 2
    BY <2>1, PairSize, Zenon
  <2>5. ~(2 > 2)
    OBVIOUS
  <2> QED
    BY <2>3, <2>4, <2>5, Zenon
<1>4. networks = {} \/ (\E a : networks = {a}) \/ (\E a, b \in networks : a # b)
  <2>1. ASSUME NEW a \in networks, \A d, e \in networks : d = e
        PROVE  networks = {a}
    BY <2>1
  <2> QED
    BY <2>1
<1> QED
  BY <1>1, <1>2, <1>3, <1>4

(* The survivors of the plan that is replayed.                              *)
LEMMA SurvivorsColored ==
    ASSUME WellFormed(topology), Sound(topology), NEW c, Obeys(topology, c)
    PROVE  LET replay == Direct!Collapsed(PlanOf)
           IN  /\ replay.failure = "none"
               /\ \A n \in Networks : /\ replay.root[n] = LogicalRoot(topology, n)
                                      /\ replay.root[n] \in Networks
                                      /\ c[replay.root[n]] = c[n]
<1> DEFINE replay == Direct!Collapsed(PlanOf)
           links == topology.transfers
<1>1. Follows(replay, Len(links)) /\ replay.failure = "none"
  BY SoundReplays
<1> HIDE DEF replay
<1>2. ASSUME NEW n \in Networks
      PROVE  replay.root[n] = LogicalRoot(topology, n)
  <2>1. Len(links) \in Nat /\ LogicalRoot(topology, n) = RootAlong(links, n)
    BY TransferTypes, LogicalRootAlong
  <2>2. replay.root[n] = Along(links, n)[Len(links)]
    BY <1>1 DEF Follows
  <2> HIDE DEF links
  <2>3. RootAlong(links, n) = Along(links, n)[Len(links)]
    BY <2>1, AlongSteps
  <2> QED
    BY <2>1, <2>2, <2>3
<1>3. ASSUME NEW n \in Networks
      PROVE  LogicalRoot(topology, n) \in Networks /\ c[LogicalRoot(topology, n)] = c[n]
  BY RootInRange, RootColored DEF Networks, Obeys, JoinsAlike
<1> QED
  BY <1>1, <1>2, <1>3 DEF replay

LEMMA ProducerParts ==
    ASSUME WellFormed(topology)
    PROVE  /\ Len(PlanOf.producers) = Len(topology.combs)
           /\ \A k \in Combinators :
                 LET producer == PlanOf.producers[k]
                     comb == topology.combs[k]
                 IN  /\ producer.inputs = comb.inputs
                     /\ Len(producer.destinations) = Len(comb.lanes)
                     /\ \A i \in 1..Len(comb.lanes) :
                           producer.destinations[i] = comb.lanes[i].network
<1> DEFINE Destinations(k) == [i \in 1..Len(topology.combs[k].lanes) |->
                                   topology.combs[k].lanes[i].network]
           Producer(k) == [inputs |-> topology.combs[k].inputs,
                           destinations |-> Destinations(k)]
           producers == [k \in Combinators |-> Producer(k)]
<1>1. PlanOf.producers = producers
  BY DEF PlanOf
<1>2. Len(producers) = Len(topology.combs)
  <2>1. producers \in [1..Len(topology.combs) -> {Producer(k) : k \in Combinators}]
    BY DEF Combinators
  <2>2. Len(topology.combs) \in Nat
    BY CombinatorTypes
  <2> HIDE DEF producers, Producer
  <2> QED
    BY <2>1, <2>2, FunctionIsSequence
<1>3. ASSUME NEW k \in Combinators
      PROVE  Len(Destinations(k)) = Len(topology.combs[k].lanes)
  <2> DEFINE lanes == topology.combs[k].lanes
             destinations == Destinations(k)
  <2>1. destinations \in [1..Len(lanes) -> {destinations[i] : i \in 1..Len(lanes)}]
    OBVIOUS
  <2>2. Len(lanes) \in Nat
    BY CombinatorTypes DEF Combinators
  <2> HIDE DEF destinations, lanes
  <2>3. Len(destinations) = Len(lanes)
    BY <2>1, <2>2, FunctionIsSequence
  <2> QED
    BY <2>3 DEF destinations, lanes
<1>4. ASSUME NEW k \in Combinators
      PROVE  /\ producers[k].inputs = topology.combs[k].inputs
             /\ producers[k].destinations = Destinations(k)
  OBVIOUS
<1>5. \A k \in Combinators : \A i \in 1..Len(topology.combs[k].lanes) :
         Destinations(k)[i] = topology.combs[k].lanes[i].network
  OBVIOUS
<1> HIDE DEF producers, Destinations
<1> QED
  BY <1>1, <1>2, <1>3, <1>4, <1>5

(* A colouring that the engine leaves keeps the networks of each pair, and  *)
(* those of each connector, apart.                                          *)
LEMMA RootsDivided ==
    ASSUME WellFormed(topology), Sound(topology), NEW c, Obeys(topology, c),
           NEW networks \in SUBSET Networks,
           \A l, r \in networks : LogicalRoot(topology, l) # LogicalRoot(topology, r) => c[l] # c[r]
    PROVE  Divided(Direct!RootsOf(Direct!Collapsed(PlanOf), networks), c)
<1> DEFINE replay == Direct!Collapsed(PlanOf)
           roots == Direct!RootsOf(replay, networks)
<1>1. \A n \in Networks : /\ replay.root[n] = LogicalRoot(topology, n)
                           /\ replay.root[n] \in Networks
                           /\ c[replay.root[n]] = c[n]
  BY SurvivorsColored
<1> HIDE DEF replay
<1>2. roots = {replay.root[n] : n \in networks}
  BY DEF Direct!RootsOf
<1> HIDE DEF roots
<1>3. roots \subseteq Survivors
  BY <1>2 DEF Survivors, replay
<1>4. ASSUME NEW a \in roots, NEW b \in roots, a # b
      PROVE  c[a] # c[b]
  <2>1. PICK l \in networks : a = replay.root[l]
    BY <1>2
  <2>2. PICK r \in networks : b = replay.root[r]
    BY <1>2
  <2>3. c[l] # c[r]
    BY <1>1, <1>4, <2>1, <2>2
  <2> QED
    BY <1>1, <2>1, <2>2, <2>3
<1> QED
  BY <1>3, <1>4 DEF Divided, roots, replay

LEMMA TargetsApart ==
    ASSUME WellFormed(topology), Sound(topology), NEW c, Suits(topology, c),
           Obeys(topology, c), NEW k \in Combinators
    PROVE  LET targets == Direct!TargetsOf(Direct!Collapsed(PlanOf), PlanOf.producers[k])
           IN  /\ Len(targets) \in {1, 2}
               /\ \A i \in 1..Len(targets) : targets[i] \in Survivors
               /\ \A i, j \in 1..Len(targets) : i # j => c[targets[i]] # c[targets[j]]
<1> DEFINE replay == Direct!Collapsed(PlanOf)
           producer == PlanOf.producers[k]
           lanes == topology.combs[k].lanes
           targets == Direct!TargetsOf(replay, producer)
           count == Len(lanes)
<1>1. \A n \in Networks : replay.root[n] \in Survivors /\ c[replay.root[n]] = c[n]
  BY SurvivorsColored DEF Survivors
<1> HIDE DEF replay
<1>2. /\ Len(producer.destinations) = count
      /\ \A i \in 1..count : producer.destinations[i] = lanes[i].network
  BY ProducerParts
<1>3. count \in {1, 2} /\ \A i \in 1..count : lanes[i].network \in Networks
  BY CombinatorTypes DEF Sound, OutputSound, Combinators, HandleOf, Networks
<1>4. targets = [i \in 1..Len(producer.destinations) |-> replay.root[producer.destinations[i]]]
  BY DEF Direct!TargetsOf
<1> HIDE DEF targets, producer
<1>5. targets = [i \in 1..count |-> replay.root[lanes[i].network]]
  <2> HIDE DEF count, lanes
  <2>1. targets = [i \in 1..count |-> replay.root[producer.destinations[i]]]
    BY <1>2, <1>4
  <2> QED
    BY <1>2, <2>1
<1>6. count = 2 => c[lanes[1].network] # c[lanes[2].network]
  <2>1. ASSUME count = 2
        PROVE  c[lanes[1].network] # c[lanes[2].network]
    <3>1. Apart(topology, lanes[1].network, lanes[2].network)
      BY <2>1 DEF Sound, OutputSound, Combinators
    <3>2. lanes[1].network \in 1..Len(topology.own) /\ lanes[2].network \in 1..Len(topology.own)
      BY <1>3, <2>1 DEF Networks
    <3> HIDE DEF lanes
    <3> QED
      BY <3>1, <3>2, SuitsApart
  <2> QED
    BY <2>1
<1> HIDE DEF count
<1>7. Len(targets) = count
  <2>1. targets \in [1..count -> {replay.root[lanes[i].network] : i \in 1..count}]
    BY <1>5
  <2>2. count \in Nat
    BY <1>3
  <2> QED
    BY <2>1, <2>2, FunctionIsSequence
<1>8. \A i \in 1..count : /\ targets[i] \in Survivors
                          /\ c[targets[i]] = c[lanes[i].network]
  BY <1>1, <1>3, <1>5
<1>9. ASSUME NEW i \in 1..count, NEW j \in 1..count, i # j
      PROVE  c[targets[i]] # c[targets[j]]
  <2>1. count = 2 /\ ((i = 1 /\ j = 2) \/ (i = 2 /\ j = 1))
    BY <1>3, <1>9
  <2> QED
    BY <1>6, <1>8, <2>1
<1>10. /\ Len(targets) \in {1, 2}
       /\ \A i \in 1..Len(targets) : targets[i] \in Survivors
       /\ \A i, j \in 1..Len(targets) : i # j => c[targets[i]] # c[targets[j]]
  BY <1>3, <1>7, <1>8, <1>9
<1> QED
  BY <1>10 DEF targets, producer, replay

LEMMA ConnectorsDivided ==
    ASSUME WellFormed(topology), Sound(topology), NEW c, Suits(topology, c),
           Obeys(topology, c),
           NEW networks \in Direct!ConnectorsOf(PlanOf, Direct!Collapsed(PlanOf))
    PROVE  Divided(networks, c)
<1> DEFINE replay == Direct!Collapsed(PlanOf)
           Targets(k) == Direct!TargetsOf(replay, PlanOf.producers[k])
           Inputs(k) == Direct!RootsOf(replay, PlanOf.producers[k].inputs)
<1>1. 1..Len(PlanOf.producers) = Combinators
  BY ProducerParts DEF Combinators
<1>2. \E k \in Combinators :
         \/ networks = Inputs(k)
         \/ networks = {Targets(k)[i] : i \in 1..Len(Targets(k))}
  <2> HIDE DEF replay
  <2>1. networks \in Direct!ConnectorsOf(PlanOf, replay)
    BY DEF replay
  <2> QED
    BY <1>1, <2>1 DEF Direct!ConnectorsOf
<1>3. PICK k \in Combinators : \/ networks = Inputs(k)
                              \/ networks = {Targets(k)[i] : i \in 1..Len(Targets(k))}
  BY <1>2
<1>4. CASE networks = Inputs(k)
  <2>1. PlanOf.producers[k].inputs = topology.combs[k].inputs
    BY ProducerParts
  <2>2. /\ topology.combs[k].inputs \in SUBSET Networks
        /\ Parted(topology, topology.combs[k].inputs, c)
    BY CombinatorTypes DEF Combinator, Combinators, Networks, Obeys
  <2> DEFINE inputs == topology.combs[k].inputs
  <2>3. Divided(Direct!RootsOf(Direct!Collapsed(PlanOf), inputs), c)
    <3>1. inputs \in SUBSET Networks /\ \A l, r \in inputs :
             LogicalRoot(topology, l) # LogicalRoot(topology, r) => c[l] # c[r]
      BY <2>2 DEF Parted
    <3> HIDE DEF inputs
    <3> QED
      BY <3>1, RootsDivided
  <2> QED
    BY <1>4, <2>1, <2>3
<1>5. CASE networks = {Targets(k)[i] : i \in 1..Len(Targets(k))}
  <2> DEFINE targets == Targets(k)
  <2>1. /\ \A i \in 1..Len(targets) : targets[i] \in Survivors
        /\ \A i, j \in 1..Len(targets) : i # j => c[targets[i]] # c[targets[j]]
    BY TargetsApart
  <2>2. networks = {targets[i] : i \in 1..Len(targets)}
    BY <1>5
  <2> HIDE DEF targets, Targets
  <2> QED
    BY <2>1, <2>2 DEF Divided
<1> QED
  BY <1>3, <1>4, <1>5

LEMMA PairRoots ==
    ASSUME WellFormed(topology), Sound(topology), NEW c, Suits(topology, c),
           Obeys(topology, c), PairsApart(topology, pairs), NEW pair \in pairs
    PROVE  LET roots == Direct!RootsOf(Direct!Collapsed(PlanOf), pair)
           IN  Divided(roots, c) /\ Cardinality(roots) = 2
<1> DEFINE replay == Direct!Collapsed(PlanOf)
           roots == Direct!RootsOf(replay, pair)
<1>1. PICK l \in Networks, r \in Networks : pair = {l, r} /\ c[l] # c[r]
  BY DEF PairsApart, Networks
<1>2. Divided(roots, c)
  <2>1. pair \in SUBSET Networks /\ \A a, b \in pair : a # b => c[a] # c[b]
    BY <1>1
  <2>2. \A a, b \in pair : LogicalRoot(topology, a) # LogicalRoot(topology, b) => c[a] # c[b]
    <3>1. ASSUME NEW a \in pair, LogicalRoot(topology, a) # LogicalRoot(topology, a)
          PROVE  FALSE
      BY <3>1
    <3> QED
      BY <2>1, <3>1
  <2>3. Divided(Direct!RootsOf(Direct!Collapsed(PlanOf), pair), c)
    BY <2>1, <2>2, RootsDivided
  <2> QED
    BY <2>3
<1>3. c[replay.root[l]] = c[l] /\ c[replay.root[r]] = c[r]
  BY SurvivorsColored
<1> HIDE DEF replay
<1>4. roots = {replay.root[l], replay.root[r]}
  BY <1>1 DEF Direct!RootsOf
<1>5. replay.root[l] # replay.root[r]
  BY <1>1, <1>3
<1> HIDE DEF roots
<1>6. Cardinality(roots) = 2
  BY <1>4, <1>5, PairSize, Zenon
<1> QED
  BY <1>2, <1>6 DEF roots, replay

LEMMA PlanSolvable ==
    ASSUME WellFormed(topology), Sound(topology), NEW c, Suits(topology, c),
           Obeys(topology, c), PairsApart(topology, pairs)
    PROVE  Direct!Solvable(PlanOf, Direct!Collapsed(PlanOf))
<1> DEFINE replay == Direct!Collapsed(PlanOf)
           survivors == {replay.root[n] : n \in 1..Len(PlanOf.fixed)}
           apart == {Direct!RootsOf(replay, pair) : pair \in PlanOf.pairs}
                        \cup Direct!ConnectorsOf(PlanOf, replay)
           color == [n \in survivors |-> c[n]]
<1>1. \A n \in Networks : replay.root[n] \in Networks /\ c[replay.root[n]] = c[n]
  BY SurvivorsColored
<1>2. /\ 1..Len(PlanOf.fixed) = Networks /\ PlanOf.pairs = pairs
      /\ \A n \in Networks : PlanOf.fixed[n] = topology.own[n].color
  BY PlanParts DEF Networks
<1>3. \A networks \in apart : Divided(networks, c)
  <2>1. \A networks \in Direct!ConnectorsOf(PlanOf, replay) : Divided(networks, c)
    BY ConnectorsDivided
  <2>2. \A pair \in pairs : Divided(Direct!RootsOf(replay, pair), c)
    BY PairRoots
  <2> HIDE DEF replay
  <2> QED
    BY <1>2, <2>1, <2>2
<1>4. survivors = Survivors
  BY <1>2 DEF Survivors
<1> HIDE DEF replay
<1>5. ASSUME NEW n \in Networks
      PROVE  PlanOf.fixed[n] \in {NoColor, color[replay.root[n]]}
  <2>1. PlanOf.fixed[n] \in {NoColor, c[n]}
    BY <1>2 DEF Obeys, Networks
  <2>2. color[replay.root[n]] = c[n]
    BY <1>1, <1>2
  <2> QED
    BY <2>1, <2>2
<1>6. color \in [survivors -> {Direct!Red, Direct!Green}]
  <2>1. \A n \in Networks : c[n] \in {0, 1}
    BY SuitsRange DEF Networks, Sound
  <2> QED
    BY <1>1, <1>2, <2>1 DEF Direct!Red, Direct!Green
<1>7. ASSUME NEW networks \in apart, NEW l \in networks, NEW r \in networks, l # r
      PROVE  color[l] # color[r]
  <2>1. Divided(networks, c)
    BY <1>3
  <2>2. l \in survivors /\ r \in survivors /\ c[l] # c[r]
    BY <1>4, <1>7, <2>1 DEF Divided
  <2> HIDE DEF survivors
  <2> QED
    BY <2>2
<1>8. Direct!NoColor = NoColor
  BY DEF Direct!NoColor, NoColor
<1> HIDE DEF color, survivors, apart
<1>9. /\ \A n \in 1..Len(PlanOf.fixed) :
             PlanOf.fixed[n] \in {Direct!NoColor, color[replay.root[n]]}
      /\ \A networks \in apart : \A l, r \in networks : l # r => color[l] # color[r]
  BY <1>2, <1>5, <1>7, <1>8
<1>10. Direct!Solvable(PlanOf, replay)
  BY <1>6, <1>9 DEF Direct!Solvable, survivors, apart
<1> QED
  BY <1>10 DEF replay

LEMMA SoundPlanReplays ==
    ASSUME WellFormed(topology), Sound(topology), Explained(topology),
           PairsApart(topology, pairs)
    PROVE  Direct!Replay(PlanOf) = "none"
<1> DEFINE replay == Direct!Collapsed(PlanOf)
           producers == {PlanOf.producers[p] : p \in 1..Len(PlanOf.producers)}
<1>1. PICK c : Suits(topology, c)
  BY SomeSuits DEF Sound
<1>2. Obeys(topology, c) /\ PlanOf.pairs = pairs
  BY <1>1, PlanParts DEF Explained
<1>3. \A n \in Networks : replay.root[n] \in Networks /\ c[n] \in {0, 1}
  BY <1>1, <1>2, SurvivorsColored, SuitsRange DEF Networks, Sound
<1>4. replay.failure = "none"
  BY <1>2, SurvivorsColored
<1>5. \A pair \in PlanOf.pairs : ~(Direct!Cardinality(Direct!RootsOf(replay, pair)) # 2)
  BY <1>1, <1>2, PairRoots, SameCardinality
<1>6. \A producer \in producers : Direct!Attachable(replay, producer)
  <2> SUFFICES ASSUME NEW k \in Combinators
               PROVE  Direct!Attachable(replay, PlanOf.producers[k])
    BY ProducerParts DEF Combinators
  <2> DEFINE targets == Direct!TargetsOf(replay, PlanOf.producers[k])
  <2>1. /\ Len(targets) \in {1, 2}
        /\ \A i, j \in 1..Len(targets) : i # j => c[targets[i]] # c[targets[j]]
    BY <1>1, <1>2, TargetsApart
  <2> HIDE DEF replay
  <2> QED
    BY <2>1 DEF Direct!Attachable
<1>7. \A networks \in Direct!ConnectorsOf(PlanOf, replay) : ~(Direct!Cardinality(networks) > 2)
  <2>1. ASSUME NEW networks \in Direct!ConnectorsOf(PlanOf, replay)
        PROVE  ~(Cardinality(networks) > 2)
    <3>1. Divided(networks, c)
      BY <1>1, <1>2, <2>1, ConnectorsDivided
    <3>2. \A n \in Survivors : c[n] \in {0, 1}
      BY <1>3 DEF Survivors
    <3>3. \A n \in networks : c[n] \in {0, 1}
      BY <3>1, <3>2 DEF Divided
    <3> QED
      BY <3>1, <3>3, DividedIsSmall
  <2> HIDE DEF replay
  <2> QED
    BY <2>1, SameCardinality
<1>8. Direct!Solvable(PlanOf, replay)
  BY <1>1, <1>2, PlanSolvable
<1> HIDE DEF replay
<1> QED
  BY <1>4, <1>5, <1>6, <1>7, <1>8 DEF Direct!Replay, replay

LEMMA GroundedPlanReplays == Grounded => PlanReplays
<1> SUFFICES ASSUME Grounded, forgotten \cap {"pairs", "colors"} = {}
             PROVE  Direct!Replay(PlanOf) = "none"
  BY DEF PlanReplays
<1>1. Explained(topology) /\ PairsApart(topology, pairs)
  BY DEF Grounded, Remembers
<1> QED
  BY <1>1, GroundedHas, SoundPlanReplays

(* A plan that was recorded replays: whatever the order of its transfers,   *)
(* pairs and combinators, and of what was refused and undone among them,    *)
(* the recorder accepts nothing that the replay rejects, if no rollback has *)
(* left a pair behind or made the colours forget                            *)
(* (packages/runtime/src/direct-plan.ts and elaboration.ts).                *)
THEOREM PlanAlwaysReplays == Spec => []PlanReplays
BY AlwaysGrounded, GroundedPlanReplays, PTL

-----------------------------------------------------------------------------
(* What is left of the types: handles and borrows name what there is, and   *)
(* so does a frame, in the snapshot too if it was there before.             *)
Exact(h, log) == h.generation \in Nat /\ h.borrow \in 0..Len(log)

NamesWithin(stack, k, size) ==
    \A i \in 1..k : stack[i].moves \cup stack[i].references \subseteq 1..size

Counters ==
    /\ dslCalls \in 0..DslCallBudget + 1
    /\ caught \in BOOLEAN
    /\ forgotten \subseteq {"colors", "pairs", "moves", "reads"}
    /\ status \in {"active", "failed", "sealed"}

Recorded ==
    /\ \A h \in handles : Exact(h, borrows)
    /\ \A b \in 1..Len(borrows) : borrows[b].network > 0
    /\ \A pair \in pairs : \E l, r \in Nat \ {0} : l # r /\ pair = {l, r}
    /\ NamesWithin(frames, Len(frames), Len(topology.own))
    /\ factory.phase # "none" =>
          NamesWithin(frames, factory.depth, Len(factory.saved.own))
    /\ called <= MaxCalls /\ Len(frames) <= called
    /\ Counters

(* What a step does to handles and frames, if it makes no frame.            *)
Tidy ==
    /\ Counters'
    /\ \A h \in handles' \ handles : Exact(h, borrows')
    /\ \A i \in 1..Len(frames) :
          /\ frames'[i].moves \subseteq frames[i].moves \cup 1..Len(topology'.own)
          /\ frames'[i].references \subseteq frames[i].references \cup 1..Len(topology'.own)

Charged == dslCalls' \in 0..DslCallBudget + 1

LEMMA CallsCharged ==
    ASSUME Counters, Counted \/ Uncounted
    PROVE  Charged
<1>1. DslCallBudget \in Nat
  BY BoundsAssumption DEF BoundsAssumption
<1> QED
  BY <1>1 DEF Counters, Counted, Uncounted, Charged

LEMMA StepCounters ==
    ASSUME Counters, Charged, NEW result,
           \/ \E given : Accept(result, given)
           \/ Poison(result) \/ RollBack(result)
    PROVE  Counters'
BY DEF Counters, Charged, Accept, Poison, RollBack, ForgottenBy

(* A call that is refused, or gives no handle.                              *)
LEMMA NothingGiven ==
    ASSUME Counters, Charged, NEW result,
           Accept(result, {}) \/ Poison(result) \/ RollBack(result), frames' = frames
    PROVE  Tidy
<1>1. Counters'
  BY StepCounters
<1>2. handles' \subseteq handles
  BY DEF Accept, Poison, RollBack
<1> QED
  BY <1>1, <1>2 DEF Tidy

LEMMA RefusedTidy ==
    ASSUME Counters, Charged, NEW result, Poison(result) \/ RollBack(result)
    PROVE  Tidy
BY NothingGiven DEF Poison, RollBack

(* Handles of what there is now: of a new network, ...                      *)
LEMMA FreshExact ==
    ASSUME Grounded', NEW n, NEW capability, NEW borrow \in 0..Len(borrows'),
           Handle(topology', n, capability, borrow) \in handles'
    PROVE  Exact(Handle(topology', n, capability, borrow), borrows')
<1> DEFINE h == Handle(topology', n, capability, borrow)
<1>1. h.network = n /\ h.generation = topology'.own[n].generation /\ h.borrow = borrow
  BY DEF Handle
<1>2. handles' \subseteq HandleOf(Len(topology'.own)) /\ Sound(topology')
  BY DEF Grounded, Inv, Typed
<1> HIDE DEF h
<1>3. n \in 1..Len(topology'.own)
  BY <1>1, <1>2 DEF HandleOf, h
<1>4. OwnExact(topology'.own[n])
  BY <1>2, <1>3 DEF Sound
<1> QED
  BY <1>1, <1>4 DEF Exact, OwnExact, h

(* ... and those that the program has, or can take of a combinator.         *)
LEMMA LanesExact ==
    ASSUME NEW t, Sound(t), NEW c \in 1..Len(t.combs), NEW i \in 1..Len(t.combs[c].lanes)
    PROVE  LaneExact(t.combs[c].lanes[i])
BY DEF Sound, OutputSound

LEMMA LaneIsExact ==
    ASSUME NEW h, LaneExact(h), NEW log, Len(log) \in Nat
    PROVE  Exact(h, log)
BY DEF LaneExact, Exact, NoBorrow

LEMMA UsableExact ==
    ASSUME Grounded, Recorded, NEW h \in Usable
    PROVE  Exact(h, borrows) /\ h.network \in 1..Len(topology.own)
<1>1. /\ Len(borrows) \in Nat /\ Sound(topology) /\ WellFormed(topology)
      /\ handles \subseteq HandleOf(Len(topology.own))
  BY FrameTypes, GroundedHas DEF Typed
<1>2. CASE h \in handles
  BY <1>1, <1>2 DEF Recorded, HandleOf
<1>3. ASSUME NEW c \in 1..Len(topology.combs), h = topology.combs[c].lanes[1]
      PROVE  Exact(h, borrows) /\ h.network \in 1..Len(topology.own)
  <2>1. 1 \in 1..Len(topology.combs[c].lanes) /\ h \in HandleOf(Len(topology.own))
    BY <1>1, <1>3, CombinatorTypes
  <2> QED
    BY <1>1, <1>3, <2>1, LanesExact, LaneIsExact DEF HandleOf
<1> QED
  BY <1>2, <1>3 DEF Usable

(* The calls that give handles or note something in the innermost frame.    *)
LEMMA FramesTidy ==
    ASSUME Typed, Counters', \A h \in handles' \ handles : Exact(h, borrows'),
           NEW noted, noted \subseteq 1..Len(topology'.own),
           \/ frames' = frames
           \/ frames' = [frames EXCEPT ![Len(frames)].moves = @ \cup noted]
           \/ \E gone : frames' = [frames EXCEPT ![Len(frames)].moves = @ \ gone]
    PROVE  Tidy
<1>1. /\ frames \in [1..Len(frames) -> FrameRecord]
      /\ \A i \in 1..Len(frames) :
            frames[i] = [owner |-> frames[i].owner, borrows |-> frames[i].borrows,
                         moves |-> frames[i].moves, references |-> frames[i].references]
  BY FrameTypes DEF FrameRecord
<1>2. \A i \in 1..Len(frames) :
          /\ frames'[i].moves \subseteq frames[i].moves \cup noted
          /\ frames'[i].references \subseteq frames[i].references
  BY <1>1
<1> QED
  BY <1>2 DEF Tidy

LEMMA MoveFromTidy ==
    ASSUME Grounded, Grounded', Recorded, Charged, NEW t, NEW h, NEW color,
           MoveFrom(t, h, color)
    PROVE  Tidy
<1> DEFINE n == h.network
           result == Moved(t, h, RequireColor(t, n, color))
<1>1. CASE RollBack(result)
  BY <1>1, RefusedTidy DEF Recorded
<1>2. CASE /\ Accept(result, {Handle(result.t, n, "move", NoBorrow)})
           /\ frames' = [frames EXCEPT ![Len(frames)].moves = @ \cup {n}]
  <2> HIDE DEF result, n
  <2>1. /\ topology' = result.t
        /\ handles' = handles \cup {Handle(topology', n, "move", NoBorrow)}
    BY <1>2 DEF Accept
  <2>2. Len(borrows') \in Nat /\ handles' \subseteq HandleOf(Len(topology'.own))
    BY LenProperties DEF Grounded, Inv, Typed
  <2>3. n \in 1..Len(topology'.own)
    BY <2>1, <2>2 DEF HandleOf, Handle
  <2>4. Exact(Handle(topology', n, "move", NoBorrow), borrows')
    BY <2>1, <2>2, FreshExact DEF NoBorrow
  <2>5. Counters'
    BY <1>2, StepCounters DEF Recorded
  <2>6. Typed /\ {n} \subseteq 1..Len(topology'.own)
    BY <2>3, GroundedHas
  <2> QED
    BY <1>2, <2>1, <2>4, <2>5, <2>6, FramesTidy
<1> QED
  BY <1>1, <1>2 DEF MoveFrom, MoveIn

LEMMA ImplicitTidy ==
    ASSUME Grounded, Grounded', Recorded, Charged, NEW h \in Usable,
           NEW color \in Requirements, ImplicitNetworkParameter(h, color)
    PROVE  Tidy
<1> DEFINE n == h.network
           result == RequireColor(topology, n, color)
<1>1. CASE Poison(result)
  BY <1>1, RefusedTidy DEF Recorded
<1>2. CASE /\ Accept(result, {})
           /\ frames' = [frames EXCEPT ![Len(frames)].references =
                  IF topology.own[n].owner = Owner(frames) THEN @ ELSE @ \cup {n}]
  <2> HIDE DEF result, n
  <2>1. Counters' /\ handles' = handles
    BY <1>2, StepCounters DEF Recorded, Accept
  <2>2. Len(topology.own) <= Len(topology'.own)
    BY GroundedHas, ImplicitNetworkParameterStep DEF Quietly, Grows, Larger, OwnGrows
  <2>3. n \in 1..Len(topology.own) /\ Len(topology.own) \in Nat /\ Len(topology'.own) \in Nat
    BY UsableExact, GroundedHas, OwnTypes DEF n, Grounded, Inv, Typed
  <2>4. Typed /\ {n} \subseteq 1..Len(topology'.own)
    BY <2>2, <2>3, GroundedHas
  <2>5. \A i \in 1..Len(frames) :
            /\ frames'[i].moves = frames[i].moves
            /\ frames'[i].references \subseteq frames[i].references \cup {n}
    BY <1>2, <2>4, FrameTypes DEF FrameRecord
  <2> QED
    BY <2>1, <2>4, <2>5 DEF Tidy
<1>3. Referred(result, n)
  BY DEF ImplicitNetworkParameter
<1> HIDE DEF result, n
<1> QED
  BY <1>1, <1>2, <1>3 DEF Referred

(* The same, when what is given is exact.                                   *)
LEMMA GivingTidy ==
    ASSUME Grounded, Recorded, Charged, NEW result, NEW given, Accept(result, given),
           \A h \in given : Exact(h, borrows'), frames' = frames
    PROVE  Tidy
<1>1. Counters' /\ handles' = handles \cup given
  BY StepCounters DEF Recorded, Accept
<1> QED
  BY <1>1 DEF Tidy

LEMMA JoinedTidy ==
    ASSUME Grounded, Grounded', Recorded, Charged, NEW result, Joined(result)
    PROVE  Tidy
<1>1. CASE RollBack(result)
  BY <1>1, RefusedTidy DEF Recorded
<1>2. CASE Accept(result, {Newest(result.t)}) /\ Idle
  <2>1. /\ Handle(topology', Len(topology'.own), "owned", NoBorrow) \in handles'
        /\ Newest(result.t) = Handle(topology', Len(topology'.own), "owned", NoBorrow)
        /\ frames' = frames
    BY <1>2 DEF Accept, Newest, Idle
  <2>2. Len(borrows') \in Nat
    BY LenProperties DEF Grounded, Inv, Typed
  <2>3. Exact(Newest(result.t), borrows')
    BY <2>1, <2>2, FreshExact DEF NoBorrow
  <2> QED
    BY <1>2, <2>1, <2>3, GivingTidy
<1> QED
  BY <1>1, <1>2 DEF Joined

LEMMA NetworkTidy ==
    ASSUME Grounded, Grounded', Recorded, NEW color, Network(color)
    PROVE  Tidy
<1> DEFINE result == [ok |-> TRUE, t |-> NewNetwork(topology, Owner(frames), color)]
<1>1. Accept(result, {Newest(result.t)}) /\ Idle
  BY DEF Network, Declared
<1>2. Charged
  BY CallsCharged DEF Network, Recorded
<1> HIDE DEF result
<1> QED
  BY <1>1, <1>2, JoinedTidy DEF Joined

LEMMA ReturnNetworkTidy ==
    ASSUME Grounded, Grounded', Recorded, NEW h \in Usable, NEW capability,
           NEW color, ReturnNetwork(h, capability, color)
    PROVE  Tidy
<1> DEFINE colored == RequireColor(topology, h.network, color)
<1>1. Charged
  BY CallsCharged DEF ReturnNetwork, Recorded
<1>2. Exact(h, borrows) /\ Len(borrows) \in Nat
  BY UsableExact, GroundedHas, FrameTypes
<1>3. Passed(colored, h, capability) \/ ReturnOwned(colored, h, capability)
  BY DEF ReturnNetwork
<1> HIDE DEF colored
<1>4. CASE Poison(Refused(topology))
  BY <1>1, <1>4, RefusedTidy DEF Recorded
<1>5. ASSUME NEW g, g.generation = h.generation, g.borrow \in {h.borrow, NoBorrow},
             Accept(colored, {g}) /\ Idle
      PROVE  Tidy
  <2>1. Exact(g, borrows') /\ frames' = frames
    BY <1>2, <1>5 DEF Idle, Exact, NoBorrow
  <2> QED
    BY <1>1, <1>5, <2>1, GivingTidy
<1>6. ASSUME NEW t, ReturnedTo(t, h, capability)
      PROVE  Tidy
  <2> DEFINE result == [ok |-> TRUE, t |-> t]
             g == Handle(result.t, h.network, capability, h.borrow)
  <2>1. /\ Accept(result, {g}) /\ borrows' = borrows
        /\ frames' = [frames EXCEPT ![Len(frames)].moves = @ \ {h.network}]
    BY <1>6 DEF ReturnedTo
  <2> HIDE DEF result
  <2>2. topology' = result.t /\ handles' = handles \cup {g} /\ Counters'
    BY <1>1, <2>1, StepCounters DEF Accept, Recorded
  <2>3. Exact(g, borrows')
    BY <1>2, <2>1, <2>2, FreshExact DEF Exact
  <2>4. Typed /\ {} \subseteq 1..Len(topology'.own)
    BY GroundedHas
  <2> QED
    BY <2>1, <2>2, <2>3, <2>4, FramesTidy
<1>7. CASE Passed(colored, h, capability)
  <2> DEFINE g == IF h.capability = "readonly" THEN Alias(h)
                  ELSE IF capability = "readonly" THEN [h EXCEPT !.capability = capability]
                  ELSE h
  <2>1. Poison(Refused(topology)) \/ (Accept(colored, {g}) /\ Idle)
    BY <1>7 DEF Passed
  <2>2. h \in [network : Int, capability : {"owned", "move", "readonly", "ref"},
               generation : Int, borrow : Int]
    BY GroundedHas, UsableTypes DEF HandleOf
  <2>3. g.generation = h.generation /\ g.borrow \in {h.borrow, NoBorrow}
    BY <2>2 DEF Alias
  <2> HIDE DEF g
  <2> QED
    BY <1>4, <1>5, <2>1, <2>3
<1>8. CASE ReturnOwned(colored, h, capability)
  BY <1>4, <1>6, <1>8 DEF ReturnOwned
<1> QED
  BY <1>3, <1>7, <1>8

LEMMA LeaveTidy ==
    ASSUME Grounded, Recorded, Charged, NEW result, NEW networks, NEW given,
           Leave(result, networks, given), \A h \in given : Exact(h, borrows)
    PROVE  Tidy
<1>1. CASE Poison(result)
  BY <1>1, RefusedTidy DEF Recorded
<1>2. CASE /\ Accept(result, given) /\ borrows' = borrows
           /\ frames' = IF networks = {} THEN frames
                        ELSE [frames EXCEPT ![Len(frames)].moves = @ \ networks]
  <2>1. Counters' /\ handles' = handles \cup given
    BY <1>2, StepCounters DEF Recorded, Accept
  <2>2. Typed /\ {} \subseteq 1..Len(topology'.own)
    BY GroundedHas
  <2>3. \A h \in handles' \ handles : Exact(h, borrows')
    BY <1>2, <2>1
  <2>4. \/ frames' = frames
        \/ frames' = [frames EXCEPT ![Len(frames)].moves = @ \ networks]
    BY <1>2
  <2> QED
    BY <2>1, <2>2, <2>3, <2>4, FramesTidy
<1> QED
  BY <1>1, <1>2 DEF Leave

LEMMA ReturnWithTidy ==
    ASSUME Grounded, Recorded, NEW given, NEW lanes, ReturnWith(given, lanes),
           \A h \in given \cup lanes : /\ h \in HandleOf(Len(topology.own))
                                       /\ Exact(h, borrows)
    PROVE  Tidy
<1> DEFINE moving == Moving(given, lanes)
           networks == {h.network : h \in moving}
           charged == dslCalls + Cardinality(networks)
           result == [ok |-> ValueReturns(given, lanes, moving) /\ charged <= DslCallBudget,
                      t |-> ReturnAll(networks, lanes, TRUE)]
           returned == {[h EXCEPT !.capability = "owned", !.generation = @ + 1] : h \in moving}
<1>1. /\ Leave(result, networks, returned)
      /\ dslCalls' = IF charged > DslCallBudget THEN DslCallBudget + 1 ELSE charged
  BY DEF ReturnWith, ReturnFrom, ReturnMoving
<1>2. \A h \in moving : h \in HandleOf(Len(topology.own)) /\ Exact(h, borrows)
  BY DEF Moving
<1> HIDE DEF moving, result
<1>3. \A h \in returned : Exact(h, borrows)
  <2>1. ASSUME NEW h \in moving
        PROVE  Exact([h EXCEPT !.capability = "owned", !.generation = @ + 1], borrows)
    <3>1. h \in [network : Int, capability : {"owned", "move", "readonly", "ref"},
                 generation : Int, borrow : Int] /\ Exact(h, borrows)
      BY <1>2, <2>1 DEF HandleOf
    <3> QED
      BY <3>1 DEF Exact
  <2> QED
    BY <2>1
<1>4. Charged
  <2>1. networks \subseteq 1..Len(topology.own) /\ Len(topology.own) \in Nat
    BY <1>2, GroundedHas, OwnTypes DEF HandleOf
  <2>2. IsFiniteSet(1..Len(topology.own))
    BY <2>1, FS_Interval
  <2> HIDE DEF networks
  <2>3. Cardinality(networks) \in Nat
    BY <2>1, <2>2, FS_Subset, FS_CardinalityType
  <2>4. DslCallBudget \in Nat /\ dslCalls \in Nat
    BY BoundsAssumption DEF BoundsAssumption, Recorded, Counters
  <2>5. charged \in Nat
    BY <2>3, <2>4
  <2> HIDE DEF charged
  <2>6. \A k, b \in Nat : (IF k > b THEN b + 1 ELSE k) \in 0..b + 1
    OBVIOUS
  <2>7. dslCalls' = IF charged > DslCallBudget THEN DslCallBudget + 1 ELSE charged
    BY <1>1
  <2> QED
    BY <2>4, <2>5, <2>6, <2>7 DEF Charged
<1> HIDE DEF returned, networks
<1> QED
  BY <1>1, <1>3, <1>4, LeaveTidy

LEMMA OwnedLanesExact ==
    ASSUME Grounded, NEW c \in Combinators, NEW h \in OwnedLanes(c)
    PROVE  h \in HandleOf(Len(topology.own)) /\ Exact(h, borrows)
<1>1. /\ h \in HandleOf(Len(topology.own)) /\ Len(borrows) \in Nat /\ Sound(topology)
      /\ c \in 1..Len(topology.combs)
  BY OwnedLanesTypes, GroundedHas, FrameTypes DEF Combinators
<1>2. PICK i \in 1..Len(topology.combs[c].lanes) : h = topology.combs[c].lanes[i]
  BY DEF OwnedLanes
<1> QED
  BY <1>1, <1>2, LanesExact, LaneIsExact

LEMMA ReturnValueTidy ==
    ASSUME Grounded, Recorded, NEW given \in SUBSET Usable,
           NEW combinators \in SUBSET Combinators, ReturnValue(given, combinators)
    PROVE  Tidy
<1> DEFINE lanes == UNION {OwnedLanes(c) : c \in combinators}
<1>1. \A h \in given : h \in HandleOf(Len(topology.own)) /\ Exact(h, borrows)
  BY GroundedHas, UsableTypes, UsableExact
<1>2. \A h \in lanes : h \in HandleOf(Len(topology.own)) /\ Exact(h, borrows)
  BY OwnedLanesExact
<1>3. ReturnWith(given, lanes)
  BY DEF ReturnValue
<1> HIDE DEF lanes
<1> QED
  BY <1>1, <1>2, <1>3, ReturnWithTidy

LEMMA ReturnCombinatorTidy ==
    ASSUME Grounded, Recorded, NEW c \in Combinators, ReturnCombinator(c)
    PROVE  Tidy
<1>1. Charged
  BY CallsCharged DEF ReturnCombinator, Recorded
<1>2. \E result, networks : Leave(result, networks, {})
  BY DEF ReturnCombinator, ReturnLanes
<1> QED
  BY <1>1, <1>2, LeaveTidy

LEMMA DestructureTidy ==
    ASSUME Grounded, Grounded', Recorded, NEW c \in Combinators, Destructure(c)
    PROVE  Tidy
<1> DEFINE t == IF Len(topology.combs[c].lanes) = 2 THEN topology
                ELSE WithSecondary(topology, c)
           result == [ok |-> TRUE, t |-> t]
           lanes == t.combs[c].lanes
<1>1. Charged
  BY CallsCharged DEF Destructure, Recorded
<1>2. Accept(result, {lanes[1], lanes[2]}) /\ Idle
  BY DEF Destructure, BothLanes
<1>3. Sound(t) /\ c \in 1..Len(t.combs) /\ Len(lanes) # 1
  <2>1. /\ c \in 1..Len(topology.combs) /\ WellFormed(topology) /\ OwnersKnown
        /\ Len(topology.combs[c].lanes) \in Nat \ {0}
    BY GroundedHas, CombinatorTypes DEF Combinators
  <2>2. topology' = t /\ Sound(topology')
    BY <1>2 DEF Accept, Grounded
  <2>3. CASE Len(topology.combs[c].lanes) = 2
    <3>1. t = topology
      BY <2>3
    <3> HIDE DEF t
    <3> QED
      BY <2>1, <2>2, <2>3, <3>1
  <2>4. CASE Len(topology.combs[c].lanes) # 2
    <3>1. t = WithSecondary(topology, c)
      BY <2>4
    <3> HIDE DEF t
    <3>2. /\ Len(t.combs) = Len(topology.combs)
          /\ Len(lanes) = Len(topology.combs[c].lanes) + 1
      BY <2>1, <3>1, WithSecondaryGrows
    <3>3. \A k \in Nat \ {0} : k + 1 # 1
      OBVIOUS
    <3> QED
      BY <2>1, <2>2, <3>2, <3>3
  <2> QED
    BY <2>3, <2>4
<1> HIDE DEF t
<1>4. Len(lanes) = 2 /\ \A i \in 1..2 : LaneExact(lanes[i])
  BY <1>3 DEF Sound, OutputSound
<1>5. Len(borrows') \in Nat /\ frames' = frames
  BY <1>2, LenProperties DEF Idle, Grounded, Inv, Typed
<1>6. \A h \in {lanes[1], lanes[2]} : Exact(h, borrows')
  BY <1>4, <1>5, LaneIsExact
<1> HIDE DEF lanes, result
<1> QED
  BY <1>1, <1>2, <1>5, <1>6, GivingTidy

(* Every step that neither makes nor ends a frame, borrow or transaction.   *)
LEMMA StepsTidy ==
    ASSUME Grounded, Grounded', Recorded, Next
    PROVE  \/ Tidy
           \/ \E default \in BOOLEAN : EnterFunction(default)
           \/ \E h \in Usable, color \in Requirements, capability \in {"readonly", "ref"} :
                 BorrowParameter(h, capability, color)
           \/ ExitInstance \/ Instantiate \/ FactoryReturns \/ FactoryThrows
<1> DEFINE Special ==
               \/ \E default \in BOOLEAN : EnterFunction(default)
               \/ \E h \in Usable, color \in Requirements, capability \in {"readonly", "ref"} :
                     BorrowParameter(h, capability, color)
               \/ ExitInstance \/ Instantiate \/ FactoryReturns \/ FactoryThrows
<1> SUFFICES Tidy \/ Special
  OBVIOUS
<1>1. /\ \A l, r \in Usable : {l, r} \in SUBSET Usable
      /\ \A c \in Combinators : {c} \in SUBSET Combinators
      /\ \A h \in Usable : {h} \in SUBSET Usable
      /\ {} \in SUBSET Combinators /\ {} \in SUBSET Usable
  OBVIOUS
<1>2. Counters /\ (Counted \/ Uncounted => Charged)
  BY CallsCharged DEF Recorded
<1>3. ASSUME NEW result, Charged, AcceptOrPoison(result) \/ AcceptOrRollBack(result)
      PROVE  Tidy
  <2>1. Poison(result) \/ RollBack(result) \/ (Accept(result, {}) /\ Idle)
    BY <1>3 DEF AcceptOrPoison, AcceptOrRollBack
  <2>2. CASE Accept(result, {}) /\ Idle
    BY <1>2, <1>3, <2>2, NothingGiven DEF Idle
  <2> QED
    BY <1>2, <1>3, <2>1, <2>2, RefusedTidy
<1>4. CASE \/ \E color \in Requirements : Network(color)
           \/ \E h \in Usable, color \in Requirements \ {NoColor} : Bind(h, color)
  BY <1>2, <1>3, <1>4, NetworkTidy DEF Bind
<1>5. CASE \E h \in Usable, color \in Requirements :
               \/ MoveParameter(h, color) \/ ImplicitNetworkParameter(h, color)
               \/ \E capability \in {"owned", "readonly"} : ReturnNetwork(h, capability, color)
  BY <1>2, <1>5, MoveFromTidy, ImplicitTidy, ReturnNetworkTidy
     DEF MoveParameter, ImplicitNetworkParameter
<1>6. CASE \E c \in Combinators, color \in Requirements : MoveCombinatorParameter(c, color)
  BY <1>2, <1>6, MoveFromTidy, RefusedTidy DEF MoveCombinatorParameter, MoveTaken
<1>7. CASE \/ \E c \in Combinators :
                 ReturnValue({}, {c}) \/ ReturnCombinator(c) \/ Destructure(c)
           \/ \E h \in Usable, c \in Combinators : ReturnValue({h}, {c})
  BY <1>1, <1>7, ReturnValueTidy, ReturnCombinatorTidy, DestructureTidy
<1>8. CASE \E given \in OneOrTwo : ReturnValue(given, {}) \/ Compare(given)
  <2>1. OneOrTwo \subseteq SUBSET Usable
    BY <1>1 DEF OneOrTwo
  <2>2. ASSUME NEW given \in OneOrTwo, Compare(given)
        PROVE  Tidy
    BY <1>2, <2>2, NothingGiven DEF Compare, Poison
  <2> QED
    BY <1>1, <1>8, <2>1, <2>2, ReturnValueTidy
<1>9. CASE \E l, r \in Usable : Take(l, r) \/ Pair(l, r)
  BY <1>2, <1>3, <1>9, NothingGiven, RefusedTidy DEF Take, Pair, Paired
<1>10. CASE \/ \E hs \in One \cup Two : Join(hs)
            \/ \E c \in Combinators, hs \in {<<>>} \cup One : JoinCombinator(c, hs)
  BY <1>2, <1>10, JoinedTidy DEF Join, JoinCombinator
<1>11. CASE \/ \E left, right \in conditions : Decider(left \cup right)
            \/ \E c \in Combinators, hs \in One \cup Two : AttachMany(c, hs)
  BY <1>2, <1>3, <1>11 DEF Decider, AttachMany, Connected
<1>12. CASE Plan
  BY <1>2, <1>12 DEF Plan, Tidy, Counters, Charged
<1>13. CASE OverBudget
  <2>1. DslCallBudget \in Nat
    BY BoundsAssumption DEF BoundsAssumption
  <2>2. Charged
    BY <1>13, <2>1 DEF OverBudget, Charged
  <2> QED
    BY <1>2, <1>13, <2>2, RefusedTidy DEF OverBudget
<1>14. CASE Special
  BY <1>14
<1> HIDE DEF Special
<1> QED
  BY <1>4, <1>5, <1>6, <1>7, <1>8, <1>9, <1>10, <1>11, <1>12, <1>13, <1>14 DEF Next, Special

-----------------------------------------------------------------------------
(* Each step leaves what is recorded in its bounds.                         *)
LEMMA PairsRecorded ==
    ASSUME Grounded, Grounded', Recorded, Next
    PROVE  \A pair \in pairs' : \E l, r \in Nat \ {0} : l # r /\ pair = {l, r}
<1>1. CASE pairs' = pairs
  BY <1>1 DEF Recorded
<1>2. ASSUME NEW l \in 1..Len(topology'.own), NEW r \in 1..Len(topology'.own),
             pairs' = pairs \cup {{l, r}}, \A c : Suits(topology', c) => c[l] # c[r]
      PROVE  \A pair \in pairs' : \E i, j \in Nat \ {0} : i # j /\ pair = {i, j}
  <2>1. ColorsFit(topology') /\ Len(topology'.own) \in Nat
    BY LenProperties DEF Grounded, Sound, Inv, Typed, WellFormed
  <2>2. PICK c : Suits(topology', c)
    BY <2>1, SomeSuits
  <2>3. l # r /\ l \in Nat \ {0} /\ r \in Nat \ {0}
    BY <1>2, <2>1, <2>2
  <2> QED
    BY <1>2, <2>3 DEF Recorded
<1> QED
  BY <1>1, <1>2, OnlyPairPairs, PairedApart

LEMMA QuietRecorded ==
    ASSUME Grounded, Grounded', Recorded, Next, Quietly, Tidy
    PROVE  Recorded'
<1>1. /\ Len(topology.own) \in Nat /\ Len(topology'.own) \in Nat /\ Len(frames) \in Nat
      /\ Len(topology.own) <= Len(topology'.own) /\ Len(frames') = Len(frames)
  <2>1. WellFormed(topology) /\ WellFormed(topology') /\ Typed
    BY DEF Grounded, Inv, Typed
  <2> QED
    BY <2>1, OwnTypes, FrameTypes DEF Quietly, Grows, Larger, OwnGrows, Notes
<1>2. NamesWithin(frames', Len(frames'), Len(topology'.own))
  BY <1>1 DEF Tidy, Recorded, NamesWithin
<1>3. factory'.phase # "none" =>
          NamesWithin(frames', factory'.depth, Len(factory'.saved.own))
  <2> SUFFICES ASSUME factory.phase # "none"
               PROVE  NamesWithin(frames', factory.depth, Len(factory.saved.own))
    BY DEF Quietly
  <2>1. /\ factory.depth \in Nat /\ factory.depth <= Len(frames)
        /\ Running => factory.depth < Len(frames)
    BY DEF Grounded, Inv, FactoryInStep, Running
  <2>2. \A i \in 1..factory.depth : frames'[i] = frames[i]
    BY <1>1, <2>1 DEF Quietly, Notes
  <2> QED
    BY <2>2 DEF Recorded, NamesWithin
<1>4. \A h \in handles' : Exact(h, borrows')
  BY DEF Tidy, Recorded, Quietly
<1> QED
  BY <1>1, <1>2, <1>3, <1>4, PairsRecorded DEF Recorded, Quietly, Tidy

LEMMA EnterFunctionRecorded ==
    ASSUME Grounded, Grounded', Recorded, Next,
           NEW default \in BOOLEAN, EnterFunction(default)
    PROVE  Recorded'
<1> DEFINE frame == [owner |-> called + 1, borrows |-> {}, moves |-> {}, references |-> {}]
           size == Len(frames)
<1>1. /\ called' = called + 1 /\ called < MaxCalls /\ frames' = Append(frames, frame)
      /\ factory' = IF factory.phase = "begun" THEN [factory EXCEPT !.phase = "running"]
                    ELSE factory
      /\ UNCHANGED <<borrows, dslCalls, caught, forgotten, status>>
  BY DEF EnterFunction
<1>2. /\ Len(topology.own) \in Nat /\ Len(topology'.own) \in Nat /\ size \in Nat
      /\ Len(topology.own) <= Len(topology'.own) /\ frames \in Seq(FrameRecord)
      /\ called \in Nat
  <2>1. WellFormed(topology) /\ WellFormed(topology') /\ Typed
    BY DEF Grounded, Inv, Typed
  <2> QED
    BY <2>1, GroundedHas, OwnTypes, FrameTypes, EnterFunctionStep DEF Leads, Typed
<1>3. /\ Len(frames') = size + 1 /\ frames'[size + 1] = frame
      /\ \A i \in 1..size : frames'[i] = frames[i]
  <2>1. frame \in FrameRecord
    BY <1>2 DEF FrameRecord
  <2> HIDE DEF frame
  <2> QED
    BY <1>1, <1>2, <2>1, AppendProperties
<1>4. frame.moves \cup frame.references = {}
  OBVIOUS
<1> HIDE DEF frame, size
<1>5. NamesWithin(frames', Len(frames'), Len(topology'.own))
  <2> SUFFICES ASSUME NEW i \in 1..size + 1
               PROVE  frames'[i].moves \cup frames'[i].references \subseteq 1..Len(topology'.own)
    BY <1>3 DEF NamesWithin
  <2>1. CASE i = size + 1
    BY <1>3, <1>4, <2>1
  <2>2. CASE i # size + 1
    <3>1. i \in 1..size
      BY <1>2, <2>2
    <3> QED
      BY <1>2, <1>3, <3>1 DEF Recorded, NamesWithin, size
  <2> QED
    BY <2>1, <2>2
<1>6. factory'.phase # "none" =>
          NamesWithin(frames', factory'.depth, Len(factory'.saved.own))
  <2> SUFFICES ASSUME factory'.phase # "none"
               PROVE  NamesWithin(frames', factory'.depth, Len(factory'.saved.own))
    OBVIOUS
  <2>1. factory.phase # "none"
    BY <1>1
  <2>2. /\ factory = [phase |-> factory.phase, depth |-> factory.depth,
                      saved |-> factory.saved, pairs |-> factory.pairs]
        /\ factory.depth \in Nat /\ factory.depth <= size
    BY <2>1 DEF Grounded, Inv, FactoryInStep, size
  <2>3. factory'.depth = factory.depth /\ factory'.saved = factory.saved
    BY <1>1, <2>2
  <2>4. \A i \in 1..factory.depth : frames'[i] = frames[i]
    BY <1>2, <1>3, <2>2
  <2> QED
    BY <2>1, <2>3, <2>4 DEF Recorded, NamesWithin
<1>7. \A h \in handles' : Exact(h, borrows')
  <2> SUFFICES ASSUME NEW h \in handles', h \notin handles
               PROVE  Exact(h, borrows')
    BY <1>1 DEF Recorded
  <2>1. handles' = handles \cup {Newest(topology')}
    BY DEF EnterFunction, Entered
  <2>2. h = Handle(topology', Len(topology'.own), "owned", NoBorrow)
    BY <2>1 DEF Newest
  <2>3. Len(borrows') \in Nat
    BY LenProperties DEF Grounded, Inv, Typed
  <2> QED
    BY <2>2, <2>3, FreshExact DEF NoBorrow
<1>8. called' <= MaxCalls /\ Len(frames') <= called' /\ Counters'
  <2>1. MaxCalls \in Nat
    BY BoundsAssumption DEF BoundsAssumption
  <2> QED
    BY <1>1, <1>2, <1>3, <2>1 DEF Recorded, Counters, size
<1> QED
  BY <1>1, <1>5, <1>6, <1>7, <1>8, PairsRecorded DEF Recorded

(* A borrow is of a network that the program has a handle of.               *)
LEMMA BorrowParameterRecorded ==
    ASSUME Grounded, Grounded', Recorded, Next,
           NEW h \in Usable, NEW capability \in {"readonly", "ref"},
           NEW color \in Requirements, BorrowParameter(h, capability, color)
    PROVE  Recorded'
<1> DEFINE id == Len(borrows) + 1
           n == h.network
           result == Lend(RequireColor(topology, n, color), h, capability, id)
           given == [h EXCEPT !.capability = capability, !.borrow = id]
           record == Entry(n, capability)
<1>1. Lent(result, h, capability, id) /\ Counted
  BY DEF BorrowParameter
<1>2. Charged /\ Len(borrows) \in Nat
  BY <1>1, CallsCharged, FrameTypes, GroundedHas DEF Recorded
<1>3. Exact(h, borrows) /\ n \in 1..Len(topology.own) /\ h \in HandleOf(Len(topology.own))
  BY UsableExact, UsableTypes, GroundedHas
<1> HIDE DEF result
<1>4. CASE Poison(result)
  <2>1. Tidy
    BY <1>2, <1>4, RefusedTidy DEF Recorded
  <2>2. Quietly
    BY <1>4, PoisonQuiet, GroundedHas
  <2> QED
    BY <2>1, <2>2, QuietRecorded
<1>5. CASE /\ Accept(result, {given})
           /\ borrows' = Append(borrows, record)
           /\ frames' = [frames EXCEPT ![Len(frames)].borrows = @ \cup {id}]
           /\ UNCHANGED <<conditions, pairs>>
  <2>1. /\ handles' = handles \cup {given} /\ UNCHANGED <<called, factory>>
        /\ Counters'
    BY <1>2, <1>5, StepCounters DEF Accept, Recorded
  <2>2. /\ Len(borrows') = Len(borrows) + 1 /\ borrows'[Len(borrows) + 1] = record
        /\ \A b \in 1..Len(borrows) : borrows'[b] = borrows[b]
    <3>1. borrows \in Seq(BorrowRecord) /\ record \in BorrowRecord
      BY <1>3, GroundedHas DEF Typed, BorrowRecord, Entry
    <3> HIDE DEF record
    <3> QED
      BY <1>5, <3>1, AppendProperties
  <2>3. record.network = n
    BY DEF Entry
  <2>4. given.generation = h.generation /\ given.borrow = id
    BY <1>3 DEF HandleOf
  <2> HIDE DEF given, record, n
  <2>5. \A g \in handles' : Exact(g, borrows')
    <3>1. Exact(given, borrows')
      BY <1>2, <1>3, <2>2, <2>4 DEF Exact
    <3>2. \A g \in handles : Exact(g, borrows')
      BY <1>2, <2>2 DEF Recorded, Exact
    <3> QED
      BY <2>1, <3>1, <3>2
  <2>6. \A b \in 1..Len(borrows') : borrows'[b].network > 0
    BY <1>2, <1>3, <2>2, <2>3 DEF Recorded
  <2>7. /\ Len(frames') = Len(frames)
        /\ \A i \in 1..Len(frames) : /\ frames'[i].moves = frames[i].moves
                                     /\ frames'[i].references = frames[i].references
    <3>1. frames \in [1..Len(frames) -> FrameRecord] /\ frames \in Seq(FrameRecord)
      BY FrameTypes, GroundedHas DEF Typed
    <3> QED
      BY <1>5, <3>1 DEF FrameRecord
  <2>8. /\ Len(topology.own) \in Nat /\ Len(topology'.own) \in Nat /\ Len(frames) \in Nat
        /\ Len(topology.own) <= Len(topology'.own)
    <3>1. WellFormed(topology) /\ WellFormed(topology') /\ Typed
      BY DEF Grounded, Inv, Typed
    <3> QED
      BY <3>1, GroundedHas, OwnTypes, FrameTypes, BorrowParameterStep DEF Leads
  <2>9. NamesWithin(frames', Len(frames'), Len(topology'.own))
    BY <2>7, <2>8 DEF Recorded, NamesWithin
  <2>10. factory'.phase # "none" =>
            NamesWithin(frames', factory'.depth, Len(factory'.saved.own))
    <3> SUFFICES ASSUME factory.phase # "none"
                 PROVE  NamesWithin(frames', factory.depth, Len(factory.saved.own))
      BY <2>1
    <3>1. factory.depth \in Nat /\ factory.depth <= Len(frames)
      BY DEF Grounded, Inv, FactoryInStep
    <3> QED
      BY <2>7, <2>8, <3>1 DEF Recorded, NamesWithin
  <2> QED
    BY <2>1, <2>5, <2>6, <2>7, <2>9, <2>10, PairsRecorded DEF Recorded
<1>6. record = [network |-> h.network, capability |-> capability, active |-> TRUE]
  BY DEF Entry
<1> HIDE DEF given, record
<1> QED
  BY <1>1, <1>4, <1>5, <1>6 DEF Lent, given, record

LEMMA ExitInstanceRecorded ==
    ASSUME Grounded, Grounded', Recorded, Next, ExitInstance
    PROVE  Recorded'
<1>1. /\ frames # <<>> /\ frames' = SubSeq(frames, 1, Len(frames) - 1)
      /\ borrows' = [b \in 1..Len(borrows) |->
                        [borrows[b] EXCEPT !.active = @ /\ b \notin Frame.borrows]]
      /\ factory' = IF factory.phase = "running" /\ Len(frames) = factory.depth + 1
                    THEN [factory EXCEPT !.phase = "left"] ELSE factory
      /\ UNCHANGED <<called, handles, dslCalls, caught, forgotten, status>>
  BY DEF ExitInstance
<1>2. /\ Len(topology.own) \in Nat /\ Len(topology'.own) \in Nat
      /\ Len(topology.own) <= Len(topology'.own)
  <2>1. WellFormed(topology) /\ WellFormed(topology')
    BY DEF Grounded, Inv, Typed
  <2> QED
    BY <2>1, GroundedHas, OwnTypes, ExitInstanceStep DEF Leads
<1>3. /\ Len(frames) \in Nat /\ Len(frames) \in 1..Len(frames)
      /\ Len(frames') = Len(frames) - 1
      /\ \A i \in 1..Len(frames) - 1 : frames'[i] = frames[i]
  BY <1>1, LastFrame, FrameTypes, FramesLeft, GroundedHas
<1>4. /\ Len(borrows') = Len(borrows)
      /\ \A b \in 1..Len(borrows) : borrows'[b].network = borrows[b].network
  <2>1. Len(borrows) \in Nat /\ \A b \in 1..Len(borrows) : borrows[b] \in BorrowRecord
    BY FrameTypes, GroundedHas
  <2>2. \A b \in 1..Len(borrows) :
            [borrows[b] EXCEPT !.active = @ /\ b \notin Frame.borrows] \in BorrowRecord
    BY <2>1 DEF BorrowRecord
  <2>3. borrows' \in [1..Len(borrows) -> BorrowRecord]
    BY <1>1, <2>2
  <2>4. Len(borrows') = Len(borrows)
    BY <2>1, <2>3, FunctionIsSequence
  <2> QED
    BY <1>1, <2>1, <2>4 DEF BorrowRecord
<1>5. \A h \in handles' : Exact(h, borrows')
  BY <1>1, <1>4 DEF Recorded, Exact
<1>6. NamesWithin(frames', Len(frames'), Len(topology'.own))
  BY <1>2, <1>3 DEF Recorded, NamesWithin
<1>7. factory'.phase # "none" =>
          NamesWithin(frames', factory'.depth, Len(factory'.saved.own))
  <2> SUFFICES ASSUME factory'.phase # "none"
               PROVE  NamesWithin(frames', factory'.depth, Len(factory'.saved.own))
    OBVIOUS
  <2>1. factory.phase # "none"
    BY <1>1
  <2>2. factory = [phase |-> factory.phase, depth |-> factory.depth,
                   saved |-> factory.saved, pairs |-> factory.pairs]
    BY <2>1 DEF Grounded, Inv, FactoryInStep
  <2>3. factory'.depth = factory.depth /\ factory'.saved = factory.saved
    BY <1>1, <2>2
  <2>4. factory'.depth \in Nat /\ factory'.depth <= Len(frames')
    BY DEF Grounded, Inv, FactoryInStep
  <2> QED
    BY <1>3, <2>1, <2>3, <2>4 DEF Recorded, NamesWithin
<1>8. called' <= MaxCalls /\ Len(frames') <= called'
  BY <1>1, <1>3, GroundedHas DEF Recorded, Typed
<1>9. \A b \in 1..Len(borrows') : borrows'[b].network > 0
  BY <1>4 DEF Recorded
<1> QED
  BY <1>1, <1>5, <1>6, <1>7, <1>8, <1>9, PairsRecorded DEF Recorded, Counters

(* The snapshot names what there is; afterwards there is what it names.     *)
LEMMA FactoryRecorded ==
    ASSUME Grounded, Grounded', Recorded, Next, Instantiate \/ FactoryReturns
    PROVE  Recorded'
<1>1. /\ UNCHANGED <<topology, borrows, frames, called, handles, pairs,
                     caught, forgotten, status>>
      /\ Counted \/ Uncounted
      /\ \/ factory'.phase = "none"
         \/ factory'.depth = Len(frames) /\ factory'.saved = topology
  BY DEF Instantiate, FactoryReturns, NoFactory
<1>2. Counters'
  BY <1>1, CallsCharged DEF Charged, Recorded, Counters
<1> QED
  BY <1>1, <1>2 DEF Recorded

LEMMA FactoryThrowsRecorded ==
    ASSUME Grounded, Grounded', Recorded, Next, FactoryThrows
    PROVE  Recorded'
<1> DEFINE saved == factory.saved
           kept == 1..Len(saved.own)
<1>1. Charged
  BY CallsCharged DEF FactoryThrows, Recorded
<1>2. CASE Poison(Refused(topology))
  <2>1. Tidy /\ Quietly
    BY <1>1, <1>2, RefusedTidy, PoisonQuiet, GroundedHas DEF Recorded
  <2> QED
    BY <2>1, QuietRecorded
<1>3. CASE /\ factory.phase = "left" /\ topology' = Restored(saved)
           /\ handles' \subseteq handles
           /\ forgotten' \subseteq forgotten \cup {"colors", "pairs", "moves", "reads"}
           /\ factory'.phase = "none"
           /\ UNCHANGED <<borrows, frames, called, pairs, caught, status>>
  <2>1. factory.depth = Len(frames) /\ WellFormed(saved)
    BY <1>3 DEF Grounded, Inv, FactoryInStep, InStep
  <2>2. topology'.own = saved.own
    BY <1>3, <2>1, RestoredGrows DEF WellFormed, Restored
  <2>3. NamesWithin(frames', Len(frames'), Len(topology'.own))
    BY <1>3, <2>1, <2>2 DEF Recorded
  <2>4. Counters'
    BY <1>1, <1>3 DEF Charged, Recorded, Counters
  <2> QED
    BY <1>3, <2>3, <2>4 DEF Recorded
<1> QED
  BY <1>2, <1>3 DEF FactoryThrows, ForgottenBy, NoFactory

LEMMA NextRecorded ==
    ASSUME Grounded, Recorded, [Next]_vars
    PROVE  Grounded' /\ Recorded'
<1>1. Grounded'
  BY NextGrounded
<1>2. CASE Next
  <2>1. CASE \E default \in BOOLEAN : EnterFunction(default)
    BY <1>1, <1>2, <2>1, EnterFunctionRecorded
  <2>2. CASE \E h \in Usable, color \in Requirements, capability \in {"readonly", "ref"} :
                 BorrowParameter(h, capability, color)
    BY <1>1, <1>2, <2>2, BorrowParameterRecorded
  <2>3. CASE ExitInstance
    BY <1>1, <1>2, <2>3, ExitInstanceRecorded
  <2>4. CASE Instantiate \/ FactoryReturns
    BY <1>1, <1>2, <2>4, FactoryRecorded
  <2>5. CASE FactoryThrows
    BY <1>1, <1>2, <2>5, FactoryThrowsRecorded
  <2>6. CASE Quietly /\ Tidy
    BY <1>1, <1>2, <2>6, QuietRecorded
  <2>7. Inv
    BY GroundedHas
  <2> QED
    BY <1>1, <1>2, <2>1, <2>2, <2>3, <2>4, <2>5, <2>6, <2>7, QuietSteps, StepsTidy
<1>3. CASE UNCHANGED vars
  <2>1. UNCHANGED <<topology, borrows, frames, called, handles, pairs, dslCalls, factory,
                    caught, forgotten, status>>
    BY <1>3 DEF vars
  <2> QED
    BY <1>1, <2>1 DEF Recorded, Counters
<1> QED
  BY <1>1, <1>2, <1>3

LEMMA InitRecorded == Init => Grounded /\ Recorded
<1> SUFFICES ASSUME Init PROVE Recorded
  BY InitGrounded
<1>1. DslCallBudget \in Nat /\ MaxCalls \in Nat
  BY BoundsAssumption DEF BoundsAssumption
<1>2. Len(frames) = 0 /\ Len(borrows) = 0
  BY EmptySeq DEF Init
<1>3. NamesWithin(frames, Len(frames), Len(topology.own))
  BY <1>2 DEF NamesWithin
<1>4. Counters
  <2>1. 0 \in 0..DslCallBudget + 1
    BY <1>1
  <2>2. dslCalls = 0 /\ caught = FALSE /\ forgotten = {} /\ status = "active"
    BY DEF Init
  <2> QED
    BY <2>1, <2>2 DEF Counters
<1>5. /\ handles = {} /\ pairs = {} /\ factory.phase = "none" /\ called = 0
  BY DEF Init, NoFactory
<1> QED
  BY <1>1, <1>2, <1>3, <1>4, <1>5 DEF Recorded

-----------------------------------------------------------------------------
(* What is recorded has the types of the model.                             *)
LEMMA EngineTypes ==
    ASSUME Grounded
    PROVE  /\ topology.engine.size = Len(topology.own)
           /\ topology.engine \in Colors!Engine(topology.engine.size)
<1>1. Engines!Forest(topology.engine) /\ topology.engine.size = Len(topology.own)
  BY DEF Grounded, Sound, ColorsFit, Engines!AnchorInv, Engines!EngineInv
<1>2. \A n : Colors!Engine(n) = Engines!Engine(n)
  BY Zenon DEF Colors!Engine, Engines!Engine
<1> QED
  BY <1>1, <1>2 DEF Engines!Forest

LEMMA NetworkTypes ==
    ASSUME Grounded, NEW n \in Networks
    PROVE  topology.own[n] \in
               [consumed : BOOLEAN, generation : Nat, owner : {Lost} \cup 0..called,
                color : {Red, Green, NoColor}, readers : SUBSET (1..Len(borrows)),
                writer : {NoBorrow} \cup 1..Len(borrows)]
<1> DEFINE held == Held(frames, Len(frames))
           own == topology.own[n]
<1>1. /\ Typed /\ FramesHold /\ Inv /\ Len(frames) \in Nat /\ n \in 1..Len(topology.own)
      /\ called \in Nat
  BY GroundedHas, FrameTypes DEF Inv, Typed, Networks
<1>2. held \subseteq 1..Len(borrows)
  BY <1>1, HeldInRange
<1>3. own \in Ownership /\ OwnExact(own) /\ own.owner <= called
  BY <1>1, GroundedHas, OwnTypes DEF Inv, OwnedByCalled, Sound
<1>4. Noted(topology.own, borrows, held, n)
  BY <1>1 DEF Inv, Reflects
<1> HIDE DEF held
<1>5. own.readers \subseteq 1..Len(borrows) /\ own.writer \in {NoBorrow} \cup 1..Len(borrows)
  BY <1>2, <1>4 DEF Noted, HeldOf
<1> HIDE DEF own
<1>6. own.owner \in {Lost} \cup 0..called
  BY <1>1, <1>3 DEF OwnExact, Ownership, Lost
<1>7. own.generation \in Nat /\ own.color \in {Red, Green, NoColor} /\ own.consumed \in BOOLEAN
  BY <1>3 DEF OwnExact, Ownership
<1>8. own = [consumed |-> own.consumed, generation |-> own.generation, owner |-> own.owner,
             color |-> own.color, readers |-> own.readers, writer |-> own.writer]
  BY <1>3 DEF Ownership
<1>9. own \in [consumed : BOOLEAN, generation : Nat, owner : {Lost} \cup 0..called,
               color : {Red, Green, NoColor}, readers : SUBSET (1..Len(borrows)),
               writer : {NoBorrow} \cup 1..Len(borrows)]
  BY <1>5, <1>6, <1>7, <1>8
<1> QED
  BY <1>9 DEF own

LEMMA ConnectedTypes ==
    ASSUME Grounded
    PROVE  /\ \A i \in 1..Len(topology.transfers) : topology.transfers[i] \in Networks \X Networks
           /\ \A c \in Combinators :
                 /\ Len(topology.combs[c].lanes) \in {1, 2}
                 /\ LanesOf(topology.combs[c]) \cup topology.combs[c].inputs \subseteq Networks
                 /\ topology.combs[c].used \in BOOLEAN
<1>1. WellFormed(topology) /\ Sound(topology)
  BY GroundedHas
<1>2. \A i \in 1..Len(topology.transfers) : topology.transfers[i] \in Networks \X Networks
  BY <1>1, TransferTypes DEF Link, Networks
<1>3. ASSUME NEW c \in Combinators
      PROVE  /\ Len(topology.combs[c].lanes) \in {1, 2}
             /\ LanesOf(topology.combs[c]) \cup topology.combs[c].inputs \subseteq Networks
             /\ topology.combs[c].used \in BOOLEAN
  <2>1. c \in 1..Len(topology.combs)
    BY DEF Combinators
  <2>2. LanesOf(topology.combs[c]) \subseteq Networks
    BY <1>1, <2>1, LanesInRange DEF Networks
  <2>3. topology.combs[c].inputs \subseteq Networks /\ topology.combs[c].used \in BOOLEAN
    BY <1>1, <2>1, CombinatorTypes DEF Combinator, Networks
  <2>4. Len(topology.combs[c].lanes) \in {1, 2}
    BY <1>1, <2>1 DEF Sound, OutputSound
  <2> QED
    BY <2>2, <2>3, <2>4
<1> QED
  BY <1>2, <1>3

LEMMA BorrowTypes ==
    ASSUME Grounded, Recorded, NEW b \in 1..Len(borrows)
    PROVE  borrows[b] \in [network : Nat \ {0}, capability : {"readonly", "ref"},
                           active : BOOLEAN]
<1>1. borrows[b] \in BorrowRecord /\ borrows[b].network > 0
  BY GroundedHas, FrameTypes DEF Recorded
<1> QED
  BY <1>1 DEF BorrowRecord

LEMMA StackTypes ==
    ASSUME Grounded, Recorded, NEW i \in 1..Len(frames)
    PROVE  frames[i] \in [owner : 1..called, borrows : SUBSET (1..Len(borrows)),
                          moves : SUBSET Networks, references : SUBSET Networks]
<1>1. frames[i] \in FrameRecord /\ called \in Nat
  BY GroundedHas, FrameTypes DEF Typed
<1>2. frames[i].owner > 0 /\ frames[i].owner <= called /\ frames[i].borrows \subseteq 1..Len(borrows)
  BY GroundedHas DEF Inv, OwnersRise, FramesHold
<1>3. frames[i].moves \subseteq Networks /\ frames[i].references \subseteq Networks
  BY DEF Recorded, NamesWithin, Networks
<1> QED
  BY <1>1, <1>2, <1>3 DEF FrameRecord

LEMMA HandleIsTyped ==
    ASSUME Grounded, Recorded, NEW h \in handles
    PROVE  h \in [network : Networks, capability : {"owned", "move", "readonly", "ref"},
                  generation : Nat, borrow : {NoBorrow} \cup 1..Len(borrows)]
<1>1. h \in HandleOf(Len(topology.own)) /\ Exact(h, borrows) /\ Len(borrows) \in Nat
  BY GroundedHas, FrameTypes DEF Typed, Recorded
<1>2. h.borrow \in {NoBorrow} \cup 1..Len(borrows) /\ h.generation \in Nat
  BY <1>1 DEF Exact, NoBorrow
<1> QED
  BY <1>1, <1>2 DEF HandleOf, Networks

LEMMA PairTypes ==
    ASSUME Recorded, NEW pair \in pairs
    PROVE  pair \subseteq Nat \ {0} /\ Cardinality(pair) = 2
<1>1. PICK l \in Nat \ {0}, r \in Nat \ {0} : l # r /\ pair = {l, r}
  BY DEF Recorded
<1> QED
  BY <1>1, PairSize

LEMMA RecordedTypes == Grounded /\ Recorded => TypeOK
<1> SUFFICES ASSUME Grounded, Recorded PROVE TypeOK
  OBVIOUS
<1>1. called \in 0..MaxCalls /\ Len(frames) <= called
  <2>1. called \in Nat /\ MaxCalls \in Nat
    BY GroundedHas, BoundsAssumption DEF Typed, BoundsAssumption
  <2> QED
    BY <2>1 DEF Recorded
<1>2. Counters
  BY DEF Recorded
<1> QED
  BY <1>1, <1>2, EngineTypes, NetworkTypes, ConnectedTypes, BorrowTypes, StackTypes,
     HandleIsTyped, PairTypes DEF TypeOK, Counters

(* Whatever is called, borrowed, moved, returned and rolled back, what the  *)
(* recorder holds names networks and borrows that exist and functions that  *)
(* were entered, the engine keeps one node for each network, and the budget *)
(* is passed by one call at most (elaboration-ownership.ts and              *)
(* elaboration-program.ts, #recordDslCall).                                 *)
THEOREM RecorderTypeCorrect == Spec => []TypeOK
<1>1. Grounded /\ Recorded /\ [Next]_vars => (Grounded /\ Recorded)'
  BY NextRecorded
<1>2. Grounded /\ Recorded => TypeOK
  BY RecordedTypes
<1> QED
  BY <1>1, <1>2, InitRecorded, PTL DEF Spec
=============================================================================
