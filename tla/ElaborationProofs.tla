--------------------------- MODULE ElaborationProofs ---------------------------
(***************************************************************************)
(* What holds of the recorder for every program, every bound and whatever  *)
(* is rolled back on the way: borrows end with the frame that made them    *)
(* and exclude each other, a network that is borrowed stays where it is,   *)
(* ownership is in one place, a dead handle stays dead, and an output that *)
(* is reported unused is read by nothing.                                  *)
(*                                                                         *)
(* Almost every step makes the topology grow (Grows): it adds networks,    *)
(* which nobody has borrowed, and moves the others on as the recorder may. *)
(* There is one lemma for each operator.  The borrows change with the      *)
(* frames, in three actions, and with them the snapshot of the factory     *)
(* that runs must stay in step.                                            *)
(***************************************************************************)
EXTENDS ElaborationProperties, FiniteSetTheorems, SequenceTheorems, TLAPS

-----------------------------------------------------------------------------
(* The shape of a topology.                                                 *)
Ownership == [consumed : BOOLEAN, generation : Int, owner : Int, color : Int,
              readers : SUBSET Int, writer : Int]

HandleOf(size) == [network : 1..size, capability : {"owned", "move", "readonly", "ref"},
                   generation : Int, borrow : Int]

Combinator(size) == [lanes : Seq(HandleOf(size)), inputs : SUBSET (1..size),
                     used : BOOLEAN]

Link(size) == (1..size) \X (1..size)

(* A handle is of a generation that its network has reached.                *)
Reached(own, h) == h.generation <= own[h.network].generation

LanesKnown(own, comb) ==
    /\ comb.lanes # <<>>
    /\ \A i \in 1..Len(comb.lanes) :
          comb.lanes[i].capability = "owned" /\ Reached(own, comb.lanes[i])

WellFormed(t) ==
    /\ t = [engine |-> t.engine, own |-> t.own, transfers |-> t.transfers,
            combs |-> t.combs]
    /\ t.own \in Seq(Ownership)
    /\ t.transfers \in Seq(Link(Len(t.own)))
    /\ t.combs \in Seq(Combinator(Len(t.own)))
    /\ \A c \in 1..Len(t.combs) : LanesKnown(t.own, t.combs[c])

-----------------------------------------------------------------------------
(* How a network may have changed.  Its generation counts its moves, only a *)
(* move gives it to another owner, and what is consumed stays so.           *)
Older(r, s) ==
    /\ r.generation <= s.generation
    /\ r.consumed => s.consumed
    /\ s.generation = r.generation => s.owner = r.owner

Free(r) == r.readers = {} /\ r.writer = NoBorrow

SameBorrows(r, s) == s.readers = r.readers /\ s.writer = r.writer

Unmoved(r, s) ==
    s.consumed = r.consumed /\ s.generation = r.generation /\ s.owner = r.owner

(* Most steps keep its borrows, and move it only if it has none or is of    *)
(* the innermost frame.                                                     *)
Kept(r, s) ==
    /\ Older(r, s) /\ SameBorrows(r, s)
    /\ s.owner \in {r.owner, Owner(frames), Caller}
    /\ Free(r) \/ r.owner = Owner(frames) \/ Unmoved(r, s)

OwnGrows(own, new) ==
    /\ Len(own) <= Len(new)
    /\ \A n \in 1..Len(own) : Kept(own[n], new[n])
    /\ \A n \in Len(own) + 1 .. Len(new) : Free(new[n])

(* What a combinator or a transfer reads.                                   *)
IsRead(t, n) ==
    \/ \E c \in 1..Len(t.combs) : n \in t.combs[c].inputs
    \/ \E i \in 1..Len(t.transfers) : n \in {t.transfers[i][1], t.transfers[i][2]}

(* Outputs that are not marked are neither read nor among these.            *)
Unread(t, named) ==
    \A c \in 1..Len(t.combs) : ~t.combs[c].used =>
        \A n \in LanesOf(t.combs[c]) : ~IsRead(t, n) /\ n \notin named

(* Combinators keep their lanes, and what is read stays read.               *)
Wider(t, u) ==
    /\ Len(t.combs) <= Len(u.combs)
    /\ \A c \in 1..Len(t.combs) : LanesOf(t.combs[c]) \subseteq LanesOf(u.combs[c])
    /\ \A n \in 1..Len(t.own) : IsRead(t, n) => IsRead(u, n)

Larger(t, u) == WellFormed(u) /\ OwnGrows(t.own, u.own) /\ Wider(t, u)

(* A step reads what it marks, or what a condition has named, and marked.   *)
KeepsUnread(t, u) ==
    \A named \in SUBSET (1..Len(t.own)) :
        UNION conditions \subseteq named /\ Unread(t, named) => Unread(u, named)

NewOwned(t, u) == \A n \in Len(t.own) + 1 .. Len(u.own) : u.own[n].owner <= called

Grows(t, u) == Larger(t, u) /\ KeepsUnread(t, u) /\ NewOwned(t, u)

(* The functions whose frames are left to come were entered.                *)
OwnersKnown ==
    /\ called \in Nat /\ Owner(frames) \in Int /\ Caller \in Int
    /\ Owner(frames) <= called /\ Caller <= called

(* A function on 1..n is a sequence.                                        *)
LEMMA FunctionIsSequence ==
    ASSUME NEW S, NEW n \in Nat, NEW f \in [1..n -> S]
    PROVE  f \in Seq(S) /\ Len(f) = n
<1>1. f \in Seq(S)
  BY SeqDef
<1>2. Len(f) \in Nat /\ DOMAIN f = 1..Len(f)
  BY <1>1, LenProperties
<1> QED
  BY <1>1, <1>2, SMT

(* A handle of a small topology is a handle of a larger one, and so is what *)
(* is made of handles.                                                      *)
LEMMA HandlesWiden ==
    ASSUME NEW m \in Nat, NEW k \in Nat, m <= k
    PROVE  HandleOf(m) \subseteq HandleOf(k)
BY DEF HandleOf

LEMMA CombinatorsWiden ==
    ASSUME NEW m \in Nat, NEW k \in Nat, m <= k, NEW combs \in Seq(Combinator(m))
    PROVE  combs \in Seq(Combinator(k))
<1>1. Seq(HandleOf(m)) \subseteq Seq(HandleOf(k))
  BY HandlesWiden, SeqMonotonic
<1>2. SUBSET (1..m) \subseteq SUBSET (1..k)
  OBVIOUS
<1>3. Combinator(m) \subseteq Combinator(k)
  BY <1>1, <1>2 DEF Combinator
<1> QED
  BY <1>3, SeqMonotonic

LEMMA LinksWiden ==
    ASSUME NEW m \in Nat, NEW k \in Nat, m <= k, NEW links \in Seq(Link(m))
    PROVE  links \in Seq(Link(k))
<1>1. Link(m) \subseteq Link(k)
  BY DEF Link
<1> QED
  BY <1>1, SeqMonotonic

(* What is read of a well-formed topology.                                  *)
LEMMA OwnTypes ==
    ASSUME NEW t, WellFormed(t)
    PROVE  /\ Len(t.own) \in Nat
           /\ t.own \in [1..Len(t.own) -> Ownership]
           /\ \A n \in 1..Len(t.own) : t.own[n] \in Ownership
BY LenProperties DEF WellFormed

LEMMA TransferTypes ==
    ASSUME NEW t, WellFormed(t)
    PROVE  /\ Len(t.transfers) \in Nat
           /\ \A i \in 1..Len(t.transfers) :
                 /\ t.transfers[i] \in Link(Len(t.own))
                 /\ t.transfers[i][1] \in 1..Len(t.own)
                 /\ t.transfers[i][2] \in 1..Len(t.own)
<1>1. Len(t.transfers) \in Nat
  BY LenProperties DEF WellFormed
<1>2. \A i \in 1..Len(t.transfers) : t.transfers[i] \in Link(Len(t.own))
  BY ElementOfSeq DEF WellFormed
<1> QED
  BY <1>1, <1>2 DEF Link

LEMMA CombinatorTypes ==
    ASSUME NEW t, WellFormed(t)
    PROVE  /\ Len(t.combs) \in Nat
           /\ t.combs \in [1..Len(t.combs) -> Combinator(Len(t.own))]
           /\ \A c \in 1..Len(t.combs) :
                 /\ t.combs[c] \in Combinator(Len(t.own))
                 /\ t.combs[c].lanes \in Seq(HandleOf(Len(t.own)))
                 /\ Len(t.combs[c].lanes) \in Nat \ {0}
                 /\ 1 \in 1..Len(t.combs[c].lanes)
                 /\ \A i \in 1..Len(t.combs[c].lanes) :
                       /\ t.combs[c].lanes[i] \in HandleOf(Len(t.own))
                       /\ t.combs[c].lanes[i].capability = "owned"
                       /\ Reached(t.own, t.combs[c].lanes[i])
<1>1. Len(t.combs) \in Nat /\ t.combs \in [1..Len(t.combs) -> Combinator(Len(t.own))]
  BY LenProperties DEF WellFormed
<1>2. SUFFICES ASSUME NEW c \in 1..Len(t.combs)
               PROVE  /\ t.combs[c] \in Combinator(Len(t.own))
                      /\ t.combs[c].lanes \in Seq(HandleOf(Len(t.own)))
                      /\ Len(t.combs[c].lanes) \in Nat \ {0}
                      /\ 1 \in 1..Len(t.combs[c].lanes)
                      /\ \A i \in 1..Len(t.combs[c].lanes) :
                            /\ t.combs[c].lanes[i] \in HandleOf(Len(t.own))
                            /\ t.combs[c].lanes[i].capability = "owned"
                            /\ Reached(t.own, t.combs[c].lanes[i])
  BY <1>1
<1>3. t.combs[c] \in Combinator(Len(t.own))
  BY <1>1
<1>4. t.combs[c].lanes \in Seq(HandleOf(Len(t.own)))
  BY <1>3 DEF Combinator
<1>5. LanesKnown(t.own, t.combs[c])
  BY DEF WellFormed
<1>6. Len(t.combs[c].lanes) \in Nat \ {0}
  BY <1>4, <1>5, EmptySeq, LenProperties DEF LanesKnown
<1>7. \A k \in Nat \ {0} : 1 \in 1..k
  OBVIOUS
<1>8. \A i \in 1..Len(t.combs[c].lanes) : t.combs[c].lanes[i] \in HandleOf(Len(t.own))
  BY <1>4, ElementOfSeq
<1> QED
  BY <1>3, <1>4, <1>5, <1>6, <1>7, <1>8 DEF LanesKnown

(* What is read is a network.                                               *)
LEMMA ReadInRange ==
    ASSUME NEW t, WellFormed(t), NEW n, IsRead(t, n)
    PROVE  n \in 1..Len(t.own)
<1>1. CASE \E c \in 1..Len(t.combs) : n \in t.combs[c].inputs
  BY <1>1, CombinatorTypes DEF Combinator
<1>2. CASE \E i \in 1..Len(t.transfers) : n \in {t.transfers[i][1], t.transfers[i][2]}
  BY <1>2, TransferTypes
<1> QED
  BY <1>1, <1>2 DEF IsRead

LEMMA LanesInRange ==
    ASSUME NEW t, WellFormed(t), NEW c \in 1..Len(t.combs)
    PROVE  LanesOf(t.combs[c]) \subseteq 1..Len(t.own)
<1>1. \A i \in 1..Len(t.combs[c].lanes) : t.combs[c].lanes[i] \in HandleOf(Len(t.own))
  BY CombinatorTypes
<1>2. \A i \in 1..Len(t.combs[c].lanes) : t.combs[c].lanes[i].network \in 1..Len(t.own)
  BY <1>1 DEF HandleOf
<1> QED
  BY <1>2 DEF LanesOf

-----------------------------------------------------------------------------
(* Growing, and the ways a step may change one part of a topology.          *)
LEMMA KeptReflexive ==
    ASSUME NEW r \in Ownership
    PROVE  Kept(r, r)
BY DEF Kept, Older, SameBorrows, Unmoved, Ownership

LEMMA OlderTransitive ==
    ASSUME NEW r \in Ownership, NEW s \in Ownership, NEW q \in Ownership,
           Older(r, s), Older(s, q)
    PROVE  Older(r, q)
<1>1. r.generation \in Int /\ s.generation \in Int /\ q.generation \in Int
  BY DEF Ownership
<1> QED
  BY <1>1 DEF Older

LEMMA KeptTransitive ==
    ASSUME NEW r \in Ownership, NEW s \in Ownership, NEW q \in Ownership,
           Kept(r, s), Kept(s, q)
    PROVE  Kept(r, q)
<1>1. Older(r, q)
  BY OlderTransitive DEF Kept
<1>2. SameBorrows(r, q) /\ q.owner \in {r.owner, Owner(frames), Caller}
  BY DEF Kept, SameBorrows
<1>3. Free(r) \/ r.owner = Owner(frames) \/ Unmoved(r, q)
  BY DEF Kept, SameBorrows, Free, Unmoved
<1> QED
  BY <1>1, <1>2, <1>3 DEF Kept

LEMMA WiderTransitive ==
    ASSUME NEW t, NEW u, NEW v, WellFormed(t), WellFormed(u), WellFormed(v),
           Len(t.own) <= Len(u.own), Wider(t, u), Wider(u, v)
    PROVE  Wider(t, v)
<1>1. /\ Len(t.combs) \in Nat /\ Len(u.combs) \in Nat /\ Len(v.combs) \in Nat
      /\ Len(t.own) \in Nat /\ Len(u.own) \in Nat
  BY CombinatorTypes, OwnTypes
<1>2. Len(t.combs) <= Len(v.combs)
  BY <1>1 DEF Wider
<1>3. \A c \in 1..Len(t.combs) : c \in 1..Len(u.combs)
  BY <1>1 DEF Wider
<1>4. \A n \in 1..Len(t.own) : n \in 1..Len(u.own)
  BY <1>1
<1> QED
  BY <1>2, <1>3, <1>4 DEF Wider

LEMMA LargerTransitive ==
    ASSUME NEW t, NEW u, NEW v, WellFormed(t), Larger(t, u), Larger(u, v)
    PROVE  Larger(t, v)
<1>1. /\ WellFormed(u) /\ WellFormed(v)
      /\ Len(t.own) <= Len(u.own) /\ Len(u.own) <= Len(v.own)
  BY DEF Larger, OwnGrows
<1>2. Len(t.own) \in Nat /\ Len(u.own) \in Nat /\ Len(v.own) \in Nat
  BY <1>1, OwnTypes
<1>3. ASSUME NEW n \in 1..Len(t.own)
      PROVE  Kept(t.own[n], v.own[n])
  <2>1. n \in 1..Len(u.own) /\ n \in 1..Len(v.own)
    BY <1>1, <1>2
  <2>2. Kept(t.own[n], u.own[n]) /\ Kept(u.own[n], v.own[n])
    BY <2>1 DEF Larger, OwnGrows
  <2> QED
    BY <1>1, <2>1, <2>2, OwnTypes, KeptTransitive
<1>4. ASSUME NEW n \in Len(t.own) + 1 .. Len(v.own)
      PROVE  Free(v.own[n])
  <2>1. CASE n <= Len(u.own)
    <3>1. n \in 1..Len(u.own) /\ n \in Len(t.own) + 1 .. Len(u.own)
      BY <1>2, <2>1, SMT
    <3>2. Free(u.own[n])
      BY <3>1 DEF Larger, OwnGrows
    <3>3. SameBorrows(u.own[n], v.own[n])
      BY <3>1 DEF Larger, OwnGrows, Kept
    <3> QED
      BY <3>2, <3>3 DEF SameBorrows, Free
  <2>2. CASE n > Len(u.own)
    BY <1>1, <1>2, <2>2 DEF Larger, OwnGrows
  <2> QED
    BY <1>2, <2>1, <2>2
<1>5. Wider(t, v)
  BY <1>1, WiderTransitive DEF Larger
<1>6. Len(t.own) <= Len(v.own)
  BY <1>1, <1>2
<1> QED
  BY <1>1, <1>3, <1>4, <1>5, <1>6 DEF Larger, OwnGrows

LEMMA GrowsTransitive ==
    ASSUME NEW t, NEW u, NEW v, WellFormed(t), Grows(t, u), Grows(u, v),
           OwnersKnown
    PROVE  Grows(t, v)
<1>1. WellFormed(u) /\ WellFormed(v) /\ Len(t.own) <= Len(u.own) /\ Len(u.own) <= Len(v.own)
  BY DEF Grows, Larger, OwnGrows
<1>2. Len(t.own) \in Nat /\ Len(u.own) \in Nat /\ Len(v.own) \in Nat
  BY <1>1, OwnTypes
<1>3. Larger(t, v)
  BY LargerTransitive DEF Grows
<1>4. KeepsUnread(t, v)
  <2>1. \A named \in SUBSET (1..Len(t.own)) : named \in SUBSET (1..Len(u.own))
    BY <1>1, <1>2
  <2> QED
    BY <2>1 DEF Grows, KeepsUnread
<1>5. ASSUME NEW n \in Len(t.own) + 1 .. Len(v.own)
      PROVE  v.own[n].owner <= called
  <2>1. CASE n <= Len(u.own)
    <3>1. n \in 1..Len(u.own) /\ n \in Len(t.own) + 1 .. Len(u.own)
      BY <1>2, <2>1, SMT
    <3>2. u.own[n].owner <= called
      BY <3>1 DEF Grows, NewOwned
    <3>3. v.own[n].owner \in {u.own[n].owner, Owner(frames), Caller}
      BY <3>1 DEF Grows, Larger, OwnGrows, Kept
    <3> QED
      BY <3>2, <3>3 DEF OwnersKnown
  <2>2. CASE n > Len(u.own)
    BY <1>1, <1>2, <2>2 DEF Grows, NewOwned
  <2> QED
    BY <1>2, <2>1, <2>2
<1> QED
  BY <1>3, <1>4, <1>5 DEF Grows, NewOwned

(* A topology of which only the networks changed.                           *)
LEMMA SameCombinatorsGrow ==
    ASSUME NEW t, NEW u, Larger(t, u), NewOwned(t, u),
           u.combs = t.combs, u.transfers = t.transfers
    PROVE  Grows(t, u)
<1>1. \A named : Unread(t, named) => Unread(u, named)
  BY DEF Unread, IsRead
<1> QED
  BY <1>1 DEF Grows, KeepsUnread

LEMMA SameCombinatorsWider ==
    ASSUME NEW t, NEW u, WellFormed(t), u.combs = t.combs, u.transfers = t.transfers
    PROVE  Wider(t, u)
BY CombinatorTypes DEF Wider, IsRead

(* The networks change, and none gets an earlier generation.                *)
WithOwn(t, own) == [t EXCEPT !.own = own]

LEMMA WithOwnParts ==
    ASSUME NEW t, WellFormed(t), NEW own
    PROVE  /\ WithOwn(t, own) = [engine |-> t.engine, own |-> own,
                                 transfers |-> t.transfers, combs |-> t.combs]
           /\ WithOwn(t, own).own = own /\ WithOwn(t, own).combs = t.combs
           /\ WithOwn(t, own).transfers = t.transfers
           /\ WithOwn(t, own).engine = t.engine
BY DEF WellFormed, WithOwn

LEMMA OwnChanged ==
    ASSUME NEW t, WellFormed(t), NEW own \in [1..Len(t.own) -> Ownership],
           \A n \in 1..Len(t.own) : t.own[n].generation <= own[n].generation
    PROVE  /\ WellFormed(WithOwn(t, own)) /\ Len(own) = Len(t.own)
           /\ Wider(t, WithOwn(t, own)) /\ KeepsUnread(t, WithOwn(t, own))
<1> DEFINE u == WithOwn(t, own)
<1>1. Len(t.own) \in Nat
  BY OwnTypes
<1>2. own \in Seq(Ownership) /\ Len(own) = Len(t.own)
  BY <1>1, FunctionIsSequence
<1>3. /\ u = [engine |-> t.engine, own |-> own, transfers |-> t.transfers,
              combs |-> t.combs]
      /\ u.own = own /\ u.combs = t.combs /\ u.transfers = t.transfers
  BY WithOwnParts
<1> HIDE DEF u
<1>4. ASSUME NEW c \in 1..Len(t.combs)
      PROVE  LanesKnown(own, t.combs[c])
  <2>1. ASSUME NEW i \in 1..Len(t.combs[c].lanes)
        PROVE  /\ t.combs[c].lanes[i].capability = "owned"
               /\ Reached(own, t.combs[c].lanes[i])
    <3> DEFINE h == t.combs[c].lanes[i]
    <3>1. /\ h \in HandleOf(Len(t.own)) /\ h.capability = "owned"
          /\ Reached(t.own, h)
      BY CombinatorTypes
    <3> HIDE DEF h
    <3>2. h.network \in 1..Len(t.own) /\ h.generation \in Int
      BY <3>1 DEF HandleOf
    <3>3. /\ t.own[h.network].generation \in Int /\ own[h.network].generation \in Int
          /\ t.own[h.network].generation <= own[h.network].generation
      BY <3>2, OwnTypes DEF Ownership
    <3>4. Reached(own, h)
      BY <3>1, <3>2, <3>3 DEF Reached
    <3> QED
      BY <3>1, <3>4 DEF h
  <2> QED
    BY <2>1 DEF LanesKnown, WellFormed
<1>5. WellFormed(u)
  BY <1>2, <1>3, <1>4 DEF WellFormed
<1>6. Wider(t, u)
  BY <1>3, SameCombinatorsWider
<1>7. \A n : IsRead(u, n) <=> IsRead(t, n)
  BY <1>3 DEF IsRead
<1>8. \A named : Unread(t, named) => Unread(u, named)
  BY <1>3, <1>7 DEF Unread
<1> QED
  BY <1>2, <1>5, <1>6, <1>8 DEF u, KeepsUnread

LEMMA NewOwnGrows ==
    ASSUME NEW t, WellFormed(t), NEW own \in [1..Len(t.own) -> Ownership],
           \A n \in 1..Len(t.own) : Kept(t.own[n], own[n])
    PROVE  Grows(t, [t EXCEPT !.own = own])
<1> DEFINE u == WithOwn(t, own)
<1>1. Len(t.own) \in Nat
  BY OwnTypes
<1>2. /\ WellFormed(u) /\ Len(own) = Len(t.own) /\ Wider(t, u) /\ KeepsUnread(t, u)
  BY OwnChanged DEF Kept, Older
<1>3. u.own = own
  BY WithOwnParts
<1> HIDE DEF u
<1>4. OwnGrows(t.own, u.own) /\ NewOwned(t, u)
  BY <1>1, <1>2, <1>3 DEF OwnGrows, NewOwned
<1>5. Grows(t, u)
  BY <1>2, <1>4 DEF Grows, Larger
<1> QED
  BY <1>5 DEF u, WithOwn

(* One network changes.                                                     *)
LEMMA FieldGrows ==
    ASSUME NEW t, WellFormed(t), NEW n, NEW o,
           n \in 1..Len(t.own) => o \in Ownership /\ Kept(t.own[n], o)
    PROVE  Grows(t, [t EXCEPT !.own[n] = o])
<1> DEFINE own == [t.own EXCEPT ![n] = o]
<1>1. t.own \in [1..Len(t.own) -> Ownership]
  BY OwnTypes
<1>2. own \in [1..Len(t.own) -> Ownership]
  BY <1>1
<1>3. \A m \in 1..Len(t.own) : Kept(t.own[m], own[m])
  BY <1>1, KeptReflexive
<1>4. Grows(t, [t EXCEPT !.own = own])
  BY <1>2, <1>3, NewOwnGrows
<1>5. [t EXCEPT !.own[n] = o] = [t EXCEPT !.own = own]
  BY DEF WellFormed
<1> QED
  BY <1>4, <1>5

LEMMA OwnGrowsReflexive ==
    ASSUME NEW t, WellFormed(t)
    PROVE  OwnGrows(t.own, t.own) /\ NewOwned(t, t)
<1>1. \A n \in 1..Len(t.own) : Kept(t.own[n], t.own[n])
  BY OwnTypes, KeptReflexive
<1> QED
  BY <1>1, OwnTypes DEF OwnGrows, NewOwned

LEMMA GrowsReflexive ==
    ASSUME NEW t, WellFormed(t)
    PROVE  Grows(t, t)
BY OwnGrowsReflexive, SameCombinatorsWider, SameCombinatorsGrow DEF Larger

(* The colours change.                                                      *)
LEMMA NewEngineGrows ==
    ASSUME NEW t, WellFormed(t), NEW e
    PROVE  Grows(t, [t EXCEPT !.engine = e])
<1> DEFINE u == [t EXCEPT !.engine = e]
<1>1. /\ u = [engine |-> e, own |-> t.own, transfers |-> t.transfers, combs |-> t.combs]
      /\ u.own = t.own /\ u.combs = t.combs /\ u.transfers = t.transfers
  BY DEF WellFormed
<1> HIDE DEF u
<1>2. WellFormed(u)
  BY <1>1 DEF WellFormed
<1>3. OwnGrows(t.own, u.own) /\ NewOwned(t, u) /\ Wider(t, u)
  BY <1>1, OwnGrowsReflexive, SameCombinatorsWider DEF NewOwned
<1>4. Grows(t, u)
  BY <1>1, <1>2, <1>3, SameCombinatorsGrow DEF Larger
<1> QED
  BY <1>4 DEF u

(* The combinators change, and perhaps some are added.                      *)
WithCombs(t, combs) == [t EXCEPT !.combs = combs]

LEMMA WithCombsParts ==
    ASSUME NEW t, WellFormed(t), NEW combs
    PROVE  /\ WithCombs(t, combs) = [engine |-> t.engine, own |-> t.own,
                                     transfers |-> t.transfers, combs |-> combs]
           /\ WithCombs(t, combs).own = t.own /\ WithCombs(t, combs).combs = combs
           /\ WithCombs(t, combs).transfers = t.transfers
           /\ WithCombs(t, combs).engine = t.engine
BY DEF WellFormed, WithCombs

SameInputs(comb, new) == new.inputs = comb.inputs

LEMMA NewCombinatorsLarger ==
    ASSUME NEW t, WellFormed(t), NEW combs \in Seq(Combinator(Len(t.own))),
           \A c \in 1..Len(combs) : LanesKnown(t.own, combs[c]),
           Len(t.combs) <= Len(combs),
           \A c \in 1..Len(t.combs) : /\ LanesOf(t.combs[c]) \subseteq LanesOf(combs[c])
                                     /\ SameInputs(t.combs[c], combs[c])
    PROVE  Larger(t, WithCombs(t, combs)) /\ NewOwned(t, WithCombs(t, combs))
<1> DEFINE u == WithCombs(t, combs)
<1>1. /\ u = [engine |-> u.engine, own |-> u.own, transfers |-> u.transfers,
              combs |-> u.combs]
      /\ u.own = t.own /\ u.combs = combs /\ u.transfers = t.transfers
  BY WithCombsParts
<1> HIDE DEF u
<1>2. WellFormed(u)
  BY <1>1 DEF WellFormed
<1>3. OwnGrows(t.own, u.own) /\ NewOwned(t, u)
  BY <1>1, OwnGrowsReflexive DEF NewOwned
<1>4. \A c \in 1..Len(t.combs) : c \in 1..Len(combs)
  BY CombinatorTypes, LenProperties
<1>5. \A n : IsRead(t, n) => IsRead(u, n)
  BY <1>1, <1>4 DEF IsRead, SameInputs
<1>6. Wider(t, u)
  BY <1>1, <1>5 DEF Wider
<1> QED
  BY <1>1, <1>2, <1>3, <1>6 DEF Larger, u

(* They keep their lanes and what they read.                                *)
SameLanes(comb, new) ==
    /\ LanesOf(new) = LanesOf(comb) /\ SameInputs(comb, new)
    /\ comb.used => new.used

LEMMA SameLanesGrow ==
    ASSUME NEW t, WellFormed(t), NEW combs \in Seq(Combinator(Len(t.own))),
           \A c \in 1..Len(combs) : LanesKnown(t.own, combs[c]),
           Len(combs) = Len(t.combs),
           \A c \in 1..Len(t.combs) : SameLanes(t.combs[c], combs[c])
    PROVE  Grows(t, WithCombs(t, combs))
<1> DEFINE u == WithCombs(t, combs)
<1>1. Len(t.combs) <= Len(combs)
  BY CombinatorTypes
<1>2. Larger(t, u) /\ NewOwned(t, u)
  BY <1>1, NewCombinatorsLarger DEF SameLanes
<1>3. u.combs = combs /\ u.transfers = t.transfers
  BY WithCombsParts
<1> HIDE DEF u
<1>4. \A n : IsRead(u, n) <=> IsRead(t, n)
  BY <1>3 DEF IsRead, SameLanes, SameInputs
<1>5. \A named : Unread(t, named) => Unread(u, named)
  BY <1>3, <1>4 DEF Unread, SameLanes
<1>6. Grows(t, u)
  BY <1>2, <1>5 DEF Grows, KeepsUnread
<1> QED
  BY <1>6 DEF u

-----------------------------------------------------------------------------
(* The operators on a topology, one lemma each.                             *)
LEMMA ColoredGrows ==
    ASSUME NEW t, WellFormed(t), NEW l, NEW r, NEW expected
    PROVE  /\ Grows(t, Colored(t, l, r, expected).t)
           /\ Colored(t, l, r, expected).t.own = t.own
           /\ Colored(t, l, r, expected).t.combs = t.combs
           /\ Colored(t, l, r, expected).t.transfers = t.transfers
BY NewEngineGrows DEF Colored, Recolored, WellFormed

(* A network is added, which nobody has borrowed.                           *)
Added(owner, color) ==
    [consumed |-> FALSE, generation |-> 0, owner |-> owner, color |-> color,
     readers |-> {}, writer |-> NoBorrow]

LEMMA NewNetworkParts ==
    ASSUME NEW t, WellFormed(t), NEW owner \in Int, NEW color \in Int
    PROVE  LET new == NewNetwork(t, owner, color)
           IN  /\ new = [engine |-> new.engine, own |-> Append(t.own, Added(owner, color)),
                         transfers |-> t.transfers, combs |-> t.combs]
               /\ new.own = Append(t.own, Added(owner, color))
               /\ new.combs = t.combs /\ new.transfers = t.transfers
<1> DEFINE record == Added(owner, color)
           added == [t EXCEPT !.engine = Colors!Add(@), !.own = Append(@, record)]
<1>1. /\ added.own = Append(t.own, record) /\ added.combs = t.combs
      /\ added.transfers = t.transfers
      /\ added = [engine |-> added.engine, own |-> added.own,
                  transfers |-> added.transfers, combs |-> added.combs]
  <2> HIDE DEF record
  <2>1. t = [engine |-> t.engine, own |-> t.own, transfers |-> t.transfers,
             combs |-> t.combs]
    BY DEF WellFormed
  <2> DEFINE u == [t EXCEPT !.engine = Colors!Add(@)]
  <2>2. u = [engine |-> Colors!Add(t.engine), own |-> t.own,
             transfers |-> t.transfers, combs |-> t.combs]
    BY <2>1
  <2>3. added = [u EXCEPT !.own = Append(t.own, record)]
    OBVIOUS
  <2>4. added = [engine |-> Colors!Add(t.engine), own |-> Append(t.own, record),
                 transfers |-> t.transfers, combs |-> t.combs]
    <3> HIDE DEF u, added
    <3> QED
      BY <2>2, <2>3
  <2> HIDE DEF added
  <2> QED
    BY <2>4
<1>2. \/ NewNetwork(t, owner, color) = added
      \/ NewNetwork(t, owner, color) = Colored(added, Len(t.own) + 1, 0, color).t
  BY DEF NewNetwork, Added
<1> HIDE DEF added, record
<1>3. CASE NewNetwork(t, owner, color) = added
  BY <1>1, <1>3 DEF record
<1>4. CASE NewNetwork(t, owner, color) = Colored(added, Len(t.own) + 1, 0, color).t
  <2> DEFINE e == Colors!Unite(added.engine, Len(t.own) + 1, 0, color).engine
  <2>1. NewNetwork(t, owner, color) = [added EXCEPT !.engine = e]
    BY <1>4 DEF Colored, Recolored
  <2> HIDE DEF e
  <2> QED
    BY <1>1, <2>1 DEF record
<1> QED
  BY <1>2, <1>3, <1>4

LEMMA NewNetworkGrows ==
    ASSUME NEW t, WellFormed(t), NEW owner \in Int, NEW color \in Int
    PROVE  /\ Larger(t, NewNetwork(t, owner, color))
           /\ owner <= called => Grows(t, NewNetwork(t, owner, color))
           /\ Len(NewNetwork(t, owner, color).own) = Len(t.own) + 1
           /\ NewNetwork(t, owner, color).combs = t.combs
           /\ NewNetwork(t, owner, color).transfers = t.transfers
           /\ NewNetwork(t, owner, color).own[Len(t.own) + 1].owner = owner
<1> DEFINE u == NewNetwork(t, owner, color)
           record == Added(owner, color)
           size == Len(t.own)
<1>1. /\ u = [engine |-> u.engine, own |-> u.own, transfers |-> u.transfers,
              combs |-> u.combs]
      /\ u.own = Append(t.own, record) /\ u.combs = t.combs /\ u.transfers = t.transfers
  <2> DEFINE new == Append(t.own, record)
  <2>1. /\ u = [engine |-> u.engine, own |-> new, transfers |-> t.transfers,
                combs |-> t.combs]
        /\ u.own = new /\ u.combs = t.combs /\ u.transfers = t.transfers
    BY NewNetworkParts
  <2> HIDE DEF u, new
  <2> QED
    BY <2>1 DEF new
<1>2. record \in Ownership /\ Free(record) /\ record.owner = owner
  BY DEF Added, Ownership, NoBorrow, Free
<1> HIDE DEF record, u
<1>3. /\ size \in Nat /\ u.own \in Seq(Ownership) /\ Len(u.own) = size + 1
      /\ \A n \in 1..size : u.own[n] = t.own[n]
      /\ u.own[size + 1] = record
  BY <1>1, <1>2, OwnTypes, AppendProperties DEF WellFormed
<1>4. \A n \in 1..size : t.own[n] \in Ownership
  BY OwnTypes
<1>5. OwnGrows(t.own, u.own)
  <2>1. \A n \in 1..size : Kept(t.own[n], u.own[n])
    BY <1>3, <1>4, KeptReflexive
  <2>2. \A n \in size + 1 .. Len(u.own) : Free(u.own[n])
    BY <1>2, <1>3
  <2> QED
    BY <1>3, <2>1, <2>2 DEF OwnGrows
<1>6. u.combs \in Seq(Combinator(size + 1)) /\ u.transfers \in Seq(Link(size + 1))
  <2>1. t.combs \in Seq(Combinator(size)) /\ t.transfers \in Seq(Link(size))
    BY DEF WellFormed
  <2>2. size + 1 \in Nat /\ size <= size + 1
    BY <1>3
  <2> HIDE DEF size
  <2>3. t.combs \in Seq(Combinator(size + 1))
    BY <1>3, <2>1, <2>2, CombinatorsWiden
  <2>4. t.transfers \in Seq(Link(size + 1))
    BY <1>3, <2>1, <2>2, LinksWiden
  <2> QED
    BY <1>1, <2>3, <2>4
<1>7. ASSUME NEW c \in 1..Len(t.combs)
      PROVE  LanesKnown(u.own, t.combs[c])
  <2>1. ASSUME NEW i \in 1..Len(t.combs[c].lanes)
        PROVE  /\ t.combs[c].lanes[i].capability = "owned"
               /\ Reached(u.own, t.combs[c].lanes[i])
    <3>1. /\ t.combs[c].lanes[i] \in HandleOf(size)
          /\ t.combs[c].lanes[i].capability = "owned"
          /\ Reached(t.own, t.combs[c].lanes[i])
      BY CombinatorTypes
    <3>2. t.combs[c].lanes[i].network \in 1..size
      BY <3>1 DEF HandleOf
    <3> QED
      BY <1>3, <3>1, <3>2 DEF Reached
  <2> QED
    BY <2>1 DEF LanesKnown, WellFormed
<1>8. WellFormed(u)
  BY <1>1, <1>3, <1>6, <1>7 DEF WellFormed
<1>9. Larger(t, u)
  BY <1>1, <1>5, <1>8, SameCombinatorsWider DEF Larger
<1>10. owner <= called => NewOwned(t, u)
  BY <1>2, <1>3 DEF NewOwned
<1>11. owner <= called => Grows(t, u)
  BY <1>1, <1>9, <1>10, SameCombinatorsGrow
<1> QED
  BY <1>1, <1>2, <1>3, <1>9, <1>11 DEF u

(* A handle that is made of a network.                                      *)
LEMMA HandleTypes ==
    ASSUME NEW t, WellFormed(t), NEW n \in 1..Len(t.own), NEW borrow \in Int,
           NEW capability \in {"owned", "move", "readonly", "ref"}
    PROVE  /\ Handle(t, n, capability, borrow) \in HandleOf(Len(t.own))
           /\ Reached(t.own, Handle(t, n, capability, borrow))
<1>1. t.own[n] \in Ownership
  BY OwnTypes
<1>2. t.own[n].generation \in Int
  BY <1>1 DEF Ownership
<1> QED
  BY <1>2 DEF Handle, HandleOf, Reached

(* The newest of the networks, when there is one.                           *)
LEMMA NewestTypes ==
    ASSUME NEW t, WellFormed(t), Len(t.own) # 0
    PROVE  /\ Newest(t) \in HandleOf(Len(t.own)) /\ Reached(t.own, Newest(t))
           /\ Newest(t).capability = "owned" /\ Newest(t).network = Len(t.own)
<1>1. Len(t.own) \in 1..Len(t.own)
  BY OwnTypes
<1>2. NoBorrow \in Int
  BY DEF NoBorrow
<1>3. Newest(t).capability = "owned" /\ Newest(t).network = Len(t.own)
  BY DEF Newest, Handle
<1> QED
  BY <1>1, <1>2, <1>3, HandleTypes DEF Newest

LEMMA PaintedGrows ==
    ASSUME NEW t, WellFormed(t), NEW n, NEW color \in Int
    PROVE  Grows(t, [t EXCEPT !.own[n].color = color])
<1> DEFINE o == [t.own[n] EXCEPT !.color = color]
<1>1. ASSUME n \in 1..Len(t.own)
      PROVE  o \in Ownership /\ Kept(t.own[n], o)
  <2>1. t.own[n] \in Ownership
    BY <1>1, OwnTypes
  <2>2. /\ o \in Ownership
        /\ o.generation = t.own[n].generation /\ o.consumed = t.own[n].consumed
        /\ o.owner = t.own[n].owner
        /\ o.readers = t.own[n].readers /\ o.writer = t.own[n].writer
    BY <2>1 DEF Ownership
  <2> HIDE DEF o
  <2>3. t.own[n].generation \in Int
    BY <2>1 DEF Ownership
  <2> QED
    BY <2>2, <2>3 DEF Kept, Older, SameBorrows, Unmoved
<1>2. Grows(t, [t EXCEPT !.own[n] = o])
  <2> HIDE DEF o
  <2> QED
    BY <1>1, FieldGrows
<1> QED
  BY <1>2

LEMMA RequireColorGrows ==
    ASSUME NEW t, WellFormed(t), NEW n, NEW color \in Int, OwnersKnown
    PROVE  /\ Grows(t, RequireColor(t, n, color).t)
           /\ RequireColor(t, n, color).t.combs = t.combs
           /\ n \in 1..Len(t.own) =>
                 /\ Len(RequireColor(t, n, color).t.own) = Len(t.own)
                 /\ Unmoved(t.own[n], RequireColor(t, n, color).t.own[n])
                 /\ SameBorrows(t.own[n], RequireColor(t, n, color).t.own[n])
<1>1. CASE color = NoColor \/ t.own[n].color \notin {NoColor, color}
  BY <1>1, GrowsReflexive DEF RequireColor, Refused, Unmoved, SameBorrows
<1>2. CASE color # NoColor /\ t.own[n].color \in {NoColor, color}
  <2> DEFINE colored == Colored(t, n, 0, color)
             u == [colored.t EXCEPT !.own[n].color = color]
  <2>1. Grows(t, colored.t) /\ colored.t.own = t.own /\ colored.t.combs = t.combs
    BY ColoredGrows
  <2>2. WellFormed(colored.t)
    BY <2>1 DEF Grows, Larger
  <2>3. RequireColor(t, n, color).t = u
    BY <1>2 DEF RequireColor, Painted, Colored, Recolored
  <2> HIDE DEF colored
  <2>4. Grows(colored.t, u)
    BY <2>2, PaintedGrows
  <2>5. u.combs = colored.t.combs /\ u.own = [t.own EXCEPT ![n].color = color]
    BY <2>1, <2>2 DEF WellFormed
  <2>6. ASSUME n \in 1..Len(t.own)
        PROVE  /\ Len(u.own) = Len(t.own)
               /\ Unmoved(t.own[n], u.own[n]) /\ SameBorrows(t.own[n], u.own[n])
    <3> DEFINE own == [t.own EXCEPT ![n].color = color]
               o == [t.own[n] EXCEPT !.color = color]
    <3>1. t.own \in [1..Len(t.own) -> Ownership] /\ Len(t.own) \in Nat
          /\ t.own[n] \in Ownership
      BY <2>6, OwnTypes
    <3>2. o \in Ownership /\ Unmoved(t.own[n], o) /\ SameBorrows(t.own[n], o)
      BY <3>1 DEF Ownership, Unmoved, SameBorrows
    <3>3. own = [t.own EXCEPT ![n] = o]
      OBVIOUS
    <3> HIDE DEF own, o
    <3>4. own \in [1..Len(t.own) -> Ownership] /\ own[n] = o
      BY <2>6, <3>1, <3>2, <3>3
    <3>5. Len(own) = Len(t.own)
      BY <3>1, <3>4, FunctionIsSequence
    <3>6. u.own = own
      BY <2>5 DEF own
    <3> QED
      BY <3>2, <3>4, <3>5, <3>6
  <2> HIDE DEF u
  <2>7. Grows(t, u)
    BY <2>1, <2>4, GrowsTransitive
  <2> QED
    BY <2>1, <2>3, <2>5, <2>6, <2>7
<1> QED
  BY <1>1, <1>2

(* A network moves that nobody has borrowed, or one of the innermost frame. *)
Movable(own, n) == Free(own[n]) \/ own[n].owner = Owner(frames)

LEMMA MovedKept ==
    ASSUME NEW r \in Ownership, NEW owner \in {Owner(frames), Caller}, owner \in Int,
           Free(r) \/ r.owner = Owner(frames)
    PROVE  LET o == [r EXCEPT !.generation = @ + 1, !.owner = owner]
           IN  /\ o \in Ownership /\ Kept(r, o)
               /\ o.generation = r.generation + 1 /\ o.owner = owner
<1> DEFINE o == [r EXCEPT !.generation = @ + 1, !.owner = owner]
           p == [r EXCEPT !.generation = @ + 1]
<1>1. /\ p \in Ownership /\ p.readers = r.readers /\ p.writer = r.writer
      /\ p.generation = r.generation + 1 /\ p.consumed = r.consumed
  BY DEF Ownership
<1>2. o = [p EXCEPT !.owner = owner]
  OBVIOUS
<1> HIDE DEF p, o
<1>3. /\ o \in Ownership /\ o.readers = r.readers /\ o.writer = r.writer
      /\ o.generation = r.generation + 1 /\ o.consumed = r.consumed /\ o.owner = owner
  BY <1>1, <1>2 DEF Ownership
<1>4. r.generation \in Int
  BY DEF Ownership
<1>5. Older(r, o) /\ SameBorrows(r, o)
  BY <1>3, <1>4 DEF Older, SameBorrows
<1>6. Kept(r, o)
  BY <1>3, <1>5 DEF Kept
<1> QED
  BY <1>3, <1>6 DEF o

LEMMA MoveToGrows ==
    ASSUME NEW t, WellFormed(t), NEW n \in 1..Len(t.own), Movable(t.own, n),
           NEW owner \in {Owner(frames), Caller}, owner \in Int
    PROVE  /\ Grows(t, MoveTo(t, n, owner))
           /\ Len(MoveTo(t, n, owner).own) = Len(t.own)
           /\ MoveTo(t, n, owner).own[n].generation = t.own[n].generation + 1
           /\ MoveTo(t, n, owner).own[n].owner = owner
<1> DEFINE o == [t.own[n] EXCEPT !.generation = @ + 1, !.owner = owner]
           own == [t.own EXCEPT ![n] = o]
<1>1. /\ t.own \in [1..Len(t.own) -> Ownership] /\ Len(t.own) \in Nat
      /\ t.own[n] \in Ownership
  BY OwnTypes
<1>2. /\ o \in Ownership /\ Kept(t.own[n], o)
      /\ o.generation = t.own[n].generation + 1 /\ o.owner = owner
  <2> DEFINE r == t.own[n]
  <2>1. r \in Ownership /\ (Free(r) \/ r.owner = Owner(frames))
    BY <1>1 DEF Movable
  <2> HIDE DEF r
  <2>2. LET q == [r EXCEPT !.generation = @ + 1, !.owner = owner]
        IN  /\ q \in Ownership /\ Kept(r, q)
            /\ q.generation = r.generation + 1 /\ q.owner = owner
    BY <2>1, MovedKept
  <2> QED
    BY <2>2 DEF r
<1>3. MoveTo(t, n, owner) = [t EXCEPT !.own[n] = o]
  BY <1>1 DEF MoveTo, WellFormed, Ownership
<1>4. [t EXCEPT !.own[n] = o].own = own
  BY DEF WellFormed
<1> HIDE DEF o
<1>5. Grows(t, [t EXCEPT !.own[n] = o])
  BY <1>2, FieldGrows
<1>6. own \in [1..Len(t.own) -> Ownership] /\ own[n] = o
  BY <1>1, <1>2
<1> HIDE DEF own
<1>7. Len(own) = Len(t.own)
  BY <1>1, <1>6, FunctionIsSequence
<1> QED
  BY <1>2, <1>3, <1>4, <1>5, <1>6, <1>7

(* Outputs with a lane among these networks are marked.                     *)
Marked(t, networks) ==
    [c \in 1..Len(t.combs) |->
        [t.combs[c] EXCEPT !.used = @ \/ LanesOf(t.combs[c]) \cap networks # {}]]

LEMMA MarkedTypes ==
    ASSUME NEW t, WellFormed(t), NEW networks
    PROVE  /\ Marked(t, networks) \in Seq(Combinator(Len(t.own)))
           /\ Len(Marked(t, networks)) = Len(t.combs)
           /\ \A c \in 1..Len(t.combs) :
                 /\ LanesKnown(t.own, Marked(t, networks)[c])
                 /\ SameLanes(t.combs[c], Marked(t, networks)[c])
                 /\ ~Marked(t, networks)[c].used =>
                        /\ ~t.combs[c].used
                        /\ LanesOf(t.combs[c]) \cap networks = {}
<1> DEFINE combs == Marked(t, networks)
           Comb(c) == [t.combs[c] EXCEPT !.used = @ \/ LanesOf(t.combs[c]) \cap networks # {}]
<1>1. Len(t.combs) \in Nat
  BY CombinatorTypes
<1>2. ASSUME NEW c \in 1..Len(t.combs)
      PROVE  /\ Comb(c) \in Combinator(Len(t.own))
             /\ Comb(c).lanes = t.combs[c].lanes /\ Comb(c).inputs = t.combs[c].inputs
             /\ Comb(c).used <=> t.combs[c].used \/ LanesOf(t.combs[c]) \cap networks # {}
  <2> DEFINE touched == LanesOf(t.combs[c]) \cap networks # {}
  <2>1. t.combs[c] \in Combinator(Len(t.own)) /\ touched \in BOOLEAN
    BY CombinatorTypes
  <2> HIDE DEF touched
  <2>2. Comb(c) = [t.combs[c] EXCEPT !.used = @ \/ touched]
    BY DEF touched
  <2>3. /\ Comb(c) \in Combinator(Len(t.own))
        /\ Comb(c).lanes = t.combs[c].lanes /\ Comb(c).inputs = t.combs[c].inputs
        /\ Comb(c).used = (t.combs[c].used \/ touched)
    <3> DEFINE comb == t.combs[c]
    <3>1. comb \in Combinator(Len(t.own))
      BY <2>1
    <3> HIDE DEF comb, Comb
    <3> QED
      BY <2>1, <2>2, <3>1 DEF Combinator, comb
  <2> QED
    BY <2>3 DEF touched
<1>3. \A c \in 1..Len(t.combs) : combs[c] = Comb(c)
  BY DEF Marked
<1>4. combs \in [1..Len(t.combs) -> Combinator(Len(t.own))]
  <2>1. combs = [c \in 1..Len(t.combs) |-> Comb(c)]
    BY DEF Marked
  <2> HIDE DEF Comb, combs
  <2> QED
    BY <1>2, <2>1
<1> HIDE DEF combs, Comb
<1>5. combs \in Seq(Combinator(Len(t.own))) /\ Len(combs) = Len(t.combs)
  BY <1>1, <1>4, FunctionIsSequence
<1>6. ASSUME NEW c \in 1..Len(t.combs)
      PROVE  /\ LanesKnown(t.own, combs[c])
             /\ SameLanes(t.combs[c], combs[c])
             /\ ~combs[c].used => ~t.combs[c].used /\ LanesOf(t.combs[c]) \cap networks = {}
  <2>1. LanesKnown(t.own, t.combs[c])
    BY DEF WellFormed
  <2> QED
    BY <1>2, <1>3, <2>1 DEF LanesKnown, SameLanes, SameInputs, LanesOf
<1> QED
  BY <1>5, <1>6 DEF combs

LEMMA MarkUsedGrows ==
    ASSUME NEW t, WellFormed(t), NEW networks
    PROVE  /\ Grows(t, MarkUsed(t, networks)) /\ MarkUsed(t, networks).own = t.own
           /\ MarkUsed(t, networks).transfers = t.transfers
           /\ Len(MarkUsed(t, networks).combs) = Len(t.combs)
<1>1. MarkUsed(t, networks) = WithCombs(t, Marked(t, networks))
  BY DEF MarkUsed, Marked, WithCombs
<1>2. Grows(t, WithCombs(t, Marked(t, networks)))
  BY MarkedTypes, SameLanesGrow
<1> QED
  BY <1>1, <1>2, WithCombsParts, MarkedTypes

(* What is marked may be named from then on.                                *)
LEMMA MarkUsedUnread ==
    ASSUME NEW t, WellFormed(t), NEW networks, NEW named, Unread(t, named)
    PROVE  Unread(MarkUsed(t, networks), named \cup networks)
<1> DEFINE u == MarkUsed(t, networks)
           combs == Marked(t, networks)
<1>1. u.combs = combs /\ u.transfers = t.transfers
  <2>1. u = WithCombs(t, combs)
    BY DEF MarkUsed, Marked, WithCombs
  <2> HIDE DEF u, combs
  <2> QED
    BY <2>1, WithCombsParts
<1>2. /\ Len(combs) = Len(t.combs)
      /\ \A c \in 1..Len(t.combs) :
            /\ SameLanes(t.combs[c], combs[c])
            /\ ~combs[c].used => ~t.combs[c].used /\ LanesOf(t.combs[c]) \cap networks = {}
  BY MarkedTypes
<1> HIDE DEF u, combs
<1>3. \A n : IsRead(u, n) <=> IsRead(t, n)
  BY <1>1, <1>2 DEF IsRead, SameLanes, SameInputs
<1>4. Unread(u, named \cup networks)
  BY <1>1, <1>2, <1>3 DEF Unread, SameLanes
<1> QED
  BY <1>4 DEF u

(* The second lane of a combinator.                                         *)
LEMMA LanedLarger ==
    ASSUME NEW t, WellFormed(t), NEW c \in 1..Len(t.combs), NEW n \in 1..Len(t.own)
    PROVE  /\ Larger(t, Laned(t, c, n)) /\ NewOwned(t, Laned(t, c, n))
           /\ Laned(t, c, n).own = t.own /\ Laned(t, c, n).transfers = t.transfers
           /\ Len(Laned(t, c, n).combs) = Len(t.combs)
           /\ Len(Laned(t, c, n).combs[c].lanes) = Len(t.combs[c].lanes) + 1
           /\ \A d \in 1..Len(t.combs) :
                 /\ SameInputs(t.combs[d], Laned(t, c, n).combs[d])
                 /\ Laned(t, c, n).combs[d].used = t.combs[d].used
                 /\ LanesOf(Laned(t, c, n).combs[d]) \subseteq LanesOf(t.combs[d]) \cup {n}
<1> DEFINE size == Len(t.own)
           h == Handle(t, n, "owned", NoBorrow)
           lanes == Append(t.combs[c].lanes, h)
           comb == [t.combs[c] EXCEPT !.lanes = lanes]
           combs == [t.combs EXCEPT ![c] = comb]
           k == Len(t.combs[c].lanes)
<1>1. Len(t.combs) \in Nat /\ t.combs \in [1..Len(t.combs) -> Combinator(size)]
  BY CombinatorTypes
<1>2. /\ t.combs[c] \in Combinator(size) /\ t.combs[c].lanes \in Seq(HandleOf(size))
      /\ k \in Nat
  BY CombinatorTypes
<1>3. h \in HandleOf(size) /\ Reached(t.own, h) /\ h.capability = "owned" /\ h.network = n
  <2>1. NoBorrow \in Int
    BY DEF NoBorrow
  <2>2. h \in HandleOf(size) /\ Reached(t.own, h)
    BY <2>1, HandleTypes
  <2> QED
    BY <2>2 DEF Handle
<1>10. Laned(t, c, n) = WithCombs(t, combs)
  BY DEF Laned, WithCombs
<1>4. /\ lanes \in Seq(HandleOf(size)) /\ Len(lanes) = k + 1
      /\ \A i \in 1..k : lanes[i] = t.combs[c].lanes[i]
      /\ lanes[k + 1] = h
  <2> HIDE DEF h
  <2> QED
    BY <1>2, <1>3, AppendProperties
<1> HIDE DEF lanes
<1>5. /\ comb \in Combinator(size) /\ comb.lanes = lanes
      /\ comb.inputs = t.combs[c].inputs /\ comb.used = t.combs[c].used
  BY <1>2, <1>4 DEF Combinator
<1> HIDE DEF comb
<1>6. /\ combs \in [1..Len(t.combs) -> Combinator(size)] /\ combs[c] = comb
      /\ \A d \in 1..Len(t.combs) : d # c => combs[d] = t.combs[d]
  BY <1>1, <1>5
<1> HIDE DEF combs, h
<1>7. combs \in Seq(Combinator(size)) /\ Len(combs) = Len(t.combs)
  BY <1>1, <1>6, FunctionIsSequence
<1>8. \A i \in 1..k + 1 : i \in 1..k \/ i = k + 1
  BY <1>2
<1>9. ASSUME NEW d \in 1..Len(t.combs)
      PROVE  /\ LanesKnown(t.own, combs[d])
             /\ LanesOf(t.combs[d]) \subseteq LanesOf(combs[d])
             /\ LanesOf(combs[d]) \subseteq LanesOf(t.combs[d]) \cup {n}
             /\ SameInputs(t.combs[d], combs[d]) /\ combs[d].used = t.combs[d].used
  <2>1. LanesKnown(t.own, t.combs[d])
    BY DEF WellFormed
  <2>2. CASE d # c
    BY <1>6, <2>1, <2>2 DEF SameInputs
  <2>3. CASE d = c
    <3>1. \A i \in 1..k + 1 : lanes[i].capability = "owned" /\ Reached(t.own, lanes[i])
      BY <1>3, <1>4, <1>8, <2>1, <2>3 DEF LanesKnown
    <3>2. lanes # <<>>
      BY <1>2, <1>4, EmptySeq
    <3>3. LanesKnown(t.own, combs[c])
      BY <1>4, <1>5, <1>6, <3>1, <3>2 DEF LanesKnown
    <3>4. LanesOf(combs[c]) = {lanes[i].network : i \in 1..k + 1}
      BY <1>4, <1>5, <1>6 DEF LanesOf
    <3>5. \A i \in 1..k : i \in 1..k + 1
      BY <1>2
    <3> HIDE DEF k
    <3>6. LanesOf(t.combs[c]) = {t.combs[c].lanes[i].network : i \in 1..k}
      BY DEF LanesOf, k
    <3>7. LanesOf(t.combs[c]) \subseteq LanesOf(combs[c])
      BY <1>4, <3>4, <3>5, <3>6
    <3>8. LanesOf(combs[c]) \subseteq LanesOf(t.combs[c]) \cup {n}
      BY <1>3, <1>4, <1>8, <3>4, <3>6
    <3> QED
      BY <1>5, <1>6, <2>3, <3>3, <3>7, <3>8 DEF SameInputs
  <2> QED
    BY <2>2, <2>3
<1>11. Len(t.combs) <= Len(combs)
  BY <1>1, <1>7
<1>12. Larger(t, WithCombs(t, combs)) /\ NewOwned(t, WithCombs(t, combs))
  BY <1>7, <1>9, <1>11, NewCombinatorsLarger
<1> DEFINE u == WithCombs(t, combs)
<1>13. u.own = t.own /\ u.combs = combs /\ u.transfers = t.transfers
  BY WithCombsParts
<1>14. Len(combs[c].lanes) = k + 1
  BY <1>4, <1>5, <1>6
<1> HIDE DEF k, u
<1>15. Laned(t, c, n) = u /\ Larger(t, u) /\ NewOwned(t, u)
  BY <1>10, <1>12 DEF u
<1>16. Len(u.combs) = Len(t.combs) /\ Len(u.combs[c].lanes) = Len(t.combs[c].lanes) + 1
  BY <1>7, <1>13, <1>14 DEF k
<1>17. \A d \in 1..Len(t.combs) :
          /\ SameInputs(t.combs[d], u.combs[d]) /\ u.combs[d].used = t.combs[d].used
          /\ LanesOf(u.combs[d]) \subseteq LanesOf(t.combs[d]) \cup {n}
  BY <1>9, <1>13
<1> QED
  BY <1>13, <1>15, <1>16, <1>17

LEMMA WithSecondaryGrows ==
    ASSUME NEW t, WellFormed(t), NEW c \in 1..Len(t.combs), OwnersKnown
    PROVE  /\ Grows(t, WithSecondary(t, c))
           /\ Len(WithSecondary(t, c).combs) = Len(t.combs)
           /\ Len(WithSecondary(t, c).combs[c].lanes) = Len(t.combs[c].lanes) + 1
<1> DEFINE n == Len(t.own) + 1
           new == NewNetwork(t, Owner(frames), NoColor)
           colored == Colored(new, t.combs[c].lanes[1].network, n, 1).t
           u == Laned(colored, c, n)
<1>1. /\ Grows(t, new) /\ Len(new.own) = n /\ new.combs = t.combs
      /\ new.transfers = t.transfers
  BY NewNetworkGrows DEF NoColor, OwnersKnown
<1>2. WellFormed(new)
  BY <1>1 DEF Grows, Larger
<1>3. /\ Grows(new, colored) /\ colored.own = new.own /\ colored.combs = new.combs
      /\ colored.transfers = new.transfers
  BY <1>2, ColoredGrows
<1>4. WellFormed(colored) /\ n \in 1..Len(colored.own) /\ c \in 1..Len(colored.combs)
  <2>1. n \in 1..n
    BY OwnTypes
  <2> QED
    BY <1>1, <1>3, <2>1 DEF Grows, Larger
<1>5. WithSecondary(t, c) = u
  BY DEF WithSecondary
<1>6. Len(t.own) \in Nat /\ n \notin 1..Len(t.own)
  BY OwnTypes
<1> HIDE DEF colored, new, n
<1>7. /\ Larger(colored, u) /\ NewOwned(colored, u)
      /\ u.own = colored.own /\ u.transfers = colored.transfers
      /\ Len(u.combs) = Len(t.combs)
      /\ Len(u.combs[c].lanes) = Len(t.combs[c].lanes) + 1
      /\ \A d \in 1..Len(t.combs) :
            /\ SameInputs(t.combs[d], u.combs[d]) /\ u.combs[d].used = t.combs[d].used
            /\ LanesOf(u.combs[d]) \subseteq LanesOf(t.combs[d]) \cup {n}
  <2>1. /\ Larger(colored, u) /\ NewOwned(colored, u)
        /\ u.own = colored.own /\ u.transfers = colored.transfers
        /\ Len(u.combs) = Len(colored.combs)
        /\ Len(u.combs[c].lanes) = Len(colored.combs[c].lanes) + 1
        /\ \A d \in 1..Len(colored.combs) :
              /\ SameInputs(colored.combs[d], u.combs[d])
              /\ u.combs[d].used = colored.combs[d].used
              /\ LanesOf(u.combs[d]) \subseteq LanesOf(colored.combs[d]) \cup {n}
    BY <1>4, LanedLarger
  <2>2. colored.combs = t.combs
    BY <1>1, <1>3
  <2> HIDE DEF u
  <2> QED
    BY <2>1, <2>2
<1> HIDE DEF u
<1>8. Larger(t, u)
  BY <1>1, <1>2, <1>3, <1>4, <1>7, LargerTransitive DEF Grows
<1>9. NewOwned(t, u)
  BY <1>1, <1>3, <1>7 DEF Grows, NewOwned
<1>10. \A m : IsRead(u, m) <=> IsRead(t, m)
  BY <1>1, <1>3, <1>7 DEF IsRead, SameInputs
<1>11. ASSUME NEW named \in SUBSET (1..Len(t.own)), Unread(t, named)
       PROVE  Unread(u, named)
  <2>1. ~IsRead(t, n) /\ n \notin named
    BY <1>6, ReadInRange
  <2> QED
    BY <1>7, <1>10, <1>11, <2>1 DEF Unread
<1> QED
  BY <1>5, <1>7, <1>8, <1>9, <1>11 DEF Grows, KeepsUnread

(* One or two handles of a topology.                                        *)
OneOrTwoOf(t, hs) == hs \in Seq(HandleOf(Len(t.own))) /\ Len(hs) \in {1, 2}

LEMMA OneOrTwoTypes ==
    ASSUME NEW t, NEW hs, OneOrTwoOf(t, hs)
    PROVE  /\ hs[1] \in HandleOf(Len(t.own)) /\ 1 \in 1..Len(hs)
           /\ Len(hs) # 1 => hs[2] \in HandleOf(Len(t.own)) /\ 2 \in 1..Len(hs)
<1>1. 1 \in 1..Len(hs) /\ (Len(hs) # 1 => 2 \in 1..Len(hs))
  <2>1. \A k \in {1, 2} : 1 \in 1..k /\ (k # 1 => 2 \in 1..k)
    OBVIOUS
  <2> QED
    BY <2>1 DEF OneOrTwoOf
<1> DEFINE H == HandleOf(Len(t.own))
<1>2. hs \in Seq(H)
  BY DEF OneOrTwoOf
<1> HIDE DEF H
<1>3. \A i \in 1..Len(hs) : hs[i] \in H
  BY <1>2, ElementOfSeq
<1> QED
  BY <1>1, <1>3 DEF H

LEMMA FreeLanesTypes ==
    ASSUME NEW t, WellFormed(t), NEW c \in 1..Len(t.combs)
    PROVE  FreeLanes(t, c) \in Seq(HandleOf(Len(t.own)))
<1> DEFINE H == HandleOf(Len(t.own))
           lanes == t.combs[c].lanes
           Free1(i) == IF Consumable(t, lanes[i]) THEN <<lanes[i]>> ELSE <<>>
<1>1. Len(lanes) \in Nat \ {0} /\ \A i \in 1..Len(lanes) : lanes[i] \in H
  BY CombinatorTypes
<1>2. \A i \in 1..Len(lanes) : Free1(i) \in Seq(H)
  <2>1. \A i \in 1..Len(lanes) : <<lanes[i]>> \in Seq(H)
    <3> HIDE DEF H, lanes
    <3> QED
      BY <1>1
  <2> HIDE DEF H, lanes
  <2> QED
    BY <2>1
<1>3. CASE Len(lanes) = 1
  <2>1. FreeLanes(t, c) = Free1(1) /\ 1 \in 1..Len(lanes)
    BY <1>3 DEF FreeLanes
  <2> QED
    BY <1>2, <2>1
<1>4. CASE Len(lanes) # 1
  <2>1. FreeLanes(t, c) = Free1(1) \o Free1(2)
    BY <1>4 DEF FreeLanes
  <2>2. 1 \in 1..Len(lanes) /\ 2 \in 1..Len(lanes)
    <3>1. \A k \in Nat : k # 0 /\ k # 1 => 1 \in 1..k /\ 2 \in 1..k
      OBVIOUS
    <3> HIDE DEF H, lanes
    <3> QED
      BY <1>1, <1>4, <3>1, Zenon
  <2> HIDE DEF Free1
  <2> QED
    BY <1>2, <2>1, <2>2, ConcatProperties
<1> QED
  BY <1>3, <1>4

LEMMA TakeLanesGrows ==
    ASSUME NEW t, WellFormed(t), NEW c \in 1..Len(t.combs), NEW count \in {1, 2},
           OwnersKnown
    PROVE  LET taken == TakeLanes(t, c, count)
           IN  /\ Grows(t, taken.t) /\ WellFormed(taken.t)
               /\ taken.ok => /\ OneOrTwoOf(taken.t, taken.lanes)
                              /\ Len(taken.lanes) = count
<1> DEFINE u == IF Len(FreeLanes(t, c)) < count /\ Len(t.combs[c].lanes) < 2
                THEN WithSecondary(t, c) ELSE t
           free == FreeLanes(u, c)
           first == FirstLanes(u, free, count)
<1>1. Grows(t, u) /\ c \in 1..Len(u.combs)
  BY GrowsReflexive, WithSecondaryGrows
<1> HIDE DEF u
<1>2. free \in Seq(HandleOf(Len(u.own))) /\ WellFormed(u)
  BY <1>1, FreeLanesTypes DEF Grows, Larger
<1>3. TakeLanes(t, c, count) = first
  BY DEF TakeLanes, FreeLanesOf, u
<1> HIDE DEF free
<1>4. first.t = u
  BY DEF FirstLanes
<1>5. ASSUME first.ok
      PROVE  OneOrTwoOf(u, first.lanes) /\ Len(first.lanes) = count
  <2>1. Len(free) >= count /\ Len(free) \in Nat
    BY <1>2, <1>5, LenProperties DEF FirstLanes
  <2>2. first.lanes = SubSeq(free, 1, count)
    BY <2>1 DEF FirstLanes
  <2>3. /\ SubSeq(free, 1, count) \in Seq(HandleOf(Len(u.own)))
        /\ Len(SubSeq(free, 1, count)) = count
    BY <1>2, <2>1, SubSeqProperties
  <2> QED
    BY <2>2, <2>3 DEF OneOrTwoOf
<1> HIDE DEF first
<1> QED
  BY <1>1, <1>2, <1>3, <1>4, <1>5

(* What a step that may be refused returns.                                 *)
Outcome(t, result) ==
    result = [ok |-> result.ok, t |-> result.t] /\ Grows(t, result.t)

LEMMA RefusedGrows ==
    ASSUME NEW t, WellFormed(t)
    PROVE  Outcome(t, Refused(t)) /\ ~Refused(t).ok
BY GrowsReflexive DEF Outcome, Refused

LEMMA ConsumedGrows ==
    ASSUME NEW t, WellFormed(t), NEW n \in 1..Len(t.own), Free(t.own[n])
    PROVE  /\ Grows(t, [t EXCEPT !.own[n].consumed = TRUE])
           /\ [t EXCEPT !.own[n].consumed = TRUE].combs = t.combs
           /\ [t EXCEPT !.own[n].consumed = TRUE].transfers = t.transfers
           /\ Len([t EXCEPT !.own[n].consumed = TRUE].own) = Len(t.own)
<1> DEFINE o == [t.own[n] EXCEPT !.consumed = TRUE]
           own == [t.own EXCEPT ![n] = o]
<1>1. o \in Ownership /\ Kept(t.own[n], o)
  <2>1. t.own[n] \in Ownership
    BY OwnTypes
  <2>2. /\ o \in Ownership
        /\ o.generation = t.own[n].generation /\ o.consumed
        /\ o.owner = t.own[n].owner
        /\ o.readers = t.own[n].readers /\ o.writer = t.own[n].writer
    BY <2>1 DEF Ownership
  <2> HIDE DEF o
  <2>3. t.own[n].generation \in Int
    BY <2>1 DEF Ownership
  <2> QED
    BY <2>2, <2>3 DEF Kept, Older, SameBorrows
<1>2. Grows(t, [t EXCEPT !.own[n] = o])
  <2> HIDE DEF o
  <2> QED
    BY <1>1, FieldGrows
<1>3. /\ [t EXCEPT !.own[n] = o].own = own /\ [t EXCEPT !.own[n] = o].combs = t.combs
      /\ [t EXCEPT !.own[n] = o].transfers = t.transfers
  BY DEF WellFormed
<1>4. Len(own) = Len(t.own)
  <2> HIDE DEF o
  <2>1. own \in [1..Len(t.own) -> Ownership] /\ Len(t.own) \in Nat
    BY <1>1, OwnTypes
  <2> HIDE DEF own
  <2> QED
    BY <2>1, FunctionIsSequence
<1>5. [t EXCEPT !.own[n].consumed = TRUE] = [t EXCEPT !.own[n] = o]
  OBVIOUS
<1> HIDE DEF own
<1> QED
  BY <1>2, <1>3, <1>4, <1>5

(* A transfer is added to the list, and its ends are marked.                *)
Linked2(t, destination, source) ==
    MarkUsed([t EXCEPT !.transfers = Append(@, <<destination, source>>)],
             {destination, source})

LEMMA LinkedGrows ==
    ASSUME NEW t, WellFormed(t),
           NEW destination \in 1..Len(t.own), NEW source \in 1..Len(t.own)
    PROVE  Grows(t, Linked2(t, destination, source))
<1> DEFINE link == <<destination, source>>
           transfers == Append(t.transfers, link)
           ends == {destination, source}
           u == [t EXCEPT !.transfers = Append(@, link)]
           v == MarkUsed(u, ends)
           size == Len(t.transfers)
<1>1. /\ transfers \in Seq(Link(Len(t.own))) /\ Len(transfers) = size + 1
      /\ \A i \in 1..size : transfers[i] = t.transfers[i]
      /\ transfers[size + 1] = link
  <2>1. link \in Link(Len(t.own))
    BY DEF Link
  <2> HIDE DEF link
  <2> QED
    BY <2>1, AppendProperties DEF WellFormed
<1>2. size \in Nat
  BY TransferTypes
<1>3. /\ u = [engine |-> u.engine, own |-> u.own, transfers |-> u.transfers,
              combs |-> u.combs]
      /\ u.own = t.own /\ u.combs = t.combs /\ u.transfers = transfers
  <2>1. t = [engine |-> t.engine, own |-> t.own, transfers |-> t.transfers,
             combs |-> t.combs]
    BY DEF WellFormed
  <2>2. u = [t EXCEPT !.transfers = transfers]
    OBVIOUS
  <2> HIDE DEF transfers, u
  <2>3. u = [engine |-> t.engine, own |-> t.own, transfers |-> transfers,
             combs |-> t.combs]
    BY <2>1, <2>2
  <2> QED
    BY <2>3
<1> HIDE DEF u, transfers
<1>4. WellFormed(u)
  BY <1>1, <1>3 DEF WellFormed
<1>5. \A i \in 1..size + 1 : i \in 1..size \/ i = size + 1
  BY <1>2
<1>6. \A i \in 1..size : i \in 1..size + 1
  BY <1>2
<1>7. \A n : IsRead(t, n) => IsRead(u, n)
  BY <1>1, <1>3, <1>6 DEF IsRead
<1>8. \A n : IsRead(u, n) => IsRead(t, n) \/ n \in ends
  BY <1>1, <1>3, <1>5 DEF IsRead
<1>9. Larger(t, u) /\ NewOwned(t, u)
  BY <1>3, <1>4, <1>7, OwnGrowsReflexive, CombinatorTypes DEF Larger, NewOwned, Wider
<1>10. Grows(u, v) /\ v.own = u.own
  BY <1>4, MarkUsedGrows
<1>11. Larger(t, v) /\ NewOwned(t, v)
  BY <1>3, <1>9, <1>10, LargerTransitive DEF Grows, NewOwned
<1>12. ASSUME NEW named \in SUBSET (1..Len(t.own)), Unread(t, named)
       PROVE  Unread(v, named)
  <2>1. /\ v.transfers = u.transfers /\ v.combs = Marked(u, ends)
    BY <1>4, WithCombsParts DEF MarkUsed, WithCombs, Marked
  <2>2. /\ Len(v.combs) = Len(t.combs)
        /\ \A c \in 1..Len(t.combs) :
              /\ SameLanes(t.combs[c], v.combs[c])
              /\ ~v.combs[c].used => ~t.combs[c].used /\ LanesOf(t.combs[c]) \cap ends = {}
    BY <1>3, <1>4, <2>1, MarkedTypes
  <2> HIDE DEF v, ends
  <2>3. \A n : IsRead(v, n) <=> IsRead(u, n)
    BY <1>3, <2>1, <2>2 DEF IsRead, SameLanes, SameInputs
  <2> QED
    BY <1>8, <1>12, <2>2, <2>3 DEF Unread, SameLanes
<1>13. Grows(t, v)
  BY <1>11, <1>12 DEF Grows, KeepsUnread
<1> QED
  BY <1>13 DEF Linked2, v, u, transfers

LEMMA LinkedAndConsumed ==
    ASSUME NEW t, WellFormed(t), NEW source, NEW link
    PROVE  [t EXCEPT !.transfers = Append(@, link), !.own[source].consumed = TRUE]
               = [[t EXCEPT !.own[source].consumed = TRUE] EXCEPT
                     !.transfers = Append(@, link)]
<1> DEFINE own == [t.own EXCEPT ![source].consumed = TRUE]
           links == Append(t.transfers, link)
<1>1. t = [engine |-> t.engine, own |-> t.own, transfers |-> t.transfers,
           combs |-> t.combs]
  BY DEF WellFormed
<1>2. [t EXCEPT !.own[source].consumed = TRUE] = [t EXCEPT !.own = own]
  OBVIOUS
<1>3. [t EXCEPT !.transfers = Append(@, link), !.own[source].consumed = TRUE]
          = [t EXCEPT !.transfers = links, !.own = own]
  OBVIOUS
<1> HIDE DEF own
<1>4. [t EXCEPT !.own = own]
          = [engine |-> t.engine, own |-> own, transfers |-> t.transfers, combs |-> t.combs]
  BY <1>1
<1> DEFINE u == [t EXCEPT !.own = own]
           v == [u EXCEPT !.transfers = Append(@, link)]
<1>5. u.transfers = t.transfers
  BY <1>4
<1>6. v = [u EXCEPT !.transfers = links]
  <2>1. v = [u EXCEPT !.transfers = Append(u.transfers, link)]
    OBVIOUS
  <2> HIDE DEF u, v
  <2> QED
    BY <1>5, <2>1
<1> HIDE DEF links
<1> DEFINE w == [t EXCEPT !.transfers = links]
<1>7. w = [engine |-> t.engine, own |-> t.own, transfers |-> links, combs |-> t.combs]
  BY <1>1
<1>8. [t EXCEPT !.transfers = links, !.own = own] = [w EXCEPT !.own = own]
  OBVIOUS
<1> HIDE DEF u, v, w
<1>9. [w EXCEPT !.own = own]
          = [engine |-> t.engine, own |-> own, transfers |-> links, combs |-> t.combs]
  BY <1>7
<1>10. u = [engine |-> t.engine, own |-> own, transfers |-> t.transfers, combs |-> t.combs]
  BY <1>4 DEF u
<1>11. v = [engine |-> t.engine, own |-> own, transfers |-> links, combs |-> t.combs]
  BY <1>6, <1>10
<1> QED
  BY <1>2, <1>3, <1>8, <1>9, <1>11 DEF u, v

LEMMA TransferredGrows ==
    ASSUME NEW t, NEW same, WellFormed(t), OwnersKnown, Outcome(t, same),
           NEW destination \in 1..Len(same.t.own), NEW source \in 1..Len(same.t.own),
           Free(same.t.own[source])
    PROVE  Outcome(t, Transferred(same, destination, source))
<1>1. CASE ~same.ok
  BY <1>1 DEF Transferred
<1>2. CASE same.ok
  <2> DEFINE s == same.t
             u == [s EXCEPT !.own[source].consumed = TRUE]
             w == Linked2(u, destination, source)
  <2>1. Grows(t, s) /\ WellFormed(s)
    BY DEF Outcome, Grows, Larger
  <2>2. Transferred(same, destination, source) = [same EXCEPT !.t = w]
    <3>1. [s EXCEPT !.transfers = Append(@, <<destination, source>>),
                    !.own[source].consumed = TRUE]
              = [u EXCEPT !.transfers = Append(@, <<destination, source>>)]
      BY <2>1, LinkedAndConsumed
    <3> HIDE DEF u
    <3> QED
      BY <1>2, <3>1 DEF Transferred, Linked2
  <2>3. Grows(s, u) /\ Len(u.own) = Len(s.own)
    BY <2>1, ConsumedGrows
  <2> HIDE DEF u, s
  <2>4. WellFormed(u) /\ destination \in 1..Len(u.own) /\ source \in 1..Len(u.own)
    BY <2>3 DEF Grows, Larger, s
  <2>5. Grows(u, w)
    BY <2>4, LinkedGrows
  <2> HIDE DEF w
  <2>6. Grows(t, w)
    BY <2>1, <2>3, <2>5, GrowsTransitive
  <2> QED
    BY <2>2, <2>6 DEF Outcome
<1> QED
  BY <1>1, <1>2

LEMMA TransferNetworkGrows ==
    ASSUME NEW t, WellFormed(t), OwnersKnown, NEW destination \in HandleOf(Len(t.own)),
           NEW source \in HandleOf(Len(t.own))
    PROVE  Outcome(t, TransferNetwork(t, destination, source))
<1> DEFINE same == Colored(t, destination.network, source.network, 0)
<1>1. Outcome(t, same) /\ same.t.own = t.own
  <2>1. Grows(t, same.t) /\ same.t.own = t.own
    BY ColoredGrows
  <2>2. same = [ok |-> same.ok, t |-> same.t]
    BY DEF Colored, Recolored
  <2> HIDE DEF same
  <2> QED
    BY <2>1, <2>2 DEF Outcome
<1>2. destination.network \in 1..Len(t.own) /\ source.network \in 1..Len(t.own)
  BY DEF HandleOf
<1> HIDE DEF same
<1>3. CASE ~Consumable(t, source) \/ destination.network = source.network
  BY <1>3, RefusedGrows DEF TransferNetwork
<1>4. CASE Consumable(t, source) /\ destination.network # source.network
  <2>1. Free(same.t.own[source.network])
    BY <1>1, <1>4 DEF Consumable, Of, Free
  <2>2. TransferNetwork(t, destination, source)
            = Transferred(same, destination.network, source.network)
    BY <1>4 DEF TransferNetwork, same
  <2> QED
    BY <1>1, <1>2, <2>1, <2>2, TransferredGrows
<1> QED
  BY <1>3, <1>4

LEMMA TransferAllGrows ==
    ASSUME NEW t, WellFormed(t), OwnersKnown, NEW destinations, NEW sources,
           destinations[1] \in HandleOf(Len(t.own)), OneOrTwoOf(t, sources),
           Len(sources) # 1 => destinations[2] \in HandleOf(Len(t.own))
    PROVE  Outcome(t, TransferAll(t, destinations, sources))
<1> DEFINE first == TransferNetwork(t, destinations[1], sources[1])
           second == TransferNetwork(first.t, destinations[2], sources[2])
<1>1. /\ sources[1] \in HandleOf(Len(t.own))
      /\ Len(sources) # 1 => sources[2] \in HandleOf(Len(t.own))
  BY OneOrTwoTypes
<1>2. Outcome(t, first)
  BY <1>1, TransferNetworkGrows
<1> HIDE DEF first
<1>3. WellFormed(first.t) /\ HandleOf(Len(t.own)) \subseteq HandleOf(Len(first.t.own))
  BY <1>2, OwnTypes, HandlesWiden DEF Outcome, Grows, Larger, OwnGrows
<1>4. ASSUME Len(sources) # 1
      PROVE  Outcome(t, second)
  <2>1. Outcome(first.t, second)
    BY <1>1, <1>3, <1>4, TransferNetworkGrows
  <2> HIDE DEF second
  <2> QED
    BY <1>2, <2>1, GrowsTransitive DEF Outcome
<1>5. Len(sources) # 1 => Outcome(t, TransferNext(first, destinations[2], sources[2]))
  BY <1>2, <1>4 DEF TransferNext
<1> QED
  BY <1>2, <1>5 DEF TransferAll, first


(* The inputs of a connector are coloured apart.                            *)
LEMMA RegisterInputsGrows ==
    ASSUME NEW t, WellFormed(t), NEW inputs
    PROVE  LET result == RegisterInputs(t, inputs)
           IN  /\ Outcome(t, result) /\ result.t.own = t.own
               /\ result.t.combs = t.combs /\ result.t.transfers = t.transfers
<1> DEFINE result == RegisterInputs(t, inputs)
           Same(r) == /\ Outcome(t, r) /\ r.t.own = t.own
                      /\ r.t.combs = t.combs /\ r.t.transfers = t.transfers
<1>1. \/ result = Refused(t)
      \/ result = [ok |-> TRUE, t |-> t]
      \/ \E l, r : result = Colored(t, l, r, 1)
  BY DEF RegisterInputs
<1> SUFFICES Same(result)
  OBVIOUS
<1> HIDE DEF result
<1>2. CASE result = Refused(t)
  BY <1>2, RefusedGrows DEF Refused
<1>3. CASE result = [ok |-> TRUE, t |-> t]
  BY <1>3, GrowsReflexive DEF Outcome
<1>4. CASE \E l, r : result = Colored(t, l, r, 1)
  <2>1. PICK l, r : result = Colored(t, l, r, 1)
    BY <1>4
  <2>2. result = [ok |-> result.ok, t |-> result.t]
    BY <2>1 DEF Colored, Recolored
  <2>3. /\ Grows(t, result.t) /\ result.t.own = t.own
        /\ result.t.combs = t.combs /\ result.t.transfers = t.transfers
    BY <2>1, ColoredGrows
  <2> QED
    BY <2>2, <2>3 DEF Outcome
<1> QED
  BY <1>1, <1>2, <1>3, <1>4

(* A combinator is added whose lane is a network, and which reads inputs.   *)
LEMMA CombinatorOnLarger ==
    ASSUME NEW t, WellFormed(t), NEW n \in 1..Len(t.own), NEW inputs \in SUBSET (1..Len(t.own))
    PROVE  LET u == CombinatorOn(t, n, inputs)
               size == Len(t.combs)
           IN  /\ Larger(t, u) /\ NewOwned(t, u)
               /\ u.own = t.own /\ u.transfers = t.transfers
               /\ Len(u.combs) = size + 1
               /\ \A c \in 1..size : u.combs[c] = t.combs[c]
               /\ LanesOf(u.combs[size + 1]) = {n} /\ u.combs[size + 1].inputs = inputs
<1> DEFINE size == Len(t.combs)
           h == Handle(t, n, "owned", NoBorrow)
           comb == [lanes |-> <<h>>, inputs |-> inputs, used |-> FALSE]
           combs == Append(t.combs, comb)
<1>1. size \in Nat /\ t.combs \in Seq(Combinator(Len(t.own)))
  BY CombinatorTypes DEF WellFormed
<1>2. h \in HandleOf(Len(t.own)) /\ Reached(t.own, h) /\ h.capability = "owned" /\ h.network = n
  <2>1. NoBorrow \in Int
    BY DEF NoBorrow
  <2>2. h \in HandleOf(Len(t.own)) /\ Reached(t.own, h)
    BY <2>1, HandleTypes
  <2> QED
    BY <2>2 DEF Handle
<1>3. CombinatorOn(t, n, inputs) = WithCombs(t, combs)
  BY DEF CombinatorOn, WithCombs
<1> HIDE DEF h
<1>4. comb \in Combinator(Len(t.own)) /\ LanesKnown(t.own, comb) /\ LanesOf(comb) = {n}
  <2> DEFINE H == HandleOf(Len(t.own))
             lanes == <<h>>
  <2>1. lanes \in Seq(H) /\ Len(lanes) = 1 /\ lanes[1] = h /\ lanes # <<>>
    <3> HIDE DEF H
    <3> QED
      BY <1>2 DEF H
  <2>2. comb = [lanes |-> lanes, inputs |-> inputs, used |-> FALSE]
    OBVIOUS
  <2> HIDE DEF lanes
  <2>3. /\ comb \in Combinator(Len(t.own)) /\ comb.lanes = lanes
    BY <2>1, <2>2 DEF Combinator
  <2> HIDE DEF comb
  <2>6. \A i \in 1..1 : i = 1
    OBVIOUS
  <2>4. LanesKnown(t.own, comb)
    BY <1>2, <2>1, <2>3, <2>6 DEF LanesKnown
  <2>5. LanesOf(comb) = {n}
    <3>1. LanesOf(comb) = {lanes[i].network : i \in 1..1}
      BY <2>1, <2>3 DEF LanesOf
    <3>2. 1 \in 1..1
      OBVIOUS
    <3> QED
      BY <1>2, <2>1, <2>6, <3>1, <3>2
  <2> QED
    BY <2>3, <2>4, <2>5
<1>5. comb.inputs = inputs
  OBVIOUS
<1> HIDE DEF comb
<1>6. /\ combs \in Seq(Combinator(Len(t.own))) /\ Len(combs) = size + 1
      /\ \A c \in 1..size : combs[c] = t.combs[c]
      /\ combs[size + 1] = comb
  BY <1>1, <1>4, AppendProperties
<1> HIDE DEF combs
<1>7. \A c \in 1..size + 1 : c \in 1..size \/ c = size + 1
  BY <1>1
<1>8. \A c \in 1..Len(combs) : LanesKnown(t.own, combs[c])
  BY <1>4, <1>6, <1>7 DEF WellFormed
<1>9. \A c \in 1..size : /\ LanesOf(t.combs[c]) \subseteq LanesOf(combs[c])
                        /\ SameInputs(t.combs[c], combs[c])
  BY <1>6 DEF SameInputs
<1>10. size <= Len(combs)
  BY <1>1, <1>6
<1>11. Larger(t, WithCombs(t, combs)) /\ NewOwned(t, WithCombs(t, combs))
  BY <1>6, <1>8, <1>9, <1>10, NewCombinatorsLarger
<1> DEFINE u == WithCombs(t, combs)
<1>12. u.own = t.own /\ u.combs = combs /\ u.transfers = t.transfers
  BY WithCombsParts
<1>13. CombinatorOn(t, n, inputs) = u /\ Larger(t, u) /\ NewOwned(t, u)
  BY <1>3, <1>11
<1> HIDE DEF u
<1> QED
  BY <1>4, <1>5, <1>6, <1>12, <1>13

(* A combinator is made of conditions, and its output is a new network.     *)
LEMMA CreateCombinatorGrows ==
    ASSUME NEW t, WellFormed(t), OwnersKnown,
           NEW inputs \in SUBSET (1..Len(t.own)), inputs \subseteq UNION conditions
    PROVE  Outcome(t, CreateCombinator(t, inputs))
<1> DEFINE n == Len(t.own) + 1
           new == NewNetwork(t, Owner(frames), NoColor)
           u == CombinatorOn(new, n, inputs)
           result == RegisterInputs(u, inputs)
           size == Len(t.combs)
<1>1. /\ Grows(t, new) /\ Len(new.own) = n /\ new.combs = t.combs
      /\ new.transfers = t.transfers
  BY NewNetworkGrows DEF NoColor, OwnersKnown
<1>2. WellFormed(new)
  BY <1>1 DEF Grows, Larger
<1>3. Len(t.own) \in Nat /\ n \notin 1..Len(t.own) /\ n \in 1..n /\ size \in Nat
  BY OwnTypes, CombinatorTypes
<1> HIDE DEF new
<1>4. inputs \in SUBSET (1..Len(new.own)) /\ n \in 1..Len(new.own)
  BY <1>1, <1>3
<1>5. /\ Larger(new, u) /\ NewOwned(new, u) /\ u.own = new.own
      /\ u.transfers = new.transfers /\ Len(u.combs) = size + 1
      /\ \A c \in 1..size : u.combs[c] = t.combs[c]
      /\ LanesOf(u.combs[size + 1]) = {n} /\ u.combs[size + 1].inputs = inputs
  <2> HIDE DEF n
  <2> DEFINE k == Len(new.combs)
  <2>1. /\ Larger(new, u) /\ NewOwned(new, u) /\ u.own = new.own
        /\ u.transfers = new.transfers /\ Len(u.combs) = k + 1
        /\ \A c \in 1..k : u.combs[c] = new.combs[c]
        /\ LanesOf(u.combs[k + 1]) = {n} /\ u.combs[k + 1].inputs = inputs
    BY <1>2, <1>4, CombinatorOnLarger
  <2> HIDE DEF u
  <2> QED
    BY <1>1, <2>1, Zenon
<1>6. CreateCombinator(t, inputs) = result
  BY DEF CreateCombinator, new
<1> HIDE DEF u, n, size
<1>7. Larger(t, u) /\ NewOwned(t, u)
  BY <1>1, <1>2, <1>5, LargerTransitive DEF Grows, NewOwned
<1>8. \A c \in 1..size + 1 : c \in 1..size \/ c = size + 1
  BY <1>3
<1>9. \A m : IsRead(u, m) => IsRead(t, m) \/ m \in inputs
  <2>1. \A i : i \in 1..Len(u.transfers) => i \in 1..Len(t.transfers)
                                             /\ u.transfers[i] = t.transfers[i]
    BY <1>1, <1>5
  <2>2. \A c \in 1..Len(u.combs) :
           \/ u.combs[c].inputs = inputs
           \/ c \in 1..Len(t.combs) /\ u.combs[c].inputs = t.combs[c].inputs
    BY <1>5, <1>8 DEF size
  <2> QED
    BY <2>1, <2>2 DEF IsRead
<1>10. ASSUME NEW named \in SUBSET (1..Len(t.own)), UNION conditions \subseteq named,
              Unread(t, named)
       PROVE  Unread(u, named)
  <2>1. ~IsRead(t, n) /\ n \notin named /\ n \notin inputs
    BY <1>3, ReadInRange
  <2>2. ASSUME NEW c \in 1..Len(u.combs), ~u.combs[c].used, NEW m \in LanesOf(u.combs[c])
        PROVE  ~IsRead(u, m) /\ m \notin named
    <3>1. CASE c \in 1..size
      BY <1>5, <1>9, <1>10, <2>2, <3>1 DEF Unread, size
    <3>2. CASE c = size + 1
      BY <1>5, <1>9, <2>1, <2>2, <3>2
    <3> QED
      BY <1>5, <1>8, <3>1, <3>2
  <2> QED
    BY <2>2 DEF Unread
<1>11. Grows(t, u) /\ WellFormed(u)
  BY <1>7, <1>10 DEF Grows, KeepsUnread, Larger
<1>12. Outcome(u, result)
  BY <1>11, RegisterInputsGrows
<1> HIDE DEF result
<1>13. Outcome(t, result)
  BY <1>11, <1>12, GrowsTransitive DEF Outcome
<1> QED
  BY <1>6, <1>13

(* Networks are joined in a new one.                                        *)
LEMMA JoinAllGrows ==
    ASSUME NEW t, WellFormed(t), OwnersKnown, NEW inputs, OneOrTwoOf(t, inputs)
    PROVE  LET result == JoinAll(t, inputs)
           IN  Outcome(t, result) /\ (result.ok => Len(result.t.own) # 0)
<1> DEFINE new == NewNetwork(t, Owner(frames), NoColor)
           result == JoinAll(t, inputs)
           destinations == [i \in 1..Len(inputs) |-> Newest(new)]
           joined == TransferAll(new, destinations, inputs)
<1>1. Grows(t, new) /\ Len(new.own) = Len(t.own) + 1
  BY NewNetworkGrows DEF NoColor, OwnersKnown
<1>2. \/ result = Refused(t) \/ result = Refused(new) \/ result = joined
  BY DEF JoinAll, JoinNew, JoinInto
<1> HIDE DEF new
<1>3. WellFormed(new) /\ Len(t.own) \in Nat
  BY <1>1, OwnTypes DEF Grows, Larger
<1>4. /\ destinations[1] = Newest(new)
      /\ Len(inputs) # 1 => destinations[2] = Newest(new)
  BY OneOrTwoTypes
<1>5. Newest(new) \in HandleOf(Len(new.own))
  BY <1>1, <1>3, NewestTypes
<1>6. OneOrTwoOf(new, inputs)
  <2> DEFINE m == Len(t.own)
             k == Len(new.own)
  <2>1. HandleOf(m) \subseteq HandleOf(k)
    BY <1>1, <1>3, HandlesWiden
  <2>2. inputs \in Seq(HandleOf(m))
    BY DEF OneOrTwoOf
  <2> HIDE DEF m, k
  <2>3. inputs \in Seq(HandleOf(k))
    BY <2>1, <2>2, SeqMonotonic
  <2> QED
    BY <2>3 DEF OneOrTwoOf, k
<1> SUFFICES Outcome(t, result) /\ (result.ok => Len(result.t.own) # 0)
  OBVIOUS
<1> HIDE DEF destinations, result
<1>7. Outcome(new, joined)
  BY <1>3, <1>4, <1>5, <1>6, TransferAllGrows
<1> HIDE DEF joined
<1>8. CASE result = Refused(t)
  BY <1>8, RefusedGrows
<1>9. CASE result = Refused(new)
  BY <1>1, <1>9 DEF Refused, Outcome
<1>10. CASE result = joined
  <2>1. Grows(t, joined.t)
    BY <1>1, <1>7, GrowsTransitive DEF Outcome
  <2>2. Len(new.own) <= Len(joined.t.own)
    BY <1>7 DEF Outcome, Grows, Larger, OwnGrows
  <2> QED
    BY <1>1, <1>3, <1>7, <1>10, <2>1, <2>2 DEF Outcome
<1> QED
  BY <1>2, <1>8, <1>9, <1>10

(* What is restored has a copy of the colours.                              *)
LEMMA RestoredGrows ==
    ASSUME NEW saved, WellFormed(saved)
    PROVE  Grows(saved, Restored(saved)) /\ Restored(saved).own = saved.own
           /\ Restored(saved).combs = saved.combs
           /\ Restored(saved).transfers = saved.transfers
BY NewEngineGrows DEF Restored, WellFormed

(* The networks of a returned value move on, and its lanes are renewed.     *)
LEMMA ReturnAllGrows ==
    ASSUME NEW networks \in SUBSET (1..Len(topology.own)), NEW lanes, NEW marked,
           WellFormed(topology), OwnersKnown,
           \A n \in networks : topology.own[n].owner = Owner(frames),
           \A lane \in lanes : lane.network \in networks
    PROVE  LET u == ReturnAll(networks, lanes, marked)
           IN  /\ Grows(topology, u) /\ Len(u.own) = Len(topology.own)
               /\ \A n \in networks :
                     u.own[n].generation = topology.own[n].generation + 1
<1> DEFINE size == Len(topology.own)
           Movement(n) == [topology.own[n] EXCEPT !.generation = @ + 1, !.owner = Caller]
           moved == [n \in 1..size |-> IF n \in networks THEN Movement(n)
                                       ELSE topology.own[n]]
           Renewed(lane) == IF lane \in lanes
                            THEN [lane EXCEPT !.generation = @ + 1, !.capability = "owned"]
                            ELSE lane
           Comb(c) == [topology.combs[c] EXCEPT
                          !.lanes = [i \in 1..Len(@) |-> Renewed(@[i])]]
           combs == [c \in 1..Len(topology.combs) |-> Comb(c)]
           v == [topology EXCEPT !.own = moved]
           w == WithCombs(v, combs)
           u == MarkUsed(w, IF marked THEN networks ELSE {})
<1>1. ReturnAll(networks, lanes, marked) = u
  <2>1. w = [topology EXCEPT !.own = moved, !.combs = combs]
    BY DEF WithCombs
  <2> QED
    BY <2>1 DEF ReturnAll
<1>2. /\ topology.own \in [1..size -> Ownership] /\ size \in Nat
      /\ \A n \in 1..size : topology.own[n] \in Ownership
  BY OwnTypes
<1>3. ASSUME NEW n \in networks
      PROVE  /\ Movement(n) \in Ownership /\ Kept(topology.own[n], Movement(n))
             /\ Movement(n).generation = topology.own[n].generation + 1
  <2> DEFINE r == topology.own[n]
             q == [r EXCEPT !.generation = @ + 1, !.owner = Caller]
  <2>1. r \in Ownership /\ r.owner = Owner(frames)
    BY <1>2
  <2> HIDE DEF r
  <2>2. /\ q \in Ownership /\ Kept(r, q) /\ q.generation = r.generation + 1
    BY <2>1, MovedKept DEF OwnersKnown
  <2> QED
    BY <2>2 DEF r
<1> HIDE DEF Movement
<1>4. moved \in [1..size -> Ownership]
  BY <1>2, <1>3
<1>5. \A n \in 1..size : Kept(topology.own[n], moved[n])
  BY <1>2, <1>3, KeptReflexive
<1>6. \A n \in networks : moved[n].generation = topology.own[n].generation + 1
  BY <1>3
<1> HIDE DEF moved
<1>7. Grows(topology, v)
  BY <1>4, <1>5, NewOwnGrows
<1>8. v.own = moved /\ v.combs = topology.combs /\ v.transfers = topology.transfers
  BY DEF WellFormed
<1>9. WellFormed(v)
  BY <1>7 DEF Grows, Larger
<1>10. Len(moved) = size
  BY <1>2, <1>4, FunctionIsSequence
<1> HIDE DEF v, w
<1>11. ASSUME NEW c \in 1..Len(topology.combs)
       PROVE  /\ Comb(c) \in Combinator(size)
              /\ LanesKnown(moved, Comb(c)) /\ SameLanes(topology.combs[c], Comb(c))
  <2> DEFINE comb == topology.combs[c]
             k == Len(comb.lanes)
             new == [i \in 1..k |-> Renewed(comb.lanes[i])]
  <2>1. /\ comb \in Combinator(size) /\ comb.lanes \in Seq(HandleOf(size))
        /\ k \in Nat \ {0} /\ 1 \in 1..k
        /\ \A i \in 1..k : /\ comb.lanes[i] \in HandleOf(size)
                           /\ comb.lanes[i].capability = "owned"
                           /\ Reached(topology.own, comb.lanes[i])
    BY CombinatorTypes
  <2>2. ASSUME NEW i \in 1..k
        PROVE  /\ Renewed(comb.lanes[i]) \in HandleOf(size)
               /\ Renewed(comb.lanes[i]).network = comb.lanes[i].network
               /\ Renewed(comb.lanes[i]).capability = "owned"
               /\ Reached(moved, Renewed(comb.lanes[i]))
    <3> DEFINE h == comb.lanes[i]
               p == [h EXCEPT !.generation = @ + 1]
    <3>1. /\ h \in HandleOf(size) /\ h.capability = "owned" /\ Reached(topology.own, h)
      BY <2>1
    <3> SUFFICES /\ Renewed(h) \in HandleOf(size) /\ Renewed(h).network = h.network
                 /\ Renewed(h).capability = "owned" /\ Reached(moved, Renewed(h))
      OBVIOUS
    <3> HIDE DEF h
    <3>2. h.network \in 1..size /\ h.generation \in Int
      BY <3>1 DEF HandleOf
    <3>3. /\ topology.own[h.network].generation \in Int
          /\ moved[h.network].generation \in Int
          /\ topology.own[h.network].generation <= moved[h.network].generation
      BY <1>2, <1>4, <1>5, <3>2 DEF Kept, Older, Ownership
    <3>4. CASE h \notin lanes
      BY <3>1, <3>2, <3>3, <3>4 DEF Reached
    <3>5. CASE h \in lanes
      <4>1. /\ p \in HandleOf(size) /\ p.network = h.network
            /\ p.generation = h.generation + 1
        BY <3>1 DEF HandleOf
      <4>2. Renewed(h) = [p EXCEPT !.capability = "owned"]
        BY <3>5
      <4> HIDE DEF p, Renewed
      <4>3. /\ Renewed(h) \in HandleOf(size) /\ Renewed(h).network = h.network
            /\ Renewed(h).generation = h.generation + 1
            /\ Renewed(h).capability = "owned"
        BY <4>1, <4>2 DEF HandleOf
      <4>4. moved[h.network].generation = topology.own[h.network].generation + 1
        BY <1>6, <3>5
      <4> QED
        BY <3>1, <3>2, <3>3, <4>3, <4>4 DEF Reached
    <3> QED
      BY <3>4, <3>5
  <2> HIDE DEF Renewed
  <2>3. new \in [1..k -> HandleOf(size)]
    BY <2>2
  <2>4. Comb(c) = [comb EXCEPT !.lanes = new]
    OBVIOUS
  <2>5. \A i \in 1..k : /\ new[i].network = comb.lanes[i].network
                        /\ new[i].capability = "owned" /\ Reached(moved, new[i])
    BY <2>2
  <2> HIDE DEF new
  <2>6. new \in Seq(HandleOf(size)) /\ Len(new) = k
    BY <2>1, <2>3, FunctionIsSequence
  <2> HIDE DEF comb, Comb
  <2>7. /\ Comb(c) \in Combinator(size) /\ Comb(c).lanes = new
        /\ Comb(c).inputs = comb.inputs /\ Comb(c).used = comb.used
    BY <2>1, <2>4, <2>6 DEF Combinator
  <2>8. new # <<>>
    BY <2>1, <2>6, EmptySeq
  <2>9. LanesKnown(moved, Comb(c))
    BY <2>5, <2>6, <2>7, <2>8 DEF LanesKnown
  <2> HIDE DEF k
  <2>10. LanesOf(Comb(c)) = LanesOf(comb)
    <3>1. LanesOf(comb) = {comb.lanes[i].network : i \in 1..k}
      BY DEF LanesOf, k
    <3>2. LanesOf(Comb(c)) = {new[i].network : i \in 1..k}
      BY <2>6, <2>7 DEF LanesOf
    <3> QED
      BY <2>5, <3>1, <3>2
  <2>11. SameLanes(comb, Comb(c))
    BY <2>7, <2>10 DEF SameLanes, SameInputs
  <2> QED
    BY <2>7, <2>9, <2>11 DEF comb
<1>12. \A c \in 1..Len(topology.combs) : combs[c] = Comb(c)
  OBVIOUS
<1>13. combs \in [1..Len(topology.combs) -> Combinator(size)]
  <2> HIDE DEF Comb
  <2> QED
    BY <1>11
<1> HIDE DEF combs, Comb
<1>14. Len(topology.combs) \in Nat
  BY CombinatorTypes
<1>15. combs \in Seq(Combinator(size)) /\ Len(combs) = Len(topology.combs)
  BY <1>13, <1>14, FunctionIsSequence
<1>16. Grows(v, w)
  <2>1. /\ combs \in Seq(Combinator(Len(v.own))) /\ Len(combs) = Len(v.combs)
        /\ \A c \in 1..Len(combs) : LanesKnown(v.own, combs[c])
        /\ \A c \in 1..Len(v.combs) : SameLanes(v.combs[c], combs[c])
    BY <1>8, <1>10, <1>11, <1>12, <1>15
  <2>2. Grows(v, WithCombs(v, combs))
    BY <1>9, <2>1, SameLanesGrow
  <2> QED
    BY <2>2 DEF w
<1>17. WellFormed(w) /\ w.own = v.own
  <2>1. WithCombs(v, combs).own = v.own
    BY <1>9, WithCombsParts
  <2> QED
    BY <1>16, <2>1 DEF Grows, Larger, w
<1>18. Grows(w, u) /\ u.own = w.own
  BY <1>17, MarkUsedGrows
<1> HIDE DEF u
<1>19. Grows(topology, u)
  BY <1>7, <1>16, <1>18, <1>9, GrowsTransitive
<1>20. u.own = moved
  BY <1>8, <1>17, <1>18
<1> QED
  BY <1>1, <1>6, <1>10, <1>19, <1>20

-----------------------------------------------------------------------------
(* The inductive invariant.                                                 *)
BorrowRecord == [network : Int, capability : {"readonly", "ref"}, active : BOOLEAN]

FrameRecord == [owner : Int, borrows : SUBSET Int, moves : SUBSET Int,
                references : SUBSET Int]

(* The borrows that the first k frames of a stack hold.                     *)
Held(stack, k) == {b \in Int : \E i \in 1..k : b \in stack[i].borrows}

(* The networks have noted the borrows that are held, and no other.         *)
HeldOf(log, held, n, capability) ==
    {b \in held : log[b].network = n /\ log[b].capability = capability}

Noted(own, log, held, n) ==
    /\ own[n].readers = HeldOf(log, held, n, "readonly")
    /\ {own[n].writer} \ {NoBorrow} = HeldOf(log, held, n, "ref")
    /\ own[n].writer # NoBorrow => own[n].readers = {}

Reflects(own, log, held) ==
    /\ \A b \in held : log[b].network \in 1..Len(own)
    /\ \A n \in 1..Len(own) : Noted(own, log, held, n)

(* A borrow is active while one frame holds it, and only one does.          *)
FramesHold ==
    /\ \A i \in 1..Len(frames) : frames[i].borrows \subseteq 1..Len(borrows)
    /\ \A i, j \in 1..Len(frames) : i # j => frames[i].borrows \cap frames[j].borrows = {}
    /\ \A b \in 1..Len(borrows) :
          borrows[b].active <=> \E i \in 1..Len(frames) : b \in frames[i].borrows

(* The frames are of the functions that were entered, in their order, and   *)
(* what is owned is owned by a function that was entered.                   *)
OwnersRise ==
    /\ \A i \in 1..Len(frames) : 0 < frames[i].owner /\ frames[i].owner <= called
    /\ \A i, j \in 1..Len(frames) : i < j => frames[i].owner < frames[j].owner

OwnedByCalled(t) == \A n \in 1..Len(t.own) : t.own[n].owner <= called

(* A frame that holds a borrow is at least as deep as the one that owns the *)
(* network, if a frame does.                                                *)
DeepEnough(t, stack, k) ==
    \A n \in 1..Len(t.own), i, j \in 1..k :
        /\ stack[i].owner = t.own[n].owner
        /\ stack[j].borrows \cap BorrowsOf(t, n) # {}
        => i <= j

(* No handle is of a generation that its network has not reached ...        *)
Known == "moves" \in forgotten \/ \A h \in handles : Reached(topology.own, h)

(* ... and what was moved into a function is among what the frame of the    *)
(* function will give up, while nothing else has become of it.              *)
HeldBy(t, stack, k, h) ==
    \E i \in 1..k : /\ stack[i].owner = t.own[h.network].owner
                    /\ h.network \in stack[i].moves

MovesHeld(t, stack, k) ==
    "moves" \in forgotten \/ \A h \in handles :
        h.capability = "move" /\ h.network \in 1..Len(t.own) /\ Alive(t, h)
            => HeldBy(t, stack, k, h)

(* What conditions and pairs have named.                                    *)
Named(kept, paired, undone) ==
    UNION (kept \cup (IF "pairs" \in undone THEN {} ELSE paired))

NamedKnown(t, kept, paired, undone) ==
    /\ kept \subseteq SUBSET (1..Len(t.own))
    /\ Named(kept, paired, undone) \subseteq 1..Len(t.own)

ReadsMarked(t, kept, paired, undone) ==
    "reads" \in undone \/ Unread(t, Named(kept, paired, undone))

(* A topology comes after another one: ...                                  *)
Ages(t, u) ==
    /\ Len(t.own) <= Len(u.own)
    /\ \A n \in 1..Len(t.own) : Older(t.own[n], u.own[n])
    /\ Wider(t, u)

(* ... and has not moved what was borrowed in it.                           *)
LeavesBorrowed(t, u) ==
    \A n \in 1..Len(t.own) : ~Free(t.own[n]) => Unmoved(t.own[n], u.own[n])

(* What a rollback would restore is in step with the frames that would be   *)
(* left.                                                                    *)
InStep(saved, depth, paired) ==
    /\ WellFormed(saved) /\ OwnedByCalled(saved)
    /\ Reflects(saved.own, borrows, Held(frames, depth))
    /\ DeepEnough(saved, frames, depth) /\ MovesHeld(saved, frames, depth)
    /\ Ages(saved, topology) /\ LeavesBorrowed(saved, topology)
    /\ "pairs" \in forgotten \/ UNION paired \subseteq 1..Len(saved.own)

FactoryInStep ==
    /\ factory.phase \in {"none", "begun", "running", "left"}
    /\ factory.phase # "none" =>
          /\ factory = [phase |-> factory.phase, depth |-> factory.depth,
                        saved |-> factory.saved, pairs |-> factory.pairs]
          /\ factory.depth \in Nat /\ factory.depth <= Len(frames)
          /\ factory.phase = "running" => factory.depth < Len(frames)
          /\ factory.phase \in {"begun", "left"} => factory.depth = Len(frames)
          /\ InStep(factory.saved, factory.depth, factory.pairs)

Typed ==
    /\ WellFormed(topology)
    /\ handles \subseteq HandleOf(Len(topology.own))
    /\ borrows \in Seq(BorrowRecord)
    /\ frames \in Seq(FrameRecord)
    /\ called \in Nat

Inv ==
    /\ Typed /\ OwnersRise /\ OwnedByCalled(topology)
    /\ FramesHold
    /\ Reflects(topology.own, borrows, Held(frames, Len(frames)))
    /\ DeepEnough(topology, frames, Len(frames))
    /\ Known /\ MovesHeld(topology, frames, Len(frames))
    /\ NamedKnown(topology, conditions, pairs, forgotten)
    /\ ReadsMarked(topology, conditions, pairs, forgotten)
    /\ FactoryInStep

LEMMA FrameTypes ==
    ASSUME Typed
    PROVE  /\ Len(frames) \in Nat /\ frames \in [1..Len(frames) -> FrameRecord]
           /\ \A i \in 1..Len(frames) : frames[i] \in FrameRecord
           /\ Len(borrows) \in Nat /\ borrows \in [1..Len(borrows) -> BorrowRecord]
           /\ \A b \in 1..Len(borrows) : borrows[b] \in BorrowRecord
BY LenProperties DEF Typed

LEMMA LastFrame ==
    ASSUME Typed, frames # <<>>
    PROVE  /\ Len(frames) \in 1..Len(frames) /\ Frame \in FrameRecord
           /\ Frame = frames[Len(frames)] /\ Owner(frames) = frames[Len(frames)].owner
<1>1. Len(frames) \in 1..Len(frames)
  BY EmptySeq, LenProperties DEF Typed
<1> QED
  BY <1>1, FrameTypes DEF Frame, Owner

(* The owners of the frames were entered.                                   *)
LEMMA OwnersAreKnown ==
    ASSUME Typed, OwnersRise
    PROVE  OwnersKnown
<1>1. ASSUME NEW stack \in Seq(FrameRecord),
             \A i \in 1..Len(stack) : stack[i].owner <= called
      PROVE  Owner(stack) \in Int /\ Owner(stack) <= called
  <2>1. CASE stack = <<>>
    BY <2>1 DEF Owner, TopLevel, Typed
  <2>2. CASE stack # <<>>
    <3>1. Len(stack) \in 1..Len(stack)
      BY <2>2, EmptySeq, LenProperties
    <3>2. stack[Len(stack)] \in FrameRecord
      BY <3>1, ElementOfSeq
    <3>3. Owner(stack) = stack[Len(stack)].owner
      BY <2>2 DEF Owner
    <3> QED
      BY <1>1, <3>1, <3>2, <3>3 DEF FrameRecord
  <2> QED
    BY <2>1, <2>2
<1>2. Owner(frames) \in Int /\ Owner(frames) <= called
  BY <1>1 DEF Typed, OwnersRise
<1>3. Caller \in Int /\ Caller <= called
  <2> DEFINE last == Len(frames)
             rest == SubSeq(frames, 1, last - 1)
  <2>1. last \in Nat /\ frames \in Seq(FrameRecord)
    BY FrameTypes DEF Typed
  <2>2. CASE last = 0
    <3>1. rest = <<>>
      BY <2>2, SubSeqProperties DEF Typed
    <3>2. Caller = TopLevel
      BY <3>1 DEF Caller, Owner
    <3> QED
      BY <3>2 DEF TopLevel, Typed
  <2>3. CASE last # 0
    <3>1. /\ rest \in Seq(FrameRecord) /\ Len(rest) = last - 1
          /\ \A i \in 1..last - 1 : rest[i] = frames[i]
      <4>1. \A i \in 1..last - 1 : frames[i] \in FrameRecord
        BY <2>1, FrameTypes
      <4>2. 1 \in Int /\ last - 1 \in Int
        BY <2>1
      <4> HIDE DEF last
      <4>3. /\ rest \in Seq(FrameRecord)
            /\ Len(rest) = IF 1 <= last - 1 THEN (last - 1) - 1 + 1 ELSE 0
            /\ \A i \in 1..(last - 1) - 1 + 1 : rest[i] = frames[1 + i - 1]
        BY <4>1, <4>2, SubSeqProperties
      <4> HIDE DEF rest
      <4>4. last \in Nat /\ last # 0
        BY <2>1, <2>3
      <4> QED
        BY <4>3, <4>4
    <3>2. \A i \in 1..last - 1 : i \in 1..last
      BY <2>1
    <3>3. \A i \in 1..Len(rest) : rest[i].owner <= called
      BY <3>1, <3>2 DEF OwnersRise
    <3> HIDE DEF rest
    <3>4. Owner(rest) \in Int /\ Owner(rest) <= called
      BY <1>1, <3>1, <3>3
    <3> QED
      BY <3>4 DEF Caller, rest
  <2> QED
    BY <2>2, <2>3
<1> QED
  BY <1>2, <1>3 DEF OwnersKnown, Typed

LEMMA UsableTypes ==
    ASSUME Typed, NEW h \in Usable
    PROVE  /\ h \in HandleOf(Len(topology.own)) /\ h.network \in 1..Len(topology.own)
           /\ h \in handles \/ h.capability = "owned"
<1>1. ASSUME NEW c \in 1..Len(topology.combs)
      PROVE  /\ topology.combs[c].lanes[1] \in HandleOf(Len(topology.own))
             /\ topology.combs[c].lanes[1].capability = "owned"
  BY CombinatorTypes DEF Typed
<1>2. h \in HandleOf(Len(topology.own)) /\ (h \in handles \/ h.capability = "owned")
  BY <1>1 DEF Usable, Typed
<1> QED
  BY <1>2 DEF HandleOf

(* What is alive is of the generation that its network has.                 *)
LEMMA CurrentIsReached ==
    ASSUME NEW t, WellFormed(t), NEW h \in HandleOf(Len(t.own)), Current(t, h)
    PROVE  Reached(t.own, h)
<1>1. h.network \in 1..Len(t.own) /\ h.generation \in Int
  BY DEF HandleOf
<1> QED
  BY <1>1 DEF Current, Of, Reached

LEMMA HeldInRange ==
    ASSUME Typed, FramesHold, NEW k \in 0..Len(frames)
    PROVE  Held(frames, k) \subseteq 1..Len(borrows)
BY FrameTypes DEF Held, FramesHold

(* The borrows of a network are those of it that frames hold.               *)
LEMMA BorrowsAreHeld ==
    ASSUME Typed, FramesHold, NEW k \in 0..Len(frames), NEW t,
           Reflects(t.own, borrows, Held(frames, k)), NEW n \in 1..Len(t.own)
    PROVE  BorrowsOf(t, n) = {b \in Held(frames, k) : borrows[b].network = n}
<1> DEFINE held == Held(frames, k)
<1>1. \A b \in held : borrows[b].capability \in {"readonly", "ref"}
  BY HeldInRange, FrameTypes DEF BorrowRecord
<1>2. Noted(t.own, borrows, held, n)
  BY DEF Reflects
<1> HIDE DEF held
<1>3. BorrowsOf(t, n) = HeldOf(borrows, held, n, "readonly") \cup HeldOf(borrows, held, n, "ref")
  BY <1>2 DEF Noted, BorrowsOf
<1>4. BorrowsOf(t, n) = {b \in held : borrows[b].network = n}
  BY <1>1, <1>3 DEF HeldOf
<1> QED
  BY <1>4 DEF held

LEMMA FreeHasNoBorrows ==
    ASSUME NEW t, NEW n
    PROVE  Free(t.own[n]) <=> BorrowsOf(t, n) = {}
BY DEF Free, BorrowsOf

(* The networks that are added have no borrows, and no borrow is of them.   *)
LEMMA ReflectsGrows ==
    ASSUME NEW t, NEW u, WellFormed(t), Larger(t, u), NEW log, NEW held,
           Reflects(t.own, log, held)
    PROVE  Reflects(u.own, log, held)
<1>1. Len(t.own) \in Nat /\ Len(u.own) \in Nat /\ Len(t.own) <= Len(u.own)
  BY OwnTypes DEF Larger, OwnGrows
<1>2. \A b \in held : log[b].network \in 1..Len(t.own)
  BY DEF Reflects
<1>3. \A b \in held : log[b].network \in 1..Len(u.own)
  BY <1>1, <1>2
<1>4. ASSUME NEW n \in 1..Len(u.own)
      PROVE  Noted(u.own, log, held, n)
  <2>1. CASE n \in 1..Len(t.own)
    <3>1. SameBorrows(t.own[n], u.own[n])
      BY <2>1 DEF Larger, OwnGrows, Kept
    <3>2. Noted(t.own, log, held, n)
      BY <2>1 DEF Reflects
    <3> QED
      BY <3>1, <3>2 DEF SameBorrows, Noted
  <2>2. CASE n \notin 1..Len(t.own)
    <3>1. n \in Len(t.own) + 1 .. Len(u.own)
      BY <1>1, <2>2
    <3>2. Free(u.own[n])
      BY <3>1 DEF Larger, OwnGrows
    <3>3. \A b \in held : log[b].network # n
      BY <1>2, <2>2
    <3> QED
      BY <3>2, <3>3 DEF Free, Noted, HeldOf
  <2> QED
    BY <2>1, <2>2
<1> QED
  BY <1>3, <1>4 DEF Reflects

(* What is restored does not see a borrow that is added to the log.         *)
LEMMA ReflectsLonger ==
    ASSUME NEW own, NEW log, NEW longer, NEW held, Reflects(own, log, held),
           \A b \in held : /\ longer[b].network = log[b].network
                           /\ longer[b].capability = log[b].capability
    PROVE  Reflects(own, longer, held)
<1>1. \A n, c : HeldOf(longer, held, n, c) = HeldOf(log, held, n, c)
  BY DEF HeldOf
<1> QED
  BY <1>1 DEF Reflects, Noted

(* What is read of the frames may be read of any stack that holds the same. *)
LEMMA HeldSame ==
    ASSUME NEW stack, NEW other, NEW k \in Nat,
           \A i \in 1..k : other[i].borrows = stack[i].borrows
    PROVE  Held(other, k) = Held(stack, k)
BY DEF Held

LEMMA InitInv == Init => Inv
<1> SUFFICES ASSUME Init PROVE Inv
  OBVIOUS
<1>1. Len(<<>>) = 0 /\ \A S : <<>> \in Seq(S)
  BY EmptySeq
<1>2. /\ WellFormed(topology) /\ topology.own = <<>> /\ topology.combs = <<>>
      /\ handles = {}
  BY <1>1 DEF Init, WellFormed
<1>3. Typed /\ OwnersRise /\ OwnedByCalled(topology)
  BY <1>1, <1>2 DEF Init, Typed, OwnersRise, OwnedByCalled
<1>4. FramesHold
  BY <1>1 DEF Init, FramesHold
<1>5. Held(frames, Len(frames)) = {}
  BY <1>1 DEF Init, Held
<1>6. Reflects(topology.own, borrows, Held(frames, Len(frames)))
  BY <1>1, <1>2, <1>5 DEF Reflects
<1>7. FactoryInStep
  BY DEF Init, FactoryInStep, NoFactory
<1>8. Known /\ MovesHeld(topology, frames, Len(frames))
      /\ DeepEnough(topology, frames, Len(frames))
  BY <1>1, <1>2 DEF Known, MovesHeld, DeepEnough
<1>9. /\ NamedKnown(topology, conditions, pairs, forgotten)
      /\ ReadsMarked(topology, conditions, pairs, forgotten)
  BY <1>1, <1>2 DEF Init, NamedKnown, Named, ReadsMarked, Unread
<1> QED
  BY <1>3, <1>4, <1>6, <1>7, <1>8, <1>9 DEF Inv

-----------------------------------------------------------------------------
(* Every step but a rollback leads onward: a network that is borrowed stays *)
(* where it is, unless it is of the innermost frame.                        *)
Settles(r, s) ==
    /\ Older(r, s)
    /\ Free(r) \/ r.owner = Owner(frames) \/ Unmoved(r, s)

Leads(t, u) ==
    /\ Len(t.own) <= Len(u.own)
    /\ \A n \in 1..Len(t.own) : Settles(t.own[n], u.own[n])
    /\ Wider(t, u)

LEMMA LargerLeads ==
    ASSUME NEW t, NEW u, Larger(t, u)
    PROVE  Leads(t, u)
BY DEF Larger, OwnGrows, Kept, Leads, Settles

(* Of a network of the innermost frame, that frame holds the borrows.       *)
LEMMA InnermostBorrows ==
    ASSUME Inv, NEW n \in 1..Len(topology.own),
           topology.own[n].owner = Owner(frames), NEW b \in BorrowsOf(topology, n),
           NEW j \in 1..Len(frames), b \in frames[j].borrows
    PROVE  j = Len(frames)
<1>1. Len(frames) \in Nat /\ frames # <<>>
  BY FrameTypes, EmptySeq DEF Inv
<1>2. Len(frames) \in 1..Len(frames) /\ Owner(frames) = frames[Len(frames)].owner
  BY <1>1, LastFrame DEF Inv
<1>3. Len(frames) <= j
  BY <1>2 DEF Inv, DeepEnough
<1> QED
  BY <1>1, <1>3

(* A handle that is given, and was not before: if it was moved in, it has a *)
(* generation of its own.                                                   *)
New(h) ==
    h.capability = "move" /\ h.network \in 1..Len(topology.own) =>
        topology.own[h.network].generation < h.generation

SameEntries ==
    \A b \in 1..Len(borrows) : /\ borrows'[b].network = borrows[b].network
                               /\ borrows'[b].capability = borrows[b].capability

(* The snapshot stays in step.                                              *)
LEMMA InStepKept ==
    ASSUME Inv, NEW saved, NEW depth \in 0..Len(frames), NEW paired,
           InStep(saved, depth, paired),
           WellFormed(topology'), Leads(topology, topology'),
           \/ depth < Len(frames)
           \/ \A n \in 1..Len(topology.own) : Unmoved(topology.own[n], topology'.own[n]),
           \A i \in 1..depth : frames'[i] = frames[i],
           SameEntries, called' \in Nat, called <= called', forgotten \subseteq forgotten',
           \A h \in handles' \ handles : h \in HandleOf(Len(topology'.own)) /\ New(h)
    PROVE  InStep(saved, depth, paired)'
<1>1. /\ Typed /\ FramesHold /\ WellFormed(topology) /\ WellFormed(saved)
      /\ Len(frames) \in Nat /\ called \in Nat
  BY FrameTypes DEF Inv, Typed, InStep
<1>2. /\ Len(saved.own) \in Nat /\ Len(topology.own) \in Nat /\ Len(topology'.own) \in Nat
      /\ Len(saved.own) <= Len(topology.own) /\ Len(topology.own) <= Len(topology'.own)
      /\ \A n \in 1..Len(saved.own) : saved.own[n] \in Ownership
      /\ \A n \in 1..Len(topology.own) : topology.own[n] \in Ownership
      /\ \A n \in 1..Len(topology'.own) : topology'.own[n] \in Ownership
  BY <1>1, OwnTypes DEF InStep, Ages, Leads
<1>3. \A n \in 1..Len(saved.own) : n \in 1..Len(topology.own) /\ n \in 1..Len(topology'.own)
  BY <1>2
<1>4. OwnedByCalled(saved)'
  <2>1. \A n \in 1..Len(saved.own) : saved.own[n].owner \in Int /\ saved.own[n].owner <= called
    BY <1>2 DEF Ownership, InStep, OwnedByCalled
  <2> QED
    BY <1>1, <2>1 DEF OwnedByCalled
<1>5. Held(frames', depth) = Held(frames, depth)
  BY HeldSame
<1>6. Reflects(saved.own, borrows', Held(frames', depth))
  <2> DEFINE held == Held(frames, depth)
  <2>1. Reflects(saved.own, borrows, held) /\ held \subseteq 1..Len(borrows)
    BY <1>1, HeldInRange DEF InStep
  <2> HIDE DEF held
  <2>2. Reflects(saved.own, borrows', held)
    BY <2>1, ReflectsLonger DEF SameEntries
  <2> QED
    BY <1>5, <2>2 DEF held
<1>7. DeepEnough(saved, frames', depth)
  BY DEF InStep, DeepEnough
<1>8. MovesHeld(saved, frames, depth)'
  <2> SUFFICES ASSUME "moves" \notin forgotten', NEW h \in handles', h.capability = "move",
                      h.network \in 1..Len(saved.own), Alive(saved, h)
               PROVE  HeldBy(saved, frames', depth, h)
    BY DEF MovesHeld
  <2>1. CASE h \in handles
    <3>1. HeldBy(saved, frames, depth, h)
      BY <2>1 DEF InStep, MovesHeld
    <3> QED
      BY <3>1 DEF HeldBy
  <2>2. CASE h \notin handles
    <3> DEFINE n == h.network
    <3>1. /\ n \in 1..Len(topology.own) /\ h.generation = saved.own[n].generation
          /\ h.generation \in Int
      BY <1>3, <2>2 DEF Alive, Current, Of, HandleOf
    <3>2. topology.own[n].generation < h.generation
      BY <2>2, <3>1 DEF New
    <3>3. saved.own[n].generation <= topology.own[n].generation
      BY DEF InStep, Ages, Older
    <3>4. topology.own[n].generation \in Int
      BY <1>2, <3>1 DEF Ownership
    <3> HIDE DEF n
    <3> QED
      BY <3>1, <3>2, <3>3, <3>4
  <2> QED
    BY <2>1, <2>2
<1>9. Ages(saved, topology')
  <2>1. \A n \in 1..Len(saved.own) : Older(saved.own[n], topology'.own[n])
    <3>1. \A n \in 1..Len(saved.own) : /\ Older(saved.own[n], topology.own[n])
                                       /\ Older(topology.own[n], topology'.own[n])
      BY <1>3 DEF InStep, Ages, Leads, Settles
    <3> QED
      BY <1>2, <1>3, <3>1, OlderTransitive
  <2>2. Wider(saved, topology')
    BY <1>1, <1>2, WiderTransitive DEF InStep, Ages, Leads
  <2> QED
    BY <1>2, <2>1, <2>2 DEF Ages
<1>10. LeavesBorrowed(saved, topology')
  <2> SUFFICES ASSUME NEW n \in 1..Len(saved.own), ~Free(saved.own[n])
               PROVE  Unmoved(saved.own[n], topology'.own[n])
    BY DEF LeavesBorrowed
  <2>1. Unmoved(saved.own[n], topology.own[n])
    BY DEF InStep, LeavesBorrowed
  <2>2. CASE \A m \in 1..Len(topology.own) : Unmoved(topology.own[m], topology'.own[m])
    BY <1>3, <2>1, <2>2 DEF Unmoved
  <2>3. CASE depth < Len(frames)
    <3>1. PICK b : b \in BorrowsOf(saved, n)
      BY FreeHasNoBorrows
    <3>2. b \in Held(frames, depth) /\ borrows[b].network = n
      BY <1>1, <3>1, BorrowsAreHeld DEF InStep
    <3>3. PICK j \in 1..depth : b \in frames[j].borrows
      BY <3>2 DEF Held
    <3>4. j \in 1..Len(frames) /\ j # Len(frames) /\ n \in 1..Len(topology.own)
      BY <1>1, <1>3, <2>3
    <3>5. b \in BorrowsOf(topology, n)
      <4>1. Len(frames) \in 0..Len(frames) /\ b \in Held(frames, Len(frames))
        BY <1>1, <3>2, <3>3, <3>4 DEF Held
      <4> QED
        BY <1>1, <3>2, <3>4, <4>1, BorrowsAreHeld DEF Inv
    <3>6. topology.own[n].owner # Owner(frames) /\ ~Free(topology.own[n])
      BY <3>3, <3>4, <3>5, InnermostBorrows, FreeHasNoBorrows
    <3>7. Unmoved(topology.own[n], topology'.own[n])
      BY <3>4, <3>6 DEF Leads, Settles
    <3> QED
      BY <2>1, <3>7 DEF Unmoved
  <2> QED
    BY <2>2, <2>3
<1> QED
  BY <1>1, <1>4, <1>6, <1>7, <1>8, <1>9, <1>10 DEF InStep

LEMMA KnownKept ==
    ASSUME Inv, WellFormed(topology'), Leads(topology, topology'),
           forgotten \subseteq forgotten',
           \A h \in handles' \ handles : Reached(topology'.own, h)
    PROVE  Known'
<1> SUFFICES ASSUME "moves" \notin forgotten', NEW h \in handles'
             PROVE  Reached(topology'.own, h)
  BY DEF Known
<1>1. CASE h \in handles
  <2>1. h.network \in 1..Len(topology.own) /\ h.generation \in Int
    BY <1>1 DEF Inv, Typed, HandleOf
  <2>2. h.generation <= topology.own[h.network].generation
    BY <1>1 DEF Inv, Known, Reached
  <2>3. topology.own[h.network].generation <= topology'.own[h.network].generation
    BY <2>1 DEF Leads, Settles, Older
  <2>4. h.network \in 1..Len(topology'.own)
    BY <2>1, OwnTypes DEF Inv, Typed, Leads
  <2>5. /\ topology.own[h.network].generation \in Int
        /\ topology'.own[h.network].generation \in Int
    BY <2>1, <2>4, OwnTypes DEF Inv, Typed, Ownership
  <2> QED
    BY <2>1, <2>2, <2>3, <2>5 DEF Reached
<1>2. CASE h \notin handles
  BY <1>2
<1> QED
  BY <1>1, <1>2

(* A frame gives a network up only when the network has moved on.           *)
Gives(t, stack) ==
    \A i \in 1..Len(frames) :
        /\ i \in 1..Len(stack) /\ stack[i].owner = frames[i].owner
        /\ \A m \in frames[i].moves \ stack[i].moves :
              m \in 1..Len(topology.own) =>
                  topology.own[m].generation < t.own[m].generation

LEMMA MovesKept ==
    ASSUME Inv, WellFormed(topology'), Leads(topology, topology'),
           forgotten \subseteq forgotten', Gives(topology', frames'),
           \A h \in handles' \ handles :
               h.capability = "move" => HeldBy(topology', frames', Len(frames'), h)
    PROVE  MovesHeld(topology, frames, Len(frames))'
<1> SUFFICES ASSUME "moves" \notin forgotten', NEW h \in handles', h.capability = "move",
                    Alive(topology', h)
             PROVE  HeldBy(topology', frames', Len(frames'), h)
  BY DEF MovesHeld
<1>1. CASE h \in handles
  <2> DEFINE n == h.network
             r == topology.own[n]
             s == topology'.own[n]
  <2>1. n \in 1..Len(topology.own) /\ h.generation \in Int
    BY <1>1 DEF Inv, Typed, HandleOf
  <2>2. n \in 1..Len(topology'.own)
    BY <2>1, OwnTypes DEF Inv, Typed, Leads
  <2>3. r.generation \in Int /\ s.generation \in Int
    BY <2>1, <2>2, OwnTypes DEF Inv, Typed, Ownership
  <2>4. h.generation <= r.generation
    BY <1>1 DEF Inv, Known, Reached
  <2>5. Older(r, s)
    BY <2>1 DEF Leads, Settles
  <2>6. h.generation = s.generation /\ ~s.consumed /\ s.owner # Lost
    BY DEF Alive, Current, Of
  <2> HIDE DEF r, s
  <2>7. s.generation = r.generation /\ s.owner = r.owner /\ ~r.consumed
    BY <2>3, <2>4, <2>5, <2>6 DEF Older
  <2>8. Alive(topology, h)
    BY <2>6, <2>7 DEF Alive, Current, Of, r
  <2>9. PICK i \in 1..Len(frames) : frames[i].owner = r.owner /\ n \in frames[i].moves
    BY <1>1, <2>1, <2>8 DEF Inv, MovesHeld, HeldBy, r
  <2>10. n \in frames'[i].moves
    BY <2>1, <2>3, <2>7, <2>9 DEF Gives, r, s
  <2> QED
    BY <2>7, <2>9, <2>10 DEF Gives, HeldBy, s
<1>2. CASE h \notin handles
  BY <1>2
<1> QED
  BY <1>1, <1>2

(* What was named stays marked.                                             *)
LEMMA ReadsKept ==
    ASSUME Inv, NEW t, WellFormed(t), Len(topology.own) <= Len(t.own),
           KeepsUnread(topology, t),
           NEW undone \in {forgotten, forgotten \cup {"colors"}}
    PROVE  /\ NamedKnown(t, conditions, pairs, undone)
           /\ ReadsMarked(t, conditions, pairs, undone)
<1> DEFINE named == Named(conditions, pairs, forgotten)
<1>1. Named(conditions, pairs, undone) = named
  BY DEF Named
<1>2. "reads" \in undone <=> "reads" \in forgotten
  OBVIOUS
<1>3. named \in SUBSET (1..Len(topology.own)) /\ UNION conditions \subseteq named
  BY DEF Inv, NamedKnown, Named
<1>4. conditions \subseteq SUBSET (1..Len(topology.own))
  BY DEF Inv, NamedKnown
<1>5. ReadsMarked(topology, conditions, pairs, forgotten)
  BY DEF Inv
<1>6. \A m \in 1..Len(topology.own) : m \in 1..Len(t.own)
  BY OwnTypes DEF Inv, Typed
<1> HIDE DEF named
<1>7. NamedKnown(t, conditions, pairs, undone)
  BY <1>1, <1>3, <1>4, <1>6 DEF NamedKnown
<1>8. ReadsMarked(t, conditions, pairs, undone)
  BY <1>1, <1>2, <1>3, <1>5 DEF ReadsMarked, KeepsUnread, named
<1> QED
  BY <1>7, <1>8

-----------------------------------------------------------------------------
(* Steps that keep every borrow.                                            *)
Given(t, stack, h) ==
    /\ h \in HandleOf(Len(t.own)) /\ Reached(t.own, h) /\ New(h)
    /\ h.capability = "move" => HeldBy(t, stack, Len(stack), h)

Notes(t, stack) ==
    /\ stack \in Seq(FrameRecord) /\ Len(stack) = Len(frames) /\ Gives(t, stack)
    /\ \A i \in 1..Len(frames) : /\ stack[i].borrows = frames[i].borrows
                                 /\ i # Len(frames) \/ ~Running => stack[i] = frames[i]

Reads(t, kept, paired, undone) ==
    /\ NamedKnown(t, kept, paired, undone)
    /\ ReadsMarked(t, kept, paired, undone)

Quietly ==
    /\ Grows(topology, topology')
    /\ Running \/ topology'.own = topology.own
    /\ Notes(topology', frames')
    /\ \A h \in handles' \ handles : Given(topology', frames', h)
    /\ Reads(topology', conditions', pairs', forgotten')
    /\ forgotten \subseteq forgotten'
    /\ UNCHANGED <<borrows, called, factory>>

LEMMA DeepEnoughKept ==
    ASSUME Inv, NEW t, Larger(topology, t), NEW stack, Notes(t, stack)
    PROVE  DeepEnough(t, stack, Len(stack))
<1> SUFFICES ASSUME NEW n \in 1..Len(t.own), NEW i \in 1..Len(stack),
                    NEW j \in 1..Len(stack),
                    stack[i].owner = t.own[n].owner,
                    stack[j].borrows \cap BorrowsOf(t, n) # {}
             PROVE  i <= j
  BY DEF DeepEnough
<1>1. Len(topology.own) \in Nat /\ Len(t.own) \in Nat /\ Len(frames) \in Nat
  BY OwnTypes, FrameTypes DEF Inv, Typed, Larger
<1>2. /\ i \in 1..Len(frames) /\ j \in 1..Len(frames)
      /\ stack[i].owner = frames[i].owner /\ stack[j].borrows = frames[j].borrows
  BY DEF Notes, Gives
<1>3. ~Free(t.own[n])
  BY FreeHasNoBorrows
<1>4. n \in 1..Len(topology.own)
  <2>1. n \in Len(topology.own) + 1 .. Len(t.own) => Free(t.own[n])
    BY DEF Larger, OwnGrows
  <2> QED
    BY <1>1, <1>3, <2>1
<1>5. Kept(topology.own[n], t.own[n])
  BY <1>4 DEF Larger, OwnGrows
<1>6. /\ BorrowsOf(t, n) = BorrowsOf(topology, n)
      /\ ~Free(topology.own[n])
  BY <1>3, <1>5 DEF Kept, SameBorrows, BorrowsOf, Free
<1>7. CASE topology.own[n].owner = Owner(frames)
  <2>1. PICK b : b \in BorrowsOf(topology, n) /\ b \in frames[j].borrows
    BY <1>2, <1>6
  <2>2. j = Len(frames)
    BY <1>2, <1>4, <1>7, <2>1, InnermostBorrows
  <2> QED
    BY <1>1, <1>2, <2>2
<1>8. CASE topology.own[n].owner # Owner(frames)
  <2>1. t.own[n].owner = topology.own[n].owner
    BY <1>5, <1>6, <1>8 DEF Kept, Unmoved
  <2> QED
    BY <1>2, <1>4, <1>6, <2>1 DEF Inv, DeepEnough
<1> QED
  BY <1>7, <1>8

LEMMA QuietFramesHold ==
    ASSUME Inv, Notes(topology', frames'), UNCHANGED <<borrows, called>>
    PROVE  /\ FramesHold' /\ OwnersRise'
           /\ \A k \in 0..Len(frames) : Held(frames', k) = Held(frames, k)
<1>1. Len(frames) \in Nat
  BY FrameTypes DEF Inv
<1>2. Len(frames') = Len(frames) /\ \A i \in 1..Len(frames) :
          frames'[i].borrows = frames[i].borrows /\ frames'[i].owner = frames[i].owner
  BY DEF Notes, Gives
<1>3. FramesHold'
  BY <1>2 DEF Inv, FramesHold
<1>4. OwnersRise'
  BY <1>2 DEF Inv, OwnersRise
<1>5. ASSUME NEW k \in 0..Len(frames)
      PROVE  Held(frames', k) = Held(frames, k)
  <2>1. k \in Nat /\ \A i \in 1..k : i \in 1..Len(frames)
    BY <1>1
  <2> QED
    BY <1>2, <2>1, HeldSame
<1> QED
  BY <1>3, <1>4, <1>5

LEMMA QuietOwned ==
    ASSUME Inv, NEW t, Larger(topology, t), NewOwned(topology, t)
    PROVE  OwnedByCalled(t)
<1>1. OwnersKnown
  BY OwnersAreKnown DEF Inv
<1>2. Len(topology.own) \in Nat /\ Len(t.own) \in Nat
  BY OwnTypes DEF Inv, Typed, Larger
<1> SUFFICES ASSUME NEW n \in 1..Len(t.own)
             PROVE  t.own[n].owner <= called
  BY DEF OwnedByCalled
<1>3. CASE n \in 1..Len(topology.own)
  <2>1. topology.own[n].owner <= called
    BY <1>3 DEF Inv, OwnedByCalled
  <2>2. t.own[n].owner \in {topology.own[n].owner, Owner(frames), Caller}
    BY <1>3 DEF Larger, OwnGrows, Kept
  <2> QED
    BY <1>1, <2>1, <2>2 DEF OwnersKnown
<1>4. CASE n \notin 1..Len(topology.own)
  BY <1>2, <1>4 DEF NewOwned
<1> QED
  BY <1>3, <1>4

LEMMA QuietInStep ==
    ASSUME Inv, Quietly, NEW saved, NEW depth \in 0..Len(frames), NEW paired,
           InStep(saved, depth, paired), depth < Len(frames) \/ ~Running
    PROVE  InStep(saved, depth, paired)'
<1>1. Len(frames) \in Nat
  BY FrameTypes DEF Inv
<1>2. \A i \in 1..depth : frames'[i] = frames[i]
  <2>1. \A i \in 1..depth : i \in 1..Len(frames) /\ (i # Len(frames) \/ ~Running)
    BY <1>1
  <2> QED
    BY <2>1 DEF Quietly, Notes
<1>3. \/ depth < Len(frames)
      \/ \A n \in 1..Len(topology.own) : Unmoved(topology.own[n], topology'.own[n])
  BY DEF Quietly, Unmoved
<1>4. WellFormed(topology') /\ Leads(topology, topology')
  BY LargerLeads DEF Quietly, Grows, Larger
<1>5. SameEntries /\ called' \in Nat /\ called <= called' /\ forgotten \subseteq forgotten'
  BY DEF Quietly, SameEntries, Inv, Typed
<1>6. \A h \in handles' \ handles : h \in HandleOf(Len(topology'.own)) /\ New(h)
  BY DEF Quietly, Given
<1> QED
  BY <1>2, <1>3, <1>4, <1>5, <1>6, InStepKept

LEMMA QuietFactory ==
    ASSUME Inv, Quietly
    PROVE  FactoryInStep'
<1>1. factory' = factory /\ Len(frames') = Len(frames) /\ Len(frames) \in Nat
  BY FrameTypes DEF Quietly, Notes, Inv
<1>2. CASE factory.phase = "none"
  BY <1>1, <1>2 DEF FactoryInStep
<1>3. CASE factory.phase # "none"
  <2>1. PICK saved, depth, paired :
            saved = factory.saved /\ depth = factory.depth /\ paired = factory.pairs
    OBVIOUS
  <2>2. /\ depth \in 0..Len(frames) /\ InStep(saved, depth, paired)
        /\ depth < Len(frames) \/ ~Running
    BY <1>1, <1>3, <2>1 DEF Inv, FactoryInStep, Running
  <2>3. InStep(saved, depth, paired)'
    BY <2>2, QuietInStep
  <2> QED
    BY <1>1, <1>3, <2>1, <2>3 DEF Inv, FactoryInStep
<1> QED
  BY <1>2, <1>3

LEMMA QuietInv ==
    ASSUME Inv, Quietly
    PROVE  Inv' /\ Leads(topology, topology')
<1>1. /\ Grows(topology, topology') /\ Larger(topology, topology')
      /\ WellFormed(topology') /\ Notes(topology', frames')
      /\ forgotten \subseteq forgotten' /\ UNCHANGED <<borrows, called>>
  BY DEF Quietly, Grows, Larger
<1>2. Leads(topology, topology')
  BY <1>1, LargerLeads
<1>3. /\ \A h \in handles' \ handles : /\ h \in HandleOf(Len(topology'.own))
                                       /\ Reached(topology'.own, h)
                                       /\ h.capability = "move" =>
                                              HeldBy(topology', frames', Len(frames'), h)
  BY DEF Quietly, Given
<1>4. Typed'
  <2>1. HandleOf(Len(topology.own)) \subseteq HandleOf(Len(topology'.own))
    BY <1>1, <1>2, OwnTypes, HandlesWiden DEF Inv, Typed, Leads
  <2>2. handles' \subseteq HandleOf(Len(topology'.own))
    BY <1>3, <2>1 DEF Inv, Typed
  <2> QED
    BY <1>1, <2>2 DEF Inv, Typed, Notes
<1>5. /\ FramesHold' /\ OwnersRise'
      /\ \A k \in 0..Len(frames) : Held(frames', k) = Held(frames, k)
  BY <1>1, QuietFramesHold
<1>6. OwnedByCalled(topology)'
  BY <1>1, QuietOwned DEF Grows, OwnedByCalled
<1>7. Reflects(topology.own, borrows, Held(frames, Len(frames)))'
  <2>1. Reflects(topology'.own, borrows, Held(frames, Len(frames)))
    BY <1>1, ReflectsGrows DEF Inv, Typed
  <2>2. Len(frames) \in 0..Len(frames) /\ Len(frames') = Len(frames)
    BY <1>1, FrameTypes DEF Inv, Notes
  <2>3. Held(frames', Len(frames')) = Held(frames, Len(frames))
    BY <1>5, <2>2
  <2> QED
    BY <1>1, <2>1, <2>3
<1>8. DeepEnough(topology, frames, Len(frames))'
  BY <1>1, DeepEnoughKept
<1>9. Known'
  BY <1>1, <1>2, <1>3, KnownKept
<1>10. MovesHeld(topology, frames, Len(frames))'
  BY <1>1, <1>2, <1>3, MovesKept DEF Notes
<1>11. /\ NamedKnown(topology, conditions, pairs, forgotten)'
       /\ ReadsMarked(topology, conditions, pairs, forgotten)'
  BY DEF Quietly, Reads
<1>12. FactoryInStep'
  BY QuietFactory
<1> QED
  BY <1>2, <1>4, <1>5, <1>6, <1>7, <1>8, <1>9, <1>10, <1>11, <1>12 DEF Inv

LEMMA SameFramesNote ==
    ASSUME Inv, NEW t
    PROVE  Notes(t, frames)
BY DEF Inv, Typed, Notes, Gives

LEMMA SameReads ==
    ASSUME Inv, NEW t, Grows(topology, t), NEW undone \in {forgotten, forgotten \cup {"colors"}}
    PROVE  Reads(t, conditions, pairs, undone)
BY ReadsKept DEF Reads, Grows, Larger, OwnGrows

(* Steps that only leave a trace elsewhere.                                 *)
LEMMA StillQuiet ==
    ASSUME Inv, UNCHANGED <<topology, borrows, frames, called, handles, conditions, pairs,
                            factory, forgotten>>
    PROVE  Quietly
<1>1. Grows(topology, topology)
  BY GrowsReflexive DEF Inv, Typed
<1>2. Notes(topology, frames)
  BY SameFramesNote
<1>3. Reads(topology, conditions, pairs, forgotten)
  BY <1>1, SameReads
<1> QED
  BY <1>1, <1>2, <1>3 DEF Quietly

LEMMA PoisonQuiet ==
    ASSUME Inv, NEW result, Poison(result)
    PROVE  Quietly
BY StillQuiet DEF Poison

LEMMA RollBackQuiet ==
    ASSUME Inv, NEW result, RollBack(result)
    PROVE  Quietly
<1> DEFINE t == Restored(topology)
           undone == forgotten \cup ForgottenBy(topology)
<1>1. Grows(topology, t) /\ t.own = topology.own
  BY RestoredGrows DEF Inv, Typed
<1>2. undone \in {forgotten, forgotten \cup {"colors"}} /\ forgotten \subseteq undone
  BY DEF ForgottenBy
<1>3. /\ topology' = t /\ forgotten' = undone
      /\ UNCHANGED <<borrows, frames, called, handles, conditions, pairs, factory>>
  BY DEF RollBack
<1> HIDE DEF t, undone
<1>4. Notes(t, frames)
  BY SameFramesNote
<1>5. Reads(t, conditions, pairs, undone)
  BY <1>1, <1>2, SameReads
<1> QED
  BY <1>1, <1>2, <1>3, <1>4, <1>5 DEF Quietly

LEMMA AcceptQuiet ==
    ASSUME Inv, Running, NEW result, NEW given, Accept(result, given),
           Grows(topology, result.t), Notes(result.t, frames'),
           \A h \in given \ handles : Given(result.t, frames', h),
           Reads(result.t, conditions', pairs', forgotten), UNCHANGED borrows
    PROVE  Quietly
BY DEF Accept, Quietly

LEMMA AcceptIdleQuiet ==
    ASSUME Inv, Running, NEW result, NEW given, Accept(result, given), Idle,
           Grows(topology, result.t), \A h \in given \ handles : Given(result.t, frames, h)
    PROVE  Quietly
<1>1. Notes(result.t, frames) /\ Reads(result.t, conditions, pairs, forgotten)
  BY SameFramesNote, SameReads
<1>2. frames' = frames /\ conditions' = conditions /\ pairs' = pairs /\ UNCHANGED borrows
  BY DEF Idle
<1> QED
  BY <1>1, <1>2, AcceptQuiet

LEMMA AcceptOrPoisonQuiet ==
    ASSUME Inv, Running, NEW result, AcceptOrPoison(result), Grows(topology, result.t)
    PROVE  Quietly
BY AcceptIdleQuiet, PoisonQuiet DEF AcceptOrPoison

LEMMA AcceptOrRollBackQuiet ==
    ASSUME Inv, Running, NEW result, AcceptOrRollBack(result), Grows(topology, result.t)
    PROVE  Quietly
BY AcceptIdleQuiet, RollBackQuiet DEF AcceptOrRollBack

(* A handle that was not moved in.                                          *)
LEMMA OtherGiven ==
    ASSUME NEW t, NEW stack, NEW h \in HandleOf(Len(t.own)), Reached(t.own, h),
           h.capability # "move"
    PROVE  Given(t, stack, h)
BY DEF Given, New

LEMMA NewestGiven ==
    ASSUME NEW t, WellFormed(t), Len(t.own) # 0, NEW stack
    PROVE  Given(t, stack, Newest(t))
BY NewestTypes, OtherGiven

LEMMA ColorsAreInt ==
    ASSUME NEW color \in Requirements
    PROVE  color \in Int
BY RequirementsAssumption DEF Red, Green, NoColor

LEMMA TypesAndOwners ==
    ASSUME Inv
    PROVE  /\ WellFormed(topology) /\ Typed /\ OwnersKnown
           /\ Owner(frames) \in Int /\ Owner(frames) <= called /\ Caller \in Int
BY OwnersAreKnown DEF Inv, Typed, OwnersKnown

(* The calls that declare, color, compare, connect and create.              *)
LEMMA NetworkStep ==
    ASSUME Inv, NEW color \in Requirements, Network(color)
    PROVE  Quietly
<1> DEFINE t == NewNetwork(topology, Owner(frames), color)
<1>1. Grows(topology, t) /\ Len(t.own) = Len(topology.own) + 1
  BY NewNetworkGrows, TypesAndOwners, ColorsAreInt
<1>2. Given(t, frames, Newest(t))
  <2>1. Len(t.own) # 0 /\ WellFormed(t)
    BY <1>1, OwnTypes, TypesAndOwners DEF Grows, Larger
  <2> HIDE DEF t
  <2> QED
    BY <2>1, NewestGiven
<1>3. Running /\ Accept([ok |-> TRUE, t |-> t], {Newest(t)}) /\ Idle
  BY DEF Network, Declared
<1> HIDE DEF t
<1> QED
  BY <1>1, <1>2, <1>3, AcceptIdleQuiet

LEMMA BindStep ==
    ASSUME Inv, NEW h, NEW color \in Requirements, Bind(h, color)
    PROVE  Quietly
BY RequireColorGrows, ColorsAreInt, TypesAndOwners, AcceptOrPoisonQuiet DEF Bind

LEMMA TakeStep ==
    ASSUME Inv, NEW destination \in Usable, NEW source \in Usable, Take(destination, source)
    PROVE  Quietly
<1>1. /\ destination \in HandleOf(Len(topology.own))
      /\ source \in HandleOf(Len(topology.own))
  BY UsableTypes, TypesAndOwners
<1>2. Grows(topology, TransferNetwork(topology, destination, source).t)
  BY <1>1, TypesAndOwners, TransferNetworkGrows DEF Outcome
<1>3. Grows(topology, Refused(topology).t)
  BY TypesAndOwners, RefusedGrows DEF Outcome
<1> QED
  BY <1>2, <1>3, AcceptOrPoisonQuiet DEF Take

(* What a step names it marks.                                              *)
LEMMA MarkedReads ==
    ASSUME Inv, NEW t, Grows(topology, t), NEW networks \in SUBSET (1..Len(t.own)),
           NEW kept, kept \subseteq conditions \cup {networks},
           NEW paired, paired \subseteq pairs \cup {networks}
    PROVE  Reads(MarkUsed(t, networks), kept, paired, forgotten)
<1> DEFINE named == Named(conditions, pairs, forgotten)
           u == MarkUsed(t, networks)
<1>1. /\ NamedKnown(t, conditions, pairs, forgotten)
      /\ ReadsMarked(t, conditions, pairs, forgotten) /\ WellFormed(t)
  BY SameReads DEF Reads, Grows, Larger
<1>2. u.own = t.own
  BY <1>1, MarkUsedGrows
<1>3. Named(kept, paired, forgotten) \subseteq named \cup networks
  BY DEF Named
<1>4. kept \subseteq SUBSET (1..Len(t.own)) /\ named \subseteq 1..Len(t.own)
  BY <1>1 DEF NamedKnown
<1>5. ASSUME "reads" \notin forgotten
      PROVE  Unread(u, Named(kept, paired, forgotten))
  <2>1. Unread(t, named)
    BY <1>1, <1>5 DEF ReadsMarked
  <2> HIDE DEF named, u
  <2>2. Unread(u, named \cup networks)
    BY <1>1, <2>1, MarkUsedUnread DEF u
  <2> QED
    BY <1>3, <2>2 DEF Unread
<1> HIDE DEF named, u
<1>6. NamedKnown(u, kept, paired, forgotten)
  BY <1>2, <1>3, <1>4 DEF NamedKnown
<1>7. ReadsMarked(u, kept, paired, forgotten)
  BY <1>5 DEF ReadsMarked
<1> QED
  BY <1>6, <1>7 DEF Reads, u

LEMMA PairStep ==
    ASSUME Inv, NEW left \in Usable, NEW right \in Usable, Pair(left, right)
    PROVE  Quietly
<1> DEFINE networks == {left.network, right.network}
<1>1. WellFormed(topology) /\ OwnersKnown /\ networks \subseteq 1..Len(topology.own)
  BY TypesAndOwners, UsableTypes
<1>2. PICK apart : /\ Outcome(topology, apart)
                   /\ Paired(apart, networks)
  <2>1. Outcome(topology, Colored(topology, left.network, right.network, 1))
    BY <1>1, ColoredGrows DEF Outcome, Colored, Recolored
  <2> QED
    BY <1>1, <2>1, RefusedGrows DEF Pair
<1>3. CASE Poison(apart)
  BY <1>3, PoisonQuiet
<1>4. CASE /\ Accept([apart EXCEPT !.t = MarkUsed(@, networks)], {})
           /\ pairs' = pairs \cup {networks}
           /\ UNCHANGED <<borrows, frames, conditions>>
  <2> DEFINE result == [apart EXCEPT !.t = MarkUsed(@, networks)]
  <2>1. result.t = MarkUsed(apart.t, networks)
    BY <1>2 DEF Outcome
  <2>2. Grows(topology, apart.t) /\ WellFormed(apart.t)
    BY <1>2 DEF Outcome, Grows, Larger
  <2>3. networks \in SUBSET (1..Len(apart.t.own))
    BY <1>1, <2>2, OwnTypes DEF Grows, Larger, OwnGrows
  <2> HIDE DEF networks
  <2>4. Grows(topology, result.t)
    BY <1>1, <2>1, <2>2, MarkUsedGrows, GrowsTransitive
  <2>5. Reads(result.t, conditions', pairs', forgotten)
    BY <1>4, <2>1, <2>2, <2>3, MarkedReads
  <2>6. Notes(result.t, frames')
    BY <1>4, SameFramesNote
  <2>7. Running
    BY DEF Pair
  <2>8. Accept(result, {}) /\ UNCHANGED borrows
    BY <1>4
  <2> HIDE DEF result
  <2> QED
    BY <2>4, <2>5, <2>6, <2>7, <2>8, AcceptQuiet
<1> QED
  BY <1>2, <1>3, <1>4 DEF Paired

LEMMA CompareStep ==
    ASSUME Inv, NEW operands \in SUBSET Usable, Compare(operands)
    PROVE  Quietly
<1> DEFINE networks == {h.network : h \in operands}
           result == [ok |-> \A h \in operands : Readable(topology, h),
                      t |-> MarkUsed(topology, networks)]
<1>1. CASE Poison(result)
  BY <1>1, PoisonQuiet
<1>2. CASE /\ Accept(result, {})
           /\ conditions' = conditions \cup {networks}
           /\ UNCHANGED <<borrows, frames, pairs>>
  <2>1. networks \in SUBSET (1..Len(topology.own))
    BY UsableTypes, TypesAndOwners
  <2>2. Grows(topology, topology) /\ Grows(topology, result.t)
    BY TypesAndOwners, GrowsReflexive, MarkUsedGrows
  <2>3. Running /\ result.t = MarkUsed(topology, networks)
    BY DEF Compare
  <2> HIDE DEF result, networks
  <2>4. Reads(result.t, conditions', pairs', forgotten)
    BY <1>2, <2>1, <2>2, <2>3, MarkedReads
  <2>5. Notes(result.t, frames')
    BY <1>2, SameFramesNote
  <2> QED
    BY <1>2, <2>2, <2>3, <2>4, <2>5, AcceptQuiet
<1> QED
  BY <1>1, <1>2 DEF Compare

LEMMA DeciderStep ==
    ASSUME Inv, NEW left \in conditions, NEW right \in conditions, Decider(left \cup right)
    PROVE  Quietly
<1> DEFINE inputs == left \cup right
<1>1. inputs \in SUBSET (1..Len(topology.own)) /\ inputs \subseteq UNION conditions
  BY DEF Inv, NamedKnown
<1>2. Running /\ AcceptOrRollBack(CreateCombinator(topology, inputs))
  BY DEF Decider
<1> HIDE DEF inputs
<1>3. Grows(topology, CreateCombinator(topology, inputs).t)
  BY <1>1, TypesAndOwners, CreateCombinatorGrows DEF Outcome
<1> QED
  BY <1>2, <1>3, AcceptOrRollBackQuiet

LEMMA JoinedQuiet ==
    ASSUME Inv, Running, NEW result, Joined(result), Grows(topology, result.t),
           result.ok => Len(result.t.own) # 0
    PROVE  Quietly
<1>1. CASE Accept(result, {Newest(result.t)}) /\ Idle
  <2>1. Given(result.t, frames, Newest(result.t))
    BY <1>1, NewestGiven DEF Accept, Grows, Larger
  <2> QED
    BY <1>1, <2>1, AcceptIdleQuiet
<1>2. CASE RollBack(result)
  BY <1>2, RollBackQuiet
<1> QED
  BY <1>1, <1>2 DEF Joined

LEMMA OneOrTwoUsable ==
    ASSUME Typed, NEW hs \in One \cup Two
    PROVE  OneOrTwoOf(topology, hs)
<1> DEFINE H == HandleOf(Len(topology.own))
<1>1. Usable \subseteq H
  BY UsableTypes
<1> HIDE DEF H
<1>2. CASE hs \in One
  <2>1. PICK h \in Usable : hs = <<h>>
    BY <1>2 DEF One
  <2>2. hs \in Seq(H) /\ Len(hs) = 1
    BY <1>1, <2>1
  <2> QED
    BY <2>2 DEF OneOrTwoOf, H
<1>3. CASE hs \in Two
  <2>1. PICK h \in Usable, g \in Usable : hs = <<h, g>>
    BY <1>3 DEF Two
  <2>2. hs \in Seq(H) /\ Len(hs) = 2
    BY <1>1, <2>1
  <2> QED
    BY <2>2 DEF OneOrTwoOf, H
<1> QED
  BY <1>2, <1>3

LEMMA JoinStep ==
    ASSUME Inv, NEW inputs \in One \cup Two, Join(inputs)
    PROVE  Quietly
<1>1. OneOrTwoOf(topology, inputs)
  BY OneOrTwoUsable, TypesAndOwners
<1>2. /\ Grows(topology, JoinAll(topology, inputs).t)
      /\ JoinAll(topology, inputs).ok => Len(JoinAll(topology, inputs).t.own) # 0
  BY <1>1, TypesAndOwners, JoinAllGrows DEF Outcome
<1> QED
  BY <1>2, JoinedQuiet DEF Join

LEMMA JoinCombinatorStep ==
    ASSUME Inv, NEW c \in Combinators, NEW others \in {<<>>} \cup One,
           JoinCombinator(c, others)
    PROVE  Quietly
<1> DEFINE taken == TakeLanes(topology, c, 1)
           inputs == taken.lanes \o others
           joined == JoinAll(taken.t, inputs)
<1>1. WellFormed(topology) /\ OwnersKnown /\ c \in 1..Len(topology.combs)
  BY TypesAndOwners DEF Combinators
<1>2. /\ Grows(topology, taken.t) /\ WellFormed(taken.t)
      /\ taken.ok => OneOrTwoOf(taken.t, taken.lanes) /\ Len(taken.lanes) = 1
  BY <1>1, TakeLanesGrows
<1>3. Running /\ Joined(JoinTaken(taken, others))
  BY DEF JoinCombinator
<1> HIDE DEF taken
<1>4. ASSUME taken.ok
      PROVE  OneOrTwoOf(taken.t, inputs)
  <2> DEFINE H == HandleOf(Len(taken.t.own))
  <2>1. HandleOf(Len(topology.own)) \subseteq H
    BY <1>1, <1>2, OwnTypes, HandlesWiden DEF Grows, Larger, OwnGrows
  <2>2. others \in Seq(H) /\ Len(others) \in {0, 1}
    <3> HIDE DEF H
    <3>1. Usable \subseteq H
      BY <2>1, UsableTypes, TypesAndOwners
    <3>2. CASE others = <<>>
      BY <3>2, EmptySeq
    <3>3. CASE others \in One
      <4>1. PICK h \in Usable : others = <<h>>
        BY <3>3 DEF One
      <4> QED
        BY <3>1, <4>1
    <3> QED
      BY <3>2, <3>3
  <2>3. taken.lanes \in Seq(H) /\ Len(taken.lanes) = 1
    BY <1>2, <1>4 DEF OneOrTwoOf
  <2> HIDE DEF H
  <2> HIDE DEF inputs
  <2>4. inputs \in Seq(H) /\ Len(inputs) = 1 + Len(others)
    <3> DEFINE lanes == taken.lanes
    <3>1. lanes \in Seq(H) /\ Len(lanes) = 1 /\ inputs = lanes \o others
      BY <2>3 DEF inputs
    <3> HIDE DEF lanes
    <3> QED
      BY <2>2, <3>1, ConcatProperties
  <2>5. Len(inputs) \in {1, 2}
    <3>1. \A k \in {0, 1} : 1 + k \in {1, 2}
      OBVIOUS
    <3> QED
      BY <2>2, <2>4, <3>1, Zenon
  <2> QED
    BY <2>4, <2>5 DEF OneOrTwoOf, H
<1> HIDE DEF inputs
<1>5. taken.ok => Grows(topology, joined.t) /\ (joined.ok => Len(joined.t.own) # 0)
  BY <1>1, <1>2, <1>4, JoinAllGrows, GrowsTransitive DEF Outcome
<1>6. JoinTaken(taken, others) = IF taken.ok THEN joined ELSE Refused(topology)
  BY DEF JoinTaken, inputs
<1>7. Grows(topology, Refused(topology).t) /\ ~Refused(topology).ok
  BY <1>1, RefusedGrows DEF Outcome
<1> HIDE DEF joined
<1> QED
  BY <1>3, <1>5, <1>6, <1>7, JoinedQuiet

LEMMA DestructureStep ==
    ASSUME Inv, NEW c \in Combinators, Destructure(c)
    PROVE  Quietly
<1> DEFINE t == IF Len(topology.combs[c].lanes) = 2 THEN topology
                ELSE WithSecondary(topology, c)
<1>1. WellFormed(topology) /\ OwnersKnown /\ c \in 1..Len(topology.combs)
  BY TypesAndOwners DEF Combinators
<1>2. /\ Grows(topology, t) /\ WellFormed(t) /\ c \in 1..Len(t.combs)
      /\ Len(t.combs[c].lanes) # 1
  <2>1. Len(topology.combs[c].lanes) \in Nat \ {0}
    BY <1>1, CombinatorTypes
  <2>2. CASE Len(topology.combs[c].lanes) = 2
    <3>1. t = topology
      BY <2>2
    <3> HIDE DEF t
    <3>2. Grows(topology, topology)
      BY <1>1, GrowsReflexive
    <3>3. Len(topology.combs[c].lanes) # 1
      BY <2>2
    <3> QED
      BY <1>1, <3>1, <3>2, <3>3
  <2>3. CASE Len(topology.combs[c].lanes) # 2
    <3>1. t = WithSecondary(topology, c)
      BY <2>3
    <3> HIDE DEF t
    <3>2. /\ Grows(topology, t) /\ c \in 1..Len(t.combs)
          /\ Len(t.combs[c].lanes) = Len(topology.combs[c].lanes) + 1
      BY <1>1, <3>1, WithSecondaryGrows
    <3>3. \A k \in Nat : k # 0 => k + 1 # 1
      OBVIOUS
    <3> QED
      BY <2>1, <3>2, <3>3 DEF Grows, Larger
  <2> QED
    BY <2>2, <2>3
<1>3. Running /\ BothLanes(t, c)
  BY DEF Destructure
<1> HIDE DEF t
<1> DEFINE lanes == t.combs[c].lanes
<1>4. \A i \in {1, 2} : Given(t, frames, lanes[i])
  <2>1. \A k \in Nat : k # 0 /\ k # 1 => 1 \in 1..k /\ 2 \in 1..k
    OBVIOUS
  <2>2. 1 \in 1..Len(lanes) /\ 2 \in 1..Len(lanes)
    BY <1>2, <2>1, CombinatorTypes
  <2>3. \A i \in {1, 2} : /\ lanes[i] \in HandleOf(Len(t.own)) /\ Reached(t.own, lanes[i])
                         /\ lanes[i].capability # "move"
    BY <1>2, <2>2, CombinatorTypes
  <2> HIDE DEF lanes
  <2> QED
    BY <2>3, OtherGiven
<1>5. Accept([ok |-> TRUE, t |-> t], {lanes[1], lanes[2]}) /\ Idle
  BY <1>3 DEF BothLanes
<1> HIDE DEF lanes
<1> QED
  BY <1>2, <1>3, <1>4, <1>5, AcceptIdleQuiet

LEMMA UsedGrows ==
    ASSUME NEW t, WellFormed(t), NEW c
    PROVE  Grows(t, [t EXCEPT !.combs[c].used = TRUE])
<1> DEFINE comb == [t.combs[c] EXCEPT !.used = TRUE]
           combs == [t.combs EXCEPT ![c] = comb]
           size == Len(t.own)
<1>1. Len(t.combs) \in Nat /\ t.combs \in [1..Len(t.combs) -> Combinator(size)]
  BY CombinatorTypes
<1>2. c \in 1..Len(t.combs) => /\ comb \in Combinator(size) /\ comb.used
                              /\ comb.lanes = t.combs[c].lanes
                              /\ comb.inputs = t.combs[c].inputs
  BY CombinatorTypes DEF Combinator
<1>3. combs \in [1..Len(t.combs) -> Combinator(size)]
  <2> HIDE DEF comb
  <2> QED
    BY <1>1, <1>2
<1>4. combs \in Seq(Combinator(size)) /\ Len(combs) = Len(t.combs)
  <2> HIDE DEF combs
  <2> QED
    BY <1>1, <1>3, FunctionIsSequence
<1>5. \A d \in 1..Len(t.combs) : LanesKnown(t.own, combs[d]) /\ SameLanes(t.combs[d], combs[d])
  <2>1. \A d \in 1..Len(t.combs) : combs[d] = IF d = c THEN comb ELSE t.combs[d]
    BY <1>1
  <2> HIDE DEF combs, comb
  <2> QED
    BY <1>2, <2>1 DEF WellFormed, LanesKnown, SameLanes, SameInputs, LanesOf
<1>6. Grows(t, WithCombs(t, combs))
  <2> HIDE DEF combs
  <2> QED
    BY <1>4, <1>5, SameLanesGrow
<1> QED
  BY <1>6 DEF WithCombs

LEMMA AttachManyStep ==
    ASSUME Inv, NEW c \in Combinators, NEW destinations \in One \cup Two,
           AttachMany(c, destinations)
    PROVE  Quietly
<1> DEFINE taken == TakeLanes(topology, c, Len(destinations))
           transferred == TransferAll(taken.t, destinations, taken.lanes)
<1>1. WellFormed(topology) /\ OwnersKnown /\ c \in 1..Len(topology.combs)
  BY TypesAndOwners DEF Combinators
<1>2. OneOrTwoOf(topology, destinations)
  BY OneOrTwoUsable, TypesAndOwners
<1>3. /\ Grows(topology, taken.t) /\ WellFormed(taken.t)
      /\ taken.ok => /\ OneOrTwoOf(taken.t, taken.lanes)
                     /\ Len(taken.lanes) = Len(destinations)
  BY <1>1, <1>2, TakeLanesGrows DEF OneOrTwoOf
<1>4. Outcome(topology, Refused(topology))
  BY <1>1, RefusedGrows
<1>5. PICK result : Outcome(topology, result) /\ Connected(result, c)
  <2>1. Connected(IF Attachable(destinations) THEN AttachTaken(taken, destinations)
                  ELSE Refused(topology), c)
    BY DEF AttachMany
  <2> HIDE DEF taken
  <2>2. HandleOf(Len(topology.own)) \subseteq HandleOf(Len(taken.t.own))
    BY <1>1, <1>3, OwnTypes, HandlesWiden DEF Grows, Larger, OwnGrows
  <2>3. /\ destinations[1] \in HandleOf(Len(taken.t.own))
        /\ Len(destinations) # 1 => destinations[2] \in HandleOf(Len(taken.t.own))
    BY <1>2, <2>2, OneOrTwoTypes
  <2>4. taken.ok => Outcome(topology, transferred)
    BY <1>1, <1>3, <2>3, TransferAllGrows, GrowsTransitive DEF Outcome
  <2>5. \/ AttachTaken(taken, destinations) = Refused(topology)
        \/ taken.ok /\ AttachTaken(taken, destinations) = transferred
    BY DEF AttachTaken
  <2> HIDE DEF transferred
  <2> QED
    BY <1>4, <2>1, <2>4, <2>5
<1> DEFINE used == [result EXCEPT !.t.combs[c].used = TRUE]
<1>6. Grows(topology, used.t)
  <2>1. WellFormed(result.t) /\ Grows(topology, result.t)
    BY <1>5 DEF Outcome, Grows, Larger
  <2>2. Grows(result.t, [result.t EXCEPT !.combs[c].used = TRUE])
    BY <2>1, UsedGrows
  <2>3. used.t = [result.t EXCEPT !.combs[c].used = TRUE]
    BY <1>5 DEF Outcome
  <2> QED
    BY <1>1, <2>1, <2>2, <2>3, GrowsTransitive
<1>7. Running /\ AcceptOrRollBack(IF result.ok THEN used ELSE result)
  BY <1>5 DEF Connected, AttachMany
<1> HIDE DEF used
<1> QED
  BY <1>5, <1>6, <1>7, AcceptOrRollBackQuiet DEF Outcome

(* The calls that move a network into the frame or out of it, or refer to   *)
(* it: the frame notes the network, beside its borrows.                     *)
NotedBy(t, frame) ==
    /\ frame \in FrameRecord
    /\ frame.owner = Frame.owner /\ frame.borrows = Frame.borrows
    /\ \A m \in Frame.moves \ frame.moves : m \in 1..Len(topology.own) =>
           topology.own[m].generation < t.own[m].generation

LEMMA NotesQuiet ==
    ASSUME Inv, Running, frames # <<>>, NEW t, NEW frame, NotedBy(t, frame),
           frames' = [frames EXCEPT ![Len(frames)] = frame]
    PROVE  /\ Notes(t, frames') /\ Len(frames') = Len(frames)
           /\ frames'[Len(frames)] = frame
<1> DEFINE last == Len(frames)
<1>1. /\ last \in 1..last /\ last \in Nat /\ frames \in [1..last -> FrameRecord]
      /\ Frame = frames[last]
  BY FrameTypes, LastFrame DEF Inv
<1> HIDE DEF last
<1>2. /\ frames' \in [1..last -> FrameRecord] /\ frames'[last] = frame
      /\ \A i \in 1..last : i # last => frames'[i] = frames[i]
  BY <1>1 DEF last, NotedBy
<1>3. frames' \in Seq(FrameRecord) /\ Len(frames') = last
  BY <1>1, <1>2, FunctionIsSequence
<1>4. Gives(t, frames')
  BY <1>1, <1>2, <1>3 DEF Gives, NotedBy, last
<1> QED
  BY <1>1, <1>2, <1>3, <1>4 DEF Notes, NotedBy, last

LEMMA MoveInQuiet ==
    ASSUME Inv, Running, frames # <<>>, NEW result, NEW n, MoveIn(result, n),
           result.ok =>
              /\ Grows(topology, result.t)
              /\ n \in 1..Len(result.t.own) /\ result.t.own[n].owner = Owner(frames)
              /\ n \in 1..Len(topology.own) =>
                     topology.own[n].generation < result.t.own[n].generation
    PROVE  Quietly
<1> DEFINE h == Handle(result.t, n, "move", NoBorrow)
<1>1. CASE RollBack(result)
  BY <1>1, RollBackQuiet
<1>2. CASE /\ Accept(result, {h})
           /\ frames' = [frames EXCEPT ![Len(frames)].moves = @ \cup {n}]
           /\ UNCHANGED <<borrows, conditions, pairs>>
  <2> DEFINE frame == [Frame EXCEPT !.moves = @ \cup {n}]
  <2>1. Frame \in FrameRecord /\ Len(frames) \in 1..Len(frames) /\ Owner(frames) = Frame.owner
    BY LastFrame DEF Inv
  <2>2. /\ Grows(topology, result.t) /\ WellFormed(result.t)
        /\ n \in 1..Len(result.t.own) /\ result.t.own[n].owner = Owner(frames)
        /\ n \in 1..Len(topology.own) =>
               topology.own[n].generation < result.t.own[n].generation
    BY <1>2 DEF Accept, Grows, Larger
  <2>3. /\ frame \in FrameRecord /\ frame.borrows = Frame.borrows
        /\ frame.owner = Frame.owner /\ frame.moves = Frame.moves \cup {n}
    <3>1. n \in Int
      BY <2>2, OwnTypes
    <3> QED
      BY <2>1, <3>1 DEF FrameRecord
  <2>4. frames' = [frames EXCEPT ![Len(frames)] = frame]
    BY <1>2 DEF Frame
  <2> HIDE DEF frame
  <2>5. /\ Notes(result.t, frames') /\ Len(frames') = Len(frames)
        /\ frames'[Len(frames)] = frame
    BY <2>3, <2>4, NotesQuiet DEF NotedBy
  <2>6. /\ h \in HandleOf(Len(result.t.own)) /\ Reached(result.t.own, h)
        /\ h.network = n /\ h.generation = result.t.own[n].generation
    <3>1. NoBorrow \in Int /\ "move" \in {"owned", "move", "readonly", "ref"}
      BY DEF NoBorrow
    <3>2. h \in HandleOf(Len(result.t.own)) /\ Reached(result.t.own, h)
      BY <2>2, <3>1, HandleTypes
    <3>3. h.network = n /\ h.generation = result.t.own[n].generation
      BY DEF Handle
    <3> QED
      BY <3>2, <3>3
  <2> HIDE DEF h
  <2>7. HeldBy(result.t, frames', Len(frames'), h)
    BY <2>1, <2>2, <2>3, <2>5, <2>6 DEF HeldBy
  <2>8. Given(result.t, frames', h)
    BY <2>2, <2>6, <2>7 DEF Given, New
  <2>9. Reads(result.t, conditions', pairs', forgotten)
    BY <1>2, <2>2, SameReads
  <2> QED
    BY <1>2, <2>2, <2>5, <2>8, <2>9, AcceptQuiet
<1> QED
  BY <1>1, <1>2 DEF MoveIn

LEMMA MoveFromQuiet ==
    ASSUME Inv, Running, frames # <<>>, NEW t, WellFormed(t), Grows(topology, t),
           NEW h \in HandleOf(Len(t.own)), NEW color \in Requirements,
           MoveFrom(t, h, color)
    PROVE  Quietly
<1> DEFINE n == h.network
           colored == RequireColor(t, n, color)
           result == Moved(t, h, colored)
<1>1. OwnersKnown /\ Owner(frames) \in Int /\ n \in 1..Len(t.own) /\ WellFormed(topology)
  BY TypesAndOwners DEF HandleOf
<1>2. /\ Grows(t, colored.t) /\ WellFormed(colored.t)
      /\ Len(colored.t.own) = Len(t.own)
      /\ Unmoved(t.own[n], colored.t.own[n]) /\ SameBorrows(t.own[n], colored.t.own[n])
  BY <1>1, RequireColorGrows, ColorsAreInt DEF Grows, Larger
<1>3. result.t = MoveTo(colored.t, n, Owner(frames))
  BY DEF Moved
<1>4. MoveIn(result, n)
  BY DEF MoveFrom
<1>5. result.ok => Free(t.own[n])
  BY DEF Moved, Consumable, Of, Free
<1> HIDE DEF colored, result, n
<1>6. ASSUME result.ok
      PROVE  /\ Grows(topology, result.t) /\ n \in 1..Len(result.t.own)
             /\ result.t.own[n].owner = Owner(frames)
             /\ n \in 1..Len(topology.own) =>
                    topology.own[n].generation < result.t.own[n].generation
  <2>1. Movable(colored.t.own, n)
    BY <1>2, <1>5, <1>6 DEF Movable, Free, SameBorrows
  <2>2. /\ Grows(colored.t, result.t) /\ Len(result.t.own) = Len(colored.t.own)
        /\ result.t.own[n].generation = colored.t.own[n].generation + 1
        /\ result.t.own[n].owner = Owner(frames)
    BY <1>1, <1>2, <1>3, <2>1, MoveToGrows
  <2>3. Grows(t, result.t)
    BY <1>1, <1>2, <2>2, GrowsTransitive
  <2>4. Grows(topology, result.t)
    BY <1>1, <2>3, GrowsTransitive
  <2>5. ASSUME n \in 1..Len(topology.own)
        PROVE  topology.own[n].generation < result.t.own[n].generation
    <3>1. topology.own[n].generation <= t.own[n].generation
      BY <2>5 DEF Grows, Larger, OwnGrows, Kept, Older
    <3>2. topology.own[n].generation \in Int /\ t.own[n].generation \in Int
      BY <1>1, <2>5, OwnTypes DEF Ownership
    <3>3. result.t.own[n].generation = t.own[n].generation + 1
      BY <1>2, <2>2 DEF Unmoved
    <3> QED
      BY <3>1, <3>2, <3>3
  <2> QED
    BY <1>1, <1>2, <2>2, <2>4, <2>5
<1> QED
  BY <1>4, <1>6, MoveInQuiet

LEMMA MoveParameterStep ==
    ASSUME Inv, NEW h \in Usable, NEW color \in Requirements, MoveParameter(h, color)
    PROVE  Quietly
BY UsableTypes, TypesAndOwners, GrowsReflexive, MoveFromQuiet DEF MoveParameter

LEMMA MoveCombinatorParameterStep ==
    ASSUME Inv, NEW c \in Combinators, NEW color \in Requirements,
           MoveCombinatorParameter(c, color)
    PROVE  Quietly
<1> DEFINE taken == TakeLanes(topology, c, 1)
<1>1. WellFormed(topology) /\ OwnersKnown /\ c \in 1..Len(topology.combs)
  BY TypesAndOwners DEF Combinators
<1>2. /\ Grows(topology, taken.t) /\ WellFormed(taken.t)
      /\ taken.ok => taken.lanes[1] \in HandleOf(Len(taken.t.own))
  BY <1>1, TakeLanesGrows, OneOrTwoTypes
<1>3. Running /\ frames # <<>> /\ MoveTaken(taken, color)
  BY DEF MoveCombinatorParameter
<1> HIDE DEF taken
<1>4. CASE RollBack(taken)
  BY <1>4, RollBackQuiet
<1>5. CASE taken.ok /\ MoveFrom(taken.t, taken.lanes[1], color)
  BY <1>2, <1>3, <1>5, MoveFromQuiet
<1> QED
  BY <1>3, <1>4, <1>5 DEF MoveTaken

LEMMA ImplicitNetworkParameterStep ==
    ASSUME Inv, NEW h \in Usable, NEW color \in Requirements,
           ImplicitNetworkParameter(h, color)
    PROVE  Quietly
<1> DEFINE result == RequireColor(topology, h.network, color)
           references == IF topology.own[h.network].owner = Owner(frames)
                         THEN Frame.references ELSE Frame.references \cup {h.network}
           frame == [Frame EXCEPT !.references = references]
<1>1. Running /\ frames # <<>> /\ Referred(result, h.network)
  BY DEF ImplicitNetworkParameter
<1>2. Grows(topology, result.t)
  BY RequireColorGrows, ColorsAreInt, TypesAndOwners
<1>3. CASE Poison(result)
  BY <1>3, PoisonQuiet
<1>4. CASE /\ Accept(result, {})
           /\ frames' = [frames EXCEPT ![Len(frames)].references = references]
           /\ UNCHANGED <<borrows, conditions, pairs>>
  <2>1. Frame \in FrameRecord /\ h.network \in Int
    BY <1>1, LastFrame, UsableTypes DEF Inv, HandleOf
  <2>2. references \in SUBSET Int
    BY <2>1 DEF FrameRecord
  <2>3. frames' = [frames EXCEPT ![Len(frames)] = frame]
    <3> HIDE DEF references
    <3> QED
      BY <1>4 DEF Frame
  <2> HIDE DEF references
  <2>4. NotedBy(result.t, frame)
    BY <2>1, <2>2 DEF FrameRecord, NotedBy
  <2> HIDE DEF frame, result
  <2>5. Notes(result.t, frames')
    BY <1>1, <2>3, <2>4, NotesQuiet
  <2>6. Reads(result.t, conditions', pairs', forgotten)
    BY <1>2, <1>4, SameReads
  <2> QED
    BY <1>1, <1>2, <1>4, <2>5, <2>6, AcceptQuiet
<1> QED
  BY <1>1, <1>3, <1>4 DEF Referred, Frame

(* Networks that have moved on leave the notes of the frame.                *)
LEMMA ForgetQuiet ==
    ASSUME Inv, Running, frames # <<>>, NEW t, NEW networks,
           \A n \in networks : n \in 1..Len(topology.own) =>
               topology.own[n].generation < t.own[n].generation,
           frames' = [frames EXCEPT ![Len(frames)].moves = @ \ networks]
    PROVE  Notes(t, frames')
<1> DEFINE frame == [Frame EXCEPT !.moves = @ \ networks]
<1>1. Frame \in FrameRecord
  BY LastFrame DEF Inv
<1>2. /\ frame \in FrameRecord /\ frame.borrows = Frame.borrows
      /\ frame.owner = Frame.owner /\ frame.moves = Frame.moves \ networks
  BY <1>1 DEF FrameRecord
<1>3. frames' = [frames EXCEPT ![Len(frames)] = frame]
  BY DEF Frame
<1> HIDE DEF frame
<1>4. NotedBy(t, frame)
  BY <1>2 DEF NotedBy
<1> QED
  BY <1>3, <1>4, NotesQuiet

(* What a network has reached it has reached later.                         *)
LEMMA ReachedLater ==
    ASSUME NEW t, NEW u, WellFormed(t), Grows(t, u), NEW h \in HandleOf(Len(t.own)),
           Reached(t.own, h)
    PROVE  h \in HandleOf(Len(u.own)) /\ Reached(u.own, h)
<1>1. /\ WellFormed(u) /\ Len(t.own) <= Len(u.own)
      /\ Len(t.own) \in Nat /\ Len(u.own) \in Nat
  BY OwnTypes DEF Grows, Larger, OwnGrows
<1>2. h.network \in 1..Len(t.own) /\ h.network \in 1..Len(u.own) /\ h.generation \in Int
  BY <1>1 DEF HandleOf
<1>3. t.own[h.network].generation <= u.own[h.network].generation
  BY <1>2 DEF Grows, Larger, OwnGrows, Kept, Older
<1>4. /\ t.own[h.network].generation \in Int /\ u.own[h.network].generation \in Int
  BY <1>1, <1>2, OwnTypes DEF Ownership
<1>5. Reached(u.own, h)
  BY <1>2, <1>3, <1>4 DEF Reached
<1> QED
  BY <1>1, <1>5, HandlesWiden

LEMMA PassedQuiet ==
    ASSUME Inv, Running, NEW colored, NEW h \in Usable,
           NEW capability \in {"owned", "readonly"},
           Grows(topology, colored.t), Passed(colored, h, capability)
    PROVE  Quietly
<1> DEFINE given == IF h.capability = "readonly" THEN Alias(h)
                    ELSE IF capability = "readonly"
                    THEN [h EXCEPT !.capability = capability] ELSE h
<1>1. CASE Poison(Refused(topology))
  BY <1>1, PoisonQuiet
<1>2. CASE Readable(topology, h) /\ Accept(colored, {given}) /\ Idle
  <2>1. h \in HandleOf(Len(topology.own)) /\ (h \in handles \/ h.capability = "owned")
    BY UsableTypes, TypesAndOwners
  <2>2. Reached(topology.own, h)
    BY <1>2, <2>1, CurrentIsReached, TypesAndOwners DEF Readable
  <2>3. /\ given \in HandleOf(Len(topology.own)) /\ Reached(topology.own, given)
        /\ given = h \/ given.capability # "move"
    <3>1. CASE h.capability = "readonly"
      <4>1. given = [h EXCEPT !.borrow = IF @ \in Frame.borrows THEN NoBorrow ELSE @]
        BY <3>1 DEF Alias
      <4> QED
        BY <2>1, <2>2, <3>1, <4>1 DEF HandleOf, NoBorrow, Reached
    <3>2. CASE h.capability # "readonly" /\ capability = "readonly"
      <4>1. given = [h EXCEPT !.capability = "readonly"]
        BY <3>2
      <4> QED
        BY <2>1, <2>2, <4>1 DEF HandleOf, Reached
    <3>3. CASE h.capability # "readonly" /\ capability # "readonly"
      BY <2>1, <2>2, <3>3
    <3> QED
      BY <3>1, <3>2, <3>3
  <2> HIDE DEF given
  <2>4. given \in HandleOf(Len(colored.t.own)) /\ Reached(colored.t.own, given)
    BY <2>3, ReachedLater, TypesAndOwners
  <2>5. given \in handles \/ Given(colored.t, frames, given)
    BY <2>1, <2>3, <2>4, OtherGiven
  <2> QED
    BY <1>2, <2>5, AcceptIdleQuiet
<1> QED
  BY <1>1, <1>2 DEF Passed

LEMMA ReturnOwnedQuiet ==
    ASSUME Inv, Running, NEW colored, NEW h \in HandleOf(Len(topology.own)),
           NEW capability \in {"owned", "readonly"},
           Grows(topology, colored.t), Len(colored.t.own) = Len(topology.own),
           Unmoved(topology.own[h.network], colored.t.own[h.network]),
           ReturnOwned(colored, h, capability)
    PROVE  Quietly
<1> DEFINE n == h.network
           marked == MarkUsed(colored.t, {n})
           t == Returned(colored, n)
           g == Handle(t, n, capability, h.borrow)
<1>1. CASE Poison(Refused(topology))
  BY <1>1, PoisonQuiet
<1>2. CASE Returnable(topology, h) /\ ReturnedTo(t, h, capability)
  <2>1. /\ Grows(colored.t, marked) /\ WellFormed(colored.t) /\ marked.own = colored.t.own
        /\ n \in 1..Len(topology.own) /\ h.borrow \in Int
    BY MarkUsedGrows DEF Grows, Larger, HandleOf
  <2>2. /\ WellFormed(marked) /\ OwnersKnown /\ Caller \in Int /\ WellFormed(topology)
        /\ t = MoveTo(marked, n, Caller)
    BY <2>1, TypesAndOwners DEF Grows, Larger, Returned
  <2>3. /\ Accept([ok |-> TRUE, t |-> t], {g})
        /\ frames' = [frames EXCEPT ![Len(frames)].moves = @ \ {n}]
        /\ UNCHANGED <<borrows, conditions, pairs>>
    BY <1>2 DEF ReturnedTo
  <2>4. frames # <<>> /\ topology.own[n].owner = Owner(frames)
    BY <1>2 DEF Returnable, Of
  <2>5. Movable(marked.own, n) /\ marked.own[n].generation = topology.own[n].generation
    BY <2>1, <2>4 DEF Movable, Unmoved
  <2> HIDE DEF marked, t, n
  <2>6. /\ Grows(marked, t) /\ Len(t.own) = Len(marked.own)
        /\ t.own[n].generation = topology.own[n].generation + 1
    BY <2>1, <2>2, <2>5, MoveToGrows
  <2>7. Grows(topology, t) /\ WellFormed(t)
    BY <2>1, <2>2, <2>6, GrowsTransitive DEF Grows, Larger
  <2>8. topology.own[n].generation < t.own[n].generation
    BY <2>1, <2>2, <2>6, OwnTypes DEF Ownership
  <2>9. Given(t, frames', g)
    <3>1. g \in HandleOf(Len(t.own)) /\ Reached(t.own, g)
      BY <2>1, <2>6, <2>7, HandleTypes
    <3>2. g.capability # "move"
      BY DEF Handle
    <3> QED
      BY <3>1, <3>2, OtherGiven
  <2>10. Notes(t, frames')
    <3> DEFINE networks == {n}
    <3>1. /\ \A m \in networks : topology.own[m].generation < t.own[m].generation
          /\ frames' = [frames EXCEPT ![Len(frames)].moves = @ \ networks]
      BY <2>3, <2>8
    <3> HIDE DEF networks
    <3> QED
      BY <2>4, <3>1, ForgetQuiet
  <2>11. Reads(t, conditions', pairs', forgotten)
    BY <2>3, <2>7, SameReads
  <2> HIDE DEF g
  <2> DEFINE result == [ok |-> TRUE, t |-> t]
  <2>12. result.t = t /\ Accept(result, {g}) /\ UNCHANGED borrows
    BY <2>3
  <2> HIDE DEF result
  <2> QED
    BY <2>7, <2>9, <2>10, <2>11, <2>12, AcceptQuiet
<1> QED
  BY <1>1, <1>2 DEF ReturnOwned

LEMMA ReturnNetworkStep ==
    ASSUME Inv, NEW h \in Usable, NEW capability \in {"owned", "readonly"},
           NEW color \in Requirements, ReturnNetwork(h, capability, color)
    PROVE  Quietly
<1> DEFINE colored == RequireColor(topology, h.network, color)
<1>1. h \in HandleOf(Len(topology.own)) /\ h.network \in 1..Len(topology.own)
  BY UsableTypes, TypesAndOwners
<1>2. /\ Grows(topology, colored.t) /\ Len(colored.t.own) = Len(topology.own)
      /\ Unmoved(topology.own[h.network], colored.t.own[h.network])
  BY <1>1, RequireColorGrows, ColorsAreInt, TypesAndOwners
<1>3. Running /\ (Passed(colored, h, capability) \/ ReturnOwned(colored, h, capability))
  BY DEF ReturnNetwork
<1> HIDE DEF colored
<1> QED
  BY <1>1, <1>2, <1>3, PassedQuiet, ReturnOwnedQuiet

(* Every network that leaves the frame moves on.                            *)
MovesOn(networks, u) ==
    /\ Grows(topology, u) /\ Len(u.own) = Len(topology.own)
    /\ networks # {} => frames # <<>>
    /\ \A n \in networks : /\ n \in 1..Len(topology.own)
                           /\ u.own[n].generation = topology.own[n].generation + 1

LEMMA LeaveQuiet ==
    ASSUME Inv, Running, NEW result, NEW networks, NEW given,
           Leave(result, networks, given),
           result.ok =>
              /\ MovesOn(networks, result.t)
              /\ \A h \in given : /\ h \in HandleOf(Len(result.t.own))
                                  /\ Reached(result.t.own, h) /\ h.capability # "move"
    PROVE  Quietly
<1>1. CASE Poison(result)
  BY <1>1, PoisonQuiet
<1>2. CASE /\ Accept(result, given)
           /\ frames' = IF networks = {} THEN frames
                        ELSE [frames EXCEPT ![Len(frames)].moves = @ \ networks]
           /\ UNCHANGED <<borrows, conditions, pairs>>
  <2>1. /\ result.ok /\ Grows(topology, result.t)
        /\ networks # {} => frames # <<>>
        /\ \A n \in networks : topology.own[n].generation < result.t.own[n].generation
    <3>1. result.ok /\ MovesOn(networks, result.t)
      BY <1>2 DEF Accept
    <3> QED
      BY <3>1, OwnTypes, TypesAndOwners DEF MovesOn, Ownership
  <2>2. \A h \in given \ handles : Given(result.t, frames', h)
    BY <2>1, OtherGiven
  <2>3. Reads(result.t, conditions', pairs', forgotten)
    BY <1>2, <2>1, SameReads
  <2>4. CASE networks = {}
    <3>1. Notes(result.t, frames')
      BY <1>2, <2>4, SameFramesNote
    <3> QED
      BY <1>2, <2>1, <2>2, <2>3, <3>1, AcceptQuiet
  <2>5. CASE networks # {}
    <3>1. frames # <<>> /\ frames' = [frames EXCEPT ![Len(frames)].moves = @ \ networks]
      BY <1>2, <2>1, <2>5
    <3>2. Notes(result.t, frames')
      BY <2>1, <3>1, ForgetQuiet
    <3> QED
      BY <1>2, <2>1, <2>2, <2>3, <3>2, AcceptQuiet
  <2> QED
    BY <2>4, <2>5
<1> QED
  BY <1>1, <1>2 DEF Leave

LEMMA AllMoveOn ==
    ASSUME Inv, NEW networks \in SUBSET (1..Len(topology.own)),
           \A n \in networks : topology.own[n].owner = Owner(frames) /\ frames # <<>>,
           NEW lanes, \A lane \in lanes : lane.network \in networks, NEW marked
    PROVE  MovesOn(networks, ReturnAll(networks, lanes, marked))
<1> DEFINE u == ReturnAll(networks, lanes, marked)
<1>1. /\ Grows(topology, u) /\ Len(u.own) = Len(topology.own)
      /\ \A n \in networks : u.own[n].generation = topology.own[n].generation + 1
  BY TypesAndOwners, ReturnAllGrows
<1> HIDE DEF u
<1>2. MovesOn(networks, u)
  BY <1>1 DEF MovesOn
<1> QED
  BY <1>2 DEF u

(* What is returned is owned by the frame.                                  *)
LEMMA ReturnableOwned ==
    ASSUME NEW moving \in SUBSET HandleOf(Len(topology.own)),
           \A h \in moving : Returnable(topology, h),
           NEW networks, networks = {h.network : h \in moving}
    PROVE  /\ networks \in SUBSET (1..Len(topology.own))
           /\ \A n \in networks : topology.own[n].owner = Owner(frames) /\ frames # <<>>
<1>1. networks \in SUBSET (1..Len(topology.own))
  BY DEF HandleOf
<1>2. \A n \in networks : topology.own[n].owner = Owner(frames) /\ frames # <<>>
  BY DEF Returnable, Of
<1> QED
  BY <1>1, <1>2

LEMMA OwnedLanesTypes ==
    ASSUME Typed, NEW c \in Combinators
    PROVE  OwnedLanes(c) \subseteq HandleOf(Len(topology.own))
BY CombinatorTypes DEF OwnedLanes, Combinators, Typed

LEMMA ReturnWithQuiet ==
    ASSUME Inv, Running, NEW given \in SUBSET HandleOf(Len(topology.own)),
           NEW lanes \in SUBSET HandleOf(Len(topology.own)), ReturnWith(given, lanes)
    PROVE  Quietly
<1> DEFINE size == Len(topology.own)
           moving == Moving(given, lanes)
           networks == {h.network : h \in moving}
           charged == dslCalls + Cardinality(networks)
           u == ReturnAll(networks, lanes, TRUE)
           result == [ok |-> ValueReturns(given, lanes, moving) /\ charged <= DslCallBudget,
                      t |-> u]
           After(h) == [h EXCEPT !.capability = "owned", !.generation = @ + 1]
           returned == {After(h) : h \in moving}
<1>1. moving \in SUBSET HandleOf(size) /\ lanes \in SUBSET moving
  BY DEF Moving
<1>2. Leave(result, networks, returned)
  BY DEF ReturnWith, ReturnFrom, ReturnMoving
<1>3. result.ok => \A h \in moving : Returnable(topology, h)
  BY DEF ValueReturns
<1>4. result.t = u
  OBVIOUS
<1> HIDE DEF result, moving
<1>5. result.ok => MovesOn(networks, u)
  <2> HIDE DEF networks
  <2> SUFFICES ASSUME result.ok PROVE MovesOn(networks, u)
    OBVIOUS
  <2>1. /\ networks \in SUBSET (1..size)
        /\ \A n \in networks : topology.own[n].owner = Owner(frames) /\ frames # <<>>
    BY <1>1, <1>3, ReturnableOwned DEF networks
  <2>2. \A lane \in lanes : lane.network \in networks
    BY <1>1 DEF networks
  <2> QED
    BY <2>1, <2>2, AllMoveOn
<1> HIDE DEF u
<1>6. ASSUME result.ok, NEW g \in returned
      PROVE  /\ g \in HandleOf(Len(u.own)) /\ Reached(u.own, g) /\ g.capability # "move"
  <2>1. PICK h \in moving : g = After(h)
    BY <1>6
  <2>2. h \in HandleOf(size) /\ h.network \in networks /\ h.generation \in Int
    BY <1>1 DEF HandleOf
  <2>3. g = [network |-> h.network, capability |-> "owned",
             generation |-> h.generation + 1, borrow |-> h.borrow]
    BY <2>1, <2>2 DEF HandleOf
  <2>4. h.generation = topology.own[h.network].generation
    BY <1>3, <1>6 DEF Returnable, Readable, Current, Of
  <2>5. u.own[h.network].generation = topology.own[h.network].generation + 1
    BY <1>5, <1>6, <2>2 DEF MovesOn
  <2> HIDE DEF returned, networks
  <2>6. g \in HandleOf(size)
    BY <2>2, <2>3 DEF HandleOf
  <2>7. Reached(u.own, g)
    BY <2>2, <2>3, <2>4, <2>5 DEF Reached
  <2> QED
    BY <1>5, <1>6, <2>3, <2>6, <2>7 DEF MovesOn
<1> HIDE DEF returned, networks
<1> QED
  BY <1>2, <1>4, <1>5, <1>6, LeaveQuiet

LEMMA ReturnValueStep ==
    ASSUME Inv, NEW given \in SUBSET Usable, NEW combinators \in SUBSET Combinators,
           ReturnValue(given, combinators)
    PROVE  Quietly
<1>1. given \in SUBSET HandleOf(Len(topology.own))
  BY UsableTypes, TypesAndOwners
<1>2. UNION {OwnedLanes(c) : c \in combinators} \in SUBSET HandleOf(Len(topology.own))
  BY OwnedLanesTypes, TypesAndOwners
<1> QED
  BY <1>1, <1>2, ReturnWithQuiet DEF ReturnValue

LEMMA ReturnCombinatorStep ==
    ASSUME Inv, NEW c \in Combinators, ReturnCombinator(c)
    PROVE  Quietly
<1> DEFINE lanes == OwnedLanes(c)
           networks == {h.network : h \in lanes}
           result == [ok |-> \A h \in lanes : Returnable(topology, h),
                      t |-> ReturnAll(networks, lanes, FALSE)]
<1>1. lanes \in SUBSET HandleOf(Len(topology.own))
  BY OwnedLanesTypes, TypesAndOwners
<1>2. Running /\ Leave(result, networks, {})
  BY DEF ReturnCombinator, ReturnLanes
<1>3. /\ result.ok => \A h \in lanes : Returnable(topology, h)
      /\ result.t = ReturnAll(networks, lanes, FALSE)
  OBVIOUS
<1> HIDE DEF result, lanes
<1>4. result.ok => MovesOn(networks, result.t)
  <2> HIDE DEF networks
  <2> SUFFICES ASSUME result.ok PROVE MovesOn(networks, result.t)
    OBVIOUS
  <2>1. /\ networks \in SUBSET (1..Len(topology.own))
        /\ \A n \in networks : topology.own[n].owner = Owner(frames) /\ frames # <<>>
    BY <1>1, <1>3, ReturnableOwned DEF networks
  <2>2. \A lane \in lanes : lane.network \in networks
    BY DEF networks
  <2> QED
    BY <1>3, <2>1, <2>2, AllMoveOn
<1> HIDE DEF networks
<1> QED
  BY <1>2, <1>4, LeaveQuiet

(* The plan is sealed, the budget runs out, or nothing happens.             *)
LEMMA PlanStep ==
    ASSUME Inv, Plan \/ OverBudget \/ UNCHANGED vars
    PROVE  Quietly
<1>1. CASE Plan \/ UNCHANGED vars
  BY <1>1, StillQuiet DEF Plan, vars
<1>2. CASE OverBudget
  BY <1>2, PoisonQuiet DEF OverBudget
<1> QED
  BY <1>1, <1>2

-----------------------------------------------------------------------------
(* The steps that change the borrows or the stack.  They give no handle     *)
(* that was moved in, and keep what the program has named.                  *)
LEMMA OnwardInv ==
    ASSUME Inv, WellFormed(topology'), Leads(topology, topology'),
           KeepsUnread(topology, topology'), OwnedByCalled(topology)',
           \A h \in handles' \ handles :
               h \in HandleOf(Len(topology'.own)) /\ Reached(topology'.own, h),
           frames' \in Seq(FrameRecord), borrows' \in Seq(BorrowRecord), called' \in Nat,
           UNCHANGED <<conditions, pairs, forgotten>>, OwnersRise', FramesHold',
           Reflects(topology.own, borrows, Held(frames, Len(frames)))',
           DeepEnough(topology, frames, Len(frames))',
           MovesHeld(topology, frames, Len(frames))', FactoryInStep'
    PROVE  Inv'
<1>1. Len(topology.own) <= Len(topology'.own)
  BY DEF Leads
<1>2. HandleOf(Len(topology.own)) \subseteq HandleOf(Len(topology'.own))
  BY <1>1, OwnTypes, HandlesWiden DEF Inv, Typed
<1>3. Typed'
  BY <1>2 DEF Inv, Typed
<1>4. Known'
  BY KnownKept
<1>5. /\ NamedKnown(topology', conditions, pairs, forgotten)
      /\ ReadsMarked(topology', conditions, pairs, forgotten)
  BY <1>1, ReadsKept
<1> QED
  BY <1>3, <1>4, <1>5 DEF Inv

(* A borrow is added to the log, to a network and to the innermost frame.   *)
Entry(n, capability) == [network |-> n, capability |-> capability, active |-> TRUE]

Lending(t, n, capability, id) ==
    IF capability = "ref" THEN [t EXCEPT !.own[n].writer = id]
    ELSE [t EXCEPT !.own[n].readers = @ \cup {id}]

Lendable(n, capability) ==
    /\ n \in 1..Len(topology.own) /\ capability \in {"readonly", "ref"}
    /\ topology.own[n].writer = NoBorrow
    /\ capability = "ref" => topology.own[n].readers = {}

LendingNoted(t, u, n, capability, id) ==
    /\ WellFormed(u) /\ Len(u.own) = Len(t.own) /\ Wider(t, u) /\ KeepsUnread(t, u)
    /\ \A m \in 1..Len(t.own) : m # n => u.own[m] = t.own[m]
    /\ Unmoved(t.own[n], u.own[n])
    /\ BorrowsOf(u, n) = BorrowsOf(t, n) \cup {id}
    /\ Reflects(u.own, Append(borrows, Entry(n, capability)),
                Held(frames, Len(frames)) \cup {id})

LEMMA BorrowNoted ==
    ASSUME Typed, FramesHold, NEW t, Grows(topology, t),
           Reflects(topology.own, borrows, Held(frames, Len(frames))),
           NEW n, NEW capability, Lendable(n, capability)
    PROVE  LendingNoted(t, Lending(t, n, capability, Len(borrows) + 1), n, capability,
                        Len(borrows) + 1)
<1> DEFINE id == Len(borrows) + 1
           log == Append(borrows, Entry(n, capability))
           u == Lending(t, n, capability, id)
           held == Held(frames, Len(frames))
           o == IF capability = "ref" THEN [t.own[n] EXCEPT !.writer = id]
                ELSE [t.own[n] EXCEPT !.readers = @ \cup {id}]
           own == [t.own EXCEPT ![n] = o]
           size == Len(t.own)
<1> USE DEF Lendable
<1>1. /\ WellFormed(t) /\ size \in Nat /\ t.own \in [1..size -> Ownership]
      /\ n \in 1..size /\ t.own[n] \in Ownership
  <2>1. WellFormed(t) /\ Len(topology.own) <= size
    BY DEF Grows, Larger, OwnGrows
  <2>2. n \in 1..size
    BY <2>1, OwnTypes DEF Typed
  <2> QED
    BY <2>1, <2>2, OwnTypes
<1>2. Reflects(t.own, borrows, held)
  BY ReflectsGrows DEF Typed, Grows
<1>3. t.own[n].writer = NoBorrow /\ (capability = "ref" => t.own[n].readers = {})
  BY DEF Grows, Larger, OwnGrows, Kept, SameBorrows
<1>4. id \in Int /\ id # NoBorrow /\ id \notin held
  <2>1. Len(borrows) \in Nat /\ Len(frames) \in 0..Len(frames)
    BY FrameTypes
  <2>2. held \subseteq 1..Len(borrows)
    BY <2>1, HeldInRange
  <2> QED
    BY <2>1, <2>2 DEF NoBorrow
<1>5. /\ log[id].network = n /\ log[id].capability = capability
      /\ \A b \in held : log[b] = borrows[b]
  <2> DEFINE record == Entry(n, capability)
  <2>1. record \in BorrowRecord
    BY OwnTypes DEF BorrowRecord, Entry, Typed
  <2>2. record.network = n /\ record.capability = capability
    BY DEF Entry
  <2>3. /\ log[Len(borrows) + 1] = record
        /\ \A b \in 1..Len(borrows) : log[b] = borrows[b]
    BY <2>1, AppendProperties DEF Typed
  <2>4. held \subseteq 1..Len(borrows)
    BY FrameTypes, HeldInRange
  <2> QED
    BY <2>2, <2>3, <2>4
<1>6. /\ o \in Ownership
      /\ o.readers = IF capability = "ref" THEN {} ELSE t.own[n].readers \cup {id}
      /\ o.writer = IF capability = "ref" THEN id ELSE NoBorrow
      /\ Unmoved(t.own[n], o)
  <2>1. CASE capability = "ref"
    BY <1>1, <1>3, <1>4, <2>1 DEF Ownership, Unmoved
  <2>2. CASE capability # "ref"
    BY <1>1, <1>3, <1>4, <2>2 DEF Ownership, Unmoved
  <2> QED
    BY <2>1, <2>2
<1> HIDE DEF o
<1>7. /\ own \in [1..size -> Ownership] /\ own[n] = o
      /\ \A m \in 1..size : m # n => own[m] = t.own[m]
  BY <1>1, <1>6
<1>8. u = WithOwn(t, own)
  <2>1. CASE capability = "ref"
    BY <1>1, <2>1 DEF o, WellFormed, Lending, WithOwn
  <2>2. CASE capability # "ref"
    BY <1>1, <2>2 DEF o, WellFormed, Lending, WithOwn
  <2> QED
    BY <2>1, <2>2
<1> HIDE DEF own, u, log
<1>9. /\ WellFormed(u) /\ Len(own) = size /\ u.own = own
      /\ Wider(t, u) /\ KeepsUnread(t, u)
  <2>1. \A m \in 1..size : t.own[m].generation <= own[m].generation
    <3>1. \A m \in 1..size : t.own[m].generation \in Int
      BY <1>1, OwnTypes DEF Ownership
    <3>2. \A m \in 1..size : own[m].generation = t.own[m].generation
      BY <1>6, <1>7 DEF Unmoved
    <3> QED
      BY <3>1, <3>2
  <2>2. /\ WellFormed(WithOwn(t, own)) /\ Len(own) = Len(t.own)
        /\ Wider(t, WithOwn(t, own)) /\ KeepsUnread(t, WithOwn(t, own))
    BY <1>1, <1>7, <2>1, OwnChanged
  <2> QED
    BY <1>1, <1>8, <2>2, WithOwnParts
<1>10. \A b \in held \cup {id} : log[b].network \in 1..Len(own)
  BY <1>1, <1>2, <1>5, <1>9 DEF Reflects
<1>11. ASSUME NEW m \in 1..Len(own)
       PROVE  Noted(own, log, held \cup {id}, m)
  <2>1. Noted(t.own, borrows, held, m)
    BY <1>2, <1>9, <1>11 DEF Reflects
  <2>2. \A c : HeldOf(log, held, m, c) = HeldOf(borrows, held, m, c)
    BY <1>5 DEF HeldOf
  <2>3. CASE m # n
    <3>1. own[m] = t.own[m]
      BY <1>7, <1>9, <2>3
    <3>2. \A c : HeldOf(log, held \cup {id}, m, c) = HeldOf(log, held, m, c)
      BY <1>5, <2>3 DEF HeldOf
    <3> QED
      BY <2>1, <2>2, <3>1, <3>2 DEF Noted
  <2>4. CASE m = n
    <3>1. HeldOf(log, held \cup {id}, n, capability) = HeldOf(log, held, n, capability) \cup {id}
      BY <1>5 DEF HeldOf
    <3>2. \A c : c # capability =>
              HeldOf(log, held \cup {id}, n, c) = HeldOf(log, held, n, c)
      BY <1>5 DEF HeldOf
    <3>3. /\ HeldOf(log, held, n, "readonly") = t.own[n].readers
          /\ HeldOf(log, held, n, "ref") = {}
      BY <1>3, <2>1, <2>2, <2>4 DEF Noted
    <3>4. CASE capability = "ref"
      BY <1>4, <1>6, <1>7, <1>3, <2>4, <3>1, <3>2, <3>3, <3>4 DEF Noted
    <3>5. CASE capability = "readonly"
      BY <1>6, <1>7, <2>4, <3>1, <3>2, <3>3, <3>5 DEF Noted
    <3> QED
      BY <3>4, <3>5
  <2> QED
    BY <2>3, <2>4
<1>12. BorrowsOf(u, n) = BorrowsOf(t, n) \cup {id}
  <2>1. /\ o.readers \cup ({o.writer} \ {NoBorrow})
               = t.own[n].readers \cup ({t.own[n].writer} \ {NoBorrow}) \cup {id}
    <3>1. CASE capability = "ref"
      BY <1>3, <1>4, <1>6, <3>1
    <3>2. CASE capability # "ref"
      BY <1>3, <1>4, <1>6, <3>2
    <3> QED
      BY <3>1, <3>2
  <2> QED
    BY <1>7, <1>9, <2>1 DEF BorrowsOf
<1> QED
  BY <1>6, <1>7, <1>9, <1>10, <1>11, <1>12 DEF Reflects, u, log, LendingNoted

LEMMA LendingOnward ==
    ASSUME Inv, NEW t, Grows(topology, t), NEW n \in 1..Len(topology.own), NEW capability,
           NEW id, NEW u, LendingNoted(t, u, n, capability, id)
    PROVE  /\ Leads(topology, u) /\ KeepsUnread(topology, u) /\ OwnedByCalled(u)
           /\ topology.own[n].generation <= u.own[n].generation
           /\ \A m \in 1..Len(u.own) : /\ m \in 1..Len(t.own)
                                       /\ u.own[m].owner = t.own[m].owner
                                       /\ m # n => BorrowsOf(u, m) = BorrowsOf(t, m)
<1>1. /\ WellFormed(topology) /\ WellFormed(t) /\ WellFormed(u)
      /\ Len(u.own) = Len(t.own) /\ Len(topology.own) <= Len(t.own)
      /\ Wider(topology, t) /\ Wider(t, u)
  BY DEF Inv, Typed, Grows, Larger, OwnGrows, LendingNoted
<1>2. /\ Len(topology.own) \in Nat /\ Len(t.own) \in Nat
      /\ \A m \in 1..Len(topology.own) : m \in 1..Len(t.own)
  BY <1>1, OwnTypes
<1>3. /\ \A m \in 1..Len(t.own) : m # n => u.own[m] = t.own[m]
      /\ Unmoved(t.own[n], u.own[n])
  BY DEF LendingNoted
<1>4. \A m \in 1..Len(t.own) : Unmoved(t.own[m], u.own[m])
  BY <1>3 DEF Unmoved
<1>5. ASSUME NEW m \in 1..Len(topology.own)
      PROVE  Settles(topology.own[m], u.own[m])
  <2>1. Kept(topology.own[m], t.own[m]) /\ Unmoved(t.own[m], u.own[m])
    BY <1>2, <1>4 DEF Grows, Larger, OwnGrows
  <2> QED
    BY <2>1 DEF Kept, Unmoved, Older, Settles
<1>6. Wider(topology, u)
  BY <1>1, WiderTransitive
<1>7. Leads(topology, u)
  BY <1>1, <1>5, <1>6 DEF Leads
<1>8. KeepsUnread(topology, u)
  <2>1. \A named \in SUBSET (1..Len(topology.own)) : named \in SUBSET (1..Len(t.own))
    BY <1>2
  <2>2. KeepsUnread(topology, t) /\ KeepsUnread(t, u)
    BY DEF Grows, LendingNoted
  <2> QED
    BY <2>1, <2>2 DEF KeepsUnread
<1>9. OwnedByCalled(u)
  <2>1. OwnedByCalled(t)
    BY QuietOwned DEF Grows
  <2> QED
    BY <1>1, <1>4, <2>1 DEF OwnedByCalled, Unmoved
<1>10. topology.own[n].generation <= u.own[n].generation
  BY <1>5 DEF Settles, Older
<1> QED
  BY <1>1, <1>3, <1>4, <1>7, <1>8, <1>9, <1>10 DEF BorrowsOf, Unmoved

LEMMA BorrowParameterStep ==
    ASSUME Inv, NEW h \in Usable, NEW capability \in {"readonly", "ref"},
           NEW color \in Requirements, BorrowParameter(h, capability, color)
    PROVE  Inv' /\ Leads(topology, topology')
<1> DEFINE id == Len(borrows) + 1
           n == h.network
           colored == RequireColor(topology, n, color)
           result == Lend(colored, h, capability, id)
           given == [h EXCEPT !.capability = capability, !.borrow = id]
           record == Entry(n, capability)
           frame == [Frame EXCEPT !.borrows = @ \cup {id}]
           held == Held(frames, Len(frames))
           last == Len(frames)
<1>1. frames # <<>> /\ Running /\ Lent(result, h, capability, id)
  BY DEF BorrowParameter
<1>2. CASE Poison(result)
  BY <1>2, PoisonQuiet, QuietInv
<1>3. CASE /\ Accept(result, {given})
           /\ borrows' = Append(borrows, record)
           /\ frames' = [frames EXCEPT ![last].borrows = @ \cup {id}]
           /\ UNCHANGED <<conditions, pairs>>
  <2>1. /\ Typed /\ FramesHold /\ h \in HandleOf(Len(topology.own))
        /\ n \in 1..Len(topology.own) /\ WellFormed(topology)
    BY UsableTypes DEF Inv, HandleOf, Typed
  <2>2. /\ last \in 1..last /\ Frame \in FrameRecord /\ Len(borrows) \in Nat /\ last \in Nat
        /\ frames \in [1..last -> FrameRecord] /\ Frame = frames[last]
    BY <1>1, <2>1, LastFrame, FrameTypes DEF Frame
  <2>3. Grows(topology, colored.t)
    BY TypesAndOwners, RequireColorGrows, ColorsAreInt
  <2>4. /\ topology.own[n].writer = NoBorrow
        /\ capability = "ref" => topology.own[n].readers = {}
        /\ h.generation = topology.own[n].generation
    BY <1>3 DEF Accept, Lend, Borrowable, Readable, Current, Of
  <2>5. /\ topology' = result.t /\ handles' = handles \cup {given}
        /\ UNCHANGED <<called, factory, forgotten>>
    BY <1>3 DEF Accept
  <2>6. LendingNoted(colored.t, topology', n, capability, id)
    <3>1. result.t = Lending(colored.t, n, capability, id)
      BY DEF Lend, Lending
    <3>2. Reflects(topology.own, borrows, Held(frames, Len(frames)))
      BY DEF Inv
    <3>3. Lendable(n, capability)
      BY <2>1, <2>4 DEF Lendable
    <3>4. LendingNoted(colored.t, Lending(colored.t, n, capability, id), n, capability, id)
      <4> HIDE DEF colored, n
      <4> QED
        BY <2>1, <2>3, <3>2, <3>3, BorrowNoted
    <3> HIDE DEF result, colored, n, id
    <3> QED
      BY <2>5, <3>1, <3>4
  <2> DEFINE t == colored.t
             size == Len(topology'.own)
  <2>7. Grows(topology, t) /\ LendingNoted(t, topology', n, capability, id)
    BY <2>3, <2>6
  <2> HIDE DEF colored, result, t
  <2>8. /\ Leads(topology, topology') /\ KeepsUnread(topology, topology')
        /\ OwnedByCalled(topology')
        /\ topology.own[n].generation <= topology'.own[n].generation
        /\ \A m \in 1..size : /\ m \in 1..Len(t.own)
                              /\ topology'.own[m].owner = t.own[m].owner
                              /\ m # n => BorrowsOf(topology', m) = BorrowsOf(t, m)
    <3> HIDE DEF n, id
    <3> QED
      BY <2>1, <2>7, LendingOnward
  <2>9. /\ WellFormed(topology') /\ BorrowsOf(topology', n) = BorrowsOf(t, n) \cup {id}
        /\ Reflects(topology'.own, borrows', held \cup {id})
    BY <1>3, <2>7 DEF LendingNoted
  <2>10. record \in BorrowRecord /\ record.active
    BY <2>1, OwnTypes DEF BorrowRecord, Entry
  <2> HIDE DEF record
  <2>11. /\ borrows' \in Seq(BorrowRecord) /\ Len(borrows') = id /\ borrows'[id] = record
         /\ \A b \in 1..Len(borrows) : borrows'[b] = borrows[b]
    BY <1>3, <2>1, <2>10, AppendProperties DEF Typed
  <2>12. /\ frame \in FrameRecord /\ frame.borrows = Frame.borrows \cup {id}
         /\ frame.owner = Frame.owner /\ frame.moves = Frame.moves
    <3>1. Frame \in FrameRecord /\ id \in Int
      BY <2>2
    <3> HIDE DEF id
    <3> QED
      BY <3>1 DEF FrameRecord
  <2>13. frames' = [frames EXCEPT ![last] = frame]
    BY <1>3 DEF Frame
  <2> HIDE DEF frame
  <2>14. /\ frames' \in Seq(FrameRecord) /\ Len(frames') = last
         /\ frames'[last].borrows = frames[last].borrows \cup {id}
         /\ frames'[last].owner = frames[last].owner
         /\ frames'[last].moves = frames[last].moves
         /\ \A i \in 1..last : i # last => frames'[i] = frames[i]
    <3>1. /\ frames' \in [1..last -> FrameRecord] /\ frames'[last] = frame
          /\ \A i \in 1..last : i # last => frames'[i] = frames[i]
      BY <2>2, <2>12, <2>13
    <3> QED
      BY <2>2, <2>12, <3>1, FunctionIsSequence
  <2>15. \A i \in 1..last : /\ frames'[i].owner = frames[i].owner
                            /\ frames'[i].moves = frames[i].moves
    BY <2>14
  <2>16. \A g \in handles' \ handles : /\ g = given /\ g \in HandleOf(size)
                                       /\ Reached(topology'.own, g) /\ g.capability # "move"
    <3>1. given \in HandleOf(Len(topology.own))
      <4> DEFINE g == [h EXCEPT !.capability = capability]
      <4>1. g \in HandleOf(Len(topology.own))
        BY <2>1 DEF HandleOf
      <4>2. given = [g EXCEPT !.borrow = id]
        OBVIOUS
      <4>3. id \in Int
        BY <2>2
      <4> HIDE DEF g, id
      <4> QED
        BY <4>1, <4>2, <4>3 DEF HandleOf
    <3>2. HandleOf(Len(topology.own)) \subseteq HandleOf(size)
      BY <2>1, <2>8, <2>9, HandlesWiden, OwnTypes DEF Leads
    <3>3. given.capability = capability /\ given.network = n /\ given.generation = h.generation
      BY <2>1 DEF HandleOf
    <3> HIDE DEF given, n
    <3> QED
      BY <2>4, <2>5, <2>8, <3>1, <3>2, <3>3 DEF Reached
  <2> HIDE DEF given
  <2>17. \A i \in 1..last : frames[i].borrows \subseteq 1..Len(borrows)
    BY <2>1 DEF FramesHold
  <2>18. \A i \in 1..last : id \notin frames[i].borrows
    BY <2>2, <2>17
  <2>19. FramesHold'
    <3>1. \A i \in 1..last : frames'[i].borrows \subseteq 1..id
      BY <2>2, <2>14, <2>17
    <3>2. ASSUME NEW i \in 1..last, NEW j \in 1..last, i # j
          PROVE  frames'[i].borrows \cap frames'[j].borrows = {}
      <4>1. frames[i].borrows \cap frames[j].borrows = {}
        BY <2>1, <3>2 DEF FramesHold
      <4> QED
        BY <2>14, <2>18, <3>2, <4>1
    <3>3. ASSUME NEW b \in 1..id
          PROVE  borrows'[b].active <=> \E i \in 1..last : b \in frames'[i].borrows
      <4>1. CASE b = id
        BY <2>2, <2>10, <2>11, <2>14, <4>1
      <4>2. CASE b # id
        <5>1. b \in 1..Len(borrows) /\ borrows'[b] = borrows[b]
          BY <2>2, <2>11, <4>2
        <5>2. \A i \in 1..last : b \in frames'[i].borrows <=> b \in frames[i].borrows
          BY <2>14, <4>2
        <5>3. borrows[b].active <=> \E i \in 1..last : b \in frames[i].borrows
          BY <2>1, <5>1 DEF FramesHold
        <5> HIDE DEF last
        <5> QED
          BY <5>1, <5>2, <5>3
      <4> QED
        BY <4>1, <4>2
    <3> HIDE DEF id, last
    <3> QED
      BY <2>11, <2>14, <3>1, <3>2, <3>3 DEF FramesHold, last
  <2>20. Held(frames', last) = held \cup {id}
    BY <2>2, <2>14 DEF Held
  <2>21. OwnersRise'
    BY <2>5, <2>14, <2>15 DEF Inv, OwnersRise
  <2>22. DeepEnough(topology', frames', last)
    <3>1. DeepEnough(t, frames, last)
      BY <2>7, DeepEnoughKept, SameFramesNote DEF Grows
    <3>2. SUFFICES ASSUME NEW m \in 1..size, NEW i \in 1..last, NEW j \in 1..last,
                          frames'[i].owner = topology'.own[m].owner,
                          frames'[j].borrows \cap BorrowsOf(topology', m) # {}
                   PROVE  i <= j
      BY DEF DeepEnough
    <3>3. CASE j = last
      BY <2>2, <3>3
    <3>4. CASE j # last
      <4>1. /\ m \in 1..Len(t.own) /\ frames[i].owner = t.own[m].owner
            /\ frames'[j] = frames[j] /\ id \notin frames[j].borrows
        BY <2>8, <2>14, <2>15, <2>18, <3>2, <3>4
      <4>2. frames[j].borrows \cap BorrowsOf(t, m) # {}
        <5>1. CASE m # n
          BY <2>8, <3>2, <4>1, <5>1
        <5>2. CASE m = n
          BY <2>9, <3>2, <4>1, <5>2
        <5> QED
          BY <5>1, <5>2
      <4> QED
        BY <3>1, <4>1, <4>2 DEF DeepEnough
    <3> QED
      BY <3>3, <3>4
  <2>23. MovesHeld(topology, frames, Len(frames))'
    <3>1. Gives(topology', frames')
      BY <2>14, <2>15 DEF Gives
    <3> QED
      BY <2>5, <2>8, <2>9, <2>16, <3>1, MovesKept
  <2>24. FactoryInStep'
    <3>1. CASE factory.phase = "none"
      BY <2>5, <3>1 DEF FactoryInStep
    <3>2. CASE factory.phase = "running"
      <4>1. PICK saved, depth, paired :
                saved = factory.saved /\ depth = factory.depth /\ paired = factory.pairs
        OBVIOUS
      <4>2. depth \in 0..last /\ depth < last /\ InStep(saved, depth, paired)
        BY <2>2, <3>2, <4>1 DEF Inv, FactoryInStep
      <4>3. \A i \in 1..depth : frames'[i] = frames[i]
        BY <2>2, <2>14, <4>2
      <4>4. SameEntries /\ called' \in Nat /\ called <= called'
            /\ forgotten \subseteq forgotten'
        BY <2>1, <2>5, <2>11 DEF SameEntries, Typed
      <4>5. \A g \in handles' \ handles : g \in HandleOf(size) /\ New(g)
        BY <2>16 DEF New
      <4>6. InStep(saved, depth, paired)'
        BY <2>8, <2>9, <4>2, <4>3, <4>4, <4>5, InStepKept
      <4> QED
        BY <2>5, <2>14, <3>2, <4>1, <4>6 DEF Inv, FactoryInStep
    <3> QED
      BY <1>1, <3>1, <3>2 DEF Running
  <2>25. called' \in Nat
    BY <2>1, <2>5 DEF Typed
  <2>26. OwnedByCalled(topology)' /\ Reflects(topology.own, borrows, Held(frames, Len(frames)))'
         /\ DeepEnough(topology, frames, Len(frames))'
    BY <2>5, <2>8, <2>9, <2>14, <2>20, <2>22 DEF OwnedByCalled
  <2> QED
    BY <1>3, <2>5, <2>8, <2>9, <2>11, <2>14, <2>16, <2>19, <2>21, <2>23, <2>24, <2>25,
       <2>26, OnwardInv
<1> QED
  BY <1>1, <1>2, <1>3 DEF Lent, Entry

(* A new frame holds no borrow, and nothing is owned by it but the network  *)
(* that is made with it.                                                    *)
LEMMA EnteredTopology ==
    ASSUME Inv, NEW default \in BOOLEAN, EnterFunction(default)
    PROVE  /\ Larger(topology, topology') /\ KeepsUnread(topology, topology')
           /\ \A n \in 1..Len(topology.own) : Unmoved(topology.own[n], topology'.own[n])
           /\ \A n \in 1..Len(topology'.own) : topology'.own[n].owner <= called + 1
           /\ \A h \in handles' \ handles :
                  /\ h \in HandleOf(Len(topology'.own)) /\ Reached(topology'.own, h)
                  /\ h.capability # "move"
<1> DEFINE t == NewNetwork(topology, called + 1, NoColor)
           size == Len(topology.own)
<1>1. /\ WellFormed(topology) /\ called \in Nat /\ called + 1 \in Int /\ NoColor \in Int
      /\ size \in Nat /\ \A n \in 1..size : topology.own[n] \in Ownership
  BY OwnTypes DEF Inv, Typed, NoColor
<1>2. \A n \in 1..size : topology.own[n].owner <= called + 1
  <2>1. \A n \in 1..size : topology.own[n].owner \in Int /\ topology.own[n].owner <= called
    BY <1>1 DEF Inv, OwnedByCalled, Ownership
  <2> QED
    BY <1>1, <2>1
<1>3. CASE default
  <2>1. /\ Larger(topology, t) /\ Len(t.own) = size + 1
        /\ t.combs = topology.combs /\ t.transfers = topology.transfers
        /\ t.own[size + 1].owner = called + 1
    BY <1>1, NewNetworkGrows
  <2>2. t.own = Append(topology.own, Added(called + 1, NoColor))
    BY <1>1, NewNetworkParts
  <2>3. topology' = t /\ handles' = handles \cup {Newest(t)}
    BY <1>3 DEF EnterFunction, Entered
  <2>4. \A n \in 1..size : t.own[n] = topology.own[n]
    <3>1. Added(called + 1, NoColor) \in Ownership
      BY <1>1 DEF Added, Ownership, NoBorrow
    <3> QED
      BY <1>1, <2>2, <3>1, AppendProperties DEF WellFormed
  <2> HIDE DEF t
  <2>5. WellFormed(t) /\ Len(t.own) # 0
    BY <1>1, <2>1 DEF Larger
  <2>6. /\ Newest(t) \in HandleOf(Len(t.own)) /\ Reached(t.own, Newest(t))
        /\ Newest(t).capability # "move"
    BY <2>5, NewestTypes
  <2>7. KeepsUnread(topology, t)
    BY <2>1 DEF KeepsUnread, Unread, IsRead
  <2>8. \A n \in 1..Len(t.own) : t.own[n].owner <= called + 1
    BY <1>1, <1>2, <2>1, <2>4
  <2> QED
    BY <2>1, <2>3, <2>4, <2>6, <2>7, <2>8 DEF Unmoved
<1>4. CASE ~default
  <2>1. topology' = topology /\ handles' = handles
    BY <1>4 DEF EnterFunction, Entered
  <2> QED
    BY <1>1, <1>2, <2>1, GrowsReflexive DEF Grows, Unmoved
<1> QED
  BY <1>3, <1>4

LEMMA EnterFunctionStep ==
    ASSUME Inv, NEW default \in BOOLEAN, EnterFunction(default)
    PROVE  Inv' /\ Leads(topology, topology')
<1> DEFINE last == Len(frames)
           size == Len(topology.own)
           frame == [owner |-> called + 1, borrows |-> {}, moves |-> {}, references |-> {}]
<1>1. /\ called' = called + 1 /\ frames' = Append(frames, frame)
      /\ factory.phase # "left"
      /\ factory' = IF factory.phase = "begun" THEN [factory EXCEPT !.phase = "running"]
                    ELSE factory
      /\ UNCHANGED <<borrows, conditions, pairs, forgotten>>
  BY DEF EnterFunction
<1>2. Typed /\ FramesHold /\ WellFormed(topology) /\ called \in Nat /\ last \in Nat
  BY FrameTypes DEF Inv, Typed
<1>3. /\ Larger(topology, topology') /\ WellFormed(topology') /\ Leads(topology, topology')
      /\ KeepsUnread(topology, topology')
      /\ \A n \in 1..size : Unmoved(topology.own[n], topology'.own[n])
      /\ \A n \in 1..Len(topology'.own) : topology'.own[n].owner <= called + 1
      /\ \A h \in handles' \ handles : /\ h \in HandleOf(Len(topology'.own))
                                       /\ Reached(topology'.own, h)
                                       /\ h.capability # "move"
  BY EnteredTopology, LargerLeads DEF Larger
<1>4. frame \in FrameRecord /\ frame.borrows = {} /\ frame.owner = called + 1
  BY <1>2 DEF FrameRecord
<1> HIDE DEF frame
<1>5. /\ frames' \in Seq(FrameRecord) /\ Len(frames') = last + 1
      /\ frames'[last + 1] = frame /\ \A i \in 1..last : frames'[i] = frames[i]
  BY <1>1, <1>2, <1>4, AppendProperties DEF Typed
<1>6. /\ \A i \in 1..last + 1 : i # last + 1 => i \in 1..last
      /\ \A i \in 1..last : i \in 1..last + 1 /\ i # last + 1
  BY <1>2
<1>7. Held(frames', last + 1) = Held(frames, last)
  BY <1>2, <1>4, <1>5 DEF Held
<1>8. Reflects(topology.own, borrows, Held(frames, Len(frames)))'
  <2>1. Reflects(topology'.own, borrows, Held(frames, last))
    BY <1>2, <1>3, ReflectsGrows DEF Inv
  <2> QED
    BY <1>1, <1>5, <1>7, <2>1
<1>9. FramesHold'
  <2>1. \A i \in 1..last + 1 : frames'[i].borrows =
            IF i = last + 1 THEN {} ELSE frames[i].borrows
    <3> HIDE DEF last
    <3> QED
      BY <1>4, <1>5, <1>6
  <2> HIDE DEF last
  <2> QED
    BY <1>1, <1>2, <1>5, <1>6, <2>1 DEF FramesHold, last
<1>10. \A i \in 1..last : /\ frames[i].owner \in Int /\ 0 < frames[i].owner
                          /\ frames[i].owner <= called
  BY <1>2, FrameTypes DEF Inv, OwnersRise, FrameRecord
<1>11. OwnersRise'
  <2>1. ASSUME NEW i \in 1..last + 1
        PROVE  0 < frames'[i].owner /\ frames'[i].owner <= called + 1
    <3>1. CASE i = last + 1
      BY <1>2, <1>4, <1>5, <3>1
    <3>2. CASE i # last + 1
      <4>1. i \in 1..last /\ frames'[i] = frames[i]
        BY <1>5, <1>6, <3>2
      <4> QED
        BY <1>2, <1>10, <4>1
    <3> QED
      BY <3>1, <3>2
  <2>2. ASSUME NEW i \in 1..last + 1, NEW j \in 1..last + 1, i < j
        PROVE  frames'[i].owner < frames'[j].owner
    <3>1. i \in 1..last /\ frames'[i] = frames[i]
      BY <1>2, <1>5, <2>2
    <3>2. CASE j = last + 1
      BY <1>2, <1>4, <1>5, <1>10, <3>1, <3>2
    <3>3. CASE j # last + 1
      <4>1. j \in 1..last /\ frames'[j] = frames[j]
        BY <1>5, <1>6, <3>3
      <4> QED
        BY <2>2, <3>1, <4>1 DEF Inv, OwnersRise
    <3> QED
      BY <3>2, <3>3
  <2> QED
    BY <1>1, <1>5, <2>1, <2>2 DEF OwnersRise
<1>12. DeepEnough(topology', frames', last + 1)
  <2> SUFFICES ASSUME NEW n \in 1..Len(topology'.own), NEW i \in 1..last + 1,
                      NEW j \in 1..last + 1,
                      frames'[i].owner = topology'.own[n].owner,
                      frames'[j].borrows \cap BorrowsOf(topology', n) # {}
               PROVE  i <= j
    BY DEF DeepEnough
  <2>1. j \in 1..last /\ frames'[j] = frames[j] /\ ~Free(topology'.own[n])
    BY <1>4, <1>5, <1>6, FreeHasNoBorrows
  <2>2. n \in 1..size
    <3>1. n \in size + 1 .. Len(topology'.own) => Free(topology'.own[n])
      BY <1>3 DEF Larger, OwnGrows
    <3>2. size \in Nat /\ Len(topology'.own) \in Nat
      BY <1>2, <1>3, OwnTypes
    <3> QED
      BY <2>1, <3>1, <3>2
  <2>3. /\ BorrowsOf(topology', n) = BorrowsOf(topology, n)
        /\ topology'.own[n].owner = topology.own[n].owner
    BY <1>3, <2>2 DEF Larger, OwnGrows, Kept, SameBorrows, BorrowsOf, Unmoved
  <2>4. topology.own[n].owner \in Int /\ topology.own[n].owner <= called
    BY <1>2, <2>2, OwnTypes DEF Inv, OwnedByCalled, Ownership
  <2>5. i # last + 1
    BY <1>2, <1>4, <1>5, <2>3, <2>4
  <2>6. i \in 1..last /\ frames'[i] = frames[i]
    BY <1>5, <1>6, <2>5
  <2> QED
    BY <2>1, <2>2, <2>3, <2>6 DEF Inv, DeepEnough
<1>13. MovesHeld(topology, frames, Len(frames))'
  <2>1. Gives(topology', frames')
    BY <1>5, <1>6 DEF Gives
  <2> QED
    BY <1>1, <1>3, <2>1, MovesKept
<1>14. FactoryInStep'
  <2>1. CASE factory.phase = "none"
    BY <1>1, <2>1 DEF FactoryInStep
  <2>2. CASE factory.phase \in {"begun", "running"}
    <3>1. PICK saved, depth, paired :
              saved = factory.saved /\ depth = factory.depth /\ paired = factory.pairs
      OBVIOUS
    <3>2. /\ factory = [phase |-> factory.phase, depth |-> depth, saved |-> saved,
                        pairs |-> paired]
          /\ depth \in 0..last /\ InStep(saved, depth, paired)
      BY <1>2, <2>2, <3>1 DEF Inv, FactoryInStep
    <3>3. factory' = [phase |-> "running", depth |-> depth, saved |-> saved,
                      pairs |-> paired]
      BY <1>1, <2>2, <3>2
    <3>4. \A i \in 1..depth : frames'[i] = frames[i]
      BY <1>2, <1>5, <3>2
    <3>5. SameEntries /\ called' \in Nat /\ called <= called' /\ forgotten \subseteq forgotten'
      BY <1>1, <1>2 DEF SameEntries
    <3>6. \A h \in handles' \ handles : h \in HandleOf(Len(topology'.own)) /\ New(h)
      BY <1>3 DEF New
    <3>7. InStep(saved, depth, paired)'
      BY <1>3, <3>2, <3>4, <3>5, <3>6, InStepKept
    <3>8. depth \in Nat /\ depth <= Len(frames') /\ depth < Len(frames')
      BY <1>2, <1>5, <3>2
    <3> QED
      BY <3>3, <3>7, <3>8 DEF FactoryInStep
  <2> QED
    BY <1>1, <2>1, <2>2 DEF Inv, FactoryInStep
<1>15. called' \in Nat /\ OwnedByCalled(topology)'
  BY <1>1, <1>2, <1>3 DEF OwnedByCalled
<1>16. DeepEnough(topology, frames, Len(frames))'
  BY <1>5, <1>12
<1>17. borrows' \in Seq(BorrowRecord)
  BY <1>1, <1>2 DEF Typed
<1> QED
  BY <1>1, <1>3, <1>5, <1>8, <1>9, <1>11, <1>13, <1>14, <1>15, <1>16, <1>17, OnwardInv

(* What a frame held is taken from the readers and the writer of a network. *)
LEMMA ReleasedNoted ==
    ASSUME NEW own, NEW log, NEW held, NEW n, Noted(own, log, held, n),
           NEW released, NEW ended, NEW gone,
           released[n].readers = own[n].readers \ gone,
           released[n].writer = IF own[n].writer \in gone THEN NoBorrow ELSE own[n].writer,
           \A b \in held : /\ ended[b].network = log[b].network
                           /\ ended[b].capability = log[b].capability
    PROVE  Noted(released, ended, held \ gone, n)
<1>1. \A c : HeldOf(ended, held \ gone, n, c) = HeldOf(log, held, n, c) \ gone
  BY DEF HeldOf
<1>2. {released[n].writer} \ {NoBorrow} = ({own[n].writer} \ {NoBorrow}) \ gone
  OBVIOUS
<1> QED
  BY <1>1, <1>2 DEF Noted

(* A network is lost with the frame that owns it, or stays where it is.     *)
Releases(o, frame, n, s) ==
    /\ s \in Ownership
    /\ s.readers = o.readers \ frame.borrows
    /\ s.writer = IF o.writer \in frame.borrows THEN NoBorrow ELSE o.writer
    /\ \/ /\ s.owner = Lost /\ s.generation = o.generation + 1 /\ s.consumed = o.consumed
          /\ o.owner = frame.owner
       \/ /\ Unmoved(o, s)
          /\ ~(n \in frame.moves /\ ~o.consumed /\ o.owner = frame.owner)

LEMMA ReleasedNetwork ==
    ASSUME Inv, NEW frame \in FrameRecord, NEW n \in 1..Len(topology.own)
    PROVE  Releases(topology.own[n], frame, n, Released(frame)[n])
<1> DEFINE o == topology.own[n]
           gone == frame.borrows
           lost == n \in frame.moves /\ ~o.consumed /\ o.owner = frame.owner
           readers == o.readers \ gone
           writer == IF o.writer \in gone THEN NoBorrow ELSE o.writer
           generation == IF lost THEN o.generation + 1 ELSE o.generation
           owner == IF lost THEN Lost ELSE o.owner
           s == Released(frame)[n]
<1>1. o \in Ownership
  BY OwnTypes DEF Inv, Typed
<1>2. s = [o EXCEPT !.readers = readers, !.writer = writer,
                    !.generation = generation, !.owner = owner]
  BY DEF Released
<1>3. /\ readers \in SUBSET Int /\ writer \in Int /\ generation \in Int /\ owner \in Int
  <2> HIDE DEF o, lost
  <2> QED
    BY <1>1 DEF Ownership, NoBorrow, Lost
<1>4. o = [consumed |-> o.consumed, generation |-> o.generation, owner |-> o.owner,
           color |-> o.color, readers |-> o.readers, writer |-> o.writer]
  <2> HIDE DEF o
  <2> QED
    BY <1>1 DEF Ownership
<1>5. o.consumed \in BOOLEAN /\ o.color \in Int
  <2> HIDE DEF o
  <2> QED
    BY <1>1 DEF Ownership
<1> HIDE DEF o, readers, writer, generation, owner
<1>6. s = [consumed |-> o.consumed, generation |-> generation, owner |-> owner,
           color |-> o.color, readers |-> readers, writer |-> writer]
  <2> HIDE DEF s
  <2> QED
    BY <1>2, <1>4
<1>7. /\ s \in Ownership /\ s.readers = readers /\ s.writer = writer
      /\ s.generation = generation /\ s.owner = owner /\ s.consumed = o.consumed
  <2> HIDE DEF s
  <2> QED
    BY <1>3, <1>5, <1>6 DEF Ownership
<1> HIDE DEF s
<1>8. CASE lost
  <2>1. s.owner = Lost /\ s.generation = o.generation + 1 /\ o.owner = frame.owner
    BY <1>7, <1>8 DEF generation, owner
  <2>2. Releases(o, frame, n, s)
    BY <1>7, <2>1 DEF Releases, readers, writer
  <2> QED
    BY <2>2 DEF o, s
<1>9. CASE ~lost
  <2>1. Unmoved(o, s)
    BY <1>7, <1>9 DEF generation, owner, Unmoved
  <2>2. Releases(o, frame, n, s)
    BY <1>7, <1>9, <2>1 DEF Releases, readers, writer
  <2> QED
    BY <2>2 DEF o, s
<1> QED
  BY <1>8, <1>9

(* The frames that are left when the innermost one ends.                    *)
LEMMA FramesLeft ==
    ASSUME Typed, frames # <<>>
    PROVE  /\ SubSeq(frames, 1, Len(frames) - 1) \in Seq(FrameRecord)
           /\ Len(SubSeq(frames, 1, Len(frames) - 1)) = Len(frames) - 1
           /\ \A i \in 1..Len(frames) - 1 :
                 SubSeq(frames, 1, Len(frames) - 1)[i] = frames[i]
<1> DEFINE last == Len(frames)
           left == SubSeq(frames, 1, last - 1)
<1>1. last \in Nat /\ last \in 1..last /\ 1 \in Int /\ last - 1 \in Int
      /\ \A i \in 1..last - 1 : frames[i] \in FrameRecord
  BY FrameTypes, LastFrame
<1> HIDE DEF last
<1>2. /\ left \in Seq(FrameRecord)
      /\ Len(left) = IF 1 <= last - 1 THEN last - 1 - 1 + 1 ELSE 0
      /\ \A i \in 1 .. last - 1 - 1 + 1 : left[i] = frames[1 + i - 1]
  BY <1>1, SubSeqProperties
<1>3. \A i \in 1..last - 1 : i \in 1 .. last - 1 - 1 + 1 /\ 1 + i - 1 = i
  BY <1>1
<1>4. last - 1 - 1 + 1 = last - 1 /\ (~(1 <= last - 1) => last - 1 = 0)
  <2>1. \A k \in Nat : k \in 1..k =>
            k - 1 - 1 + 1 = k - 1 /\ (~(1 <= k - 1) => k - 1 = 0)
    OBVIOUS
  <2> QED
    BY <1>1, <2>1
<1> HIDE DEF left
<1>5. /\ left \in Seq(FrameRecord) /\ Len(left) = last - 1
      /\ \A i \in 1..last - 1 : left[i] = frames[i]
  BY <1>2, <1>3, <1>4
<1> QED
  BY <1>5 DEF left, last

LEMMA ExitInstanceStep ==
    ASSUME Inv, ExitInstance
    PROVE  Inv' /\ Leads(topology, topology')
<1> DEFINE last == Len(frames)
           size == Len(topology.own)
           gone == Frame.borrows
           own == Released(Frame)
<1>1. /\ frames # <<>> /\ factory.phase \in {"none", "running"}
      /\ topology' = [topology EXCEPT !.own = own]
      /\ borrows' = [b \in 1..Len(borrows) |->
                        [borrows[b] EXCEPT !.active = @ /\ b \notin gone]]
      /\ frames' = SubSeq(frames, 1, last - 1)
      /\ factory' = IF factory.phase = "running" /\ last = factory.depth + 1
                    THEN [factory EXCEPT !.phase = "left"] ELSE factory
      /\ UNCHANGED <<called, handles, conditions, pairs, forgotten>>
  BY DEF ExitInstance, Running
<1>2. /\ Typed /\ FramesHold /\ WellFormed(topology) /\ last \in Nat /\ last \in 1..last
      /\ Frame \in FrameRecord /\ Frame = frames[last] /\ Owner(frames) = Frame.owner
      /\ size \in Nat /\ Len(borrows) \in Nat /\ called \in Nat
      /\ \A n \in 1..size : topology.own[n] \in Ownership
  BY <1>1, FrameTypes, LastFrame, OwnTypes DEF Inv, Typed, Frame
<1>3. /\ frames' \in Seq(FrameRecord) /\ Len(frames') = last - 1
      /\ \A i \in 1..last - 1 : frames'[i] = frames[i]
  BY <1>1, <1>2, FramesLeft
<1>4. ASSUME NEW b \in 1..Len(borrows)
      PROVE  /\ borrows'[b] \in BorrowRecord
             /\ borrows'[b].network = borrows[b].network
             /\ borrows'[b].capability = borrows[b].capability
             /\ borrows'[b].active <=> borrows[b].active /\ b \notin gone
  <2>1. borrows[b] \in BorrowRecord
    BY <1>2, FrameTypes
  <2>2. borrows'[b] = [borrows[b] EXCEPT !.active = @ /\ b \notin gone]
    BY <1>1
  <2> HIDE DEF gone
  <2> QED
    BY <2>1, <2>2 DEF BorrowRecord
<1>5. borrows' \in Seq(BorrowRecord) /\ Len(borrows') = Len(borrows)
  <2>1. borrows' = [b \in 1..Len(borrows) |-> borrows'[b]]
    BY <1>1
  <2>2. borrows' \in [1..Len(borrows) -> BorrowRecord]
    BY <1>4, <2>1
  <2> QED
    BY <1>2, <2>2, FunctionIsSequence
<1>6. \A n \in 1..size : Releases(topology.own[n], Frame, n, own[n])
  BY <1>2, ReleasedNetwork
<1>7. own \in [1..size -> Ownership]
  <2>1. own = [n \in 1..size |-> own[n]]
    BY DEF Released
  <2> HIDE DEF own
  <2> QED
    BY <1>6, <2>1 DEF Releases
<1> HIDE DEF own
<1>8. ASSUME NEW n \in 1..size
      PROVE  /\ Settles(topology.own[n], own[n])
             /\ own[n].owner # Lost => Unmoved(topology.own[n], own[n])
             /\ topology.own[n].generation <= own[n].generation
             /\ own[n].owner <= called
  <2> DEFINE o == topology.own[n]
             s == own[n]
  <2>1. /\ o.generation \in Int /\ o.owner \in Int /\ o.owner <= called
        /\ Releases(o, Frame, n, s)
    BY <1>2, <1>6 DEF Ownership, Inv, OwnedByCalled
  <2> HIDE DEF o, s
  <2>2. CASE s.owner = Lost /\ s.generation = o.generation + 1 /\ s.consumed = o.consumed
             /\ o.owner = Frame.owner
    <3>1. Older(o, s) /\ o.generation <= s.generation
      BY <2>1, <2>2 DEF Older
    <3>2. Lost <= called
      BY <1>2 DEF Lost
    <3> QED
      BY <1>2, <2>2, <3>1, <3>2 DEF Settles, o, s
  <2>3. CASE Unmoved(o, s)
    <3>1. Older(o, s) /\ o.generation <= s.generation /\ s.owner <= called
      BY <2>1, <2>3 DEF Older, Unmoved
    <3> QED
      BY <2>3, <3>1 DEF Settles, o, s
  <2> QED
    BY <2>1, <2>2, <2>3 DEF Releases
<1>9. /\ WellFormed(topology') /\ topology'.own = own /\ Len(own) = size
      /\ Leads(topology, topology') /\ KeepsUnread(topology, topology')
  <2>1. /\ WellFormed(WithOwn(topology, own)) /\ Len(own) = size
        /\ Wider(topology, WithOwn(topology, own))
        /\ KeepsUnread(topology, WithOwn(topology, own))
    BY <1>2, <1>7, <1>8, OwnChanged
  <2>2. topology' = WithOwn(topology, own) /\ WithOwn(topology, own).own = own
    BY <1>1, <1>2, WithOwnParts DEF WithOwn
  <2> QED
    BY <1>2, <1>8, <2>1, <2>2 DEF Leads
<1>10. \A n \in 1..size : BorrowsOf(topology', n) = BorrowsOf(topology, n) \ gone
  BY <1>6, <1>9 DEF BorrowsOf, Releases
<1>11. \A i \in 1..last - 1 : i \in 1..last /\ i # last
  BY <1>2
<1>12. \A i \in 1..last : i # last => i \in 1..last - 1
  BY <1>2
<1>13. \A i \in 1..last - 1 : frames[i].borrows \cap gone = {}
  BY <1>2, <1>11 DEF FramesHold
<1>14. Held(frames', last - 1) = Held(frames, last) \ gone
  <2>1. \A b : (\E i \in 1..last - 1 : b \in frames'[i].borrows)
               <=> (\E i \in 1..last : b \in frames[i].borrows) /\ b \notin gone
    <3> HIDE DEF last
    <3> QED
      BY <1>2, <1>3, <1>11, <1>12, <1>13
  <2> HIDE DEF gone, last
  <2> QED
    BY <2>1 DEF Held
<1>15. Reflects(topology.own, borrows, Held(frames, Len(frames)))'
  <2> DEFINE held == Held(frames, last)
  <2>1. held \subseteq 1..Len(borrows)
    BY <1>2, HeldInRange
  <2>2. Reflects(topology.own, borrows, held)
    BY DEF Inv
  <2>3. \A b \in held \ gone : borrows'[b].network \in 1..Len(own)
    BY <1>4, <1>9, <2>1, <2>2 DEF Reflects
  <2>4. ASSUME NEW n \in 1..Len(own)
        PROVE  Noted(own, borrows', held \ gone, n)
    <3>1. n \in 1..size
      BY <1>9
    <3>2. Noted(topology.own, borrows, held, n)
      BY <2>2, <3>1 DEF Reflects
    <3>3. \A b \in held : /\ borrows'[b].network = borrows[b].network
                           /\ borrows'[b].capability = borrows[b].capability
      BY <1>4, <2>1
    <3>4. /\ own[n].readers = topology.own[n].readers \ gone
          /\ own[n].writer = IF topology.own[n].writer \in gone THEN NoBorrow
                             ELSE topology.own[n].writer
      BY <1>6, <3>1 DEF Releases
    <3> HIDE DEF held, gone
    <3> DEFINE before == topology.own
               ended == borrows'
    <3> HIDE DEF before, ended
    <3>5. Noted(own, ended, held \ gone, n)
      BY <3>2, <3>3, <3>4, ReleasedNoted DEF before, ended
    <3> QED
      BY <3>5 DEF ended
  <2>5. Reflects(own, borrows', held \ gone)
    BY <2>3, <2>4 DEF Reflects
  <2> QED
    BY <1>3, <1>9, <1>14, <2>5
<1>16. FramesHold'
  <2>1. \A i \in 1..last - 1 : frames'[i].borrows = frames[i].borrows
    BY <1>3
  <2>2. \A i \in 1..last - 1 : frames'[i].borrows \subseteq 1..Len(borrows')
    BY <1>2, <1>5, <1>11, <2>1 DEF FramesHold
  <2>3. \A i, j \in 1..last - 1 : i # j => frames'[i].borrows \cap frames'[j].borrows = {}
    BY <1>2, <1>11, <2>1 DEF FramesHold
  <2>4. ASSUME NEW b \in 1..Len(borrows')
        PROVE  borrows'[b].active <=> \E i \in 1..last - 1 : b \in frames'[i].borrows
    <3>1. /\ borrows'[b].active <=> borrows[b].active /\ b \notin gone
          /\ borrows[b].active <=> \E i \in 1..last : b \in frames[i].borrows
      BY <1>2, <1>4, <1>5, <2>4 DEF FramesHold
    <3> HIDE DEF last
    <3> QED
      BY <1>2, <1>11, <1>12, <1>13, <2>1, <3>1
  <2> HIDE DEF last
  <2> QED
    BY <1>3, <2>2, <2>3, <2>4 DEF FramesHold
<1>17. OwnersRise'
  <2>1. \A i \in 1..last - 1 : frames'[i].owner = frames[i].owner
    BY <1>3
  <2> HIDE DEF last
  <2> QED
    BY <1>1, <1>3, <1>11, <2>1 DEF Inv, OwnersRise, last
<1>18. DeepEnough(topology', frames', last - 1)
  <2> SUFFICES ASSUME NEW n \in 1..Len(topology'.own), NEW i \in 1..last - 1,
                      NEW j \in 1..last - 1,
                      frames'[i].owner = topology'.own[n].owner,
                      frames'[j].borrows \cap BorrowsOf(topology', n) # {}
               PROVE  i <= j
    BY DEF DeepEnough
  <2>1. n \in 1..size /\ frames'[i] = frames[i] /\ frames'[j] = frames[j]
        /\ i \in 1..last /\ j \in 1..last
    BY <1>3, <1>9, <1>11
  <2>2. 0 < frames[i].owner
    BY <2>1 DEF Inv, OwnersRise
  <2>3. own[n].owner # Lost
    BY <1>9, <2>1, <2>2 DEF Lost
  <2>4. frames[i].owner = topology.own[n].owner
    BY <1>8, <1>9, <2>1, <2>3 DEF Unmoved
  <2>5. frames[j].borrows \cap BorrowsOf(topology, n) # {}
    BY <1>10, <2>1
  <2> QED
    BY <2>1, <2>4, <2>5 DEF Inv, DeepEnough
<1>19. MovesHeld(topology, frames, Len(frames))'
  <2> SUFFICES ASSUME "moves" \notin forgotten', NEW h \in handles', h.capability = "move",
                      h.network \in 1..Len(topology'.own), Alive(topology', h)
               PROVE  HeldBy(topology', frames', last - 1, h)
    BY <1>3 DEF MovesHeld
  <2> DEFINE n == h.network
  <2>1. n \in 1..size /\ own[n].owner # Lost /\ h \in handles
    BY <1>1, <1>9 DEF Alive, Of
  <2>2. Unmoved(topology.own[n], own[n]) /\ Releases(topology.own[n], Frame, n, own[n])
    BY <1>6, <1>8, <2>1
  <2>3. Alive(topology, h)
    BY <1>9, <2>2 DEF Alive, Current, Of, Unmoved
  <2>4. PICK i \in 1..last : frames[i].owner = topology.own[n].owner /\ n \in frames[i].moves
    BY <1>1, <2>1, <2>3 DEF Inv, MovesHeld, HeldBy
  <2>5. ~topology.own[n].consumed
    BY <2>3 DEF Alive, Current, Of
  <2>6. topology.own[n].generation \in Int /\ own[n].generation = topology.own[n].generation
    BY <1>2, <2>1, <2>2 DEF Unmoved, Ownership
  <2>7. i # last
    BY <1>2, <2>1, <2>2, <2>4, <2>5, <2>6 DEF Releases
  <2> QED
    BY <1>3, <1>9, <1>12, <2>2, <2>4, <2>7 DEF HeldBy, Unmoved
<1>20. FactoryInStep'
  <2>1. CASE factory.phase = "none"
    BY <1>1, <2>1 DEF FactoryInStep
  <2>2. CASE factory.phase = "running"
    <3>1. PICK saved, depth, paired :
              saved = factory.saved /\ depth = factory.depth /\ paired = factory.pairs
      OBVIOUS
    <3>2. /\ factory = [phase |-> "running", depth |-> depth, saved |-> saved,
                        pairs |-> paired]
          /\ depth \in 0..last /\ depth < last /\ InStep(saved, depth, paired)
      BY <1>2, <2>2, <3>1 DEF Inv, FactoryInStep
    <3> DEFINE phase == IF last = depth + 1 THEN "left" ELSE "running"
    <3>3. factory' = [phase |-> phase, depth |-> depth, saved |-> saved, pairs |-> paired]
      BY <1>1, <2>2, <3>2
    <3>4. \A i \in 1..depth : frames'[i] = frames[i]
      BY <1>2, <1>3, <3>2
    <3>5. called' \in Nat /\ called <= called' /\ forgotten \subseteq forgotten'
      BY <1>1, <1>2
    <3>10. SameEntries
      BY <1>4 DEF SameEntries
    <3>6. handles' \ handles = {}
      BY <1>1
    <3>7. InStep(saved, depth, paired)'
      BY <1>9, <3>2, <3>4, <3>5, <3>6, <3>10, InStepKept
    <3>8. /\ depth \in Nat /\ depth <= last - 1
          /\ phase = "running" => depth < last - 1
          /\ phase = "left" => depth = last - 1
      BY <1>2, <3>2
    <3>9. phase \in {"left", "running"}
      OBVIOUS
    <3> HIDE DEF phase
    <3> QED
      BY <1>3, <3>3, <3>7, <3>8, <3>9 DEF FactoryInStep
  <2> QED
    BY <1>1, <2>1, <2>2
<1>21. OwnedByCalled(topology)'
  BY <1>1, <1>8, <1>9 DEF OwnedByCalled
<1>22. DeepEnough(topology, frames, Len(frames))'
  BY <1>3, <1>18
<1>23. called' \in Nat /\ handles' \ handles = {}
  BY <1>1, <1>2
<1> QED
  BY <1>1, <1>3, <1>5, <1>9, <1>15, <1>16, <1>17, <1>19, <1>20, <1>21, <1>22, <1>23,
     OnwardInv

-----------------------------------------------------------------------------
(* Factories: the snapshot is taken, dropped or restored.                   *)
LEMMA SameButFactory ==
    ASSUME Inv, FactoryInStep', UNCHANGED <<topology, borrows, frames, called, handles,
                                            conditions, pairs, forgotten>>
    PROVE  Inv' /\ Leads(topology, topology')
<1>1. /\ Typed' /\ OwnersRise' /\ OwnedByCalled(topology)' /\ FramesHold'
  BY DEF Inv, Typed, OwnersRise, OwnedByCalled, FramesHold
<1>2. /\ Reflects(topology.own, borrows, Held(frames, Len(frames)))'
      /\ DeepEnough(topology, frames, Len(frames))'
  BY DEF Inv
<1>3. Known' /\ MovesHeld(topology, frames, Len(frames))'
  BY DEF Inv, Known, MovesHeld
<1>4. /\ NamedKnown(topology, conditions, pairs, forgotten)'
      /\ ReadsMarked(topology, conditions, pairs, forgotten)'
  BY DEF Inv
<1>5. Leads(topology, topology')
  BY GrowsReflexive, LargerLeads DEF Inv, Typed, Grows
<1> QED
  BY <1>1, <1>2, <1>3, <1>4, <1>5 DEF Inv

LEMMA InstantiateStep ==
    ASSUME Inv, Instantiate
    PROVE  Inv' /\ Leads(topology, topology')
<1>1. /\ UNCHANGED <<topology, borrows, frames, called, handles, conditions, pairs, forgotten>>
      /\ factory' = [phase |-> "begun", depth |-> Len(frames), saved |-> topology,
                     pairs |-> pairs]
  BY DEF Instantiate
<1>2. Len(frames) \in Nat /\ Len(frames) <= Len(frames) /\ WellFormed(topology)
  BY FrameTypes DEF Inv, Typed
<1>3. Ages(topology, topology) /\ LeavesBorrowed(topology, topology)
  <2>1. Larger(topology, topology)
    BY <1>2, GrowsReflexive DEF Grows
  <2> QED
    BY <2>1 DEF Larger, OwnGrows, Kept, Ages, LeavesBorrowed, Unmoved
<1>4. "pairs" \in forgotten \/ UNION pairs \subseteq 1..Len(topology.own)
  BY DEF Inv, NamedKnown, Named
<1>5. InStep(topology, Len(frames), pairs)
  BY <1>2, <1>3, <1>4 DEF Inv, InStep
<1>6. InStep(topology, Len(frames), pairs)'
  BY <1>1, <1>5 DEF InStep, OwnedByCalled, MovesHeld
<1>7. FactoryInStep'
  BY <1>1, <1>2, <1>6 DEF FactoryInStep
<1> QED
  BY <1>1, <1>7, SameButFactory

LEMMA FactoryReturnsStep ==
    ASSUME Inv, FactoryReturns
    PROVE  Inv' /\ Leads(topology, topology')
<1>1. UNCHANGED <<topology, borrows, frames, called, handles, conditions, pairs, forgotten>>
  BY DEF FactoryReturns
<1>2. FactoryInStep'
  BY DEF FactoryReturns, FactoryInStep, NoFactory
<1> QED
  BY <1>1, <1>2, SameButFactory

(* The snapshot is restored: what the program keeps is of its networks.     *)
RolledBack ==
    /\ factory.phase = "left"
    /\ topology'.own = factory.saved.own

LEMMA FactoryThrowsStep ==
    ASSUME Inv, FactoryThrows
    PROVE  Inv' /\ (Leads(topology, topology') \/ RolledBack)
<1> DEFINE saved == factory.saved
           kept == 1..Len(saved.own)
           undoneMove == \E n \in kept : topology.own[n].generation # saved.own[n].generation
           undoneRead == \E c \in 1..Len(saved.combs) :
                             topology.combs[c].used # saved.combs[c].used
<1>1. CASE Poison(Refused(topology))
  BY <1>1, PoisonQuiet, QuietInv
<1>2. CASE /\ factory.phase = "left"
           /\ topology' = Restored(saved)
           /\ handles' = {h \in handles : h.network \in kept}
           /\ conditions' = {c \in conditions : c \subseteq kept}
           /\ forgotten' = forgotten \cup ForgottenBy(saved)
                  \cup (IF pairs # factory.pairs THEN {"pairs"} ELSE {})
                  \cup (IF undoneMove THEN {"moves"} ELSE {})
                  \cup (IF undoneRead THEN {"reads"} ELSE {})
           /\ factory' = NoFactory
           /\ UNCHANGED <<borrows, frames, called, pairs>>
  <2>1. factory.depth = Len(frames) /\ InStep(saved, Len(frames), factory.pairs)
    BY <1>2 DEF Inv, FactoryInStep
  <2>2. /\ WellFormed(saved) /\ WellFormed(topology)
        /\ Ages(saved, topology) /\ Wider(saved, topology)
        /\ Len(saved.own) \in Nat /\ Len(topology.own) \in Nat
        /\ Len(saved.own) <= Len(topology.own)
    BY <2>1, OwnTypes DEF InStep, Ages, Inv, Typed
  <2>3. /\ WellFormed(topology') /\ topology'.own = saved.own
        /\ topology'.combs = saved.combs /\ topology'.transfers = saved.transfers
    BY <1>2, <2>2, RestoredGrows DEF Grows, Larger
  <2>4. /\ forgotten \subseteq forgotten'
        /\ pairs # factory.pairs => "pairs" \in forgotten'
        /\ undoneMove => "moves" \in forgotten'
        /\ undoneRead => "reads" \in forgotten'
    <3> HIDE DEF undoneMove, undoneRead
    <3> QED
      BY <1>2
  <2>5. /\ handles' \subseteq handles /\ \A h \in handles' : h.network \in kept
        /\ conditions' \subseteq conditions /\ \A c \in conditions' : c \subseteq kept
    BY <1>2
  <2> HIDE DEF saved
  <2>6. Typed'
    <3>1. handles' \subseteq HandleOf(Len(topology'.own))
      <4>1. \A h \in handles' : h \in HandleOf(Len(topology.own)) /\ h.network \in kept
        BY <2>5 DEF Inv, Typed
      <4> QED
        BY <2>3, <4>1 DEF HandleOf
    <3> QED
      BY <1>2, <2>3, <3>1 DEF Inv, Typed
  <2>7. FramesHold' /\ OwnersRise'
    BY <1>2 DEF Inv, FramesHold, OwnersRise
  <2>8. Reflects(topology.own, borrows, Held(frames, Len(frames)))'
    BY <1>2, <2>1, <2>3 DEF InStep
  <2>9. OwnedByCalled(topology)'
    BY <1>2, <2>1, <2>3 DEF InStep, OwnedByCalled
  <2>10. DeepEnough(topology, frames, Len(frames))'
    BY <1>2, <2>1, <2>3 DEF InStep, DeepEnough, BorrowsOf
  <2>11. Known'
    <3> SUFFICES ASSUME "moves" \notin forgotten', NEW h \in handles'
                 PROVE  Reached(topology'.own, h)
      BY DEF Known
    <3>1. h \in handles /\ h.network \in kept /\ "moves" \notin forgotten /\ ~undoneMove
      BY <2>4, <2>5
    <3>2. Reached(topology.own, h)
      BY <3>1 DEF Inv, Known
    <3>3. topology.own[h.network].generation = saved.own[h.network].generation
      BY <3>1
    <3> QED
      BY <2>3, <3>2, <3>3 DEF Reached
  <2>12. MovesHeld(topology, frames, Len(frames))'
    <3>1. MovesHeld(saved, frames, Len(frames))
      BY <2>1 DEF InStep
    <3> QED
      BY <1>2, <2>3, <2>4, <2>5, <3>1 DEF MovesHeld, HeldBy, Alive, Current, Of
  <2>13. NamedKnown(topology, conditions, pairs, forgotten)'
    <3>1. conditions' \subseteq SUBSET kept /\ UNION conditions' \subseteq kept
      BY <2>5
    <3>2. "pairs" \notin forgotten' => UNION pairs \subseteq kept
      BY <2>1, <2>4 DEF InStep
    <3>3. Named(conditions', pairs', forgotten') \subseteq kept
      BY <1>2, <3>1, <3>2 DEF Named
    <3> QED
      BY <2>3, <3>1, <3>3 DEF NamedKnown
  <2>14. ReadsMarked(topology, conditions, pairs, forgotten)'
    <3> DEFINE before == Named(conditions, pairs, forgotten)
               after == Named(conditions', pairs', forgotten')
    <3>1. after \subseteq before
      BY <1>2, <2>4, <2>5 DEF Named
    <3> HIDE DEF before, after
    <3>2. SUFFICES ASSUME "reads" \notin forgotten', NEW c \in 1..Len(topology'.combs),
                          ~topology'.combs[c].used,
                          NEW n \in LanesOf(topology'.combs[c])
                   PROVE  ~IsRead(topology', n) /\ n \notin after
      BY DEF ReadsMarked, Unread, after
    <3>3. c \in 1..Len(saved.combs) /\ c \in 1..Len(topology.combs)
      BY <2>2, <2>3, CombinatorTypes DEF Wider
    <3>4. ~topology.combs[c].used /\ n \in LanesOf(topology.combs[c])
      BY <2>2, <2>3, <2>4, <3>2, <3>3 DEF Wider
    <3>5. Unread(topology, before)
      BY <2>4, <3>2 DEF Inv, ReadsMarked, before
    <3>6. ~IsRead(topology, n) /\ n \notin before
      BY <3>3, <3>4, <3>5 DEF Unread
    <3>7. IsRead(topology', n) => IsRead(saved, n)
      BY <2>3 DEF IsRead
    <3>8. ~IsRead(saved, n)
      BY <2>2, <3>6, ReadInRange DEF Wider
    <3> QED
      BY <3>1, <3>6, <3>7, <3>8
  <2>15. FactoryInStep'
    BY <1>2 DEF FactoryInStep, NoFactory
  <2>16. RolledBack
    BY <1>2, <2>3 DEF RolledBack, saved
  <2> QED
    BY <2>6, <2>7, <2>8, <2>9, <2>10, <2>11, <2>12, <2>13, <2>14, <2>15, <2>16 DEF Inv
<1> QED
  BY <1>1, <1>2 DEF FactoryThrows

-----------------------------------------------------------------------------
(* Every step is one of these.                                              *)
LEMMA QuietSteps ==
    ASSUME Inv, Next
    PROVE  \/ Quietly
           \/ \E default \in BOOLEAN : EnterFunction(default)
           \/ \E h \in Usable, color \in Requirements, capability \in {"readonly", "ref"} :
                 BorrowParameter(h, capability, color)
           \/ ExitInstance \/ Instantiate \/ FactoryReturns \/ FactoryThrows
<1> DEFINE Special ==
               \/ \E default \in BOOLEAN : EnterFunction(default)
               \/ \E h \in Usable, color \in Requirements, capability \in {"readonly", "ref"} :
                     BorrowParameter(h, capability, color)
               \/ ExitInstance \/ Instantiate \/ FactoryReturns \/ FactoryThrows
<1> HIDE DEF Inv
<1> SUFFICES Quietly \/ Special
  OBVIOUS
<1>1. \A l, r \in Usable : {l, r} \in SUBSET Usable
  OBVIOUS
<1>2. CASE \E color \in Requirements : Network(color)
  BY <1>2, NetworkStep
<1>3. CASE \E h \in Usable, color \in Requirements \ {NoColor} : Bind(h, color)
  BY <1>3, BindStep
<1>4. ASSUME NEW h \in Usable, NEW color \in Requirements,
             \/ \E capability \in {"readonly", "ref"} : BorrowParameter(h, capability, color)
             \/ MoveParameter(h, color)
             \/ ImplicitNetworkParameter(h, color)
             \/ \E capability \in {"owned", "readonly"} : ReturnNetwork(h, capability, color)
      PROVE  Quietly \/ Special
  BY <1>4, MoveParameterStep, ImplicitNetworkParameterStep, ReturnNetworkStep
<1>5. CASE \E c \in Combinators, color \in Requirements : MoveCombinatorParameter(c, color)
  BY <1>5, MoveCombinatorParameterStep
<1>6. ASSUME NEW given \in OneOrTwo, ReturnValue(given, {}) \/ Compare(given)
      PROVE  Quietly
  <2>1. given \in SUBSET Usable /\ {} \in SUBSET Combinators
    BY <1>1 DEF OneOrTwo
  <2> QED
    BY <1>6, <2>1, ReturnValueStep, CompareStep
<1>7. ASSUME NEW c \in Combinators,
             \/ ReturnValue({}, {c}) \/ ReturnCombinator(c) \/ Destructure(c)
             \/ \E h \in Usable : ReturnValue({h}, {c})
      PROVE  Quietly
  <2>1. {c} \in SUBSET Combinators /\ {} \in SUBSET Usable
        /\ \A h \in Usable : {h} \in SUBSET Usable
    OBVIOUS
  <2> QED
    BY <1>7, <2>1, ReturnValueStep, ReturnCombinatorStep, DestructureStep
<1>8. ASSUME NEW l \in Usable, NEW r \in Usable, Take(l, r) \/ Pair(l, r)
      PROVE  Quietly
  BY <1>8, TakeStep, PairStep
<1>9. CASE \E hs \in One \cup Two : Join(hs)
  BY <1>9, JoinStep
<1>10. CASE \E c \in Combinators, hs \in {<<>>} \cup One : JoinCombinator(c, hs)
  BY <1>10, JoinCombinatorStep
<1>11. CASE \E c \in Combinators, hs \in One \cup Two : AttachMany(c, hs)
  BY <1>11, AttachManyStep
<1>12. CASE \E left, right \in conditions : Decider(left \cup right)
  BY <1>12, DeciderStep
<1>13. CASE Plan \/ OverBudget
  BY <1>13, PlanStep
<1>14. CASE \E h \in Usable, color \in Requirements :
                \/ \E capability \in {"readonly", "ref"} : BorrowParameter(h, capability, color)
                \/ MoveParameter(h, color)
                \/ ImplicitNetworkParameter(h, color)
                \/ \E capability \in {"owned", "readonly"} : ReturnNetwork(h, capability, color)
  BY <1>4, <1>14
<1>15. CASE \E given \in OneOrTwo : ReturnValue(given, {}) \/ Compare(given)
  BY <1>6, <1>15
<1>16. CASE \E c \in Combinators :
               ReturnValue({}, {c}) \/ ReturnCombinator(c) \/ Destructure(c)
  BY <1>7, <1>16
<1>17. CASE \E h \in Usable, c \in Combinators : ReturnValue({h}, {c})
  BY <1>7, <1>17
<1>18. CASE \E l, r \in Usable : Take(l, r) \/ Pair(l, r)
  BY <1>8, <1>18
<1>19. CASE \E default \in BOOLEAN : EnterFunction(default)
  BY <1>19
<1>20. CASE ExitInstance \/ Instantiate \/ FactoryReturns \/ FactoryThrows
  BY <1>20
<1> HIDE DEF Special
<1> QED
  BY <1>2, <1>3, <1>5, <1>9, <1>10, <1>11, <1>12, <1>13, <1>14, <1>15, <1>16, <1>17, <1>18,
     <1>19, <1>20 DEF Next

LEMMA NextInv ==
    ASSUME Inv, [Next]_vars
    PROVE  Inv' /\ (Leads(topology, topology') \/ RolledBack)
<1>1. CASE Quietly
  BY <1>1, QuietInv
<1>2. CASE \E default \in BOOLEAN : EnterFunction(default)
  BY <1>2, EnterFunctionStep
<1>3. CASE \E h \in Usable, color \in Requirements, capability \in {"readonly", "ref"} :
               BorrowParameter(h, capability, color)
  BY <1>3, BorrowParameterStep
<1>4. CASE ExitInstance \/ Instantiate \/ FactoryReturns
  BY <1>4, ExitInstanceStep, InstantiateStep, FactoryReturnsStep
<1>5. CASE FactoryThrows
  BY <1>5, FactoryThrowsStep
<1>6. UNCHANGED vars => Quietly
  BY PlanStep
<1> QED
  BY <1>1, <1>2, <1>3, <1>4, <1>5, <1>6, QuietSteps

-----------------------------------------------------------------------------
(* What the invariant says of a state ...                                   *)

(* The borrows that a network has noted are the active ones of it.          *)
LEMMA InvExcludes == Inv => BorrowsExclude
<1> SUFFICES ASSUME Inv PROVE BorrowsExclude
  OBVIOUS
<1> DEFINE held == Held(frames, Len(frames))
<1>1. \A b \in 1..Len(borrows) :
          borrows[b].active <=> \E i \in 1..Len(frames) : b \in frames[i].borrows
  BY DEF Inv, FramesHold
<1>2. Len(borrows) \in Nat /\ Len(frames) \in Nat /\ Typed /\ FramesHold
  BY FrameTypes DEF Inv
<1>3. held \subseteq 1..Len(borrows)
  BY <1>2, HeldInRange
<1>4. \A b \in 1..Len(borrows) : b \in held <=> borrows[b].active
  BY <1>1 DEF Held
<1>5. ASSUME NEW n \in Networks, NEW capability \in {"readonly", "ref"}
      PROVE  HeldOf(borrows, held, n, capability) =
                 {b \in 1..Len(borrows) : borrows[b] =
                     [network |-> n, capability |-> capability, active |-> TRUE]}
  <2>1. \A b \in 1..Len(borrows) : borrows[b] \in BorrowRecord
    BY <1>2, FrameTypes
  <2>2. ASSUME NEW r \in BorrowRecord
        PROVE  r = [network |-> n, capability |-> capability, active |-> TRUE]
               <=> r.active /\ r.network = n /\ r.capability = capability
    BY DEF BorrowRecord
  <2> DEFINE Is(r) == r = [network |-> n, capability |-> capability, active |-> TRUE]
  <2>3. \A r \in BorrowRecord : Is(r) <=> r.active /\ r.network = n /\ r.capability = capability
    BY <2>2
  <2> HIDE DEF Is, held
  <2>4. \A b \in 1..Len(borrows) :
            Is(borrows[b]) <=> b \in held /\ borrows[b].network = n
                                          /\ borrows[b].capability = capability
    BY <1>4, <2>1, <2>3
  <2>5. HeldOf(borrows, held, n, capability) = {b \in 1..Len(borrows) : Is(borrows[b])}
    BY <1>3, <2>4 DEF HeldOf
  <2> QED
    BY <2>5 DEF Is
<1>6. ASSUME NEW n \in Networks
      PROVE  Noted(topology.own, borrows, held, n)
  BY DEF Inv, Reflects, Networks
<1> HIDE DEF held
<1> QED
  BY <1>1, <1>5, <1>6 DEF BorrowsExclude, Noted

(* What may be consumed is of the generation that its network has, and what *)
(* was moved in is held.                                                    *)
LEMMA InvOneOwner == Inv => OneOwner
<1> SUFFICES ASSUME Inv PROVE OneOwner
  OBVIOUS
<1>1. \A h \in Usable : Consumable(topology, h) =>
          h.generation = topology.own[h.network].generation
  BY DEF Consumable, Readable, Current, Of
<1>2. ASSUME "moves" \notin forgotten, NEW h \in handles, h.capability = "move",
             Consumable(topology, h)
      PROVE  \E i \in 1..Len(frames) : frames[i].owner = Of(topology, h).owner
  <2>1. Alive(topology, h)
    BY <1>2 DEF Consumable, Readable, Alive
  <2>2. h.network \in 1..Len(topology.own)
    BY DEF Inv, Typed, HandleOf
  <2> QED
    BY <1>2, <2>1, <2>2 DEF Inv, MovesHeld, HeldBy, Of
<1> QED
  BY <1>1, <1>2 DEF OneOwner

LEMMA InvUnused == Inv => UnusedIsUnread
BY DEF Inv, ReadsMarked, Unread, IsRead, Named, UnusedIsUnread, Combinators

-----------------------------------------------------------------------------
(* ... and of a step.                                                       *)
LEMMA DeadStays ==
    ASSUME Inv, Leads(topology, topology') \/ RolledBack, NEW h \in handles \cap handles',
           ~Alive(topology, h), Alive(topology', h), "moves" \notin forgotten
    PROVE  factory # NoFactory /\ Alive(factory.saved, h)
<1>1. CASE Leads(topology, topology')
  <2> DEFINE n == h.network
             r == topology.own[n]
             s == topology'.own[n]
  <2>1. /\ WellFormed(topology) /\ h \in handles /\ h.network \in 1..Len(topology.own)
        /\ h.generation \in Int
    BY DEF Inv, Typed, HandleOf
  <2>2. r.generation \in Int /\ h.generation <= r.generation
    BY <2>1, OwnTypes DEF Inv, Known, Reached, Ownership
  <2>3. Older(r, s)
    BY <1>1, <2>1 DEF Leads, Settles
  <2>4. h.generation = s.generation /\ ~s.consumed /\ s.owner # Lost
    BY DEF Alive, Current, Of
  <2>5. h.generation # r.generation \/ r.consumed \/ r.owner = Lost
    BY DEF Alive, Current, Of
  <2> HIDE DEF n, r, s
  <2> QED
    BY <2>1, <2>2, <2>3, <2>4, <2>5 DEF Older
<1>2. CASE RolledBack
  BY <1>2 DEF RolledBack, NoFactory, Alive, Current, Of
<1> QED
  BY <1>1, <1>2

LEMMA BorrowedStays ==
    ASSUME Inv, Leads(topology, topology') \/ RolledBack, NEW n \in Networks,
           BorrowsOf(topology, n) \cap BorrowsOf(topology', n) # {},
           n <= Len(topology'.own),
           ~(frames # <<>> /\ BorrowsOf(topology, n) \subseteq Frame.borrows)
    PROVE  /\ topology'.own[n].consumed = topology.own[n].consumed
           /\ topology'.own[n].generation = topology.own[n].generation
<1>1. /\ Typed /\ FramesHold /\ WellFormed(topology) /\ Len(frames) \in Nat
      /\ n \in 1..Len(topology.own) /\ Len(topology.own) \in Nat
  BY FrameTypes, OwnTypes DEF Inv, Typed, Networks
<1>2. CASE Leads(topology, topology')
  <2>1. topology.own[n].owner # Owner(frames)
    <3> SUFFICES ASSUME topology.own[n].owner = Owner(frames)
                 PROVE  FALSE
      OBVIOUS
    <3>1. BorrowsOf(topology, n) = {b \in Held(frames, Len(frames)) : borrows[b].network = n}
      <4>1. Len(frames) \in 0..Len(frames)
        BY <1>1
      <4> QED
        BY <1>1, <4>1, BorrowsAreHeld DEF Inv
    <3>2. ASSUME NEW b \in BorrowsOf(topology, n)
          PROVE  Len(frames) \in 1..Len(frames) /\ b \in frames[Len(frames)].borrows
      <4>1. PICK j \in 1..Len(frames) : b \in frames[j].borrows
        BY <3>1 DEF Held
      <4>2. j = Len(frames)
        BY <1>1, <3>2, <4>1, InnermostBorrows
      <4> QED
        BY <4>1, <4>2
    <3>3. PICK b : b \in BorrowsOf(topology, n)
      OBVIOUS
    <3>4. frames # <<>>
      BY <1>1, <3>2, <3>3, EmptySeq
    <3> QED
      BY <3>2, <3>4 DEF Frame
  <2>2. ~Free(topology.own[n])
    BY FreeHasNoBorrows
  <2> QED
    BY <1>1, <1>2, <2>1, <2>2 DEF Leads, Settles, Unmoved
<1>3. CASE RolledBack
  <2>1. InStep(factory.saved, factory.depth, factory.pairs)
    BY <1>3 DEF RolledBack, Inv, FactoryInStep
  <2>2. WellFormed(factory.saved) /\ topology'.own = factory.saved.own
    BY <1>3, <2>1 DEF RolledBack, InStep
  <2>3. n \in 1..Len(factory.saved.own)
    BY <1>1, <2>2, OwnTypes
  <2>4. ~Free(factory.saved.own[n])
    <3>1. BorrowsOf(topology', n) = BorrowsOf(factory.saved, n)
      BY <2>2 DEF BorrowsOf
    <3> QED
      BY <3>1, FreeHasNoBorrows
  <2>5. Unmoved(factory.saved.own[n], topology.own[n])
    BY <2>1, <2>3, <2>4 DEF InStep, LeavesBorrowed
  <2> QED
    BY <2>2, <2>5 DEF Unmoved
<1> QED
  BY <1>2, <1>3

LEMMA AlwaysInv == Spec => []Inv
<1>1. Inv /\ [Next]_vars => Inv'
  BY NextInv
<1> QED
  BY <1>1, InitInv, PTL DEF Spec

(* Borrows end with the frame that made them, and only then, and exclude    *)
(* each other, in every execution of every program                          *)
(* (elaboration-ownership.ts, borrow and releaseFrame).                     *)
THEOREM BorrowsAlwaysExclude == Spec => []BorrowsExclude
BY AlwaysInv, InvExcludes, PTL

(* No two moves leave a network with two handles that may consume it, and   *)
(* what was moved into a function may be consumed only while the function   *)
(* runs (elaboration-ownership.ts, assertReadable, moveToFrame and          *)
(* releaseFrame).                                                           *)
THEOREM AlwaysOneOwner == Spec => []OneOwner
BY AlwaysInv, InvOneOwner, PTL

(* The warning that an output is never read is true: every read, transfer,  *)
(* pair and condition has marked what it names, and a rollback that unmarks *)
(* it undoes the read, or is noted (elaboration-program.ts, markOutputUsed  *)
(* and restoreTopology).                                                    *)
THEOREM UnusedIsAlwaysUnread == Spec => []UnusedIsUnread
BY AlwaysInv, InvUnused, PTL

(* A handle that is dead stays dead: generations only rise, what is         *)
(* consumed or lost stays so, and a rollback revives what was alive in the  *)
(* snapshot (elaboration-ownership.ts, assertReadable).                     *)
THEOREM DeadHandlesAlwaysStayDead == Spec => DeadHandlesStayDead
<1>1. Inv /\ [Next]_vars =>
          [\A h \in handles \cap handles' :
              ~Alive(topology, h) /\ Alive(topology', h) =>
                 \/ "moves" \in forgotten
                 \/ factory # NoFactory /\ Alive(factory.saved, h)]_vars
  BY NextInv, DeadStays
<1> QED
  BY <1>1, AlwaysInv, PTL DEF Spec, DeadHandlesStayDead

(* A network that is borrowed is neither consumed nor moved until the       *)
(* borrow has ended, but by the frame that made the borrow and owns it: by  *)
(* no call, at the end of no frame, and by no rollback of a factory         *)
(* (elaboration-ownership.ts, assertConsumable).                            *)
THEOREM BorrowedAlwaysStaysPut == Spec => BorrowedStaysPut
<1>1. Inv /\ [Next]_vars =>
          [\A n \in Networks :
              /\ n <= Len(topology'.own)
              /\ BorrowsOf(topology, n) \cap BorrowsOf(topology', n) # {}
              /\ ~(frames # <<>> /\ BorrowsOf(topology, n) \subseteq Frame.borrows)
              => /\ topology'.own[n].consumed = topology.own[n].consumed
                 /\ topology'.own[n].generation = topology.own[n].generation]_vars
  BY NextInv, BorrowedStays
<1> QED
  BY <1>1, AlwaysInv, PTL DEF Spec, BorrowedStaysPut
=============================================================================
