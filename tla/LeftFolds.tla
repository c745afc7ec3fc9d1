------------------------------- MODULE LeftFolds -------------------------------
(***************************************************************************)
(* What FoldLeft computes, for any operator.  Result(base, s) is           *)
(* FoldLeft(Op, base, s) of SequencesExt, by the fold it is made of: an    *)
(* instance of this module brings along what this module extends.          *)
(***************************************************************************)
EXTENDS Integers, Sequences, Folds, TLAPS

CONSTANT Op(_, _)

Greatest(S) == CHOOSE i \in S : \A j \in S : i >= j

Result(base, s) ==
    MapThenFoldSet(LAMBDA value, total : Op(total, value), base,
                   LAMBDA i : s[i], LAMBDA S : Greatest(S), DOMAIN s)

(* Induction on the naturals, for a set: the hypothesis of what follows.    *)
(* NaturalInduction of the modules that use this one proves it for each     *)
(* instance, so that no instance brings WellFoundedInduction along.         *)
Induction ==
    \A G \in SUBSET Nat :
        0 \in G /\ (\A m \in G : m + 1 \in G) => G = Nat

LEMMA InductionOver ==
    ASSUME Induction, NEW G \in SUBSET Nat, 0 \in G, \A m \in G : m + 1 \in G
    PROVE  G = Nat
BY DEF Induction

(* The equation of the fold over the first m elements.                      *)
IsFold(g, base, s, m) ==
    g = [S \in SUBSET (1 .. m) |->
            IF S = {} THEN base ELSE Op(g[S \ {Greatest(S)}], s[Greatest(S)])]

LEMMA MaxUpTo ==
    ASSUME NEW n \in Nat, NEW S \in SUBSET (1 .. n + 1)
    PROVE  /\ n + 1 \in S => Greatest(S) = n + 1
           /\ n + 1 \notin S => S \in SUBSET (1 .. n)
<1>1. ASSUME n + 1 \in S
      PROVE  Greatest(S) = n + 1
  <2>1. \A y \in S : n + 1 >= y
    OBVIOUS
  <2>2. \A x \in S : (\A y \in S : x >= y) => x = n + 1
    BY <1>1
  <2>. QED  BY <1>1, <2>1, <2>2 DEF Greatest
<1>. QED  BY <1>1

LEMMA FoldExists ==
    ASSUME Induction, NEW base, NEW s, NEW n \in Nat
    PROVE  \E g : IsFold(g, base, s, n)
<1>. DEFINE Good == {m \in Nat : \E g : IsFold(g, base, s, m)}
<1>1. 0 \in Good
  <2>. DEFINE g == [S \in SUBSET (1 .. 0) |-> base]
  <2>1. \A S \in SUBSET (1 .. 0) : S = {}
    OBVIOUS
  <2>2. IsFold(g, base, s, 0)
    BY <2>1 DEF IsFold
  <2>. HIDE DEF g
  <2>. QED  BY <2>2
<1>2. ASSUME NEW m \in Nat, m \in Good
      PROVE  m + 1 \in Good
  <2>1. PICK g : IsFold(g, base, s, m)
    BY <1>2
  <2>. DEFINE h == [S \in SUBSET (1 .. m + 1) |->
                       IF m + 1 \in S THEN Op(g[S \ {m + 1}], s[m + 1]) ELSE g[S]]
  <2>2. ASSUME NEW S \in SUBSET (1 .. m + 1)
        PROVE  h[S] = IF S = {} THEN base ELSE Op(h[S \ {Greatest(S)}], s[Greatest(S)])
    <3>1. CASE m + 1 \in S
      <4>1. S \ {m + 1} \in SUBSET (1 .. m) /\ S \ {m + 1} \in SUBSET (1 .. m + 1)
        BY SMT
      <4>. QED  BY <4>1, <3>1, MaxUpTo
    <3>2. CASE m + 1 \notin S
      <4>1. S \in SUBSET (1 .. m)
        BY <3>2, MaxUpTo
      <4>2. h[S] = g[S]
        BY <3>2
      <4>3. g[S] = IF S = {} THEN base ELSE Op(g[S \ {Greatest(S)}], s[Greatest(S)])
        BY <4>1, <2>1 DEF IsFold
      <4>4. S \ {Greatest(S)} \in SUBSET (1 .. m + 1) /\ m + 1 \notin S \ {Greatest(S)}
        BY <3>2
      <4>5. h[S \ {Greatest(S)}] = g[S \ {Greatest(S)}]
        BY <4>4
      <4>. HIDE DEF h
      <4>. QED  BY <4>2, <4>3, <4>5
    <3>. QED  BY <3>1, <3>2
  <2>3. h = [S \in SUBSET (1 .. m + 1) |->
                 IF S = {} THEN base ELSE Op(h[S \ {Greatest(S)}], s[Greatest(S)])]
    <3>1. h = [S \in SUBSET (1 .. m + 1) |-> h[S]]
      OBVIOUS
    <3>. HIDE DEF h
    <3>. QED  BY <2>2, <3>1, Zenon
  <2>. HIDE DEF h
  <2>4. IsFold(h, base, s, m + 1)
    BY <2>3 DEF IsFold
  <2>. QED  BY <2>4
<1>3. Good = Nat
  <2>1. Good \in SUBSET Nat
    OBVIOUS
  <2>. HIDE DEF Good
  <2>. QED  BY <2>1, <1>1, <1>2, InductionOver
<1>. QED  BY <1>3

(* FoldLeft runs through the sequence: c[i] is what it has after i elements.*)
Runs(c, base, s) ==
    /\ c[0] = base
    /\ \A i \in 1 .. Len(s) : c[i] = Op(c[i - 1], s[i])

THEOREM FoldLeftRuns ==
    ASSUME Induction, NEW base, NEW s, Len(s) \in Nat, DOMAIN s = 1 .. Len(s)
    PROVE  \E c : Runs(c, base, s) /\ Result(base, s) = c[Len(s)]
<1>. DEFINE g == CHOOSE g : IsFold(g, base, s, Len(s))
<1>1. IsFold(g, base, s, Len(s))
  BY FoldExists
<1>2. Result(base, s) = g[1 .. Len(s)]
  BY DEF Result, MapThenFoldSet, IsFold
<1>. HIDE DEF g
<1>. DEFINE c == [i \in 0 .. Len(s) |-> g[1 .. i]]
<1>3. g[1 .. 0] = base
  BY <1>1 DEF IsFold
<1>4. ASSUME NEW i \in 1 .. Len(s)
      PROVE  g[1 .. i] = Op(g[1 .. i - 1], s[i])
  <2>. i \in Nat /\ i >= 1 /\ i <= Len(s)
    OBVIOUS
  <2>0. i \in 1 .. i
    OBVIOUS
  <2>1. 1 .. i \in SUBSET (1 .. Len(s)) /\ 1 .. i # {} /\ i \in 1 .. i
    <3>1. \A j \in 1 .. i : j \in 1 .. Len(s)
      OBVIOUS
    <3>. QED  BY <2>0, <3>1
  <2>2. Greatest(1 .. i) = i
    <3>1. \A y \in 1 .. i : i >= y
      OBVIOUS
    <3>2. \A x \in 1 .. i : (\A y \in 1 .. i : x >= y) => x = i
      OBVIOUS
    <3>. QED  BY <2>1, <3>1, <3>2 DEF Greatest
  <2>3. (1 .. i) \ {i} = 1 .. i - 1
    OBVIOUS
  <2>4. g[1 .. i] = Op(g[(1 .. i) \ {Greatest(1 .. i)}], s[Greatest(1 .. i)])
    BY <2>1, <1>1, Zenon DEF IsFold
  <2>. QED  BY <2>2, <2>3, <2>4
<1>5. Runs(c, base, s)
  <2>1. c[0] = base
    BY <1>3
  <2>2. ASSUME NEW i \in 1 .. Len(s)
        PROVE  c[i] = Op(c[i - 1], s[i])
    <3>1. i \in 0 .. Len(s) /\ i - 1 \in 0 .. Len(s)
      OBVIOUS
    <3>. QED  BY <1>4, <3>1
  <2>. QED  BY <2>1, <2>2 DEF Runs
<1>6. Result(base, s) = c[Len(s)]
  <2>1. Len(s) \in 0 .. Len(s)
    OBVIOUS
  <2>. QED  BY <1>2, <2>1
<1>. HIDE DEF c
<1>. QED  BY <1>5, <1>6

(* A recursive function on the first numbers exists, and takes its steps.   *)
IsRun(f, base, s, n) ==
    f = [i \in 0 .. n |-> IF i = 0 THEN base ELSE Op(f[i - 1], s[i])]

LEMMA RunExists ==
    ASSUME Induction, NEW base, NEW s, NEW n \in Nat
    PROVE  \E f : IsRun(f, base, s, n)
<1>. DEFINE Good == {m \in Nat : \E f : IsRun(f, base, s, m)}
<1>1. 0 \in Good
  <2>. DEFINE f == [i \in 0 .. 0 |-> base]
  <2>1. \A i \in 0 .. 0 : i = 0
    OBVIOUS
  <2>2. IsRun(f, base, s, 0)
    BY <2>1 DEF IsRun
  <2>. HIDE DEF f
  <2>. QED  BY <2>2
<1>2. ASSUME NEW m \in Nat, m \in Good
      PROVE  m + 1 \in Good
  <2>1. PICK f : IsRun(f, base, s, m)
    BY <1>2
  <2>. DEFINE g == [i \in 0 .. m + 1 |->
                       IF i = m + 1 THEN Op(f[m], s[m + 1]) ELSE f[i]]
  <2>2. ASSUME NEW i \in 0 .. m + 1
        PROVE  g[i] = IF i = 0 THEN base ELSE Op(g[i - 1], s[i])
    <3>1. CASE i = m + 1
      <4>1. i # 0 /\ i - 1 = m /\ m \in 0 .. m + 1 /\ m # m + 1
        BY <3>1
      <4>2. g[m] = f[m] /\ g[m + 1] = Op(f[m], s[m + 1])
        BY <4>1
      <4>. HIDE DEF g
      <4>. QED  BY <3>1, <4>1, <4>2
    <3>2. CASE i # m + 1
      <4>1. i \in 0 .. m /\ (i # 0 => i - 1 \in 0 .. m + 1 /\ i - 1 # m + 1)
        BY <3>2
      <4>2. f[i] = IF i = 0 THEN base ELSE Op(f[i - 1], s[i])
        BY <2>1, <4>1 DEF IsRun
      <4>3. g[i] = f[i] /\ (i # 0 => g[i - 1] = f[i - 1])
        BY <3>2, <4>1
      <4>. HIDE DEF g
      <4>. QED  BY <4>2, <4>3
    <3>. QED  BY <3>1, <3>2
  <2>3. g = [i \in 0 .. m + 1 |-> IF i = 0 THEN base ELSE Op(g[i - 1], s[i])]
    <3>1. g = [i \in 0 .. m + 1 |-> g[i]]
      OBVIOUS
    <3>. HIDE DEF g
    <3>. QED  BY <2>2, <3>1, Zenon
  <2>. HIDE DEF g
  <2>4. IsRun(g, base, s, m + 1)
    BY <2>3 DEF IsRun
  <2>. QED  BY <2>4
<1>3. Good = Nat
  <2>1. Good \in SUBSET Nat
    OBVIOUS
  <2>. HIDE DEF Good
  <2>. QED  BY <2>1, <1>1, <1>2, InductionOver
<1>. QED  BY <1>3

LEMMA RunSteps ==
    ASSUME Induction, NEW base, NEW s, NEW n \in Nat
    PROVE  LET f == CHOOSE g : IsRun(g, base, s, n)
           IN  f[0] = base /\ \A i \in 1 .. n : f[i] = Op(f[i - 1], s[i])
<1>. DEFINE f == CHOOSE g : IsRun(g, base, s, n)
<1>1. IsRun(f, base, s, n)
  BY RunExists
<1>. HIDE DEF f
<1>2. \A i \in 0 .. n : f[i] = IF i = 0 THEN base ELSE Op(f[i - 1], s[i])
  BY <1>1 DEF IsRun
<1>3. f[0] = base /\ \A i \in 1 .. n : f[i] = Op(f[i - 1], s[i])
  BY <1>2
<1>. QED  BY <1>3 DEF f

(* A run, as far as it goes.                                                *)
Taken(f, base, s, n) == f[0] = base /\ \A i \in 1 .. n : f[i] = Op(f[i - 1], s[i])

LEMMA RunTaken ==
    ASSUME Induction, NEW base, NEW s, NEW n \in Nat
    PROVE  \E f : Taken(f, base, s, n)
<1>1. PICK f : IsRun(f, base, s, n)
  BY RunExists
<1>2. \A i \in 0 .. n : f[i] = IF i = 0 THEN base ELSE Op(f[i - 1], s[i])
  BY <1>1 DEF IsRun
<1>3. Taken(f, base, s, n)
  BY <1>2 DEF Taken
<1>. QED  BY <1>3

-----------------------------------------------------------------------------
(* The fold over a longer sequence takes one more step.                     *)
LEMMA FoldEmpty ==
    ASSUME Induction, NEW base
    PROVE  Result(base, <<>>) = base
<1>. DEFINE s == <<>>
<1>1. Len(s) = 0 /\ DOMAIN s = 1 .. Len(s)
  OBVIOUS
<1>. HIDE DEF s
<1>2. PICK c : Runs(c, base, s) /\ Result(base, s) = c[Len(s)]
  BY <1>1, FoldLeftRuns
<1>3. Result(base, s) = base
  BY <1>1, <1>2 DEF Runs
<1>. QED  BY <1>3 DEF s

LEMMA FoldAppend ==
    ASSUME Induction, NEW base, NEW S, NEW s \in Seq(S), NEW v \in S
    PROVE  Result(base, Append(s, v)) = Op(Result(base, s), v)
<1>. DEFINE t == Append(s, v)
            n == Len(s)
<1>1. /\ n \in Nat /\ DOMAIN s = 1 .. n
      /\ Len(t) = n + 1 /\ Len(t) \in Nat /\ DOMAIN t = 1 .. Len(t)
      /\ \A i \in 1 .. n : t[i] = s[i]
      /\ t[n + 1] = v
  OBVIOUS
<1>. HIDE DEF t
<1>2. PICK c : Runs(c, base, t) /\ Result(base, t) = c[Len(t)]
  BY <1>1, FoldLeftRuns
<1>3. PICK d : Runs(d, base, s) /\ Result(base, s) = d[Len(s)]
  BY <1>1, FoldLeftRuns
<1>. HIDE DEF n
<1>. DEFINE G == {m \in Nat : m <= n => c[m] = d[m]}
<1>4. 0 \in G
  BY <1>2, <1>3 DEF Runs
<1>5. ASSUME NEW m \in G
      PROVE  m + 1 \in G
  <2>1. CASE m + 1 <= n
    <3>1. m + 1 \in 1 .. n /\ m + 1 \in 1 .. Len(t) /\ (m + 1) - 1 = m /\ c[m] = d[m]
      BY <1>1, <2>1
    <3>2. c[m + 1] = Op(c[m], t[m + 1]) /\ d[m + 1] = Op(d[m], s[m + 1])
      BY <1>2, <1>3, <3>1 DEF Runs, n
    <3>3. c[m + 1] = d[m + 1]
      BY <1>1, <3>1, <3>2
    <3>. QED  BY <3>3
  <2>. QED  BY <2>1
<1>6. G = Nat
  <2>. G \in SUBSET Nat
    OBVIOUS
  <2>. HIDE DEF G
  <2>. QED  BY <1>4, <1>5, InductionOver
<1>7. c[n] = d[n]
  BY <1>1, <1>6
<1>8. c[n + 1] = Op(c[n], t[n + 1])
  <2>1. n + 1 \in 1 .. Len(t) /\ (n + 1) - 1 = n
    BY <1>1
  <2>. QED  BY <1>2, <2>1 DEF Runs
<1>9. Result(base, t) = Op(Result(base, s), v)
  BY <1>1, <1>2, <1>3, <1>7, <1>8 DEF n
<1>. QED  BY <1>9 DEF t

(* After any values, the order of the next two does not matter.             *)
Exchanges(base, V) ==
    \A t \in Seq(V) : \A v, w \in V :
        Op(Op(Result(base, t), v), w) = Op(Op(Result(base, t), w), v)

LEMMA ResultAppend ==
    ASSUME Induction, NEW base, NEW V
    PROVE  \A a \in Seq(V) : \A x \in V :
               Result(base, Append(a, x)) = Op(Result(base, a), x)
BY FoldAppend

(* A sequence of values without its last one.                               *)
LEMMA LastValue ==
    ASSUME NEW V, NEW m \in Nat, NEW s \in Seq(V), Len(s) = m + 1
    PROVE  \E t \in Seq(V), v \in V : s = Append(t, v) /\ Len(t) = m
<1>. DEFINE t == [i \in 1 .. m |-> s[i]]
<1>1. t \in Seq(V) /\ Len(t) = m
  OBVIOUS
<1>2. s[m + 1] \in V /\ s = Append(t, s[m + 1])
  OBVIOUS
<1>. QED  BY <1>1, <1>2

LEMMA AppendJoins ==
    ASSUME NEW V, NEW s \in Seq(V), NEW t \in Seq(V), NEW v \in V
    PROVE  /\ s \o Append(t, v) = Append(s \o t, v)
           /\ Append(s, v) \in Seq(V) /\ s \o t \in Seq(V)
OBVIOUS

LEMMA FoldConcat ==
    ASSUME Induction, NEW base, NEW V, NEW s \in Seq(V), NEW t \in Seq(V)
    PROVE  Result(base, s \o t) = Result(Result(base, s), t)
<1>. DEFINE first == Result(base, s)
<1>0. /\ \A a \in Seq(V) : \A x \in V : Result(base, Append(a, x)) = Op(Result(base, a), x)
      /\ \A a \in Seq(V) : \A x \in V : Result(first, Append(a, x)) = Op(Result(first, a), x)
  BY ResultAppend
<1>1. Result(base, s) = first
  OBVIOUS
<1>. HIDE DEF first
<1>. DEFINE G == {m \in Nat : \A r \in Seq(V) : Len(r) = m =>
                     Result(base, s \o r) = Result(first, r)}
<1>2. 0 \in G
  <2>1. ASSUME NEW r \in Seq(V), Len(r) = 0
        PROVE  Result(base, s \o r) = Result(first, r)
    <3>1. r = <<>> /\ s \o r = s
      BY <2>1
    <3>2. Result(first, <<>>) = first
      BY FoldEmpty
    <3>. QED  BY <1>1, <3>1, <3>2, Zenon
  <2>. QED  BY <2>1
<1>3. ASSUME NEW m \in G
      PROVE  m + 1 \in G
  <2>1. ASSUME NEW r \in Seq(V), Len(r) = m + 1
        PROVE  Result(base, s \o r) = Result(first, r)
    <3>1. PICK q \in Seq(V), w \in V : r = Append(q, w) /\ Len(q) = m
      BY <2>1, LastValue
    <3>2. s \o q \in Seq(V) /\ s \o r = Append(s \o q, w)
      <4>. HIDE DEF G
      <4>1. s \o Append(q, w) = Append(s \o q, w) /\ s \o q \in Seq(V)
        BY AppendJoins
      <4>. QED  BY <3>1, <4>1, Zenon
    <3>3. Result(base, s \o q) = Result(first, q)
      BY <3>1
    <3>4. Result(base, Append(s \o q, w)) = Op(Result(base, s \o q), w)
      BY <1>0, <3>2, Zenon
    <3>5. Result(first, Append(q, w)) = Op(Result(first, q), w)
      BY <1>0, Zenon
    <3>. QED  BY <3>1, <3>2, <3>3, <3>4, <3>5, Zenon
  <2>. QED  BY <2>1
<1>4. G = Nat
  <2>. G \in SUBSET Nat
    OBVIOUS
  <2>. HIDE DEF G
  <2>. QED  BY <1>2, <1>3, InductionOver
<1>5. Len(t) \in G
  <2>1. Len(t) \in Nat
    OBVIOUS
  <2>. HIDE DEF G
  <2>. QED  BY <1>4, <2>1
<1>6. Result(base, s \o t) = Result(first, t)
  BY <1>5
<1>. QED  BY <1>6 DEF first

LEMMA ValueMoves ==
    ASSUME Induction, NEW base, NEW V, Exchanges(base, V),
           NEW p \in Seq(V), NEW s \in Seq(V), NEW v \in V
    PROVE  Result(base, Append(p \o s, v)) = Result(base, Append(p, v) \o s)
<1>0. \A a \in Seq(V) : \A x \in V : Result(base, Append(a, x)) = Op(Result(base, a), x)
  BY ResultAppend
<1>. DEFINE G == {m \in Nat : \A r \in Seq(V) : Len(r) = m =>
                     Result(base, Append(p \o r, v)) = Result(base, Append(p, v) \o r)}
<1>1. 0 \in G
  <2>1. ASSUME NEW r \in Seq(V), Len(r) = 0
        PROVE  Append(p \o r, v) = Append(p, v) \o r
    <3>1. r = <<>>
      BY <2>1
    <3>. QED  BY <3>1
  <2>. QED  BY <2>1
<1>2. ASSUME NEW m \in G
      PROVE  m + 1 \in G
  <2>1. ASSUME NEW r \in Seq(V), Len(r) = m + 1
        PROVE  Result(base, Append(p \o r, v)) = Result(base, Append(p, v) \o r)
    <3>1. PICK q \in Seq(V), w \in V : r = Append(q, w) /\ Len(q) = m
      BY <2>1, LastValue
    <3>2. /\ p \o q \in Seq(V) /\ Append(p, v) \in Seq(V)
          /\ Append(p \o q, v) \in Seq(V) /\ Append(p \o q, w) \in Seq(V)
          /\ p \o r = Append(p \o q, w)
          /\ Append(p, v) \o r = Append(Append(p, v) \o q, w)
          /\ Append(p, v) \o q \in Seq(V)
      BY <3>1, AppendJoins
    <3>3. Result(base, Append(p \o q, v)) = Result(base, Append(p, v) \o q)
      BY <3>1
    <3>4. Result(base, Append(p \o r, v)) = Op(Op(Result(base, p \o q), w), v)
      <4>1. Result(base, Append(p \o q, w)) = Op(Result(base, p \o q), w)
        BY <3>2, <1>0, Zenon
      <4>2. Result(base, Append(Append(p \o q, w), v)) = Op(Result(base, Append(p \o q, w)), v)
        BY <3>2, <1>0, Zenon
      <4>. QED  BY <3>2, <4>1, <4>2, Zenon
    <3>5. Op(Op(Result(base, p \o q), w), v) = Op(Op(Result(base, p \o q), v), w)
      BY <3>2 DEF Exchanges
    <3>6. Op(Result(base, p \o q), v) = Result(base, Append(p \o q, v))
      BY <3>2, <1>0, Zenon
    <3>7. Result(base, Append(p, v) \o r) = Op(Result(base, Append(p, v) \o q), w)
      BY <3>2, <1>0, Zenon
    <3>. QED  BY <3>3, <3>4, <3>5, <3>6, <3>7
  <2>. QED  BY <2>1
<1>3. G = Nat
  <2>. G \in SUBSET Nat
    OBVIOUS
  <2>. HIDE DEF G
  <2>. QED  BY <1>1, <1>2, InductionOver
<1>4. Len(s) \in G
  <2>1. Len(s) \in Nat
    OBVIOUS
  <2>. HIDE DEF G
  <2>. QED  BY <1>3, <2>1
<1>. QED  BY <1>4

LEMMA SequencesSwap ==
    ASSUME Induction, NEW base, NEW V, Exchanges(base, V),
           NEW p \in Seq(V), NEW s \in Seq(V), NEW t \in Seq(V)
    PROVE  Result(base, (p \o s) \o t) = Result(base, (p \o t) \o s)
<1>0. \A a \in Seq(V) : \A x \in V : Result(base, Append(a, x)) = Op(Result(base, a), x)
  BY ResultAppend
<1>5. \A a, b \in Seq(V) : \A x \in V :
          Result(base, Append(a \o b, x)) = Result(base, Append(a, x) \o b)
  BY ValueMoves
<1>. DEFINE G == {m \in Nat : \A r \in Seq(V) : Len(r) = m =>
                     Result(base, (p \o s) \o r) = Result(base, (p \o r) \o s)}
<1>1. 0 \in G
  <2>1. ASSUME NEW r \in Seq(V), Len(r) = 0
        PROVE  (p \o s) \o r = (p \o r) \o s
    <3>1. r = <<>>
      BY <2>1
    <3>. QED  BY <3>1
  <2>. QED  BY <2>1
<1>2. ASSUME NEW m \in G
      PROVE  m + 1 \in G
  <2>1. ASSUME NEW r \in Seq(V), Len(r) = m + 1
        PROVE  Result(base, (p \o s) \o r) = Result(base, (p \o r) \o s)
    <3>1. PICK q \in Seq(V), w \in V : r = Append(q, w) /\ Len(q) = m
      BY <2>1, LastValue
    <3>2. /\ p \o s \in Seq(V) /\ p \o q \in Seq(V)
          /\ (p \o s) \o q \in Seq(V) /\ (p \o q) \o s \in Seq(V)
      BY AppendJoins
    <3>3. /\ (p \o s) \o r = Append((p \o s) \o q, w)
          /\ p \o r = Append(p \o q, w)
      <4>1. \A a, b \in Seq(V) : a \o Append(b, w) = Append(a \o b, w)
        BY AppendJoins
      <4>. QED  BY <3>1, <3>2, <4>1, Zenon
    <3>4. Result(base, (p \o s) \o q) = Result(base, (p \o q) \o s)
      BY <3>1
    <3>5. Result(base, (p \o s) \o r) = Op(Result(base, (p \o s) \o q), w)
      BY <3>2, <3>3, <1>0, Zenon
    <3>6. Op(Result(base, (p \o q) \o s), w) = Result(base, Append((p \o q) \o s, w))
      BY <3>2, <1>0, Zenon
    <3>7. Result(base, Append((p \o q) \o s, w)) = Result(base, Append(p \o q, w) \o s)
      BY <3>2, <1>5, Zenon
    <3>. QED  BY <3>3, <3>4, <3>5, <3>6, <3>7
  <2>. QED  BY <2>1
<1>3. G = Nat
  <2>. G \in SUBSET Nat
    OBVIOUS
  <2>. HIDE DEF G
  <2>. QED  BY <1>1, <1>2, InductionOver
<1>4. Len(t) \in G
  <2>1. Len(t) \in Nat
    OBVIOUS
  <2>. HIDE DEF G
  <2>. QED  BY <1>3, <2>1
<1>. QED  BY <1>4

(* Blocks of values, joined from the first to the last and from the last to *)
(* the first: as far as they exchange, the fold gives the same.             *)
Blocks(blocks, n, V) == \A i \in 1 .. n : blocks[i] \in Seq(V)

Forth(f, blocks, n) == f[0] = <<>> /\ \A i \in 1 .. n : f[i] = f[i - 1] \o blocks[i]

Back(f, blocks, n) == f[0] = <<>> /\ \A i \in 1 .. n : f[i] = f[i - 1] \o blocks[n + 1 - i]

LEMMA BlocksReverse ==
    ASSUME Induction, NEW base, NEW V, Exchanges(base, V), NEW n \in Nat,
           NEW blocks, Blocks(blocks, n, V),
           NEW forth, Forth(forth, blocks, n), NEW back, Back(back, blocks, n)
    PROVE  /\ Result(base, back[n]) = Result(base, forth[n])
           /\ back[n] \in Seq(V) /\ forth[n] \in Seq(V)
<1>. USE DEF Blocks, Forth, Back
<1>. DEFINE F == {m \in Nat : m <= n => forth[m] \in Seq(V) /\ back[m] \in Seq(V)}
            G == {m \in Nat : m <= n =>
                     Result(base, back[m] \o forth[n - m]) = Result(base, forth[n])}
<1>1. F = Nat
  <2>1. 0 \in F
    <3>1. <<>> \in Seq(V)
      OBVIOUS
    <3>. QED  BY <3>1, Zenon
  <2>2. ASSUME NEW m \in F
        PROVE  m + 1 \in F
    <3>1. CASE m + 1 <= n
      <4>1. /\ m + 1 \in 1 .. n /\ n + 1 - (m + 1) \in 1 .. n /\ (m + 1) - 1 = m
            /\ forth[m] \in Seq(V) /\ back[m] \in Seq(V)
        BY <3>1
      <4>2. /\ forth[m + 1] = forth[m] \o blocks[m + 1]
            /\ back[m + 1] = back[m] \o blocks[n + 1 - (m + 1)]
        BY <4>1
      <4>3. forth[m + 1] \in Seq(V) /\ back[m + 1] \in Seq(V)
        BY <4>1, <4>2
      <4>. QED  BY <4>3
    <3>. QED  BY <3>1
  <2>. F \in SUBSET Nat
    OBVIOUS
  <2>. HIDE DEF F
  <2>. QED  BY <2>1, <2>2, InductionOver
<1>2. \A m \in 0 .. n : forth[m] \in Seq(V) /\ back[m] \in Seq(V)
  BY <1>1
<1>. HIDE DEF F
<1>3. 0 \in G
  <2>1. n - 0 = n /\ n \in 0 .. n
    OBVIOUS
  <2>2. forth[n] \in Seq(V)
    BY <1>2, <2>1
  <2>3. back[0] \o forth[n] = forth[n]
    BY <2>2
  <2>. QED  BY <2>1, <2>3
<1>4. ASSUME NEW m \in G
      PROVE  m + 1 \in G
  <2>1. CASE m + 1 <= n
    <3>. DEFINE j == n - m
                k == n - (m + 1)
    <3>1. /\ j \in 1 .. n /\ j - 1 = k /\ k \in 0 .. n /\ m \in 0 .. n
          /\ m + 1 \in 1 .. n /\ (m + 1) - 1 = m /\ n + 1 - (m + 1) = j
      BY <2>1
    <3>2. Result(base, back[m] \o forth[j]) = Result(base, forth[n])
      BY <2>1
    <3>. HIDE DEF j, k
    <3>3. forth[j] = forth[k] \o blocks[j]
      BY <3>1
    <3>4. back[m + 1] = back[m] \o blocks[j]
      BY <3>1
    <3>5. back[m] \in Seq(V) /\ forth[k] \in Seq(V) /\ blocks[j] \in Seq(V)
      BY <1>2, <3>1
    <3>6. back[m] \o (forth[k] \o blocks[j]) = (back[m] \o forth[k]) \o blocks[j]
      <4>. DEFINE a == back[m]  b == forth[k]  c == blocks[j]
      <4>1. a \in Seq(V) /\ b \in Seq(V) /\ c \in Seq(V)
        BY <3>5
      <4>. HIDE DEF a, b, c
      <4>2. a \o (b \o c) = (a \o b) \o c
        BY <4>1
      <4>. QED  BY <4>2 DEF a, b, c
    <3>7. Result(base, (back[m] \o forth[k]) \o blocks[j])
              = Result(base, (back[m] \o blocks[j]) \o forth[k])
      BY <3>5, SequencesSwap
    <3>8. Result(base, back[m + 1] \o forth[k]) = Result(base, forth[n])
      BY <3>2, <3>3, <3>4, <3>6, <3>7
    <3>. QED  BY <3>8 DEF k
  <2>. QED  BY <2>1
<1>5. G = Nat
  <2>. G \in SUBSET Nat
    OBVIOUS
  <2>. HIDE DEF G
  <2>. QED  BY <1>3, <1>4, InductionOver
<1>6. Result(base, back[n] \o forth[0]) = Result(base, forth[n])
  <2>1. n \in G /\ n - n = 0 /\ n <= n
    BY <1>5
  <2>2. Result(base, back[n] \o forth[n - n]) = Result(base, forth[n])
    BY <2>1, Zenon
  <2>. QED  BY <2>1, <2>2, Zenon
<1>7. back[n] \in Seq(V) /\ forth[n] \in Seq(V)
  BY <1>2
<1>8. back[n] \o forth[0] = back[n]
  BY <1>7
<1>. QED  BY <1>6, <1>7, <1>8
================================================================================
