--------------------------- MODULE SimulationProofs ---------------------------
(***************************************************************************)
(* What holds of a test session for every circuit, every order of the      *)
(* operations of a test, and any bounds.  What the kernel adds up, commits *)
(* and replays are folds, which LeftFolds runs through one element at a    *)
(* time.                                                                   *)
(***************************************************************************)
EXTENDS SimulationProperties, SequenceTheorems, FiniteSetTheorems,
        WellFoundedInduction, TLAPS

MergeFold == INSTANCE LeftFolds WITH Op <- Merge
DeviceFold == INSTANCE LeftFolds WITH Op <- Contributed
OutputFold == INSTANCE LeftFolds WITH Op <- WithOutput
BusFold == INSTANCE LeftFolds WITH Op <- WithBus
JoinFold == INSTANCE LeftFolds WITH Op <- \o
CommitFold == INSTANCE LeftFolds WITH Op <- Commit
EventFold == INSTANCE LeftFolds WITH Op <- ApplyEvent
OriginFold == INSTANCE LeftFolds WITH Op <- WithOrigins

(* The order of the naturals, as the library takes one.                     *)
Below == {ss \in Nat \X Nat : ss[1] < ss[2]}

(* A set of naturals has a least element, so induction needs no operator.   *)
LEMMA NaturalInduction ==
    ASSUME NEW G \in SUBSET Nat, 0 \in G, \A m \in G : m + 1 \in G
    PROVE  G = Nat
<1>1. IsWellFoundedOn(Below, Nat)
  BY NatLessThanWellFounded, Zenon DEF OpToRel, Below
<1>2. SUFFICES ASSUME Nat \ G # {} PROVE FALSE
  OBVIOUS
<1>3. PICK k \in Nat \ G : \A j \in Nat \ G : ~(<<j, k>> \in Below)
  BY <1>1, <1>2, WFMin
<1>4. k # 0 /\ k - 1 \in Nat
  OBVIOUS
<1>5. k - 1 \in G
  <2>1. <<k - 1, k>> \in Below
    BY <1>4 DEF Below
  <2>. QED  BY <1>3, <1>4, <2>1
<1>6. (k - 1) + 1 \in G
  BY <1>5
<1>. QED  BY <1>6

(* A set of naturals that is not empty has a least element.                 *)
LEMMA LeastExists ==
    ASSUME NEW S \in SUBSET Nat, S # {}
    PROVE  \E n \in S : \A m \in S : n <= m
<1>1. IsWellFoundedOn(Below, Nat)
  BY NatLessThanWellFounded, Zenon DEF OpToRel, Below
<1>2. PICK n \in S : \A m \in S : ~(<<m, n>> \in Below)
  BY <1>1, WFMin
<1>3. ASSUME NEW m \in S, m < n
      PROVE  FALSE
  <2>1. <<m, n>> \in Nat \X Nat
    OBVIOUS
  <2>2. <<m, n>> \in Below
    BY <1>3, <2>1 DEF Below
  <2>. QED  BY <1>2, <2>2
<1>4. \A m \in S : n <= m
  BY <1>3
<1>. QED  BY <1>4

(* The hypothesis of the lemmas on these folds.                             *)
LEMMA FoldsInduct ==
    /\ MergeFold!Induction
    /\ DeviceFold!Induction
    /\ OutputFold!Induction
    /\ BusFold!Induction
    /\ JoinFold!Induction
    /\ CommitFold!Induction
    /\ EventFold!Induction
    /\ OriginFold!Induction
BY NaturalInduction DEF MergeFold!Induction, DeviceFold!Induction,
                        OutputFold!Induction, BusFold!Induction,
                        JoinFold!Induction, CommitFold!Induction,
                        EventFold!Induction, OriginFold!Induction
-----------------------------------------------------------------------------
IsSequence(s) == s \in Seq(Range(s))

(* The ids of the connectors of the objects a test has adapted.             *)
Names == {c.name : c \in Connectors}

Fields ==
    /\ kernel = [tick |-> kernel.tick, networks |-> kernel.networks]
    /\ DOMAIN session = {"drives", "pulses", "scheduled", "finished", "failed"}
    /\ DOMAIN boundary = {"call", "callbacks", "next", "left", "previous",
                          "contributions", "commits", "settled"}
    /\ DOMAIN objects = {"adapted", "controls", "current", "committed"}
    /\ DOMAIN world = {"networks", "sums"}
    /\ DOMAIN trace = {"targets", "previous", "events", "endTick"}

Counters ==
    /\ kernel.tick \in Nat /\ calls \in Nat /\ session.failed \in Nat
    /\ boundary.callbacks \in Nat /\ boundary.settled \in 0 .. calls
    /\ boundary.settled # 0 => Idle /\ kernel.tick > 0
    /\ session.failed # 0 => Idle

(* Callbacks are scheduled for boundaries that have not begun.              *)
Scheduled ==
    \A tick \in DOMAIN session.scheduled :
        /\ tick \in Int /\ session.scheduled[tick] \in Nat
        /\ tick > (IF Advancing THEN kernel.tick + 1 ELSE kernel.tick)

ControlFields == {"kind", "connector", "value", "behaviour", "state"}

ControlOK(control) ==
    /\ DOMAIN control = ControlFields
    /\ control.kind \in {"mock", "model"}
    /\ control.kind = "model" => control.behaviour \in Behaviours
    /\ IsBusValue(control.value)

Provisions ==
    /\ circuit \in Circuits
    /\ objects.adapted \in Seq(Range(circuit.objects))
    /\ IsSequence(objects.controls)
    /\ \A i \in DOMAIN objects.controls : ControlOK(objects.controls[i])
    /\ \A name \in DOMAIN objects.current :
          objects.current[name] \in DOMAIN objects.controls

Stimuli ==
    /\ IsFiniteSet(DOMAIN session.drives) /\ IsFiniteSet(DOMAIN session.pulses)
    /\ \A n \in DOMAIN session.drives : IsSparse(session.drives[n])
    /\ \A n \in DOMAIN session.pulses : IsSparse(session.pulses[n])

(* A boundary starts from nothing.                                          *)
Fresh ==
    /\ Idle \/ InCallback => boundary.next = 1
    /\ boundary.next \in Nat \ {0}
    /\ boundary.next = 1 =>
          /\ world.sums = NoNetworks
          /\ boundary.commits = <<>>
          /\ boundary.contributions = NoNetworks

(* What objects put out is committed for connectors the session has.        *)
Named ==
    /\ DOMAIN objects.committed \subseteq Names
    /\ \A name \in DOMAIN objects.committed : IsBusValue(objects.committed[name])
    /\ IsSequence(boundary.commits)
    /\ \A i \in DOMAIN boundary.commits :
          /\ boundary.commits[i].connector \in Names
          /\ IsBusValue(boundary.commits[i].output)

Sequences(f) == \A n \in DOMAIN f : IsSequence(f[n])

Readings ==
    /\ \A n \in DOMAIN kernel.networks : IsBusValue(kernel.networks[n])
    /\ Sequences(boundary.contributions)

Typed ==
    /\ Fields /\ Counters /\ Scheduled /\ Provisions /\ Stimuli
    /\ Fresh /\ Named /\ Readings

(* A boundary begins from the committed snapshot, and shows nothing of      *)
(* itself until it commits; what a callback adds, it adds beside.           *)
Started ==
    /\ Advancing => boundary.previous = kernel.networks
    /\ Advancing \/ session.failed # 0 =>
          /\ begun.networks = kernel.networks
          /\ \A name \in DOMAIN begun.committed :
                /\ name \in DOMAIN objects.committed
                /\ objects.committed[name] = begun.committed[name]
          /\ \A i \in DOMAIN begun.states :
                /\ i \in DOMAIN objects.controls
                /\ objects.controls[i].state = begun.states[i]
    /\ session.failed # 0 => session.failed = kernel.tick + 1

(* c[i] is what the first i devices contribute.                             *)
Chain(c, n) ==
    /\ c[0] = NoNetworks
    /\ \A i \in 1 .. n : c[i] = Contributed(c[i - 1], Devices[i])

Accumulated ==
    /\ boundary.next <= Len(Devices) + 1
    /\ \E c : /\ Chain(c, boundary.next - 1)
             /\ boundary.contributions = c[boundary.next - 1]

OnlyMocks ==
    \A c \in DOMAIN objects.current : objects.controls[objects.current[c]].kind = "mock"

Fixed ==
    boundary.settled # 0 /\ boundary.settled = calls /\ OnlyMocks =>
        \E c : /\ Chain(c, Len(Devices))
               /\ kernel.networks = Aggregated(c[Len(Devices)])

(* What the trace of a target gives back: `values` are its values at the    *)
(* ticks up to endTick, and e[k] is what the first k events amount to.      *)
EventChain(e, events) ==
    /\ e[0] = Known(ZeroBus)
    /\ \A i \in 1 .. Len(events) : e[i] = ApplyEvent(e[i - 1], events[i])

GivesBack(target, e, events, values, endTick) ==
    \A tick \in 0 .. endTick, k \in 1 .. Len(events) :
        /\ events[k].tick <= tick
        /\ k < Len(events) => events[k + 1].tick > tick
        => e[k] = Projected(target, values[tick + 1])

Ordered(events, endTick) ==
    /\ IsSequence(events) /\ Len(events) > 0 /\ events[1].tick = 0
    /\ \A i \in 1 .. Len(events) : events[i].tick \in 0 .. endTick
    /\ \A i \in 2 .. Len(events) : events[i - 1].tick < events[i].tick
    /\ \A i \in 1 .. Len(events) :
          events[i].kind = "known" /\ ~events[i].reset => i > 1 /\ events[i - 1].kind = "known"

Tracked(target, events, values, endTick) ==
    /\ Ordered(events, endTick)
    /\ IsSequence(values) /\ Len(values) = endTick + 1
    /\ \A i \in 1 .. endTick + 1 : IsBusValue(values[i])
    /\ IsKnown(values[endTick + 1]) => events[Len(events)].kind = "known"
    /\ \E e : EventChain(e, events) /\ GivesBack(target, e, events, values, endTick)

TargetOK(target) ==
    /\ target.kind \in {"network", "signal", "object-input", "object-output"}
    /\ target.kind = "object-input" => target.connector \in Names
    /\ target.kind = "object-output" => target.connector \in DOMAIN objects.committed

Traced ==
    /\ trace.endTick = kernel.tick
    /\ DOMAIN trace.previous = trace.targets
    /\ DOMAIN trace.events = trace.targets
    /\ DOMAIN history = trace.targets
    /\ \A target \in trace.targets :
          /\ TargetOK(target)
          /\ trace.previous[target] = history[target][kernel.tick + 1]
          /\ Tracked(target, trace.events[target], history[target], kernel.tick)
-----------------------------------------------------------------------------
(* Sequences, functions that gain and lose a key, bus values.               *)

LEMMA SequenceFacts ==
    ASSUME NEW s, IsSequence(s)
    PROVE  Len(s) \in Nat /\ DOMAIN s = 1 .. Len(s)
BY DEF IsSequence

LEMMA SequenceMade ==
    ASSUME NEW n \in Nat, NEW s, s = [i \in 1 .. n |-> s[i]]
    PROVE  IsSequence(s) /\ Len(s) = n /\ DOMAIN s = 1 .. n
<1>1. \A i \in 1 .. n : s[i] \in Range(s)
  BY DEF Range
<1>2. s \in [1 .. n -> Range(s)]
  BY <1>1
<1>3. s \in Seq(Range(s))
  BY <1>2
<1>. QED  BY <1>2, <1>3 DEF IsSequence

LEMMA AppendFacts ==
    ASSUME NEW s, IsSequence(s), NEW x
    PROVE  /\ IsSequence(Append(s, x))
           /\ Len(Append(s, x)) = Len(s) + 1
           /\ \A i \in 1 .. Len(s) : Append(s, x)[i] = s[i]
           /\ Append(s, x)[Len(s) + 1] = x
<1>. DEFINE t == Append(s, x)
<1>1. s \in Seq(Range(s) \cup {x})
  BY DEF IsSequence
<1>2. t \in Seq(Range(s) \cup {x}) /\ Len(t) = Len(s) + 1
  BY <1>1
<1>3. /\ \A i \in 1 .. Len(s) : t[i] = s[i]
      /\ t[Len(s) + 1] = x
  BY <1>1
<1>4. t = [i \in 1 .. Len(t) |-> t[i]] /\ Len(t) \in Nat
  <2>. HIDE DEF t
  <2>. QED  BY <1>2
<1>. HIDE DEF t
<1>5. IsSequence(t)
  BY <1>4, SequenceMade
<1>. QED  BY <1>2, <1>3, <1>5 DEF t

LEMMA WithFacts ==
    \A f, key, value :
        /\ DOMAIN With(f, key, value) = DOMAIN f \cup {key}
        /\ With(f, key, value)[key] = value
        /\ \A k \in DOMAIN f : k # key => With(f, key, value)[k] = f[k]
BY DEF With, Override

LEMMA WithoutFacts ==
    \A f, key :
        /\ DOMAIN Without(f, key) = DOMAIN f \ {key}
        /\ \A k \in DOMAIN f : k # key => Without(f, key)[k] = f[k]
BY DEF Without

LEMMA BusValues ==
    /\ \A bus : Known(bus).kind = "known" /\ Known(bus).bus = bus /\ IsKnown(Known(bus))
    /\ \A o : Unknown(o).kind = "unknown" /\ Unknown(o).origins = o /\ ~IsKnown(Unknown(o))
    /\ \A bus : IsSparse(bus) => IsBusValue(Known(bus))
    /\ \A o : IsBusValue(Unknown(o))
<1>1. \A bus : Known(bus).kind = "known" /\ Known(bus).bus = bus /\ IsKnown(Known(bus))
  BY DEF Known, IsKnown
<1>2. \A o : Unknown(o).kind = "unknown" /\ Unknown(o).origins = o /\ ~IsKnown(Unknown(o))
  BY DEF Unknown, IsKnown
<1>. QED  BY <1>1, <1>2 DEF IsBusValue

LEMMA SparseFacts ==
    /\ \A f : IsSparse(Sparse(f))
    /\ DOMAIN ZeroBus = {} /\ IsSparse(ZeroBus)
    /\ DOMAIN NoNetworks = {}
    /\ \A bus : IsSparse(bus) => \A s \in DOMAIN bus : bus[s] # 0
<1>1. ASSUME NEW f
      PROVE  IsSparse(Sparse(f))
  <2>. DEFINE g == Sparse(f)
  <2>1. /\ DOMAIN g = {x \in DOMAIN f : f[x] # 0}
        /\ \A s \in DOMAIN g : g[s] = f[s] /\ g[s] # 0
        /\ g = [s \in DOMAIN g |-> g[s]]
    BY DEF Sparse
  <2>. HIDE DEF g
  <2>2. {x \in DOMAIN g : g[x] # 0} = DOMAIN g
    BY <2>1
  <2>3. Sparse(g) = g
    BY <2>1, <2>2 DEF Sparse
  <2>. QED  BY <2>3 DEF IsSparse, g
<1>2. DOMAIN ZeroBus = {}
  BY DEF ZeroBus, Sparse
<1>3. IsSparse(ZeroBus)
  BY <1>1 DEF ZeroBus
<1>4. \A bus : IsSparse(bus) => \A s \in DOMAIN bus : bus[s] # 0
  BY DEF IsSparse, Sparse
<1>. QED  BY <1>1, <1>2, <1>3, <1>4 DEF NoNetworks
-----------------------------------------------------------------------------
(* Sequences put together, and what folds make.                             *)

LEMMA ListIsSequence ==
    ASSUME NEW S, NEW s \in Seq(S)
    PROVE  IsSequence(s) /\ \A i \in DOMAIN s : s[i] \in S
<1>1. s = [i \in 1 .. Len(s) |-> s[i]] /\ Len(s) \in Nat
  OBVIOUS
<1>2. IsSequence(s)
  BY <1>1, SequenceMade
<1>. QED  BY <1>2

LEMMA ConcatFacts ==
    ASSUME NEW s, NEW t, IsSequence(s), IsSequence(t)
    PROVE  /\ IsSequence(s \o t)
           /\ Len(s \o t) = Len(s) + Len(t)
           /\ \A i \in 1 .. Len(s) : (s \o t)[i] = s[i]
           /\ \A i \in 1 .. Len(t) : (s \o t)[Len(s) + i] = t[i]
<1>. DEFINE S == Range(s) \cup Range(t)
            u == s \o t
<1>1. s \in Seq(S) /\ t \in Seq(S)
  BY DEF IsSequence
<1>. HIDE DEF S
<1>2. u \in Seq(S) /\ Len(u) = Len(s) + Len(t)
  BY <1>1
<1>3. \A i \in 1 .. Len(s) : u[i] = s[i]
  BY <1>1
<1>4. \A i \in 1 .. Len(t) : u[Len(s) + i] = t[i]
  BY <1>1
<1>. HIDE DEF u
<1>5. u = [i \in 1 .. Len(u) |-> u[i]] /\ Len(u) \in Nat
  BY <1>2
<1>6. IsSequence(u)
  BY <1>5, SequenceMade
<1>. QED  BY <1>2, <1>3, <1>4, <1>6 DEF u

LEMMA ConcatElements ==
    ASSUME NEW s, NEW t, IsSequence(s), IsSequence(t)
    PROVE  \A i \in 1 .. Len(s \o t) :
               \/ i \in 1 .. Len(s) /\ (s \o t)[i] = s[i]
               \/ \E j \in 1 .. Len(t) : i = Len(s) + j /\ (s \o t)[i] = t[j]
<1>1. /\ Len(s \o t) = Len(s) + Len(t)
      /\ \A k \in 1 .. Len(s) : (s \o t)[k] = s[k]
      /\ \A k \in 1 .. Len(t) : (s \o t)[Len(s) + k] = t[k]
  BY ConcatFacts
<1>2. Len(s) \in Nat /\ Len(t) \in Nat
  BY SequenceFacts
<1>. SUFFICES ASSUME NEW i \in 1 .. Len(s \o t)
              PROVE  \/ i \in 1 .. Len(s) /\ (s \o t)[i] = s[i]
                     \/ \E j \in 1 .. Len(t) : i = Len(s) + j /\ (s \o t)[i] = t[j]
  OBVIOUS
<1>3. CASE i \in 1 .. Len(s)
  BY <1>1, <1>3
<1>4. CASE i \notin 1 .. Len(s)
  <2>1. i - Len(s) \in 1 .. Len(t) /\ i = Len(s) + (i - Len(s))
    BY <1>1, <1>2, <1>4
  <2>. QED  BY <1>1, <2>1
<1>. QED  BY <1>3, <1>4

LEMMA ConcatMembers ==
    ASSUME NEW s, NEW t, IsSequence(s), IsSequence(t)
    PROVE  \A i \in DOMAIN (s \o t) :
               (\E j \in DOMAIN s : (s \o t)[i] = s[j]) \/ (\E j \in DOMAIN t : (s \o t)[i] = t[j])
<1>1. IsSequence(s \o t)
  BY ConcatFacts
<1>2. DOMAIN (s \o t) = 1 .. Len(s \o t) /\ DOMAIN s = 1 .. Len(s) /\ DOMAIN t = 1 .. Len(t)
  BY <1>1, SequenceFacts
<1>3. \A i \in 1 .. Len(s \o t) :
          \/ i \in 1 .. Len(s) /\ (s \o t)[i] = s[i]
          \/ \E j \in 1 .. Len(t) : i = Len(s) + j /\ (s \o t)[i] = t[j]
  BY ConcatElements
<1>. QED  BY <1>2, <1>3, Zenon

(* A function on the domain of a sequence is a sequence.                    *)
LEMMA MappedFacts ==
    ASSUME NEW s, IsSequence(s), NEW t, t = [i \in DOMAIN s |-> t[i]]
    PROVE  IsSequence(t) /\ Len(t) = Len(s) /\ DOMAIN t = DOMAIN s
<1>1. Len(s) \in Nat /\ DOMAIN s = 1 .. Len(s)
  BY SequenceFacts
<1>. QED  BY <1>1, SequenceMade

(* Buses added and values aggregated are what the kernel keeps.             *)
LEMMA MergedFacts ==
    ASSUME NEW buses, IsSequence(buses)
    PROVE  IsSparse(AggregateBuses(buses))
<1>0. Len(buses) \in Nat /\ DOMAIN buses = 1 .. Len(buses)
  BY SequenceFacts
<1>1. \E c : /\ MergeFold!Runs(c, ZeroBus, buses)
             /\ MergeFold!Result(ZeroBus, buses) = c[Len(buses)]
  BY <1>0, MergeFold!FoldLeftRuns, FoldsInduct, Zenon
<1>2. MergeFold!Result(ZeroBus, buses) = FoldLeft(Merge, ZeroBus, buses)
  BY Zenon DEF FoldLeft, MapThenFoldSet, Max, MergeFold!Result,
               MergeFold!MapThenFoldSet, MergeFold!Greatest
<1>3. PICK c : /\ c[0] = ZeroBus
               /\ \A i \in 1 .. Len(buses) : c[i] = Merge(c[i - 1], buses[i])
               /\ AggregateBuses(buses) = c[Len(buses)]
  BY <1>1, <1>2, Zenon DEF MergeFold!Runs, AggregateBuses
<1>4. CASE Len(buses) = 0
  BY <1>3, <1>4, SparseFacts
<1>5. CASE Len(buses) # 0
  <2>1. Len(buses) \in 1 .. Len(buses)
    BY <1>0, <1>5
  <2>2. c[Len(buses)] = Merge(c[Len(buses) - 1], buses[Len(buses)])
    BY <1>3, <2>1
  <2>3. \A a, b : IsSparse(Merge(a, b))
    BY SparseFacts DEF Merge
  <2>. QED  BY <1>3, <2>2, <2>3
<1>. QED  BY <1>4, <1>5

LEMMA AggregatedFacts ==
    ASSUME NEW values, IsSequence(values)
    PROVE  IsBusValue(AggregateValues(values))
<1>. DEFINE buses == [i \in DOMAIN values |-> values[i].bus]
<1>1. buses = [i \in DOMAIN values |-> buses[i]]
  OBVIOUS
<1>2. AggregateValues(values) = Known(AggregateBuses(buses))
          \/ \E o : AggregateValues(values) = Unknown(o)
  BY DEF AggregateValues
<1>. HIDE DEF buses
<1>3. IsSequence(buses)
  BY <1>1, MappedFacts
<1>4. IsSparse(AggregateBuses(buses))
  BY <1>3, MergedFacts
<1>. QED  BY <1>2, <1>4, BusValues

LEMMA ThroughFacts ==
    ASSUME NEW value, IsBusValue(value), NEW device
    PROVE  IsBusValue(ThroughDevice(value, device))
BY BusValues DEF ThroughDevice
-----------------------------------------------------------------------------
(* The devices of a session and the connectors of its objects.              *)

IsObject(device) ==
    /\ device.kind = "object"
    /\ \E j \in DOMAIN objects.adapted :
          device.connectors = objects.adapted[j].connectors

LEMMA ConnectorFacts ==
    ASSUME Provisions
    PROVE  /\ \A c \in Connectors : ConnectorAssumption(c) /\ c.name \in Names
           /\ \A name \in Names : Connector(name) \in Connectors /\ Connector(name).name = name
           /\ \A j \in DOMAIN objects.adapted :
                 /\ objects.adapted[j] \in Range(circuit.objects)
                 /\ IsSequence(objects.adapted[j].connectors)
                 /\ \A k \in DOMAIN objects.adapted[j].connectors :
                       objects.adapted[j].connectors[k] \in Connectors
<1>1. ASSUME NEW j \in DOMAIN objects.adapted
      PROVE  objects.adapted[j] \in Range(circuit.objects)
  BY DEF Provisions
<1>2. ASSUME NEW object \in Range(circuit.objects)
      PROVE  /\ IsSequence(object.connectors)
             /\ \A connector \in Range(object.connectors) : ConnectorAssumption(connector)
  BY CircuitsAssumption DEF Provisions, IsSequence
<1>3. \A j \in DOMAIN objects.adapted : \A k \in DOMAIN objects.adapted[j].connectors :
          objects.adapted[j].connectors[k] \in Connectors
  BY DEF Connectors, ToSet
<1>4. ASSUME NEW c \in Connectors
      PROVE  ConnectorAssumption(c) /\ c.name \in Names
  <2>1. PICK j \in DOMAIN objects.adapted : c \in Range(objects.adapted[j].connectors)
    BY DEF Connectors, ToSet, Range
  <2>2. ConnectorAssumption(c)
    BY <1>1, <1>2, <2>1
  <2>. QED  BY <2>2 DEF Names
<1>5. ASSUME NEW name \in Names
      PROVE  Connector(name) \in Connectors /\ Connector(name).name = name
  BY DEF Names, Connector
<1>. QED  BY <1>1, <1>2, <1>3, <1>4, <1>5

(* An object of the plan as the session takes part with it.                 *)
Adapted(object) ==
    [kind |-> "object", id |-> object.id, connectors |-> object.connectors]

(* Where the devices of a session come from.                                *)
LEMMA DeviceSources ==
    ASSUME Provisions
    PROVE  /\ IsSequence(Devices)
           /\ \A i \in 1 .. Len(Devices) :
                 \/ Devices[i] \in Range(circuit.combinators)
                 \/ Devices[i] = Source
                 \/ \E j \in DOMAIN objects.adapted : Devices[i] = Adapted(objects.adapted[j])
<1>. DEFINE first == circuit.combinators
            s == Append(first, Source)
            t == [i \in DOMAIN objects.adapted |-> Adapted(objects.adapted[i])]
<1>1. IsSequence(first) /\ \A i \in 1 .. Len(first) : first[i] \in Range(first)
  <2>1. circuit.combinators \in Seq(Range(circuit.combinators))
    BY CircuitsAssumption DEF Provisions
  <2>2. IsSequence(first) /\ DOMAIN first = 1 .. Len(first)
    BY <2>1, SequenceFacts DEF IsSequence
  <2>. QED  BY <2>2 DEF Range
<1>2. IsSequence(objects.adapted)
  <2>1. objects.adapted \in Seq(Range(circuit.objects))
    BY DEF Provisions
  <2>. QED  BY <2>1 DEF IsSequence, Range
<1>3. IsSequence(t) /\ DOMAIN t = DOMAIN objects.adapted /\ DOMAIN t = 1 .. Len(t)
  <2>1. t = [i \in DOMAIN objects.adapted |-> t[i]]
    OBVIOUS
  <2>. HIDE DEF t
  <2>. QED  BY <1>2, <2>1, MappedFacts, SequenceFacts
<1>4. \A i \in DOMAIN t : t[i] = Adapted(objects.adapted[i])
  BY <1>3
<1>5. Devices = s \o t
  BY Zenon DEF Devices, Adapted
<1>. HIDE DEF t, first
<1>6. IsSequence(s) /\ \A i \in 1 .. Len(s) : s[i] \in Range(first) \/ s[i] = Source
  <2>1. /\ IsSequence(s)
        /\ Len(s) = Len(first) + 1
        /\ \A i \in 1 .. Len(first) : s[i] = first[i]
        /\ s[Len(first) + 1] = Source
    BY <1>1, AppendFacts
  <2>2. Len(first) \in Nat
    BY <1>1, SequenceFacts
  <2>. HIDE DEF s
  <2>3. ASSUME NEW i \in 1 .. Len(s)
        PROVE  s[i] \in Range(first) \/ s[i] = Source
    <3>1. i \in 1 .. Len(first) \/ i = Len(first) + 1
      BY <2>1, <2>2
    <3>. QED  BY <3>1, <2>1, <1>1
  <2>. QED  BY <2>1, <2>3
<1>. HIDE DEF s
<1>7. IsSequence(Devices)
  BY <1>3, <1>5, <1>6, ConcatFacts
<1>8. ASSUME NEW i \in 1 .. Len(Devices)
      PROVE  \/ Devices[i] \in Range(first)
             \/ Devices[i] = Source
             \/ \E j \in DOMAIN objects.adapted : Devices[i] = Adapted(objects.adapted[j])
  <2>1. (i \in 1 .. Len(s) /\ Devices[i] = s[i]) \/ \E j \in 1 .. Len(t) : Devices[i] = t[j]
    <3>1. i \in 1 .. Len(s \o t)
      BY <1>5
    <3>2. \/ i \in 1 .. Len(s) /\ (s \o t)[i] = s[i]
          \/ \E j \in 1 .. Len(t) : i = Len(s) + j /\ (s \o t)[i] = t[j]
      <4>1. IsSequence(s) /\ IsSequence(t)
        BY <1>3, <1>6
      <4>. QED  BY <4>1, <3>1, ConcatElements
    <3>. QED  BY <1>5, <3>2
  <2>. QED  BY <2>1, <1>3, <1>4, <1>6
<1>. QED  BY <1>7, <1>8 DEF first

LEMMA DeviceFacts ==
    ASSUME Provisions
    PROVE  /\ IsSequence(Devices)
           /\ \A i \in 1 .. Len(Devices) :
                 \/ DeviceAssumption(Devices[i])
                 \/ Devices[i] = Source
                 \/ IsObject(Devices[i])
<1>1. \A device \in Range(circuit.combinators) : DeviceAssumption(device)
  BY CircuitsAssumption DEF Provisions
<1>2. \A j \in DOMAIN objects.adapted : IsObject(Adapted(objects.adapted[j]))
  BY DEF IsObject, Adapted
<1>. QED  BY <1>1, <1>2, DeviceSources

(* What a connector puts out.                                               *)
LEMMA InputFacts ==
    ASSUME NEW networks, \A n \in DOMAIN networks : IsBusValue(networks[n]),
           NEW connector, ConnectorAssumption(connector)
    PROVE  IsBusValue(ConnectorInput(networks, connector))
<1>. DEFINE values == [i \in DOMAIN connector.inputs |-> ReadNetwork(networks, connector.inputs[i])]
<1>1. IsSequence(connector.inputs)
  <2>1. connector.inputs \in Seq(Networks)
    BY DEF ConnectorAssumption
  <2>. QED  BY <2>1, ListIsSequence
<1>2. values = [i \in DOMAIN connector.inputs |-> values[i]]
  OBVIOUS
<1>3. ConnectorInput(networks, connector) = AggregateValues(values)
  BY DEF ConnectorInput
<1>. HIDE DEF values
<1>. QED  BY <1>1, <1>2, <1>3, MappedFacts, AggregatedFacts

LEMMA OutputFacts ==
    ASSUME Provisions, NEW networks, \A n \in DOMAIN networks : IsBusValue(networks[n]),
           NEW connector \in Connectors, NEW device
    PROVE  IsBusValue(CommittedOutput(device, ConnectorStep(networks, connector).output))
<1>. DEFINE provider == Provider(connector)
            control == objects.controls[provider]
            input == ConnectorInput(networks, connector)
            output == ConnectorStep(networks, connector).output
<1>1. ConnectorAssumption(connector)
  BY ConnectorFacts
<1>2. IsBusValue(input)
  BY <1>1, InputFacts
<1>3. provider # None => ControlOK(control)
  BY DEF Provisions, Provider, ValueAt
<1>. HIDE DEF input
<1>4. CASE provider = None
  <2>1. output = connector.fallback
    BY <1>4 DEF ConnectorStep
  <2>. QED  BY <1>1, <2>1, BusValues, SparseFacts, ThroughFacts
             DEF ConnectorAssumption, CommittedOutput, NoOutput
<1>5. CASE provider # None /\ control.kind = "mock"
  <2>1. output = control.value
    BY <1>5 DEF ConnectorStep
  <2>. QED  BY <1>3, <1>5, <2>1, BusValues, SparseFacts, ThroughFacts
             DEF ControlOK, CommittedOutput
<1>6. CASE provider # None /\ control.kind # "mock"
  <2>1. output = ModelStep(control.behaviour, input, control.state).output
    BY <1>6 DEF ConnectorStep, input
  <2>2. control.behaviour \in {"echo", "pulse", "fails"}
    BY <1>3, <1>6, BehavioursAssumption, Zenon DEF ControlOK
  <2>3. IsBusValue(Known([s \in Signals |-> 1]))
    <3>1. IsSparse([s \in Signals |-> 1])
      BY DEF IsSparse, Sparse
    <3>. QED  BY <3>1, BusValues
  <2>4. output = NoOutput \/ IsBusValue(output)
    <3>. HIDE DEF control, output
    <3>. QED  BY <2>1, <2>2, <2>3, <1>2 DEF ModelStep
  <2>. HIDE DEF output
  <2>5. IsBusValue(CommittedOutput(device, output))
    BY <2>4, BusValues, SparseFacts, ThroughFacts DEF CommittedOutput
  <2>. QED  BY <2>5 DEF output
<1>. QED  BY <1>4, <1>5, <1>6
-----------------------------------------------------------------------------
(* What the devices of a boundary contribute.                               *)

LEMMA JoinedFacts ==
    ASSUME NEW sequences, IsSequence(sequences),
           \A i \in DOMAIN sequences : IsSequence(sequences[i])
    PROVE  IsSequence(AllOf(sequences))
<1>0. Len(sequences) \in Nat /\ DOMAIN sequences = 1 .. Len(sequences)
  BY SequenceFacts
<1>1. \E c : /\ JoinFold!Runs(c, <<>>, sequences)
             /\ JoinFold!Result(<<>>, sequences) = c[Len(sequences)]
  BY <1>0, JoinFold!FoldLeftRuns, FoldsInduct, Zenon
<1>2. JoinFold!Result(<<>>, sequences) = FoldLeft(\o, <<>>, sequences)
  BY Zenon DEF FoldLeft, MapThenFoldSet, Max, JoinFold!Result,
               JoinFold!MapThenFoldSet, JoinFold!Greatest
<1>3. PICK c : /\ c[0] = <<>>
               /\ \A i \in 1 .. Len(sequences) : c[i] = c[i - 1] \o sequences[i]
               /\ AllOf(sequences) = c[Len(sequences)]
  BY <1>1, <1>2, Zenon DEF JoinFold!Runs, AllOf
<1>. DEFINE G == {m \in Nat : m <= Len(sequences) => IsSequence(c[m])}
<1>4. 0 \in G
  <2>1. <<>> \in Seq({})
    OBVIOUS
  <2>. QED  BY <1>3, <2>1, ListIsSequence, Zenon
<1>5. ASSUME NEW m \in G
      PROVE  m + 1 \in G
  <2>1. CASE m + 1 <= Len(sequences)
    <3>1. m + 1 \in 1 .. Len(sequences) /\ IsSequence(c[m])
      BY <1>0, <2>1
    <3>2. c[m + 1] = c[m] \o sequences[m + 1]
      <4>1. (m + 1) - 1 = m
        OBVIOUS
      <4>2. c[m + 1] = c[(m + 1) - 1] \o sequences[m + 1]
        BY <1>3, <3>1, Zenon
      <4>. QED  BY <4>1, <4>2, Zenon
    <3>3. IsSequence(c[m + 1])
      BY <1>0, <3>1, <3>2, ConcatFacts
    <3>. QED  BY <3>3
  <2>. QED  BY <2>1
<1>6. G = Nat
  <2>. G \in SUBSET Nat
    OBVIOUS
  <2>. HIDE DEF G
  <2>. QED  BY <1>4, <1>5, NaturalInduction
<1>. QED  BY <1>0, <1>3, <1>6

LEMMA WithOutputFacts ==
    ASSUME NEW f, Sequences(f), NEW output
    PROVE  Sequences(WithOutput(f, output))
<1>. DEFINE key == output.network
            s == ValueAt(f, key, <<>>)
            g == WithOutput(f, output)
<1>1. IsSequence(s)
  <2>1. <<>> \in Seq({})
    OBVIOUS
  <2>. QED  BY <2>1, ListIsSequence, Zenon DEF Sequences, ValueAt
<1>2. IsSequence(Append(s, output.value))
  BY <1>1, AppendFacts
<1>. DEFINE t == Append(s, output.value)
<1>3. g = With(f, key, t)
  BY Zenon DEF WithOutput
<1>. HIDE DEF s, g, t, key
<1>4. /\ DOMAIN g = DOMAIN f \cup {key}
      /\ g[key] = t
      /\ \A k \in DOMAIN f : k # key => g[k] = f[k]
  BY <1>3 DEF With, Override
<1>. SUFFICES Sequences(g)
  BY DEF g
<1>. QED  BY <1>2, <1>4, Zenon DEF Sequences, t

LEMMA OutputsFacts ==
    ASSUME NEW f, Sequences(f), NEW outputs, IsSequence(outputs)
    PROVE  Sequences(FoldLeft(WithOutput, f, outputs))
<1>0. Len(outputs) \in Nat /\ DOMAIN outputs = 1 .. Len(outputs)
  BY SequenceFacts
<1>1. \E c : /\ OutputFold!Runs(c, f, outputs)
             /\ OutputFold!Result(f, outputs) = c[Len(outputs)]
  BY <1>0, OutputFold!FoldLeftRuns, FoldsInduct, Zenon
<1>2. OutputFold!Result(f, outputs) = FoldLeft(WithOutput, f, outputs)
  BY Zenon DEF FoldLeft, MapThenFoldSet, Max, OutputFold!Result,
               OutputFold!MapThenFoldSet, OutputFold!Greatest
<1>3. PICK c : /\ c[0] = f
               /\ \A i \in 1 .. Len(outputs) : c[i] = WithOutput(c[i - 1], outputs[i])
               /\ FoldLeft(WithOutput, f, outputs) = c[Len(outputs)]
  BY <1>1, <1>2, Zenon DEF OutputFold!Runs
<1>. DEFINE G == {m \in Nat : m <= Len(outputs) => Sequences(c[m])}
<1>4. 0 \in G
  BY <1>3
<1>5. ASSUME NEW m \in G
      PROVE  m + 1 \in G
  <2>1. CASE m + 1 <= Len(outputs)
    <3>1. m + 1 \in 1 .. Len(outputs) /\ Sequences(c[m])
      BY <1>0, <2>1
    <3>2. c[m + 1] = WithOutput(c[m], outputs[m + 1])
      BY <1>3, <3>1
    <3>3. Sequences(c[m + 1])
      BY <3>1, <3>2, WithOutputFacts
    <3>. QED  BY <3>3
  <2>. QED  BY <2>1
<1>6. G = Nat
  <2>. G \in SUBSET Nat
    OBVIOUS
  <2>. HIDE DEF G
  <2>. QED  BY <1>4, <1>5, NaturalInduction
<1>. QED  BY <1>0, <1>3, <1>6

LEMMA StimulusFacts ==
    ASSUME NEW values, IsFiniteSet(DOMAIN values)
    PROVE  /\ IsSequence(Stimulus(values))
           /\ \A i \in DOMAIN Stimulus(values) : \E n \in DOMAIN values :
                 Stimulus(values)[i] = [network |-> n, value |-> Known(values[n])]
<1>. DEFINE S == DOMAIN values
            networks == SetToSeq(S)
<1>1. Cardinality(S) \in Nat
  BY FS_CardinalityType
<1>2. \E f \in [1 .. Cardinality(S) -> S] : IsInjective(f)
  <2>1. PICK n \in Nat : ExistsBijection(1 .. n, S)
    BY FS_NatBijection
  <2>2. n = Cardinality(S)
    BY <2>1, FS_CountingElements
  <2>3. PICK f : f \in Bijection(1 .. n, S)
    BY <2>1 DEF ExistsBijection
  <2>4. f \in [1 .. n -> S] /\ \A a, b \in 1 .. n : f[a] = f[b] => a = b
    BY <2>3 DEF Bijection, Injection, IsInjective
  <2>5. IsInjective(f)
    BY <2>4 DEF IsInjective
  <2>. QED  BY <2>2, <2>4, <2>5
<1>3. networks \in [1 .. Cardinality(S) -> S]
  BY <1>2 DEF SetToSeq
<1>. HIDE DEF networks
<1>4. IsSequence(networks) /\ \A i \in DOMAIN networks : networks[i] \in S
  <2>1. networks = [i \in 1 .. Cardinality(S) |-> networks[i]]
    BY <1>3
  <2>. QED  BY <1>1, <1>3, <2>1, SequenceMade
<1>. DEFINE t == [i \in DOMAIN networks |->
                      [network |-> networks[i], value |-> Known(values[networks[i]])]]
<1>5. t = [i \in DOMAIN networks |-> t[i]]
  OBVIOUS
<1>6. Stimulus(values) = t
  BY DEF Stimulus, networks
<1>7. \A i \in DOMAIN networks : \E n \in S : t[i] = [network |-> n, value |-> Known(values[n])]
  BY <1>4
<1>. HIDE DEF t
<1>. QED  BY <1>4, <1>5, <1>6, <1>7, MappedFacts

LEMMA BroadcastFacts ==
    ASSUME NEW value, NEW networks, IsSequence(networks)
    PROVE  IsSequence(Broadcast(value, networks))
<1>. DEFINE t == Broadcast(value, networks)
<1>1. t = [i \in DOMAIN networks |-> t[i]]
  BY DEF Broadcast
<1>. HIDE DEF t
<1>2. IsSequence(t)
  BY <1>1, MappedFacts
<1>. QED  BY <1>2 DEF t

LEMMA EvaluatedFacts ==
    ASSUME Provisions, Stimuli, NEW networks,
           NEW device, DeviceAssumption(device) \/ device = Source \/ IsObject(device)
    PROVE  IsSequence(Evaluated(networks, device))
<1>1. CASE DeviceAssumption(device)
  <2>1. device.kind \notin {"source", "object"} /\ device.outputs \in Seq(Networks)
    BY <1>1 DEF DeviceAssumption
  <2>2. IsSequence(device.outputs)
    BY <2>1, ListIsSequence
  <2>3. Evaluated(networks, device) =
            Broadcast(ValueOutput(device, DeviceInput(networks, device)), device.outputs)
    BY <2>1 DEF Evaluated
  <2>. QED  BY <2>2, <2>3, BroadcastFacts
<1>2. CASE device = Source
  <2>1. Evaluated(networks, device) = Stimulus(session.drives) \o Stimulus(session.pulses)
    BY <1>2 DEF Evaluated, Source
  <2>2. IsSequence(Stimulus(session.drives)) /\ IsSequence(Stimulus(session.pulses))
    BY StimulusFacts DEF Stimuli
  <2>. QED  BY <2>1, <2>2, ConcatFacts
<1>3. CASE IsObject(device)
  <2>. DEFINE outputs(c) ==
                 LET output == ConnectorStep(networks, c).output
                 IN  IF output = NoOutput THEN <<>>
                     ELSE Broadcast(CommittedOutput(device, output), c.outputs)
              all == [i \in DOMAIN device.connectors |-> outputs(device.connectors[i])]
  <2>1. /\ IsSequence(device.connectors)
        /\ \A i \in DOMAIN device.connectors : ConnectorAssumption(device.connectors[i])
    BY <1>3, ConnectorFacts DEF IsObject
  <2>2. ASSUME NEW c, ConnectorAssumption(c)
        PROVE  IsSequence(outputs(c))
    <3>1. <<>> \in Seq({})
      OBVIOUS
    <3>2. IsSequence(<<>>)
      BY <3>1, ListIsSequence, Zenon
    <3>3. c.outputs \in Seq(Networks)
      BY <2>2 DEF ConnectorAssumption
    <3>4. IsSequence(c.outputs)
      BY <3>3, ListIsSequence
    <3>. QED  BY <3>2, <3>4, BroadcastFacts
  <2>3. Evaluated(networks, device) = AllOf(all)
    BY <1>3, Zenon DEF Evaluated, IsObject, ObjectOutputs
  <2>. HIDE DEF outputs
  <2>4. all = [i \in DOMAIN device.connectors |-> all[i]]
    OBVIOUS
  <2>5. \A i \in DOMAIN device.connectors : IsSequence(all[i])
    BY <2>1, <2>2
  <2>. HIDE DEF all
  <2>6. IsSequence(all) /\ DOMAIN all = DOMAIN device.connectors
    BY <2>1, <2>4, MappedFacts
  <2>. QED  BY <2>3, <2>5, <2>6, JoinedFacts
<1>. QED  BY <1>1, <1>2, <1>3

LEMMA ContributedFacts ==
    ASSUME Provisions, Stimuli, NEW f, Sequences(f),
           NEW device, DeviceAssumption(device) \/ device = Source \/ IsObject(device)
    PROVE  Sequences(Contributed(f, device))
<1>1. IsSequence(Evaluated(kernel.networks, device))
  BY EvaluatedFacts
<1>. QED  BY <1>1, OutputsFacts DEF Contributed
-----------------------------------------------------------------------------
(* What commits leave of the objects.                                       *)

After(state) ==
    /\ DOMAIN state = {"adapted", "controls", "current", "committed"}
    /\ state.adapted = objects.adapted /\ state.current = objects.current
    /\ IsSequence(state.controls) /\ DOMAIN state.controls = DOMAIN objects.controls
    /\ \A i \in DOMAIN objects.controls :
          /\ ControlOK(state.controls[i])
          /\ state.controls[i].kind = objects.controls[i].kind
          /\ state.controls[i].connector = objects.controls[i].connector
          /\ state.controls[i].value = objects.controls[i].value
          /\ state.controls[i].behaviour = objects.controls[i].behaviour
    /\ DOMAIN objects.committed \subseteq DOMAIN state.committed
    /\ DOMAIN state.committed \subseteq Names
    /\ \A name \in DOMAIN state.committed : IsBusValue(state.committed[name])

LEMMA CommitFacts ==
    ASSUME NEW state, After(state),
           NEW commit, commit.connector \in Names, IsBusValue(commit.output)
    PROVE  After(Commit(state, commit))
<1>. DEFINE moved(i) == i = commit.provider /\ ValueAt(state.current, commit.connector, None) = i
            after == Commit(state, commit)
            controls == [i \in DOMAIN state.controls |->
                            IF moved(i) THEN [state.controls[i] EXCEPT !.state = commit.state]
                                        ELSE state.controls[i]]
            committed == With(state.committed, commit.connector, commit.output)
<1>1. /\ DOMAIN after = {"adapted", "controls", "current", "committed"}
      /\ after.adapted = state.adapted /\ after.current = state.current
      /\ after.controls = controls /\ after.committed = committed
  <2>. HIDE DEF committed
  <2>1. after = [[state EXCEPT !.controls = controls] EXCEPT !.committed = committed]
    BY DEF Commit, After, committed
  <2>. HIDE DEF controls, after
  <2>. QED  BY <2>1 DEF After
<1>2. /\ DOMAIN committed = DOMAIN state.committed \cup {commit.connector}
      /\ committed[commit.connector] = commit.output
      /\ \A k \in DOMAIN state.committed :
            k # commit.connector => committed[k] = state.committed[k]
  BY DEF With, Override
<1>3. controls = [i \in DOMAIN state.controls |-> controls[i]]
  OBVIOUS
<1>4. ASSUME NEW i \in DOMAIN objects.controls
      PROVE  /\ ControlOK(controls[i])
             /\ controls[i].kind = objects.controls[i].kind
             /\ controls[i].connector = objects.controls[i].connector
             /\ controls[i].value = objects.controls[i].value
             /\ controls[i].behaviour = objects.controls[i].behaviour
  <2>0. i \in DOMAIN state.controls
    BY DEF After
  <2>. DEFINE old == state.controls[i]
              new == [old EXCEPT !.state = commit.state]
  <2>1. controls[i] = new \/ controls[i] = old
    BY <2>0
  <2>2. /\ ControlOK(old)
        /\ old.kind = objects.controls[i].kind
        /\ old.connector = objects.controls[i].connector
        /\ old.value = objects.controls[i].value
        /\ old.behaviour = objects.controls[i].behaviour
    BY DEF After
  <2>. HIDE DEF controls, old
  <2>3. /\ DOMAIN new = DOMAIN old /\ new.kind = old.kind /\ new.connector = old.connector
        /\ new.value = old.value /\ new.behaviour = old.behaviour
    BY <2>2 DEF ControlOK, ControlFields
  <2>. HIDE DEF new
  <2>. QED  BY <2>1, <2>2, <2>3 DEF ControlOK
<1>5. IsSequence(state.controls) /\ DOMAIN state.controls = DOMAIN objects.controls
  BY DEF After
<1>. HIDE DEF controls, committed, after
<1>6. IsSequence(controls) /\ DOMAIN controls = DOMAIN objects.controls
  BY <1>3, <1>5, MappedFacts
<1>7. \A name \in DOMAIN committed : IsBusValue(committed[name])
  BY <1>2 DEF After
<1>8. After(after)
  BY <1>1, <1>2, <1>4, <1>6, <1>7 DEF After
<1>. QED  BY <1>8 DEF after

LEMMA CommittedFacts ==
    ASSUME Fields, Provisions, Named
    PROVE  After(Committed(objects, boundary.commits))
<1>. DEFINE commits == boundary.commits
<1>0. Len(commits) \in Nat /\ DOMAIN commits = 1 .. Len(commits)
  BY SequenceFacts DEF Named
<1>1. \E c : /\ CommitFold!Runs(c, objects, commits)
             /\ CommitFold!Result(objects, commits) = c[Len(commits)]
  BY <1>0, CommitFold!FoldLeftRuns, FoldsInduct, Zenon
<1>2. CommitFold!Result(objects, commits) = FoldLeft(Commit, objects, commits)
  BY Zenon DEF FoldLeft, MapThenFoldSet, Max, CommitFold!Result,
               CommitFold!MapThenFoldSet, CommitFold!Greatest
<1>3. PICK c : /\ c[0] = objects
               /\ \A i \in 1 .. Len(commits) : c[i] = Commit(c[i - 1], commits[i])
               /\ Committed(objects, commits) = c[Len(commits)]
  BY <1>1, <1>2, Zenon DEF CommitFold!Runs, Committed
<1>. DEFINE G == {m \in Nat : m <= Len(commits) => After(c[m])}
<1>4. 0 \in G
  <2>1. After(objects)
    BY DEF Fields, Provisions, Named, After
  <2>. QED  BY <1>3, <2>1
<1>5. ASSUME NEW m \in G
      PROVE  m + 1 \in G
  <2>1. CASE m + 1 <= Len(commits)
    <3>1. m + 1 \in 1 .. Len(commits) /\ After(c[m])
      BY <1>0, <2>1
    <3>2. c[m + 1] = Commit(c[m], commits[m + 1])
      <4>1. (m + 1) - 1 = m
        OBVIOUS
      <4>. QED  BY <1>3, <3>1, <4>1, Zenon
    <3>3. commits[m + 1].connector \in Names /\ IsBusValue(commits[m + 1].output)
      BY <1>0, <3>1 DEF Named
    <3>4. After(c[m + 1])
      BY <3>1, <3>2, <3>3, CommitFacts
    <3>. QED  BY <3>4
  <2>. QED  BY <2>1
<1>6. G = Nat
  <2>. G \in SUBSET Nat
    OBVIOUS
  <2>. HIDE DEF G
  <2>. QED  BY <1>4, <1>5, NaturalInduction
<1>. QED  BY <1>0, <1>3, <1>6

LEMMA CommitsFacts ==
    ASSUME Provisions, Readings,
           NEW device, DeviceAssumption(device) \/ device = Source \/ IsObject(device)
    PROVE  /\ IsSequence(Commits(device))
           /\ \A i \in DOMAIN Commits(device) :
                 /\ Commits(device)[i].connector \in Names
                 /\ IsBusValue(Commits(device)[i].output)
<1>1. CASE device.kind # "object"
  <2>1. <<>> \in Seq({}) /\ DOMAIN <<>> = {}
    OBVIOUS
  <2>2. Commits(device) = <<>>
    BY <1>1 DEF Commits
  <2>3. IsSequence(<<>>)
    BY <2>1, ListIsSequence, Zenon
  <2>4. DOMAIN Commits(device) = {} /\ IsSequence(Commits(device))
    BY <2>1, <2>2, <2>3
  <2>. QED  BY <2>4
<1>2. CASE device.kind = "object"
  <2>. DEFINE commits == Commits(device)
  <2>1. IsObject(device)
    BY <1>2 DEF DeviceAssumption, Source
  <2>2. /\ IsSequence(device.connectors)
        /\ \A i \in DOMAIN device.connectors : device.connectors[i] \in Connectors
    BY <2>1, ConnectorFacts DEF IsObject
  <2>3. commits = [i \in DOMAIN device.connectors |-> commits[i]]
    BY <1>2 DEF Commits
  <2>4. ASSUME NEW i \in DOMAIN device.connectors
        PROVE  commits[i].connector \in Names /\ IsBusValue(commits[i].output)
    <3>1. /\ commits[i].connector = device.connectors[i].name
          /\ commits[i].output =
                CommittedOutput(device, ConnectorStep(kernel.networks, device.connectors[i]).output)
      BY <1>2 DEF Commits
    <3>2. device.connectors[i] \in Connectors
      BY <2>2
    <3>3. device.connectors[i].name \in Names
      BY <3>2, ConnectorFacts
    <3>4. \A n \in DOMAIN kernel.networks : IsBusValue(kernel.networks[n])
      BY DEF Readings
    <3>5. IsBusValue(CommittedOutput(device,
                         ConnectorStep(kernel.networks, device.connectors[i]).output))
      BY <3>2, <3>4, OutputFacts
    <3>. HIDE DEF commits
    <3>. QED  BY <3>1, <3>3, <3>5
  <2>. HIDE DEF commits
  <2>5. IsSequence(commits) /\ DOMAIN commits = DOMAIN device.connectors
    BY <2>2, <2>3, MappedFacts
  <2>6. /\ IsSequence(commits)
        /\ \A i \in DOMAIN commits : commits[i].connector \in Names /\ IsBusValue(commits[i].output)
    BY <2>4, <2>5
  <2>. QED  BY <2>6 DEF commits
<1>. QED  BY <1>1, <1>2
-----------------------------------------------------------------------------
(* The operations of a test keep the types.                                 *)

LEMMA TypedInit ==
    ASSUME Init
    PROVE  Typed
<1>0. <<>> \in Seq({}) /\ DOMAIN <<>> = {} /\ \A S : <<>> \in Seq(S)
  OBVIOUS
<1>1. IsSequence(<<>>)
  BY <1>0, ListIsSequence, Zenon
<1>2. DOMAIN NoNetworks = {}
  BY SparseFacts
<1>3. Idle /\ boundary = NoBoundary
  BY DEF Init, Idle, Advancing, NoBoundary
<1>4. Fields
  BY DEF Init, Fields, NoBoundary
<1>5. Counters
  BY <1>3 DEF Init, Counters, NoBoundary
<1>6. Scheduled
  BY <1>0 DEF Init, Scheduled
<1>7. Provisions
  BY <1>0, <1>1, <1>2 DEF Init, Provisions
<1>8. Stimuli
  BY <1>2, FS_EmptySet DEF Init, Stimuli
<1>9. Fresh
  BY DEF Init, Fresh, NoBoundary
<1>10. Named
  BY <1>0, <1>1, <1>2 DEF Init, Named, NoBoundary
<1>11. Readings
  BY <1>2 DEF Init, Readings, NoBoundary, Sequences
<1>. QED  BY <1>4, <1>5, <1>6, <1>7, <1>8, <1>9, <1>10, <1>11 DEF Typed

(* Where the calls, drives, pulses and schedule of a test change.           *)
LEMMA TypedSession ==
    ASSUME Typed, MutationAllowed, calls' \in {calls, calls + 1},
           DOMAIN session' = DOMAIN session, session'.failed = session.failed,
           Scheduled', Stimuli',
           UNCHANGED <<circuit, kernel, boundary, objects, world>>,
           DOMAIN trace' = DOMAIN trace
    PROVE  Typed'
<1>1. Fields'
  BY DEF Typed, Fields
<1>2. Counters'
  BY DEF Typed, Counters, Idle, Advancing
<1>3. Provisions'
  BY DEF Typed, Provisions, ControlOK
<1>4. Fresh'
  BY DEF Typed, Fresh, Idle, Advancing, InCallback
<1>5. Named'
  BY DEF Typed, Named, Names, Connectors
<1>6. Readings'
  BY DEF Typed, Readings
<1>. QED  BY <1>1, <1>2, <1>3, <1>4, <1>5, <1>6 DEF Typed

LEMMA WithBusFacts ==
    ASSUME NEW f, IsFiniteSet(DOMAIN f), \A n \in DOMAIN f : IsSparse(f[n]), NEW key
    PROVE  /\ \A bus \in DrivenBuses :
                 /\ IsFiniteSet(DOMAIN With(f, key, bus))
                 /\ \A n \in DOMAIN With(f, key, bus) : IsSparse(With(f, key, bus)[n])
           /\ IsFiniteSet(DOMAIN Without(f, key))
           /\ \A n \in DOMAIN Without(f, key) : IsSparse(Without(f, key)[n])
<1>1. ASSUME NEW bus \in DrivenBuses
      PROVE  /\ IsFiniteSet(DOMAIN With(f, key, bus))
             /\ \A n \in DOMAIN With(f, key, bus) : IsSparse(With(f, key, bus)[n])
  <2>. DEFINE g == With(f, key, bus)
  <2>1. /\ DOMAIN g = DOMAIN f \cup {key} /\ g[key] = bus
        /\ \A k \in DOMAIN f : k # key => g[k] = f[k]
    BY DEF With, Override
  <2>. HIDE DEF g
  <2>2. IsFiniteSet(DOMAIN g)
    BY <2>1, FS_AddElement
  <2>3. \A n \in DOMAIN g : IsSparse(g[n])
    BY <2>1, DrivenBusesAssumption
  <2>. QED  BY <2>2, <2>3 DEF g
<1>2. IsFiniteSet(DOMAIN Without(f, key))
  BY FS_Subset DEF Without
<1>3. \A n \in DOMAIN Without(f, key) : IsSparse(Without(f, key)[n])
  BY DEF Without
<1>. QED  BY <1>1, <1>2, <1>3

LEMMA TypedStimulate ==
    ASSUME Typed, Stimulate
    PROVE  Typed'
<1>. USE DEF Typed
<1>1. /\ IsFiniteSet(DOMAIN session.drives) /\ IsFiniteSet(DOMAIN session.pulses)
      /\ \A n \in DOMAIN session.drives : IsSparse(session.drives[n])
      /\ \A n \in DOMAIN session.pulses : IsSparse(session.pulses[n])
      /\ DOMAIN session = {"drives", "pulses", "scheduled", "finished", "failed"}
  BY DEF Stimuli, Fields
<1>2. PICK network \in Networks :
          (\E bus \in DrivenBuses : Drive(network, bus) \/ Pulse(network, bus)) \/ Clear(network)
  BY DEF Stimulate
<1>3. /\ MutationAllowed /\ calls' = calls + 1
      /\ UNCHANGED <<circuit, kernel, boundary, objects, trace, world>>
      /\ DOMAIN session' = DOMAIN session /\ session'.failed = session.failed
      /\ session'.scheduled = session.scheduled
  BY <1>1, <1>2, Zenon DEF Drive, Pulse, Clear, Called
<1>4. Scheduled'
  BY <1>3 DEF Scheduled, Advancing
<1>5. Stimuli'
  <2>1. CASE \E bus \in DrivenBuses : Drive(network, bus)
    <3>1. PICK bus \in DrivenBuses : Drive(network, bus)
      BY <2>1
    <3>2. /\ session'.drives = With(session.drives, network, bus)
          /\ session'.pulses = session.pulses
      BY <1>1, <3>1 DEF Drive
    <3>. QED  BY <1>1, <3>2, WithBusFacts, Zenon DEF Stimuli
  <2>2. CASE \E bus \in DrivenBuses : Pulse(network, bus)
    <3>1. PICK bus \in DrivenBuses : Pulse(network, bus)
      BY <2>2
    <3>2. /\ session'.pulses = With(session.pulses, network, bus)
          /\ session'.drives = session.drives
      BY <1>1, <3>1 DEF Pulse
    <3>. QED  BY <1>1, <3>2, WithBusFacts, Zenon DEF Stimuli
  <2>3. CASE Clear(network)
    <3>1. /\ session'.pulses = Without(session.pulses, network)
          /\ session'.drives = Without(session.drives, network)
      BY <1>1, <2>3 DEF Clear
    <3>. QED  BY <1>1, <3>1, WithBusFacts DEF Stimuli
  <2>. QED  BY <1>2, <2>1, <2>2, <2>3
<1>. QED  BY <1>3, <1>4, <1>5, TypedSession DEF Fields

LEMMA TypedSchedule ==
    ASSUME Typed, Schedule
    PROVE  Typed'
<1>. USE DEF Typed
<1>1. circuit.maxTick \in Nat
  BY CircuitsAssumption DEF Provisions
<1>2. PICK tick \in 1 .. circuit.maxTick : At(tick)
  BY DEF Schedule
<1>. DEFINE old == session.scheduled
            new == With(old, tick, ValueAt(old, tick, 0) + 1)
<1>3. /\ MutationAllowed /\ calls' = calls + 1
      /\ UNCHANGED <<circuit, kernel, boundary, objects, trace, world>>
      /\ DOMAIN session' = DOMAIN session /\ session'.failed = session.failed
      /\ session'.scheduled = new
      /\ session'.drives = session.drives /\ session'.pulses = session.pulses
      /\ tick >= Earliest
  BY <1>2 DEF At, Called, Fields
<1>4. Scheduled'
  <2>1. ValueAt(old, tick, 0) \in Nat
    BY DEF ValueAt, Scheduled
  <2>2. /\ DOMAIN new = DOMAIN old \cup {tick} /\ new[tick] = ValueAt(old, tick, 0) + 1
        /\ \A k \in DOMAIN old : k # tick => new[k] = old[k]
    BY DEF With, Override
  <2>3. tick > (IF Advancing THEN kernel.tick + 1 ELSE kernel.tick) /\ tick \in Int
    BY <1>1, <1>3 DEF Earliest, Counters
  <2>4. \A k \in DOMAIN new :
            /\ k \in Int /\ new[k] \in Nat
            /\ k > (IF Advancing THEN kernel.tick + 1 ELSE kernel.tick)
    <3>. HIDE DEF new
    <3>. QED  BY <2>1, <2>2, <2>3 DEF Scheduled
  <2>. HIDE DEF new
  <2>. QED  BY <1>3, <2>4 DEF Scheduled, Advancing
<1>5. Stimuli'
  BY <1>3 DEF Stimuli
<1>. QED  BY <1>3, <1>4, <1>5, TypedSession DEF Fields

LEMMA TypedFinish ==
    ASSUME Typed, Finish
    PROVE  Typed'
<1>. USE DEF Typed
<1>1. /\ UNCHANGED <<circuit, kernel, boundary, objects, trace, world, calls>>
      /\ DOMAIN session' = DOMAIN session /\ session'.failed = session.failed
      /\ session'.scheduled = session.scheduled
      /\ session'.drives = session.drives /\ session'.pulses = session.pulses
  BY DEF Finish, Fields
<1>2. Scheduled'
  BY <1>1 DEF Scheduled, Advancing
<1>3. Stimuli'
  BY <1>1 DEF Stimuli
<1>4. Fields'
  BY <1>1 DEF Fields
<1>5. Counters'
  BY <1>1 DEF Counters, Idle, Advancing
<1>6. Provisions'
  BY <1>1 DEF Provisions, ControlOK
<1>7. Fresh'
  BY <1>1 DEF Fresh, Idle, Advancing, InCallback
<1>8. Named'
  BY <1>1 DEF Named, Names, Connectors
<1>9. Readings'
  BY <1>1 DEF Readings
<1>. QED  BY <1>2, <1>3, <1>4, <1>5, <1>6, <1>7, <1>8, <1>9
(* Where the objects change, and no commit of theirs is lost.               *)
LEMMA TypedObjects ==
    ASSUME Typed, MutationAllowed, calls' \in {calls, calls + 1},
           DOMAIN objects' = DOMAIN objects,
           Provisions', Names \subseteq Names',
           DOMAIN objects'.committed \subseteq Names',
           \A name \in DOMAIN objects'.committed : IsBusValue(objects'.committed[name]),
           UNCHANGED <<circuit, kernel, session, boundary, trace, world>>
    PROVE  Typed'
<1>. USE DEF Typed
<1>1. Fields'
  BY DEF Fields
<1>2. Counters'
  BY DEF Counters, Idle, Advancing
<1>3. Scheduled'
  BY DEF Scheduled, Advancing
<1>4. Fresh'
  BY DEF Fresh, Idle, Advancing, InCallback
<1>5. Named'
  <2>1. /\ IsSequence(boundary.commits)
        /\ \A i \in DOMAIN boundary.commits :
              boundary.commits[i].connector \in Names /\ IsBusValue(boundary.commits[i].output)
    BY DEF Named
  <2>2. boundary' = boundary
    OBVIOUS
  <2>. QED  BY <2>1, <2>2 DEF Named
<1>6. Readings'
  BY DEF Readings
<1>7. Stimuli'
  BY DEF Stimuli
<1>. QED  BY <1>1, <1>2, <1>3, <1>4, <1>5, <1>6, <1>7

LEMMA TypedProvide ==
    ASSUME Typed, Provide
    PROVE  Typed'
<1>. USE DEF Typed
<1>1. PICK connector \in Connectors :
          \/ \E value \in MockedValues : Mock(connector, value)
          \/ \E behaviour \in Behaviours : Model(connector, behaviour)
  BY DEF Provide
<1>2. \E control :
          /\ ControlOK(control)
          /\ objects' = Provided(connector, control)
  <2>1. CASE \E value \in MockedValues : Mock(connector, value)
    <3>1. PICK value \in MockedValues : Mock(connector, value)
      BY <2>1
    <3>2. IsBusValue(value)
      BY MockedValuesAssumption
    <3>. QED  BY <3>1, <3>2 DEF Mock, ControlOK, ControlFields
  <2>2. CASE \E behaviour \in Behaviours : Model(connector, behaviour)
    <3>1. PICK behaviour \in Behaviours : Model(connector, behaviour)
      BY <2>2
    <3>2. IsBusValue(Known(ZeroBus))
      BY BusValues, SparseFacts
    <3>. QED  BY <3>1, <3>2 DEF Model, ControlOK, ControlFields
  <2>. QED  BY <1>1, <2>1, <2>2
<1>3. /\ MutationAllowed /\ calls' = calls + 1
      /\ UNCHANGED <<circuit, kernel, session, boundary, trace, world>>
  BY <1>1, Zenon DEF Mock, Model, Called
<1>4. PICK control : ControlOK(control) /\ objects' = Provided(connector, control)
  BY <1>2
<1>. DEFINE controls == Append(objects.controls, control)
            current == With(objects.current, connector.name, Len(objects.controls) + 1)
<1>5. /\ DOMAIN objects' = DOMAIN objects
      /\ objects'.controls = controls /\ objects'.current = current
      /\ objects'.adapted = objects.adapted /\ objects'.committed = objects.committed
  BY <1>4 DEF Provided, Fields
<1>6. /\ IsSequence(controls) /\ DOMAIN controls = 1 .. Len(objects.controls) + 1
      /\ DOMAIN objects.controls = 1 .. Len(objects.controls) /\ Len(objects.controls) \in Nat
      /\ \A i \in DOMAIN objects.controls : controls[i] = objects.controls[i]
      /\ controls[Len(objects.controls) + 1] = control
  <2>1. IsSequence(objects.controls)
    BY DEF Provisions
  <2>2. /\ IsSequence(controls) /\ Len(controls) = Len(objects.controls) + 1
        /\ \A i \in 1 .. Len(objects.controls) : controls[i] = objects.controls[i]
        /\ controls[Len(objects.controls) + 1] = control
    BY <2>1, AppendFacts
  <2>3. Len(objects.controls) \in Nat /\ DOMAIN objects.controls = 1 .. Len(objects.controls)
    BY <2>1, SequenceFacts
  <2>. HIDE DEF controls
  <2>4. DOMAIN controls = 1 .. Len(controls)
    BY <2>2, SequenceFacts
  <2>. QED  BY <2>2, <2>3, <2>4
<1>. HIDE DEF controls
<1>7. \A i \in DOMAIN controls : ControlOK(controls[i])
  <2>1. \A i \in DOMAIN objects.controls : ControlOK(objects.controls[i])
    BY DEF Provisions
  <2>2. \A i \in DOMAIN controls : i \in DOMAIN objects.controls \/ i = Len(objects.controls) + 1
    BY <1>6
  <2>. QED  BY <2>1, <2>2, <1>4, <1>6
<1>8. /\ \A name \in DOMAIN current : current[name] \in DOMAIN controls
  <2>1. /\ DOMAIN current = DOMAIN objects.current \cup {connector.name}
        /\ current[connector.name] = Len(objects.controls) + 1
        /\ \A k \in DOMAIN objects.current :
              k # connector.name => current[k] = objects.current[k]
    BY DEF With, Override
  <2>2. \A name \in DOMAIN objects.current : objects.current[name] \in DOMAIN objects.controls
    BY DEF Provisions
  <2>. HIDE DEF current
  <2>. QED  BY <2>1, <2>2, <1>6
<1>. HIDE DEF current
<1>9. Provisions'
  <2>1. circuit \in Circuits /\ objects.adapted \in Seq(Range(circuit.objects))
    BY DEF Provisions
  <2>. QED  BY <2>1, <1>3, <1>5, <1>6, <1>7, <1>8 DEF Provisions
<1>10. Names' = Names
  BY <1>5 DEF Names, Connectors
<1>. QED  BY <1>3, <1>5, <1>9, <1>10, TypedObjects DEF Named

LEMMA TypedControl ==
    ASSUME Typed, Control
    PROVE  Typed'
<1>. USE DEF Typed
<1>1. PICK control \in DOMAIN objects.controls :
          (\E value \in MockedValues : MockOutput(control, value)) \/ ClearProvider(control)
  BY DEF Control
<1>. DEFINE old == objects.controls[control]
<1>2. /\ MutationAllowed /\ calls' = calls + 1
      /\ UNCHANGED <<circuit, kernel, session, boundary, trace, world>>
  BY <1>1, Zenon DEF MockOutput, ClearProvider, Called
<1>3. /\ ControlOK(old)
      /\ \A i \in DOMAIN objects.controls : ControlOK(objects.controls[i])
      /\ IsSequence(objects.controls)
      /\ circuit \in Circuits /\ objects.adapted \in Seq(Range(circuit.objects))
      /\ \A name \in DOMAIN objects.current : objects.current[name] \in DOMAIN objects.controls
  BY DEF Provisions
<1>4. /\ DOMAIN objects' = DOMAIN objects
      /\ objects'.adapted = objects.adapted /\ objects'.committed = objects.committed
  BY <1>1, Zenon DEF MockOutput, ClearProvider, Fields
<1>5. Provisions'
  <2>1. CASE \E value \in MockedValues : MockOutput(control, value)
    <3>1. PICK value \in MockedValues : MockOutput(control, value)
      BY <2>1
    <3>. DEFINE new == [old EXCEPT !.value = value]
                controls == [objects.controls EXCEPT ![control] = new]
                current == With(objects.current, old.connector, control)
    <3>2. objects'.controls = controls /\ objects'.current = current
      BY <3>1 DEF MockOutput, Fields
    <3>3. ControlOK(new)
      <4>1. IsBusValue(value)
        BY MockedValuesAssumption
      <4>. HIDE DEF old
      <4>2. /\ DOMAIN new = ControlFields /\ new.kind = old.kind
            /\ new.behaviour = old.behaviour /\ new.value = value
        BY <1>3 DEF ControlOK, ControlFields
      <4>. HIDE DEF new
      <4>. QED  BY <4>1, <4>2, <1>3 DEF ControlOK
    <3>. HIDE DEF new
    <3>4. /\ controls = [i \in DOMAIN objects.controls |-> controls[i]]
          /\ DOMAIN controls = DOMAIN objects.controls
          /\ \A i \in DOMAIN controls : ControlOK(controls[i])
      BY <1>3, <3>3
    <3>5. DOMAIN current = DOMAIN objects.current \cup {old.connector}
          /\ \A name \in DOMAIN current : current[name] \in DOMAIN objects.controls
      BY <1>3 DEF With, Override
    <3>. HIDE DEF controls, current
    <3>6. IsSequence(controls)
      BY <1>3, <3>4, MappedFacts
    <3>. QED  BY <1>2, <1>3, <1>4, <3>2, <3>4, <3>5, <3>6, Zenon DEF Provisions
  <2>2. CASE ClearProvider(control)
    <3>1. /\ objects'.controls = objects.controls
          /\ objects'.current = Without(objects.current, old.connector)
      BY <2>2 DEF ClearProvider, Fields
    <3>2. \A name \in DOMAIN Without(objects.current, old.connector) :
              Without(objects.current, old.connector)[name] \in DOMAIN objects.controls
      BY <1>3 DEF Without
    <3>. QED  BY <1>2, <1>3, <1>4, <3>1, <3>2 DEF Provisions
  <2>. QED  BY <1>1, <2>1, <2>2
<1>6. Names' = Names
  BY <1>4 DEF Names, Connectors
<1>. QED  BY <1>2, <1>4, <1>5, <1>6, TypedObjects DEF Named

LEMMA AdaptedFacts ==
    ASSUME Typed, NEW object \in Range(circuit.objects), AdaptObject(object)
    PROVE  /\ MutationAllowed /\ kernel.tick = 0 /\ calls' = calls
           /\ UNCHANGED <<circuit, kernel, session, boundary, trace, world>>
           /\ DOMAIN objects' = DOMAIN objects
           /\ objects'.adapted = Append(objects.adapted, object)
           /\ objects'.controls = objects.controls /\ objects'.current = objects.current
           /\ Connectors' = Connectors \cup Range(object.connectors)
           /\ Names' = Names \cup {c.name : c \in Range(object.connectors)}
           /\ \A c \in Range(object.connectors) : c.name \notin Names
           /\ DOMAIN objects.committed \subseteq DOMAIN objects'.committed
           /\ DOMAIN objects'.committed \subseteq Names'
           /\ \A name \in DOMAIN objects'.committed :
                 objects'.committed[name] =
                     IF name \in Names THEN objects.committed[name] ELSE Known(ZeroBus)
           /\ \A name \in DOMAIN objects'.committed \cap Names : name \in DOMAIN objects.committed
<1>. USE DEF Typed
<1>. DEFINE fresh == {d.name : d \in {e \in ToSet(object.connectors) : e.outputs # <<>>}}
            committed == Override([c \in fresh |-> Known(ZeroBus)], objects.committed)
<1>1. /\ DOMAIN objects' = DOMAIN objects
      /\ objects'.adapted = Append(objects.adapted, object)
      /\ objects'.controls = objects.controls /\ objects'.current = objects.current
      /\ objects'.committed = committed
      /\ MutationAllowed /\ kernel.tick = 0 /\ calls' = calls
      /\ UNCHANGED <<circuit, kernel, session, boundary, trace, world>>
      /\ object \notin ToSet(objects.adapted)
  BY DEF AdaptObject, Fields
<1>2. /\ IsSequence(objects.adapted)
      /\ \A j \in DOMAIN objects.adapted : objects.adapted[j] \in Range(circuit.objects)
  <2>1. objects.adapted \in Seq(Range(circuit.objects))
    BY DEF Provisions
  <2>. QED  BY <2>1, ListIsSequence
<1>. DEFINE adapted == Append(objects.adapted, object)
<1>3. /\ IsSequence(adapted) /\ Len(adapted) = Len(objects.adapted) + 1
      /\ \A i \in 1 .. Len(objects.adapted) : adapted[i] = objects.adapted[i]
      /\ adapted[Len(objects.adapted) + 1] = object
  BY <1>2, AppendFacts
<1>4. /\ Len(objects.adapted) \in Nat /\ DOMAIN objects.adapted = 1 .. Len(objects.adapted)
  BY <1>2, SequenceFacts
<1>. HIDE DEF adapted
<1>5. DOMAIN adapted = 1 .. Len(objects.adapted) + 1
  BY <1>3, SequenceFacts
<1>6. Connectors' = UNION {Range(adapted[i].connectors) : i \in DOMAIN adapted}
  BY <1>1 DEF Connectors, ToSet, Range, adapted
<1>7. Connectors = UNION {Range(objects.adapted[i].connectors) : i \in DOMAIN objects.adapted}
  BY DEF Connectors, ToSet, Range
<1>8. Connectors' = Connectors \cup Range(object.connectors)
  <2>1. \A i \in DOMAIN adapted : i \in DOMAIN objects.adapted \/ i = Len(objects.adapted) + 1
    BY <1>4, <1>5
  <2>2. DOMAIN objects.adapted \subseteq DOMAIN adapted /\ Len(objects.adapted) + 1 \in DOMAIN adapted
    BY <1>4, <1>5
  <2>3. \A i \in DOMAIN objects.adapted : adapted[i] = objects.adapted[i]
    BY <1>3, <1>4
  <2>4. adapted[Len(objects.adapted) + 1] = object
    BY <1>3
  <2>5. Connectors' \subseteq Connectors \cup Range(object.connectors)
    BY <1>6, <1>7, <2>1, <2>3, <2>4
  <2>6. Connectors \subseteq Connectors'
    BY <1>6, <1>7, <2>2, <2>3
  <2>7. Range(object.connectors) \subseteq Connectors'
    BY <1>6, <2>2, <2>4
  <2>. QED  BY <2>5, <2>6, <2>7
<1>9. Names' = Names \cup {c.name : c \in Range(object.connectors)}
  BY <1>8 DEF Names
<1>10. ASSUME NEW c \in Range(object.connectors)
       PROVE  c.name \notin Names
  <2>. SUFFICES ASSUME c.name \in Names PROVE FALSE
    OBVIOUS
  <2>1. PICK d \in Connectors : d.name = c.name
    BY DEF Names
  <2>2. PICK i \in DOMAIN objects.adapted : d \in Range(objects.adapted[i].connectors)
    BY <1>7, <2>1
  <2>. DEFINE other == objects.adapted[i]
  <2>3. other \in Range(circuit.objects)
    BY <1>2, <2>2
  <2>4. PICK k \in DOMAIN object.connectors : c = object.connectors[k]
    BY DEF Range
  <2>5. PICK l \in DOMAIN other.connectors : d = other.connectors[l]
    BY <2>2 DEF Range
  <2>6. \A x, y \in Range(circuit.objects) :
            \A m \in DOMAIN x.connectors, n \in DOMAIN y.connectors :
                x.connectors[m].name = y.connectors[n].name => x = y /\ m = n
    BY CircuitsAssumption DEF Provisions
  <2>7. object = other
    BY <2>1, <2>3, <2>4, <2>5, <2>6
  <2>. QED  BY <1>1, <2>2, <2>7 DEF ToSet
<1>11. fresh \subseteq {c.name : c \in Range(object.connectors)}
  BY DEF ToSet, Range
<1>. HIDE DEF fresh
<1>12. /\ DOMAIN committed = fresh \cup DOMAIN objects.committed
       /\ \A name \in fresh : committed[name] = Known(ZeroBus)
       /\ \A name \in DOMAIN objects.committed \ fresh :
             committed[name] = objects.committed[name]
  BY DEF Override
<1>13. DOMAIN objects.committed \subseteq Names /\ fresh \cap Names = {}
  BY <1>10, <1>11 DEF Named
<1>. HIDE DEF committed
<1>14. /\ DOMAIN objects.committed \subseteq DOMAIN committed
       /\ DOMAIN committed \subseteq Names'
       /\ \A name \in DOMAIN committed :
             committed[name] = IF name \in Names THEN objects.committed[name] ELSE Known(ZeroBus)
       /\ \A name \in DOMAIN committed \cap Names : name \in DOMAIN objects.committed
  BY <1>9, <1>11, <1>12, <1>13
<1>. QED  BY <1>1, <1>8, <1>9, <1>10, <1>14 DEF adapted

LEMMA AdaptPicked ==
    ASSUME Typed, Adapt
    PROVE  \E object \in Range(circuit.objects) : AdaptObject(object)
BY DEF Adapt, Range

LEMMA TypedAdapt ==
    ASSUME Typed, Adapt
    PROVE  Typed'
<1>. USE DEF Typed
<1>1. PICK object \in Range(circuit.objects) : AdaptObject(object)
  BY AdaptPicked
<1>2. /\ MutationAllowed /\ kernel.tick = 0 /\ calls' = calls
      /\ UNCHANGED <<circuit, kernel, session, boundary, trace, world>>
      /\ DOMAIN objects' = DOMAIN objects
      /\ objects'.adapted = Append(objects.adapted, object)
      /\ objects'.controls = objects.controls /\ objects'.current = objects.current
      /\ Names \subseteq Names'
      /\ DOMAIN objects'.committed \subseteq Names'
      /\ \A name \in DOMAIN objects'.committed :
            objects'.committed[name] =
                IF name \in Names THEN objects.committed[name] ELSE Known(ZeroBus)
      /\ \A name \in DOMAIN objects'.committed \cap Names : name \in DOMAIN objects.committed
  BY <1>1, AdaptedFacts
<1>3. \A name \in DOMAIN objects'.committed : IsBusValue(objects'.committed[name])
  BY <1>2, BusValues, SparseFacts DEF Named
<1>4. Provisions'
  <2>1. Append(objects.adapted, object) \in Seq(Range(circuit.objects))
    BY DEF Provisions
  <2>. QED  BY <1>2, <2>1 DEF Provisions
<1>. QED  BY <1>2, <1>3, <1>4, TypedObjects

LEMMA TypedObserve ==
    ASSUME Typed, Observe
    PROVE  Typed'
<1>. USE DEF Typed
<1>1. PICK target \in Targets : Trace(target)
  BY DEF Observe
<1>2. /\ MutationAllowed /\ calls' = calls + 1
      /\ UNCHANGED <<circuit, kernel, session, boundary, objects, world>>
      /\ DOMAIN trace' = DOMAIN trace
  BY <1>1 DEF Trace, Called, Fields
<1>3. Scheduled'
  BY <1>2 DEF Scheduled, Advancing
<1>4. Stimuli'
  BY <1>2 DEF Stimuli
<1>. QED  BY <1>2, <1>3, <1>4, TypedSession
-----------------------------------------------------------------------------
(* Boundaries keep the types.                                               *)

LEMMA BeginFacts ==
    ASSUME Scheduled, NEW call, NEW left, NEW tick, NEW networks, NEW controls, NEW committed,
           call # "none",
           Begin(call, left, tick, session.scheduled, networks, controls, committed)
    PROVE  /\ DOMAIN boundary' = {"call", "callbacks", "next", "left", "previous",
                                  "contributions", "commits", "settled"}
           /\ boundary'.call = call /\ boundary'.next = 1 /\ boundary'.settled = 0
           /\ boundary'.left = left /\ boundary'.previous = networks
           /\ boundary'.contributions = NoNetworks /\ boundary'.commits = <<>>
           /\ boundary'.callbacks \in Nat /\ Advancing'
           /\ begun'.networks = networks /\ begun'.committed = committed
           /\ begun'.states = [i \in DOMAIN controls |-> controls[i].state]
<1>1. ValueAt(session.scheduled, tick + 1, 0) \in Nat
  BY DEF Scheduled, ValueAt
<1>. QED  BY <1>1 DEF Begin, NoBoundary, Advancing

LEMMA EmptyFacts ==
    /\ IsSequence(<<>>) /\ DOMAIN <<>> = {} /\ Len(<<>>) = 0
    /\ Sequences(NoNetworks)
<1>1. <<>> \in Seq({}) /\ DOMAIN <<>> = {} /\ Len(<<>>) = 0
  OBVIOUS
<1>2. IsSequence(<<>>)
  BY <1>1, ListIsSequence, Zenon
<1>. QED  BY <1>1, <1>2, SparseFacts DEF Sequences

LEMMA AdvanceFacts ==
    ASSUME Typed, Advances
    PROVE  \E call, count :
              /\ call \in {"tick", "settle"}
              /\ MutationAllowed /\ Idle /\ calls' = calls + 1
              /\ Begin(call, count, kernel.tick, session.scheduled, kernel.networks,
                       objects.controls, objects.committed)
              /\ session' = [session EXCEPT !.scheduled = Without(@, kernel.tick + 1)]
              /\ UNCHANGED <<circuit, kernel, objects, trace, world, history>>
BY DEF Advances, Tick, Settle, Advance, Called

LEMMA TypedAdvances ==
    ASSUME Typed, Advances
    PROVE  Typed'
<1>. USE DEF Typed
<1>1. PICK call, count :
          /\ call \in {"tick", "settle"}
          /\ MutationAllowed /\ Idle /\ calls' = calls + 1
          /\ Begin(call, count, kernel.tick, session.scheduled, kernel.networks,
                   objects.controls, objects.committed)
          /\ session' = [session EXCEPT !.scheduled = Without(@, kernel.tick + 1)]
          /\ UNCHANGED <<circuit, kernel, objects, trace, world, history>>
  BY AdvanceFacts
<1>2. /\ DOMAIN boundary' = {"call", "callbacks", "next", "left", "previous",
                             "contributions", "commits", "settled"}
      /\ boundary'.next = 1 /\ boundary'.settled = 0
      /\ boundary'.contributions = NoNetworks /\ boundary'.commits = <<>>
      /\ boundary'.callbacks \in Nat /\ Advancing'
  BY <1>1, BeginFacts, Zenon
<1>3. /\ DOMAIN session' = DOMAIN session /\ session'.failed = 0
      /\ session'.scheduled = Without(session.scheduled, kernel.tick + 1)
      /\ session'.drives = session.drives /\ session'.pulses = session.pulses
  BY <1>1 DEF Fields, MutationAllowed
<1>4. boundary.next = 1 /\ world.sums = NoNetworks
  BY <1>1 DEF Fresh
<1>5. Fields'
  BY <1>1, <1>2, <1>3 DEF Fields
<1>6. Counters'
  BY <1>1, <1>2, <1>3 DEF Counters
<1>7. Scheduled'
  <2>1. /\ DOMAIN session'.scheduled = DOMAIN session.scheduled \ {kernel.tick + 1}
        /\ \A k \in DOMAIN session'.scheduled : session'.scheduled[k] = session.scheduled[k]
    BY <1>3 DEF Without
  <2>2. \A k \in DOMAIN session.scheduled :
            k \in Int /\ session.scheduled[k] \in Nat /\ k > kernel.tick
    BY <1>1 DEF Scheduled, Idle
  <2>3. kernel.tick \in Nat /\ kernel' = kernel
    BY <1>1 DEF Counters
  <2>. QED  BY <1>2, <2>1, <2>2, <2>3 DEF Scheduled
<1>8. Provisions'
  BY <1>1 DEF Provisions
<1>9. Stimuli'
  BY <1>3 DEF Stimuli
<1>10. Fresh'
  BY <1>1, <1>2, <1>4 DEF Fresh, Idle
<1>11. Named'
  BY <1>1, <1>2, EmptyFacts DEF Named, Names, Connectors
<1>12. Readings'
  BY <1>1, <1>2, EmptyFacts DEF Readings
<1>. QED  BY <1>5, <1>6, <1>7, <1>8, <1>9, <1>10, <1>11, <1>12

LEMMA TypedReturns ==
    ASSUME Typed, CallbackReturns
    PROVE  Typed'
<1>. USE DEF Typed
<1>1. /\ DOMAIN boundary' = DOMAIN boundary
      /\ boundary'.call = boundary.call /\ boundary'.next = boundary.next
      /\ boundary'.settled = boundary.settled /\ boundary'.commits = boundary.commits
      /\ boundary'.contributions = boundary.contributions
      /\ boundary'.callbacks = boundary.callbacks - 1
      /\ boundary.callbacks > 0 /\ Advancing
      /\ UNCHANGED <<circuit, kernel, session, objects, trace, world, calls, begun, history>>
  BY DEF CallbackReturns, Fields, InCallback
<1>2. boundary.next = 1
  BY <1>1 DEF Fresh, InCallback
<1>3. Fields'
  BY <1>1 DEF Fields
<1>4. Counters'
  BY <1>1 DEF Counters, Idle, Advancing
<1>5. Scheduled'
  BY <1>1 DEF Scheduled, Advancing
<1>6. Provisions'
  BY <1>1 DEF Provisions
<1>7. Stimuli'
  BY <1>1 DEF Stimuli
<1>8. Fresh'
  BY <1>1, <1>2 DEF Fresh
<1>9. Named'
  BY <1>1 DEF Named, Names, Connectors
<1>10. Readings'
  BY <1>1 DEF Readings
<1>. QED  BY <1>3, <1>4, <1>5, <1>6, <1>7, <1>8, <1>9, <1>10

LEMMA TypedFails ==
    ASSUME Typed, Advancing, FailBoundary
    PROVE  Typed'
<1>. USE DEF Typed
<1>1. /\ boundary' = NoBoundary
      /\ DOMAIN session' = DOMAIN session /\ session'.failed = kernel.tick + 1
      /\ session'.scheduled = session.scheduled
      /\ session'.drives = session.drives /\ session'.pulses = session.pulses
      /\ DOMAIN world' = DOMAIN world /\ world'.sums = NoNetworks
      /\ UNCHANGED <<circuit, kernel, objects, trace, calls, begun, history>>
  BY DEF FailBoundary, Fields
<1>2. Fields'
  BY <1>1 DEF Fields, NoBoundary
<1>3. Counters'
  BY <1>1 DEF Counters, Idle, Advancing, NoBoundary
<1>4. Scheduled'
  <2>1. \A k \in DOMAIN session.scheduled :
            k \in Int /\ session.scheduled[k] \in Nat /\ k > kernel.tick + 1
    BY DEF Scheduled
  <2>2. kernel.tick \in Nat /\ ~Advancing'
    BY <1>1 DEF Counters, Advancing, NoBoundary
  <2>. QED  BY <1>1, <2>1, <2>2 DEF Scheduled
<1>5. Provisions'
  BY <1>1 DEF Provisions
<1>6. Stimuli'
  BY <1>1 DEF Stimuli
<1>7. Fresh'
  BY <1>1 DEF Fresh, NoBoundary
<1>8. Named'
  BY <1>1, EmptyFacts DEF Named, Names, Connectors, NoBoundary
<1>9. Readings'
  BY <1>1, EmptyFacts DEF Readings, NoBoundary
<1>. QED  BY <1>2, <1>3, <1>4, <1>5, <1>6, <1>7, <1>8, <1>9

LEMMA EvaluateFacts ==
    ASSUME Typed, EvaluateDevice
    PROVE  /\ Advancing /\ boundary.callbacks = 0
           /\ boundary.next \in 1 .. Len(Devices)
           /\ \/ DeviceAssumption(EvaluatedDevice)
              \/ EvaluatedDevice = Source
              \/ IsObject(EvaluatedDevice)
           /\ DOMAIN boundary' = DOMAIN boundary
           /\ boundary'.call = boundary.call /\ boundary'.next = boundary.next + 1
           /\ boundary'.settled = boundary.settled /\ boundary'.left = boundary.left
           /\ boundary'.callbacks = boundary.callbacks /\ boundary'.previous = boundary.previous
           /\ boundary'.contributions = Contributed(boundary.contributions, EvaluatedDevice)
           /\ boundary'.commits = boundary.commits \o Commits(EvaluatedDevice)
           /\ DOMAIN world' = DOMAIN world /\ world'.networks = world.networks
           /\ UNCHANGED <<circuit, kernel, session, objects, trace, calls, begun, history>>
<1>. USE DEF Typed
<1>1. IsSequence(Devices)
  BY DeviceFacts
<1>2. boundary.next \in 1 .. Len(Devices)
  <2>1. Len(Devices) \in Nat
    BY <1>1, SequenceFacts
  <2>. QED  BY <2>1 DEF EvaluateDevice, Fresh
<1>3. \/ DeviceAssumption(EvaluatedDevice)
      \/ EvaluatedDevice = Source
      \/ IsObject(EvaluatedDevice)
  BY <1>2, DeviceFacts DEF EvaluatedDevice
<1>4. /\ Advancing /\ boundary.callbacks = 0
      /\ boundary' = [boundary EXCEPT
             !.next = @ + 1,
             !.contributions = Contributed(@, EvaluatedDevice),
             !.commits = @ \o Commits(EvaluatedDevice)]
      /\ \E sums : world' = [world EXCEPT !.sums = sums]
      /\ UNCHANGED <<circuit, kernel, session, objects, trace, calls, begun, history>>
  BY Zenon DEF EvaluateDevice, Evaluating
<1>5. DOMAIN world' = DOMAIN world /\ world'.networks = world.networks
  BY <1>4 DEF Fields
<1>6. /\ DOMAIN boundary' = DOMAIN boundary
      /\ boundary'.call = boundary.call /\ boundary'.next = boundary.next + 1
      /\ boundary'.settled = boundary.settled /\ boundary'.left = boundary.left
      /\ boundary'.callbacks = boundary.callbacks /\ boundary'.previous = boundary.previous
      /\ boundary'.contributions = Contributed(boundary.contributions, EvaluatedDevice)
      /\ boundary'.commits = boundary.commits \o Commits(EvaluatedDevice)
  BY <1>4 DEF Fields
<1>. QED  BY <1>2, <1>3, <1>4, <1>5, <1>6

LEMMA TypedEvaluates ==
    ASSUME Typed, EvaluateDevice
    PROVE  Typed'
<1>. USE DEF Typed
<1>. DEFINE device == EvaluatedDevice
<1>1. /\ Advancing /\ boundary.callbacks = 0
      /\ boundary.next \in Nat \ {0}
      /\ DeviceAssumption(device) \/ device = Source \/ IsObject(device)
      /\ DOMAIN boundary' = DOMAIN boundary
      /\ boundary'.call = boundary.call /\ boundary'.next = boundary.next + 1
      /\ boundary'.settled = boundary.settled /\ boundary'.callbacks = boundary.callbacks
      /\ boundary'.contributions = Contributed(boundary.contributions, device)
      /\ boundary'.commits = boundary.commits \o Commits(device)
      /\ DOMAIN world' = DOMAIN world
      /\ UNCHANGED <<circuit, kernel, session, objects, trace, calls, begun, history>>
  BY EvaluateFacts DEF Fresh
<1>. HIDE DEF device
<1>2. Sequences(boundary'.contributions)
  BY <1>1, ContributedFacts DEF Readings
<1>3. /\ IsSequence(boundary'.commits)
      /\ \A i \in DOMAIN boundary'.commits :
            boundary'.commits[i].connector \in Names /\ IsBusValue(boundary'.commits[i].output)
  <2>. DEFINE s == boundary.commits
              t == Commits(device)
  <2>1. /\ IsSequence(s) /\ IsSequence(t)
        /\ \A i \in DOMAIN s : s[i].connector \in Names /\ IsBusValue(s[i].output)
        /\ \A i \in DOMAIN t : t[i].connector \in Names /\ IsBusValue(t[i].output)
    BY <1>1, CommitsFacts DEF Named
  <2>. HIDE DEF s, t
  <2>2. IsSequence(s \o t)
    BY <2>1, ConcatFacts
  <2>3. DOMAIN (s \o t) = 1 .. Len(s \o t) /\ DOMAIN s = 1 .. Len(s) /\ DOMAIN t = 1 .. Len(t)
    BY <2>1, <2>2, SequenceFacts
  <2>4. \A i \in DOMAIN (s \o t) :
            (\E j \in DOMAIN s : (s \o t)[i] = s[j]) \/ (\E j \in DOMAIN t : (s \o t)[i] = t[j])
    BY <2>1, <2>2, ConcatMembers
  <2>5. \A i \in DOMAIN (s \o t) :
            (s \o t)[i].connector \in Names /\ IsBusValue((s \o t)[i].output)
    <3>. TAKE i \in DOMAIN (s \o t)
    <3>1. CASE \E j \in DOMAIN s : (s \o t)[i] = s[j]
      <4>1. PICK j \in DOMAIN s : (s \o t)[i] = s[j]
        BY <3>1
      <4>. QED  BY <2>1, <4>1
    <3>2. CASE \E j \in DOMAIN t : (s \o t)[i] = t[j]
      <4>1. PICK j \in DOMAIN t : (s \o t)[i] = t[j]
        BY <3>2
      <4>. QED  BY <2>1, <4>1
    <3>. QED  BY <2>4, <3>1, <3>2
  <2>. QED  BY <1>1, <2>2, <2>5 DEF s, t
<1>4. Fields'
  BY <1>1 DEF Fields
<1>5. Counters'
  BY <1>1 DEF Counters, Idle, Advancing
<1>6. Scheduled'
  BY <1>1 DEF Scheduled, Advancing
<1>7. Provisions'
  BY <1>1 DEF Provisions
<1>8. Stimuli'
  BY <1>1 DEF Stimuli
<1>9. Fresh'
  BY <1>1 DEF Fresh, Idle, InCallback, Advancing
<1>10. Named'
  BY <1>1, <1>3, Zenon DEF Named, Names, Connectors
<1>11. Readings'
  BY <1>1, <1>2 DEF Readings
<1>. QED  BY <1>4, <1>5, <1>6, <1>7, <1>8, <1>9, <1>10, <1>11
(* The networks and objects that a boundary commits.                        *)
NewNetworks == Aggregated(boundary.contributions)
NewObjects == Committed(objects, boundary.commits)

LEMMA CommitBoundaryFacts ==
    ASSUME Typed, CommitBoundary
    PROVE  /\ Advancing /\ boundary.callbacks = 0 /\ boundary.next > Len(Devices)
           /\ After(NewObjects) /\ objects' = NewObjects
           /\ \A n \in DOMAIN NewNetworks : IsBusValue(NewNetworks[n])
           /\ kernel' = [tick |-> kernel.tick + 1, networks |-> NewNetworks]
           /\ world' = [networks |-> world.sums, sums |-> NoNetworks]
           /\ trace' = Recorded(NewNetworks, NewObjects.committed, kernel.tick + 1)
           /\ history' = [t \in DOMAIN history |->
                 Append(history[t], TargetValue(t, NewNetworks, NewObjects.committed))]
           /\ UNCHANGED <<circuit, calls>>
           /\ DOMAIN session' = DOMAIN session /\ session'.failed = session.failed
           /\ session'.pulses = NoNetworks /\ session'.drives = session.drives
           /\ Names' = Names /\ Devices' = Devices /\ Connectors' = Connectors
           /\ \/ /\ Begin(boundary.call, boundary.left - 1, kernel.tick + 1, session.scheduled,
                          NewNetworks, NewObjects.controls, NewObjects.committed)
                 /\ session'.scheduled = Without(session.scheduled, kernel.tick + 2)
              \/ /\ boundary' = [NoBoundary EXCEPT !.settled =
                                    IF SettledNow(NewNetworks) THEN calls ELSE 0]
                 /\ session'.scheduled = session.scheduled
                 /\ UNCHANGED begun
<1>. USE DEF Typed
<1>1. /\ Advancing /\ boundary.callbacks = 0 /\ boundary.next > Len(Devices)
      /\ CommitAll(kernel.tick + 1, NewNetworks, NewObjects)
      /\ world' = [networks |-> world.sums, sums |-> NoNetworks]
      /\ UNCHANGED <<circuit, calls>>
  BY DEF CommitBoundary, Evaluating, NewNetworks, NewObjects
<1>2. After(NewObjects)
  BY CommittedFacts DEF NewObjects
<1>3. /\ kernel' = [tick |-> kernel.tick + 1, networks |-> NewNetworks]
      /\ objects' = NewObjects
      /\ trace' = Recorded(NewNetworks, NewObjects.committed, kernel.tick + 1)
      /\ history' = [t \in DOMAIN history |->
             Append(history[t], TargetValue(t, NewNetworks, NewObjects.committed))]
      /\ Continue(kernel.tick + 1, NewNetworks, NewObjects)
  BY <1>1 DEF CommitAll
<1>4. /\ DOMAIN session' = DOMAIN session /\ session'.failed = session.failed
      /\ session'.pulses = NoNetworks /\ session'.drives = session.drives
      /\ \/ /\ Begin(boundary.call, boundary.left - 1, kernel.tick + 1, session.scheduled,
                     NewNetworks, NewObjects.controls, NewObjects.committed)
            /\ session'.scheduled = Without(session.scheduled, kernel.tick + 2)
         \/ /\ boundary' = [NoBoundary EXCEPT !.settled =
                               IF SettledNow(NewNetworks) THEN calls ELSE 0]
            /\ session'.scheduled = session.scheduled
            /\ UNCHANGED begun
  <2>1. (kernel.tick + 1) + 1 = kernel.tick + 2
    BY DEF Counters
  <2>2. CASE GoesOn(NewNetworks)
    <3>1. /\ Begin(boundary.call, boundary.left - 1, kernel.tick + 1, session.scheduled,
                   NewNetworks, NewObjects.controls, NewObjects.committed)
          /\ session' = [session EXCEPT !.pulses = NoNetworks,
                             !.scheduled = Without(@, (kernel.tick + 1) + 1)]
      BY <1>3, <2>2 DEF Continue
    <3>. QED  BY <2>1, <3>1 DEF Fields
  <2>3. CASE ~GoesOn(NewNetworks)
    <3>1. /\ boundary' = [NoBoundary EXCEPT !.settled =
                             IF SettledNow(NewNetworks) THEN calls ELSE 0]
          /\ session' = [session EXCEPT !.pulses = NoNetworks]
          /\ UNCHANGED begun
      BY <1>3, <2>3 DEF Continue
    <3>. QED  BY <3>1 DEF Fields
  <2>. QED  BY <2>2, <2>3
<1>5. \A n \in DOMAIN NewNetworks : IsBusValue(NewNetworks[n])
  BY AggregatedFacts DEF NewNetworks, Aggregated, Readings, Sequences
<1>6. objects'.adapted = objects.adapted
  BY <1>2, <1>3 DEF After
<1>7. Names' = Names /\ Connectors' = Connectors
  BY <1>6 DEF Names, Connectors
<1>8. Devices' = Devices
  BY <1>1, <1>6 DEF Devices
<1>. QED  BY <1>1, <1>2, <1>3, <1>4, <1>5, <1>7, <1>8

LEMMA TypedCommits ==
    ASSUME Typed, CommitBoundary
    PROVE  Typed'
<1>. USE DEF Typed
<1>1. /\ Advancing /\ boundary.callbacks = 0
      /\ After(NewObjects) /\ objects' = NewObjects
      /\ \A n \in DOMAIN NewNetworks : IsBusValue(NewNetworks[n])
      /\ kernel' = [tick |-> kernel.tick + 1, networks |-> NewNetworks]
      /\ world' = [networks |-> world.sums, sums |-> NoNetworks]
      /\ trace' = Recorded(NewNetworks, NewObjects.committed, kernel.tick + 1)
      /\ UNCHANGED <<circuit, calls>>
      /\ DOMAIN session' = DOMAIN session /\ session'.failed = session.failed
      /\ session'.pulses = NoNetworks /\ session'.drives = session.drives
      /\ Names' = Names
  BY CommitBoundaryFacts
<1>2. \/ /\ Begin(boundary.call, boundary.left - 1, kernel.tick + 1, session.scheduled,
                  NewNetworks, NewObjects.controls, NewObjects.committed)
         /\ session'.scheduled = Without(session.scheduled, kernel.tick + 2)
      \/ /\ boundary' = [NoBoundary EXCEPT !.settled =
                            IF SettledNow(NewNetworks) THEN calls ELSE 0]
         /\ session'.scheduled = session.scheduled
         /\ UNCHANGED begun
  BY CommitBoundaryFacts
<1>3. /\ DOMAIN boundary' = {"call", "callbacks", "next", "left", "previous",
                             "contributions", "commits", "settled"}
      /\ boundary'.next = 1 /\ boundary'.settled \in {0, calls}
      /\ boundary'.contributions = NoNetworks /\ boundary'.commits = <<>>
      /\ boundary'.callbacks \in Nat
      /\ boundary'.settled # 0 => Idle'
      /\ \A k \in DOMAIN session'.scheduled :
            /\ k \in DOMAIN session.scheduled
            /\ session'.scheduled[k] = session.scheduled[k]
            /\ Advancing' => k # kernel.tick + 2
  <2>1. CASE /\ Begin(boundary.call, boundary.left - 1, kernel.tick + 1, session.scheduled,
                      NewNetworks, NewObjects.controls, NewObjects.committed)
             /\ session'.scheduled = Without(session.scheduled, kernel.tick + 2)
    <3>1. boundary.call # "none"
      BY <1>1 DEF Advancing
    <3>. QED  BY <2>1, <3>1, BeginFacts, Zenon DEF Without
  <2>2. CASE /\ boundary' = [NoBoundary EXCEPT !.settled =
                                IF SettledNow(NewNetworks) THEN calls ELSE 0]
             /\ session'.scheduled = session.scheduled
    BY <2>2 DEF NoBoundary, Idle, Advancing
  <2>. QED  BY <1>2, <2>1, <2>2
<1>4. kernel.tick \in Nat /\ kernel'.tick = kernel.tick + 1 /\ kernel'.networks = NewNetworks
  BY <1>1 DEF Counters
<1>5. Fields'
  <2>1. kernel' = [tick |-> kernel'.tick, networks |-> kernel'.networks]
    BY <1>1, <1>4
  <2>. QED  BY <1>1, <1>3, <2>1 DEF Fields, After, Recorded
<1>6. Counters'
  <2>1. session.failed = 0
    BY <1>1 DEF Counters, Idle
  <2>. QED  BY <1>1, <1>3, <1>4, <2>1 DEF Counters
<1>7. Scheduled'
  <2>1. \A k \in DOMAIN session.scheduled :
            k \in Int /\ session.scheduled[k] \in Nat /\ k > kernel.tick + 1
    BY <1>1 DEF Scheduled
  <2>. QED  BY <1>3, <1>4, <2>1 DEF Scheduled
<1>8. Provisions'
  <2>1. /\ circuit \in Circuits /\ objects.adapted \in Seq(Range(circuit.objects))
        /\ \A name \in DOMAIN objects.current : objects.current[name] \in DOMAIN objects.controls
    BY DEF Provisions
  <2>. QED  BY <1>1, <2>1 DEF Provisions, After
<1>9. Stimuli'
  <2>1. /\ IsFiniteSet(DOMAIN session.drives)
        /\ \A n \in DOMAIN session.drives : IsSparse(session.drives[n])
    BY DEF Stimuli
  <2>. QED  BY <1>1, <2>1, SparseFacts, FS_EmptySet DEF Stimuli
<1>10. Fresh'
  BY <1>1, <1>3 DEF Fresh
<1>11. Named'
  BY <1>1, <1>3, EmptyFacts DEF Named, After
<1>12. Readings'
  BY <1>1, <1>3, <1>4, EmptyFacts DEF Readings
<1>. QED  BY <1>5, <1>6, <1>7, <1>8, <1>9, <1>10, <1>11, <1>12

LEMMA TypedStep ==
    ASSUME Typed, [Next]_vars
    PROVE  Typed'
<1>1. CASE Stimulate
  BY <1>1, TypedStimulate
<1>2. CASE Provide
  BY <1>2, TypedProvide
<1>3. CASE Control
  BY <1>3, TypedControl
<1>4. CASE Observe
  BY <1>4, TypedObserve
<1>5. CASE Adapt
  BY <1>5, TypedAdapt
<1>6. CASE Schedule
  BY <1>6, TypedSchedule
<1>7. CASE Advances
  BY <1>7, TypedAdvances
<1>8. CASE CallbackReturns
  BY <1>8, TypedReturns
<1>9. CASE CallbackThrows \/ DeviceThrows
  <2>1. Advancing /\ FailBoundary
    BY <1>9 DEF CallbackThrows, InCallback, DeviceThrows, Evaluating
  <2>. QED  BY <2>1, TypedFails
<1>10. CASE EvaluateDevice
  BY <1>10, TypedEvaluates
<1>11. CASE CommitBoundary
  BY <1>11, TypedCommits
<1>12. CASE Finish
  BY <1>12, TypedFinish
<1>13. CASE UNCHANGED vars
  BY <1>13 DEF Typed, Fields, Counters, Scheduled, Provisions, Stimuli, Fresh, Named, Readings,
               vars, Idle, Advancing, InCallback, Names, Connectors
<1>. QED  BY <1>1, <1>2, <1>3, <1>4, <1>5, <1>6, <1>7, <1>8, <1>9, <1>10, <1>11, <1>12, <1>13
         DEF Next, Boundary

LEMMA AlwaysTyped == Spec => []Typed
<1>1. Init => Typed
  BY TypedInit
<1>2. Typed /\ [Next]_vars => Typed'
  BY TypedStep
<1>. QED  BY <1>1, <1>2, PTL DEF Spec

(* No callback of a test is left behind, whatever bounds and circuits: what *)
(* is still scheduled is for a boundary that has not begun.                 *)
THEOREM CallbacksAreNeverMissed == Spec => []NoCallbackIsMissed
<1>1. Typed => NoCallbackIsMissed
  BY DEF Typed, Scheduled, NoCallbackIsMissed
<1>. QED  BY <1>1, AlwaysTyped, PTL
-----------------------------------------------------------------------------
(* What a boundary began from.                                              *)

LEMMA StartedSame ==
    ASSUME Started, UNCHANGED <<kernel, begun, objects>>,
           boundary'.call = boundary.call, boundary'.previous = boundary.previous,
           session'.failed = session.failed
    PROVE  Started'
BY DEF Started, Advancing

LEMMA StartedObjects ==
    ASSUME Started, UNCHANGED <<kernel, begun, boundary, session>>,
           \A name \in DOMAIN objects.committed :
               /\ name \in DOMAIN objects'.committed
               /\ objects'.committed[name] = objects.committed[name],
           \A i \in DOMAIN objects.controls :
               /\ i \in DOMAIN objects'.controls
               /\ objects'.controls[i].state = objects.controls[i].state
    PROVE  Started'
BY DEF Started, Advancing

LEMMA StartedProvide ==
    ASSUME Typed, Started, Provide
    PROVE  Started'
<1>. USE DEF Typed
<1>1. PICK connector \in Connectors :
          \/ \E value \in MockedValues : Mock(connector, value)
          \/ \E behaviour \in Behaviours : Model(connector, behaviour)
  BY DEF Provide
<1>2. \E control : objects' = Provided(connector, control)
  BY <1>1, Zenon DEF Mock, Model
<1>3. PICK control : objects' = Provided(connector, control)
  BY <1>2
<1>. DEFINE controls == Append(objects.controls, control)
<1>4. objects'.controls = controls /\ objects'.committed = objects.committed
  BY <1>3 DEF Provided, Fields
<1>5. IsSequence(objects.controls)
  BY DEF Provisions
<1>6. /\ IsSequence(controls) /\ Len(controls) = Len(objects.controls) + 1
      /\ \A i \in 1 .. Len(objects.controls) : controls[i] = objects.controls[i]
  BY <1>5, AppendFacts
<1>. HIDE DEF controls
<1>7. \A i \in DOMAIN objects.controls :
          i \in DOMAIN controls /\ controls[i] = objects.controls[i]
  <2>1. /\ Len(objects.controls) \in Nat /\ DOMAIN objects.controls = 1 .. Len(objects.controls)
        /\ DOMAIN controls = 1 .. Len(controls)
    BY <1>5, <1>6, SequenceFacts
  <2>. QED  BY <1>6, <2>1
<1>8. UNCHANGED <<kernel, begun, boundary, session>>
  BY <1>1, Zenon DEF Mock, Model
<1>. QED  BY <1>4, <1>7, <1>8, StartedObjects

LEMMA StartedControl ==
    ASSUME Typed, Started, Control
    PROVE  Started'
<1>. USE DEF Typed
<1>1. PICK control \in DOMAIN objects.controls :
          (\E value \in MockedValues : MockOutput(control, value)) \/ ClearProvider(control)
  BY DEF Control
<1>2. /\ UNCHANGED <<kernel, begun, boundary, session>>
      /\ objects'.committed = objects.committed
  BY <1>1, Zenon DEF MockOutput, ClearProvider, Fields
<1>3. \A i \in DOMAIN objects.controls :
          i \in DOMAIN objects'.controls /\ objects'.controls[i].state = objects.controls[i].state
  <2>1. CASE \E value \in MockedValues : MockOutput(control, value)
    <3>1. PICK value \in MockedValues : MockOutput(control, value)
      BY <2>1
    <3>. DEFINE old == objects.controls[control]
                new == [old EXCEPT !.value = value]
    <3>2. objects'.controls = [objects.controls EXCEPT ![control] = new]
      BY <3>1 DEF MockOutput, Fields
    <3>3. ControlOK(old)
      BY DEF Provisions
    <3>. HIDE DEF old
    <3>4. new.state = old.state
      BY <3>3 DEF ControlOK, ControlFields
    <3>. HIDE DEF new
    <3>. QED  BY <3>2, <3>4 DEF old
  <2>2. CASE ClearProvider(control)
    BY <2>2 DEF ClearProvider, Fields
  <2>. QED  BY <1>1, <2>1, <2>2
<1>. QED  BY <1>2, <1>3, StartedObjects

LEMMA StartedAdapt ==
    ASSUME Typed, Started, Adapt
    PROVE  Started'
<1>. USE DEF Typed
<1>1. PICK object \in Range(circuit.objects) : AdaptObject(object)
  BY AdaptPicked
<1>2. /\ UNCHANGED <<kernel, session, boundary>>
      /\ objects'.controls = objects.controls
      /\ DOMAIN objects.committed \subseteq DOMAIN objects'.committed
      /\ \A name \in DOMAIN objects'.committed :
            objects'.committed[name] =
                IF name \in Names THEN objects.committed[name] ELSE Known(ZeroBus)
  BY <1>1, AdaptedFacts
<1>3. begun' = begun
  BY <1>1 DEF AdaptObject
<1>4. \A name \in DOMAIN objects.committed :
          name \in DOMAIN objects'.committed /\ objects'.committed[name] = objects.committed[name]
  BY <1>2 DEF Named
<1>. QED  BY <1>2, <1>3, <1>4, StartedObjects

LEMMA StartedStep ==
    ASSUME Typed, Started, [Next]_vars
    PROVE  Started'
<1>. USE DEF Typed
<1>1. CASE Stimulate \/ Schedule
  <2>1. /\ UNCHANGED <<kernel, begun, objects, boundary>>
        /\ session'.failed = session.failed
    BY <1>1, Zenon DEF Stimulate, Drive, Pulse, Clear, Schedule, At, Fields
  <2>. QED  BY <2>1, StartedSame
<1>2. CASE Provide
  BY <1>2, StartedProvide
<1>3. CASE Control
  BY <1>3, StartedControl
<1>4. CASE Observe
  <2>1. UNCHANGED <<kernel, begun, objects, boundary, session>>
    BY <1>4 DEF Observe, Trace
  <2>. QED  BY <2>1, StartedSame
<1>5. CASE Adapt
  BY <1>5, StartedAdapt
<1>6. CASE Advances
  <2>1. PICK call, count :
            /\ call \in {"tick", "settle"}
            /\ MutationAllowed
            /\ Begin(call, count, kernel.tick, session.scheduled, kernel.networks,
                     objects.controls, objects.committed)
            /\ session' = [session EXCEPT !.scheduled = Without(@, kernel.tick + 1)]
            /\ UNCHANGED <<kernel, objects>>
    BY <1>6, AdvanceFacts
  <2>2. /\ boundary'.previous = kernel.networks
        /\ begun'.networks = kernel.networks /\ begun'.committed = objects.committed
        /\ begun'.states = [i \in DOMAIN objects.controls |-> objects.controls[i].state]
    BY <2>1, BeginFacts
  <2>3. session'.failed = 0
    BY <2>1 DEF Fields, MutationAllowed
  <2>. QED  BY <2>1, <2>2, <2>3 DEF Started
<1>7. CASE CallbackReturns
  <2>1. /\ UNCHANGED <<kernel, begun, objects, session>>
        /\ boundary'.call = boundary.call /\ boundary'.previous = boundary.previous
    BY <1>7 DEF CallbackReturns, Fields
  <2>. QED  BY <2>1, StartedSame
<1>8. CASE CallbackThrows \/ DeviceThrows
  <2>1. Advancing /\ FailBoundary
    BY <1>8 DEF CallbackThrows, InCallback, DeviceThrows, Evaluating
  <2>2. /\ boundary' = NoBoundary /\ session'.failed = kernel.tick + 1
        /\ UNCHANGED <<kernel, begun, objects>>
    BY <2>1 DEF FailBoundary, Fields
  <2>3. ~Advancing'
    BY <2>2 DEF Advancing, NoBoundary
  <2>. QED  BY <2>1, <2>2, <2>3 DEF Started
<1>9. CASE EvaluateDevice
  <2>1. /\ UNCHANGED <<kernel, begun, objects, session>>
        /\ boundary'.call = boundary.call /\ boundary'.previous = boundary.previous
    BY <1>9, EvaluateFacts
  <2>. QED  BY <2>1, StartedSame
<1>10. CASE CommitBoundary
  <2>1. /\ Advancing /\ objects' = NewObjects
        /\ kernel' = [tick |-> kernel.tick + 1, networks |-> NewNetworks]
        /\ session'.failed = session.failed
    BY <1>10, CommitBoundaryFacts
  <2>2. session'.failed = 0
    BY <2>1 DEF Counters, Idle
  <2>3. CASE Begin(boundary.call, boundary.left - 1, kernel.tick + 1, session.scheduled,
                   NewNetworks, NewObjects.controls, NewObjects.committed)
    <3>1. boundary.call # "none"
      BY <2>1 DEF Advancing
    <3>2. /\ boundary'.previous = NewNetworks
          /\ begun'.networks = NewNetworks /\ begun'.committed = NewObjects.committed
          /\ begun'.states = [i \in DOMAIN NewObjects.controls |-> NewObjects.controls[i].state]
      BY <2>3, <3>1, BeginFacts
    <3>. QED  BY <2>1, <2>2, <3>2 DEF Started
  <2>4. CASE boundary' = [NoBoundary EXCEPT !.settled = IF SettledNow(NewNetworks) THEN calls ELSE 0]
    <3>1. ~Advancing'
      BY <2>4 DEF Advancing, NoBoundary
    <3>. QED  BY <2>2, <3>1 DEF Started
  <2>. QED  BY <2>3, <2>4, <1>10, CommitBoundaryFacts
<1>11. CASE Finish
  <2>1. /\ UNCHANGED <<kernel, begun, objects, boundary>>
        /\ session'.failed = session.failed
    BY <1>11 DEF Finish, Fields
  <2>. QED  BY <2>1, StartedSame
<1>12. CASE UNCHANGED vars
  BY <1>12, StartedSame DEF vars
<1>. QED  BY <1>1, <1>2, <1>3, <1>4, <1>5, <1>6, <1>7, <1>8, <1>9, <1>10, <1>11, <1>12
         DEF Next, Boundary

LEMMA AlwaysStarted == Spec => [](Typed /\ Started)
<1>1. Init => Started
  BY DEF Init, Started, Advancing, NoBoundary
<1>2. Typed /\ Started /\ [Next]_vars => Started'
  BY StartedStep
<1>. QED  BY <1>1, <1>2, AlwaysTyped, PTL DEF Spec
-----------------------------------------------------------------------------
(* What the devices before the next one contribute, and what settle found.  *)

(* A device reads the committed snapshot, the stimuli and the providers.    *)
LEMMA OutputStays ==
    ASSUME objects'.current = objects.current,
           \A name \in DOMAIN objects.current :
               LET p == objects.current[name]
               IN  \/ objects'.controls[p] = objects.controls[p]
                   \/ /\ objects.controls[p].kind = "mock" /\ objects'.controls[p].kind = "mock"
                      /\ objects'.controls[p].value = objects.controls[p].value
    PROVE  \A networks, connector :
               ConnectorStep(networks, connector).output' = ConnectorStep(networks, connector).output
<1>. SUFFICES ASSUME NEW networks, NEW connector
              PROVE  ConnectorStep(networks, connector).output'
                         = ConnectorStep(networks, connector).output
  OBVIOUS
<1>. DEFINE provider == Provider(connector)
            control == objects.controls[provider]
            next == objects'.controls[provider]
            input == ConnectorInput(networks, connector)
<1>1. Provider(connector)' = provider
  BY DEF Provider, ValueAt
<1>2. input' = input
  BY DEF ConnectorInput, ReadNetwork
<1>. HIDE DEF input
<1>3. CASE provider = None
  <2>1. ConnectorStep(networks, connector).output = connector.fallback
    BY <1>3 DEF ConnectorStep
  <2>2. ConnectorStep(networks, connector).output' = connector.fallback
    BY <1>1, <1>3 DEF ConnectorStep
  <2>. QED  BY <2>1, <2>2
<1>4. CASE provider # None
  <2>1. \/ next = control
        \/ control.kind = "mock" /\ next.kind = "mock" /\ next.value = control.value
    BY <1>4 DEF Provider, ValueAt
  <2>2. ConnectorStep(networks, connector).output =
            IF control.kind = "mock" THEN control.value
            ELSE ModelStep(control.behaviour, input, control.state).output
    BY <1>4 DEF ConnectorStep, input
  <2>3. ConnectorStep(networks, connector).output' =
            IF next.kind = "mock" THEN next.value
            ELSE ModelStep(next.behaviour, input, next.state).output
    <3>1. ConnectorStep(networks, connector).output' =
              IF next.kind = "mock" THEN next.value
              ELSE ModelStep(next.behaviour, input', next.state).output
      BY <1>1, <1>4 DEF ConnectorStep, input
    <3>. QED  BY <3>1, <1>2
  <2>. HIDE DEF control, next
  <2>. QED  BY <2>1, <2>2, <2>3
<1>. QED  BY <1>3, <1>4

LEMMA ContributionStays ==
    ASSUME kernel'.networks = kernel.networks,
           session'.drives = session.drives, session'.pulses = session.pulses,
           objects'.current = objects.current,
           \A name \in DOMAIN objects.current :
               LET p == objects.current[name]
               IN  \/ objects'.controls[p] = objects.controls[p]
                   \/ /\ objects.controls[p].kind = "mock" /\ objects'.controls[p].kind = "mock"
                      /\ objects'.controls[p].value = objects.controls[p].value
    PROVE  \A f, device : Contributed(f, device)' = Contributed(f, device)
<1>1. \A networks, connector :
          ConnectorStep(networks, connector).output' = ConnectorStep(networks, connector).output
  BY OutputStays
<1>2. ASSUME NEW networks, NEW device
      PROVE  ObjectOutputs(networks, device)' = ObjectOutputs(networks, device)
  <2>. DEFINE put(output, c) == IF output = NoOutput THEN <<>>
                                ELSE Broadcast(CommittedOutput(device, output), c.outputs)
              connectors == device.connectors
              outputs == [i \in DOMAIN connectors |->
                             put(ConnectorStep(networks, connectors[i]).output, connectors[i])]
              after == [i \in DOMAIN connectors |->
                           put(ConnectorStep(networks, connectors[i]).output', connectors[i])]
  <2>1. ObjectOutputs(networks, device) = AllOf(outputs)
    BY Zenon DEF ObjectOutputs
  <2>2. ObjectOutputs(networks, device)' = AllOf(after)
    BY Zenon DEF ObjectOutputs
  <2>3. \A i : ConnectorStep(networks, connectors[i]).output'
                   = ConnectorStep(networks, connectors[i]).output
    BY <1>1, Zenon
  <2>. HIDE DEF put
  <2>4. outputs = after
    BY <2>3, Zenon
  <2>. QED  BY <2>1, <2>2, <2>4
<1>3. ASSUME NEW device
      PROVE  Evaluated(kernel.networks, device)' = Evaluated(kernel.networks, device)
  BY <1>2 DEF Evaluated, DeviceInput, ReadNetwork
<1>. QED  BY <1>3, Zenon DEF Contributed

LEMMA ContributionUnchanged ==
    ASSUME UNCHANGED <<circuit, kernel, objects>>,
           session'.drives = session.drives, session'.pulses = session.pulses
    PROVE  /\ \A f, device : Contributed(f, device)' = Contributed(f, device)
           /\ Devices' = Devices
<1>1. Devices' = Devices
  BY DEF Devices
<1>. QED  BY <1>1, ContributionStays

LEMMA ChainStays ==
    ASSUME Devices' = Devices,
           \A f, device : Contributed(f, device)' = Contributed(f, device)
    PROVE  \A c, n : Chain(c, n) => Chain(c, n)'
<1>. SUFFICES ASSUME NEW c, NEW n, Chain(c, n)
              PROVE  Chain(c, n)'
  OBVIOUS
<1>1. c[0] = NoNetworks
  BY DEF Chain
<1>2. ASSUME NEW i \in 1 .. n
      PROVE  c[i] = Contributed(c[i - 1], Devices[i])'
  <2>1. c[i] = Contributed(c[i - 1], Devices[i])
    BY DEF Chain
  <2>. DEFINE f == c[i - 1]
  <2>2. Contributed(f, Devices[i])' = Contributed(f, Devices[i])
    <3>1. ASSUME NEW d, d = Devices[i]
          PROVE  Contributed(f, Devices[i])' = Contributed(f, d)
      <4>1. d = Devices'[i]
        BY <3>1
      <4>2. Contributed(f, d)' = Contributed(f, d)
        OBVIOUS
      <4>. QED  BY <4>1, <4>2 DEF Contributed, Evaluated
    <3>. QED  BY <3>1
  <2>. QED  BY <2>1, <2>2
<1>. QED  BY <1>1, <1>2 DEF Chain

LEMMA AccumulatedNone == Typed /\ boundary.next = 1 => Accumulated
<1>. SUFFICES ASSUME Typed, boundary.next = 1 PROVE Accumulated
  OBVIOUS
<1>1. Len(Devices) \in Nat
  BY DeviceFacts, SequenceFacts DEF Typed
<1>2. boundary.contributions = NoNetworks
  BY DEF Typed, Fresh
<1>. DEFINE c == [i \in {0} |-> NoNetworks]
<1>3. c[0] = NoNetworks /\ 1 .. 0 = {}
  OBVIOUS
<1>. HIDE DEF c
<1>4. Chain(c, 0)
  BY <1>3 DEF Chain
<1>. QED  BY <1>1, <1>2, <1>3, <1>4 DEF Accumulated

LEMMA AccumulatedNoneNext == (Typed /\ boundary.next = 1)' => Accumulated'
BY AccumulatedNone, PTL
(* Between boundaries, and while callbacks run, no device is evaluated.     *)
LEMMA QuietFacts ==
    ASSUME Typed, Next, ~EvaluateDevice
    PROVE  boundary'.next = 1
<1>. USE DEF Typed
<1>1. MutationAllowed => boundary.next = 1
  BY DEF MutationAllowed, Fresh
<1>2. CASE MutationAllowed /\ boundary' = boundary
  BY <1>1, <1>2
<1>3. CASE Advances
  <2>1. PICK call, count :
            /\ call \in {"tick", "settle"}
            /\ Begin(call, count, kernel.tick, session.scheduled, kernel.networks,
                     objects.controls, objects.committed)
    BY <1>3, AdvanceFacts
  <2>. QED  BY <2>1, BeginFacts, Zenon
<1>4. CASE CallbackReturns
  BY <1>4 DEF CallbackReturns, Fresh, Fields
<1>5. CASE CallbackThrows \/ DeviceThrows
  BY <1>5 DEF CallbackThrows, DeviceThrows, FailBoundary, NoBoundary
<1>6. CASE CommitBoundary
  <2>1. Advancing
    BY <1>6, CommitBoundaryFacts
  <2>2. boundary.call # "none"
    BY <2>1 DEF Advancing
  <2>3. CASE Begin(boundary.call, boundary.left - 1, kernel.tick + 1, session.scheduled,
                   NewNetworks, NewObjects.controls, NewObjects.committed)
    BY <2>2, <2>3, BeginFacts, Zenon
  <2>4. CASE boundary' = [NoBoundary EXCEPT !.settled = IF SettledNow(NewNetworks) THEN calls ELSE 0]
    BY <2>4 DEF NoBoundary
  <2>. QED  BY <2>3, <2>4, <1>6, CommitBoundaryFacts
<1>7. CASE Finish
  BY <1>7 DEF Finish, Fresh
<1>8. CASE Stimulate \/ Provide \/ Control \/ Observe \/ Adapt \/ Schedule
  <2>1. MutationAllowed /\ boundary' = boundary
    <3>1. CASE Stimulate \/ Schedule
      BY <3>1, Zenon DEF Stimulate, Drive, Pulse, Clear, Schedule, At, Called
    <3>2. CASE Provide \/ Control
      BY <3>2, Zenon DEF Provide, Mock, Model, Control, MockOutput, ClearProvider, Called
    <3>3. CASE Observe \/ Adapt
      BY <3>3, Zenon DEF Observe, Trace, Adapt, AdaptObject, Called
    <3>. QED  BY <1>8, <3>1, <3>2, <3>3
  <2>. QED  BY <2>1, <1>2
<1>. QED  BY <1>3, <1>4, <1>5, <1>6, <1>7, <1>8 DEF Next, Boundary

LEMMA AccumulatedStep ==
    ASSUME Typed, Accumulated, [Next]_vars
    PROVE  Accumulated'
<1>1. CASE Next /\ ~EvaluateDevice
  <2>1. boundary'.next = 1
    BY <1>1, QuietFacts
  <2>2. Typed'
    BY TypedStep
  <2>. QED  BY <2>1, <2>2, AccumulatedNoneNext
<1>2. CASE EvaluateDevice
  <2>1. /\ boundary.next \in 1 .. Len(Devices)
        /\ boundary'.next = boundary.next + 1
        /\ boundary'.contributions = Contributed(boundary.contributions, EvaluatedDevice)
        /\ UNCHANGED <<circuit, kernel, session, objects>>
    BY <1>2, EvaluateFacts
  <2>2. /\ \A f, device : Contributed(f, device)' = Contributed(f, device)
        /\ Devices' = Devices
    BY <2>1, ContributionUnchanged
  <2>3. Len(Devices) \in Nat
    BY DeviceFacts, SequenceFacts DEF Typed
  <2>4. PICK n : n = boundary.next
    OBVIOUS
  <2>5. PICK last : last = Contributed(boundary.contributions, Devices[n])
    OBVIOUS
  <2>6. PICK c : Chain(c, n - 1) /\ boundary.contributions = c[n - 1]
    BY <2>4 DEF Accumulated
  <2>7. n \in 1 .. Len(Devices)
    BY <2>1, <2>4
  <2>. DEFINE d == [i \in 0 .. n |-> IF i = n THEN last ELSE c[i]]
  <2>8. /\ d[n] = last /\ d[n - 1] = c[n - 1] /\ d[0] = c[0]
        /\ \A i \in 1 .. n - 1 : d[i] = c[i] /\ d[i - 1] = c[i - 1]
    BY <2>7, <2>3
  <2>. HIDE DEF d
  <2>9. Chain(d, n)
    <3>1. d[0] = NoNetworks
      BY <2>6, <2>8 DEF Chain
    <3>2. ASSUME NEW i \in 1 .. n
          PROVE  d[i] = Contributed(d[i - 1], Devices[i])
      <4>1. CASE i = n
        BY <4>1, <2>5, <2>6, <2>8
      <4>2. CASE i # n
        <5>1. i \in 1 .. n - 1
          BY <4>2, <2>7, <2>3
        <5>2. c[i] = Contributed(c[i - 1], Devices[i])
          BY <5>1, <2>6 DEF Chain
        <5>. QED  BY <5>1, <5>2, <2>8
      <4>. QED  BY <4>1, <4>2
    <3>. QED  BY <3>1, <3>2 DEF Chain
  <2>10. Chain(d, n)'
    BY <2>2, <2>9, ChainStays
  <2>11. boundary'.contributions = d[n]
    BY <2>1, <2>4, <2>5, <2>8 DEF EvaluatedDevice
  <2>12. boundary'.next - 1 = n /\ boundary'.next <= Len(Devices)' + 1
    BY <2>1, <2>2, <2>3, <2>4
  <2>13. Chain(d, boundary.next - 1)'
    BY <2>10, <2>12 DEF Chain
  <2>. QED  BY <2>11, <2>12, <2>13 DEF Accumulated
<1>3. CASE UNCHANGED vars
  <2>1. /\ \A f, device : Contributed(f, device)' = Contributed(f, device)
        /\ Devices' = Devices /\ boundary' = boundary
    BY <1>3, ContributionUnchanged DEF vars
  <2>2. PICK n : n = boundary.next
    OBVIOUS
  <2>3. PICK c : Chain(c, n - 1) /\ boundary.contributions = c[n - 1]
    BY <2>2 DEF Accumulated
  <2>4. Chain(c, n - 1)'
    BY <2>1, <2>3, ChainStays
  <2>5. boundary.next <= Len(Devices) + 1
    BY DEF Accumulated
  <2>6. Chain(c, boundary.next - 1)'
    BY <2>1, <2>2, <2>4 DEF Chain
  <2>. QED  BY <2>1, <2>2, <2>3, <2>5, <2>6 DEF Accumulated
<1>. QED  BY <1>1, <1>2, <1>3

LEMMA FixedStep ==
    ASSUME Typed, Started, Accumulated, Fixed, [Next]_vars
    PROVE  Fixed'
<1>. USE DEF Typed
<1>1. CASE boundary'.settled = 0
  BY <1>1 DEF Fixed
<1>2. boundary.settled \in 0 .. calls /\ calls \in Nat
  BY DEF Counters
<1>3. CASE boundary' = boundary /\ calls' = calls + 1
  BY <1>2, <1>3 DEF Fixed
<1>4. CASE UNCHANGED <<circuit, kernel, objects, boundary, calls>>
           /\ session'.drives = session.drives /\ session'.pulses = session.pulses
  <2>1. SUFFICES ASSUME boundary.settled # 0, boundary.settled = calls, OnlyMocks
                 PROVE  \E c : /\ Chain(c, Len(Devices))'
                               /\ kernel'.networks = Aggregated(c[Len(Devices)'])
    BY <1>4 DEF Fixed, OnlyMocks, Aggregated
  <2>2. PICK n : n = Len(Devices)
    BY Zenon
  <2>3. PICK c : Chain(c, n) /\ kernel.networks = Aggregated(c[n])
    BY <2>1, <2>2 DEF Fixed
  <2>4. /\ \A f, device : Contributed(f, device)' = Contributed(f, device)
        /\ Devices' = Devices
    BY <1>4, ContributionUnchanged
  <2>5. Chain(c, n)'
    BY <2>3, <2>4, ChainStays
  <2>6. Chain(c, Len(Devices))'
    BY <2>2, <2>4, <2>5 DEF Chain
  <2>. QED  BY <1>4, <2>2, <2>3, <2>4, <2>6
<1>5. CASE Stimulate \/ Provide \/ Control \/ Observe \/ Schedule
  <2>1. calls' = calls + 1 /\ boundary' = boundary
    <3>1. CASE Stimulate \/ Schedule
      BY <3>1, Zenon DEF Stimulate, Drive, Pulse, Clear, Schedule, At, Called
    <3>2. CASE Provide \/ Control \/ Observe
      BY <3>2, Zenon DEF Provide, Mock, Model, Control, MockOutput, ClearProvider, Observe, Trace,
                         Called
    <3>. QED  BY <1>5, <3>1, <3>2
  <2>. QED  BY <2>1, <1>3
<1>6. CASE Adapt
  <2>1. PICK object \in Range(circuit.objects) : AdaptObject(object)
    BY <1>6, AdaptPicked
  <2>2. kernel.tick = 0 /\ boundary' = boundary
    BY <2>1, AdaptedFacts
  <2>3. boundary'.settled = 0
    BY <2>2 DEF Counters
  <2>. QED  BY <2>3, <1>1
<1>7. CASE Advances
  <2>1. PICK call, count :
            /\ call \in {"tick", "settle"}
            /\ Begin(call, count, kernel.tick, session.scheduled, kernel.networks,
                     objects.controls, objects.committed)
    BY <1>7, AdvanceFacts
  <2>2. boundary'.settled = 0
    BY <2>1, BeginFacts, Zenon
  <2>. QED  BY <2>2, <1>1
<1>8. CASE CallbackReturns \/ EvaluateDevice
  <2>1. Advancing /\ boundary'.settled = boundary.settled
    BY <1>8, EvaluateFacts DEF CallbackReturns, InCallback, Fields
  <2>2. boundary'.settled = 0
    BY <2>1 DEF Counters, Idle
  <2>. QED  BY <2>2, <1>1
<1>9. CASE CallbackThrows \/ DeviceThrows
  <2>1. boundary'.settled = 0
    BY <1>9 DEF CallbackThrows, DeviceThrows, FailBoundary, NoBoundary
  <2>. QED  BY <2>1, <1>1
<1>10. CASE CommitBoundary
  <2>1. /\ Advancing /\ boundary.next > Len(Devices)
        /\ After(NewObjects) /\ objects' = NewObjects
        /\ kernel' = [tick |-> kernel.tick + 1, networks |-> NewNetworks]
        /\ UNCHANGED <<circuit, calls>>
        /\ session'.pulses = NoNetworks /\ session'.drives = session.drives
        /\ Devices' = Devices
    BY <1>10, CommitBoundaryFacts
  <2>2. boundary.call # "none"
    BY <2>1 DEF Advancing
  <2>3. CASE Begin(boundary.call, boundary.left - 1, kernel.tick + 1, session.scheduled,
                   NewNetworks, NewObjects.controls, NewObjects.committed)
    <3>1. boundary'.settled = 0
      BY <2>2, <2>3, BeginFacts, Zenon
    <3>. QED  BY <3>1, <1>1
  <2>4. CASE boundary' = [NoBoundary EXCEPT !.settled = IF SettledNow(NewNetworks) THEN calls ELSE 0]
    <3>1. SUFFICES ASSUME SettledNow(NewNetworks), OnlyMocks'
                   PROVE  \E c : /\ Chain(c, Len(Devices))'
                                 /\ kernel'.networks = Aggregated(c[Len(Devices)'])
      BY <2>4 DEF Fixed, Aggregated, NoBoundary
    <3>2. /\ NewNetworks = kernel.networks /\ session.pulses = NoNetworks
      BY <3>1, <2>1 DEF SettledNow, SameSnapshot, Started
    <3>3. kernel'.networks = kernel.networks /\ kernel'.networks = NewNetworks
      BY <3>2, <2>1
    <3>4. \A name \in DOMAIN objects.current :
              LET p == objects.current[name]
              IN  /\ objects.controls[p].kind = "mock" /\ objects'.controls[p].kind = "mock"
                  /\ objects'.controls[p].value = objects.controls[p].value
      <4>1. \A name \in DOMAIN objects.current :
                objects.current[name] \in DOMAIN objects.controls
        BY DEF Provisions
      <4>2. objects'.current = objects.current
        BY <2>1 DEF After
      <4>3. \A i \in DOMAIN objects.controls :
                /\ objects'.controls[i].kind = objects.controls[i].kind
                /\ objects'.controls[i].value = objects.controls[i].value
        BY <2>1 DEF After
      <4>. QED  BY <3>1, <4>1, <4>2, <4>3 DEF OnlyMocks
    <3>5. \A f, device : Contributed(f, device)' = Contributed(f, device)
      <4>1. objects'.current = objects.current
        BY <2>1 DEF After
      <4>. QED  BY <2>1, <3>2, <3>3, <3>4, <4>1, ContributionStays
    <3>6. PICK n : n = Len(Devices)
      BY Zenon
    <3>7. n \in Nat /\ boundary.next - 1 = n
      BY <2>1, <3>6, DeviceFacts, SequenceFacts DEF Accumulated, Fresh
    <3>8. PICK c : Chain(c, n) /\ boundary.contributions = c[n]
      BY <3>7 DEF Accumulated
    <3>9. Chain(c, n)'
      BY <2>1, <3>5, <3>8, ChainStays
    <3>10. Chain(c, Len(Devices))'
      BY <2>1, <3>6, <3>9 DEF Chain
    <3>11. NewNetworks = Aggregated(c[n])
      BY <3>8 DEF NewNetworks
    <3>. QED  BY <2>1, <3>3, <3>6, <3>10, <3>11
  <2>. QED  BY <2>3, <2>4, <1>10, CommitBoundaryFacts
<1>11. CASE Finish
  <2>1. /\ UNCHANGED <<circuit, kernel, objects, boundary, calls>>
        /\ session'.drives = session.drives /\ session'.pulses = session.pulses
    BY <1>11 DEF Finish, Fields
  <2>. QED  BY <2>1, <1>4
<1>12. CASE UNCHANGED vars
  BY <1>12, <1>4 DEF vars
<1>. QED  BY <1>5, <1>6, <1>7, <1>8, <1>9, <1>10, <1>11, <1>12 DEF Next, Boundary

LEMMA AlwaysFixed == Spec => [](Typed /\ Started /\ Accumulated /\ Fixed)
<1>1. Init => Accumulated
  BY TypedInit, AccumulatedNone DEF Init, NoBoundary
<1>2. Init => Fixed
  BY DEF Init, Fixed, NoBoundary
<1>3. Typed /\ Accumulated /\ [Next]_vars => Accumulated'
  BY AccumulatedStep
<1>4. Typed /\ Started /\ Accumulated /\ Fixed /\ [Next]_vars => Fixed'
  BY FixedStep
<1>. QED  BY <1>1, <1>2, <1>3, <1>4, AlwaysStarted, PTL DEF Spec

LEMMA ChainFolds ==
    ASSUME IsSequence(Devices), NEW c, Chain(c, Len(Devices))
    PROVE  FoldLeft(Contributed, NoNetworks, Devices) = c[Len(Devices)]
<1>. DEFINE n == Len(Devices)
<1>0. Len(Devices) \in Nat /\ DOMAIN Devices = 1 .. Len(Devices)
  BY SequenceFacts
<1>1. \E d : /\ DeviceFold!Runs(d, NoNetworks, Devices)
             /\ DeviceFold!Result(NoNetworks, Devices) = d[Len(Devices)]
  BY <1>0, DeviceFold!FoldLeftRuns, FoldsInduct, Zenon
<1>2. DeviceFold!Result(NoNetworks, Devices)
          = FoldLeft(Contributed, NoNetworks, Devices)
  BY Zenon DEF FoldLeft, MapThenFoldSet, Max, DeviceFold!Result,
               DeviceFold!MapThenFoldSet, DeviceFold!Greatest
<1>3. PICK d : /\ d[0] = NoNetworks
               /\ \A i \in 1 .. Len(Devices) : d[i] = Contributed(d[i - 1], Devices[i])
               /\ FoldLeft(Contributed, NoNetworks, Devices) = d[Len(Devices)]
  BY <1>1, <1>2, Zenon DEF DeviceFold!Runs
<1>4. /\ c[0] = NoNetworks
      /\ \A i \in 1 .. Len(Devices) : c[i] = Contributed(c[i - 1], Devices[i])
  BY DEF Chain
<1>. HIDE DEF n
<1>. DEFINE G == {m \in Nat : m <= Len(Devices) => c[m] = d[m]}
<1>5. 0 \in G
  BY <1>3, <1>4
<1>6. ASSUME NEW m \in G
      PROVE  m + 1 \in G
  <2>1. CASE m + 1 <= Len(Devices)
    <3>1. m + 1 \in 1 .. Len(Devices) /\ c[m] = d[m] /\ (m + 1) - 1 = m
      BY <1>0, <2>1
    <3>2. /\ c[m + 1] = Contributed(c[(m + 1) - 1], Devices[m + 1])
          /\ d[m + 1] = Contributed(d[(m + 1) - 1], Devices[m + 1])
      BY <1>3, <1>4, <3>1, Zenon
    <3>3. c[m + 1] = d[m + 1]
      BY <3>1, <3>2
    <3>. QED  BY <3>3
  <2>. QED  BY <2>1
<1>7. G = Nat
  <2>. G \in SUBSET Nat
    OBVIOUS
  <2>. HIDE DEF G
  <2>. QED  BY <1>5, <1>6, NaturalInduction, Zenon
<1>. QED  BY <1>0, <1>3, <1>7

(* What settle() returns is a fixed point of the circuit, whatever the      *)
(* circuit, the mocks and the order of the devices: one more boundary would *)
(* commit the same snapshot.                                                *)
THEOREM SettledIsAlwaysFixed == Spec => []SettledIsFixed
<1>1. Typed /\ Fixed => SettledIsFixed
  <2>. SUFFICES ASSUME Typed, Fixed, boundary.settled = calls, calls > 0, OnlyMocks
                PROVE  Stepped(Devices) = kernel.networks
    BY DEF SettledIsFixed, OnlyMocks
  <2>1. calls # 0
    BY DEF Typed, Counters
  <2>2. PICK c : Chain(c, Len(Devices)) /\ kernel.networks = Aggregated(c[Len(Devices)])
    BY <2>1 DEF Fixed
  <2>3. IsSequence(Devices)
    BY DeviceFacts DEF Typed
  <2>. QED  BY <2>2, <2>3, ChainFolds DEF Stepped
<1>. QED  BY <1>1, AlwaysFixed, PTL
-----------------------------------------------------------------------------
(* An event gives the value of its target back.                             *)

(* Of a bus, what a target shows.                                           *)
Shown(target, bus) ==
    IF target.kind = "signal" THEN Sparse([s \in {target.signal} |-> Carried(bus, s)]) ELSE bus

LEMMA SameSparse ==
    ASSUME NEW f, NEW g,
           \A s \in DOMAIN f : f[s] # 0 => s \in DOMAIN g /\ g[s] = f[s],
           \A s \in DOMAIN g : g[s] # 0 => s \in DOMAIN f /\ f[s] = g[s]
    PROVE  Sparse(f) = Sparse(g)
<1>. DEFINE F == {x \in DOMAIN f : f[x] # 0}
            G == {x \in DOMAIN g : g[x] # 0}
<1>1. F = G /\ \A s \in F : f[s] = g[s]
  OBVIOUS
<1>2. [s \in F |-> f[s]] = [s \in G |-> g[s]]
  <2>. HIDE DEF F, G
  <2>. QED  BY <1>1
<1>. QED  BY <1>2 DEF Sparse

LEMMA ShownFacts ==
    ASSUME NEW target, NEW value, IsBusValue(value)
    PROVE  /\ IsKnown(value) => /\ Projected(target, value) = Known(Shown(target, value.bus))
                                /\ IsSparse(value.bus) /\ value = Known(value.bus)
           /\ ~IsKnown(value) => /\ Projected(target, value) = value
                                 /\ value = Unknown(value.origins)
BY DEF Projected, Shown, IsBusValue

(* Changes hold what differs between base and bus among S.                  *)
Covers(S, base, bus, changes) ==
    /\ IsSparse(base) /\ DOMAIN base \subseteq S
    /\ IsSparse(bus) /\ DOMAIN bus \subseteq S
    /\ DOMAIN changes \subseteq S
    /\ \A s \in S \ DOMAIN changes : Carried(base, s) = Carried(bus, s)
    /\ \A s \in DOMAIN changes : changes[s] = Carried(bus, s)

LEMMA ChangesReplay ==
    ASSUME NEW S, NEW base, NEW bus, NEW changes, Covers(S, base, bus, changes)
    PROVE  /\ Sparse(Override(changes, base)) = bus
           /\ DOMAIN changes = {} => base = bus
<1>. DEFINE D == DOMAIN changes
<1>. DEFINE h == Override(changes, base)
<1>0. /\ \A s \in DOMAIN bus : bus[s] # 0 /\ Carried(bus, s) = bus[s]
      /\ \A s \in DOMAIN base : base[s] # 0 /\ Carried(base, s) = base[s]
      /\ \A s : s \notin DOMAIN bus => Carried(bus, s) = 0
      /\ \A s : s \notin DOMAIN base => Carried(base, s) = 0
      /\ bus = Sparse(bus) /\ base = Sparse(base)
  BY SparseFacts DEF Covers, IsSparse, Carried
<1>1. /\ DOMAIN h = D \cup DOMAIN base
      /\ \A s \in DOMAIN h : h[s] = IF s \in D THEN Carried(bus, s) ELSE base[s]
  BY DEF Override, Covers
<1>. HIDE DEF h
<1>2. Sparse(h) = Sparse(bus)
  <2>1. \A s \in DOMAIN h : h[s] # 0 => s \in DOMAIN bus /\ bus[s] = h[s]
    BY <1>0, <1>1 DEF Covers
  <2>2. \A s \in DOMAIN bus : bus[s] # 0 => s \in DOMAIN h /\ h[s] = bus[s]
    BY <1>0, <1>1 DEF Covers
  <2>. QED  BY <2>1, <2>2, SameSparse
<1>3. ASSUME D = {}
      PROVE  base = bus
  <2>1. \A s \in DOMAIN base : base[s] # 0 => s \in DOMAIN bus /\ bus[s] = base[s]
    BY <1>0, <1>3 DEF Covers
  <2>2. \A s \in DOMAIN bus : bus[s] # 0 => s \in DOMAIN base /\ base[s] = bus[s]
    BY <1>0, <1>3 DEF Covers
  <2>3. Sparse(base) = Sparse(bus)
    BY <2>1, <2>2, SameSparse
  <2>. QED  BY <1>0, <2>3
<1>. QED  BY <1>0, <1>2, <1>3 DEF h

LEMMA ShownCarried ==
    ASSUME NEW target, NEW bus, IsSparse(bus)
    PROVE  /\ IsSparse(Shown(target, bus))
           /\ target.kind = "signal" =>
                 /\ DOMAIN Shown(target, bus) \subseteq {target.signal}
                 /\ Carried(Shown(target, bus), target.signal) = Carried(bus, target.signal)
           /\ target.kind # "signal" => Shown(target, bus) = bus
<1>1. CASE target.kind = "signal"
  <2>. DEFINE shown == [s \in {target.signal} |-> Carried(bus, s)]
  <2>1. /\ DOMAIN Sparse(shown) = {s \in {target.signal} : Carried(bus, s) # 0}
        /\ \A s \in DOMAIN Sparse(shown) : Sparse(shown)[s] = Carried(bus, s)
    BY DEF Sparse
  <2>2. IsSparse(Sparse(shown))
    BY SparseFacts
  <2>3. Shown(target, bus) = Sparse(shown)
    BY <1>1 DEF Shown
  <2>. HIDE DEF shown
  <2>4. Carried(Sparse(shown), target.signal) = Carried(bus, target.signal)
    BY <2>1 DEF Carried
  <2>. QED  BY <1>1, <2>1, <2>2, <2>3, <2>4
<1>2. CASE target.kind # "signal"
  BY <1>2 DEF Shown
<1>. QED  BY <1>1, <1>2

LEMMA ChangesReset ==
    \A target, bus, changes :
        /\ IsSparse(bus)
        /\ DOMAIN changes = ChangedSignals(target, TRUE, ZeroBus, bus)
        /\ \A s \in DOMAIN changes : changes[s] = Carried(bus, s)
        => Sparse(Override(changes, ZeroBus)) = Shown(target, bus)
<1>. SUFFICES ASSUME NEW target, NEW bus, NEW changes, IsSparse(bus),
                     DOMAIN changes = ChangedSignals(target, TRUE, ZeroBus, bus),
                     \A s \in DOMAIN changes : changes[s] = Carried(bus, s)
              PROVE  Sparse(Override(changes, ZeroBus)) = Shown(target, bus)
  BY Zenon
<1>. DEFINE S == DOMAIN changes
            shown == Shown(target, bus)
<1>1. S = IF target.kind = "signal" THEN {target.signal} ELSE DOMAIN bus
  BY SparseFacts DEF ChangedSignals
<1>2. IsSparse(shown) /\ DOMAIN shown \subseteq S /\ \A s \in S : Carried(shown, s) = Carried(bus, s)
  <2>1. CASE target.kind = "signal"
    <3>1. S = {target.signal}
      BY <1>1, <2>1, Zenon
    <3>2. \A s \in S : s = target.signal
      BY <3>1, Zenon
    <3>. HIDE DEF S
    <3>. QED  BY <3>1, <3>2, <2>1, ShownCarried
  <2>2. CASE target.kind # "signal"
    BY <1>1, <2>2, ShownCarried, Zenon
  <2>. QED  BY <2>1, <2>2, Zenon
<1>3. IsSparse(ZeroBus) /\ DOMAIN ZeroBus \subseteq S
  BY SparseFacts
<1>. HIDE DEF shown
<1>5. \A s \in S : changes[s] = Carried(shown, s)
  BY <1>2, Zenon
<1>6. Covers(S, ZeroBus, shown, changes)
  BY <1>2, <1>3, <1>5, Zenon DEF Covers
<1>. HIDE DEF S
<1>4. Sparse(Override(changes, ZeroBus)) = shown
  BY <1>6, ChangesReplay
<1>. QED  BY <1>4 DEF shown

LEMMA ChangesKept ==
    \A target, before, bus, changes :
        /\ IsSparse(bus) /\ IsSparse(before)
        /\ DOMAIN changes = ChangedSignals(target, FALSE, before, bus)
        /\ \A s \in DOMAIN changes : changes[s] = Carried(bus, s)
        => /\ Sparse(Override(changes, Shown(target, before))) = Shown(target, bus)
           /\ DOMAIN changes = {} => Shown(target, before) = Shown(target, bus)
<1>. SUFFICES ASSUME NEW target, NEW before, NEW bus, NEW changes, IsSparse(bus), IsSparse(before),
                     DOMAIN changes = ChangedSignals(target, FALSE, before, bus),
                     \A s \in DOMAIN changes : changes[s] = Carried(bus, s)
              PROVE  /\ Sparse(Override(changes, Shown(target, before))) = Shown(target, bus)
                     /\ DOMAIN changes = {} => Shown(target, before) = Shown(target, bus)
  BY Zenon
<1>. DEFINE S == IF target.kind = "signal" THEN {target.signal} ELSE DOMAIN bus \cup DOMAIN before
            D == DOMAIN changes
            shown == Shown(target, bus)
            old == Shown(target, before)
<1>1. D = {s \in S : Carried(before, s) # Carried(bus, s)}
  BY DEF ChangedSignals
<1>2. IsSparse(shown) /\ DOMAIN shown \subseteq S /\ \A s \in S : Carried(shown, s) = Carried(bus, s)
  BY ShownCarried
<1>3. IsSparse(old) /\ DOMAIN old \subseteq S /\ \A s \in S : Carried(old, s) = Carried(before, s)
  BY ShownCarried
<1>. HIDE DEF shown, old, S, D
<1>4. D \subseteq S /\ \A s \in S \ D : Carried(old, s) = Carried(shown, s)
  BY <1>1, <1>2, <1>3
<1>5. \A s \in D : changes[s] = Carried(shown, s)
  BY <1>1, <1>2, Zenon DEF D
<1>7. D = DOMAIN changes
  BY DEF D
<1>8. Covers(S, old, shown, changes)
  BY <1>2, <1>3, <1>4, <1>5, <1>7, Zenon DEF Covers
<1>9. Sparse(Override(changes, old)) = shown
  BY <1>8, ChangesReplay
<1>10. DOMAIN changes = {} => old = shown
  BY <1>8, ChangesReplay
<1>. QED  BY <1>9, <1>10, Zenon DEF shown, old

(* The event of a target, applied to what it showed before.                 *)
Event(target, seen, before, value, tick, event) ==
    /\ event.tick = tick
    /\ ApplyEvent(seen, event) = Projected(target, value)
    /\ IsKnown(value) => event.kind = "known"
    /\ event.kind = "known" /\ ~event.reset => before # <<>> /\ IsKnown(before[1])

LEMMA FirstEvent ==
    ASSUME NEW target, NEW value, IsBusValue(value), NEW seen, NEW tick,
           NEW before, before = <<>> \/ ~IsKnown(before[1]), before # <<value>>
    PROVE  \E event : /\ TraceEvents(target, before, value, tick) = <<event>>
                      /\ Event(target, seen, before, value, tick, event)
<1>1. CASE ~IsKnown(value)
  <2>. DEFINE event == [kind |-> "unknown", tick |-> tick, origins |-> value.origins]
  <2>1. TraceEvents(target, before, value, tick) = <<event>>
    BY <1>1 DEF TraceEvents
  <2>2. ApplyEvent(seen, event) = Unknown(value.origins)
    BY DEF ApplyEvent
  <2>3. Projected(target, value) = Unknown(value.origins)
    BY <1>1, ShownFacts
  <2>. QED  BY <1>1, <2>1, <2>2, <2>3 DEF Event
<1>2. CASE IsKnown(value)
  <2>. DEFINE D == ChangedSignals(target, TRUE, ZeroBus, value.bus)
              changes == [s \in D |-> Carried(value.bus, s)]
              event == [kind |-> "known", tick |-> tick, reset |-> TRUE, changes |-> changes]
  <2>1. TraceEvents(target, before, value, tick) = <<event>>
    BY <1>2, Zenon DEF TraceEvents, KnownEvent
  <2>2. IsSparse(value.bus) /\ Projected(target, value) = Known(Shown(target, value.bus))
    BY <1>2, ShownFacts
  <2>. HIDE DEF D
  <2>3. DOMAIN changes = D /\ \A s \in DOMAIN changes : changes[s] = Carried(value.bus, s)
    OBVIOUS
  <2>. HIDE DEF changes
  <2>6. IsSparse(ZeroBus)
    BY SparseFacts
  <2>7. Sparse(Override(changes, ZeroBus)) = Shown(target, value.bus)
    BY <2>2, <2>3, <2>6, ChangesReset, Zenon DEF D
  <2>4. ApplyEvent(seen, event) = Known(Sparse(Override(changes, ZeroBus)))
    BY DEF ApplyEvent
  <2>. QED  BY <1>2, <2>1, <2>2, <2>4, <2>7 DEF Event, D
<1>. QED  BY <1>1, <1>2

LEMMA NextEvent ==
    ASSUME NEW target, NEW value, IsBusValue(value), NEW old, IsBusValue(old), NEW tick
    PROVE  \/ /\ TraceEvents(target, <<old>>, value, tick) = <<>>
              /\ Projected(target, value) = Projected(target, old)
              /\ IsKnown(value) => IsKnown(old)
           \/ \E event : /\ TraceEvents(target, <<old>>, value, tick) = <<event>>
                         /\ Event(target, Projected(target, old), <<old>>, value, tick, event)
<1>0. <<old>>[1] = old /\ <<old>> # <<>> /\ (<<old>> = <<value>> <=> old = value)
  OBVIOUS
<1>1. CASE old = value
  BY <1>1 DEF TraceEvents
<1>2. CASE old # value /\ ~IsKnown(old)
  BY <1>0, <1>2, FirstEvent
<1>3. CASE old # value /\ IsKnown(old) /\ ~IsKnown(value)
  <2>. DEFINE event == [kind |-> "unknown", tick |-> tick, origins |-> value.origins]
              seen == Projected(target, old)
  <2>1. TraceEvents(target, <<old>>, value, tick) = <<event>>
    BY <1>0, <1>3 DEF TraceEvents
  <2>2. ApplyEvent(seen, event) = Unknown(value.origins)
    BY DEF ApplyEvent
  <2>3. Projected(target, value) = Unknown(value.origins)
    BY <1>3, ShownFacts
  <2>. QED  BY <1>3, <2>1, <2>2, <2>3 DEF Event
<1>4. CASE old # value /\ IsKnown(old) /\ IsKnown(value)
  <2>. DEFINE D == ChangedSignals(target, FALSE, old.bus, value.bus)
              changes == [s \in D |-> Carried(value.bus, s)]
              event == [kind |-> "known", tick |-> tick, reset |-> FALSE, changes |-> changes]
              base == Shown(target, old.bus)
  <2>1. TraceEvents(target, <<old>>, value, tick) = IF changes # <<>> THEN <<event>> ELSE <<>>
    BY <1>0, <1>4, Zenon DEF TraceEvents, KnownEvent
  <2>2. /\ IsSparse(value.bus) /\ Projected(target, value) = Known(Shown(target, value.bus))
        /\ IsSparse(old.bus) /\ Projected(target, old) = Known(base)
    BY <1>4, ShownFacts
  <2>. HIDE DEF D
  <2>4. DOMAIN changes = D /\ \A s \in DOMAIN changes : changes[s] = Carried(value.bus, s)
    OBVIOUS
  <2>. HIDE DEF changes
  <2>3. /\ Sparse(Override(changes, base)) = Shown(target, value.bus)
        /\ DOMAIN changes = {} => base = Shown(target, value.bus)
    BY <2>2, <2>4, ChangesKept, Zenon DEF D
  <2>8. changes = <<>> => DOMAIN changes = {}
    OBVIOUS
  <2>. HIDE DEF base
  <2>5. ApplyEvent(Known(base), event) = Known(Sparse(Override(changes, base)))
    BY BusValues DEF ApplyEvent
  <2>6. CASE changes = <<>>
    BY <1>4, <2>1, <2>2, <2>3, <2>6, <2>8
  <2>7. CASE changes # <<>>
    BY <1>0, <1>4, <2>1, <2>2, <2>3, <2>5, <2>7 DEF Event
  <2>. QED  BY <2>6, <2>7
<1>. QED  BY <1>1, <1>2, <1>3, <1>4
-----------------------------------------------------------------------------
(* The events of a target, from its registration on.                        *)

LEMMA Single ==
    ASSUME NEW x
    PROVE  IsSequence(<<x>>) /\ Len(<<x>>) = 1 /\ <<x>>[1] = x
<1>1. <<x>> = [i \in 1 .. 1 |-> <<x>>[i]] /\ <<x>>[1] = x
  OBVIOUS
<1>. QED  BY <1>1, SequenceMade, Zenon

LEMMA TrackedFirst ==
    ASSUME NEW target, NEW value, IsBusValue(value)
    PROVE  Tracked(target, TraceEvents(target, <<>>, value, 0), <<value>>, 0)
<1>. DEFINE shown == Projected(target, value)
<1>1. <<>> # <<value>>
  OBVIOUS
<1>2. PICK event : /\ TraceEvents(target, <<>>, value, 0) = <<event>>
                   /\ Event(target, Known(ZeroBus), <<>>, value, 0, event)
  BY <1>1, FirstEvent
<1>3. PICK events : events = <<event>>
  BY Zenon
<1>4. PICK values : values = <<value>>
  BY Zenon
<1>5. /\ IsSequence(events) /\ Len(events) = 1 /\ events[1] = event
      /\ IsSequence(values) /\ Len(values) = 1 /\ values[1] = value
  BY <1>3, <1>4, Single
<1>6. /\ event.tick = 0 /\ ApplyEvent(Known(ZeroBus), event) = shown
      /\ IsKnown(value) => event.kind = "known"
      /\ ~(event.kind = "known" /\ ~event.reset)
  BY <1>2 DEF Event
<1>7. Ordered(events, 0)
  BY <1>5, <1>6 DEF Ordered
<1>8. \E e : EventChain(e, events) /\ GivesBack(target, e, events, values, 0)
  <2>. DEFINE e == [i \in 0 .. 1 |-> IF i = 0 THEN Known(ZeroBus) ELSE shown]
  <2>1. e[0] = Known(ZeroBus) /\ e[1] = shown
    OBVIOUS
  <2>. HIDE DEF e
  <2>2. EventChain(e, events)
    BY <1>5, <1>6, <2>1 DEF EventChain
  <2>3. GivesBack(target, e, events, values, 0)
    BY <1>5, <2>1 DEF GivesBack
  <2>. QED  BY <2>2, <2>3
<1>9. Tracked(target, events, values, 0)
  BY <1>5, <1>6, <1>7, <1>8 DEF Tracked
<1>. QED  BY <1>2, <1>3, <1>4, <1>9

(* One more tick without an event.                                          *)
LEMMA TrackedKept ==
    ASSUME NEW target, NEW events, NEW values, NEW endTick \in Nat,
           Tracked(target, events, values, endTick),
           NEW value, IsBusValue(value),
           Projected(target, value) = Projected(target, values[endTick + 1]),
           IsKnown(value) => IsKnown(values[endTick + 1])
    PROVE  Tracked(target, events, Append(values, value), endTick + 1)
<1>. DEFINE n == Len(events)
            all == Append(values, value)
<1>1. /\ IsSequence(events) /\ n \in Nat /\ n > 0
      /\ \A i \in 1 .. n : events[i].tick \in 0 .. endTick
  BY SequenceFacts DEF Tracked, Ordered
<1>2. IsSequence(values) /\ Len(values) = endTick + 1
  BY DEF Tracked
<1>3. /\ IsSequence(all) /\ Len(all) = endTick + 2
      /\ \A i \in 1 .. endTick + 1 : all[i] = values[i]
      /\ all[endTick + 2] = value
  BY <1>2, AppendFacts
<1>. HIDE DEF n, all
<1>4. Ordered(events, endTick + 1)
  BY <1>1 DEF Tracked, Ordered
<1>5. \A i \in 1 .. endTick + 2 : IsBusValue(all[i])
  <2>1. \A i \in 1 .. endTick + 1 : IsBusValue(values[i])
    BY DEF Tracked
  <2>. QED  BY <1>3, <2>1
<1>6. IsKnown(value) => events[Len(events)].kind = "known"
  BY DEF Tracked
<1>7. PICK e : EventChain(e, events) /\ GivesBack(target, e, events, values, endTick)
  BY DEF Tracked
<1>8. ASSUME NEW tick \in 0 .. endTick + 1, NEW k \in 1 .. Len(events),
             events[k].tick <= tick, k < Len(events) => events[k + 1].tick > tick
      PROVE  e[k] = Projected(target, all[tick + 1])
  <2>1. CASE tick <= endTick
    <3>1. tick \in 0 .. endTick /\ all[tick + 1] = values[tick + 1]
      BY <1>3, <2>1
    <3>. QED  BY <1>7, <1>8, <3>1 DEF GivesBack
  <2>2. CASE tick = endTick + 1
    <3>1. k = Len(events)
      <4>1. SUFFICES ASSUME k < Len(events) PROVE FALSE
        BY <1>1 DEF n
      <4>2. k + 1 \in 1 .. n
        BY <1>1, <4>1 DEF n
      <4>. QED  BY <1>1, <1>8, <2>2, <4>1, <4>2
    <3>2. k \in 1 .. Len(events) /\ ~(k < Len(events)) /\ events[k].tick <= endTick
      BY <1>1, <3>1 DEF n
    <3>3. endTick \in 0 .. endTick
      OBVIOUS
    <3>4. e[k] = Projected(target, values[endTick + 1])
      BY <1>7, <3>2, <3>3 DEF GivesBack
    <3>5. tick + 1 = endTick + 2
      BY <2>2
    <3>. QED  BY <1>3, <3>4, <3>5
  <2>. QED  BY <2>1, <2>2
<1>9. GivesBack(target, e, events, all, endTick + 1)
  BY <1>8 DEF GivesBack
<1>10. (endTick + 1) + 1 = endTick + 2
  OBVIOUS
<1>11. Tracked(target, events, all, endTick + 1)
  BY <1>3, <1>4, <1>5, <1>6, <1>7, <1>9, <1>10 DEF Tracked
<1>. QED  BY <1>11 DEF all

(* One more tick with an event.                                             *)
LEMMA TrackedEvent ==
    ASSUME NEW target, NEW events, NEW values, NEW endTick \in Nat,
           Tracked(target, events, values, endTick),
           NEW value, IsBusValue(value), NEW event,
           Event(target, Projected(target, values[endTick + 1]), <<values[endTick + 1]>>,
                 value, endTick + 1, event)
    PROVE  Tracked(target, events \o <<event>>, Append(values, value), endTick + 1)
<1>. DEFINE n == Len(events)
            all == Append(values, value)
            seen == Projected(target, values[endTick + 1])
<1>1. /\ IsSequence(events) /\ n \in Nat /\ n > 0 /\ events[1].tick = 0
      /\ \A i \in 1 .. n : events[i].tick \in 0 .. endTick
  BY SequenceFacts DEF Tracked, Ordered
<1>2. IsSequence(values) /\ Len(values) = endTick + 1
  BY DEF Tracked
<1>3. /\ IsSequence(all) /\ Len(all) = endTick + 2
      /\ \A i \in 1 .. endTick + 1 : all[i] = values[i]
      /\ all[endTick + 2] = value
  BY <1>2, AppendFacts
<1>4. PICK more : more = events \o <<event>>
  BY Zenon
<1>5. /\ IsSequence(more) /\ Len(more) = n + 1
      /\ \A i \in 1 .. n : more[i] = events[i]
      /\ more[n + 1] = event
  <2>1. IsSequence(<<event>>) /\ Len(<<event>>) = 1 /\ <<event>>[1] = event
    BY Single
  <2>2. /\ IsSequence(more) /\ Len(more) = n + Len(<<event>>)
        /\ \A i \in 1 .. n : more[i] = events[i]
        /\ \A i \in 1 .. Len(<<event>>) : more[n + i] = <<event>>[i]
    BY <1>1, <1>4, <2>1, ConcatFacts
  <2>3. 1 \in 1 .. Len(<<event>>)
    BY <2>1
  <2>. QED  BY <2>1, <2>2, <2>3
<1>. HIDE DEF all
<1>6. /\ event.tick = endTick + 1 /\ ApplyEvent(seen, event) = Projected(target, value)
      /\ IsKnown(value) => event.kind = "known"
      /\ event.kind = "known" /\ ~event.reset => IsKnown(values[endTick + 1])
  BY DEF Event
<1>7. IsKnown(values[endTick + 1]) => events[n].kind = "known"
  BY DEF Tracked
<1>8. PICK e : EventChain(e, events) /\ GivesBack(target, e, events, values, endTick)
  BY DEF Tracked
<1>9. e[n] = seen
  <2>1. endTick \in 0 .. endTick /\ n \in 1 .. n /\ ~(n < n)
    BY <1>1
  <2>2. events[n].tick <= endTick
    BY <1>1, <2>1
  <2>. QED  BY <1>8, <2>1, <2>2 DEF GivesBack
<1>. HIDE DEF seen
<1>10. Ordered(more, endTick + 1)
  <2>1. /\ \A i \in 2 .. n : events[i - 1].tick < events[i].tick
        /\ \A i \in 1 .. n : events[i].kind = "known" /\ ~events[i].reset
                                 => i > 1 /\ events[i - 1].kind = "known"
    BY DEF Tracked, Ordered
  <2>2. \A i \in 1 .. n + 1 : i \in 1 .. n \/ i = n + 1
    BY <1>1
  <2>3. (n + 1) - 1 = n /\ n + 1 > 1 /\ n \in 1 .. n
    BY <1>1
  <2>4. \A i \in 2 .. n + 1 : i - 1 \in 1 .. n /\ (i \in 2 .. n \/ i = n + 1)
    BY <1>1
  <2>5. \A i \in 1 .. n + 1 : more[i].tick \in 0 .. endTick + 1
    BY <1>1, <1>5, <1>6, <2>2
  <2>6. \A i \in 2 .. n + 1 : more[i - 1].tick < more[i].tick
    <3>. TAKE i \in 2 .. n + 1
    <3>1. i - 1 \in 1 .. n /\ more[i - 1] = events[i - 1]
      BY <1>5, <2>4
    <3>2. CASE i \in 2 .. n
      <4>1. i \in 1 .. n
        BY <1>1, <3>2
      <4>. QED  BY <1>5, <2>1, <3>1, <3>2, <4>1
    <3>3. CASE i = n + 1
      BY <1>1, <1>5, <1>6, <3>1, <3>3
    <3>. QED  BY <2>4, <3>2, <3>3
  <2>7. ASSUME NEW i \in 1 .. n + 1, more[i].kind = "known", ~more[i].reset
        PROVE  i > 1 /\ more[i - 1].kind = "known"
    <3>1. CASE i \in 1 .. n
      <4>1. i > 1 /\ events[i - 1].kind = "known"
        BY <1>5, <2>1, <2>7, <3>1
      <4>2. i - 1 \in 1 .. n
        BY <1>1, <3>1, <4>1
      <4>. QED  BY <1>5, <4>1, <4>2
    <3>2. CASE i = n + 1
      BY <1>5, <1>6, <1>7, <2>3, <2>7, <3>2
    <3>. QED  BY <2>2, <3>1, <3>2
  <2>8. Len(more) > 0 /\ more[1].tick = 0
    BY <1>1, <1>5
  <2>. QED  BY <1>5, <2>5, <2>6, <2>7, <2>8 DEF Ordered
<1>11. PICK f : /\ EventChain(f, more) /\ \A i \in 1 .. n : f[i] = e[i]
                /\ f[n + 1] = Projected(target, value)
  <2>. DEFINE f == [i \in 0 .. n + 1 |-> IF i = n + 1 THEN Projected(target, value) ELSE e[i]]
  <2>1. /\ \A i \in 0 .. n : f[i] = e[i]
        /\ f[n + 1] = Projected(target, value)
    BY <1>1
  <2>. HIDE DEF f
  <2>2. /\ e[0] = Known(ZeroBus)
        /\ \A i \in 1 .. n : e[i] = ApplyEvent(e[i - 1], events[i])
    BY <1>8 DEF EventChain
  <2>3. f[0] = Known(ZeroBus)
    BY <1>1, <2>1, <2>2
  <2>4. ASSUME NEW i \in 1 .. n + 1
        PROVE  f[i] = ApplyEvent(f[i - 1], more[i])
    <3>1. CASE i \in 1 .. n
      <4>1. i \in 0 .. n /\ i - 1 \in 0 .. n
        BY <1>1, <3>1
      <4>2. f[i] = e[i] /\ f[i - 1] = e[i - 1] /\ more[i] = events[i]
        BY <1>5, <2>1, <3>1, <4>1
      <4>3. e[i] = ApplyEvent(e[i - 1], events[i])
        BY <2>2, <3>1
      <4>. QED  BY <4>2, <4>3
    <3>2. CASE i = n + 1
      <4>1. i - 1 = n /\ n \in 0 .. n
        BY <1>1, <3>2
      <4>2. f[i - 1] = seen /\ more[i] = event
        BY <1>5, <1>9, <2>1, <3>2, <4>1
      <4>. QED  BY <1>6, <2>1, <3>2, <4>2
    <3>. QED  BY <1>1, <3>1, <3>2
  <2>5. EventChain(f, more)
    BY <1>5, <2>3, <2>4 DEF EventChain
  <2>6. \A i \in 1 .. n : i \in 0 .. n
    BY <1>1
  <2>. QED  BY <2>1, <2>5, <2>6
<1>12. ASSUME NEW tick \in 0 .. endTick + 1, NEW k \in 1 .. Len(more),
              more[k].tick <= tick, k < Len(more) => more[k + 1].tick > tick
       PROVE  f[k] = Projected(target, all[tick + 1])
  <2>1. CASE tick <= endTick
    <3>1. tick \in 0 .. endTick /\ all[tick + 1] = values[tick + 1]
      BY <1>3, <2>1
    <3>2. k \in 1 .. n
      BY <1>1, <1>5, <1>6, <1>12, <2>1
    <3>3. more[k] = events[k] /\ f[k] = e[k]
      BY <1>5, <1>11, <3>2
    <3>4. ASSUME k < n
          PROVE  events[k + 1].tick > tick
      <4>1. k + 1 \in 1 .. n /\ k < Len(more)
        BY <1>1, <1>5, <3>2, <3>4
      <4>. QED  BY <1>5, <1>12, <4>1
    <3>. QED  BY <1>8, <1>12, <3>1, <3>2, <3>3, <3>4 DEF GivesBack
  <2>2. CASE tick = endTick + 1
    <3>1. ASSUME k < Len(more)
          PROVE  FALSE
      <4>1. k + 1 \in 1 .. n + 1 /\ more[k + 1].tick > endTick + 1
        BY <1>1, <1>5, <1>12, <2>2, <3>1
      <4>2. more[k + 1].tick \in 0 .. endTick + 1
        BY <1>5, <1>10, <4>1 DEF Ordered
      <4>. QED  BY <4>1, <4>2
    <3>2. k = n + 1
      BY <1>1, <1>5, <3>1
    <3>3. all[tick + 1] = value
      <4>1. tick + 1 = endTick + 2
        BY <2>2
      <4>. QED  BY <1>3, <4>1
    <3>. QED  BY <1>11, <3>2, <3>3
  <2>. QED  BY <2>1, <2>2
<1>13. GivesBack(target, f, more, all, endTick + 1)
  BY <1>12 DEF GivesBack
<1>14. \A i \in 1 .. endTick + 2 : IsBusValue(all[i])
  <2>1. \A i \in 1 .. endTick + 1 : IsBusValue(values[i])
    BY DEF Tracked
  <2>. QED  BY <1>3, <2>1
<1>15. (endTick + 1) + 1 = endTick + 2
  OBVIOUS
<1>16. Tracked(target, more, all, endTick + 1)
  BY <1>3, <1>5, <1>6, <1>10, <1>11, <1>13, <1>14, <1>15 DEF Tracked
<1>. QED  BY <1>4, <1>16 DEF all

LEMMA TrackedNext ==
    ASSUME NEW target, NEW events, NEW values, NEW endTick \in Nat,
           Tracked(target, events, values, endTick), NEW value, IsBusValue(value)
    PROVE  Tracked(target,
                   events \o TraceEvents(target, <<values[endTick + 1]>>, value, endTick + 1),
                   Append(values, value), endTick + 1)
<1>1. PICK old : old = values[endTick + 1]
  OBVIOUS
<1>2. IsBusValue(old)
  <2>1. endTick + 1 \in 1 .. endTick + 1
    OBVIOUS
  <2>. QED  BY <1>1, <2>1 DEF Tracked
<1>3. \/ /\ TraceEvents(target, <<old>>, value, endTick + 1) = <<>>
         /\ Projected(target, value) = Projected(target, old)
         /\ IsKnown(value) => IsKnown(old)
      \/ \E event : /\ TraceEvents(target, <<old>>, value, endTick + 1) = <<event>>
                    /\ Event(target, Projected(target, old), <<old>>, value, endTick + 1, event)
  BY <1>2, NextEvent
<1>4. CASE /\ TraceEvents(target, <<old>>, value, endTick + 1) = <<>>
           /\ Projected(target, value) = Projected(target, old)
           /\ IsKnown(value) => IsKnown(old)
  <2>1. Tracked(target, events, Append(values, value), endTick + 1)
    BY <1>1, <1>4, TrackedKept
  <2>2. events \o <<>> = events
    BY DEF Tracked, Ordered, IsSequence
  <2>. QED  BY <1>1, <1>4, <2>1, <2>2, Zenon
<1>5. CASE \E event :
              /\ TraceEvents(target, <<old>>, value, endTick + 1) = <<event>>
              /\ Event(target, Projected(target, old), <<old>>, value, endTick + 1, event)
  <2>1. PICK event :
              /\ TraceEvents(target, <<old>>, value, endTick + 1) = <<event>>
              /\ Event(target, Projected(target, old), <<old>>, value, endTick + 1, event)
    BY <1>5
  <2>2. Tracked(target, events \o <<event>>, Append(values, value), endTick + 1)
    BY <1>1, <2>1, TrackedEvent
  <2>. QED  BY <1>1, <2>1, <2>2
<1>. QED  BY <1>3, <1>4, <1>5
-----------------------------------------------------------------------------
(* What is tracked is given back by the reader.                             *)

LEMMA MaxFacts ==
    ASSUME NEW n \in Nat, NEW S \in SUBSET (0 .. n), S # {}
    PROVE  Max(S) \in S /\ \A y \in S : Max(S) >= y
<1>1. \E some \in S : some >= 0
  <2>1. PICK some : some \in S
    OBVIOUS
  <2>. QED  BY <2>1
<1>2. \E x \in S : \A y \in S : x >= y
  <2>. DEFINE G == {m \in Nat : m <= n => (\E y \in S : y >= m) \/ (\E x \in S : \A y \in S : x >= y)}
  <2>1. 0 \in G
    BY <1>1
  <2>2. ASSUME NEW m \in G
        PROVE  m + 1 \in G
    <3>1. CASE \E y \in S : y >= m + 1
      BY <3>1
    <3>2. CASE ~(\E y \in S : y >= m + 1)
      <4>1. \A y \in S : y <= m
        BY <3>2
      <4>2. SUFFICES ASSUME m + 1 <= n, NEW x \in S, x >= m
                     PROVE  \E z \in S : \A y \in S : z >= y
        BY <2>2
      <4>3. \A y \in S : x >= y
        BY <4>1, <4>2
      <4>. QED  BY <4>3
    <3>. QED  BY <3>1, <3>2
  <2>3. G = Nat
    <3>. G \in SUBSET Nat
      OBVIOUS
    <3>. HIDE DEF G
    <3>. QED  BY <2>1, <2>2, NaturalInduction
  <2>4. n \in G
    BY <2>3, Zenon
  <2>5. (\E y \in S : y >= n) \/ (\E x \in S : \A y \in S : x >= y)
    BY <2>4
  <2>6. \A y \in S : y <= n
    OBVIOUS
  <2>. QED  BY <2>5, <2>6
<1>. QED  BY <1>2, Zenon DEF Max

LEMMA ReplayFacts ==
    ASSUME NEW s, IsSequence(s), NEW e, EventChain(e, s), NEW m \in 1 .. Len(s)
    PROVE  FoldLeft(ApplyEvent, Known(ZeroBus), SubSeq(s, 1, m)) = e[m]
<1>1. PICK t : t = SubSeq(s, 1, m)
  BY Zenon
<1>2. Len(t) = m /\ m \in Nat /\ DOMAIN t = 1 .. m /\ \A i \in 1 .. m : t[i] = s[i]
  BY <1>1, SequenceFacts DEF IsSequence
<1>3. \E d : /\ EventFold!Runs(d, Known(ZeroBus), t)
             /\ EventFold!Result(Known(ZeroBus), t) = d[Len(t)]
  <2>1. Len(t) \in Nat /\ DOMAIN t = 1 .. Len(t)
    BY <1>2
  <2>. QED  BY <2>1, EventFold!FoldLeftRuns, FoldsInduct, Zenon
<1>4. EventFold!Result(Known(ZeroBus), t) = FoldLeft(ApplyEvent, Known(ZeroBus), t)
  BY Zenon DEF FoldLeft, MapThenFoldSet, Max, EventFold!Result,
               EventFold!MapThenFoldSet, EventFold!Greatest
<1>5. PICK d : /\ d[0] = Known(ZeroBus)
               /\ \A i \in 1 .. Len(t) : d[i] = ApplyEvent(d[i - 1], t[i])
               /\ FoldLeft(ApplyEvent, Known(ZeroBus), t) = d[Len(t)]
  BY <1>3, <1>4, Zenon DEF EventFold!Runs
<1>6. /\ e[0] = Known(ZeroBus)
      /\ \A i \in 1 .. Len(s) : e[i] = ApplyEvent(e[i - 1], s[i])
  BY DEF EventChain
<1>. DEFINE G == {i \in Nat : i <= m => e[i] = d[i]}
<1>7. 0 \in G
  BY <1>5, <1>6
<1>8. ASSUME NEW i \in G
      PROVE  i + 1 \in G
  <2>1. CASE i + 1 <= m
    <3>1. /\ i + 1 \in 1 .. Len(t) /\ i + 1 \in 1 .. Len(s) /\ t[i + 1] = s[i + 1]
          /\ (i + 1) - 1 = i /\ e[i] = d[i]
      BY <1>2, <2>1, SequenceFacts
    <3>2. /\ e[i + 1] = ApplyEvent(e[(i + 1) - 1], s[i + 1])
          /\ d[i + 1] = ApplyEvent(d[(i + 1) - 1], t[i + 1])
      BY <1>5, <1>6, <3>1, Zenon
    <3>3. e[i + 1] = d[i + 1]
      BY <3>1, <3>2
    <3>. QED  BY <3>3
  <2>. QED  BY <2>1
<1>9. G = Nat
  <2>. G \in SUBSET Nat
    OBVIOUS
  <2>. HIDE DEF G
  <2>. QED  BY <1>7, <1>8, NaturalInduction, Zenon
<1>10. e[m] = d[m]
  BY <1>2, <1>9
<1>. QED  BY <1>1, <1>2, <1>5, <1>10

LEMMA TrackedReplays ==
    ASSUME NEW target, NEW events, NEW values, NEW endTick \in Nat,
           Tracked(target, events, values, endTick)
    PROVE  /\ Readable(events, endTick)
           /\ \A tick \in 0 .. endTick :
                 Replayed(events, tick) = Projected(target, values[tick + 1])
<1>. DEFINE n == Len(events)
<1>1. /\ IsSequence(events) /\ n \in Nat /\ n > 0 /\ events[1].tick = 0 /\ DOMAIN events = 1 .. n
      /\ \A i \in 1 .. n : events[i].tick \in 0 .. endTick
      /\ \A i \in 2 .. n : events[i - 1].tick < events[i].tick
      /\ \A i \in 1 .. n : events[i].kind = "known" /\ ~events[i].reset
                               => i > 1 /\ events[i - 1].kind = "known"
  BY SequenceFacts DEF Tracked, Ordered
<1>2. Readable(events, endTick)
  <2>1. events # <<>> /\ n \in 1 .. n
    BY <1>1
  <2>. QED  BY <1>1, <2>1 DEF Readable
<1>3. PICK e : EventChain(e, events) /\ GivesBack(target, e, events, values, endTick)
  BY DEF Tracked
<1>4. ASSUME NEW tick \in 0 .. endTick
      PROVE  Replayed(events, tick) = Projected(target, values[tick + 1])
  <2>. DEFINE S == {0} \cup {i \in DOMAIN events : events[i].tick <= tick}
              m == Max(S)
  <2>1. S \in SUBSET (0 .. n) /\ S # {} /\ 1 \in S
    BY <1>1
  <2>2. m \in S /\ \A y \in S : m >= y
    <3>. HIDE DEF S
    <3>. QED  BY <1>1, <2>1, MaxFacts, Zenon
  <2>3. m \in 1 .. n /\ events[m].tick <= tick
    BY <1>1, <2>1, <2>2
  <2>4. m < n => events[m + 1].tick > tick
    <3>1. SUFFICES ASSUME m < n, ~(events[m + 1].tick > tick)
                   PROVE  FALSE
      OBVIOUS
    <3>2. m + 1 \in 1 .. n
      BY <1>1, <2>3, <3>1
    <3>3. events[m + 1].tick <= tick
      BY <1>1, <3>1, <3>2
    <3>4. m + 1 \in S
      BY <1>1, <3>2, <3>3
    <3>5. m >= m + 1
      BY <2>2, <3>4, Zenon
    <3>. HIDE DEF S
    <3>. QED  BY <1>1, <2>3, <3>5
  <2>5. Replayed(events, tick) = FoldLeft(ApplyEvent, Known(ZeroBus), SubSeq(events, 1, m))
    BY DEF Replayed
  <2>. HIDE DEF m
  <2>6. Replayed(events, tick) = e[m]
    BY <1>1, <1>3, <2>3, <2>5, ReplayFacts
  <2>7. e[m] = Projected(target, values[tick + 1])
    BY <1>3, <2>3, <2>4 DEF GivesBack
  <2>. QED  BY <2>6, <2>7
<1>. QED  BY <1>2, <1>4

LEMMA TargetFacts ==
    ASSUME Provisions, NEW target, TargetOK(target),
           NEW networks, \A n \in DOMAIN networks : IsBusValue(networks[n]),
           NEW committed, \A name \in DOMAIN committed : IsBusValue(committed[name]),
           DOMAIN objects.committed \subseteq DOMAIN committed
    PROVE  IsBusValue(TargetValue(target, networks, committed))
<1>1. CASE IsNetworkTarget(target)
  <2>1. TargetValue(target, networks, committed) = ReadNetwork(networks, target.network)
    BY <1>1 DEF TargetValue, IsNetworkTarget
  <2>. QED  BY <2>1, BusValues, SparseFacts DEF ReadNetwork
<1>2. CASE target.kind = "object-input"
  <2>1. TargetValue(target, networks, committed)
            = ConnectorInput(networks, Connector(target.connector))
    BY <1>2 DEF TargetValue, IsNetworkTarget
  <2>2. ConnectorAssumption(Connector(target.connector))
    BY <1>2, ConnectorFacts DEF TargetOK
  <2>. QED  BY <2>1, <2>2, InputFacts
<1>3. CASE target.kind = "object-output"
  <2>1. TargetValue(target, networks, committed) = committed[target.connector]
    BY <1>3 DEF TargetValue, IsNetworkTarget
  <2>. QED  BY <1>3, <2>1 DEF TargetOK
<1>. QED  BY <1>1, <1>2, <1>3 DEF TargetOK, IsNetworkTarget

LEMMA TracedSame ==
    ASSUME Traced, Names \subseteq Names',
           DOMAIN objects.committed \subseteq DOMAIN objects'.committed,
           UNCHANGED <<kernel, trace, history>>
    PROVE  Traced'
<1>1. /\ trace'.endTick = kernel'.tick
      /\ DOMAIN trace'.previous = trace'.targets
      /\ DOMAIN trace'.events = trace'.targets
      /\ DOMAIN history' = trace'.targets
  BY DEF Traced
<1>2. ASSUME NEW target \in trace'.targets
      PROVE  /\ TargetOK(target)'
             /\ trace'.previous[target] = history'[target][kernel'.tick + 1]
             /\ Tracked(target, trace'.events[target], history'[target], kernel'.tick)
  <2>1. /\ TargetOK(target)
        /\ trace.previous[target] = history[target][kernel.tick + 1]
        /\ Tracked(target, trace.events[target], history[target], kernel.tick)
    BY <1>2 DEF Traced
  <2>. QED  BY <2>1 DEF TargetOK
<1>. QED  BY <1>1, <1>2 DEF Traced

LEMMA TracedObserve ==
    ASSUME Typed, Traced, Observe
    PROVE  Traced'
<1>. USE DEF Typed
<1>1. PICK target \in Targets : Trace(target)
  BY DEF Observe
<1>. DEFINE value == TargetValue(target, kernel.networks, objects.committed)
            events == TraceEvents(target, <<>>, value, 0)
<1>2. /\ kernel.tick = 0 /\ target \notin trace.targets
      /\ trace' = [trace EXCEPT !.targets = @ \cup {target},
                       !.previous = With(@, target, value), !.events = With(@, target, events)]
      /\ history' = With(history, target, <<value>>)
      /\ UNCHANGED <<kernel, objects>>
  BY <1>1 DEF Trace
<1>3. TargetOK(target)
  <2>1. target.kind \in {"network", "signal", "object-input", "object-output"}
    BY TargetsAssumption
  <2>2. target.kind = "object-input" => \E c \in Connectors : c.name = target.connector
    BY <1>1 DEF Trace, IsNetworkTarget
  <2>3. target.kind = "object-output" => target.connector \in DOMAIN objects.committed
    BY <1>1 DEF Trace
  <2>. QED  BY <2>1, <2>2, <2>3 DEF TargetOK, Names
<1>4. IsBusValue(value)
  <2>1. /\ Provisions
        /\ \A n \in DOMAIN kernel.networks : IsBusValue(kernel.networks[n])
        /\ \A name \in DOMAIN objects.committed : IsBusValue(objects.committed[name])
    BY DEF Readings, Named
  <2>. QED  BY <1>3, <2>1, TargetFacts
<1>. HIDE DEF value
<1>5. Tracked(target, events, <<value>>, 0) /\ value = <<value>>[0 + 1]
  BY <1>4, TrackedFirst
<1>. HIDE DEF events
<1>6. /\ trace'.targets = trace.targets \cup {target} /\ trace'.endTick = trace.endTick
      /\ trace'.previous = With(trace.previous, target, value)
      /\ trace'.events = With(trace.events, target, events)
  BY <1>2 DEF Fields
<1>7. /\ DOMAIN trace'.previous = trace'.targets
      /\ DOMAIN trace'.events = trace'.targets
      /\ DOMAIN history' = trace'.targets
      /\ trace'.previous[target] = value /\ trace'.events[target] = events
      /\ history'[target] = <<value>>
      /\ \A other \in trace.targets :
            /\ trace'.previous[other] = trace.previous[other]
            /\ trace'.events[other] = trace.events[other]
            /\ history'[other] = history[other]
  <2>1. /\ DOMAIN trace.previous = trace.targets
        /\ DOMAIN trace.events = trace.targets
        /\ DOMAIN history = trace.targets
    BY DEF Traced
  <2>2. /\ DOMAIN trace'.previous = trace'.targets /\ trace'.previous[target] = value
        /\ \A other \in trace.targets : trace'.previous[other] = trace.previous[other]
    BY <1>2, <1>6, <2>1 DEF With, Override
  <2>3. /\ DOMAIN trace'.events = trace'.targets /\ trace'.events[target] = events
        /\ \A other \in trace.targets : trace'.events[other] = trace.events[other]
    BY <1>2, <1>6, <2>1 DEF With, Override
  <2>4. /\ DOMAIN history' = trace'.targets /\ history'[target] = <<value>>
        /\ \A other \in trace.targets : history'[other] = history[other]
    BY <1>2, <1>6, <2>1 DEF With, Override
  <2>. QED  BY <2>2, <2>3, <2>4
<1>8. ASSUME NEW other \in trace'.targets
      PROVE  /\ TargetOK(other)'
             /\ trace'.previous[other] = history'[other][kernel'.tick + 1]
             /\ Tracked(other, trace'.events[other], history'[other], kernel'.tick)
  <2>1. \A o : TargetOK(o) => TargetOK(o)'
    BY <1>2 DEF TargetOK, Names, Connectors
  <2>2. CASE other = target
    BY <1>2, <1>3, <1>5, <1>7, <2>1, <2>2
  <2>3. CASE other # target
    <3>1. other \in trace.targets
      BY <1>6, <2>3
    <3>2. /\ TargetOK(other)
          /\ trace.previous[other] = history[other][kernel.tick + 1]
          /\ Tracked(other, trace.events[other], history[other], kernel.tick)
      BY <3>1 DEF Traced
    <3>. QED  BY <1>2, <1>7, <2>1, <3>1, <3>2
  <2>. QED  BY <2>2, <2>3
<1>9. trace'.endTick = kernel'.tick
  BY <1>2, <1>6 DEF Traced
<1>. QED  BY <1>7, <1>8, <1>9 DEF Traced

LEMMA TracedCommits ==
    ASSUME Typed, Traced, CommitBoundary
    PROVE  Traced'
<1>. USE DEF Typed
<1>. DEFINE value(t) == TargetValue(t, NewNetworks, NewObjects.committed)
            tick == kernel.tick + 1
<1>1. /\ After(NewObjects) /\ objects' = NewObjects
      /\ \A n \in DOMAIN NewNetworks : IsBusValue(NewNetworks[n])
      /\ kernel' = [tick |-> tick, networks |-> NewNetworks]
      /\ trace' = Recorded(NewNetworks, NewObjects.committed, tick)
      /\ history' = [t \in DOMAIN history |-> Append(history[t], value(t))]
      /\ Names' = Names
  BY CommitBoundaryFacts
<1>2. kernel.tick \in Nat /\ kernel'.tick = tick
  BY <1>1 DEF Counters
<1>3. /\ DOMAIN objects.committed \subseteq DOMAIN NewObjects.committed
      /\ \A name \in DOMAIN NewObjects.committed : IsBusValue(NewObjects.committed[name])
  <2>1. After(NewObjects)
    BY <1>1
  <2>. QED  BY <2>1 DEF After
<1>4. /\ trace'.targets = trace.targets /\ trace'.endTick = tick
      /\ DOMAIN trace'.previous = trace'.targets
      /\ DOMAIN trace'.events = trace'.targets
      /\ DOMAIN history' = trace'.targets
      /\ \A t \in trace.targets :
            /\ trace'.previous[t] = value(t)
            /\ trace'.events[t] = trace.events[t]
                                     \o TraceEvents(t, <<trace.previous[t]>>, value(t), tick)
            /\ history'[t] = Append(history[t], value(t))
  BY <1>1, Zenon DEF Recorded, Traced
<1>5. ASSUME NEW t \in trace.targets
      PROVE  /\ TargetOK(t)'
             /\ trace'.previous[t] = history'[t][tick + 1]
             /\ Tracked(t, trace'.events[t], history'[t], tick)
  <2>1. /\ TargetOK(t)
        /\ trace.previous[t] = history[t][kernel.tick + 1]
        /\ Tracked(t, trace.events[t], history[t], kernel.tick)
    BY DEF Traced
  <2>2. IsBusValue(value(t))
    BY <1>1, <1>3, <2>1, TargetFacts, Zenon
  <2>3. PICK new : new = value(t)
    OBVIOUS
  <2>4. Tracked(t, trace.events[t] \o TraceEvents(t, <<history[t][kernel.tick + 1]>>, new, tick),
                Append(history[t], new), tick)
    BY <1>2, <2>1, <2>2, <2>3, TrackedNext
  <2>5. IsSequence(history[t]) /\ Len(history[t]) = tick
    BY <2>1 DEF Tracked
  <2>6. Append(history[t], new)[tick + 1] = new
    BY <2>5, AppendFacts
  <2>7. TargetOK(t)'
    BY <1>1, <1>3, <2>1 DEF TargetOK
  <2>. QED  BY <1>4, <2>1, <2>3, <2>4, <2>6, <2>7, Zenon
<1>. QED  BY <1>2, <1>4, <1>5 DEF Traced

LEMMA TracedStep ==
    ASSUME Typed, Traced, [Next]_vars
    PROVE  Traced'
<1>1. ASSUME UNCHANGED <<kernel, trace, history>>, objects'.adapted = objects.adapted,
             objects'.committed = objects.committed
      PROVE  Traced'
  BY <1>1, TracedSame DEF Names, Connectors
<1>2. CASE Stimulate \/ Schedule
  BY <1>1, <1>2, Zenon DEF Stimulate, Schedule, Drive, Pulse, Clear, At
<1>3. CASE Provide
  BY <1>1, <1>3, Zenon DEF Provide, Mock, Model, Provided, Typed, Fields
<1>4. CASE Control
  BY <1>1, <1>4, Zenon DEF Control, MockOutput, ClearProvider, Typed, Fields
<1>5. CASE Observe
  BY <1>5, TracedObserve
<1>6. CASE Adapt
  <2>1. PICK object \in Range(circuit.objects) : AdaptObject(object)
    BY <1>6, AdaptPicked
  <2>2. history' = history
    BY <2>1 DEF AdaptObject
  <2>. QED  BY <2>1, <2>2, AdaptedFacts, TracedSame
<1>7. CASE Advances
  BY <1>1, <1>7 DEF Advances, Tick, Settle, Advance
<1>8. CASE CallbackReturns \/ CallbackThrows \/ DeviceThrows
  BY <1>1, <1>8 DEF CallbackReturns, CallbackThrows, DeviceThrows, FailBoundary
<1>9. CASE EvaluateDevice
  BY <1>1, <1>9 DEF EvaluateDevice
<1>10. CASE CommitBoundary
  BY <1>10, TracedCommits
<1>11. CASE Finish
  BY <1>1, <1>11 DEF Finish
<1>12. CASE UNCHANGED vars
  BY <1>1, <1>12 DEF vars
<1>. QED  BY <1>2, <1>3, <1>4, <1>5, <1>6, <1>7, <1>8, <1>9, <1>10, <1>11, <1>12 DEF Next, Boundary

LEMMA AlwaysTraced == Spec => [](Typed /\ Started /\ Traced)
<1>1. Init => Traced
  <2>. SUFFICES ASSUME Init PROVE Traced
    OBVIOUS
  <2>1. /\ trace = [targets |-> {}, previous |-> NoNetworks, events |-> NoNetworks, endTick |-> 0]
        /\ kernel.tick = 0 /\ history = NoNetworks
    BY DEF Init
  <2>. QED  BY <2>1, SparseFacts DEF Traced
<1>2. Typed /\ Traced /\ [Next]_vars => Traced'
  BY TracedStep
<1>. QED  BY <1>1, <1>2, AlwaysStarted, PTL DEF Spec

(* A saved trace is accepted by the reader and gives every target back at   *)
(* every committed tick, whatever the circuit, the targets and the order in *)
(* which they were registered.                                              *)
THEOREM TraceAlwaysReplays == Spec => []TraceReplays
<1>1. Typed /\ Traced => TraceReplays
  <2>. SUFFICES ASSUME Typed, Traced, NEW target \in trace.targets
                PROVE  /\ Readable(trace.events[target], trace.endTick)
                       /\ \A tick \in 0 .. trace.endTick :
                             Replayed(trace.events[target], tick)
                                 = Projected(target, history[target][tick + 1])
    BY DEF TraceReplays
  <2>1. /\ kernel.tick \in Nat /\ trace.endTick = kernel.tick
        /\ Tracked(target, trace.events[target], history[target], kernel.tick)
    BY DEF Typed, Counters, Traced
  <2>. QED  BY <2>1, TrackedReplays
<1>. QED  BY <1>1, AlwaysTraced, PTL

(* A failed session shows what it showed when the boundary began, whichever *)
(* callback or model threw and however much had been evaluated by then.     *)
THEOREM FailedBoundaryStaysInvisible == Spec => []FailedBoundaryIsInvisible
<1>1. Typed /\ Started /\ Traced => FailedBoundaryIsInvisible
  <2>. SUFFICES ASSUME Typed, Started, Traced, session.failed # 0
                PROVE  /\ kernel = [tick |-> session.failed - 1, networks |-> begun.networks]
                       /\ trace.endTick = kernel.tick
                       /\ \A target \in trace.targets :
                             \A i \in DOMAIN trace.events[target] :
                                 trace.events[target][i].tick <= kernel.tick
                       /\ \A c \in DOMAIN begun.committed :
                             objects.committed[c] = begun.committed[c]
                       /\ \A i \in DOMAIN begun.states :
                             objects.controls[i].state = begun.states[i]
    BY DEF FailedBoundaryIsInvisible
  <2>1. /\ kernel.tick \in Nat
        /\ kernel = [tick |-> kernel.tick, networks |-> kernel.networks]
    BY DEF Typed, Counters, Fields
  <2>2. session.failed - 1 = kernel.tick /\ kernel.networks = begun.networks
    BY <2>1 DEF Started
  <2>3. ASSUME NEW target \in trace.targets, NEW i \in DOMAIN trace.events[target]
        PROVE  trace.events[target][i].tick <= kernel.tick
    <3>1. Ordered(trace.events[target], kernel.tick)
      BY DEF Traced, Tracked
    <3>2. i \in 1 .. Len(trace.events[target])
      BY <3>1, SequenceFacts DEF Ordered
    <3>. QED  BY <2>1, <3>1, <3>2 DEF Ordered
  <2>4. trace.endTick = kernel.tick
    BY DEF Traced
  <2>. QED  BY <2>1, <2>2, <2>3, <2>4 DEF Started
<1>. QED  BY <1>1, AlwaysStarted, AlwaysTraced, PTL
-----------------------------------------------------------------------------
(* Conditions are trees: what is said of a condition by what is said of the *)
(* conditions it is made of is said of all.  The comparisons of a condition,*)
(* whether it holds and what its value is are said in this way.             *)
Leaves(c, g) == IF ~IsGroup(c) THEN {c} ELSE UNION {g[d].leaves : d \in Children(c)}

Holds(c, g, input, each) ==
    CASE c.kind = "and" -> \A child \in Children(c) : g[child].holds
      [] c.kind = "or" -> \E child \in Children(c) : g[child].holds
      [] OTHER -> EvaluateComparison(c, input, each)

Result(c, g, values) ==
    IF IsGroup(c)
    THEN GroupResult(c.kind, [i \in DOMAIN c.conditions |-> g[c.conditions[i]].result])
    ELSE ComparisonResult(c, values)

ConditionStep(c, g, input, each, values) ==
    [leaves |-> Leaves(c, g), holds |-> Holds(c, g, input, each), result |-> Result(c, g, values)]

LEMMA ChildrenFacts ==
    /\ \A c \in Conditions : Children(c) \subseteq Conditions
    /\ \A S \in SUBSET Conditions : S # {} => \E c \in S : Children(c) \cap S = {}
<1>1. \A c \in Conditions : IsGroup(c) => c.conditions \in Seq(Conditions)
  BY ConditionsAssumption
<1>2. \A c \in Conditions : Children(c) \subseteq Conditions
  BY <1>1 DEF Children, Range
<1>. QED  BY <1>2, ConditionsAssumption

LEMMA StepIsLocal ==
    ASSUME NEW c, NEW g, NEW h, \A d \in Children(c) : g[d] = h[d],
           NEW input, NEW each, NEW values
    PROVE  ConditionStep(c, g, input, each, values) = ConditionStep(c, h, input, each, values)
<1>1. UNION {g[d].leaves : d \in Children(c)} = UNION {h[d].leaves : d \in Children(c)}
  BY Zenon
<1>2. /\ (\A child \in Children(c) : g[child].holds) <=> (\A child \in Children(c) : h[child].holds)
      /\ (\E child \in Children(c) : g[child].holds) <=> (\E child \in Children(c) : h[child].holds)
  BY Zenon
<1>3. IsGroup(c) => [i \in DOMAIN c.conditions |-> g[c.conditions[i]].result]
                        = [i \in DOMAIN c.conditions |-> h[c.conditions[i]].result]
  <2>1. IsGroup(c) => \A i \in DOMAIN c.conditions : c.conditions[i] \in Children(c)
    BY DEF Children, Range
  <2>. QED  BY <2>1
<1>4. Leaves(c, g) = Leaves(c, h)
  BY <1>1 DEF Leaves
<1>5. Holds(c, g, input, each) = Holds(c, h, input, each)
  <2>1. CASE c.kind = "and"
    BY <2>1, <1>2 DEF Holds
  <2>2. CASE c.kind # "and" /\ c.kind = "or"
    BY <2>2, <1>2 DEF Holds
  <2>3. CASE c.kind # "and" /\ c.kind # "or"
    BY <2>3 DEF Holds
  <2>. QED  BY <2>1, <2>2, <2>3
<1>6. Result(c, g, values) = Result(c, h, values)
  BY <1>3, Zenon DEF Result
<1>. QED  BY <1>4, <1>5, <1>6 DEF ConditionStep

(* A solution for some conditions and all that they are made of.            *)
Solves(g, D, input, each, values) ==
    /\ D \subseteq Conditions
    /\ \A c \in D : Children(c) \subseteq D
    /\ \A c \in D : g[c] = ConditionStep(c, g, input, each, values)

LEMMA SolutionsAgree ==
    ASSUME NEW input, NEW each, NEW values, NEW g, NEW h, NEW D, NEW E,
           Solves(g, D, input, each, values), Solves(h, E, input, each, values)
    PROVE  \A c \in D \cap E : g[c] = h[c]
<1>. DEFINE S == {c \in D \cap E : g[c] # h[c]}
<1>1. SUFFICES ASSUME S # {} PROVE FALSE
  OBVIOUS
<1>2. S \in SUBSET Conditions
  BY DEF Solves
<1>3. PICK c \in S : Children(c) \cap S = {}
  BY <1>1, <1>2, ChildrenFacts
<1>4. Children(c) \subseteq D \cap E
  BY DEF Solves
<1>5. \A d \in Children(c) : g[d] = h[d]
  BY <1>3, <1>4
<1>6. ConditionStep(c, g, input, each, values) = ConditionStep(c, h, input, each, values)
  BY <1>5, StepIsLocal
<1>. QED  BY <1>6 DEF Solves

Solution(g, input, each, values) ==
    g = [c \in Conditions |-> ConditionStep(c, g, input, each, values)]

LEMMA ConditionsSolved ==
    ASSUME NEW input, NEW each, NEW values
    PROVE  \E g : Solution(g, input, each, values)
<1>. DEFINE P(g, D) == Solves(g, D, input, each, values)
            U == {c \in Conditions : \E D : c \in D /\ \E g : P(g, D)}
            Value(c) == CHOOSE v : \E D, g : c \in D /\ P(g, D) /\ v = g[c]
            G == [c \in U |-> Value(c)]
            New(c) == ConditionStep(c, G, input, each, values)
<1>1. ASSUME NEW D, NEW g, P(g, D)
      PROVE  D \subseteq U /\ \A c \in D : G[c] = g[c]
  <2>1. D \subseteq U
    BY <1>1 DEF Solves
  <2>2. ASSUME NEW c \in D
        PROVE  G[c] = g[c]
    <3>1. \E v : \E E, h : c \in E /\ P(h, E) /\ v = h[c]
      BY <1>1, <2>2
    <3>2. \E E, h : c \in E /\ P(h, E) /\ Value(c) = h[c]
      BY <3>1, Zenon
    <3>3. PICK E, h : c \in E /\ P(h, E) /\ Value(c) = h[c]
      BY <3>2
    <3>4. g[c] = h[c]
      BY <1>1, <3>3, SolutionsAgree
    <3>. QED  BY <2>1, <3>3, <3>4
  <2>. QED  BY <2>1, <2>2
<1>2. P(G, U)
  <2>1. ASSUME NEW c \in U
        PROVE  Children(c) \subseteq U /\ G[c] = New(c)
    <3>1. PICK D, g : c \in D /\ P(g, D)
      BY <2>1
    <3>2. Children(c) \subseteq D /\ g[c] = ConditionStep(c, g, input, each, values)
      BY <3>1 DEF Solves
    <3>3. D \subseteq U /\ \A d \in D : G[d] = g[d]
      BY <1>1, <3>1
    <3>. HIDE DEF U, G
    <3>4. New(c) = ConditionStep(c, g, input, each, values)
      BY <3>2, <3>3, StepIsLocal
    <3>. QED  BY <3>1, <3>2, <3>3, <3>4
  <2>. HIDE DEF G, New
  <2>. QED  BY <2>1 DEF Solves, New
<1>3. U = Conditions
  <2>1. SUFFICES ASSUME Conditions \ U # {} PROVE FALSE
    OBVIOUS
  <2>2. Conditions \ U \in SUBSET Conditions
    OBVIOUS
  <2>3. PICK c \in Conditions \ U : Children(c) \cap (Conditions \ U) = {}
    <3>. HIDE DEF U
    <3>. QED  BY <2>1, <2>2, ChildrenFacts, Zenon
  <2>4. Children(c) \subseteq U
    BY <2>3, ChildrenFacts
  <2>. DEFINE g == [d \in U \cup {c} |-> IF d = c THEN New(c) ELSE G[d]]
  <2>5. c \notin U
    BY <2>3
  <2>. HIDE DEF U, G, New
  <2>6. g[c] = New(c) /\ \A d \in U : g[d] = G[d]
    BY <2>5
  <2>. HIDE DEF g
  <2>7. ASSUME NEW d \in U \cup {c}
        PROVE  Children(d) \subseteq U /\ g[d] = ConditionStep(d, g, input, each, values)
    <3>1. Children(d) \subseteq U
      BY <1>2, <2>4 DEF Solves
    <3>2. ConditionStep(d, G, input, each, values) = ConditionStep(d, g, input, each, values)
      <4>1. \A k \in Children(d) : G[k] = g[k]
        BY <3>1, <2>6
      <4>. QED  BY <4>1, StepIsLocal
    <3>3. g[d] = ConditionStep(d, G, input, each, values)
      BY <1>2, <2>6 DEF Solves, New
    <3>. QED  BY <3>1, <3>2, <3>3
  <2>8. P(g, U \cup {c})
    <3>1. U \cup {c} \subseteq Conditions
      BY <1>2 DEF Solves
    <3>. QED  BY <2>7, <3>1 DEF Solves
  <2>9. c \in U
    <3>1. c \in U \cup {c}
      OBVIOUS
    <3>. QED  BY <1>1, <2>8, <3>1, Zenon
  <2>. QED  BY <2>5, <2>9
<1>4. G = [c \in U |-> G[c]]
  OBVIOUS
<1>. HIDE DEF G
<1>5. \A c \in Conditions : G[c] = ConditionStep(c, G, input, each, values)
  BY <1>2, <1>3 DEF Solves
<1>6. G = [c \in Conditions |-> ConditionStep(c, G, input, each, values)]
  <2>1. G = [c \in Conditions |-> G[c]]
    BY <1>3, <1>4
  <2>. QED  BY <1>5, <2>1, Zenon
<1>. QED  BY <1>6 DEF Solution

(* Its parts, one by one.                                                   *)
LEMMA SolutionFacts ==
    ASSUME NEW input, NEW each, NEW values, NEW g, Solution(g, input, each, values),
           NEW c \in Conditions
    PROVE  /\ g[c].leaves = Leaves(c, g)
           /\ g[c].holds = Holds(c, g, input, each)
           /\ g[c].result = Result(c, g, values)
<1>1. g[c] = ConditionStep(c, g, input, each, values)
  BY Zenon DEF Solution
<1>. QED  BY <1>1 DEF ConditionStep

LEMMA ComparisonsFacts ==
    \A c \in Conditions :
        Comparisons[c] = IF ~IsGroup(c) THEN {c} ELSE UNION {Comparisons[d] : d \in Children(c)}
<1>1. PICK g : Solution(g, 0, 0, 0)
  BY ConditionsSolved
<1>. DEFINE f == [c \in Conditions |-> g[c].leaves]
<1>2. ASSUME NEW c \in Conditions
      PROVE  f[c] = IF ~IsGroup(c) THEN {c} ELSE UNION {f[d] : d \in Children(c)}
  <2>2. g[c].leaves = IF ~IsGroup(c) THEN {c} ELSE UNION {g[d].leaves : d \in Children(c)}
    <3>1. g[c].leaves = Leaves(c, g)
      BY <1>1, SolutionFacts
    <3>. QED  BY <3>1 DEF Leaves
  <2>3. UNION {g[d].leaves : d \in Children(c)} = UNION {f[d] : d \in Children(c)}
    <3>1. \A d \in Children(c) : f[d] = g[d].leaves
      BY ChildrenFacts
    <3>. HIDE DEF f
    <3>. QED  BY <3>1, Zenon
  <2>. QED  BY <2>2, <2>3
<1>3. f = [c \in Conditions |-> f[c]]
  OBVIOUS
<1>. HIDE DEF f
<1>4. f = [c \in Conditions |-> IF ~IsGroup(c) THEN {c} ELSE UNION {f[d] : d \in Children(c)}]
  BY <1>2, <1>3, Zenon
<1>5. Comparisons = [c \in Conditions |->
          IF ~IsGroup(c) THEN {c} ELSE UNION {Comparisons[d] : d \in Children(c)}]
  BY <1>4, Zenon DEF Comparisons
<1>. QED  BY <1>5, Zenon

LEMMA EvaluateFactsOfConditions ==
    ASSUME NEW input, NEW each
    PROVE  \A c \in Conditions :
               EvaluateCondition(c, input, each) =
                   CASE c.kind = "and" -> \A d \in Children(c) : EvaluateCondition(d, input, each)
                     [] c.kind = "or" -> \E d \in Children(c) : EvaluateCondition(d, input, each)
                     [] OTHER -> EvaluateComparison(c, input, each)
<1>. DEFINE F(f) == [c \in Conditions |->
                CASE c.kind = "and" -> \A child \in Children(c) : f[child]
                  [] c.kind = "or" -> \E child \in Children(c) : f[child]
                  [] OTHER -> EvaluateComparison(c, input, each)]
            holds == CHOOSE f : f = F(f)
<1>1. \A c : EvaluateCondition(c, input, each) = holds[c]
  BY Zenon DEF EvaluateCondition
<1>2. PICK g : Solution(g, input, each, 0)
  BY ConditionsSolved
<1>. DEFINE h == [c \in Conditions |-> g[c].holds]
<1>3. h = F(h)
  <2>1. ASSUME NEW c \in Conditions
        PROVE  h[c] = F(h)[c]
    <3>2. g[c].holds =
              CASE c.kind = "and" -> \A child \in Children(c) : g[child].holds
                [] c.kind = "or" -> \E child \in Children(c) : g[child].holds
                [] OTHER -> EvaluateComparison(c, input, each)
      <4>1. g[c].holds = Holds(c, g, input, each)
        BY <1>2, SolutionFacts
      <4>. QED  BY <4>1, Zenon DEF Holds
    <3>3. \A d \in Children(c) : h[d] = g[d].holds
      BY ChildrenFacts
    <3>4. h[c] = g[c].holds
      OBVIOUS
    <3>. HIDE DEF h
    <3>5. CASE c.kind = "and"
      <4>1. g[c].holds = \A child \in Children(c) : g[child].holds
        BY <3>2, <3>5
      <4>2. (\A child \in Children(c) : g[child].holds) = \A child \in Children(c) : h[child]
        BY <3>3, Zenon
      <4>3. F(h)[c] = \A child \in Children(c) : h[child]
        BY <3>5
      <4>. QED  BY <4>1, <4>2, <4>3, <3>4, Zenon
    <3>6. CASE c.kind # "and" /\ c.kind = "or"
      <4>1. g[c].holds = \E child \in Children(c) : g[child].holds
        BY <3>2, <3>6
      <4>2. (\E child \in Children(c) : g[child].holds) = \E child \in Children(c) : h[child]
        BY <3>3, Zenon
      <4>3. F(h)[c] = \E child \in Children(c) : h[child]
        BY <3>6
      <4>. QED  BY <4>1, <4>2, <4>3, <3>4, Zenon
    <3>7. CASE c.kind # "and" /\ c.kind # "or"
      BY <3>2, <3>4, <3>7
    <3>. QED  BY <3>5, <3>6, <3>7
  <2>2. h = [c \in Conditions |-> h[c]] /\ F(h) = [c \in Conditions |-> F(h)[c]]
    OBVIOUS
  <2>. HIDE DEF h, F
  <2>. QED  BY <2>1, <2>2, Zenon
<1>. HIDE DEF h
<1>4. holds = F(holds)
  <2>1. \E f : f = F(f)
    BY <1>3
  <2>. HIDE DEF F
  <2>. QED  BY <2>1, Zenon
<1>. HIDE DEF holds
<1>. SUFFICES ASSUME NEW c \in Conditions
              PROVE  holds[c] = CASE c.kind = "and" -> \A d \in Children(c) : holds[d]
                                  [] c.kind = "or" -> \E d \in Children(c) : holds[d]
                                  [] OTHER -> EvaluateComparison(c, input, each)
  BY <1>1
<1>. QED  BY <1>4, Zenon

LEMMA ValueFactsOfConditions ==
    ASSUME NEW values
    PROVE  \A c \in Conditions :
               ValueCondition(c, values) =
                   IF IsGroup(c)
                   THEN GroupResult(c.kind, [i \in DOMAIN c.conditions |->
                                                ValueCondition(c.conditions[i], values)])
                   ELSE ComparisonResult(c, values)
<1>. DEFINE F(f) == [c \in Conditions |->
                IF IsGroup(c)
                THEN GroupResult(c.kind, [i \in DOMAIN c.conditions |-> f[c.conditions[i]]])
                ELSE ComparisonResult(c, values)]
            result == CHOOSE f : f = F(f)
<1>1. \A c : ValueCondition(c, values) = result[c]
  BY Zenon DEF ValueCondition
<1>2. PICK g : Solution(g, 0, 0, values)
  BY ConditionsSolved
<1>. DEFINE h == [c \in Conditions |-> g[c].result]
<1>3. h = F(h)
  <2>1. ASSUME NEW c \in Conditions
        PROVE  h[c] = F(h)[c]
    <3>2. g[c].result =
              IF IsGroup(c)
              THEN GroupResult(c.kind, [i \in DOMAIN c.conditions |-> g[c.conditions[i]].result])
              ELSE ComparisonResult(c, values)
      <4>1. g[c].result = Result(c, g, values)
        BY <1>2, SolutionFacts
      <4>. QED  BY <4>1, Zenon DEF Result
    <3>3. IsGroup(c) => \A i \in DOMAIN c.conditions : h[c.conditions[i]] = g[c.conditions[i]].result
      <4>1. IsGroup(c) => \A i \in DOMAIN c.conditions : c.conditions[i] \in Children(c)
        BY DEF Children, Range
      <4>. QED  BY <4>1, ChildrenFacts
    <3>4. h[c] = g[c].result
      OBVIOUS
    <3>. HIDE DEF h
    <3>5. IsGroup(c) => [i \in DOMAIN c.conditions |-> g[c.conditions[i]].result]
                            = [i \in DOMAIN c.conditions |-> h[c.conditions[i]]]
      BY <3>3
    <3>. QED  BY <3>2, <3>4, <3>5, Zenon
  <2>2. h = [c \in Conditions |-> h[c]] /\ F(h) = [c \in Conditions |-> F(h)[c]]
    OBVIOUS
  <2>. HIDE DEF h, F
  <2>. QED  BY <2>1, <2>2, Zenon
<1>. HIDE DEF h
<1>4. result = F(result)
  <2>1. \E f : f = F(f)
    BY <1>3
  <2>. HIDE DEF F
  <2>. QED  BY <2>1, Zenon
<1>. HIDE DEF result
<1>5. ASSUME NEW c \in Conditions
      PROVE  result[c] = IF IsGroup(c)
                         THEN GroupResult(c.kind, [i \in DOMAIN c.conditions |-> result[c.conditions[i]]])
                         ELSE ComparisonResult(c, values)
  BY <1>4, Zenon
<1>6. \A c \in Conditions : [i \in DOMAIN c.conditions |-> result[c.conditions[i]]]
          = [i \in DOMAIN c.conditions |-> ValueCondition(c.conditions[i], values)]
  BY <1>1, Zenon
<1>. QED  BY <1>1, <1>5, <1>6, Zenon
-----------------------------------------------------------------------------
(* A device on bus values agrees with the device on buses: what it knows it *)
(* has read on wires it knows, and the others change nothing.               *)

(* The wires that are known carry what the concrete ones do.                *)
WireMatches(value, bus) == IsKnown(value) => value.bus = bus
Matching(values, input) ==
    WireMatches(values.red, input.red) /\ WireMatches(values.green, input.green)

KnownOn(values, networks) ==
    /\ "red" \in networks => IsKnown(values.red)
    /\ "green" \in networks => IsKnown(values.green)

(* Two inputs that carry the same on some wires.                            *)
Same(a, b, networks) ==
    \A some \in SUBSET networks : SelectInput(a, some) = SelectInput(b, some)

LEMMA TwoFacts ==
    ASSUME NEW a, NEW b
    PROVE  /\ DOMAIN (<<a>> \o <<b>>) = {1, 2}
           /\ (<<a>> \o <<b>>)[1] = a /\ (<<a>> \o <<b>>)[2] = b
<1>1. <<a>> \in Seq({a, b}) /\ <<b>> \in Seq({a, b}) /\ Len(<<a>>) = 1 /\ Len(<<b>>) = 1
  OBVIOUS
<1>2. <<a>>[1] = a /\ <<b>>[1] = b
  OBVIOUS
<1>3. <<a>> \o <<b>> \in Seq({a, b}) /\ Len(<<a>> \o <<b>>) = 2
  BY <1>1
<1>4. (<<a>> \o <<b>>)[1] = <<a>>[1] /\ (<<a>> \o <<b>>)[2] = <<b>>[1]
  BY <1>1
<1>. QED  BY <1>2, <1>3, <1>4

LEMMA DependencyFacts ==
    ASSUME NEW values, NEW networks
    PROVE  IsKnown(Dependency(values, networks)) <=> KnownOn(values, networks)
<1>. DEFINE s == SelectedValues(values, networks)
<1>1. IsKnown(Dependency(values, networks)) <=> \A i \in DOMAIN s : IsKnown(s[i])
  <2>. HIDE DEF s
  <2>1. Dependency(values, networks) = AggregateValues(s)
    BY DEF Dependency, s
  <2>. QED  BY <2>1, BusValues DEF AggregateValues
<1>2. CASE "red" \in networks /\ "green" \in networks
  <2>1. s = <<values.red>> \o <<values.green>>
    BY <1>2 DEF SelectedValues
  <2>. HIDE DEF s
  <2>2. DOMAIN s = {1, 2} /\ s[1] = values.red /\ s[2] = values.green
    BY <2>1, TwoFacts
  <2>. QED  BY <1>1, <1>2, <2>2 DEF KnownOn
<1>3. CASE "red" \in networks /\ "green" \notin networks
  <2>1. s = <<values.red>>
    BY <1>3 DEF SelectedValues
  <2>. HIDE DEF s
  <2>2. DOMAIN s = {1} /\ s[1] = values.red
    BY <2>1
  <2>. QED  BY <1>1, <1>3, <2>2 DEF KnownOn
<1>4. CASE "red" \notin networks /\ "green" \in networks
  <2>1. s = <<values.green>>
    BY <1>4 DEF SelectedValues
  <2>. HIDE DEF s
  <2>2. DOMAIN s = {1} /\ s[1] = values.green
    BY <2>1
  <2>. QED  BY <1>1, <1>4, <2>2 DEF KnownOn
<1>5. CASE "red" \notin networks /\ "green" \notin networks
  <2>1. s = <<>>
    BY <1>5 DEF SelectedValues
  <2>. HIDE DEF s
  <2>2. DOMAIN s = {}
    BY <2>1
  <2>. QED  BY <1>1, <1>5, <2>2 DEF KnownOn
<1>. QED  BY <1>2, <1>3, <1>4, <1>5

LEMMA SameWhenKnown ==
    ASSUME NEW values, NEW input, Matching(values, input),
           NEW networks, KnownOn(values, networks)
    PROVE  Same(ConcreteInput(values), input, networks)
<1>. SUFFICES ASSUME NEW some \in SUBSET networks
              PROVE  SelectInput(ConcreteInput(values), some) = SelectInput(input, some)
  BY DEF Same
<1>1. "red" \in some => ConcreteInput(values).red = input.red
  BY DEF KnownOn, Matching, WireMatches, ConcreteInput, KnownBus
<1>2. "green" \in some => ConcreteInput(values).green = input.green
  BY DEF KnownOn, Matching, WireMatches, ConcreteInput, KnownBus
<1>. QED  BY <1>1, <1>2, Zenon DEF SelectInput

LEMMA ScalarSame ==
    ASSUME NEW a, NEW b, NEW operand, Same(a, b, OperandNetworks(operand))
    PROVE  /\ Scalar(operand, a) = Scalar(operand, b)
           /\ operand.kind # "constant" =>
                 SelectInput(a, operand.networks) = SelectInput(b, operand.networks)
<1>1. operand.kind # "constant" =>
          SelectInput(a, operand.networks) = SelectInput(b, operand.networks)
  BY DEF Same, OperandNetworks
<1>. QED  BY <1>1, Zenon DEF Scalar

LEMMA SameLess ==
    ASSUME NEW a, NEW b, NEW networks, Same(a, b, networks), NEW fewer \in SUBSET networks
    PROVE  Same(a, b, fewer)
BY DEF Same

(* Comparisons, and the conditions made of them.                            *)
LEMMA ComparedIsBoolean ==
    ASSUME NEW comparator \in {">", "<", "=", ">=", "<=", "!="}, NEW left, NEW right
    PROVE  Compare(left, comparator, right) \in BOOLEAN
<1>1. CASE comparator = ">"
  <2>1. (left > right) \in BOOLEAN
    OBVIOUS
  <2>. QED  BY <1>1, <2>1 DEF Compare
<1>2. CASE comparator = "<"
  <2>1. (left < right) \in BOOLEAN
    OBVIOUS
  <2>. QED  BY <1>2, <2>1 DEF Compare
<1>3. CASE comparator = "="
  <2>1. (left = right) \in BOOLEAN
    OBVIOUS
  <2>. QED  BY <1>3, <2>1 DEF Compare
<1>4. CASE comparator = ">="
  <2>1. (left >= right) \in BOOLEAN
    OBVIOUS
  <2>. QED  BY <1>4, <2>1 DEF Compare
<1>5. CASE comparator = "<="
  <2>1. (left <= right) \in BOOLEAN
    OBVIOUS
  <2>. QED  BY <1>5, <2>1 DEF Compare
<1>6. CASE comparator = "!="
  <2>1. (left # right) \in BOOLEAN
    OBVIOUS
  <2>. QED  BY <1>6, <2>1 DEF Compare
<1>. QED  BY <1>1, <1>2, <1>3, <1>4, <1>5, <1>6

LEMMA ComparisonIsBoolean ==
    ASSUME NEW c \in Conditions, ~IsGroup(c), NEW input, NEW each
    PROVE  EvaluateComparison(c, input, each) \in BOOLEAN
<1>1. c.comparator \in {">", "<", "=", ">=", "<=", "!="}
  BY ConditionsAssumption
<1>2. \A l, r : Compare(l, c.comparator, r) \in BOOLEAN
  BY <1>1, ComparedIsBoolean
<1>3. \A bus : Quantified(c, input, bus) \in BOOLEAN
  BY Zenon DEF Quantified
<1>. QED  BY <1>2, <1>3 DEF EvaluateComparison

LEMMA ComparisonSame ==
    ASSUME NEW c \in Conditions, ~IsGroup(c), NEW a, NEW b, NEW each,
           Same(a, b, OperandNetworks(c.left) \cup OperandNetworks(c.right))
    PROVE  EvaluateComparison(c, a, each) = EvaluateComparison(c, b, each)
<1>1. c.left.kind # "constant"
  BY ConditionsAssumption
<1>2. Scalar(c.right, a) = Scalar(c.right, b)
  BY SameLess, ScalarSame
<1>3. SelectInput(a, c.left.networks) = SelectInput(b, c.left.networks)
  BY <1>1, SameLess, ScalarSame
<1>4. \A bus : Quantified(c, a, bus) = Quantified(c, b, bus)
  BY <1>2, Zenon DEF Quantified
<1>. QED  BY <1>2, <1>3, <1>4, Zenon DEF EvaluateComparison

LEMMA NetworksOfConditions ==
    \A c \in Conditions :
        /\ ~IsGroup(c) =>
              ConditionNetworks(c) = OperandNetworks(c.left) \cup OperandNetworks(c.right)
        /\ \A d \in Children(c) : ConditionNetworks(d) \subseteq ConditionNetworks(c)
<1>. SUFFICES ASSUME NEW c \in Conditions
              PROVE  /\ ~IsGroup(c) =>
                           ConditionNetworks(c) = OperandNetworks(c.left) \cup OperandNetworks(c.right)
                     /\ \A d \in Children(c) : ConditionNetworks(d) \subseteq ConditionNetworks(c)
  OBVIOUS
<1>1. ASSUME ~IsGroup(c)
      PROVE  ConditionNetworks(c) = OperandNetworks(c.left) \cup OperandNetworks(c.right)
  <2>1. Comparisons[c] = {c}
    BY <1>1, ComparisonsFacts
  <2>. QED  BY <2>1 DEF ConditionNetworks
<1>2. ASSUME NEW d \in Children(c)
      PROVE  ConditionNetworks(d) \subseteq ConditionNetworks(c)
  <2>1. IsGroup(c)
    BY DEF Children
  <2>2. Comparisons[c] = UNION {Comparisons[k] : k \in Children(c)}
    BY <2>1, ComparisonsFacts
  <2>3. Comparisons[d] \subseteq Comparisons[c]
    BY <2>2
  <2>. QED  BY <2>3 DEF ConditionNetworks
<1>. QED  BY <1>1, <1>2

LEMMA ConditionIsBoolean ==
    ASSUME NEW c \in Conditions, NEW input, NEW each
    PROVE  EvaluateCondition(c, input, each) \in BOOLEAN
<1>1. EvaluateCondition(c, input, each) =
          CASE c.kind = "and" -> \A d \in Children(c) : EvaluateCondition(d, input, each)
            [] c.kind = "or" -> \E d \in Children(c) : EvaluateCondition(d, input, each)
            [] OTHER -> EvaluateComparison(c, input, each)
  BY EvaluateFactsOfConditions, Zenon
<1>2. CASE IsGroup(c)
  <2>1. c.kind = "and" \/ (c.kind # "and" /\ c.kind = "or")
    BY <1>2 DEF IsGroup
  <2>. QED  BY <1>1, <2>1
<1>3. CASE ~IsGroup(c)
  <2>1. c.kind # "and" /\ c.kind # "or"
    BY <1>3 DEF IsGroup
  <2>. QED  BY <1>1, <1>3, <2>1, ComparisonIsBoolean
<1>. QED  BY <1>2, <1>3

(* The three cases of the equation.                                         *)
LEMMA ConditionCases ==
    ASSUME NEW c \in Conditions, NEW input, NEW each
    PROVE  /\ c.kind = "and" =>
                 (EvaluateCondition(c, input, each)
                      <=> \A d \in Children(c) : EvaluateCondition(d, input, each))
           /\ c.kind = "or" =>
                 (EvaluateCondition(c, input, each)
                      <=> \E d \in Children(c) : EvaluateCondition(d, input, each))
           /\ ~IsGroup(c) =>
                 EvaluateCondition(c, input, each) = EvaluateComparison(c, input, each)
<1>1. EvaluateCondition(c, input, each) =
          CASE c.kind = "and" -> \A d \in Children(c) : EvaluateCondition(d, input, each)
            [] c.kind = "or" -> \E d \in Children(c) : EvaluateCondition(d, input, each)
            [] OTHER -> EvaluateComparison(c, input, each)
  BY EvaluateFactsOfConditions, Zenon
<1>2. CASE c.kind = "and"
  BY <1>1, <1>2 DEF IsGroup
<1>3. CASE c.kind # "and" /\ c.kind = "or"
  BY <1>1, <1>3 DEF IsGroup
<1>4. CASE c.kind # "and" /\ c.kind # "or"
  BY <1>1, <1>4 DEF IsGroup
<1>. QED  BY <1>2, <1>3, <1>4

LEMMA ConditionSame ==
    ASSUME NEW a, NEW b, NEW each
    PROVE  \A c \in Conditions : Same(a, b, ConditionNetworks(c)) =>
               EvaluateCondition(c, a, each) = EvaluateCondition(c, b, each)
<1>. DEFINE S == {c \in Conditions : /\ Same(a, b, ConditionNetworks(c))
                                     /\ EvaluateCondition(c, a, each) # EvaluateCondition(c, b, each)}
<1>1. SUFFICES ASSUME S # {} PROVE FALSE
  OBVIOUS
<1>2. PICK c \in S : Children(c) \cap S = {}
  <2>1. S \in SUBSET Conditions
    OBVIOUS
  <2>. HIDE DEF S
  <2>. QED  BY <1>1, <2>1, ChildrenFacts
<1>3. /\ c \in Conditions /\ Same(a, b, ConditionNetworks(c))
      /\ EvaluateCondition(c, a, each) # EvaluateCondition(c, b, each)
  OBVIOUS
<1>4. \A d \in Children(c) : EvaluateCondition(d, a, each) = EvaluateCondition(d, b, each)
  <2>. TAKE d \in Children(c)
  <2>1. d \in Conditions /\ d \notin S
    BY <1>2, <1>3, ChildrenFacts
  <2>2. Same(a, b, ConditionNetworks(d))
    BY <1>3, NetworksOfConditions, SameLess
  <2>. QED  BY <2>1, <2>2
<1>. HIDE DEF S
<1>5. /\ EvaluateCondition(c, a, each) \in BOOLEAN
      /\ EvaluateCondition(c, b, each) \in BOOLEAN
  BY <1>3, ConditionIsBoolean
<1>6. CASE ~IsGroup(c)
  <2>1. Same(a, b, OperandNetworks(c.left) \cup OperandNetworks(c.right))
    BY <1>3, <1>6, NetworksOfConditions
  <2>. QED  BY <1>3, <1>6, <2>1, ComparisonSame, ConditionCases
<1>7. CASE c.kind = "and"
  BY <1>3, <1>4, <1>5, <1>7, ConditionCases
<1>8. CASE c.kind = "or"
  BY <1>3, <1>4, <1>5, <1>8, ConditionCases
<1>. QED  BY <1>6, <1>7, <1>8 DEF IsGroup

(* A condition that is known is what it is on the real wires, although only *)
(* some of the conditions it is made of may be known.                       *)
LEMMA KnownConditionHolds ==
    ASSUME NEW values, NEW input, Matching(values, input)
    PROVE  \A c \in Conditions : IsKnown(ValueCondition(c, values)) =>
               ValueCondition(c, values).value = EvaluateCondition(c, input, 0)
<1>. DEFINE S == {c \in Conditions : /\ IsKnown(ValueCondition(c, values))
                                     /\ ValueCondition(c, values).value
                                            # EvaluateCondition(c, input, 0)}
<1>1. SUFFICES ASSUME S # {} PROVE FALSE
  OBVIOUS
<1>2. PICK c \in S : Children(c) \cap S = {}
  <2>1. S \in SUBSET Conditions
    OBVIOUS
  <2>. HIDE DEF S
  <2>. QED  BY <1>1, <2>1, ChildrenFacts
<1>3. /\ c \in Conditions /\ IsKnown(ValueCondition(c, values))
      /\ ValueCondition(c, values).value # EvaluateCondition(c, input, 0)
  OBVIOUS
<1>4. \A d \in Children(c) : IsKnown(ValueCondition(d, values)) =>
          ValueCondition(d, values).value = EvaluateCondition(d, input, 0)
  BY <1>2, <1>3, ChildrenFacts
<1>. HIDE DEF S
<1>5. /\ EvaluateCondition(c, input, 0) \in BOOLEAN
      /\ \A d \in Children(c) : EvaluateCondition(d, input, 0) \in BOOLEAN
  BY <1>3, ConditionIsBoolean, ChildrenFacts
<1>6. \A v : IsKnown(KnownCondition(v)) /\ KnownCondition(v).value = v
  BY DEF KnownCondition, IsKnown
<1>7. CASE ~IsGroup(c)
  <2>. DEFINE read == ConditionNetworks(c)
              dependency == Dependency(values, read)
  <2>1. ValueCondition(c, values) = ComparisonResult(c, values)
    BY <1>3, <1>7, ValueFactsOfConditions, Zenon
  <2>2. IsKnown(dependency) /\ ValueCondition(c, values)
            = KnownCondition(EvaluateComparison(c, ConcreteInput(values), 0))
    <3>. HIDE DEF dependency
    <3>1. ComparisonResult(c, values)
              = IF ~IsKnown(dependency) THEN dependency
                ELSE KnownCondition(EvaluateComparison(c, ConcreteInput(values), 0))
      BY DEF ComparisonResult, dependency
    <3>. QED  BY <1>3, <2>1, <3>1
  <2>3. Same(ConcreteInput(values), input, read)
    BY <2>2, DependencyFacts, SameWhenKnown
  <2>4. read = OperandNetworks(c.left) \cup OperandNetworks(c.right)
    BY <1>3, <1>7, NetworksOfConditions
  <2>. HIDE DEF read, dependency
  <2>5. EvaluateComparison(c, ConcreteInput(values), 0) = EvaluateComparison(c, input, 0)
    BY <1>3, <1>7, <2>3, <2>4, ComparisonSame
  <2>. QED  BY <1>3, <1>6, <1>7, <2>2, <2>5, ConditionCases
<1>8. CASE IsGroup(c)
  <2>. DEFINE results == [i \in DOMAIN c.conditions |-> ValueCondition(c.conditions[i], values)]
  <2>1. ValueCondition(c, values) = GroupResult(c.kind, results)
    BY <1>3, <1>8, ValueFactsOfConditions, Zenon
  <2>2. /\ \A i \in DOMAIN results : \E d \in Children(c) : results[i] = ValueCondition(d, values)
        /\ \A d \in Children(c) : \E i \in DOMAIN results : results[i] = ValueCondition(d, values)
    BY <1>8 DEF Children, Range
  <2>3. c.kind = "and" \/ c.kind = "or"
    BY <1>8 DEF IsGroup
  <2>. HIDE DEF results
  <2>4. CASE \E i \in DOMAIN results : Decides(c.kind, results[i])
    <3>1. ValueCondition(c, values).value = (c.kind = "or")
      BY <1>6, <2>1, <2>4, Zenon DEF GroupResult
    <3>2. PICK d \in Children(c) : Decides(c.kind, ValueCondition(d, values))
      BY <2>2, <2>4
    <3>3. EvaluateCondition(d, input, 0) = (c.kind = "or")
      BY <1>4, <3>2 DEF Decides
    <3>4. CASE c.kind = "and"
      <4>1. ~EvaluateCondition(d, input, 0)
        BY <3>3, <3>4
      <4>2. ~EvaluateCondition(c, input, 0)
        BY <1>3, <3>4, <4>1, ConditionCases
      <4>. QED  BY <1>3, <1>5, <3>1, <3>4, <4>2
    <3>5. CASE c.kind = "or"
      <4>1. EvaluateCondition(d, input, 0)
        BY <3>3, <3>5
      <4>2. EvaluateCondition(c, input, 0)
        BY <1>3, <3>5, <4>1, ConditionCases
      <4>. QED  BY <1>3, <1>5, <3>1, <3>5, <4>2
    <3>. QED  BY <2>3, <3>4, <3>5
  <2>5. CASE ~\E i \in DOMAIN results : Decides(c.kind, results[i])
    <3>1. \A i \in DOMAIN results : IsKnown(results[i])
      <4>1. SUFFICES ASSUME \E i \in DOMAIN results : ~IsKnown(results[i]) PROVE FALSE
        OBVIOUS
      <4>2. ValueCondition(c, values) = AggregateValues(results)
        BY <2>1, <2>5, <4>1, Zenon DEF GroupResult
      <4>3. ~IsKnown(AggregateValues(results))
        BY <4>1, BusValues DEF AggregateValues
      <4>. QED  BY <1>3, <4>2, <4>3
    <3>2. ValueCondition(c, values).value = (c.kind = "and")
      BY <1>6, <2>1, <2>5, <3>1, Zenon DEF GroupResult
    <3>3. \A d \in Children(c) : /\ IsKnown(ValueCondition(d, values))
                                 /\ ValueCondition(d, values).value # (c.kind = "or")
      BY <2>2, <2>5, <3>1, Zenon DEF Decides
    <3>4. \A d \in Children(c) : EvaluateCondition(d, input, 0) # (c.kind = "or")
      BY <1>4, <3>3
    <3>5. CASE c.kind = "and"
      <4>1. \A d \in Children(c) : EvaluateCondition(d, input, 0)
        BY <1>5, <3>4, <3>5
      <4>2. EvaluateCondition(c, input, 0)
        BY <1>3, <3>5, <4>1, ConditionCases
      <4>. QED  BY <1>3, <1>5, <3>2, <3>5, <4>2
    <3>6. CASE c.kind = "or"
      <4>1. \A d \in Children(c) : ~EvaluateCondition(d, input, 0)
        BY <1>5, <3>4, <3>6
      <4>2. ~EvaluateCondition(c, input, 0)
        BY <1>3, <3>6, <4>1, ConditionCases
      <4>. QED  BY <1>3, <1>5, <3>2, <3>6, <4>2
    <3>. QED  BY <2>3, <3>5, <3>6
  <2>. QED  BY <2>4, <2>5
<1>. QED  BY <1>7, <1>8
-----------------------------------------------------------------------------
(* The output rows of a decider.                                            *)
LEMMA EmittedSame ==
    ASSUME NEW row, row.mode \in {"copy", "constant"},
           row.kind \in {"signal", "each", "anything", "everything"},
           NEW a, NEW b, NEW eachMode, NEW active,
           (row.mode = "copy" \/ row.kind \in {"anything", "everything"}) =>
               SelectInput(a, row.networks) = SelectInput(b, row.networks)
    PROVE  Emitted(row, a, eachMode, active) = Emitted(row, b, eachMode, active)
<1>1. CASE row.mode = "copy" \/ row.kind \in {"anything", "everything"}
  <2>1. SelectInput(a, row.networks) = SelectInput(b, row.networks)
    BY <1>1
  <2>. QED  BY <2>1, Zenon DEF Emitted
<1>2. CASE row.mode = "constant" /\ row.kind = "signal"
  <2>1. \A x : OutputValue(row, x) = Int32(row.value)
    BY <1>2 DEF OutputValue
  <2>2. \A input : Emitted(row, input, eachMode, active)
                       = BusSet(ZeroBus, row.signal,
                                IF eachMode THEN SumFunction([s \in active |-> Int32(row.value)])
                                            ELSE Int32(row.value))
    BY <1>2, <2>1 DEF Emitted
  <2>. QED  BY <2>2
<1>3. CASE row.mode = "constant" /\ row.kind = "each"
  <2>1. \A x : OutputValue(row, x) = Int32(row.value)
    BY <1>3 DEF OutputValue
  <2>2. \A input : Emitted(row, input, eachMode, active)
                       = Sparse([s \in active |-> Int32(row.value)])
    BY <1>3, <2>1 DEF Emitted
  <2>. QED  BY <2>2
<1>. QED  BY <1>1, <1>2, <1>3

IsRows(rows) ==
    \A i \in DOMAIN rows : /\ rows[i].mode \in {"copy", "constant"}
                           /\ rows[i].kind \in {"signal", "each", "anything", "everything"}

LEMMA RowsSame ==
    ASSUME NEW rows, IsRows(rows), NEW a, NEW b, Same(a, b, OutputNetworks(rows)),
           NEW eachMode, NEW active
    PROVE  EmitOutputs(rows, a, eachMode, active) = EmitOutputs(rows, b, eachMode, active)
<1>1. ASSUME NEW i \in DOMAIN rows
      PROVE  Emitted(rows[i], a, eachMode, active) = Emitted(rows[i], b, eachMode, active)
  <2>1. /\ rows[i].mode \in {"copy", "constant"}
        /\ rows[i].kind \in {"signal", "each", "anything", "everything"}
    BY DEF IsRows
  <2>2. ASSUME rows[i].mode = "copy" \/ rows[i].kind \in {"anything", "everything"}
        PROVE  SelectInput(a, rows[i].networks) = SelectInput(b, rows[i].networks)
    <3>1. rows[i].networks \in SUBSET OutputNetworks(rows)
      BY <2>2 DEF OutputNetworks
    <3>. QED  BY <3>1 DEF Same
  <2>. QED  BY <2>1, <2>2, EmittedSame
<1>2. [i \in DOMAIN rows |-> Emitted(rows[i], a, eachMode, active)]
          = [i \in DOMAIN rows |-> Emitted(rows[i], b, eachMode, active)]
  BY <1>1, Zenon
<1>. QED  BY <1>2, Zenon DEF EmitOutputs

(* The signals that Each ranges over.                                       *)
LEMMA CandidatesSame ==
    ASSUME NEW c, NEW a, NEW b, Same(a, b, ConditionNetworks(c))
    PROVE  EachCandidates(c, a) = EachCandidates(c, b)
<1>1. ASSUME NEW d \in Comparisons[c], d.left.kind = "each"
      PROVE  SelectInput(a, d.left.networks) = SelectInput(b, d.left.networks)
  <2>1. d.left.networks \in SUBSET ConditionNetworks(c)
    BY <1>1 DEF ConditionNetworks, OperandNetworks
  <2>. QED  BY <2>1 DEF Same
<1>. DEFINE ranging == {d \in Comparisons[c] : d.left.kind = "each"}
<1>2. {DOMAIN SelectInput(a, d.left.networks) : d \in ranging}
          = {DOMAIN SelectInput(b, d.left.networks) : d \in ranging}
  BY <1>1, Zenon
<1>. QED  BY <1>2, Zenon DEF EachCandidates

(* A decider reads its condition and its rows, and nothing else.            *)
LEMMA DeciderSame ==
    ASSUME NEW config, config.condition \in Conditions,
           IsRows(config.outputs), IsRows(config.elseOutputs), NEW a, NEW b,
           UsesEach(config.condition) =>
               Same(a, b, ConditionNetworks(config.condition)
                              \cup OutputNetworks(config.outputs)
                              \cup OutputNetworks(config.elseOutputs)),
           ~UsesEach(config.condition) =>
               /\ EvaluateCondition(config.condition, a, 0)
                      = EvaluateCondition(config.condition, b, 0)
               /\ Same(a, b, OutputNetworks(IF EvaluateCondition(config.condition, b, 0)
                                            THEN config.outputs ELSE config.elseOutputs))
    PROVE  EvaluateDecider(config, a) = EvaluateDecider(config, b)
<1>. DEFINE condition == config.condition
<1>1. CASE UsesEach(condition)
  <2>1. /\ Same(a, b, ConditionNetworks(condition))
        /\ Same(a, b, OutputNetworks(config.outputs))
        /\ Same(a, b, OutputNetworks(config.elseOutputs))
    BY <1>1, SameLess
  <2>2. EachCandidates(condition, a) = EachCandidates(condition, b)
    BY <2>1, CandidatesSame
  <2>3. \A s : EvaluateCondition(condition, a, s) = EvaluateCondition(condition, b, s)
    BY <2>1, ConditionSame
  <2>. DEFINE passed(input) == {s \in EachCandidates(condition, input) :
                                   EvaluateCondition(condition, input, s)}
  <2>4. passed(a) = passed(b)
    BY <2>2, <2>3
  <2>5. ASSUME NEW rows \in {config.outputs, config.elseOutputs}, NEW active
        PROVE  EmitOutputs(rows, a, TRUE, active) = EmitOutputs(rows, b, TRUE, active)
    <3>1. IsRows(rows) /\ Same(a, b, OutputNetworks(rows))
      BY <2>1
    <3>2. \A mode, some : EmitOutputs(rows, a, mode, some) = EmitOutputs(rows, b, mode, some)
      BY <3>1, RowsSame
    <3>. QED  BY <3>2, Zenon
  <2>6. \A input : EvaluateDecider(config, input)
            = Merge(EmitOutputs(config.outputs, input, TRUE, passed(input)),
                    EmitOutputs(config.elseOutputs, input, TRUE,
                                EachCandidates(condition, input) \ passed(input)))
    BY <1>1, Zenon DEF EvaluateDecider
  <2>. HIDE DEF passed
  <2>. QED  BY <2>2, <2>4, <2>5, <2>6, Zenon
<1>2. CASE ~UsesEach(condition)
  <2>1. EvaluateCondition(condition, a, 0) = EvaluateCondition(condition, b, 0)
    BY <1>2
  <2>2. CASE EvaluateCondition(condition, b, 0)
    <3>1. Same(a, b, OutputNetworks(config.outputs))
      BY <1>2, <2>2
    <3>2. EmitOutputs(config.outputs, a, FALSE, {}) = EmitOutputs(config.outputs, b, FALSE, {})
      <4>1. \A mode, some : EmitOutputs(config.outputs, a, mode, some)
                                = EmitOutputs(config.outputs, b, mode, some)
        BY <3>1, RowsSame
      <4>. QED  BY <4>1, Zenon
    <3>. QED  BY <1>2, <2>1, <2>2, <3>2, Zenon DEF EvaluateDecider
  <2>3. CASE ~EvaluateCondition(condition, b, 0)
    <3>1. Same(a, b, OutputNetworks(config.elseOutputs))
      BY <1>2, <2>3
    <3>2. EmitOutputs(config.elseOutputs, a, FALSE, {})
              = EmitOutputs(config.elseOutputs, b, FALSE, {})
      <4>1. \A mode, some : EmitOutputs(config.elseOutputs, a, mode, some)
                                = EmitOutputs(config.elseOutputs, b, mode, some)
        BY <3>1, RowsSame
      <4>. QED  BY <4>1, Zenon
    <3>3. ~EvaluateCondition(condition, a, 0)
      BY <2>1, <2>3
    <3>. QED  BY <1>2, <2>3, <3>2, <3>3, Zenon DEF EvaluateDecider
  <2>. QED  BY <2>2, <2>3
<1>. QED  BY <1>1, <1>2

LEMMA ArithmeticSame ==
    ASSUME NEW config, NEW a, NEW b,
           Same(a, b, OperandNetworks(config.left) \cup OperandNetworks(config.right))
    PROVE  EvaluateArithmetic(config, a) = EvaluateArithmetic(config, b)
<1>1. ASSUME NEW o \in {config.left, config.right}
      PROVE  /\ \A each : ArithmeticOperand(o, a, each) = ArithmeticOperand(o, b, each)
             /\ o.kind = "each" =>
                    SelectInput(a, o.networks) = SelectInput(b, o.networks)
  <2>1. Same(a, b, OperandNetworks(o))
    BY SameLess
  <2>2. /\ Scalar(o, a) = Scalar(o, b)
        /\ o.kind # "constant" => SelectInput(a, o.networks) = SelectInput(b, o.networks)
    BY <2>1, ScalarSame
  <2>. QED  BY <2>2 DEF ArithmeticOperand
<1>. DEFINE result(input, each) ==
                ArithmeticOperation(config.operation,
                    ArithmeticOperand(config.left, input, each),
                    ArithmeticOperand(config.right, input, each))
            eachOperands == {o \in {config.left, config.right} : o.kind = "each"}
            candidates(input) == UNION {DOMAIN SelectInput(input, o.networks) : o \in eachOperands}
<1>2. \A each : result(a, each) = result(b, each)
  BY <1>1, Zenon
<1>3. {DOMAIN SelectInput(a, o.networks) : o \in eachOperands}
          = {DOMAIN SelectInput(b, o.networks) : o \in eachOperands}
  BY <1>1, Zenon
<1>4. candidates(a) = candidates(b)
  BY <1>3, Zenon
<1>5. \A input : EvaluateArithmetic(config, input)
          = CASE eachOperands = {} -> BusSet(ZeroBus, config.output.signal, result(input, 0))
              [] eachOperands # {} /\ config.output.kind = "each" ->
                   Sparse([s \in candidates(input) |-> result(input, s)])
              [] OTHER -> BusSet(ZeroBus, config.output.signal,
                                 SumFunction([s \in candidates(input) |-> result(input, s)]))
  BY Zenon DEF EvaluateArithmetic
<1>. HIDE DEF result, candidates
<1>6. [s \in candidates(a) |-> result(a, s)] = [s \in candidates(b) |-> result(b, s)]
  BY <1>2, <1>4, Zenon
<1>. HIDE DEF eachOperands
<1>. QED  BY <1>2, <1>5, <1>6, Zenon
(* A device whose output is known knows it from wires it knows, and puts    *)
(* out what it would put out on the real wires.                             *)
LEMMA ReadsItself ==
    ASSUME NEW values
    PROVE  Matching(values, ConcreteInput(values))
BY DEF Matching, WireMatches, ConcreteInput, KnownBus

LEMMA KnownDecider ==
    ASSUME NEW device, DeviceAssumption(device), device.kind = "decider",
           NEW values, NEW input, Matching(values, input),
           IsKnown(DeciderDependency(device.config, values))
    PROVE  EvaluateDecider(device.config, ConcreteInput(values))
               = EvaluateDecider(device.config, input)
<1>. DEFINE config == device.config
            c == config.condition
            real == ConcreteInput(values)
<1>1. c \in Conditions /\ IsRows(config.outputs) /\ IsRows(config.elseOutputs)
  BY DEF DeviceAssumption, IsRows
<1>2. Matching(values, real)
  BY ReadsItself
<1>. HIDE DEF config, c, real
<1>3. CASE UsesEach(c)
  <2>. DEFINE read == ConditionNetworks(c) \cup OutputNetworks(config.outputs)
                          \cup OutputNetworks(config.elseOutputs)
  <2>1. IsKnown(Dependency(values, read))
    BY <1>3, Zenon DEF DeciderDependency, config, c
  <2>2. Same(real, input, read)
    <3>. HIDE DEF read
    <3>. QED  BY <2>1, DependencyFacts, SameWhenKnown DEF real
  <2>3. EvaluateDecider(config, real) = EvaluateDecider(config, input)
    BY <1>1, <1>3, <2>2, DeciderSame DEF c
  <2>. QED  BY <2>3 DEF config, real
<1>4. CASE ~UsesEach(c)
  <2>. DEFINE v == ValueCondition(c, values)
  <2>1. DeciderDependency(config, values)
            = IF ~IsKnown(v) THEN v
              ELSE Dependency(values, OutputNetworks(IF v.value THEN config.outputs
                                                     ELSE config.elseOutputs))
    BY <1>4, Zenon DEF DeciderDependency, c
  <2>. HIDE DEF v
  <2>2. IsKnown(v)
    BY <2>1 DEF config
  <2>3. v.value = EvaluateCondition(c, real, 0) /\ v.value = EvaluateCondition(c, input, 0)
    BY <1>1, <1>2, <2>2, KnownConditionHolds DEF v
  <2>. DEFINE rows == IF EvaluateCondition(c, input, 0)
                      THEN config.outputs ELSE config.elseOutputs
  <2>4. IsKnown(Dependency(values, OutputNetworks(rows)))
    BY <2>1, <2>2, <2>3 DEF config
  <2>5. Same(real, input, OutputNetworks(rows))
    <3>. HIDE DEF rows
    <3>. QED  BY <2>4, DependencyFacts, SameWhenKnown DEF real
  <2>6. EvaluateDecider(config, real) = EvaluateDecider(config, input)
    BY <1>1, <1>4, <2>3, <2>5, DeciderSame DEF c
  <2>. QED  BY <2>6 DEF config, real
<1>. QED  BY <1>3, <1>4

LEMMA KnownOutputIsReal ==
    ASSUME NEW device, DeviceAssumption(device), NEW values, NEW input,
           Matching(values, input), input = [red |-> input.red, green |-> input.green],
           IsKnown(ValueOutput(device, values))
    PROVE  ValueOutput(device, values).bus = ConcreteOutput(device, input)
<1>. DEFINE dependency == ValueDependency(device, values)
            real == ConcreteInput(values)
<1>1. /\ IsKnown(dependency) => ValueOutput(device, values) = Known(ConcreteOutput(device, real))
      /\ ~IsKnown(dependency) =>
             ValueOutput(device, values) \in {dependency, ThroughDevice(dependency, device.id)}
  BY DEF ValueOutput
<1>. HIDE DEF dependency
<1>2. IsKnown(dependency)
  <2>1. SUFFICES ASSUME ~IsKnown(dependency) PROVE FALSE
    OBVIOUS
  <2>2. ~IsKnown(ThroughDevice(dependency, device.id))
    BY <2>1, BusValues DEF ThroughDevice
  <2>. QED  BY <1>1, <2>1, <2>2
<1>3. device.kind \in {"decider", "arithmetic", "selector", "constant"}
  BY DEF DeviceAssumption
<1>4. CASE device.kind = "decider"
  <2>1. IsKnown(DeciderDependency(device.config, values))
    BY <1>2, <1>4 DEF dependency, ValueDependency
  <2>2. EvaluateDecider(device.config, real) = EvaluateDecider(device.config, input)
    BY <1>4, <2>1, KnownDecider
  <2>. HIDE DEF real
  <2>3. ConcreteOutput(device, real) = ConcreteOutput(device, input)
    BY <1>4, <2>2 DEF ConcreteOutput
  <2>. QED  BY <1>1, <1>2, <2>3, BusValues
<1>5. CASE device.kind = "arithmetic"
  <2>. DEFINE read == OperandNetworks(device.config.left) \cup OperandNetworks(device.config.right)
  <2>1. IsKnown(Dependency(values, read))
    BY <1>2, <1>5 DEF dependency, ValueDependency
  <2>2. Same(real, input, read)
    <3>. HIDE DEF read
    <3>. QED  BY <2>1, DependencyFacts, SameWhenKnown
  <2>. HIDE DEF real
  <2>3. EvaluateArithmetic(device.config, real) = EvaluateArithmetic(device.config, input)
    BY <2>2, ArithmeticSame
  <2>4. ConcreteOutput(device, real) = ConcreteOutput(device, input)
    BY <1>5, <2>3 DEF ConcreteOutput
  <2>. QED  BY <1>1, <1>2, <2>4, BusValues
<1>6. CASE device.kind = "selector"
  <2>1. IsKnown(Dependency(values, {"red", "green"}))
    BY <1>2, <1>6 DEF dependency, ValueDependency
  <2>2. IsKnown(values.red) /\ IsKnown(values.green)
    BY <2>1, DependencyFacts DEF KnownOn
  <2>3. real = input
    BY <2>2 DEF Matching, WireMatches, ConcreteInput, KnownBus
  <2>. HIDE DEF real
  <2>. QED  BY <1>1, <1>2, <2>3, BusValues
<1>7. CASE device.kind = "constant"
  <2>. HIDE DEF real
  <2>1. ConcreteOutput(device, real) = ConcreteOutput(device, input)
    BY <1>7 DEF ConcreteOutput
  <2>. QED  BY <1>1, <1>2, <2>1, BusValues
<1>. QED  BY <1>3, <1>4, <1>5, <1>6, <1>7
-----------------------------------------------------------------------------
(* What a device puts out, and what it puts out on the real circuit.        *)
InStep(a, b) ==
    /\ IsSequence(a) /\ IsSequence(b) /\ Len(a) = Len(b)
    /\ \A i \in 1 .. Len(a) : /\ a[i].network = b[i].network
                              /\ WireMatches(a[i].value, b[i].value)

LEMMA EmptyInStep == InStep(<<>>, <<>>)
<1>1. <<>> \in Seq({}) /\ Len(<<>>) = 0
  OBVIOUS
<1>2. IsSequence(<<>>)
  BY <1>1, ListIsSequence, Zenon
<1>. QED  BY <1>1, <1>2 DEF InStep

LEMMA BroadcastInStep ==
    ASSUME NEW networks, IsSequence(networks), NEW value, NEW bus, WireMatches(value, bus)
    PROVE  InStep(Broadcast(value, networks), Broadcast(bus, networks))
<1>. DEFINE a == Broadcast(value, networks)
            b == Broadcast(bus, networks)
<1>1. /\ a = [i \in DOMAIN networks |-> a[i]]
      /\ b = [i \in DOMAIN networks |-> b[i]]
      /\ \A i \in DOMAIN networks : /\ a[i].network = networks[i] /\ a[i].value = value
                                    /\ b[i].network = networks[i] /\ b[i].value = bus
  BY DEF Broadcast
<1>. HIDE DEF a, b
<1>2. /\ IsSequence(a) /\ Len(a) = Len(networks) /\ DOMAIN a = DOMAIN networks
      /\ IsSequence(b) /\ Len(b) = Len(networks)
  BY <1>1, MappedFacts
<1>3. DOMAIN a = 1 .. Len(a)
  BY <1>2, SequenceFacts
<1>4. InStep(a, b)
  BY <1>1, <1>2, <1>3, Zenon DEF InStep
<1>. QED  BY <1>4 DEF a, b

LEMMA ConcatInStep ==
    ASSUME NEW a, NEW b, InStep(a, b), NEW c, NEW d, InStep(c, d)
    PROVE  InStep(a \o c, b \o d)
<1>1. /\ IsSequence(a) /\ IsSequence(b) /\ Len(a) = Len(b)
      /\ IsSequence(c) /\ IsSequence(d) /\ Len(c) = Len(d)
  BY DEF InStep
<1>2. /\ IsSequence(a \o c) /\ Len(a \o c) = Len(a) + Len(c)
      /\ IsSequence(b \o d) /\ Len(b \o d) = Len(b) + Len(d)
      /\ \A i \in 1 .. Len(b) : (b \o d)[i] = b[i]
      /\ \A i \in 1 .. Len(d) : (b \o d)[Len(b) + i] = d[i]
  BY <1>1, ConcatFacts
<1>3. Len(a) \in Nat /\ Len(c) \in Nat
  BY <1>1, SequenceFacts
<1>4. /\ \A i \in 1 .. Len(a) : (a \o c)[i] = a[i]
      /\ \A i \in 1 .. Len(c) : (a \o c)[Len(a) + i] = c[i]
  BY <1>1, ConcatFacts
<1>5. ASSUME NEW i \in 1 .. Len(a \o c)
      PROVE  /\ (a \o c)[i].network = (b \o d)[i].network
             /\ WireMatches((a \o c)[i].value, (b \o d)[i].value)
  <2>1. CASE i \in 1 .. Len(a)
    <3>1. (a \o c)[i] = a[i] /\ (b \o d)[i] = b[i]
      BY <1>1, <1>2, <1>4, <2>1
    <3>. QED  BY <2>1, <3>1 DEF InStep
  <2>2. CASE i \notin 1 .. Len(a)
    <3>1. PICK j \in 1 .. Len(c) : i = Len(a) + j
      <4>1. i - Len(a) \in 1 .. Len(c) /\ i = Len(a) + (i - Len(a))
        BY <1>2, <1>3, <2>2
      <4>. QED  BY <4>1
    <3>2. (a \o c)[i] = c[j] /\ (b \o d)[i] = d[j]
      BY <1>1, <1>2, <1>4, <3>1
    <3>. QED  BY <3>2 DEF InStep
  <2>. QED  BY <2>1, <2>2
<1>. QED  BY <1>1, <1>2, <1>5, Zenon DEF InStep

(* AllOf runs through the sequences it joins.                               *)
Joins(c, sequences) ==
    /\ c[0] = <<>>
    /\ \A i \in 1 .. Len(sequences) : c[i] = c[i - 1] \o sequences[i]

LEMMA AllOfJoins ==
    ASSUME NEW sequences, IsSequence(sequences)
    PROVE  \E c : Joins(c, sequences) /\ AllOf(sequences) = c[Len(sequences)]
<1>0. Len(sequences) \in Nat /\ DOMAIN sequences = 1 .. Len(sequences)
  BY SequenceFacts
<1>1. \E c : /\ JoinFold!Runs(c, <<>>, sequences)
             /\ JoinFold!Result(<<>>, sequences) = c[Len(sequences)]
  BY <1>0, JoinFold!FoldLeftRuns, FoldsInduct, Zenon
<1>2. JoinFold!Result(<<>>, sequences) = FoldLeft(\o, <<>>, sequences)
  BY Zenon DEF FoldLeft, MapThenFoldSet, Max, JoinFold!Result,
               JoinFold!MapThenFoldSet, JoinFold!Greatest
<1>. QED  BY <1>1, <1>2, Zenon DEF JoinFold!Runs, AllOf, Joins

LEMMA AllInStep ==
    ASSUME NEW s, NEW t, IsSequence(s), IsSequence(t), Len(s) = Len(t),
           \A i \in 1 .. Len(s) : InStep(s[i], t[i])
    PROVE  InStep(AllOf(s), AllOf(t))
<1>1. PICK c : Joins(c, s) /\ AllOf(s) = c[Len(s)]
  BY AllOfJoins
<1>2. PICK d : Joins(d, t) /\ AllOf(t) = d[Len(t)]
  BY AllOfJoins
<1>3. Len(s) \in Nat
  BY SequenceFacts
<1>. DEFINE G == {m \in Nat : m <= Len(s) => InStep(c[m], d[m])}
<1>4. 0 \in G
  BY <1>1, <1>2, EmptyInStep, Zenon DEF Joins
<1>5. ASSUME NEW m \in G
      PROVE  m + 1 \in G
  <2>1. CASE m + 1 <= Len(s)
    <3>1. m + 1 \in 1 .. Len(s) /\ m + 1 \in 1 .. Len(t) /\ (m + 1) - 1 = m /\ InStep(c[m], d[m])
      BY <1>3, <2>1
    <3>2. c[m + 1] = c[m] \o s[m + 1] /\ d[m + 1] = d[m] \o t[m + 1]
      <4>1. c[m + 1] = c[(m + 1) - 1] \o s[m + 1] /\ d[m + 1] = d[(m + 1) - 1] \o t[m + 1]
        BY <1>1, <1>2, <3>1, Zenon DEF Joins
      <4>. QED  BY <3>1, <4>1, Zenon
    <3>3. InStep(c[m] \o s[m + 1], d[m] \o t[m + 1])
      BY <3>1, ConcatInStep
    <3>4. InStep(c[m + 1], d[m + 1])
      BY <3>2, <3>3, Zenon
    <3>. QED  BY <3>4
  <2>. QED  BY <2>1
<1>6. G = Nat
  <2>. G \in SUBSET Nat
    OBVIOUS
  <2>. HIDE DEF G
  <2>. QED  BY <1>4, <1>5, NaturalInduction
<1>. QED  BY <1>1, <1>2, <1>3, <1>6
-----------------------------------------------------------------------------
(* Sums of buses.                                                           *)
Adds(c, buses) ==
    /\ c[0] = ZeroBus
    /\ \A i \in 1 .. Len(buses) : c[i] = Merge(c[i - 1], buses[i])

LEMMA AggregateAdds ==
    ASSUME NEW buses, IsSequence(buses)
    PROVE  \E c : Adds(c, buses) /\ AggregateBuses(buses) = c[Len(buses)]
<1>0. Len(buses) \in Nat /\ DOMAIN buses = 1 .. Len(buses)
  BY SequenceFacts
<1>1. \E c : /\ MergeFold!Runs(c, ZeroBus, buses)
             /\ MergeFold!Result(ZeroBus, buses) = c[Len(buses)]
  BY <1>0, MergeFold!FoldLeftRuns, FoldsInduct, Zenon
<1>2. MergeFold!Result(ZeroBus, buses) = FoldLeft(Merge, ZeroBus, buses)
  BY Zenon DEF FoldLeft, MapThenFoldSet, Max, MergeFold!Result,
               MergeFold!MapThenFoldSet, MergeFold!Greatest
<1>. QED  BY <1>1, <1>2, Zenon DEF MergeFold!Runs, AggregateBuses, Adds

LEMMA AggregateAppend ==
    ASSUME NEW buses, IsSequence(buses), NEW more, IsSequence(more),
           Len(more) = Len(buses) + 1, \A i \in 1 .. Len(buses) : more[i] = buses[i]
    PROVE  AggregateBuses(more) = Merge(AggregateBuses(buses), more[Len(more)])
<1>1. PICK c : Adds(c, buses) /\ AggregateBuses(buses) = c[Len(buses)]
  BY AggregateAdds
<1>2. PICK d : Adds(d, more) /\ AggregateBuses(more) = d[Len(more)]
  BY AggregateAdds
<1>3. Len(buses) \in Nat
  BY SequenceFacts
<1>. DEFINE G == {m \in Nat : m <= Len(buses) => c[m] = d[m]}
<1>4. 0 \in G
  BY <1>1, <1>2 DEF Adds
<1>5. ASSUME NEW m \in G
      PROVE  m + 1 \in G
  <2>1. CASE m + 1 <= Len(buses)
    <3>1. /\ m + 1 \in 1 .. Len(buses) /\ m + 1 \in 1 .. Len(more) /\ (m + 1) - 1 = m
          /\ c[m] = d[m] /\ more[m + 1] = buses[m + 1]
      BY <1>3, <2>1
    <3>2. /\ c[m + 1] = Merge(c[(m + 1) - 1], buses[m + 1])
          /\ d[m + 1] = Merge(d[(m + 1) - 1], more[m + 1])
      BY <1>1, <1>2, <3>1, Zenon DEF Adds
    <3>3. c[m + 1] = d[m + 1]
      BY <3>1, <3>2, Zenon
    <3>. QED  BY <3>3
  <2>. QED  BY <2>1
<1>6. G = Nat
  <2>. G \in SUBSET Nat
    OBVIOUS
  <2>. HIDE DEF G
  <2>. QED  BY <1>4, <1>5, NaturalInduction
<1>7. c[Len(buses)] = d[Len(buses)]
  BY <1>3, <1>6
<1>8. Len(more) \in 1 .. Len(more) /\ Len(more) - 1 = Len(buses)
  BY <1>3
<1>9. d[Len(more)] = Merge(d[Len(more) - 1], more[Len(more)])
  BY <1>2, <1>8, Zenon DEF Adds
<1>. QED  BY <1>1, <1>2, <1>7, <1>8, <1>9, Zenon
(* What the devices so far put on each network, and what the plain kernel   *)
(* has added up there.                                                      *)
Totals(values, sum) ==
    (\A i \in DOMAIN values : IsKnown(values[i])) =>
        sum = AggregateBuses([i \in DOMAIN values |-> values[i].bus])

Sums(f, g) ==
    /\ Sequences(f) /\ DOMAIN g = DOMAIN f
    /\ \A n \in DOMAIN f : Totals(f[n], g[n])

LEMMA NothingSums == Sums(NoNetworks, NoNetworks)
BY SparseFacts DEF Sums, Sequences

(* The aggregate of a sequence of values that one more value joins.         *)
LEMMA ValueJoins ==
    ASSUME NEW s, IsSequence(s), NEW value, NEW bus, NEW sum,
           WireMatches(value, bus), Totals(s, sum)
    PROVE  Totals(Append(s, value), Merge(sum, bus))
<1>. DEFINE t == Append(s, value)
<1>. SUFFICES ASSUME \A i \in DOMAIN t : IsKnown(t[i])
              PROVE  Merge(sum, bus) = AggregateBuses([i \in DOMAIN t |-> t[i].bus])
  BY Zenon DEF Totals
<1>1. /\ IsSequence(t) /\ Len(t) = Len(s) + 1
      /\ \A i \in 1 .. Len(s) : t[i] = s[i]
      /\ t[Len(s) + 1] = value
  BY AppendFacts
<1>. HIDE DEF t
<1>2. /\ Len(s) \in Nat /\ DOMAIN s = 1 .. Len(s) /\ DOMAIN t = 1 .. Len(t)
      /\ Len(t) \in DOMAIN t /\ \A i \in 1 .. Len(s) : i \in DOMAIN t
  <2>1. Len(s) \in Nat /\ DOMAIN s = 1 .. Len(s) /\ DOMAIN t = 1 .. Len(t)
    BY <1>1, SequenceFacts
  <2>. QED  BY <1>1, <2>1
<1>. DEFINE before == [i \in DOMAIN s |-> s[i].bus]
            after == [i \in DOMAIN t |-> t[i].bus]
<1>3. /\ before = [i \in DOMAIN s |-> before[i]] /\ after = [i \in DOMAIN t |-> after[i]]
      /\ \A i \in DOMAIN s : before[i] = s[i].bus
      /\ \A i \in DOMAIN t : after[i] = t[i].bus
  OBVIOUS
<1>4. sum = AggregateBuses(before)
  <2>1. \A i \in DOMAIN s : IsKnown(s[i])
    BY <1>1, <1>2
  <2>. QED  BY <2>1 DEF Totals
<1>. HIDE DEF before, after
<1>5. /\ IsSequence(before) /\ Len(before) = Len(s)
      /\ IsSequence(after) /\ Len(after) = Len(t)
  BY <1>1, <1>3, MappedFacts
<1>6. \A i \in 1 .. Len(before) : after[i] = before[i]
  BY <1>1, <1>2, <1>3, <1>5
<1>7. after[Len(after)] = bus
  BY <1>1, <1>2, <1>3, <1>5 DEF WireMatches
<1>8. AggregateBuses(after) = Merge(AggregateBuses(before), after[Len(after)])
  BY <1>1, <1>5, <1>6, AggregateAppend
<1>9. Merge(sum, bus) = AggregateBuses(after)
  BY <1>4, <1>7, <1>8, Zenon
<1>. QED  BY <1>9 DEF after

LEMMA NothingTotals == Totals(<<>>, ZeroBus)
<1>. DEFINE none == [i \in DOMAIN <<>> |-> <<>>[i].bus]
<1>1. none = [i \in 1 .. 0 |-> none[i]]
  OBVIOUS
<1>. HIDE DEF none
<1>2. IsSequence(none) /\ Len(none) = 0
  BY <1>1, SequenceMade
<1>3. AggregateBuses(none) = ZeroBus
  BY <1>2, AggregateAdds, Zenon DEF Adds
<1>. QED  BY <1>3 DEF none, Totals

LEMMA SumsAdd ==
    ASSUME NEW f, NEW g, Sums(f, g), NEW a, NEW b,
           a.network = b.network, WireMatches(a.value, b.value)
    PROVE  Sums(WithOutput(f, a), WithBus(g, b))
<1>. DEFINE key == a.network
            s == ValueAt(f, key, <<>>)
            sum == ValueAt(g, key, ZeroBus)
            t == Append(s, a.value)
            after == WithOutput(f, a)
            added == WithBus(g, b)
<1>1. Sequences(after)
  BY WithOutputFacts DEF Sums
<1>2. /\ DOMAIN after = DOMAIN f \cup {key} /\ after[key] = t
      /\ \A k \in DOMAIN f : k # key => after[k] = f[k]
  <2>1. after = With(f, key, t)
    BY Zenon DEF WithOutput
  <2>. HIDE DEF after, t, key
  <2>. QED  BY <2>1 DEF With, Override
<1>3. /\ DOMAIN added = DOMAIN g \cup {key} /\ added[key] = Merge(sum, b.value)
      /\ \A k \in DOMAIN g : k # key => added[k] = g[k]
  <2>1. added = With(g, key, Merge(sum, b.value))
    BY Zenon DEF WithBus
  <2>. HIDE DEF added, sum, key
  <2>. QED  BY <2>1 DEF With, Override
<1>4. IsSequence(s)
  <2>1. InStep(<<>>, <<>>)
    BY EmptyInStep
  <2>2. IsSequence(<<>>)
    BY <2>1, Zenon DEF InStep
  <2>. QED  BY <2>2, Zenon DEF Sums, Sequences, ValueAt
<1>5. Totals(s, sum)
  <2>1. CASE key \in DOMAIN f
    <3>1. s = f[key] /\ sum = g[key]
      BY <2>1 DEF ValueAt, Sums
    <3>. HIDE DEF s, sum, key
    <3>. QED  BY <2>1, <3>1, Zenon DEF Sums
  <2>2. CASE key \notin DOMAIN f
    <3>1. s = <<>> /\ sum = ZeroBus
      BY <2>2 DEF ValueAt, Sums
    <3>. HIDE DEF s, sum, key
    <3>. QED  BY <3>1, NothingTotals, Zenon
  <2>. QED  BY <2>1, <2>2
<1>. HIDE DEF s, sum, after, added
<1>6. Totals(t, Merge(sum, b.value))
  BY <1>4, <1>5, ValueJoins
<1>. HIDE DEF t, key
<1>7. ASSUME NEW n \in DOMAIN after
      PROVE  Totals(after[n], added[n])
  <2>1. CASE n = key
    BY <1>2, <1>3, <1>6, <2>1, Zenon
  <2>2. CASE n # key
    <3>1. n \in DOMAIN f /\ after[n] = f[n] /\ added[n] = g[n]
      BY <1>2, <1>3, <2>2 DEF Sums
    <3>. QED  BY <3>1, Zenon DEF Sums
  <2>. QED  BY <2>1, <2>2
<1>8. DOMAIN added = DOMAIN after
  BY <1>2, <1>3 DEF Sums
<1>9. Sums(after, added)
  BY <1>1, <1>7, <1>8, Zenon DEF Sums
<1>. QED  BY <1>9 DEF after, added

LEMMA SumsFold ==
    ASSUME NEW f, NEW g, Sums(f, g), NEW a, NEW b, InStep(a, b)
    PROVE  Sums(FoldLeft(WithOutput, f, a), FoldLeft(WithBus, g, b))
<1>0. /\ Len(a) \in Nat /\ DOMAIN a = 1 .. Len(a)
      /\ Len(b) = Len(a) /\ DOMAIN b = 1 .. Len(b)
  BY SequenceFacts DEF InStep
<1>1. \E c : /\ OutputFold!Runs(c, f, a)
             /\ OutputFold!Result(f, a) = c[Len(a)]
  BY <1>0, OutputFold!FoldLeftRuns, FoldsInduct, Zenon
<1>2. OutputFold!Result(f, a) = FoldLeft(WithOutput, f, a)
  BY Zenon DEF FoldLeft, MapThenFoldSet, Max, OutputFold!Result,
               OutputFold!MapThenFoldSet, OutputFold!Greatest
<1>3. PICK c : /\ c[0] = f
               /\ \A i \in 1 .. Len(a) : c[i] = WithOutput(c[i - 1], a[i])
               /\ FoldLeft(WithOutput, f, a) = c[Len(a)]
  BY <1>1, <1>2, Zenon DEF OutputFold!Runs
<1>4. \E d : /\ BusFold!Runs(d, g, b)
             /\ BusFold!Result(g, b) = d[Len(b)]
  BY <1>0, BusFold!FoldLeftRuns, FoldsInduct, Zenon
<1>5. BusFold!Result(g, b) = FoldLeft(WithBus, g, b)
  BY Zenon DEF FoldLeft, MapThenFoldSet, Max, BusFold!Result,
               BusFold!MapThenFoldSet, BusFold!Greatest
<1>6. PICK d : /\ d[0] = g
               /\ \A i \in 1 .. Len(b) : d[i] = WithBus(d[i - 1], b[i])
               /\ FoldLeft(WithBus, g, b) = d[Len(b)]
  BY <1>4, <1>5, Zenon DEF BusFold!Runs
<1>. DEFINE G == {m \in Nat : m <= Len(a) => Sums(c[m], d[m])}
<1>7. 0 \in G
  BY <1>3, <1>6
<1>8. ASSUME NEW m \in G
      PROVE  m + 1 \in G
  <2>1. CASE m + 1 <= Len(a)
    <3>1. /\ m + 1 \in 1 .. Len(a) /\ m + 1 \in 1 .. Len(b) /\ (m + 1) - 1 = m
          /\ Sums(c[m], d[m])
      BY <1>0, <2>1
    <3>2. c[m + 1] = WithOutput(c[m], a[m + 1]) /\ d[m + 1] = WithBus(d[m], b[m + 1])
      BY <1>3, <1>6, <3>1
    <3>3. a[m + 1].network = b[m + 1].network /\ WireMatches(a[m + 1].value, b[m + 1].value)
      BY <3>1 DEF InStep
    <3>4. Sums(c[m + 1], d[m + 1])
      BY <3>1, <3>2, <3>3, SumsAdd
    <3>. QED  BY <3>4
  <2>. QED  BY <2>1
<1>9. G = Nat
  <2>. G \in SUBSET Nat
    OBVIOUS
  <2>. HIDE DEF G
  <2>. QED  BY <1>7, <1>8, NaturalInduction
<1>. QED  BY <1>0, <1>3, <1>6, <1>9
-----------------------------------------------------------------------------
(* What is known of the committed networks is what they carry, and so is    *)
(* what is known of the boundary under way.                                 *)
Agreeing ==
    /\ DOMAIN world.networks = DOMAIN kernel.networks
    /\ \A n \in DOMAIN kernel.networks : WireMatches(kernel.networks[n], world.networks[n])

Truthful == Agreeing /\ Sums(boundary.contributions, world.sums)

LEMMA ReadingsAgree ==
    ASSUME Agreeing, NEW n
    PROVE  WireMatches(ReadNetwork(kernel.networks, n), ValueAt(world.networks, n, ZeroBus))
<1>1. CASE n \in DOMAIN kernel.networks
  BY <1>1 DEF Agreeing, ReadNetwork, ValueAt
<1>2. CASE n \notin DOMAIN kernel.networks
  <2>1. ReadNetwork(kernel.networks, n) = Known(ZeroBus)
    BY <1>2 DEF ReadNetwork
  <2>2. ValueAt(world.networks, n, ZeroBus) = ZeroBus
    BY <1>2 DEF Agreeing, ValueAt
  <2>. QED  BY <2>1, <2>2, BusValues DEF WireMatches
<1>. QED  BY <1>1, <1>2

(* The three kinds of devices: combinators, the source, objects.            *)
LEMMA CombinatorInStep ==
    ASSUME Agreeing, NEW device, DeviceAssumption(device), NEW chosen
    PROVE  InStep(Evaluated(kernel.networks, device),
                  ConcreteEvaluated(device, world.networks, chosen))
<1>. DEFINE values == DeviceInput(kernel.networks, device)
            input == [red |-> ValueAt(world.networks, device.red, ZeroBus),
                      green |-> ValueAt(world.networks, device.green, ZeroBus)]
<1>1. device.kind \notin {"source", "object"} /\ device.outputs \in Seq(Networks)
  BY DEF DeviceAssumption
<1>2. IsSequence(device.outputs)
  BY <1>1, ListIsSequence
<1>3. Evaluated(kernel.networks, device) = Broadcast(ValueOutput(device, values), device.outputs)
  BY <1>1 DEF Evaluated
<1>4. ConcreteEvaluated(device, world.networks, chosen)
          = Broadcast(ConcreteOutput(device, input), device.outputs)
  BY <1>1 DEF ConcreteEvaluated
<1>5. Matching(values, input)
  BY ReadingsAgree DEF Matching, DeviceInput
<1>6. input = [red |-> input.red, green |-> input.green]
  OBVIOUS
<1>. HIDE DEF values, input
<1>7. WireMatches(ValueOutput(device, values), ConcreteOutput(device, input))
  BY <1>5, <1>6, KnownOutputIsReal DEF WireMatches
<1>. QED  BY <1>2, <1>3, <1>4, <1>7, BroadcastInStep

LEMMA SourceInStep ==
    ASSUME Stimuli, NEW chosen
    PROVE  InStep(Evaluated(kernel.networks, Source),
                  ConcreteEvaluated(Source, world.networks, chosen))
<1>. DEFINE s == Stimulus(session.drives) \o Stimulus(session.pulses)
            t == [i \in DOMAIN s |-> [network |-> s[i].network, value |-> s[i].value.bus]]
<1>1. Evaluated(kernel.networks, Source) = s
  BY DEF Evaluated, Source
<1>2. ConcreteEvaluated(Source, world.networks, chosen) = t
  BY DEF ConcreteEvaluated, Source
<1>3. IsSequence(s)
  <2>1. IsSequence(Stimulus(session.drives)) /\ IsSequence(Stimulus(session.pulses))
    BY StimulusFacts DEF Stimuli
  <2>. QED  BY <2>1, ConcatFacts
<1>. HIDE DEF s
<1>4. t = [i \in DOMAIN s |-> t[i]]
      /\ \A i \in DOMAIN s : t[i].network = s[i].network /\ t[i].value = s[i].value.bus
  OBVIOUS
<1>. HIDE DEF t
<1>5. IsSequence(t) /\ Len(t) = Len(s) /\ DOMAIN s = 1 .. Len(s)
  BY <1>3, <1>4, MappedFacts, SequenceFacts
<1>6. InStep(s, t)
  BY <1>3, <1>4, <1>5 DEF InStep, WireMatches
<1>. QED  BY <1>1, <1>2, <1>6

LEMMA ObjectInStep ==
    ASSUME Provisions, NEW device, IsObject(device), NEW chosen
    PROVE  InStep(Evaluated(kernel.networks, device),
                  ConcreteEvaluated(device, world.networks, chosen))
<1>. DEFINE output(c) == ConnectorStep(kernel.networks, c).output
            really(c) == IF IsKnown(output(c)) THEN output(c).bus ELSE chosen[c.name]
            outputs(c) == IF output(c) = NoOutput THEN <<>>
                          ELSE Broadcast(CommittedOutput(device, output(c)), c.outputs)
            put(c) == IF output(c) = NoOutput THEN <<>> ELSE Broadcast(really(c), c.outputs)
            s == [i \in DOMAIN device.connectors |-> outputs(device.connectors[i])]
            t == [i \in DOMAIN device.connectors |-> put(device.connectors[i])]
<1>1. /\ IsSequence(device.connectors)
      /\ \A i \in DOMAIN device.connectors : ConnectorAssumption(device.connectors[i])
  BY ConnectorFacts DEF IsObject
<1>2. ASSUME NEW c, ConnectorAssumption(c)
      PROVE  InStep(outputs(c), put(c))
  <2>1. c.outputs \in Seq(Networks)
    BY <1>2 DEF ConnectorAssumption
  <2>2. IsSequence(c.outputs)
    BY <2>1, ListIsSequence
  <2>3. CASE output(c) = NoOutput
    <3>1. outputs(c) = <<>> /\ put(c) = <<>>
      BY <2>3
    <3>. QED  BY <3>1, EmptyInStep, Zenon
  <2>4. CASE output(c) # NoOutput
    <3>1. WireMatches(CommittedOutput(device, output(c)), really(c))
      <4>1. CommittedOutput(device, output(c)) = ThroughDevice(output(c), device.id)
        BY <2>4 DEF CommittedOutput
      <4>. HIDE DEF output
      <4>2. CASE IsKnown(output(c))
        <5>1. ThroughDevice(output(c), device.id) = output(c)
          BY <4>2 DEF ThroughDevice
        <5>. QED  BY <4>1, <4>2, <5>1 DEF WireMatches
      <4>3. CASE ~IsKnown(output(c))
        <5>1. ~IsKnown(ThroughDevice(output(c), device.id))
          BY <4>3, BusValues DEF ThroughDevice
        <5>. QED  BY <4>1, <5>1 DEF WireMatches
      <4>. QED  BY <4>2, <4>3
    <3>2. /\ outputs(c) = Broadcast(CommittedOutput(device, output(c)), c.outputs)
          /\ put(c) = Broadcast(really(c), c.outputs)
      BY <2>4
    <3>. HIDE DEF outputs, put, output, really
    <3>. QED  BY <2>2, <3>1, <3>2, BroadcastInStep
  <2>. QED  BY <2>3, <2>4
<1>3. Evaluated(kernel.networks, device) = AllOf(s)
  BY Zenon DEF Evaluated, IsObject, ObjectOutputs
<1>4. ConcreteEvaluated(device, world.networks, chosen) = AllOf(t)
  BY Zenon DEF ConcreteEvaluated, IsObject
<1>. HIDE DEF outputs, put
<1>5. /\ s = [i \in DOMAIN device.connectors |-> s[i]]
      /\ t = [i \in DOMAIN device.connectors |-> t[i]]
      /\ \A i \in DOMAIN device.connectors : InStep(s[i], t[i])
  BY <1>1, <1>2
<1>. HIDE DEF s, t
<1>6. /\ IsSequence(s) /\ Len(s) = Len(device.connectors)
      /\ IsSequence(t) /\ Len(t) = Len(device.connectors)
      /\ DOMAIN device.connectors = 1 .. Len(device.connectors)
  BY <1>1, <1>5, MappedFacts, SequenceFacts
<1>7. \A i \in 1 .. Len(s) : InStep(s[i], t[i])
  BY <1>5, <1>6
<1>8. InStep(AllOf(s), AllOf(t))
  BY <1>6, <1>7, AllInStep
<1>. QED  BY <1>3, <1>4, <1>8

LEMMA TruthfulEvaluates ==
    ASSUME Typed, Truthful, EvaluateDevice
    PROVE  Truthful'
<1>1. /\ \/ DeviceAssumption(EvaluatedDevice)
         \/ EvaluatedDevice = Source
         \/ IsObject(EvaluatedDevice)
      /\ boundary'.contributions = Contributed(boundary.contributions, EvaluatedDevice)
      /\ world'.networks = world.networks /\ kernel' = kernel
  BY EvaluateFacts
<1>2. PICK chosen : world'.sums = ConcreteStep(world.sums, EvaluatedDevice, chosen)
  BY DEF EvaluateDevice, Typed, Fields
<1>. DEFINE a == Evaluated(kernel.networks, EvaluatedDevice)
            b == ConcreteEvaluated(EvaluatedDevice, world.networks, chosen)
<1>3. InStep(a, b)
  BY <1>1, CombinatorInStep, SourceInStep, ObjectInStep DEF Typed, Truthful
<1>4. /\ Contributed(boundary.contributions, EvaluatedDevice)
             = FoldLeft(WithOutput, boundary.contributions, a)
      /\ ConcreteStep(world.sums, EvaluatedDevice, chosen) = FoldLeft(WithBus, world.sums, b)
  BY Zenon DEF Contributed, ConcreteStep
<1>. HIDE DEF a, b
<1>5. Sums(FoldLeft(WithOutput, boundary.contributions, a), FoldLeft(WithBus, world.sums, b))
  BY <1>3, SumsFold DEF Truthful
<1>6. Sums(boundary'.contributions, world'.sums)
  BY <1>1, <1>2, <1>4, <1>5, Zenon
<1>. QED  BY <1>1, <1>6 DEF Truthful, Agreeing

LEMMA TruthfulCommits ==
    ASSUME Typed, Truthful, CommitBoundary
    PROVE  Truthful'
<1>1. /\ kernel'.networks = NewNetworks
      /\ world'.networks = world.sums /\ world'.sums = NoNetworks
  BY CommitBoundaryFacts
<1>2. NewNetworks = Aggregated(boundary.contributions)
  BY DEF NewNetworks
<1>3. DOMAIN world.sums = DOMAIN boundary.contributions
      /\ DOMAIN NewNetworks = DOMAIN boundary.contributions
  BY <1>2 DEF Truthful, Sums, Aggregated
<1>4. ASSUME NEW n \in DOMAIN boundary.contributions
      PROVE  WireMatches(NewNetworks[n], world.sums[n])
  <2>. DEFINE values == boundary.contributions[n]
              buses == [i \in DOMAIN values |-> values[i].bus]
  <2>1. NewNetworks[n] = AggregateValues(values)
    BY <1>2 DEF Aggregated
  <2>2. Totals(values, world.sums[n])
    BY DEF Truthful, Sums
  <2>. HIDE DEF values
  <2>3. CASE \A i \in DOMAIN values : IsKnown(values[i])
    <3>1. AggregateValues(values) = Known(AggregateBuses(buses))
      BY <2>3 DEF AggregateValues
    <3>2. world.sums[n] = AggregateBuses(buses)
      BY <2>2, <2>3 DEF Totals
    <3>. HIDE DEF buses
    <3>. QED  BY <2>1, <3>1, <3>2, BusValues DEF WireMatches
  <2>4. CASE ~\A i \in DOMAIN values : IsKnown(values[i])
    <3>1. ~IsKnown(AggregateValues(values))
      BY <2>4, BusValues DEF AggregateValues
    <3>. QED  BY <2>1, <3>1 DEF WireMatches
  <2>. QED  BY <2>3, <2>4
<1>5. Agreeing'
  BY <1>1, <1>3, <1>4 DEF Agreeing
<1>6. boundary'.contributions = NoNetworks
  <2>1. boundary.call # "none"
    BY CommitBoundaryFacts DEF Advancing
  <2>2. CASE Begin(boundary.call, boundary.left - 1, kernel.tick + 1, session.scheduled,
                   NewNetworks, NewObjects.controls, NewObjects.committed)
    BY <2>1, <2>2, BeginFacts, Zenon DEF Typed
  <2>3. CASE boundary' = [NoBoundary EXCEPT !.settled =
                              IF SettledNow(NewNetworks) THEN calls ELSE 0]
    BY <2>3 DEF NoBoundary
  <2>. QED  BY <2>2, <2>3, CommitBoundaryFacts
<1>7. Sums(boundary'.contributions, world'.sums)
  BY <1>1, <1>6, NothingSums, Zenon
<1>. QED  BY <1>5, <1>7 DEF Truthful

LEMMA TruthfulStep ==
    ASSUME Typed, Truthful, [Next]_vars
    PROVE  Truthful'
<1>1. ASSUME UNCHANGED <<kernel, world>>, boundary'.contributions = boundary.contributions
      PROVE  Truthful'
  BY <1>1 DEF Truthful, Agreeing
<1>2. CASE Stimulate \/ Schedule
  BY <1>1, <1>2, Zenon DEF Stimulate, Schedule, Drive, Pulse, Clear, At
<1>3. CASE Provide \/ Control
  BY <1>1, <1>3, Zenon DEF Provide, Mock, Model, Control, MockOutput, ClearProvider
<1>4. CASE Observe \/ Adapt
  BY <1>1, <1>4, Zenon DEF Observe, Trace, Adapt, AdaptObject
<1>5. CASE Advances
  <2>1. PICK call, count :
            /\ call \in {"tick", "settle"} /\ Idle
            /\ Begin(call, count, kernel.tick, session.scheduled, kernel.networks,
                     objects.controls, objects.committed)
            /\ UNCHANGED <<kernel, world>>
    BY <1>5, AdvanceFacts
  <2>2. boundary'.contributions = NoNetworks
    BY <2>1, BeginFacts, Zenon DEF Typed
  <2>3. boundary.contributions = NoNetworks
    BY <2>1 DEF Typed, Fresh
  <2>. QED  BY <1>1, <2>1, <2>2, <2>3
<1>6. CASE CallbackReturns
  BY <1>1, <1>6 DEF CallbackReturns, Typed, Fields
<1>7. CASE CallbackThrows \/ DeviceThrows
  <2>1. FailBoundary
    BY <1>7 DEF CallbackThrows, DeviceThrows
  <2>2. /\ kernel' = kernel /\ world'.networks = world.networks
        /\ world'.sums = NoNetworks /\ boundary'.contributions = NoNetworks
    BY <2>1 DEF FailBoundary, NoBoundary, Typed, Fields
  <2>3. Sums(boundary'.contributions, world'.sums)
    BY <2>2, NothingSums, Zenon
  <2>. QED  BY <2>2, <2>3 DEF Truthful, Agreeing
<1>8. CASE EvaluateDevice
  BY <1>8, TruthfulEvaluates
<1>9. CASE CommitBoundary
  BY <1>9, TruthfulCommits
<1>10. CASE Finish
  BY <1>1, <1>10 DEF Finish
<1>11. CASE UNCHANGED vars
  BY <1>1, <1>11 DEF vars
<1>. QED  BY <1>2, <1>3, <1>4, <1>5, <1>6, <1>7, <1>8, <1>9, <1>10, <1>11 DEF Next, Boundary

(* What the session calls Known is what the circuit carries, whatever the   *)
(* objects nobody modelled put out, for every circuit and every test of it. *)
THEOREM KnownIsAlwaysTrue == Spec => []KnownIsTrue
<1>1. Init => Truthful
  <2>. SUFFICES ASSUME Init PROVE Truthful
    OBVIOUS
  <2>1. /\ kernel.networks = NoNetworks /\ boundary.contributions = NoNetworks
        /\ world.networks = NoNetworks /\ world.sums = NoNetworks
    BY DEF Init, NoBoundary
  <2>2. Sums(boundary.contributions, world.sums)
    BY <2>1, NothingSums, Zenon
  <2>. QED  BY <2>1, <2>2, SparseFacts DEF Truthful, Agreeing
<1>2. Typed /\ Truthful /\ [Next]_vars => Truthful'
  BY TruthfulStep
<1>3. Truthful => KnownIsTrue
  BY ReadingsAgree DEF Truthful, KnownIsTrue, WireMatches
<1>. QED  BY <1>1, <1>2, <1>3, AlwaysTyped, PTL DEF Spec
-----------------------------------------------------------------------------
(* Circuit integers add up in any order.                                    *)

(* A circuit integer wraps around at a power of two.                        *)
LEMMA HalfFacts == Half \in {2, 8, 128, 32768, 2147483648}
<1>1. CASE Width = 2
  BY <1>1 DEF Half
<1>2. CASE Width = 4
  BY <1>2 DEF Half
<1>3. CASE Width = 8
  BY <1>3 DEF Half
<1>4. CASE Width = 16
  BY <1>4 DEF Half
<1>5. CASE Width = 32
  BY <1>5 DEF Half
<1>. QED  BY <1>1, <1>2, <1>3, <1>4, <1>5, WidthAssumption

LEMMA WrapFacts ==
    /\ \A x \in Int : Int32(x) \in Int
    /\ \A x, y \in Int : Int32(Int32(x) + y) = Int32(x + y)
    /\ AddInt32(0, 0) = 0
<1>1. CASE Half = 2
  BY <1>1 DEF Int32, AddInt32
<1>2. CASE Half = 8
  BY <1>2 DEF Int32, AddInt32
<1>3. CASE Half = 128
  BY <1>3 DEF Int32, AddInt32
<1>4. CASE Half = 32768
  BY <1>4 DEF Int32, AddInt32
<1>5. CASE Half = 2147483648
  BY <1>5 DEF Int32, AddInt32
<1>. QED  BY <1>1, <1>2, <1>3, <1>4, <1>5, HalfFacts

LEMMA SumsExchange ==
    \A a, x, y \in Int :
        /\ AddInt32(a, x) \in Int
        /\ AddInt32(AddInt32(a, x), y) = AddInt32(AddInt32(a, y), x)
<1>. SUFFICES ASSUME NEW a \in Int, NEW x \in Int, NEW y \in Int
              PROVE  /\ AddInt32(a, x) \in Int
                     /\ AddInt32(AddInt32(a, x), y) = AddInt32(AddInt32(a, y), x)
  OBVIOUS
<1>1. a + x \in Int /\ a + y \in Int /\ (a + x) + y = (a + y) + x
  OBVIOUS
<1>2. AddInt32(AddInt32(a, x), y) = Int32((a + x) + y)
  BY <1>1, WrapFacts DEF AddInt32
<1>3. AddInt32(AddInt32(a, y), x) = Int32((a + y) + x)
  BY <1>1, WrapFacts DEF AddInt32
<1>4. AddInt32(a, x) \in Int
  BY <1>1, WrapFacts DEF AddInt32
<1>. QED  BY <1>1, <1>2, <1>3, <1>4

(* Buses of integers.                                                       *)
Integral(bus) == IsFiniteSet(DOMAIN bus) /\ \A s \in DOMAIN bus : bus[s] \in Int

LEMMA CarriedFacts ==
    ASSUME NEW bus, Integral(bus)
    PROVE  \A s : Carried(bus, s) \in Int
BY DEF Integral, Carried

LEMMA SparseIntegral ==
    ASSUME NEW f, IsFiniteSet(DOMAIN f), \A s \in DOMAIN f : f[s] \in Int
    PROVE  Integral(Sparse(f))
<1>. DEFINE g == Sparse(f)
<1>1. /\ DOMAIN g \subseteq DOMAIN f
      /\ \A s \in DOMAIN g : g[s] = f[s]
  BY DEF Sparse
<1>. HIDE DEF g
<1>2. IsFiniteSet(DOMAIN g)
  BY <1>1, FS_Subset
<1>3. Integral(g)
  BY <1>1, <1>2 DEF Integral
<1>. QED  BY <1>3 DEF g

LEMMA NothingIntegral == Integral(ZeroBus)
BY SparseFacts, FS_EmptySet DEF Integral

(* Merging buses keeps them buses of integers.                              *)
LEMMA MergeFacts ==
    ASSUME NEW a, NEW b, Integral(a), Integral(b)
    PROVE  /\ Integral(Merge(a, b)) /\ IsSparse(Merge(a, b))
           /\ \A s : Carried(Merge(a, b), s) = AddInt32(Carried(a, s), Carried(b, s))
<1>. DEFINE S == DOMAIN a \cup DOMAIN b
            f == [s \in S |-> AddInt32(Carried(a, s), Carried(b, s))]
<1>1. Merge(a, b) = Sparse(f)
  BY DEF Merge
<1>2. \A s : Carried(a, s) \in Int /\ Carried(b, s) \in Int
  BY CarriedFacts
<1>3. IsFiniteSet(S)
  BY FS_Union DEF Integral
<1>4. DOMAIN f = S /\ \A s \in S : f[s] = AddInt32(Carried(a, s), Carried(b, s))
  OBVIOUS
<1>5. \A s : s \notin S => AddInt32(Carried(a, s), Carried(b, s)) = 0
  BY WrapFacts DEF Carried
<1>. HIDE DEF S, f
<1>6. Integral(Sparse(f))
  <2>1. \A s \in DOMAIN f : f[s] \in Int
    BY <1>2, <1>4, SumsExchange
  <2>. QED  BY <1>3, <1>4, <2>1, SparseIntegral
<1>7. IsSparse(Sparse(f))
  BY SparseFacts
<1>8. \A s : Carried(Sparse(f), s) = IF s \in S THEN f[s] ELSE 0
  BY <1>4 DEF Carried, Sparse
<1>9. \A s : Carried(Sparse(f), s) = AddInt32(Carried(a, s), Carried(b, s))
  BY <1>4, <1>5, <1>8
<1>. QED  BY <1>1, <1>6, <1>7, <1>9

LEMMA SameCarried ==
    ASSUME NEW f, NEW g, IsSparse(f), IsSparse(g), \A s : Carried(f, s) = Carried(g, s)
    PROVE  f = g
<1>1. ASSUME NEW s \in DOMAIN f, f[s] # 0
      PROVE  s \in DOMAIN g /\ g[s] = f[s]
  BY <1>1 DEF Carried
<1>2. ASSUME NEW s \in DOMAIN g, g[s] # 0
      PROVE  s \in DOMAIN f /\ f[s] = g[s]
  BY <1>2 DEF Carried
<1>3. Sparse(f) = Sparse(g)
  BY <1>1, <1>2, SameSparse
<1>. QED  BY <1>3 DEF IsSparse

LEMMA BusesExchange ==
    ASSUME NEW a, NEW b, NEW c, Integral(a), Integral(b), Integral(c)
    PROVE  Merge(Merge(a, b), c) = Merge(Merge(a, c), b)
<1>1. Integral(Merge(a, b)) /\ Integral(Merge(a, c))
  BY MergeFacts
<1>2. ASSUME NEW s
      PROVE  Carried(Merge(Merge(a, b), c), s) = Carried(Merge(Merge(a, c), b), s)
  <2>. DEFINE x == Carried(a, s)  y == Carried(b, s)  z == Carried(c, s)
  <2>1. x \in Int /\ y \in Int /\ z \in Int
    BY CarriedFacts
  <2>2. /\ Carried(Merge(Merge(a, b), c), s) = AddInt32(AddInt32(x, y), z)
        /\ Carried(Merge(Merge(a, c), b), s) = AddInt32(AddInt32(x, z), y)
    BY <1>1, MergeFacts
  <2>. HIDE DEF x, y, z
  <2>. QED  BY <2>1, <2>2, SumsExchange
<1>3. IsSparse(Merge(Merge(a, b), c)) /\ IsSparse(Merge(Merge(a, c), b))
  BY <1>1, MergeFacts
<1>. QED  BY <1>2, <1>3, SameCarried
-----------------------------------------------------------------------------
(* Of the origins of one id the least is kept, whichever comes first.       *)

Lexical(p, q) ==
    \E i \in 1 .. Len(p) : p[i] < q[i] /\ \A j \in 1 .. i - 1 : p[j] = q[j]

LEMMA PrefixFacts ==
    ASSUME NEW p \in Seq(Nat), NEW q \in Seq(Nat), Len(p) = Len(q), NEW i \in 1 .. Len(p)
    PROVE  SubSeq(p, 1, i - 1) = SubSeq(q, 1, i - 1) <=> \A j \in 1 .. i - 1 : p[j] = q[j]
<1>1. i - 1 \in 0 .. Len(p)
  OBVIOUS
<1>2. /\ SubSeq(p, 1, i - 1) = [j \in 1 .. i - 1 |-> p[j]]
      /\ SubSeq(q, 1, i - 1) = [j \in 1 .. i - 1 |-> q[j]]
  BY <1>1
<1>. QED  BY <1>2

LEMMA PathFacts ==
    ASSUME NEW p \in Seq(Nat), NEW q \in Seq(Nat)
    PROVE  PathBefore(p, q) <=> Len(p) < Len(q) \/ (Len(p) = Len(q) /\ Lexical(p, q))
<1>1. DOMAIN p = 1 .. Len(p)
  OBVIOUS
<1>2. CASE Len(p) = Len(q)
  <2>1. \A i \in 1 .. Len(p) : SubSeq(p, 1, i - 1) = SubSeq(q, 1, i - 1)
                                   <=> \A j \in 1 .. i - 1 : p[j] = q[j]
    BY <1>2, PrefixFacts
  <2>2. (\E i \in DOMAIN p : p[i] < q[i] /\ SubSeq(p, 1, i - 1) = SubSeq(q, 1, i - 1))
            <=> Lexical(p, q)
    BY <1>1, <2>1, Zenon DEF Lexical
  <2>. QED  BY <2>2 DEF PathBefore
<1>3. CASE Len(p) # Len(q)
  BY <1>3 DEF PathBefore
<1>. QED  BY <1>2, <1>3

(* The order of paths is a strict total order, and so is that of origins.   *)
LEMMA LexicalOrder ==
    ASSUME NEW p \in Seq(Nat), NEW q \in Seq(Nat), Len(p) = Len(q)
    PROVE  /\ ~(Lexical(p, q) /\ Lexical(q, p))
           /\ p # q => Lexical(p, q) \/ Lexical(q, p)
           /\ \A r \in Seq(Nat) : Len(q) = Len(r) /\ Lexical(p, q) /\ Lexical(q, r) => Lexical(p, r)
<1>0. /\ Len(p) \in Nat /\ \A i \in 1 .. Len(p) : p[i] \in Nat /\ q[i] \in Nat
  OBVIOUS
<1>1. ASSUME Lexical(p, q), Lexical(q, p)
      PROVE  FALSE
  <2>1. PICK i \in 1 .. Len(p) : p[i] < q[i] /\ \A j \in 1 .. i - 1 : p[j] = q[j]
    BY <1>1 DEF Lexical
  <2>2. PICK k \in 1 .. Len(p) : q[k] < p[k] /\ \A j \in 1 .. k - 1 : q[j] = p[j]
    BY <1>1 DEF Lexical
  <2>3. CASE i < k
    BY <2>1, <2>2, <2>3, <1>0
  <2>4. CASE k < i
    BY <2>1, <2>2, <2>4, <1>0
  <2>5. CASE i = k
    BY <2>1, <2>2, <2>5, <1>0
  <2>. QED  BY <2>3, <2>4, <2>5
<1>2. ASSUME p # q
      PROVE  Lexical(p, q) \/ Lexical(q, p)
  <2>. DEFINE D == {i \in 1 .. Len(p) : p[i] # q[i]}
  <2>1. D # {}
    BY <1>2
  <2>2. PICK i \in D : \A j \in D : i <= j
    <3>1. D \in SUBSET Nat
      OBVIOUS
    <3>. HIDE DEF D
    <3>. QED  BY <2>1, <3>1, LeastExists
  <2>3. i \in 1 .. Len(p) /\ (p[i] < q[i] \/ q[i] < p[i])
    BY <1>0
  <2>4. \A j \in 1 .. i - 1 : p[j] = q[j]
    BY <2>2, <2>3
  <2>. QED  BY <2>3, <2>4 DEF Lexical
<1>3. ASSUME NEW r \in Seq(Nat), Len(q) = Len(r), Lexical(p, q), Lexical(q, r)
      PROVE  Lexical(p, r)
  <2>0. \A i \in 1 .. Len(p) : r[i] \in Nat
    BY <1>3
  <2>1. PICK i \in 1 .. Len(p) : p[i] < q[i] /\ \A j \in 1 .. i - 1 : p[j] = q[j]
    BY <1>3 DEF Lexical
  <2>2. PICK k \in 1 .. Len(p) : q[k] < r[k] /\ \A j \in 1 .. k - 1 : q[j] = r[j]
    BY <1>3 DEF Lexical
  <2>3. CASE i < k
    <3>1. p[i] < r[i] /\ \A j \in 1 .. i - 1 : p[j] = r[j]
      BY <2>1, <2>2, <2>3, <1>0, <2>0
    <3>. QED  BY <3>1 DEF Lexical
  <2>4. CASE k < i
    <3>1. p[k] < r[k] /\ \A j \in 1 .. k - 1 : p[j] = r[j]
      BY <2>1, <2>2, <2>4, <1>0, <2>0
    <3>. QED  BY <3>1 DEF Lexical
  <2>5. CASE i = k
    <3>1. p[i] < r[i] /\ \A j \in 1 .. i - 1 : p[j] = r[j]
      BY <2>1, <2>2, <2>5, <1>0, <2>0
    <3>. QED  BY <3>1 DEF Lexical
  <2>. QED  BY <2>3, <2>4, <2>5
<1>. QED  BY <1>1, <1>2, <1>3

LEMMA PathOrder ==
    /\ \A p, q \in Seq(Nat) : ~(PathBefore(p, q) /\ PathBefore(q, p))
    /\ \A p, q \in Seq(Nat) : p # q => PathBefore(p, q) \/ PathBefore(q, p)
    /\ \A p, q, r \in Seq(Nat) : PathBefore(p, q) /\ PathBefore(q, r) => PathBefore(p, r)
<1>0. \A p \in Seq(Nat) : Len(p) \in Nat
  OBVIOUS
<1>1. \A p, q \in Seq(Nat) :
          PathBefore(p, q) <=> Len(p) < Len(q) \/ (Len(p) = Len(q) /\ Lexical(p, q))
  BY PathFacts
<1>2. \A p, q \in Seq(Nat) : Len(p) = Len(q) => ~(Lexical(p, q) /\ Lexical(q, p))
  BY LexicalOrder
<1>3. \A p, q \in Seq(Nat) : Len(p) = Len(q) /\ p # q => Lexical(p, q) \/ Lexical(q, p)
  BY LexicalOrder
<1>4. \A p, q, r \in Seq(Nat) :
          Len(p) = Len(q) /\ Len(q) = Len(r) /\ Lexical(p, q) /\ Lexical(q, r) => Lexical(p, r)
  BY LexicalOrder
<1>5. \A p, q \in Seq(Nat) : ~(PathBefore(p, q) /\ PathBefore(q, p))
  <2>. SUFFICES ASSUME NEW p \in Seq(Nat), NEW q \in Seq(Nat)
                PROVE  ~(PathBefore(p, q) /\ PathBefore(q, p))
    OBVIOUS
  <2>. QED  BY <1>0, <1>1, <1>2
<1>6. \A p, q \in Seq(Nat) : p # q => PathBefore(p, q) \/ PathBefore(q, p)
  <2>. SUFFICES ASSUME NEW p \in Seq(Nat), NEW q \in Seq(Nat), p # q
                PROVE  PathBefore(p, q) \/ PathBefore(q, p)
    OBVIOUS
  <2>1. Len(p) \in Nat /\ Len(q) \in Nat
    BY <1>0
  <2>2. CASE Len(p) = Len(q)
    BY <1>1, <1>3, <2>2
  <2>3. CASE Len(p) # Len(q)
    BY <1>1, <2>1, <2>3
  <2>. QED  BY <2>2, <2>3
<1>7. \A p, q, r \in Seq(Nat) : PathBefore(p, q) /\ PathBefore(q, r) => PathBefore(p, r)
  <2>. SUFFICES ASSUME NEW p \in Seq(Nat), NEW q \in Seq(Nat), NEW r \in Seq(Nat),
                       PathBefore(p, q), PathBefore(q, r)
                PROVE  PathBefore(p, r)
    OBVIOUS
  <2>1. Len(p) \in Nat /\ Len(q) \in Nat /\ Len(r) \in Nat
    BY <1>0
  <2>2. Len(p) < Len(q) \/ (Len(p) = Len(q) /\ Lexical(p, q))
    BY <1>1
  <2>3. Len(q) < Len(r) \/ (Len(q) = Len(r) /\ Lexical(q, r))
    BY <1>1
  <2>4. Len(p) < Len(r) \/ (Len(p) = Len(r) /\ Lexical(p, r))
    BY <2>1, <2>2, <2>3, <1>4
  <2>. QED  BY <1>1, <2>4
<1>. QED  BY <1>5, <1>6, <1>7

LEMMA OriginOrder ==
    /\ \A o, u \in Origin : ~(OriginBefore(o, u) /\ OriginBefore(u, o))
    /\ \A o, u \in Origin : o # u => OriginBefore(o, u) \/ OriginBefore(u, o)
    /\ \A o, u, w \in Origin :
          OriginBefore(o, u) /\ OriginBefore(u, w) => OriginBefore(o, w)
<1>0. \A o \in Origin : o.path \in Seq(Nat) /\ o.description \in Nat
  BY DEF Origin
<1>1. \A o, u \in Origin : o # u => o.path # u.path \/ o.description # u.description
  BY DEF Origin
<1>2. \A o, u \in Origin : ~(OriginBefore(o, u) /\ OriginBefore(u, o))
  <2>. SUFFICES ASSUME NEW o \in Origin, NEW u \in Origin
                PROVE  ~(OriginBefore(o, u) /\ OriginBefore(u, o))
    OBVIOUS
  <2>. QED  BY <1>0, PathOrder DEF OriginBefore
<1>3. \A o, u \in Origin : o # u => OriginBefore(o, u) \/ OriginBefore(u, o)
  <2>. SUFFICES ASSUME NEW o \in Origin, NEW u \in Origin, o # u
                PROVE  OriginBefore(o, u) \/ OriginBefore(u, o)
    OBVIOUS
  <2>1. o.path # u.path \/ (o.path = u.path /\ o.description # u.description)
    BY <1>1
  <2>2. CASE o.path # u.path
    BY <1>0, <2>2, PathOrder DEF OriginBefore
  <2>3. CASE o.path = u.path /\ o.description # u.description
    <3>1. o.description < u.description \/ u.description < o.description
      BY <1>0, <2>3
    <3>. QED  BY <2>3, <3>1 DEF OriginBefore
  <2>. QED  BY <2>1, <2>2, <2>3
<1>4. \A o, u, w \in Origin :
          OriginBefore(o, u) /\ OriginBefore(u, w) => OriginBefore(o, w)
  <2>. SUFFICES ASSUME NEW o \in Origin, NEW u \in Origin, NEW w \in Origin,
                       OriginBefore(o, u), OriginBefore(u, w)
                PROVE  OriginBefore(o, w)
    OBVIOUS
  <2>1. /\ PathBefore(o.path, u.path)
              \/ (o.path = u.path /\ o.description < u.description)
        /\ PathBefore(u.path, w.path)
              \/ (u.path = w.path /\ u.description < w.description)
    BY DEF OriginBefore
  <2>2. PathBefore(o.path, w.path)
              \/ (o.path = w.path /\ o.description < w.description)
    BY <1>0, <2>1, PathOrder
  <2>. QED  BY <2>2 DEF OriginBefore
<1>. QED  BY <1>2, <1>3, <1>4

(* Origins as a value of the simulator has them.                            *)
Documented(origins) ==
    /\ origins = [id \in DOMAIN origins |-> origins[id]]
    /\ \A id \in DOMAIN origins : origins[id] \in Origin

Least(o, u) == IF OriginBefore(u, o) THEN u ELSE o

LEMMA LeastExchange ==
    \A o, u, w \in Origin :
        /\ Least(o, u) \in Origin /\ Least(o, u) = Least(u, o)
        /\ Least(Least(o, u), w) = Least(Least(o, w), u)
<1>. SUFFICES ASSUME NEW o \in Origin, NEW u \in Origin, NEW w \in Origin
              PROVE  /\ Least(o, u) \in Origin /\ Least(o, u) = Least(u, o)
                     /\ Least(Least(o, u), w) = Least(Least(o, w), u)
  OBVIOUS
<1>1. Least(o, u) \in Origin /\ Least(o, u) = Least(u, o)
  BY OriginOrder DEF Least
<1>2. Least(Least(o, u), w) = Least(Least(o, w), u)
  BY OriginOrder DEF Least
<1>. QED  BY <1>1, <1>2

LEMMA CanonicalFacts ==
    ASSUME NEW a, NEW b, Documented(a), Documented(b)
    PROVE  /\ Documented(Canonical(a, b))
           /\ DOMAIN Canonical(a, b) = DOMAIN a \cup DOMAIN b
           /\ \A id \in DOMAIN a \cup DOMAIN b :
                 Canonical(a, b)[id] = IF id \notin DOMAIN a THEN b[id]
                                       ELSE IF id \notin DOMAIN b THEN a[id]
                                       ELSE Least(a[id], b[id])
<1>. DEFINE c == Canonical(a, b)
<1>1. c = [id \in DOMAIN c |-> c[id]] /\ DOMAIN c = DOMAIN a \cup DOMAIN b
  BY DEF Canonical
<1>2. \A id \in DOMAIN a \cup DOMAIN b :
          c[id] = IF id \notin DOMAIN a THEN b[id]
                  ELSE IF id \notin DOMAIN b THEN a[id]
                  ELSE Least(a[id], b[id])
  BY DEF Canonical, Least
<1>. HIDE DEF c
<1>3. \A id \in DOMAIN c : c[id] \in Origin
  <2>. SUFFICES ASSUME NEW id \in DOMAIN c
                PROVE  c[id] \in Origin
    OBVIOUS
  <2>0. id \in DOMAIN a \cup DOMAIN b
    BY <1>1
  <2>1. (c[id] = a[id] /\ id \in DOMAIN a) \/ (c[id] = b[id] /\ id \in DOMAIN b)
    <3>1. c[id] = IF id \notin DOMAIN a THEN b[id]
                  ELSE IF id \notin DOMAIN b THEN a[id] ELSE Least(a[id], b[id])
      BY <1>2, <2>0, Zenon
    <3>. QED  BY <2>0, <3>1 DEF Least
  <2>. QED  BY <2>1 DEF Documented
<1>4. Documented(c)
  BY <1>1, <1>3 DEF Documented
<1>. QED  BY <1>1, <1>2, <1>4 DEF c

LEMMA OriginsExchange ==
    ASSUME NEW a, NEW b, NEW c, Documented(a), Documented(b), Documented(c)
    PROVE  Canonical(Canonical(a, b), c) = Canonical(Canonical(a, c), b)
<1>. DEFINE ab == Canonical(a, b)
            ac == Canonical(a, c)
            left == Canonical(ab, c)
            right == Canonical(ac, b)
<1>1. /\ Documented(ab) /\ DOMAIN ab = DOMAIN a \cup DOMAIN b
      /\ \A id \in DOMAIN a \cup DOMAIN b :
            ab[id] = IF id \notin DOMAIN a THEN b[id]
                     ELSE IF id \notin DOMAIN b THEN a[id] ELSE Least(a[id], b[id])
  BY CanonicalFacts
<1>2. /\ Documented(ac) /\ DOMAIN ac = DOMAIN a \cup DOMAIN c
      /\ \A id \in DOMAIN a \cup DOMAIN c :
            ac[id] = IF id \notin DOMAIN a THEN c[id]
                     ELSE IF id \notin DOMAIN c THEN a[id] ELSE Least(a[id], c[id])
  BY CanonicalFacts
<1>. HIDE DEF ab, ac
<1>3. /\ Documented(left) /\ DOMAIN left = DOMAIN ab \cup DOMAIN c
      /\ \A id \in DOMAIN ab \cup DOMAIN c :
            left[id] = IF id \notin DOMAIN ab THEN c[id]
                       ELSE IF id \notin DOMAIN c THEN ab[id] ELSE Least(ab[id], c[id])
  BY <1>1, CanonicalFacts
<1>4. /\ Documented(right) /\ DOMAIN right = DOMAIN ac \cup DOMAIN b
      /\ \A id \in DOMAIN ac \cup DOMAIN b :
            right[id] = IF id \notin DOMAIN ac THEN b[id]
                        ELSE IF id \notin DOMAIN b THEN ac[id] ELSE Least(ac[id], b[id])
  BY <1>2, CanonicalFacts
<1>. HIDE DEF left, right
<1>5. /\ DOMAIN left = DOMAIN right
      /\ left = [id \in DOMAIN left |-> left[id]] /\ right = [id \in DOMAIN right |-> right[id]]
  BY <1>1, <1>2, <1>3, <1>4 DEF Documented
<1>6. ASSUME NEW id \in DOMAIN left
      PROVE  left[id] = right[id]
  <2>0. /\ id \in DOMAIN a => a[id] \in Origin
        /\ id \in DOMAIN b => b[id] \in Origin
        /\ id \in DOMAIN c => c[id] \in Origin
    BY DEF Documented
  <2>1. CASE id \in DOMAIN a /\ id \in DOMAIN b /\ id \in DOMAIN c
    <3>1. left[id] = Least(Least(a[id], b[id]), c[id]) /\ right[id] = Least(Least(a[id], c[id]), b[id])
      BY <1>1, <1>2, <1>3, <1>4, <2>1
    <3>. QED  BY <2>0, <2>1, <3>1, LeastExchange
  <2>2. CASE id \notin DOMAIN a /\ id \in DOMAIN b /\ id \in DOMAIN c
    <3>1. left[id] = Least(b[id], c[id]) /\ right[id] = Least(c[id], b[id])
      BY <1>1, <1>2, <1>3, <1>4, <2>2
    <3>. QED  BY <2>0, <2>2, <3>1, LeastExchange
  <2>3. CASE id \notin DOMAIN b \/ id \notin DOMAIN c
    BY <1>1, <1>2, <1>3, <1>4, <2>3
  <2>. QED  BY <2>1, <2>2, <2>3
<1>7. left = right
  BY <1>5, <1>6
<1>. QED  BY <1>7 DEF left, right, ab, ac
-----------------------------------------------------------------------------
(* Values added to an aggregate one by one.                                 *)

OriginsOf(value) == IF IsKnown(value) THEN <<>> ELSE value.origins

Absorb(total, value) ==
    IF IsKnown(total) /\ IsKnown(value) THEN Known(Merge(total.bus, value.bus))
    ELSE Unknown(Canonical(OriginsOf(total), OriginsOf(value)))

(* Whatever a value does not know, it names the sources of.                 *)
Sourced(value) == ~IsKnown(value) => Documented(value.origins)

Exact(value) == (IsKnown(value) => Integral(value.bus)) /\ Sourced(value)

LEMMA NoOrigins ==
    /\ Documented(<<>>)
    /\ \A o : Documented(o) => Canonical(o, <<>>) = o /\ Canonical(<<>>, o) = o
<1>1. DOMAIN <<>> = {} /\ <<>> = [id \in {} |-> <<>>[id]]
  OBVIOUS
<1>2. Documented(<<>>)
  BY <1>1 DEF Documented
<1>3. ASSUME NEW o, Documented(o)
      PROVE  Canonical(o, <<>>) = o /\ Canonical(<<>>, o) = o
  <2>1. Canonical(o, <<>>) = [id \in DOMAIN o |-> o[id]]
    BY <1>1 DEF Canonical
  <2>2. Canonical(<<>>, o) = [id \in DOMAIN o |-> o[id]]
    BY <1>1 DEF Canonical
  <2>. QED  BY <1>3, <2>1, <2>2 DEF Documented
<1>. QED  BY <1>2, <1>3

LEMMA OriginsOfFacts ==
    ASSUME NEW value, Sourced(value)
    PROVE  Documented(OriginsOf(value))
BY NoOrigins DEF OriginsOf, Sourced

LEMMA WithOriginsFacts ==
    ASSUME NEW o, Documented(o), NEW value, Sourced(value)
    PROVE  /\ WithOrigins(o, value) = Canonical(o, OriginsOf(value))
           /\ Documented(WithOrigins(o, value))
<1>1. WithOrigins(o, value) = Canonical(o, OriginsOf(value))
  BY NoOrigins DEF WithOrigins, OriginsOf
<1>2. Documented(OriginsOf(value))
  BY OriginsOfFacts
<1>. QED  BY <1>1, <1>2, CanonicalFacts

AllOrigins(values) == FoldLeft(WithOrigins, <<>>, values)

LEMMA AllOriginsSteps ==
    /\ AllOrigins(<<>>) = <<>>
    /\ \A V : \A s \in Seq(V) : \A v \in V :
          AllOrigins(Append(s, v)) = WithOrigins(AllOrigins(s), v)
<1>1. \A s : OriginFold!Result(<<>>, s) = AllOrigins(s)
  BY Zenon DEF FoldLeft, MapThenFoldSet, Max, OriginFold!Result,
               OriginFold!MapThenFoldSet, OriginFold!Greatest, AllOrigins
<1>2. AllOrigins(<<>>) = <<>>
  BY <1>1, OriginFold!FoldEmpty, FoldsInduct
<1>3. ASSUME NEW V, NEW s \in Seq(V), NEW v \in V
      PROVE  AllOrigins(Append(s, v)) = WithOrigins(AllOrigins(s), v)
  <2>1. OriginFold!Result(<<>>, Append(s, v))
            = WithOrigins(OriginFold!Result(<<>>, s), v)
    BY OriginFold!FoldAppend, FoldsInduct
  <2>. QED  BY <1>1, <2>1, Zenon
<1>. QED  BY <1>2, <1>3, Zenon

LEMMA AllOriginsFacts ==
    ASSUME NEW V, \A v \in V : Sourced(v), NEW s \in Seq(V)
    PROVE  /\ Documented(AllOrigins(s))
           /\ (\A i \in DOMAIN s : IsKnown(s[i])) => AllOrigins(s) = <<>>
<1>. DEFINE Good(r) == /\ Documented(AllOrigins(r))
                       /\ (\A i \in DOMAIN r : IsKnown(r[i])) => AllOrigins(r) = <<>>
            G == {m \in Nat : \A r \in Seq(V) : Len(r) = m => Good(r)}
<1>1. 0 \in G
  <2>1. \A r \in Seq(V) : Len(r) = 0 => r = <<>>
    OBVIOUS
  <2>2. Good(<<>>)
    BY AllOriginsSteps, NoOrigins
  <2>. HIDE DEF Good
  <2>. QED  BY <2>1, <2>2
<1>2. ASSUME NEW m \in G
      PROVE  m + 1 \in G
  <2>1. ASSUME NEW r \in Seq(V), Len(r) = m + 1
        PROVE  Good(r)
    <3>1. PICK q \in Seq(V), w \in V : r = Append(q, w) /\ Len(q) = m
      BY <2>1, MergeFold!LastValue
    <3>2. Good(q)
      BY <3>1
    <3>3. AllOrigins(r) = WithOrigins(AllOrigins(q), w)
      BY <3>1, AllOriginsSteps
    <3>4. Documented(AllOrigins(r))
      BY <3>2, <3>3, WithOriginsFacts
    <3>5. ASSUME \A i \in DOMAIN r : IsKnown(r[i])
          PROVE  AllOrigins(r) = <<>>
      <4>1. /\ \A i \in DOMAIN q : i \in DOMAIN r /\ r[i] = q[i]
            /\ Len(r) \in DOMAIN r /\ r[Len(r)] = w
        BY <3>1
      <4>2. AllOrigins(q) = <<>> /\ IsKnown(w)
        BY <3>2, <3>5, <4>1
      <4>. QED  BY <3>3, <4>2 DEF WithOrigins
    <3>. QED  BY <3>4, <3>5
  <2>. HIDE DEF Good
  <2>. QED  BY <2>1
<1>3. G = Nat
  <2>. G \in SUBSET Nat
    OBVIOUS
  <2>. HIDE DEF G
  <2>. QED  BY <1>1, <1>2, NaturalInduction
<1>4. Len(s) \in G
  <2>1. Len(s) \in Nat
    OBVIOUS
  <2>. HIDE DEF G
  <2>. QED  BY <1>3, <2>1
<1>. QED  BY <1>4

AllKnown(values) == \A i \in DOMAIN values : IsKnown(values[i])

BusesOf(values) == [i \in DOMAIN values |-> values[i].bus]

LEMMA AggregateCases ==
    ASSUME NEW values
    PROVE  AggregateValues(values) = IF AllKnown(values)
                                     THEN Known(AggregateBuses(BusesOf(values)))
                                     ELSE Unknown(AllOrigins(values))
BY Zenon DEF AggregateValues, AllKnown, BusesOf, AllOrigins

LEMMA AbsorbExact ==
    ASSUME NEW a, NEW b, Exact(a), Exact(b)
    PROVE  Exact(Absorb(a, b))
<1>1. CASE IsKnown(a) /\ IsKnown(b)
  <2>1. Integral(Merge(a.bus, b.bus))
    BY <1>1, MergeFacts DEF Exact
  <2>2. Absorb(a, b) = Known(Merge(a.bus, b.bus))
    BY <1>1 DEF Absorb
  <2>. QED  BY <2>1, <2>2, BusValues DEF Exact, Sourced
<1>2. CASE ~(IsKnown(a) /\ IsKnown(b))
  <2>1. Documented(OriginsOf(a)) /\ Documented(OriginsOf(b))
    BY OriginsOfFacts DEF Exact
  <2>2. Documented(Canonical(OriginsOf(a), OriginsOf(b)))
    BY <2>1, CanonicalFacts
  <2>3. Absorb(a, b) = Unknown(Canonical(OriginsOf(a), OriginsOf(b)))
    BY <1>2 DEF Absorb
  <2>. QED  BY <2>2, <2>3, BusValues DEF Exact, Sourced
<1>. QED  BY <1>1, <1>2

LEMMA AbsorbOrigins ==
    ASSUME NEW a, NEW b, Exact(a), Exact(b)
    PROVE  /\ IsKnown(Absorb(a, b)) <=> IsKnown(a) /\ IsKnown(b)
           /\ IsKnown(a) /\ IsKnown(b) => Absorb(a, b).bus = Merge(a.bus, b.bus)
           /\ OriginsOf(Absorb(a, b)) = Canonical(OriginsOf(a), OriginsOf(b))
<1>1. CASE IsKnown(a) /\ IsKnown(b)
  <2>1. Absorb(a, b) = Known(Merge(a.bus, b.bus))
    BY <1>1 DEF Absorb
  <2>2. OriginsOf(a) = <<>> /\ OriginsOf(b) = <<>> /\ OriginsOf(Absorb(a, b)) = <<>>
    BY <1>1, <2>1, BusValues DEF OriginsOf
  <2>3. Canonical(<<>>, <<>>) = <<>>
    BY NoOrigins
  <2>. QED  BY <1>1, <2>1, <2>2, <2>3, BusValues
<1>2. CASE ~(IsKnown(a) /\ IsKnown(b))
  <2>1. Absorb(a, b) = Unknown(Canonical(OriginsOf(a), OriginsOf(b)))
    BY <1>2 DEF Absorb
  <2>2. ~IsKnown(Absorb(a, b)) /\ Absorb(a, b).origins = Canonical(OriginsOf(a), OriginsOf(b))
    BY <2>1, BusValues
  <2>. QED  BY <1>2, <2>2 DEF OriginsOf
<1>. QED  BY <1>1, <1>2

(* After any aggregate, the order of the next two values does not matter.   *)
LEMMA AbsorbExchange ==
    ASSUME NEW a, NEW b, NEW c, Exact(a), Exact(b), Exact(c)
    PROVE  Absorb(Absorb(a, b), c) = Absorb(Absorb(a, c), b)
<1>. DEFINE ab == Absorb(a, b)
            ac == Absorb(a, c)
<1>1. /\ IsKnown(ab) <=> IsKnown(a) /\ IsKnown(b)
      /\ IsKnown(a) /\ IsKnown(b) => ab.bus = Merge(a.bus, b.bus)
      /\ OriginsOf(ab) = Canonical(OriginsOf(a), OriginsOf(b))
  BY AbsorbOrigins
<1>2. /\ IsKnown(ac) <=> IsKnown(a) /\ IsKnown(c)
      /\ IsKnown(a) /\ IsKnown(c) => ac.bus = Merge(a.bus, c.bus)
      /\ OriginsOf(ac) = Canonical(OriginsOf(a), OriginsOf(c))
  BY AbsorbOrigins
<1>. HIDE DEF ab, ac
<1>3. CASE IsKnown(a) /\ IsKnown(b) /\ IsKnown(c)
  <2>1. Absorb(ab, c) = Known(Merge(Merge(a.bus, b.bus), c.bus))
    BY <1>1, <1>3 DEF Absorb
  <2>2. Absorb(ac, b) = Known(Merge(Merge(a.bus, c.bus), b.bus))
    BY <1>2, <1>3 DEF Absorb
  <2>3. Integral(a.bus) /\ Integral(b.bus) /\ Integral(c.bus)
    BY <1>3 DEF Exact
  <2>4. Merge(Merge(a.bus, b.bus), c.bus) = Merge(Merge(a.bus, c.bus), b.bus)
    BY <2>3, BusesExchange
  <2>. QED  BY <2>1, <2>2, <2>4, Zenon DEF ab, ac
<1>4. CASE ~(IsKnown(a) /\ IsKnown(b) /\ IsKnown(c))
  <2>1. Absorb(ab, c) = Unknown(Canonical(Canonical(OriginsOf(a), OriginsOf(b)), OriginsOf(c)))
    BY <1>1, <1>4 DEF Absorb
  <2>2. Absorb(ac, b) = Unknown(Canonical(Canonical(OriginsOf(a), OriginsOf(c)), OriginsOf(b)))
    BY <1>2, <1>4 DEF Absorb
  <2>3. Documented(OriginsOf(a)) /\ Documented(OriginsOf(b)) /\ Documented(OriginsOf(c))
    BY OriginsOfFacts DEF Exact
  <2>4. Canonical(Canonical(OriginsOf(a), OriginsOf(b)), OriginsOf(c))
            = Canonical(Canonical(OriginsOf(a), OriginsOf(c)), OriginsOf(b))
    BY <2>3, OriginsExchange
  <2>. QED  BY <2>1, <2>2, <2>4, Zenon DEF ab, ac
<1>. QED  BY <1>3, <1>4

(* A sequence of exact values.                                              *)
ExactValues(values) == IsSequence(values) /\ \A i \in DOMAIN values : Exact(values[i])

LEMMA EmptyAggregate == AggregateValues(<<>>) = Known(ZeroBus)
<1>1. ZeroBus = AggregateBuses(BusesOf(<<>>))
  <2>1. AllKnown(<<>>)
    BY DEF AllKnown
  <2>. QED  BY <2>1, NothingTotals DEF Totals, BusesOf, AllKnown
<1>2. AllKnown(<<>>)
  BY DEF AllKnown
<1>3. AggregateValues(<<>>) = Known(AggregateBuses(BusesOf(<<>>)))
  BY <1>2, AggregateCases
<1>. QED  BY <1>1, <1>3, Zenon

(* An aggregate of one more value absorbs it.                               *)
LEMMA AggregateJoins ==
    ASSUME NEW s, ExactValues(s), NEW v, Exact(v)
    PROVE  AggregateValues(Append(s, v)) = Absorb(AggregateValues(s), v)
<1>. DEFINE t == Append(s, v)
            V == Range(s) \cup {v}
<1>1. /\ IsSequence(t) /\ Len(t) = Len(s) + 1
      /\ \A i \in 1 .. Len(s) : t[i] = s[i]
      /\ t[Len(s) + 1] = v
  BY AppendFacts DEF ExactValues
<1>2. s \in Seq(V) /\ v \in V
  <2>1. s \in Seq(Range(s))
    BY DEF ExactValues, IsSequence
  <2>2. \A A, B : A \subseteq B => Seq(A) \subseteq Seq(B)
    BY SeqMonotonic
  <2>. HIDE DEF V
  <2>3. Range(s) \subseteq V /\ v \in V
    BY DEF V
  <2>. QED  BY <2>1, <2>2, <2>3, Zenon
<1>3. \A w \in V : Sourced(w)
  BY DEF ExactValues, Exact, Range
<1>4. AllOrigins(t) = WithOrigins(AllOrigins(s), v)
  <2>. HIDE DEF V
  <2>. QED  BY <1>2, AllOriginsSteps, Zenon
<1>5. /\ Documented(AllOrigins(s))
      /\ AllKnown(s) => AllOrigins(s) = <<>>
  <2>. HIDE DEF V
  <2>. QED  BY <1>2, <1>3, AllOriginsFacts DEF AllKnown
<1>. HIDE DEF V, t
<1>6. /\ Len(s) \in Nat /\ DOMAIN s = 1 .. Len(s) /\ DOMAIN t = 1 .. Len(t)
  BY <1>1, SequenceFacts DEF ExactValues
<1>7. AllKnown(t) <=> AllKnown(s) /\ IsKnown(v)
  BY <1>1, <1>6 DEF AllKnown
<1>8. CASE AllKnown(s) /\ IsKnown(v)
  <2>1. AggregateValues(s) = Known(AggregateBuses(BusesOf(s)))
    BY <1>8, AggregateCases
  <2>2. Totals(s, AggregateBuses(BusesOf(s))) /\ WireMatches(v, v.bus)
    BY Zenon DEF Totals, BusesOf, WireMatches
  <2>3. Totals(t, Merge(AggregateBuses(BusesOf(s)), v.bus))
    BY <2>2, ValueJoins DEF t, ExactValues
  <2>4. Merge(AggregateBuses(BusesOf(s)), v.bus) = AggregateBuses(BusesOf(t))
    BY <1>7, <1>8, <2>3, Zenon DEF Totals, AllKnown, BusesOf
  <2>5. AggregateValues(t) = Known(AggregateBuses(BusesOf(t)))
    BY <1>7, <1>8, AggregateCases
  <2>6. Absorb(AggregateValues(s), v) = Known(Merge(AggregateBuses(BusesOf(s)), v.bus))
    BY <1>8, <2>1, BusValues DEF Absorb
  <2>. QED  BY <2>4, <2>5, <2>6, Zenon DEF t
<1>9. CASE ~(AllKnown(s) /\ IsKnown(v))
  <2>1. AggregateValues(t) = Unknown(WithOrigins(AllOrigins(s), v))
    BY <1>4, <1>7, <1>9, AggregateCases
  <2>2. WithOrigins(AllOrigins(s), v) = Canonical(AllOrigins(s), OriginsOf(v))
    BY <1>5, WithOriginsFacts DEF Exact
  <2>3. OriginsOf(AggregateValues(s)) = AllOrigins(s)
           /\ (IsKnown(AggregateValues(s)) <=> AllKnown(s))
    BY <1>5, AggregateCases, BusValues DEF OriginsOf
  <2>4. Absorb(AggregateValues(s), v) = Unknown(Canonical(AllOrigins(s), OriginsOf(v)))
    BY <1>9, <2>3 DEF Absorb
  <2>. QED  BY <2>1, <2>2, <2>4, Zenon DEF t
<1>. QED  BY <1>8, <1>9

LEMMA ExactShorter ==
    ASSUME NEW V, NEW q \in Seq(V), NEW w \in V, NEW s, s = Append(q, w), ExactValues(s)
    PROVE  ExactValues(q) /\ Exact(w)
<1>1. /\ \A i \in DOMAIN q : i \in DOMAIN s /\ s[i] = q[i]
      /\ Len(s) \in DOMAIN s /\ s[Len(s)] = w
  OBVIOUS
<1>2. IsSequence(q)
  BY ListIsSequence
<1>. QED  BY <1>1, <1>2 DEF ExactValues

LEMMA AggregateExact ==
    ASSUME NEW s, ExactValues(s)
    PROVE  Exact(AggregateValues(s))
<1>. DEFINE V == Range(s)
            G == {m \in Nat : \A r \in Seq(V) : Len(r) = m /\ ExactValues(r)
                                  => Exact(AggregateValues(r))}
<1>1. 0 \in G
  <2>1. \A r \in Seq(V) : Len(r) = 0 => r = <<>>
    OBVIOUS
  <2>2. Exact(AggregateValues(<<>>))
    BY EmptyAggregate, NothingIntegral, BusValues DEF Exact, Sourced
  <2>. QED  BY <2>1, <2>2
<1>2. ASSUME NEW m \in G
      PROVE  m + 1 \in G
  <2>. HIDE DEF V
  <2>1. ASSUME NEW r \in Seq(V), Len(r) = m + 1, ExactValues(r)
        PROVE  Exact(AggregateValues(r))
    <3>1. PICK q \in Seq(V), w \in V : r = Append(q, w) /\ Len(q) = m
      BY <2>1, MergeFold!LastValue
    <3>2. ExactValues(q) /\ Exact(w)
      BY <2>1, <3>1, ExactShorter
    <3>3. Exact(AggregateValues(q))
      BY <3>1, <3>2
    <3>4. AggregateValues(r) = Absorb(AggregateValues(q), w)
      BY <3>1, <3>2, AggregateJoins
    <3>. QED  BY <3>2, <3>3, <3>4, AbsorbExact
  <2>. QED  BY <2>1
<1>3. G = Nat
  <2>. G \in SUBSET Nat
    OBVIOUS
  <2>. HIDE DEF G
  <2>. QED  BY <1>1, <1>2, NaturalInduction
<1>4. s \in Seq(V) /\ Len(s) \in G
  <2>1. s \in Seq(V) /\ Len(s) \in Nat
    BY DEF ExactValues, IsSequence
  <2>. HIDE DEF G, V
  <2>. QED  BY <1>3, <2>1
<1>. QED  BY <1>4
-----------------------------------------------------------------------------
(* Networks that take outputs one by one.                                   *)

AbsorbOutput(networks, output) ==
    With(networks, output.network, Absorb(ReadNetwork(networks, output.network), output.value))

ExactNetworks(networks) == \A n \in DOMAIN networks : Exact(networks[n])

ExactContributions(f) == \A n \in DOMAIN f : ExactValues(f[n])

LEMMA ReadExact ==
    ASSUME NEW networks, ExactNetworks(networks), NEW n
    PROVE  Exact(ReadNetwork(networks, n))
BY NothingIntegral, BusValues DEF ReadNetwork, ExactNetworks, Exact, Sourced

LEMMA WithTwice ==
    ASSUME NEW f, NEW j, NEW k, NEW x, NEW y
    PROVE  /\ j # k => With(With(f, j, x), k, y) = With(With(f, k, y), j, x)
           /\ With(With(f, j, x), j, y) = With(f, j, y)
<1>1. \A g, key, value : With(g, key, value) =
          [i \in DOMAIN g \cup {key} |-> IF i = key THEN value ELSE g[i]]
  BY DEF With, Override
<1>2. With(With(f, j, x), k, y) = [i \in DOMAIN f \cup {j, k} |->
          IF i = k THEN y ELSE IF i = j THEN x ELSE f[i]]
  <2>. DEFINE g == With(f, j, x)
  <2>1. g = [i \in DOMAIN f \cup {j} |-> IF i = j THEN x ELSE f[i]]
    BY <1>1
  <2>2. With(g, k, y) = [i \in DOMAIN g \cup {k} |-> IF i = k THEN y ELSE g[i]]
    BY <1>1
  <2>. HIDE DEF g
  <2>3. With(g, k, y) = [i \in DOMAIN f \cup {j, k} |->
            IF i = k THEN y ELSE IF i = j THEN x ELSE f[i]]
    BY <2>1, <2>2
  <2>. QED  BY <2>3 DEF g
<1>3. With(With(f, k, y), j, x) = [i \in DOMAIN f \cup {j, k} |->
          IF i = j THEN x ELSE IF i = k THEN y ELSE f[i]]
  <2>. DEFINE g == With(f, k, y)
  <2>1. g = [i \in DOMAIN f \cup {k} |-> IF i = k THEN y ELSE f[i]]
    BY <1>1
  <2>2. With(g, j, x) = [i \in DOMAIN g \cup {j} |-> IF i = j THEN x ELSE g[i]]
    BY <1>1
  <2>. HIDE DEF g
  <2>3. With(g, j, x) = [i \in DOMAIN f \cup {j, k} |->
            IF i = j THEN x ELSE IF i = k THEN y ELSE f[i]]
    BY <2>1, <2>2
  <2>. QED  BY <2>3 DEF g
<1>4. j # k => With(With(f, j, x), k, y) = With(With(f, k, y), j, x)
  <2>. SUFFICES ASSUME j # k PROVE With(With(f, j, x), k, y) = With(With(f, k, y), j, x)
    OBVIOUS
  <2>. DEFINE S == DOMAIN f \cup {j, k}
  <2>1. \A i \in S : (IF i = k THEN y ELSE IF i = j THEN x ELSE f[i])
                   = (IF i = j THEN x ELSE IF i = k THEN y ELSE f[i])
    OBVIOUS
  <2>2. [i \in S |-> IF i = k THEN y ELSE IF i = j THEN x ELSE f[i]]
            = [i \in S |-> IF i = j THEN x ELSE IF i = k THEN y ELSE f[i]]
    BY <2>1
  <2>. QED  BY <1>2, <1>3, <2>2
<1>5. With(With(f, j, x), j, y) = With(f, j, y)
  <2>. DEFINE g == With(f, j, x)
  <2>1. g = [i \in DOMAIN f \cup {j} |-> IF i = j THEN x ELSE f[i]]
    BY <1>1
  <2>2. With(g, j, y) = [i \in DOMAIN g \cup {j} |-> IF i = j THEN y ELSE g[i]]
    BY <1>1
  <2>3. With(f, j, y) = [i \in DOMAIN f \cup {j} |-> IF i = j THEN y ELSE f[i]]
    BY <1>1
  <2>. HIDE DEF g
  <2>4. With(g, j, y) = With(f, j, y)
    BY <2>1, <2>2, <2>3
  <2>. QED  BY <2>4 DEF g
<1>. QED  BY <1>4, <1>5

LEMMA ReadWith ==
    \A f, key, value, n :
        ReadNetwork(With(f, key, value), n) = IF n = key THEN value ELSE ReadNetwork(f, n)
BY DEF ReadNetwork, With, Override

LEMMA OutputAbsorbed ==
    ASSUME NEW f, ExactNetworks(f), NEW output, Exact(output.value)
    PROVE  ExactNetworks(AbsorbOutput(f, output))
<1>. DEFINE key == output.network
            value == Absorb(ReadNetwork(f, key), output.value)
            g == AbsorbOutput(f, output)
<1>1. Exact(value)
  BY ReadExact, AbsorbExact
<1>2. /\ DOMAIN g = DOMAIN f \cup {key} /\ g[key] = value
      /\ \A k \in DOMAIN f : k # key => g[k] = f[k]
  <2>1. g = With(f, key, value)
    BY DEF AbsorbOutput
  <2>. HIDE DEF g, value, key
  <2>. QED  BY <2>1 DEF With, Override
<1>. HIDE DEF key, value, g
<1>3. ExactNetworks(g)
  BY <1>1, <1>2 DEF ExactNetworks
<1>. QED  BY <1>3 DEF g

(* Outputs of two devices exchange, on one network and on two.              *)
LEMMA OutputsExchange ==
    ASSUME NEW f, ExactNetworks(f), NEW a, NEW b, Exact(a.value), Exact(b.value)
    PROVE  AbsorbOutput(AbsorbOutput(f, a), b) = AbsorbOutput(AbsorbOutput(f, b), a)
<1>. DEFINE x == Absorb(ReadNetwork(f, a.network), a.value)
            y == Absorb(ReadNetwork(f, b.network), b.value)
<1>1. AbsorbOutput(f, a) = With(f, a.network, x) /\ AbsorbOutput(f, b) = With(f, b.network, y)
  BY DEF AbsorbOutput
<1>2. CASE a.network = b.network
  <2>. DEFINE key == a.network
              before == ReadNetwork(f, key)
  <2>1. AbsorbOutput(AbsorbOutput(f, a), b)
            = With(With(f, key, x), key, Absorb(x, b.value))
    BY <1>1, <1>2, ReadWith DEF AbsorbOutput
  <2>2. AbsorbOutput(AbsorbOutput(f, b), a)
            = With(With(f, key, y), key, Absorb(y, a.value))
    BY <1>1, <1>2, ReadWith DEF AbsorbOutput
  <2>3. Exact(before)
    BY ReadExact
  <2>4. x = Absorb(before, a.value) /\ y = Absorb(before, b.value)
    BY <1>2
  <2>. HIDE DEF before, x, y, key
  <2>5. Absorb(x, b.value) = Absorb(y, a.value)
    BY <2>3, <2>4, AbsorbExchange
  <2>. QED  BY <2>1, <2>2, <2>5, WithTwice
<1>3. CASE a.network # b.network
  <2>1. AbsorbOutput(AbsorbOutput(f, a), b) = With(With(f, a.network, x), b.network, y)
    BY <1>1, <1>3, ReadWith DEF AbsorbOutput
  <2>2. AbsorbOutput(AbsorbOutput(f, b), a) = With(With(f, b.network, y), a.network, x)
    BY <1>1, <1>3, ReadWith DEF AbsorbOutput
  <2>. HIDE DEF x, y
  <2>. QED  BY <1>3, <2>1, <2>2, WithTwice
<1>. QED  BY <1>2, <1>3

(* To put out and then to aggregate is to absorb into the aggregate.        *)
LEMMA OutputJoins ==
    ASSUME NEW f, ExactContributions(f), NEW output, Exact(output.value)
    PROVE  /\ ExactContributions(WithOutput(f, output))
           /\ Aggregated(WithOutput(f, output)) = AbsorbOutput(Aggregated(f), output)
<1>. DEFINE key == output.network
            s == ValueAt(f, key, <<>>)
            t == Append(s, output.value)
            g == WithOutput(f, output)
            h == Aggregated(f)
            value == Absorb(ReadNetwork(h, key), output.value)
<1>1. ExactValues(s)
  <2>1. IsSequence(<<>>) /\ DOMAIN <<>> = {}
    <3>1. <<>> \in Seq({}) /\ DOMAIN <<>> = {}
      OBVIOUS
    <3>. QED  BY <3>1, ListIsSequence, Zenon
  <2>2. ExactValues(<<>>)
    BY <2>1, Zenon DEF ExactValues
  <2>. QED  BY <2>2, Zenon DEF ExactContributions, ValueAt
<1>2. ExactValues(t)
  <2>1. /\ IsSequence(t) /\ Len(t) = Len(s) + 1
        /\ \A i \in 1 .. Len(s) : t[i] = s[i]
        /\ t[Len(s) + 1] = output.value
    BY <1>1, AppendFacts DEF ExactValues
  <2>2. Len(s) \in Nat /\ DOMAIN s = 1 .. Len(s) /\ DOMAIN t = 1 .. Len(t)
    BY <1>1, <2>1, SequenceFacts DEF ExactValues
  <2>. HIDE DEF t, s
  <2>3. \A i \in DOMAIN t : (i \in DOMAIN s /\ t[i] = s[i]) \/ t[i] = output.value
    BY <2>1, <2>2
  <2>. QED  BY <1>1, <2>1, <2>3 DEF ExactValues
<1>3. AggregateValues(t) = Absorb(AggregateValues(s), output.value)
  BY <1>1, AggregateJoins
<1>4. /\ DOMAIN g = DOMAIN f \cup {key} /\ g[key] = t
      /\ \A k \in DOMAIN f : k # key => g[k] = f[k]
  <2>1. g = With(f, key, t)
    BY Zenon DEF WithOutput
  <2>. HIDE DEF g, t, key
  <2>. QED  BY <2>1 DEF With, Override
<1>5. /\ h = [n \in DOMAIN f |-> AggregateValues(f[n])]
      /\ Aggregated(g) = [n \in DOMAIN g |-> AggregateValues(g[n])]
  BY Zenon DEF Aggregated
<1>6. AggregateValues(s) = ReadNetwork(h, key)
  <2>. HIDE DEF key
  <2>1. CASE key \in DOMAIN f
    <3>. HIDE DEF h
    <3>1. s = f[key] /\ h[key] = AggregateValues(f[key]) /\ key \in DOMAIN h
      BY <1>5, <2>1 DEF ValueAt
    <3>. HIDE DEF s
    <3>. QED  BY <3>1 DEF ReadNetwork
  <2>2. CASE key \notin DOMAIN f
    <3>. HIDE DEF h
    <3>1. s = <<>> /\ key \notin DOMAIN h
      BY <1>5, <2>2 DEF ValueAt
    <3>. HIDE DEF s
    <3>. QED  BY <3>1, EmptyAggregate, Zenon DEF ReadNetwork
  <2>. QED  BY <2>1, <2>2
<1>7. AbsorbOutput(h, output) = [n \in DOMAIN h \cup {key} |-> IF n = key THEN value ELSE h[n]]
  <2>. HIDE DEF h
  <2>. QED  BY DEF AbsorbOutput, With, Override
<1>8. AggregateValues(t) = value
  BY <1>3, <1>6, Zenon
<1>. HIDE DEF s, t, g, h, key, value
<1>9. ExactContributions(g)
  BY <1>2, <1>4 DEF ExactContributions
<1>10. Aggregated(g) = AbsorbOutput(h, output)
  <2>1. DOMAIN h = DOMAIN f
    BY <1>5
  <2>2. \A n \in DOMAIN g : AggregateValues(g[n]) = IF n = key THEN value ELSE h[n]
    BY <1>4, <1>5, <1>8
  <2>3. [n \in DOMAIN g |-> AggregateValues(g[n])] = [n \in DOMAIN g |-> IF n = key THEN value ELSE h[n]]
    BY <2>2
  <2>. QED  BY <1>4, <1>5, <1>7, <2>1, <2>3
<1>. QED  BY <1>9, <1>10 DEF g, h
-----------------------------------------------------------------------------
(* Outputs that exchange: as many as there are.                             *)
AbsorbFold == INSTANCE LeftFolds WITH Op <- AbsorbOutput

LEMMA AbsorbInducts == AbsorbFold!Induction
BY NaturalInduction DEF AbsorbFold!Induction

LEMMA OutputSteps ==
    /\ FoldLeft(WithOutput, NoNetworks, <<>>) = NoNetworks
    /\ FoldLeft(AbsorbOutput, NoNetworks, <<>>) = NoNetworks
    /\ \A V : \A s \in Seq(V) : \A v \in V :
          /\ FoldLeft(WithOutput, NoNetworks, Append(s, v))
                 = WithOutput(FoldLeft(WithOutput, NoNetworks, s), v)
          /\ FoldLeft(AbsorbOutput, NoNetworks, Append(s, v))
                 = AbsorbOutput(FoldLeft(AbsorbOutput, NoNetworks, s), v)
<1>1. \A b, s : OutputFold!Result(b, s) = FoldLeft(WithOutput, b, s)
  BY Zenon DEF FoldLeft, MapThenFoldSet, Max, OutputFold!Result,
               OutputFold!MapThenFoldSet, OutputFold!Greatest
<1>2. \A b, s : AbsorbFold!Result(b, s) = FoldLeft(AbsorbOutput, b, s)
  BY Zenon DEF FoldLeft, MapThenFoldSet, Max, AbsorbFold!Result,
               AbsorbFold!MapThenFoldSet, AbsorbFold!Greatest
<1>3. /\ OutputFold!Result(NoNetworks, <<>>) = NoNetworks
      /\ AbsorbFold!Result(NoNetworks, <<>>) = NoNetworks
  BY OutputFold!FoldEmpty, FoldsInduct, AbsorbFold!FoldEmpty, AbsorbInducts
<1>4. ASSUME NEW V, NEW s \in Seq(V), NEW v \in V
      PROVE  /\ FoldLeft(WithOutput, NoNetworks, Append(s, v))
                    = WithOutput(FoldLeft(WithOutput, NoNetworks, s), v)
             /\ FoldLeft(AbsorbOutput, NoNetworks, Append(s, v))
                    = AbsorbOutput(FoldLeft(AbsorbOutput, NoNetworks, s), v)
  <2>1. OutputFold!Result(NoNetworks, Append(s, v))
            = WithOutput(OutputFold!Result(NoNetworks, s), v)
    BY OutputFold!FoldAppend, FoldsInduct
  <2>2. AbsorbFold!Result(NoNetworks, Append(s, v))
            = AbsorbOutput(AbsorbFold!Result(NoNetworks, s), v)
    BY AbsorbFold!FoldAppend, AbsorbInducts
  <2>. QED  BY <1>1, <1>2, <2>1, <2>2, Zenon
<1>. QED  BY <1>1, <1>2, <1>3, <1>4, Zenon

ExactOutputs(outputs) == \A output \in outputs : Exact(output.value)

(* So is to put out any number of outputs.                                  *)
LEMMA AggregatedFold ==
    ASSUME NEW V, ExactOutputs(V), NEW s \in Seq(V)
    PROVE  /\ ExactContributions(FoldLeft(WithOutput, NoNetworks, s))
           /\ ExactNetworks(FoldLeft(AbsorbOutput, NoNetworks, s))
           /\ Aggregated(FoldLeft(WithOutput, NoNetworks, s))
                  = FoldLeft(AbsorbOutput, NoNetworks, s)
<1>. DEFINE Good(r) == /\ ExactContributions(FoldLeft(WithOutput, NoNetworks, r))
                       /\ ExactNetworks(FoldLeft(AbsorbOutput, NoNetworks, r))
                       /\ Aggregated(FoldLeft(WithOutput, NoNetworks, r))
                              = FoldLeft(AbsorbOutput, NoNetworks, r)
            G == {m \in Nat : \A r \in Seq(V) : Len(r) = m => Good(r)}
<1>1. 0 \in G
  <2>1. \A r \in Seq(V) : Len(r) = 0 => r = <<>>
    OBVIOUS
  <2>2. ExactContributions(NoNetworks) /\ ExactNetworks(NoNetworks)
    BY SparseFacts DEF ExactContributions, ExactNetworks
  <2>3. Aggregated(NoNetworks) = NoNetworks
    <3>1. Aggregated(NoNetworks) = [n \in {} |-> AggregateValues(NoNetworks[n])]
      BY SparseFacts, Zenon DEF Aggregated
    <3>2. [n \in {} |-> AggregateValues(NoNetworks[n])] = [n \in {} |-> ZeroBus]
      OBVIOUS
    <3>. QED  BY <3>1, <3>2 DEF NoNetworks
  <2>4. Good(<<>>)
    BY <2>2, <2>3, OutputSteps, Zenon
  <2>. HIDE DEF Good
  <2>. QED  BY <2>1, <2>4
<1>2. ASSUME NEW m \in G
      PROVE  m + 1 \in G
  <2>1. ASSUME NEW r \in Seq(V), Len(r) = m + 1
        PROVE  Good(r)
    <3>1. PICK q \in Seq(V), w \in V : r = Append(q, w) /\ Len(q) = m
      BY <2>1, MergeFold!LastValue
    <3>2. Good(q)
      BY <3>1
    <3>3. Exact(w.value)
      BY DEF ExactOutputs
    <3>. DEFINE f == FoldLeft(WithOutput, NoNetworks, q)
                h == FoldLeft(AbsorbOutput, NoNetworks, q)
    <3>4. /\ FoldLeft(WithOutput, NoNetworks, r) = WithOutput(f, w)
          /\ FoldLeft(AbsorbOutput, NoNetworks, r) = AbsorbOutput(h, w)
      BY <3>1, OutputSteps, Zenon
    <3>5. ExactContributions(f) /\ ExactNetworks(h) /\ Aggregated(f) = h
      BY <3>2
    <3>. HIDE DEF f, h
    <3>6. ExactContributions(WithOutput(f, w)) /\ Aggregated(WithOutput(f, w)) = AbsorbOutput(h, w)
      BY <3>3, <3>5, OutputJoins
    <3>7. ExactNetworks(AbsorbOutput(h, w))
      BY <3>3, <3>5, OutputAbsorbed
    <3>. QED  BY <3>4, <3>6, <3>7, Zenon
  <2>. HIDE DEF Good
  <2>. QED  BY <2>1
<1>3. G = Nat
  <2>. G \in SUBSET Nat
    OBVIOUS
  <2>. HIDE DEF G
  <2>. QED  BY <1>1, <1>2, NaturalInduction
<1>4. Len(s) \in G
  <2>1. Len(s) \in Nat
    OBVIOUS
  <2>. HIDE DEF G
  <2>. QED  BY <1>3, <2>1
<1>5. Good(s)
  <2>. HIDE DEF Good
  <2>. QED  BY <1>4
<1>. QED  BY <1>5, Zenon

LEMMA AllExchange ==
    ASSUME NEW V, ExactOutputs(V)
    PROVE  AbsorbFold!Exchanges(NoNetworks, V)
<1>1. \A b, s : AbsorbFold!Result(b, s) = FoldLeft(AbsorbOutput, b, s)
  BY Zenon DEF FoldLeft, MapThenFoldSet, Max, AbsorbFold!Result,
               AbsorbFold!MapThenFoldSet, AbsorbFold!Greatest
<1>2. ASSUME NEW t \in Seq(V), NEW v \in V, NEW w \in V
      PROVE  AbsorbOutput(AbsorbOutput(AbsorbFold!Result(NoNetworks, t), v), w)
                 = AbsorbOutput(AbsorbOutput(AbsorbFold!Result(NoNetworks, t), w), v)
  <2>. DEFINE f == AbsorbFold!Result(NoNetworks, t)
  <2>1. ExactNetworks(f)
    <3>1. ExactNetworks(FoldLeft(AbsorbOutput, NoNetworks, t))
      BY AggregatedFold
    <3>. QED  BY <1>1, <3>1, Zenon
  <2>2. Exact(v.value) /\ Exact(w.value)
    BY DEF ExactOutputs
  <2>. HIDE DEF f
  <2>3. AbsorbOutput(AbsorbOutput(f, v), w) = AbsorbOutput(AbsorbOutput(f, w), v)
    BY <2>1, <2>2, OutputsExchange
  <2>. QED  BY <2>3 DEF f
<1>. QED  BY <1>2, Zenon DEF AbsorbFold!Exchanges

EvaluatedIn(V, order, n) == \A i \in 1 .. n : Evaluated(kernel.networks, order[i]) \in Seq(V)

PutOut(all, order, n) ==
    /\ all[0] = <<>>
    /\ \A i \in 1 .. n : all[i] = all[i - 1] \o Evaluated(kernel.networks, order[i])

(* What a run of devices contributes, from what each of them puts out.      *)
LEMMA ContributedOutputs ==
    ASSUME NEW V, NEW n \in Nat, NEW order, Len(order) = n, DOMAIN order = 1 .. n,
           EvaluatedIn(V, order, n), NEW all, PutOut(all, order, n)
    PROVE  FoldLeft(Contributed, NoNetworks, order) = FoldLeft(WithOutput, NoNetworks, all[n])
<1>. USE DEF EvaluatedIn, PutOut
<1>1. \E c : /\ DeviceFold!Runs(c, NoNetworks, order)
             /\ DeviceFold!Result(NoNetworks, order) = c[Len(order)]
  BY DeviceFold!FoldLeftRuns, FoldsInduct, Zenon
<1>2. DeviceFold!Result(NoNetworks, order) = FoldLeft(Contributed, NoNetworks, order)
  BY Zenon DEF FoldLeft, MapThenFoldSet, Max, DeviceFold!Result,
               DeviceFold!MapThenFoldSet, DeviceFold!Greatest
<1>3. PICK c : /\ c[0] = NoNetworks
               /\ \A i \in 1 .. n : c[i] = Contributed(c[i - 1], order[i])
               /\ FoldLeft(Contributed, NoNetworks, order) = c[n]
  BY <1>1, <1>2, Zenon DEF DeviceFold!Runs
<1>4. \A b, s : OutputFold!Result(b, s) = FoldLeft(WithOutput, b, s)
  BY Zenon DEF FoldLeft, MapThenFoldSet, Max, OutputFold!Result,
               OutputFold!MapThenFoldSet, OutputFold!Greatest
<1>5. \A s, t \in Seq(V) :
          FoldLeft(WithOutput, NoNetworks, s \o t)
              = FoldLeft(WithOutput, FoldLeft(WithOutput, NoNetworks, s), t)
  <2>1. \A s, t \in Seq(V) :
            OutputFold!Result(NoNetworks, s \o t)
                = OutputFold!Result(OutputFold!Result(NoNetworks, s), t)
    BY OutputFold!FoldConcat, FoldsInduct
  <2>. QED  BY <1>4, <2>1, Zenon DEF OutputFold!Result
<1>. DEFINE G == {m \in Nat : m <= n =>
                     /\ all[m] \in Seq(V)
                     /\ c[m] = FoldLeft(WithOutput, NoNetworks, all[m])}
<1>6. 0 \in G
  <2>1. <<>> \in Seq(V)
    OBVIOUS
  <2>2. FoldLeft(WithOutput, NoNetworks, <<>>) = NoNetworks
    BY OutputSteps, Zenon
  <2>3. all[0] \in Seq(V) /\ c[0] = FoldLeft(WithOutput, NoNetworks, all[0])
    BY <1>3, <2>1, <2>2, Zenon
  <2>. QED  BY <2>3
<1>7. ASSUME NEW m \in G
      PROVE  m + 1 \in G
  <2>1. CASE m + 1 <= n
    <3>1. /\ m + 1 \in 1 .. n /\ (m + 1) - 1 = m
          /\ all[m] \in Seq(V) /\ c[m] = FoldLeft(WithOutput, NoNetworks, all[m])
      BY <2>1
    <3>. DEFINE e == Evaluated(kernel.networks, order[m + 1])
    <3>2. /\ all[m + 1] = all[(m + 1) - 1] \o e
          /\ c[m + 1] = Contributed(c[(m + 1) - 1], order[m + 1])
          /\ e \in Seq(V)
      BY <1>3, <3>1, Zenon
    <3>3. all[m + 1] = all[m] \o e /\ c[m + 1] = FoldLeft(WithOutput, c[m], e)
      BY <3>1, <3>2, Zenon DEF Contributed
    <3>. HIDE DEF e
    <3>4. all[m + 1] \in Seq(V)
      BY <3>1, <3>2, <3>3, ConcatProperties
    <3>5. c[m + 1] = FoldLeft(WithOutput, NoNetworks, all[m + 1])
      BY <1>5, <3>1, <3>2, <3>3, Zenon
    <3>. QED  BY <3>4, <3>5
  <2>. QED  BY <2>1
<1>8. G = Nat
  <2>. G \in SUBSET Nat
    OBVIOUS
  <2>. HIDE DEF G
  <2>. QED  BY <1>6, <1>7, NaturalInduction
<1>9. c[n] = FoldLeft(WithOutput, NoNetworks, all[n])
  <2>1. n <= n
    OBVIOUS
  <2>2. n \in G
    BY <1>8
  <2>. QED  BY <2>1, <2>2
<1>. QED  BY <1>3, <1>9, Zenon

(* Devices in reverse order contribute the same, if their outputs are exact.*)
LEMMA OrderIgnored ==
    ASSUME NEW V, ExactOutputs(V), NEW order, IsSequence(order),
           \A i \in DOMAIN order : Evaluated(kernel.networks, order[i]) \in Seq(V)
    PROVE  Stepped(Reverse(order)) = Stepped(order)
<1>. DEFINE n == Len(order)
            blocks == [i \in 1 .. n |-> Evaluated(kernel.networks, order[i])]
            reversed == Reverse(order)
            swapped == [i \in 1 .. n |-> blocks[n + 1 - i]]
<1>0. n \in Nat /\ DOMAIN order = 1 .. n
  BY SequenceFacts
<1>1. PICK forth : forth[0] = <<>> /\ \A i \in 1 .. n : forth[i] = forth[i - 1] \o blocks[i]
  <2>. HIDE DEF blocks, n
  <2>1. PICK f : JoinFold!Taken(f, <<>>, blocks, n)
    BY <1>0, JoinFold!RunTaken, FoldsInduct
  <2>. QED  BY <2>1, Zenon DEF JoinFold!Taken
<1>2. PICK back : back[0] = <<>> /\ \A i \in 1 .. n : back[i] = back[i - 1] \o swapped[i]
  <2>. HIDE DEF swapped, n
  <2>1. PICK f : JoinFold!Taken(f, <<>>, swapped, n)
    BY <1>0, JoinFold!RunTaken, FoldsInduct
  <2>. QED  BY <2>1, Zenon DEF JoinFold!Taken
<1>3. \A i \in 1 .. n : blocks[i] \in Seq(V) /\ blocks[i] = Evaluated(kernel.networks, order[i])
  BY <1>0
<1>4. /\ Len(reversed) = n /\ DOMAIN reversed = 1 .. n
      /\ \A i \in 1 .. n : reversed[i] = order[n + 1 - i] /\ n + 1 - i \in 1 .. n
  <2>1. order \in Seq(Range(order))
    BY DEF IsSequence
  <2>2. Reverse(order) = [i \in 1 .. Len(order) |-> order[(Len(order) - i) + 1]]
    BY DEF Reverse
  <2>3. \A i \in 1 .. n : (n - i) + 1 = n + 1 - i /\ n + 1 - i \in 1 .. n
    BY <1>0
  <2>4. reversed = [i \in 1 .. n |-> reversed[i]]
    BY <2>2
  <2>5. \A i \in 1 .. n : reversed[i] = order[(n - i) + 1]
    BY <2>2
  <2>. HIDE DEF reversed, n
  <2>6. Len(reversed) = n /\ DOMAIN reversed = 1 .. n
    BY <1>0, <2>4, SequenceMade
  <2>. QED  BY <2>3, <2>5, <2>6, Zenon
<1>5. \A i \in 1 .. n : swapped[i] = blocks[n + 1 - i]
  OBVIOUS
<1>. HIDE DEF blocks, swapped, reversed, n
<1>6. \A i \in 1 .. n : /\ Evaluated(kernel.networks, reversed[i]) = blocks[n + 1 - i]
                        /\ blocks[n + 1 - i] \in Seq(V)
  <2>. SUFFICES ASSUME NEW i \in 1 .. n
                PROVE  /\ Evaluated(kernel.networks, reversed[i]) = blocks[n + 1 - i]
                       /\ blocks[n + 1 - i] \in Seq(V)
    OBVIOUS
  <2>. DEFINE j == n + 1 - i
  <2>1. reversed[i] = order[j] /\ j \in 1 .. n
    BY <1>4
  <2>. HIDE DEF j
  <2>2. Evaluated(kernel.networks, reversed[i]) = blocks[j] /\ blocks[j] \in Seq(V)
    BY <1>3, <2>1, Zenon
  <2>. QED  BY <2>2 DEF j
<1>7. AbsorbFold!Exchanges(NoNetworks, V)
  BY AllExchange
<1>8. /\ AbsorbFold!Result(NoNetworks, back[n]) = AbsorbFold!Result(NoNetworks, forth[n])
      /\ back[n] \in Seq(V) /\ forth[n] \in Seq(V)
  <2>1. AbsorbFold!Blocks(blocks, n, V)
    BY <1>3, Zenon DEF AbsorbFold!Blocks
  <2>2. AbsorbFold!Forth(forth, blocks, n)
    BY <1>1, Zenon DEF AbsorbFold!Forth
  <2>3. AbsorbFold!Back(back, blocks, n)
    BY <1>2, <1>5, Zenon DEF AbsorbFold!Back
  <2>. QED  BY <1>0, <1>7, <2>1, <2>2, <2>3, AbsorbFold!BlocksReverse, AbsorbInducts
<1>9. FoldLeft(AbsorbOutput, NoNetworks, back[n]) = FoldLeft(AbsorbOutput, NoNetworks, forth[n])
  <2>1. \A b, s : AbsorbFold!Result(b, s) = FoldLeft(AbsorbOutput, b, s)
    BY Zenon DEF FoldLeft, MapThenFoldSet, Max, AbsorbFold!Result,
                 AbsorbFold!MapThenFoldSet, AbsorbFold!Greatest
  <2>. QED  BY <1>8, <2>1, Zenon DEF AbsorbFold!Result
<1>10. FoldLeft(Contributed, NoNetworks, order) = FoldLeft(WithOutput, NoNetworks, forth[n])
  <2>1. EvaluatedIn(V, order, n) /\ PutOut(forth, order, n)
    BY <1>1, <1>3, Zenon DEF EvaluatedIn, PutOut
  <2>2. Len(order) = n
    BY DEF n
  <2>. QED  BY <1>0, <2>1, <2>2, ContributedOutputs
<1>11. FoldLeft(Contributed, NoNetworks, reversed) = FoldLeft(WithOutput, NoNetworks, back[n])
  <2>1. EvaluatedIn(V, reversed, n) /\ PutOut(back, reversed, n)
    BY <1>2, <1>5, <1>6, Zenon DEF EvaluatedIn, PutOut
  <2>. QED  BY <1>0, <1>4, <2>1, ContributedOutputs
<1>12. /\ Aggregated(FoldLeft(WithOutput, NoNetworks, forth[n]))
              = FoldLeft(AbsorbOutput, NoNetworks, forth[n])
       /\ Aggregated(FoldLeft(WithOutput, NoNetworks, back[n]))
              = FoldLeft(AbsorbOutput, NoNetworks, back[n])
  BY <1>8, AggregatedFold, Zenon
<1>. QED  BY <1>9, <1>10, <1>11, <1>12, Zenon DEF Stepped, reversed
-----------------------------------------------------------------------------
(* What a device computes is an integer.                                    *)

LEMMA PowersOfTwo == \A i \in 0 .. Width - 1 : 2^i \in Int /\ 2^i > 0
<1>1. ASSUME NEW i \in 0 .. 31
      PROVE  2^i \in Int /\ 2^i > 0
  <2>0. CASE i = 0  BY <2>0
  <2>1. CASE i = 1  BY <2>1
  <2>2. CASE i = 2  BY <2>2
  <2>3. CASE i = 3  BY <2>3
  <2>4. CASE i = 4  BY <2>4
  <2>5. CASE i = 5  BY <2>5
  <2>6. CASE i = 6  BY <2>6
  <2>7. CASE i = 7  BY <2>7
  <2>8. CASE i = 8  BY <2>8
  <2>9. CASE i = 9  BY <2>9
  <2>10. CASE i = 10  BY <2>10
  <2>11. CASE i = 11  BY <2>11
  <2>12. CASE i = 12  BY <2>12
  <2>13. CASE i = 13  BY <2>13
  <2>14. CASE i = 14  BY <2>14
  <2>15. CASE i = 15  BY <2>15
  <2>16. CASE i = 16  BY <2>16
  <2>17. CASE i = 17  BY <2>17
  <2>18. CASE i = 18  BY <2>18
  <2>19. CASE i = 19  BY <2>19
  <2>20. CASE i = 20  BY <2>20
  <2>21. CASE i = 21  BY <2>21
  <2>22. CASE i = 22  BY <2>22
  <2>23. CASE i = 23  BY <2>23
  <2>24. CASE i = 24  BY <2>24
  <2>25. CASE i = 25  BY <2>25
  <2>26. CASE i = 26  BY <2>26
  <2>27. CASE i = 27  BY <2>27
  <2>28. CASE i = 28  BY <2>28
  <2>29. CASE i = 29  BY <2>29
  <2>30. CASE i = 30  BY <2>30
  <2>31. CASE i = 31  BY <2>31
  <2>32. i \in {0, 1, 2, 3, 4, 5, 6, 7, 8, 9, 10, 11, 12, 13, 14, 15,
                16, 17, 18, 19, 20, 21, 22, 23, 24, 25, 26, 27, 28, 29, 30, 31}
    OBVIOUS
  <2>. QED  BY <2>0, <2>1, <2>2, <2>3, <2>4, <2>5, <2>6, <2>7,
               <2>8, <2>9, <2>10, <2>11, <2>12, <2>13, <2>14, <2>15,
               <2>16, <2>17, <2>18, <2>19, <2>20, <2>21, <2>22, <2>23,
               <2>24, <2>25, <2>26, <2>27, <2>28, <2>29, <2>30, <2>31,
               <2>32
<1>2. \A i \in 0 .. Width - 1 : i \in 0 .. 31
  BY WidthAssumption
<1>. QED  BY <1>1, <1>2

(* A sum over a finite set, as the libraries run through it.                *)
IsSum(h, f, S) ==
    h = [s \in SUBSET S |->
            IF s = {} THEN 0
            ELSE LET x == CHOOSE x \in s : TRUE IN f[x] + h[s \ {x}]]

Part(s) == CHOOSE x \in s : TRUE

LEMMA SumEquation ==
    ASSUME NEW h, NEW f, NEW S
    PROVE  IsSum(h, f, S) <=>
               h = [s \in SUBSET S |-> IF s = {} THEN 0 ELSE f[Part(s)] + h[s \ {Part(s)}]]
BY Zenon DEF IsSum, Part

(* The sums over the subsets of a set that has one more element.            *)
LEMMA SumExists ==
    ASSUME NEW S, IsFiniteSet(S), NEW f, \A x \in S : f[x] \in Int
    PROVE  /\ \E h : IsSum(h, f, S)
           /\ \A h : IsSum(h, f, S) => h[S] \in Int
<1>. DEFINE Sized(m) == {s \in SUBSET S : Cardinality(s) <= m}
            Good(h, m) == \A s \in Sized(m) :
                /\ h[s] \in Int
                /\ h[s] = IF s = {} THEN 0 ELSE f[Part(s)] + h[s \ {Part(s)}]
            G == {m \in Nat : \E h : Good(h, m)}
<1>0. \A s \in SUBSET S : /\ IsFiniteSet(s) /\ Cardinality(s) \in Nat
                          /\ Cardinality(s) = 0 <=> s = {}
  BY FS_Subset, FS_CardinalityType, FS_EmptySet
<1>1. \A s \in SUBSET S : s # {} => /\ Part(s) \in s /\ f[Part(s)] \in Int
                                    /\ s \ {Part(s)} \in SUBSET S
                                    /\ Cardinality(s \ {Part(s)}) = Cardinality(s) - 1
  <2>. SUFFICES ASSUME NEW s \in SUBSET S, s # {}
                PROVE  /\ Part(s) \in s /\ f[Part(s)] \in Int
                       /\ s \ {Part(s)} \in SUBSET S
                       /\ Cardinality(s \ {Part(s)}) = Cardinality(s) - 1
    OBVIOUS
  <2>1. Part(s) \in s
    BY DEF Part
  <2>2. Cardinality(s \ {Part(s)}) = Cardinality(s) - 1
    BY <1>0, <2>1, FS_RemoveElement
  <2>. QED  BY <2>1, <2>2
<1>2. 0 \in G
  <2>. DEFINE h == [s \in {{}} |-> 0]
  <2>1. \A s \in Sized(0) : s = {}
    BY <1>0
  <2>2. h[{}] = 0
    OBVIOUS
  <2>. HIDE DEF h
  <2>3. \A s \in Sized(0) : h[s] = 0 /\ s = {}
    BY <2>1, <2>2, Zenon
  <2>4. Good(h, 0)
    BY <2>3
  <2>. HIDE DEF Good
  <2>. QED  BY <2>4
<1>3. ASSUME NEW m \in G
      PROVE  m + 1 \in G
  <2>1. m \in Nat /\ \E h : Good(h, m)
    OBVIOUS
  <2>2. PICK h : Good(h, m)
    BY <2>1
  <2>. DEFINE k == [s \in SUBSET S |->
                       IF s = {} THEN 0 ELSE f[Part(s)] + h[s \ {Part(s)}]]
  <2>3. \A s \in Sized(m) : k[s] = h[s]
    BY <2>2
  <2>4. \A s \in SUBSET S : k[s] = IF s = {} THEN 0 ELSE f[Part(s)] + h[s \ {Part(s)}]
    OBVIOUS
  <2>. HIDE DEF k
  <2>5. ASSUME NEW s \in Sized(m + 1)
        PROVE  /\ k[s] \in Int
               /\ k[s] = IF s = {} THEN 0 ELSE f[Part(s)] + k[s \ {Part(s)}]
    <3>1. CASE s = {}
      <4>1. k[{}] = 0
        BY <2>4, Zenon
      <4>. QED  BY <3>1, <4>1
    <3>2. CASE s # {}
      <4>. DEFINE t == s \ {Part(s)}
      <4>1. Cardinality(t) = Cardinality(s) - 1 /\ t \in SUBSET S /\ f[Part(s)] \in Int
        BY <1>1, <3>2
      <4>2. Cardinality(s) \in Nat /\ Cardinality(s) <= m + 1
        BY <1>0
      <4>. HIDE DEF t
      <4>3. t \in Sized(m)
        BY <2>1, <4>1, <4>2
      <4>4. h[t] \in Int /\ k[t] = h[t]
        BY <2>2, <2>3, <4>3
      <4>5. k[s] = f[Part(s)] + h[t]
        BY <2>4, <3>2 DEF t
      <4>. QED  BY <3>2, <4>1, <4>4, <4>5 DEF t
    <3>. QED  BY <3>1, <3>2
  <2>6. Good(k, m + 1)
    BY <2>5
  <2>. HIDE DEF Good
  <2>. QED  BY <2>1, <2>6
<1>4. G = Nat
  <2>. G \in SUBSET Nat
    OBVIOUS
  <2>. HIDE DEF G
  <2>. QED  BY <1>2, <1>3, NaturalInduction
<1>5. \E h : Good(h, Cardinality(S))
  <2>1. Cardinality(S) \in Nat
    BY FS_CardinalityType
  <2>. HIDE DEF Good
  <2>. QED  BY <1>4, <2>1
<1>6. \A s \in SUBSET S : s \in Sized(Cardinality(S))
  <2>. SUFFICES ASSUME NEW s \in SUBSET S PROVE s \in Sized(Cardinality(S))
    OBVIOUS
  <2>1. Cardinality(s) <= Cardinality(S)
    BY FS_Subset
  <2>. QED  BY <2>1
<1>7. \E h : IsSum(h, f, S)
  <2>1. PICK h : Good(h, Cardinality(S))
    BY <1>5
  <2>. DEFINE k == [s \in SUBSET S |-> h[s]]
  <2>2. \A s \in SUBSET S : h[s] = IF s = {} THEN 0 ELSE f[Part(s)] + h[s \ {Part(s)}]
    BY <1>6, <2>1
  <2>3. \A s \in SUBSET S : k[s] = IF s = {} THEN 0 ELSE f[Part(s)] + k[s \ {Part(s)}]
    BY <2>2
  <2>4. k = [s \in SUBSET S |-> k[s]]
    OBVIOUS
  <2>. HIDE DEF k
  <2>5. k = [s \in SUBSET S |-> IF s = {} THEN 0 ELSE f[Part(s)] + k[s \ {Part(s)}]]
    BY <2>3, <2>4, Zenon
  <2>. QED  BY <2>5, SumEquation
<1>8. ASSUME NEW h, IsSum(h, f, S)
      PROVE  h[S] \in Int
  <2>. DEFINE H == {m \in Nat : \A s \in Sized(m) : h[s] \in Int}
  <2>1. h = [s \in SUBSET S |-> IF s = {} THEN 0 ELSE f[Part(s)] + h[s \ {Part(s)}]]
    BY <1>8, SumEquation
  <2>2. \A s \in SUBSET S : h[s] = IF s = {} THEN 0 ELSE f[Part(s)] + h[s \ {Part(s)}]
    BY <2>1, Zenon
  <2>0. h[{}] = 0
    <3>1. {} \in SUBSET S
      OBVIOUS
    <3>. QED  BY <2>2, <3>1, Zenon
  <2>3. 0 \in H
    <3>1. \A s \in Sized(0) : s = {}
      BY <1>0
    <3>2. \A s \in Sized(0) : h[s] = 0
      BY <2>0, <3>1, Zenon
    <3>. QED  BY <3>2
  <2>4. ASSUME NEW m \in H
        PROVE  m + 1 \in H
    <3>1. ASSUME NEW s \in Sized(m + 1), s # {}
          PROVE  h[s] \in Int
      <4>. DEFINE t == s \ {Part(s)}
      <4>1. Cardinality(t) = Cardinality(s) - 1 /\ t \in SUBSET S /\ f[Part(s)] \in Int
        BY <1>1, <3>1
      <4>2. Cardinality(s) \in Nat /\ Cardinality(s) <= m + 1
        BY <1>0
      <4>. HIDE DEF t
      <4>3. h[t] \in Int
        BY <4>1, <4>2
      <4>4. h[s] = f[Part(s)] + h[t]
        BY <2>2, <3>1 DEF t
      <4>. QED  BY <4>1, <4>3, <4>4
    <3>2. \A s \in Sized(m + 1) : h[s] \in Int
      <4>. SUFFICES ASSUME NEW s \in Sized(m + 1) PROVE h[s] \in Int
        OBVIOUS
      <4>1. CASE s = {}
        BY <2>0, <4>1
      <4>. QED  BY <3>1, <4>1
    <3>. QED  BY <3>2
  <2>5. H = Nat
    <3>. H \in SUBSET Nat
      OBVIOUS
    <3>. HIDE DEF H
    <3>. QED  BY <2>3, <2>4, NaturalInduction
  <2>6. S \in Sized(Cardinality(S)) /\ Cardinality(S) \in Nat
    BY <1>0, <1>6
  <2>. QED  BY <2>5, <2>6
<1>. QED  BY <1>7, <1>8

LEMMA SumFacts ==
    ASSUME NEW f, IsFiniteSet(DOMAIN f), \A x \in DOMAIN f : f[x] \in Int
    PROVE  SumFunction(f) \in Int
<1>. DEFINE h == CHOOSE h : IsSum(h, f, DOMAIN f)
<1>1. IsSum(h, f, DOMAIN f)
  BY SumExists, Zenon
<1>2. SumFunction(f) = h[DOMAIN f]
  BY Zenon DEF SumFunction, SumFunctionOnSet, FoldFunctionOnSet, MapThenFoldSet, IsSum
<1>. HIDE DEF h
<1>3. h[DOMAIN f] \in Int
  BY <1>1, SumExists
<1>. QED  BY <1>2, <1>3

(* The bits of an integer make an integer.                                  *)
LEMMA BitsFacts ==
    ASSUME NEW bits \in SUBSET (0 .. Width - 1)
    PROVE  FromBits(bits) \in Int
<1>. DEFINE f == [i \in bits |-> 2^i]
            P(h) == h = [s \in SUBSET bits |->
                            IF s = {} THEN 0
                            ELSE LET x == CHOOSE x \in s : TRUE IN 2^x + h[s \ {x}]]
            h == CHOOSE h : P(h)
<1>1. IsFiniteSet(bits)
  <2>1. IsFiniteSet(0 .. Width - 1)
    BY FS_Interval, WidthAssumption
  <2>. QED  BY <2>1, FS_Subset
<1>2. \A x \in bits : f[x] \in Int /\ f[x] = 2^x
  BY PowersOfTwo
<1>. HIDE DEF f
<1>3. \A g : P(g) <=> IsSum(g, f, bits)
  <2>. SUFFICES ASSUME NEW g PROVE P(g) <=> IsSum(g, f, bits)
    OBVIOUS
  <2>1. \A s \in SUBSET bits : s # {} => (CHOOSE x \in s : TRUE) \in bits
    OBVIOUS
  <2>2. \A s \in SUBSET bits :
            (IF s = {} THEN 0 ELSE LET x == CHOOSE x \in s : TRUE IN 2^x + g[s \ {x}])
          = (IF s = {} THEN 0 ELSE LET x == CHOOSE x \in s : TRUE IN f[x] + g[s \ {x}])
    <3>. SUFFICES ASSUME NEW s \in SUBSET bits, s # {}
                  PROVE  LET x == CHOOSE x \in s : TRUE
                         IN  2^x + g[s \ {x}] = f[x] + g[s \ {x}]
      BY Zenon
    <3>. DEFINE x == CHOOSE x \in s : TRUE
    <3>1. x \in bits
      BY <2>1
    <3>. HIDE DEF x
    <3>2. 2^x + g[s \ {x}] = f[x] + g[s \ {x}]
      BY <1>2, <3>1, Zenon
    <3>. QED  BY <3>2 DEF x
  <2>3. [s \in SUBSET bits |-> IF s = {} THEN 0
             ELSE LET x == CHOOSE x \in s : TRUE IN 2^x + g[s \ {x}]]
          = [s \in SUBSET bits |-> IF s = {} THEN 0
             ELSE LET x == CHOOSE x \in s : TRUE IN f[x] + g[s \ {x}]]
    BY <2>2, Zenon
  <2>. QED  BY <2>3, Zenon DEF IsSum
<1>4. \E g : P(g)
  <2>1. \E g : IsSum(g, f, bits)
    BY <1>1, <1>2, SumExists
  <2>. HIDE DEF P
  <2>. QED  BY <1>3, <2>1, Zenon
<1>5. P(h)
  <2>. HIDE DEF P
  <2>. QED  BY <1>4, Zenon
<1>6. MapThenSumSet(LAMBDA i : 2^i, bits) = h[bits]
  BY Zenon DEF MapThenSumSet, MapThenFoldSet
<1>. HIDE DEF P, h
<1>7. h[bits] \in Int
  BY <1>1, <1>2, <1>3, <1>5, SumExists
<1>8. FromBits(bits) = Int32(h[bits])
  BY <1>6, Zenon DEF FromBits
<1>. QED  BY <1>7, <1>8, WrapFacts
-----------------------------------------------------------------------------
(* The recursion of powerInt32 has a solution, and it gives integers.       *)
Round(loop) ==
    [factor |-> MultiplyInt32(loop.factor, loop.factor),
     remaining |-> loop.remaining \div 2,
     result |-> IF loop.remaining % 2 = 1
                THEN MultiplyInt32(loop.result, loop.factor)
                ELSE loop.result]

Turn(g, loop) == IF loop.remaining = 0 THEN loop.result ELSE g[Round(loop)]

Powers(g, m) == \A loop \in Loops : loop.remaining <= m => g[loop] = Turn(g, loop)

LEMMA RoundFacts ==
    \A loop \in Loops :
        /\ loop.remaining \in Nat /\ loop.result \in Int /\ Round(loop) \in Loops
        /\ loop.remaining # 0 => Round(loop).remaining < loop.remaining
<1>. SUFFICES ASSUME NEW loop \in Loops
              PROVE  /\ loop.remaining \in Nat /\ loop.result \in Int /\ Round(loop) \in Loops
                     /\ loop.remaining # 0 => Round(loop).remaining < loop.remaining
  OBVIOUS
<1>1. loop.factor \in Int /\ loop.remaining \in Nat /\ loop.result \in Int
  BY DEF Loops
<1>2. \A x, y \in Int : x * y \in Int
  OBVIOUS
<1>3. \A x, y \in Int : MultiplyInt32(x, y) \in Int
  BY <1>2, WrapFacts, Zenon DEF MultiplyInt32
<1>. DEFINE f == MultiplyInt32(loop.factor, loop.factor)
            r == IF loop.remaining % 2 = 1 THEN MultiplyInt32(loop.result, loop.factor)
                 ELSE loop.result
<1>4. f \in Int /\ r \in Int
  BY <1>1, <1>3, Zenon
<1>5. Round(loop) = [factor |-> f, remaining |-> loop.remaining \div 2, result |-> r]
  BY DEF Round
<1>. HIDE DEF f, r
<1>. QED  BY <1>1, <1>4, <1>5 DEF Loops

(* Two solutions agree where both hold.                                     *)
LEMMA PowersAgree ==
    ASSUME NEW g, NEW h, NEW m \in Nat, NEW n \in Nat, Powers(g, m), Powers(h, n)
    PROVE  \A loop \in Loops : loop.remaining <= m /\ loop.remaining <= n => g[loop] = h[loop]
<1>. DEFINE D == {r \in Nat : /\ r <= m /\ r <= n
                              /\ \E loop \in Loops : loop.remaining = r /\ g[loop] # h[loop]}
<1>1. SUFFICES ASSUME D # {} PROVE FALSE
  <2>1. \A loop \in Loops : loop.remaining \in Nat
    BY RoundFacts
  <2>. QED  BY <2>1
<1>2. PICK r \in D : \A k \in D : r <= k
  <2>1. D \in SUBSET Nat
    OBVIOUS
  <2>. HIDE DEF D
  <2>. QED  BY <1>1, <2>1, LeastExists
<1>3. PICK loop \in Loops : loop.remaining = r /\ g[loop] # h[loop]
  OBVIOUS
<1>4. r \in Nat /\ r <= m /\ r <= n
  OBVIOUS
<1>5. g[loop] = Turn(g, loop) /\ h[loop] = Turn(h, loop)
  BY <1>3, <1>4, Zenon DEF Powers
<1>6. r # 0 /\ g[Round(loop)] # h[Round(loop)]
  BY <1>3, <1>5, Zenon DEF Turn
<1>. DEFINE k == Round(loop).remaining
<1>7. k \in Nat /\ k < r /\ Round(loop) \in Loops
  BY <1>3, <1>6, RoundFacts
<1>8. k \in D
  <2>1. \E other \in Loops : other.remaining = k /\ g[other] # h[other]
    BY <1>6, <1>7
  <2>. HIDE DEF k
  <2>. QED  BY <1>4, <1>7, <2>1
<1>. HIDE DEF k, D
<1>. QED  BY <1>2, <1>4, <1>7, <1>8

(* For every bound on the exponent there is a solution, hence for all.      *)
LEMMA PowersBounded ==
    ASSUME NEW m \in Nat
    PROVE  \E g : Powers(g, m)
<1>. DEFINE G == {n \in Nat : \E g : Powers(g, n)}
<1>1. 0 \in G
  <2>. DEFINE g == [loop \in Loops |-> loop.result]
  <2>1. \A loop \in Loops : g[loop] = loop.result
    OBVIOUS
  <2>2. \A loop \in Loops : loop.remaining <= 0 => loop.remaining = 0
    BY RoundFacts
  <2>. HIDE DEF g
  <2>3. Powers(g, 0)
    BY <2>1, <2>2, Zenon DEF Powers, Turn
  <2>. QED  BY <2>3
<1>2. ASSUME NEW n \in G
      PROVE  n + 1 \in G
  <2>1. PICK g : Powers(g, n)
    OBVIOUS
  <2>. DEFINE h == [loop \in Loops |-> Turn(g, loop)]
  <2>2. \A loop \in Loops : h[loop] = Turn(g, loop)
    OBVIOUS
  <2>. HIDE DEF h
  <2>3. \A loop \in Loops : loop.remaining <= n => h[loop] = g[loop]
    BY <2>1, <2>2, Zenon DEF Powers
  <2>4. ASSUME NEW loop \in Loops, loop.remaining <= n + 1
        PROVE  h[loop] = Turn(h, loop)
    <3>1. CASE loop.remaining = 0
      BY <2>2, <3>1, Zenon DEF Turn
    <3>2. CASE loop.remaining # 0
      <4>1. Round(loop) \in Loops /\ Round(loop).remaining <= n
        <5>1. /\ loop.remaining \in Nat /\ Round(loop) \in Loops /\ Round(loop).remaining \in Nat
              /\ Round(loop).remaining < loop.remaining
          BY <3>2, RoundFacts
        <5>. QED  BY <2>4, <5>1
      <4>. QED  BY <2>2, <2>3, <3>2, <4>1, Zenon DEF Turn
    <3>. QED  BY <3>1, <3>2
  <2>5. Powers(h, n + 1)
    BY <2>4, Zenon DEF Powers
  <2>. QED  BY <2>5
<1>3. G = Nat
  <2>. G \in SUBSET Nat
    OBVIOUS
  <2>. HIDE DEF G
  <2>. QED  BY <1>1, <1>2, NaturalInduction
<1>. QED  BY <1>3

AllPowers(g) == g = [loop \in Loops |-> Turn(g, loop)]

LEMMA PowersExist == \E g : AllPowers(g)
<1>. DEFINE Upto(m) == CHOOSE g : Powers(g, m)
            g == [loop \in Loops |-> Upto(loop.remaining)[loop]]
<1>1. \A m \in Nat : Powers(Upto(m), m)
  <2>1. \A m \in Nat : \E f : Powers(f, m)
    BY PowersBounded
  <2>. QED  BY <2>1, Zenon
<1>. HIDE DEF Upto
<1>2. g = [loop \in Loops |-> g[loop]]
  OBVIOUS
<1>3. \A loop \in Loops : g[loop] = Upto(loop.remaining)[loop]
  OBVIOUS
<1>. HIDE DEF g
<1>4. ASSUME NEW loop \in Loops
      PROVE  g[loop] = Turn(g, loop)
  <2>. DEFINE r == loop.remaining
              next == Round(loop)
              k == next.remaining
  <2>1. r \in Nat /\ next \in Loops /\ k \in Nat /\ (r # 0 => k < r)
    BY RoundFacts
  <2>2. g[loop] = Turn(Upto(r), loop)
    <3>1. r <= r /\ Powers(Upto(r), r)
      BY <1>1, <2>1
    <3>2. Upto(r)[loop] = Turn(Upto(r), loop)
      BY <3>1, Zenon DEF Powers
    <3>. QED  BY <1>3, <3>2, Zenon
  <2>3. r # 0 => Upto(r)[next] = g[next]
    <3>. SUFFICES ASSUME r # 0 PROVE Upto(r)[next] = g[next]
      OBVIOUS
    <3>1. k <= r /\ k <= k
      BY <2>1
    <3>2. Powers(Upto(r), r) /\ Powers(Upto(k), k)
      BY <1>1, <2>1
    <3>3. \A other \in Loops : other.remaining <= r /\ other.remaining <= k =>
              Upto(r)[other] = Upto(k)[other]
      BY <2>1, <3>2, PowersAgree
    <3>4. g[next] = Upto(k)[next]
      BY <1>3, <2>1, Zenon
    <3>. QED  BY <2>1, <3>1, <3>3, <3>4, Zenon
  <2>. QED  BY <2>2, <2>3, Zenon DEF Turn
<1>5. AllPowers(g)
  BY <1>2, <1>4, Zenon DEF AllPowers
<1>. QED  BY <1>5

LEMMA PowerFacts ==
    ASSUME NEW base \in Int, NEW exponent \in Int
    PROVE  PowerInt32(base, exponent) \in Int
<1>1. AllPowers(Power)
  <2>1. Power = CHOOSE g : AllPowers(g)
    BY Zenon DEF Power, AllPowers, Loops, Turn, Round
  <2>. QED  BY <2>1, PowersExist, Zenon
<1>2. \A loop \in Loops : Power[loop] = Turn(Power, loop)
  BY <1>1, Zenon DEF AllPowers
<1>. DEFINE D == {r \in Nat : \E loop \in Loops : loop.remaining = r /\ Power[loop] \notin Int}
<1>3. D = {}
  <2>1. SUFFICES ASSUME D # {} PROVE FALSE
    BY Zenon
  <2>2. PICK r \in D : \A k \in D : r <= k
    <3>1. D \in SUBSET Nat
      OBVIOUS
    <3>. HIDE DEF D
    <3>. QED  BY <2>1, <3>1, LeastExists
  <2>3. PICK loop \in Loops : loop.remaining = r /\ Power[loop] \notin Int
    OBVIOUS
  <2>4. r # 0 /\ Power[Round(loop)] \notin Int
    <3>1. loop.result \in Int
      BY RoundFacts
    <3>. QED  BY <1>2, <2>3, <3>1, Zenon DEF Turn
  <2>. DEFINE k == Round(loop).remaining
  <2>5. r \in Nat /\ k \in Nat /\ k < r /\ Round(loop) \in Loops
    BY <2>3, <2>4, RoundFacts
  <2>6. k \in D
    <3>1. \E other \in Loops : other.remaining = k /\ Power[other] \notin Int
      BY <2>4, <2>5
    <3>. HIDE DEF k
    <3>. QED  BY <2>5, <3>1
  <2>. HIDE DEF k, D
  <2>. QED  BY <2>2, <2>5, <2>6
<1>4. \A loop \in Loops : Power[loop] \in Int
  BY <1>3, RoundFacts
<1>5. exponent >= 0 => PowerInt32(base, exponent) \in Int
  <2>. DEFINE loop == [factor |-> base, remaining |-> exponent, result |-> 1]
  <2>1. exponent >= 0 => loop \in Loops
    BY DEF Loops
  <2>2. exponent >= 0 => PowerInt32(base, exponent) = Power[loop]
    BY DEF PowerInt32
  <2>. HIDE DEF loop
  <2>. QED  BY <1>4, <2>1, <2>2
<1>6. ~(exponent >= 0) => PowerInt32(base, exponent) \in Int
  BY DEF PowerInt32
<1>. QED  BY <1>5, <1>6

(* The operations of the arithmetic combinator, one by one.                 *)
LEMMA DivisionFacts ==
    ASSUME NEW left \in Int, NEW right \in Int
    PROVE  DivideInt32(left, right) \in Int /\ ModuloInt32(left, right) \in Int
<1>1. CASE right = 0
  BY <1>1 DEF DivideInt32, ModuloInt32
<1>2. CASE right # 0
  <2>. DEFINE a == Magnitude(left)
              b == Magnitude(right)
              q == Truncated(left, right)
  <2>1. a \in Int /\ b \in Int /\ b > 0
    BY <1>2 DEF Magnitude
  <2>2. q = IF (left < 0) = (right < 0) THEN a \div b ELSE -(a \div b)
    BY Zenon DEF Truncated
  <2>. HIDE DEF a, b, q
  <2>3. a \div b \in Int
    BY <2>1
  <2>4. q \in Int
    BY <2>2, <2>3
  <2>5. right * q \in Int
    BY <2>4
  <2>6. /\ DivideInt32(left, right) = Int32(q)
        /\ ModuloInt32(left, right) = left - right * q
    BY <1>2 DEF DivideInt32, ModuloInt32, q
  <2>. HIDE DEF q
  <2>. QED  BY <2>4, <2>5, <2>6, WrapFacts
<1>. QED  BY <1>1, <1>2

LEMMA ShiftFacts ==
    ASSUME NEW left \in Int, NEW right \in Int
    PROVE  Int32(left * 2^(right % Width)) \in Int /\ left \div 2^(right % Width) \in Int
<1>. DEFINE k == right % Width
            power == 2^k
<1>1. k \in 0 .. Width - 1
  BY WidthAssumption
<1>. HIDE DEF k
<1>2. power \in Int /\ power > 0
  BY <1>1, PowersOfTwo
<1>. HIDE DEF power
<1>3. left * power \in Int /\ left \div power \in Int
  BY <1>2
<1>4. Int32(left * power) \in Int
  BY <1>3, WrapFacts
<1>. QED  BY <1>3, <1>4 DEF power, k

LEMMA OperationFacts ==
    ASSUME NEW operation \in Operations, NEW left \in Int, NEW right \in Int
    PROVE  ArithmeticOperation(operation, left, right) \in Int
<1>. DEFINE result == ArithmeticOperation(operation, left, right)
<1>1. CASE operation = "add"
  <2>1. result = AddInt32(left, right)
    BY <1>1 DEF ArithmeticOperation
  <2>. QED  BY <2>1, WrapFacts DEF AddInt32
<1>2. CASE operation = "subtract"
  <2>1. result = SubtractInt32(left, right)
    BY <1>2 DEF ArithmeticOperation
  <2>. QED  BY <2>1, WrapFacts DEF SubtractInt32
<1>3. CASE operation = "multiply"
  <2>1. result = MultiplyInt32(left, right)
    BY <1>3 DEF ArithmeticOperation
  <2>2. left * right \in Int
    OBVIOUS
  <2>. QED  BY <2>1, <2>2, WrapFacts DEF MultiplyInt32
<1>4. CASE operation = "divide"
  <2>1. result = DivideInt32(left, right)
    BY <1>4 DEF ArithmeticOperation
  <2>. QED  BY <2>1, DivisionFacts
<1>5. CASE operation = "modulo"
  <2>1. result = ModuloInt32(left, right)
    BY <1>5 DEF ArithmeticOperation
  <2>. QED  BY <2>1, DivisionFacts
<1>6. CASE operation = "power"
  <2>1. result = PowerInt32(left, right)
    BY <1>6 DEF ArithmeticOperation
  <2>. QED  BY <2>1, PowerFacts
<1>7. CASE operation = "left-shift"
  <2>1. result = Int32(left * 2^(right % Width))
    BY <1>7 DEF ArithmeticOperation
  <2>. QED  BY <2>1, ShiftFacts
<1>8. CASE operation = "right-shift"
  <2>1. result = left \div 2^(right % Width)
    BY <1>8 DEF ArithmeticOperation
  <2>. QED  BY <2>1, ShiftFacts
<1>9. CASE operation \in {"bit-and", "bit-or", "bit-xor"}
  <2>1. \E bits \in SUBSET (0 .. Width - 1) : result = FromBits(bits)
    <3>1. \A x : Bits(x) \in SUBSET (0 .. Width - 1)
      BY DEF Bits
    <3>2. \/ result = FromBits(Bits(left) \cap Bits(right))
          \/ result = FromBits(Bits(left) \cup Bits(right))
          \/ result = FromBits((Bits(left) \cup Bits(right)) \ (Bits(left) \cap Bits(right)))
      BY <1>9 DEF ArithmeticOperation
    <3>3. /\ Bits(left) \cap Bits(right) \in SUBSET (0 .. Width - 1)
          /\ Bits(left) \cup Bits(right) \in SUBSET (0 .. Width - 1)
          /\ (Bits(left) \cup Bits(right)) \ (Bits(left) \cap Bits(right))
                 \in SUBSET (0 .. Width - 1)
      BY <3>1
    <3>. HIDE DEF result
    <3>. QED  BY <3>2, <3>3, Zenon
  <2>2. PICK bits \in SUBSET (0 .. Width - 1) : result = FromBits(bits)
    BY <2>1
  <2>. HIDE DEF result
  <2>3. result \in Int
    BY <2>2, BitsFacts
  <2>. QED  BY <2>3 DEF result
<1>. QED  BY <1>1, <1>2, <1>3, <1>4, <1>5, <1>6, <1>7, <1>8, <1>9 DEF Operations
-----------------------------------------------------------------------------
(* What the wires carry is a bus of integers; what is put out is as well.   *)
IntegralInput(input) == Integral(input.red) /\ Integral(input.green)

LEMMA SelectedIntegral ==
    ASSUME NEW input, IntegralInput(input), NEW networks
    PROVE  /\ Integral(SelectInput(input, networks))
           /\ DOMAIN SelectInput(input, networks) \subseteq DOMAIN input.red \cup DOMAIN input.green
<1>. DEFINE a == IF "red" \in networks THEN input.red ELSE ZeroBus
            b == IF "green" \in networks THEN input.green ELSE ZeroBus
<1>1. Integral(a) /\ Integral(b)
  BY NothingIntegral DEF IntegralInput
<1>2. DOMAIN a \subseteq DOMAIN input.red /\ DOMAIN b \subseteq DOMAIN input.green
  BY SparseFacts
<1>3. SelectInput(input, networks) = Merge(a, b)
  BY DEF SelectInput
<1>. HIDE DEF a, b
<1>4. DOMAIN Merge(a, b) \subseteq DOMAIN a \cup DOMAIN b
  BY DEF Merge, Sparse
<1>5. Integral(Merge(a, b))
  BY <1>1, MergeFacts
<1>. QED  BY <1>2, <1>3, <1>4, <1>5

LEMMA SetIntegral ==
    ASSUME NEW signal, NEW value \in Int
    PROVE  Integral(BusSet(ZeroBus, signal, value))
<1>. DEFINE f == Override([s \in {signal} |-> Int32(value)], ZeroBus)
<1>1. DOMAIN f = {signal} /\ f[signal] = Int32(value)
  BY SparseFacts DEF Override
<1>2. BusSet(ZeroBus, signal, value) = Sparse(f)
  BY DEF BusSet
<1>. HIDE DEF f
<1>3. IsFiniteSet(DOMAIN f)
  BY <1>1, FS_Singleton
<1>4. \A s \in DOMAIN f : f[s] \in Int
  BY <1>1, WrapFacts
<1>. QED  BY <1>2, <1>3, <1>4, SparseIntegral

LEMMA SumIntegral ==
    ASSUME NEW buses, IsSequence(buses), \A i \in DOMAIN buses : Integral(buses[i])
    PROVE  Integral(AggregateBuses(buses))
<1>0. Len(buses) \in Nat /\ DOMAIN buses = 1 .. Len(buses)
  BY SequenceFacts
<1>1. PICK c : Adds(c, buses) /\ AggregateBuses(buses) = c[Len(buses)]
  BY AggregateAdds
<1>. DEFINE G == {m \in Nat : m <= Len(buses) => Integral(c[m])}
<1>2. 0 \in G
  BY <1>1, NothingIntegral DEF Adds
<1>3. ASSUME NEW m \in G
      PROVE  m + 1 \in G
  <2>1. CASE m + 1 <= Len(buses)
    <3>1. m + 1 \in 1 .. Len(buses) /\ (m + 1) - 1 = m /\ Integral(c[m])
      BY <1>0, <2>1
    <3>2. c[m + 1] = Merge(c[(m + 1) - 1], buses[m + 1])
      BY <1>1, <3>1, Zenon DEF Adds
    <3>3. Integral(c[m + 1])
      BY <1>0, <3>1, <3>2, MergeFacts
    <3>. QED  BY <3>3
  <2>. QED  BY <2>1
<1>4. G = Nat
  <2>. G \in SUBSET Nat
    OBVIOUS
  <2>. HIDE DEF G
  <2>. QED  BY <1>2, <1>3, NaturalInduction
<1>. QED  BY <1>0, <1>1, <1>4

(* A row of a decider.                                                      *)
LEMMA EmittedIntegral ==
    ASSUME NEW row, row.mode = "constant" => row.value \in Int,
           row.kind \in {"signal", "each", "anything", "everything"},
           NEW input, IntegralInput(input), NEW eachMode, NEW active, IsFiniteSet(active)
    PROVE  Integral(Emitted(row, input, eachMode, active))
<1>. DEFINE from == SelectInput(input, row.networks)
            value(s) == OutputValue(row, Carried(from, s))
            present == IF eachMode THEN active \cap DOMAIN from ELSE DOMAIN from
            sum == SumFunction([s \in active |-> value(s)])
<1>1. Integral(from)
  BY SelectedIntegral
<1>2. \A s : value(s) \in Int
  BY <1>1, CarriedFacts, WrapFacts DEF OutputValue
<1>3. IsFiniteSet(DOMAIN from)
  BY <1>1 DEF Integral
<1>4. Emitted(row, input, eachMode, active) =
          CASE row.kind = "signal" ->
                 BusSet(ZeroBus, row.signal, IF eachMode THEN sum ELSE value(row.signal))
            [] row.kind = "everything" -> Sparse([s \in DOMAIN from |-> value(s)])
            [] row.kind = "anything" ->
                 IF present = {} THEN ZeroBus ELSE BusSet(ZeroBus, Min(present), value(Min(present)))
            [] row.kind = "each" -> Sparse([s \in active |-> value(s)])
  BY Zenon DEF Emitted
<1>. HIDE DEF from, value, present
<1>5. sum \in Int
  <2>. DEFINE f == [s \in active |-> value(s)]
  <2>1. DOMAIN f = active /\ \A s \in active : f[s] = value(s)
    OBVIOUS
  <2>. HIDE DEF f
  <2>2. SumFunction(f) \in Int
    BY <1>2, <2>1, SumFacts
  <2>. QED  BY <2>2 DEF f
<1>. HIDE DEF sum
<1>6. \A S : IsFiniteSet(S) => Integral(Sparse([s \in S |-> value(s)]))
  <2>. SUFFICES ASSUME NEW S, IsFiniteSet(S)
                PROVE  Integral(Sparse([s \in S |-> value(s)]))
    OBVIOUS
  <2>. DEFINE f == [s \in S |-> value(s)]
  <2>1. DOMAIN f = S /\ \A s \in S : f[s] \in Int
    BY <1>2
  <2>. HIDE DEF f
  <2>2. Integral(Sparse(f))
    BY <2>1, SparseIntegral
  <2>. QED  BY <2>2 DEF f
<1>7. \A s, v : v \in Int => Integral(BusSet(ZeroBus, s, v))
  BY SetIntegral
<1>8. CASE row.kind = "signal"
  <2>1. (IF eachMode THEN sum ELSE value(row.signal)) \in Int
    BY <1>2, <1>5
  <2>2. Emitted(row, input, eachMode, active)
            = BusSet(ZeroBus, row.signal, IF eachMode THEN sum ELSE value(row.signal))
    BY <1>4, <1>8
  <2>. QED  BY <1>7, <2>1, <2>2
<1>9. CASE row.kind = "everything"
  <2>1. Emitted(row, input, eachMode, active) = Sparse([s \in DOMAIN from |-> value(s)])
    BY <1>4, <1>9
  <2>. QED  BY <1>3, <1>6, <2>1, Zenon
<1>10. CASE row.kind = "anything"
  <2>1. Emitted(row, input, eachMode, active)
            = IF present = {} THEN ZeroBus ELSE BusSet(ZeroBus, Min(present), value(Min(present)))
    BY <1>4, <1>10
  <2>. QED  BY <1>2, <1>7, <2>1, NothingIntegral, Zenon
<1>11. CASE row.kind = "each"
  <2>1. Emitted(row, input, eachMode, active) = Sparse([s \in active |-> value(s)])
    BY <1>4, <1>11
  <2>. QED  BY <1>6, <2>1, Zenon
<1>. QED  BY <1>8, <1>9, <1>10, <1>11

IntegralRows(rows) ==
    /\ IsSequence(rows) /\ IsRows(rows)
    /\ \A i \in DOMAIN rows : rows[i].mode = "constant" => rows[i].value \in Int

LEMMA RowsIntegral ==
    ASSUME NEW rows, IntegralRows(rows), NEW input, IntegralInput(input),
           NEW eachMode, NEW active, IsFiniteSet(active)
    PROVE  Integral(EmitOutputs(rows, input, eachMode, active))
<1>. DEFINE buses == [i \in DOMAIN rows |-> Emitted(rows[i], input, eachMode, active)]
<1>1. \A i \in DOMAIN rows : Integral(buses[i])
  <2>. SUFFICES ASSUME NEW i \in DOMAIN rows PROVE Integral(buses[i])
    OBVIOUS
  <2>. DEFINE row == rows[i]
  <2>1. /\ row.mode = "constant" => row.value \in Int
        /\ row.kind \in {"signal", "each", "anything", "everything"}
    BY DEF IntegralRows, IsRows
  <2>. HIDE DEF row
  <2>2. Integral(Emitted(row, input, eachMode, active))
    BY <2>1, EmittedIntegral
  <2>. QED  BY <2>2 DEF row
<1>2. buses = [i \in DOMAIN rows |-> buses[i]]
  OBVIOUS
<1>3. EmitOutputs(rows, input, eachMode, active) = AggregateBuses(buses)
  BY Zenon DEF EmitOutputs
<1>. HIDE DEF buses
<1>4. IsSequence(buses) /\ DOMAIN buses = DOMAIN rows
  BY <1>2, MappedFacts DEF IntegralRows
<1>. QED  BY <1>1, <1>3, <1>4, SumIntegral

(* The combinators, one by one.                                             *)
LEMMA DeciderIntegral ==
    ASSUME NEW config, IntegralRows(config.outputs), IntegralRows(config.elseOutputs),
           NEW input, IntegralInput(input)
    PROVE  Integral(EvaluateDecider(config, input))
<1>. DEFINE condition == config.condition
            candidates == EachCandidates(condition, input)
            passed == {s \in candidates : EvaluateCondition(condition, input, s)}
            yes == EmitOutputs(config.outputs, input, TRUE, passed)
            no == EmitOutputs(config.elseOutputs, input, TRUE, candidates \ passed)
<1>1. IsFiniteSet(candidates)
  <2>1. \A networks :
            DOMAIN SelectInput(input, networks) \subseteq DOMAIN input.red \cup DOMAIN input.green
    BY SelectedIntegral
  <2>2. candidates \subseteq DOMAIN input.red \cup DOMAIN input.green
    BY <2>1, Zenon DEF EachCandidates
  <2>3. IsFiniteSet(DOMAIN input.red \cup DOMAIN input.green)
    BY FS_Union DEF IntegralInput, Integral
  <2>. HIDE DEF candidates
  <2>. QED  BY <2>2, <2>3, FS_Subset
<1>2. passed \subseteq candidates
  OBVIOUS
<1>3. EvaluateDecider(config, input) =
          IF UsesEach(condition) THEN Merge(yes, no)
          ELSE EmitOutputs(IF EvaluateCondition(condition, input, 0)
                           THEN config.outputs ELSE config.elseOutputs,
                           input, FALSE, {})
  BY Zenon DEF EvaluateDecider
<1>. HIDE DEF candidates, passed
<1>4. IsFiniteSet(passed) /\ IsFiniteSet(candidates \ passed)
  BY <1>1, <1>2, FS_Subset
<1>5. Integral(yes) /\ Integral(no)
  BY <1>4, RowsIntegral
<1>. HIDE DEF yes, no
<1>6. Integral(Merge(yes, no))
  BY <1>5, MergeFacts
<1>7. IntegralRows(IF EvaluateCondition(condition, input, 0)
                   THEN config.outputs ELSE config.elseOutputs)
  OBVIOUS
<1>8. Integral(EmitOutputs(IF EvaluateCondition(condition, input, 0)
                           THEN config.outputs ELSE config.elseOutputs,
                           input, FALSE, {}))
  BY <1>7, FS_EmptySet, RowsIntegral
<1>. QED  BY <1>3, <1>6, <1>8

LEMMA ArithmeticIntegral ==
    ASSUME NEW config, config.operation \in Operations,
           OperandAssumption(config.left), OperandAssumption(config.right),
           NEW input, IntegralInput(input)
    PROVE  Integral(EvaluateArithmetic(config, input))
<1>. DEFINE result(each) == ArithmeticOperation(config.operation,
                                ArithmeticOperand(config.left, input, each),
                                ArithmeticOperand(config.right, input, each))
            eachOperands == {o \in {config.left, config.right} : o.kind = "each"}
            candidates == UNION {DOMAIN SelectInput(input, o.networks) : o \in eachOperands}
            f == [s \in candidates |-> result(s)]
<1>1. ASSUME NEW operand, OperandAssumption(operand), NEW each
      PROVE  ArithmeticOperand(operand, input, each) \in Int
  <2>1. \A networks, s : Carried(SelectInput(input, networks), s) \in Int
    BY SelectedIntegral, CarriedFacts
  <2>2. operand.kind = "constant" => Int32(operand.value) \in Int
    BY <1>1, WrapFacts DEF OperandAssumption
  <2>. QED  BY <2>1, <2>2, Zenon DEF ArithmeticOperand, Scalar
<1>2. \A each : result(each) \in Int
  BY <1>1, OperationFacts
<1>3. IsFiniteSet(candidates)
  <2>1. \A networks :
            DOMAIN SelectInput(input, networks) \subseteq DOMAIN input.red \cup DOMAIN input.green
    BY SelectedIntegral
  <2>2. candidates \subseteq DOMAIN input.red \cup DOMAIN input.green
    BY <2>1, Zenon
  <2>3. IsFiniteSet(DOMAIN input.red \cup DOMAIN input.green)
    BY FS_Union DEF IntegralInput, Integral
  <2>. HIDE DEF candidates
  <2>. QED  BY <2>2, <2>3, FS_Subset
<1>4. EvaluateArithmetic(config, input) =
          CASE eachOperands = {} -> BusSet(ZeroBus, config.output.signal, result(0))
            [] eachOperands # {} /\ config.output.kind = "each" -> Sparse(f)
            [] OTHER -> BusSet(ZeroBus, config.output.signal, SumFunction(f))
  BY Zenon DEF EvaluateArithmetic
<1>. HIDE DEF candidates, result
<1>5. DOMAIN f = candidates /\ \A s \in candidates : f[s] \in Int
  BY <1>2
<1>. HIDE DEF f, eachOperands
<1>6. Integral(Sparse(f))
  BY <1>3, <1>5, SparseIntegral
<1>7. SumFunction(f) \in Int
  BY <1>3, <1>5, SumFacts
<1>8. \A s, v : v \in Int => Integral(BusSet(ZeroBus, s, v))
  BY SetIntegral
<1>9. /\ Integral(BusSet(ZeroBus, config.output.signal, result(0)))
      /\ Integral(BusSet(ZeroBus, config.output.signal, SumFunction(f)))
  BY <1>2, <1>7, <1>8, Zenon
<1>. QED  BY <1>4, <1>6, <1>9

LEMMA SelectorIntegral ==
    ASSUME NEW config, NEW input, IntegralInput(input)
    PROVE  Integral(EvaluateSelector(config, input))
<1>. DEFINE bus == Merge(input.red, input.green)
            rows == SelectorRows(config, bus)
            index == IF config.index.kind = "constant" THEN Int32(config.index.value)
                     ELSE Carried(bus, config.index.signal)
<1>1. Integral(bus)
  BY MergeFacts DEF IntegralInput
<1>2. Cardinality(DOMAIN bus) \in Int
  BY <1>1, FS_CardinalityType DEF Integral
<1>3. \A s : Carried(bus, s) \in Int
  BY <1>1, CarriedFacts
<1>4. \A s, v : v \in Int => Integral(BusSet(ZeroBus, s, v))
  BY SetIntegral
<1>5. EvaluateSelector(config, input) =
          CASE config.operation = "count" ->
                 BusSet(ZeroBus, config.output, Cardinality(DOMAIN bus))
            [] config.operation = "select" /\ index \in 0 .. Len(rows) - 1 ->
                 BusSet(ZeroBus, rows[index + 1], Carried(bus, rows[index + 1]))
            [] OTHER -> ZeroBus
  BY Zenon DEF EvaluateSelector
<1>. HIDE DEF bus, rows, index
<1>6. /\ Integral(BusSet(ZeroBus, config.output, Cardinality(DOMAIN bus)))
      /\ Integral(BusSet(ZeroBus, rows[index + 1], Carried(bus, rows[index + 1])))
      /\ Integral(ZeroBus)
  BY <1>2, <1>3, <1>4, NothingIntegral, Zenon
<1>. QED  BY <1>5, <1>6

LEMMA BusIntegral ==
    ASSUME NEW bus \in Bus
    PROVE  Integral(bus)
<1>1. PICK S \in SUBSET Signals : bus \in [S -> CircuitInteger \ {0}]
  BY DEF Bus
<1>2. CircuitInteger \subseteq Int
  BY HalfFacts DEF CircuitInteger
<1>3. IsFiniteSet(S)
  BY SignalsAssumption, FS_Subset
<1>. QED  BY <1>1, <1>2, <1>3 DEF Integral

LEMMA ConcreteIntegral ==
    ASSUME NEW device, DeviceAssumption(device), ConfigAssumption(device),
           NEW input, IntegralInput(input)
    PROVE  Integral(ConcreteOutput(device, input))
<1>1. CASE device.kind = "decider"
  <2>1. IntegralRows(device.config.outputs) /\ IntegralRows(device.config.elseOutputs)
    BY <1>1 DEF DeviceAssumption, ConfigAssumption, IntegralRows, IsRows, IsSequence
  <2>2. ConcreteOutput(device, input) = EvaluateDecider(device.config, input)
    BY <1>1 DEF ConcreteOutput
  <2>. QED  BY <2>1, <2>2, DeciderIntegral
<1>2. CASE device.kind = "arithmetic"
  <2>1. /\ device.config.operation \in Operations
        /\ OperandAssumption(device.config.left) /\ OperandAssumption(device.config.right)
    BY <1>2 DEF ConfigAssumption
  <2>2. ConcreteOutput(device, input) = EvaluateArithmetic(device.config, input)
    BY <1>2 DEF ConcreteOutput
  <2>. QED  BY <2>1, <2>2, ArithmeticIntegral
<1>3. CASE device.kind = "selector"
  <2>1. ConcreteOutput(device, input) = EvaluateSelector(device.config, input)
    BY <1>3 DEF ConcreteOutput
  <2>. QED  BY <2>1, SelectorIntegral
<1>4. CASE device.kind = "constant"
  <2>1. ConcreteOutput(device, input) = device.config.bus /\ device.config.bus \in Bus
    BY <1>4 DEF ConcreteOutput, ConfigAssumption
  <2>. QED  BY <2>1, BusIntegral
<1>. QED  BY <1>1, <1>2, <1>3, <1>4 DEF DeviceAssumption
-----------------------------------------------------------------------------
(* On bus values: what is known is a bus of integers, what is not names its *)
(* sources.                                                                 *)
ExactInput(input) == Exact(input.red) /\ Exact(input.green)

LEMMA SelectedExact ==
    ASSUME NEW input, ExactInput(input), NEW networks
    PROVE  ExactValues(SelectedValues(input, networks))
<1>. DEFINE a == IF "red" \in networks THEN <<input.red>> ELSE <<>>
            b == IF "green" \in networks THEN <<input.green>> ELSE <<>>
<1>1. SelectedValues(input, networks) = a \o b
  BY DEF SelectedValues
<1>2. ASSUME NEW v, Exact(v)
      PROVE  ExactValues(<<v>>)
  <2>1. <<v>> \in Seq({v}) /\ \A i \in DOMAIN <<v>> : <<v>>[i] = v
    OBVIOUS
  <2>2. IsSequence(<<v>>)
    BY <2>1, ListIsSequence
  <2>. QED  BY <1>2, <2>1, <2>2, Zenon DEF ExactValues
<1>3. ExactValues(<<>>)
  <2>1. <<>> \in Seq({}) /\ DOMAIN <<>> = {}
    OBVIOUS
  <2>2. IsSequence(<<>>)
    BY <2>1, ListIsSequence, Zenon
  <2>. QED  BY <2>1, <2>2, Zenon DEF ExactValues
<1>4. ExactValues(a) /\ ExactValues(b)
  BY <1>2, <1>3, Zenon DEF ExactInput
<1>. HIDE DEF a, b
<1>5. IsSequence(a \o b) /\ \A i \in DOMAIN (a \o b) :
          (\E j \in DOMAIN a : (a \o b)[i] = a[j]) \/ (\E j \in DOMAIN b : (a \o b)[i] = b[j])
  BY <1>4, ConcatFacts, ConcatMembers DEF ExactValues
<1>. DEFINE s == a \o b
<1>6. \A i \in DOMAIN s : Exact(s[i])
  <2>. HIDE DEF s
  <2>1. \A i \in DOMAIN s : (\E j \in DOMAIN a : s[i] = a[j]) \/ (\E j \in DOMAIN b : s[i] = b[j])
    BY <1>5 DEF s
  <2>. QED  BY <1>4, <2>1, Zenon DEF ExactValues
<1>. QED  BY <1>1, <1>5, <1>6, Zenon DEF ExactValues

LEMMA DependencyExact ==
    ASSUME NEW input, ExactInput(input), NEW networks
    PROVE  Exact(Dependency(input, networks))
BY SelectedExact, AggregateExact, Zenon DEF Dependency

LEMMA ConditionSourced ==
    ASSUME NEW input, ExactInput(input)
    PROVE  \A c \in Conditions : Sourced(ValueCondition(c, input))
<1>. DEFINE S == {c \in Conditions : ~Sourced(ValueCondition(c, input))}
<1>1. SUFFICES ASSUME S # {} PROVE FALSE
  BY Zenon
<1>2. PICK c \in S : Children(c) \cap S = {}
  <2>1. S \in SUBSET Conditions
    OBVIOUS
  <2>. HIDE DEF S
  <2>. QED  BY <1>1, <2>1, ChildrenFacts
<1>3. c \in Conditions /\ ~Sourced(ValueCondition(c, input))
  BY Zenon
<1>4. \A d \in Children(c) : Sourced(ValueCondition(d, input))
  BY <1>2, <1>3, ChildrenFacts, Zenon
<1>5. \A b : Sourced(KnownCondition(b))
  BY DEF Sourced, KnownCondition, IsKnown
<1>6. CASE ~IsGroup(c)
  <2>1. ValueCondition(c, input) = ComparisonResult(c, input)
    BY <1>3, <1>6, ValueFactsOfConditions, Zenon
  <2>2. \/ ComparisonResult(c, input) = Dependency(input, ConditionNetworks(c))
        \/ \E b : ComparisonResult(c, input) = KnownCondition(b)
    BY Zenon DEF ComparisonResult
  <2>3. Sourced(Dependency(input, ConditionNetworks(c)))
    BY DependencyExact, Zenon DEF Exact
  <2>. QED  BY <1>3, <1>5, <2>1, <2>2, <2>3, Zenon
<1>7. CASE IsGroup(c)
  <2>. DEFINE results == [i \in DOMAIN c.conditions |-> ValueCondition(c.conditions[i], input)]
  <2>1. ValueCondition(c, input) = GroupResult(c.kind, results)
    BY <1>3, <1>7, ValueFactsOfConditions, Zenon
  <2>2. IsSequence(c.conditions)
    <3>1. c.conditions \in Seq(Conditions)
      BY <1>3, <1>7, ConditionsAssumption
    <3>. QED  BY <3>1, ListIsSequence
  <2>3. \A i \in DOMAIN c.conditions : Sourced(results[i])
    <3>1. \A i \in DOMAIN c.conditions : c.conditions[i] \in Children(c)
      BY <1>7 DEF Children, Range
    <3>. QED  BY <1>4, <3>1
  <2>4. results = [i \in DOMAIN c.conditions |-> results[i]]
    OBVIOUS
  <2>. HIDE DEF results
  <2>5. IsSequence(results) /\ DOMAIN results = DOMAIN c.conditions
    BY <2>2, <2>4, MappedFacts
  <2>6. \A v \in Range(results) : Sourced(v)
    BY <2>3, <2>5 DEF Range
  <2>7. Documented(AllOrigins(results))
    <3>1. results \in Seq(Range(results))
      BY <2>5 DEF IsSequence
    <3>. DEFINE V == Range(results)
    <3>. HIDE DEF V
    <3>2. (\A v \in V : Sourced(v)) /\ results \in Seq(V)
      BY <2>6, <3>1, Zenon DEF V
    <3>. QED  BY <3>2, AllOriginsFacts
  <2>8. \/ \E b : GroupResult(c.kind, results) = KnownCondition(b)
        \/ /\ ~AllKnown(results)
           /\ GroupResult(c.kind, results) = AggregateValues(results)
    BY Zenon DEF GroupResult, AllKnown
  <2>9. ~AllKnown(results) => AggregateValues(results) = Unknown(AllOrigins(results))
    BY AggregateCases, Zenon
  <2>10. Sourced(Unknown(AllOrigins(results)))
    BY <2>7, BusValues DEF Sourced
  <2>. QED  BY <1>3, <1>5, <2>1, <2>8, <2>9, <2>10, Zenon
<1>. QED  BY <1>6, <1>7

(* A path that gets longer stays a path.                                    *)
LEMMA ThroughExact ==
    ASSUME NEW value, Exact(value), NEW device \in Nat
    PROVE  Exact(ThroughDevice(value, device))
<1>1. CASE IsKnown(value)
  BY <1>1 DEF ThroughDevice
<1>2. CASE ~IsKnown(value)
  <2>. DEFINE origins == value.origins
              longer == [id \in DOMAIN origins |-> [origins[id] EXCEPT !.path = Append(@, device)]]
  <2>1. ThroughDevice(value, device) = Unknown(longer)
    BY <1>2 DEF ThroughDevice
  <2>2. \A id \in DOMAIN origins : origins[id] \in Origin
    BY <1>2 DEF Exact, Sourced, Documented
  <2>. HIDE DEF origins
  <2>3. ASSUME NEW o \in Origin
        PROVE  [o EXCEPT !.path = Append(@, device)] \in Origin
    <3>1. PICK p \in Seq(Nat), d \in Nat : o = [path |-> p, description |-> d]
      BY DEF Origin
    <3>. DEFINE q == Append(p, device)
    <3>2. q \in Seq(Nat)
      BY AppendProperties
    <3>3. [o EXCEPT !.path = Append(@, device)] = [o EXCEPT !.path = q]
      BY <3>1
    <3>. HIDE DEF q
    <3>4. [o EXCEPT !.path = q] = [path |-> q, description |-> d]
      BY <3>1
    <3>. QED  BY <3>2, <3>3, <3>4 DEF Origin
  <2>4. Documented(longer)
    BY <2>2, <2>3 DEF Documented
  <2>. HIDE DEF longer
  <2>. QED  BY <2>1, <2>4, BusValues DEF Exact, Sourced
<1>. QED  BY <1>1, <1>2

LEMMA DependencySourced ==
    ASSUME NEW device, DeviceAssumption(device), NEW input, ExactInput(input)
    PROVE  Sourced(ValueDependency(device, input))
<1>1. \A networks : Sourced(Dependency(input, networks))
  BY DependencyExact DEF Exact
<1>2. CASE device.kind = "decider"
  <2>1. Sourced(ValueCondition(device.config.condition, input))
    BY <1>2, ConditionSourced DEF DeviceAssumption
  <2>2. ValueDependency(device, input) = DeciderDependency(device.config, input)
    BY <1>2 DEF ValueDependency
  <2>3. \/ DeciderDependency(device.config, input) = ValueCondition(device.config.condition, input)
        \/ \E networks : DeciderDependency(device.config, input) = Dependency(input, networks)
    BY Zenon DEF DeciderDependency
  <2>. QED  BY <1>1, <2>1, <2>2, <2>3, Zenon
<1>3. CASE device.kind = "arithmetic"
  <2>1. ValueDependency(device, input) =
            Dependency(input, OperandNetworks(device.config.left)
                                  \cup OperandNetworks(device.config.right))
    BY <1>3 DEF ValueDependency
  <2>. QED  BY <1>1, <2>1, Zenon
<1>4. CASE device.kind = "selector"
  <2>1. ValueDependency(device, input) = Dependency(input, {"red", "green"})
    BY <1>4 DEF ValueDependency
  <2>. QED  BY <1>1, <2>1, Zenon
<1>5. CASE device.kind = "constant"
  <2>. DEFINE first == [path |-> <<>>, description |-> 0]
              origins == [id \in {device.id} |-> first]
  <2>1. /\ DOMAIN origins = {device.id} /\ origins = [id \in DOMAIN origins |-> origins[id]]
        /\ \A id \in DOMAIN origins : origins[id] = first
    <3>. HIDE DEF first
    <3>. QED  OBVIOUS
  <2>2. [path |-> <<>>, description |-> 0] \in Origin
    BY DEF Origin
  <2>. HIDE DEF origins
  <2>3. Documented(origins)
    BY <2>1, <2>2, Zenon DEF Documented
  <2>4. Sourced(Known(ZeroBus)) /\ Sourced(Unknown(origins))
    BY <2>3, BusValues DEF Sourced
  <2>5. ValueDependency(device, input) =
            IF device.config.supported THEN Known(ZeroBus) ELSE Unknown(origins)
    BY <1>5 DEF ValueDependency, origins
  <2>. QED  BY <2>4, <2>5, Zenon
<1>. QED  BY <1>2, <1>3, <1>4, <1>5 DEF DeviceAssumption

LEMMA OutputExact ==
    ASSUME NEW device, DeviceAssumption(device), ConfigAssumption(device),
           NEW input, ExactInput(input)
    PROVE  Exact(ValueOutput(device, input))
<1>. DEFINE dependency == ValueDependency(device, input)
            bus == ConcreteOutput(device, ConcreteInput(input))
<1>1. Sourced(dependency)
  BY DependencySourced
<1>2. Integral(bus)
  <2>1. IntegralInput(ConcreteInput(input))
    BY NothingIntegral DEF ExactInput, Exact, ConcreteInput, KnownBus, IntegralInput
  <2>. QED  BY <2>1, ConcreteIntegral
<1>3. ValueOutput(device, input) =
          IF IsKnown(dependency) THEN Known(bus)
          ELSE IF device.kind = "constant" THEN dependency
                                           ELSE ThroughDevice(dependency, device.id)
  BY Zenon DEF ValueOutput
<1>4. device.id \in Nat
  BY DEF ConfigAssumption
<1>. HIDE DEF dependency, bus
<1>5. Exact(Known(bus))
  BY <1>2, BusValues DEF Exact, Sourced
<1>6. CASE IsKnown(dependency)
  BY <1>3, <1>5, <1>6
<1>7. CASE ~IsKnown(dependency)
  <2>1. Exact(dependency)
    BY <1>1, <1>7 DEF Exact
  <2>2. Exact(ThroughDevice(dependency, device.id))
    BY <1>4, <2>1, ThroughExact
  <2>. QED  BY <1>3, <1>7, <2>1, <2>2
<1>. QED  BY <1>6, <1>7
-----------------------------------------------------------------------------
(* The values a session keeps, from one operation to the next.              *)
ExactControls(controls) == \A i \in DOMAIN controls : Exact(controls[i].value)

IntegralNetworks(f) == \A n \in DOMAIN f : Integral(f[n])

ExactState ==
    /\ IntegralNetworks(session.drives) /\ IntegralNetworks(session.pulses)
    /\ ExactControls(objects.controls)
    /\ ExactNetworks(kernel.networks)
    /\ ExactContributions(boundary.contributions)

ExactAll(outputs) == IsSequence(outputs) /\ \A i \in DOMAIN outputs : Exact(outputs[i].value)

(* What is put out, and what is joined of it.                               *)
LEMMA BroadcastExact ==
    ASSUME NEW value, Exact(value), NEW networks, IsSequence(networks)
    PROVE  ExactAll(Broadcast(value, networks))
<1>. DEFINE t == Broadcast(value, networks)
<1>1. t = [i \in DOMAIN networks |-> t[i]] /\ \A i \in DOMAIN networks : t[i].value = value
  BY DEF Broadcast
<1>. HIDE DEF t
<1>2. IsSequence(t) /\ DOMAIN t = DOMAIN networks
  BY <1>1, MappedFacts
<1>3. ExactAll(t)
  BY <1>1, <1>2 DEF ExactAll
<1>. QED  BY <1>3 DEF t

LEMMA ConcatExact ==
    ASSUME NEW a, NEW b, ExactAll(a), ExactAll(b)
    PROVE  ExactAll(a \o b)
<1>. DEFINE s == a \o b
<1>1. IsSequence(s) /\ \A i \in DOMAIN s :
          (\E j \in DOMAIN a : s[i] = a[j]) \/ (\E j \in DOMAIN b : s[i] = b[j])
  BY ConcatFacts, ConcatMembers DEF ExactAll
<1>. HIDE DEF s
<1>2. ExactAll(s)
  BY <1>1, Zenon DEF ExactAll
<1>. QED  BY <1>2 DEF s

LEMMA NoOutputs == ExactAll(<<>>)
<1>1. <<>> \in Seq({}) /\ DOMAIN <<>> = {}
  OBVIOUS
<1>2. IsSequence(<<>>)
  BY <1>1, ListIsSequence, Zenon
<1>. QED  BY <1>1, <1>2, Zenon DEF ExactAll

LEMMA JoinedExact ==
    ASSUME NEW sequences, IsSequence(sequences), \A i \in DOMAIN sequences : ExactAll(sequences[i])
    PROVE  ExactAll(AllOf(sequences))
<1>0. Len(sequences) \in Nat /\ DOMAIN sequences = 1 .. Len(sequences)
  BY SequenceFacts
<1>1. PICK c : Joins(c, sequences) /\ AllOf(sequences) = c[Len(sequences)]
  BY AllOfJoins
<1>. DEFINE G == {m \in Nat : m <= Len(sequences) => ExactAll(c[m])}
<1>2. 0 \in G
  <2>1. ExactAll(c[0])
    BY <1>1, NoOutputs, Zenon DEF Joins
  <2>. QED  BY <2>1
<1>3. ASSUME NEW m \in G
      PROVE  m + 1 \in G
  <2>1. CASE m + 1 <= Len(sequences)
    <3>1. m + 1 \in 1 .. Len(sequences) /\ (m + 1) - 1 = m /\ ExactAll(c[m])
      BY <1>0, <2>1
    <3>2. c[m + 1] = c[(m + 1) - 1] \o sequences[m + 1]
      BY <1>1, <3>1, Zenon DEF Joins
    <3>3. ExactAll(sequences[m + 1])
      BY <1>0, <3>1
    <3>4. ExactAll(c[m] \o sequences[m + 1])
      BY <3>1, <3>3, ConcatExact
    <3>5. ExactAll(c[m + 1])
      BY <3>1, <3>2, <3>4, Zenon
    <3>. QED  BY <3>5
  <2>. QED  BY <2>1
<1>4. G = Nat
  <2>. G \in SUBSET Nat
    OBVIOUS
  <2>. HIDE DEF G
  <2>. QED  BY <1>2, <1>3, NaturalInduction
<1>. QED  BY <1>0, <1>1, <1>4

LEMMA StimulusExact ==
    ASSUME NEW values, IsFiniteSet(DOMAIN values), IntegralNetworks(values)
    PROVE  ExactAll(Stimulus(values))
<1>. DEFINE s == Stimulus(values)
<1>1. /\ IsSequence(s)
      /\ \A i \in DOMAIN s : \E n \in DOMAIN values : s[i] = [network |-> n, value |-> Known(values[n])]
  BY StimulusFacts
<1>2. \A n \in DOMAIN values : Exact(Known(values[n]))
  BY BusValues DEF IntegralNetworks, Exact, Sourced
<1>. HIDE DEF s
<1>3. \A i \in DOMAIN s : Exact(s[i].value)
  BY <1>1, <1>2
<1>4. ExactAll(s)
  BY <1>1, <1>3 DEF ExactAll
<1>. QED  BY <1>4 DEF s

(* Its connectors, and an id to lengthen a path with.                       *)
ObjectAssumption(device) ==
    /\ device.id \in Nat
    /\ \A i \in DOMAIN device.connectors :
          /\ device.connectors[i] \in Connectors
          /\ \/ device.connectors[i].fallback = [kind |-> "none"]
             \/ ValueAssumption(device.connectors[i].fallback)

LEMMA AssumedExact ==
    ASSUME NEW value, ValueAssumption(value)
    PROVE  Exact(value)
<1>1. CASE value.kind = "known" /\ value.bus \in Bus
  BY <1>1, BusIntegral DEF Exact, Sourced, IsKnown
<1>2. CASE value.kind = "unknown" /\ value.origins \in [DOMAIN value.origins -> Origin]
  <2>. DEFINE origins == value.origins
  <2>1. Documented(origins)
    BY <1>2 DEF Documented
  <2>2. ~IsKnown(value)
    BY <1>2 DEF IsKnown
  <2>. QED  BY <2>1, <2>2 DEF Exact, Sourced
<1>. QED  BY <1>1, <1>2 DEF ValueAssumption

(* What a connector puts out, by its fallback, its mock or its model.       *)
LEMMA ConnectorExact ==
    ASSUME Provisions, ExactControls(objects.controls),
           NEW networks, ExactNetworks(networks),
           NEW connector \in Connectors,
           connector.fallback = [kind |-> "none"] \/ ValueAssumption(connector.fallback)
    PROVE  LET output == ConnectorStep(networks, connector).output
           IN  output = NoOutput \/ Exact(output)
<1>. DEFINE provider == Provider(connector)
            control == objects.controls[provider]
            input == ConnectorInput(networks, connector)
            step == ModelStep(control.behaviour, input, control.state)
            output == ConnectorStep(networks, connector).output
<1>1. CASE provider = None
  <2>1. output = connector.fallback
    BY <1>1 DEF ConnectorStep
  <2>. QED  BY <2>1, AssumedExact DEF NoOutput
<1>2. CASE provider # None
  <2>1. provider \in DOMAIN objects.controls /\ ControlOK(control)
    <3>1. provider = objects.current[connector.name] /\ connector.name \in DOMAIN objects.current
      BY <1>2 DEF Provider, ValueAt
    <3>. QED  BY <3>1 DEF Provisions
  <2>2. Exact(control.value)
    BY <2>1 DEF ExactControls
  <2>3. CASE control.kind = "mock"
    <3>1. output = control.value
      BY <1>2, <2>3 DEF ConnectorStep
    <3>. QED  BY <2>2, <3>1
  <2>4. CASE control.kind # "mock"
    <3>1. output = step.output
      BY <1>2, <2>4 DEF ConnectorStep
    <3>2. control.behaviour \in Behaviours
      BY <2>1, <2>4 DEF ControlOK
    <3>3. Exact(input)
      <4>. DEFINE s == [i \in DOMAIN connector.inputs |->
                           ReadNetwork(networks, connector.inputs[i])]
      <4>1. connector.inputs \in Seq(Networks)
        BY ConnectorFacts DEF ConnectorAssumption
      <4>2. IsSequence(connector.inputs)
        BY <4>1, ListIsSequence
      <4>3. s = [i \in DOMAIN connector.inputs |-> s[i]]
        OBVIOUS
      <4>4. \A i \in DOMAIN connector.inputs : Exact(s[i])
        BY ReadExact
      <4>5. input = AggregateValues(s)
        BY Zenon DEF ConnectorInput
      <4>. HIDE DEF s, input
      <4>6. ExactValues(s)
        BY <4>2, <4>3, <4>4, MappedFacts DEF ExactValues
      <4>. QED  BY <4>5, <4>6, AggregateExact
    <3>4. Exact(Known([s \in Signals |-> 1]))
      <4>. DEFINE bus == [s \in Signals |-> 1]
      <4>1. DOMAIN bus = Signals /\ \A s \in Signals : bus[s] \in Int
        OBVIOUS
      <4>. HIDE DEF bus
      <4>2. Exact(Known(bus))
        BY <4>1, SignalsAssumption, BusValues DEF Exact, Sourced, Integral
      <4>. QED  BY <4>2 DEF bus
    <3>. HIDE DEF input, provider, output
    <3>5. step.output \in {input, Known([s \in Signals |-> 1]), NoOutput}
      BY <3>2, BehavioursAssumption DEF ModelStep
    <3>6. output = NoOutput \/ Exact(output)
      <4>. HIDE DEF step
      <4>. QED  BY <3>1, <3>3, <3>4, <3>5
    <3>. QED  BY <3>6 DEF output
  <2>. QED  BY <2>3, <2>4
<1>. QED  BY <1>1, <1>2

(* A device of the circuit or the session, with the values its types allow. *)
Assumed(device) ==
    \/ DeviceAssumption(device) /\ ConfigAssumption(device)
    \/ device = Source
    \/ IsObject(device) /\ ObjectAssumption(device)

LEMMA DeviceAssumed ==
    ASSUME Provisions
    PROVE  \A i \in 1 .. Len(Devices) : Assumed(Devices[i])
<1>1. ASSUME NEW device \in Range(circuit.combinators)
      PROVE  Assumed(device)
  <2>1. DeviceAssumption(device)
    BY CircuitsAssumption DEF Provisions
  <2>2. ConfigAssumption(device)
    BY ValuesAssumption DEF Provisions
  <2>. QED  BY <2>1, <2>2 DEF Assumed
<1>2. ASSUME NEW j \in DOMAIN objects.adapted
      PROVE  Assumed(Adapted(objects.adapted[j]))
  <2>. DEFINE object == objects.adapted[j]
              device == Adapted(object)
  <2>1. /\ device.kind = "object" /\ device.id = object.id
        /\ device.connectors = object.connectors
    BY DEF Adapted
  <2>2. IsObject(device)
    BY <2>1 DEF IsObject
  <2>3. object \in Range(circuit.objects) /\ IsSequence(object.connectors)
        /\ \A k \in DOMAIN object.connectors : object.connectors[k] \in Connectors
    BY ConnectorFacts
  <2>4. /\ object.id \in Nat
        /\ \A connector \in Range(object.connectors) :
              \/ connector.fallback = [kind |-> "none"]
              \/ ValueAssumption(connector.fallback)
    BY <2>3, ValuesAssumption DEF Provisions
  <2>5. \A k \in DOMAIN object.connectors : object.connectors[k] \in Range(object.connectors)
    BY DEF Range
  <2>. HIDE DEF device, object
  <2>6. ObjectAssumption(device)
    BY <2>1, <2>3, <2>4, <2>5 DEF ObjectAssumption
  <2>7. Assumed(device)
    BY <2>2, <2>6 DEF Assumed
  <2>. QED  BY <2>7 DEF device, object
<1>3. Assumed(Source)
  BY DEF Assumed
<1>. QED  BY <1>1, <1>2, <1>3, DeviceSources

(* What a device puts out is exact when the snapshot it reads is.           *)
LEMMA CombinatorExact ==
    ASSUME NEW networks, ExactNetworks(networks),
           NEW device, DeviceAssumption(device), ConfigAssumption(device)
    PROVE  ExactAll(Evaluated(networks, device))
<1>. DEFINE input == DeviceInput(networks, device)
<1>1. device.kind \notin {"source", "object"} /\ device.outputs \in Seq(Networks)
  BY DEF DeviceAssumption
<1>2. IsSequence(device.outputs)
  BY <1>1, ListIsSequence
<1>3. Evaluated(networks, device) = Broadcast(ValueOutput(device, input), device.outputs)
  BY <1>1 DEF Evaluated
<1>4. ExactInput(input)
  <2>1. input.red = ReadNetwork(networks, device.red)
        /\ input.green = ReadNetwork(networks, device.green)
    BY DEF DeviceInput
  <2>. HIDE DEF input
  <2>. QED  BY <2>1, ReadExact DEF ExactInput
<1>. HIDE DEF input
<1>5. Exact(ValueOutput(device, input))
  BY <1>4, OutputExact
<1>. QED  BY <1>2, <1>3, <1>5, BroadcastExact

LEMMA ObjectExact ==
    ASSUME Provisions, ExactControls(objects.controls),
           NEW networks, ExactNetworks(networks),
           NEW device, IsObject(device), ObjectAssumption(device)
    PROVE  ExactAll(Evaluated(networks, device))
<1>. DEFINE output(c) == ConnectorStep(networks, c).output
            outputs(c) == IF output(c) = NoOutput THEN <<>>
                          ELSE Broadcast(CommittedOutput(device, output(c)), c.outputs)
            s == [i \in DOMAIN device.connectors |-> outputs(device.connectors[i])]
<1>1. IsSequence(device.connectors)
  BY ConnectorFacts DEF IsObject
<1>2. ASSUME NEW i \in DOMAIN device.connectors
      PROVE  ExactAll(outputs(device.connectors[i]))
  <2>. DEFINE c == device.connectors[i]
  <2>0. /\ c \in Connectors
        /\ c.fallback = [kind |-> "none"] \/ ValueAssumption(c.fallback)
    BY DEF ObjectAssumption
  <2>. HIDE DEF c
  <2>1. IsSequence(c.outputs)
    <3>1. c.outputs \in Seq(Networks)
      BY <2>0, ConnectorFacts DEF ConnectorAssumption
    <3>. QED  BY <3>1, ListIsSequence
  <2>2. output(c) = NoOutput \/ Exact(output(c))
    BY <2>0, ConnectorExact
  <2>3. CASE output(c) = NoOutput
    <3>1. outputs(c) = <<>>
      BY <2>3
    <3>2. ExactAll(outputs(c))
      BY <3>1, NoOutputs, Zenon
    <3>. QED  BY <3>2 DEF c
  <2>4. CASE output(c) # NoOutput
    <3>1. CommittedOutput(device, output(c)) = ThroughDevice(output(c), device.id)
      BY <2>4 DEF CommittedOutput
    <3>2. outputs(c) = Broadcast(CommittedOutput(device, output(c)), c.outputs)
      BY <2>4
    <3>. HIDE DEF outputs, output
    <3>3. Exact(CommittedOutput(device, output(c)))
      BY <2>2, <2>4, <3>1, ThroughExact DEF ObjectAssumption
    <3>4. ExactAll(outputs(c))
      BY <2>1, <3>2, <3>3, BroadcastExact
    <3>. QED  BY <3>4 DEF c
  <2>. QED  BY <2>3, <2>4
<1>3. Evaluated(networks, device) = AllOf(s)
  BY Zenon DEF Evaluated, IsObject, ObjectOutputs
<1>. HIDE DEF outputs
<1>4. /\ s = [i \in DOMAIN device.connectors |-> s[i]]
      /\ \A i \in DOMAIN device.connectors : ExactAll(s[i])
  BY <1>2
<1>. HIDE DEF s
<1>5. IsSequence(s) /\ DOMAIN s = DOMAIN device.connectors
  BY <1>1, <1>4, MappedFacts
<1>. QED  BY <1>3, <1>4, <1>5, JoinedExact

LEMMA EvaluatedExact ==
    ASSUME Provisions, Stimuli, ExactState, NEW device, Assumed(device)
    PROVE  ExactAll(Evaluated(kernel.networks, device))
<1>1. ExactNetworks(kernel.networks) /\ ExactControls(objects.controls)
  BY DEF ExactState
<1>2. CASE DeviceAssumption(device) /\ ConfigAssumption(device)
  BY <1>1, <1>2, CombinatorExact
<1>3. CASE device = Source
  <2>1. Evaluated(kernel.networks, device)
            = Stimulus(session.drives) \o Stimulus(session.pulses)
    BY <1>3 DEF Evaluated, Source
  <2>2. ExactAll(Stimulus(session.drives)) /\ ExactAll(Stimulus(session.pulses))
    BY StimulusExact DEF Stimuli, ExactState
  <2>. QED  BY <2>1, <2>2, ConcatExact
<1>4. CASE IsObject(device) /\ ObjectAssumption(device)
  BY <1>1, <1>4, ObjectExact
<1>. QED  BY <1>2, <1>3, <1>4 DEF Assumed

(* Exact outputs keep contributions exact.                                  *)
LEMMA OutputsExact ==
    ASSUME NEW f, ExactContributions(f), NEW outputs, ExactAll(outputs)
    PROVE  ExactContributions(FoldLeft(WithOutput, f, outputs))
<1>0. Len(outputs) \in Nat /\ DOMAIN outputs = 1 .. Len(outputs)
  BY SequenceFacts DEF ExactAll
<1>1. \E c : /\ OutputFold!Runs(c, f, outputs)
             /\ OutputFold!Result(f, outputs) = c[Len(outputs)]
  BY <1>0, OutputFold!FoldLeftRuns, FoldsInduct, Zenon
<1>2. OutputFold!Result(f, outputs) = FoldLeft(WithOutput, f, outputs)
  BY Zenon DEF FoldLeft, MapThenFoldSet, Max, OutputFold!Result,
               OutputFold!MapThenFoldSet, OutputFold!Greatest
<1>3. PICK c : /\ c[0] = f
               /\ \A i \in 1 .. Len(outputs) : c[i] = WithOutput(c[i - 1], outputs[i])
               /\ FoldLeft(WithOutput, f, outputs) = c[Len(outputs)]
  BY <1>1, <1>2, Zenon DEF OutputFold!Runs
<1>. DEFINE G == {m \in Nat : m <= Len(outputs) => ExactContributions(c[m])}
<1>4. 0 \in G
  BY <1>3
<1>5. ASSUME NEW m \in G
      PROVE  m + 1 \in G
  <2>1. CASE m + 1 <= Len(outputs)
    <3>1. m + 1 \in 1 .. Len(outputs) /\ ExactContributions(c[m])
      BY <1>0, <2>1
    <3>2. c[m + 1] = WithOutput(c[m], outputs[m + 1])
      BY <1>3, <3>1
    <3>3. Exact(outputs[m + 1].value)
      BY <1>0, <3>1 DEF ExactAll
    <3>4. ExactContributions(c[m + 1])
      BY <3>1, <3>2, <3>3, OutputJoins
    <3>. QED  BY <3>4
  <2>. QED  BY <2>1
<1>6. G = Nat
  <2>. G \in SUBSET Nat
    OBVIOUS
  <2>. HIDE DEF G
  <2>. QED  BY <1>4, <1>5, NaturalInduction
<1>. QED  BY <1>0, <1>3, <1>6

LEMMA NothingExact ==
    IntegralNetworks(NoNetworks) /\ ExactNetworks(NoNetworks) /\ ExactContributions(NoNetworks)
<1>1. DOMAIN NoNetworks = {}
  BY SparseFacts
<1>. QED  BY <1>1 DEF IntegralNetworks, ExactNetworks, ExactContributions

(* What a test drives and pulses.                                           *)
LEMMA WithBusIntegral ==
    ASSUME NEW f, IntegralNetworks(f), NEW key
    PROVE  /\ \A bus \in DrivenBuses : IntegralNetworks(With(f, key, bus))
           /\ IntegralNetworks(Without(f, key))
<1>1. ASSUME NEW bus \in DrivenBuses
      PROVE  IntegralNetworks(With(f, key, bus))
  <2>. DEFINE g == With(f, key, bus)
  <2>1. /\ DOMAIN g = DOMAIN f \cup {key} /\ g[key] = bus
        /\ \A k \in DOMAIN f : k # key => g[k] = f[k]
    BY DEF With, Override
  <2>2. Integral(bus)
    BY ValuesAssumption, BusIntegral
  <2>. HIDE DEF g
  <2>3. IntegralNetworks(g)
    BY <2>1, <2>2 DEF IntegralNetworks
  <2>. QED  BY <2>3 DEF g
<1>2. IntegralNetworks(Without(f, key))
  BY DEF IntegralNetworks, Without
<1>. QED  BY <1>1, <1>2

LEMMA ExactStimulate ==
    ASSUME Typed, ExactState, Stimulate
    PROVE  ExactState'
<1>1. /\ IntegralNetworks(session.drives) /\ IntegralNetworks(session.pulses)
      /\ DOMAIN session = {"drives", "pulses", "scheduled", "finished", "failed"}
  BY DEF Typed, Fields, ExactState
<1>2. PICK network \in Networks :
          (\E bus \in DrivenBuses : Drive(network, bus) \/ Pulse(network, bus)) \/ Clear(network)
  BY DEF Stimulate
<1>3. UNCHANGED <<kernel, boundary, objects>>
  BY <1>2, Zenon DEF Drive, Pulse, Clear
<1>4. IntegralNetworks(session'.drives) /\ IntegralNetworks(session'.pulses)
  <2>1. CASE \E bus \in DrivenBuses : Drive(network, bus)
    <3>1. PICK bus \in DrivenBuses : Drive(network, bus)
      BY <2>1
    <3>2. /\ session'.drives = With(session.drives, network, bus)
          /\ session'.pulses = session.pulses
      BY <1>1, <3>1 DEF Drive
    <3>. QED  BY <1>1, <3>2, WithBusIntegral, Zenon
  <2>2. CASE \E bus \in DrivenBuses : Pulse(network, bus)
    <3>1. PICK bus \in DrivenBuses : Pulse(network, bus)
      BY <2>2
    <3>2. /\ session'.pulses = With(session.pulses, network, bus)
          /\ session'.drives = session.drives
      BY <1>1, <3>1 DEF Pulse
    <3>. QED  BY <1>1, <3>2, WithBusIntegral, Zenon
  <2>3. CASE Clear(network)
    <3>1. /\ session'.pulses = Without(session.pulses, network)
          /\ session'.drives = Without(session.drives, network)
      BY <1>1, <2>3 DEF Clear
    <3>. QED  BY <1>1, <3>1, WithBusIntegral
  <2>. QED  BY <1>2, <2>1, <2>2, <2>3
<1>. QED  BY <1>3, <1>4 DEF ExactState

(* What a test mocks.                                                       *)
LEMMA ExactProvide ==
    ASSUME Typed, ExactState, Provide
    PROVE  ExactState'
<1>1. PICK connector \in Connectors :
          \/ \E value \in MockedValues : Mock(connector, value)
          \/ \E behaviour \in Behaviours : Model(connector, behaviour)
  BY DEF Provide
<1>2. UNCHANGED <<kernel, session, boundary>>
  BY <1>1, Zenon DEF Mock, Model
<1>3. PICK control : Exact(control.value) /\ objects' = Provided(connector, control)
  <2>1. CASE \E value \in MockedValues : Mock(connector, value)
    <3>1. PICK value \in MockedValues : Mock(connector, value)
      BY <2>1
    <3>2. Exact(value)
      BY ValuesAssumption, AssumedExact
    <3>. QED  BY <3>1, <3>2 DEF Mock
  <2>2. CASE \E behaviour \in Behaviours : Model(connector, behaviour)
    <3>1. PICK behaviour \in Behaviours : Model(connector, behaviour)
      BY <2>2
    <3>2. Exact(Known(ZeroBus))
      BY NothingIntegral, BusValues DEF Exact, Sourced
    <3>. QED  BY <3>1, <3>2 DEF Model
  <2>. QED  BY <1>1, <2>1, <2>2
<1>. DEFINE controls == Append(objects.controls, control)
<1>4. objects'.controls = controls
  BY <1>3 DEF Provided, Typed, Fields
<1>5. ExactControls(controls)
  <2>1. IsSequence(objects.controls) /\ ExactControls(objects.controls)
    BY DEF Typed, Provisions, ExactState
  <2>2. /\ IsSequence(controls)
        /\ Len(controls) = Len(objects.controls) + 1
        /\ \A i \in 1 .. Len(objects.controls) : controls[i] = objects.controls[i]
        /\ controls[Len(objects.controls) + 1] = control
    BY <2>1, AppendFacts
  <2>3. /\ Len(objects.controls) \in Nat
        /\ DOMAIN objects.controls = 1 .. Len(objects.controls)
        /\ DOMAIN controls = 1 .. Len(controls)
    BY <2>1, <2>2, SequenceFacts
  <2>. HIDE DEF controls
  <2>4. \A i \in DOMAIN controls :
            \/ i \in DOMAIN objects.controls /\ controls[i] = objects.controls[i]
            \/ controls[i] = control
    BY <2>2, <2>3
  <2>. QED  BY <1>3, <2>1, <2>4 DEF ExactControls
<1>. HIDE DEF controls
<1>. QED  BY <1>2, <1>4, <1>5 DEF ExactState

LEMMA ExactControl ==
    ASSUME Typed, ExactState, Control
    PROVE  ExactState'
<1>1. PICK control \in DOMAIN objects.controls :
          (\E value \in MockedValues : MockOutput(control, value)) \/ ClearProvider(control)
  BY DEF Control
<1>2. UNCHANGED <<kernel, session, boundary>>
  BY <1>1, Zenon DEF MockOutput, ClearProvider
<1>3. ExactControls(objects'.controls)
  <2>1. CASE \E value \in MockedValues : MockOutput(control, value)
    <3>1. PICK value \in MockedValues : MockOutput(control, value)
      BY <2>1
    <3>. DEFINE old == objects.controls[control]
                new == [old EXCEPT !.value = value]
                controls == [objects.controls EXCEPT ![control] = new]
    <3>2. objects'.controls = controls
      BY <3>1 DEF MockOutput, Typed, Fields
    <3>3. Exact(value)
      BY ValuesAssumption, AssumedExact
    <3>4. "value" \in DOMAIN old
      BY DEF Typed, Provisions, ControlOK, ControlFields
    <3>. HIDE DEF old
    <3>5. new.value = value
      BY <3>4
    <3>. HIDE DEF new
    <3>6. /\ DOMAIN controls = DOMAIN objects.controls /\ controls[control] = new
          /\ \A i \in DOMAIN controls : i # control => controls[i] = objects.controls[i]
      OBVIOUS
    <3>7. ExactControls(objects.controls)
      BY DEF ExactState
    <3>. HIDE DEF controls
    <3>8. ExactControls(controls)
      BY <3>3, <3>5, <3>6, <3>7 DEF ExactControls
    <3>. QED  BY <3>2, <3>8
  <2>2. CASE ClearProvider(control)
    <3>1. objects'.controls = objects.controls
      BY <2>2 DEF ClearProvider, Typed, Fields
    <3>. QED  BY <3>1 DEF ExactState, ExactControls
  <2>. QED  BY <1>1, <2>1, <2>2
<1>. QED  BY <1>2, <1>3 DEF ExactState

(* What a boundary adds up and commits.                                     *)
LEMMA ExactEvaluates ==
    ASSUME Typed, ExactState, EvaluateDevice
    PROVE  ExactState'
<1>1. /\ boundary.next \in 1 .. Len(Devices)
      /\ boundary'.contributions = Contributed(boundary.contributions, EvaluatedDevice)
      /\ UNCHANGED <<kernel, session, objects>>
  BY EvaluateFacts
<1>2. Assumed(EvaluatedDevice)
  BY <1>1, DeviceAssumed DEF EvaluatedDevice, Typed
<1>. DEFINE outputs == Evaluated(kernel.networks, EvaluatedDevice)
<1>3. ExactAll(outputs)
  BY <1>2, EvaluatedExact DEF Typed
<1>4. Contributed(boundary.contributions, EvaluatedDevice)
          = FoldLeft(WithOutput, boundary.contributions, outputs)
  BY Zenon DEF Contributed
<1>. HIDE DEF outputs
<1>5. ExactContributions(FoldLeft(WithOutput, boundary.contributions, outputs))
  BY <1>3, OutputsExact DEF ExactState
<1>6. ExactContributions(boundary'.contributions)
  BY <1>1, <1>4, <1>5, Zenon
<1>. QED  BY <1>1, <1>6 DEF ExactState

LEMMA ExactCommits ==
    ASSUME Typed, ExactState, CommitBoundary
    PROVE  ExactState'
<1>1. /\ kernel'.networks = NewNetworks /\ objects' = NewObjects /\ After(NewObjects)
      /\ session'.pulses = NoNetworks /\ session'.drives = session.drives
  BY CommitBoundaryFacts
<1>2. ExactNetworks(NewNetworks)
  <2>1. /\ DOMAIN NewNetworks = DOMAIN boundary.contributions
        /\ \A n \in DOMAIN NewNetworks : NewNetworks[n] = AggregateValues(boundary.contributions[n])
    BY DEF NewNetworks, Aggregated
  <2>. QED  BY <2>1, AggregateExact DEF ExactNetworks, ExactContributions, ExactState
<1>3. ExactControls(NewObjects.controls)
  BY <1>1 DEF After, ExactControls, ExactState
<1>4. boundary'.contributions = NoNetworks
  <2>1. boundary.call # "none"
    BY CommitBoundaryFacts DEF Advancing
  <2>2. CASE Begin(boundary.call, boundary.left - 1, kernel.tick + 1, session.scheduled,
                   NewNetworks, NewObjects.controls, NewObjects.committed)
    BY <2>1, <2>2, BeginFacts, Zenon DEF Typed
  <2>3. CASE boundary' = [NoBoundary EXCEPT !.settled =
                              IF SettledNow(NewNetworks) THEN calls ELSE 0]
    BY <2>3 DEF NoBoundary
  <2>. QED  BY <2>2, <2>3, CommitBoundaryFacts
<1>5. IntegralNetworks(session.drives)
  BY DEF ExactState
<1>. QED  BY <1>1, <1>2, <1>3, <1>4, <1>5, NothingExact, Zenon DEF ExactState

LEMMA ExactStep ==
    ASSUME Typed, ExactState, [Next]_vars
    PROVE  ExactState'
<1>1. ASSUME UNCHANGED kernel, boundary'.contributions = boundary.contributions,
             session'.drives = session.drives, session'.pulses = session.pulses,
             objects'.controls = objects.controls
      PROVE  ExactState'
  BY <1>1 DEF ExactState
<1>2. CASE Stimulate
  BY <1>2, ExactStimulate
<1>3. CASE Schedule
  BY <1>1, <1>3 DEF Schedule, At, Typed, Fields
<1>4. CASE Provide
  BY <1>4, ExactProvide
<1>5. CASE Control
  BY <1>5, ExactControl
<1>6. CASE Observe
  BY <1>1, <1>6, Zenon DEF Observe, Trace
<1>7. CASE Adapt
  BY <1>1, <1>7 DEF Adapt, AdaptObject, Typed, Fields
<1>8. CASE Advances
  <2>1. PICK call, count :
            /\ call \in {"tick", "settle"} /\ Idle
            /\ Begin(call, count, kernel.tick, session.scheduled, kernel.networks,
                     objects.controls, objects.committed)
            /\ session' = [session EXCEPT !.scheduled = Without(@, kernel.tick + 1)]
            /\ UNCHANGED <<kernel, objects>>
    BY <1>8, AdvanceFacts
  <2>2. boundary'.contributions = NoNetworks
    BY <2>1, BeginFacts, Zenon DEF Typed
  <2>3. boundary.contributions = NoNetworks
    BY <2>1 DEF Typed, Fresh
  <2>4. session'.drives = session.drives /\ session'.pulses = session.pulses
    BY <2>1 DEF Typed, Fields
  <2>. QED  BY <1>1, <2>1, <2>2, <2>3, <2>4
<1>9. CASE CallbackReturns
  BY <1>1, <1>9 DEF CallbackReturns, Typed, Fields
<1>10. CASE CallbackThrows \/ DeviceThrows
  <2>1. FailBoundary
    BY <1>10 DEF CallbackThrows, DeviceThrows
  <2>2. /\ UNCHANGED <<kernel, objects>> /\ boundary'.contributions = NoNetworks
        /\ session'.drives = session.drives /\ session'.pulses = session.pulses
    BY <2>1 DEF FailBoundary, NoBoundary, Typed, Fields
  <2>. QED  BY <2>2, NothingExact DEF ExactState
<1>11. CASE EvaluateDevice
  BY <1>11, ExactEvaluates
<1>12. CASE CommitBoundary
  BY <1>12, ExactCommits
<1>13. CASE Finish
  BY <1>1, <1>13 DEF Finish, Typed, Fields
<1>14. CASE UNCHANGED vars
  BY <1>1, <1>14 DEF vars
<1>. QED  BY <1>2, <1>3, <1>4, <1>5, <1>6, <1>7, <1>8, <1>9, <1>10, <1>11, <1>12, <1>13, <1>14
          DEF Next, Boundary

LEMMA OrderDecidesNothing ==
    ASSUME Typed, ExactState
    PROVE  Stepped(Reverse(Devices)) = Stepped(Devices)
<1>. DEFINE order == Devices
            out(i) == Evaluated(kernel.networks, order[i])
            V == UNION {Range(out(i)) : i \in DOMAIN order}
<1>1. IsSequence(order) /\ DOMAIN order = 1 .. Len(order)
  BY DeviceFacts, SequenceFacts DEF Typed
<1>2. ASSUME NEW i \in DOMAIN order
      PROVE  ExactAll(out(i))
  BY <1>1, <1>2, DeviceAssumed, EvaluatedExact DEF Typed
<1>. HIDE DEF out
<1>3. \A i \in DOMAIN order : out(i) \in Seq(V)
  <2>. SUFFICES ASSUME NEW i \in DOMAIN order PROVE out(i) \in Seq(V)
    OBVIOUS
  <2>1. out(i) \in Seq(Range(out(i)))
    BY <1>2 DEF ExactAll, IsSequence
  <2>2. Range(out(i)) \subseteq V
    OBVIOUS
  <2>. HIDE DEF V
  <2>. QED  BY <2>1, <2>2
<1>4. ExactOutputs(V)
  <2>. SUFFICES ASSUME NEW output \in V PROVE Exact(output.value)
    BY DEF ExactOutputs
  <2>1. PICK i \in DOMAIN order : output \in Range(out(i))
    OBVIOUS
  <2>2. PICK j \in DOMAIN out(i) : output = out(i)[j]
    BY <2>1 DEF Range
  <2>. QED  BY <1>2, <2>2 DEF ExactAll
<1>5. \A i \in DOMAIN order : Evaluated(kernel.networks, order[i]) \in Seq(V)
  BY <1>3 DEF out
<1>. HIDE DEF V, order
<1>6. Stepped(Reverse(order)) = Stepped(order)
  BY <1>1, <1>4, <1>5, OrderIgnored
<1>. QED  BY <1>6 DEF order

(* The order in which devices were added decides nothing, not an origin and *)
(* not a path of a diagnostic.                                              *)
THEOREM OrderNeverMatters == Spec => []StepIgnoresOrder
<1>1. Init => ExactState
  <2>. SUFFICES ASSUME Init PROVE ExactState
    OBVIOUS
  <2>1. /\ session.drives = NoNetworks /\ session.pulses = NoNetworks
        /\ kernel.networks = NoNetworks /\ boundary.contributions = NoNetworks
        /\ objects.controls = <<>>
    BY DEF Init, NoBoundary
  <2>2. ExactControls(objects.controls)
    BY <2>1, EmptyFacts DEF ExactControls
  <2>. QED  BY <2>1, <2>2, NothingExact, Zenon DEF ExactState
<1>2. Typed /\ ExactState /\ [Next]_vars => ExactState'
  BY ExactStep
<1>3. Typed /\ ExactState => StepIgnoresOrder
  BY OrderDecidesNothing, Zenon DEF StepIgnoresOrder
<1>. QED  BY <1>1, <1>2, <1>3, AlwaysTyped, PTL DEF Spec
=============================================================================
