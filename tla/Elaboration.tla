------------------------------ MODULE Elaboration ------------------------------
(***************************************************************************)
(* The recorder that an executed source calls: network ownership, borrows, *)
(* wire colours and topology transactions (packages/runtime/src:           *)
(* elaboration-program.ts, elaboration-ownership.ts, the network-*,        *)
(* combinator-* and return-owned-value policies, and                       *)
(* elaboration-color-constraints.ts over CircuitColorConstraints).         *)
(*                                                                         *)
(* The program is nondeterministic: it keeps every handle it was ever      *)
(* given, as closures can, and makes any call at any time.  A call that is *)
(* refused poisons the recorder, unless a transaction rolls it back.       *)
(***************************************************************************)
EXTENDS Integers, Sequences, FiniteSets

CONSTANTS
    DslCallBudget,    \* the DSL calls a program may make
    MaxNetworks,      \* bounds the networks registered at a time
    MaxCalls,         \* bounds the functions entered
    MaxConditions,    \* bounds the conditions the program keeps
    MaxCombinators,   \* bounds the combinators created
    Requirements      \* the colours parameters and bindings may require

ASSUME BoundsAssumption ==
    /\ DslCallBudget \in Nat \ {0} /\ MaxNetworks \in Nat /\ MaxCalls \in Nat
    /\ MaxConditions \in Nat /\ MaxCombinators \in Nat

VARIABLES
    topology,    \* what a transaction snapshots: networks, colours, combinators
    borrows,     \* every borrow made, with the flag its frame clears
    frames,      \* the stack of function frames
    called,      \* the number of functions entered
    handles,     \* the network handles the program was given
    conditions,  \* the conditions it made, each the networks it names
    pairs,       \* the pairs recorded for the plan, each the networks it names
    dslCalls,    \* the calls counted so far; a rollback does not uncount them
    factory,     \* the snapshot of the t.instantiate that runs, if one does
    caught,      \* the program holds a recoverable error it may throw again
    forgotten,   \* what rollbacks have undone or left behind, a history
    status

vars == <<topology, borrows, frames, called, handles, conditions, pairs, dslCalls,
          factory, caught, forgotten, status>>

Red == 0
Green == 1
NoColor == 2
NoBorrow == 0
TopLevel == 0
Lost == -1

Colors == INSTANCE CircuitColorConstraints
              WITH engine <- topology.engine, outcome <- status, colors <- pairs

ASSUME RequirementsAssumption == Requirements \subseteq {Red, Green, NoColor}

-----------------------------------------------------------------------------
(* A handle's view of its network: readable, writable, consumable.          *)
Owner(stack) == IF stack = <<>> THEN TopLevel ELSE stack[Len(stack)].owner
Caller == Owner(SubSeq(frames, 1, Len(frames) - 1))

Frame == frames[Len(frames)]

Of(t, h) == t.own[h.network]

Current(t, h) == h.generation = Of(t, h).generation /\ ~Of(t, h).consumed

(* Mutant of Readable: the generation of the handle is not compared.        *)
ReadableStale(t, h) ==
    /\ ~Of(t, h).consumed
    /\ Of(t, h).owner # Lost
    /\ h.borrow # NoBorrow => borrows[h.borrow].active
    /\ Of(t, h).writer \in {NoBorrow, h.borrow}

Readable(t, h) ==
    /\ Current(t, h)
    /\ Of(t, h).owner # Lost
    /\ h.borrow # NoBorrow => borrows[h.borrow].active
    /\ Of(t, h).writer \in {NoBorrow, h.borrow}

Writable(t, h) ==
    /\ Readable(t, h)
    /\ h.capability # "readonly"
    /\ Of(t, h).readers = {}

(* Mutant of Consumable: readers are forgotten.                             *)
ConsumableWhileRead(t, h) ==
    /\ Readable(t, h)
    /\ h.capability \in {"owned", "move"}
    /\ Of(t, h).writer = NoBorrow

Consumable(t, h) ==
    /\ Readable(t, h)
    /\ h.capability \in {"owned", "move"}
    /\ Of(t, h).writer = NoBorrow /\ Of(t, h).readers = {}

Transparent(t, h) ==
    /\ frames # <<>>
    /\ Of(t, h).owner # Owner(frames)
    /\ h.network \in Frame.references

Returnable(t, h) ==
    /\ Readable(t, h)
    /\ h.capability \in {"owned", "move"}
    /\ frames # <<>> /\ Of(t, h).owner = Owner(frames)

-----------------------------------------------------------------------------
(* Steps on a topology.  Each that can be refused returns [ok, t].          *)
Refused(t) == [ok |-> FALSE, t |-> t]

Recolored(t, result) ==
    [ok |-> result.outcome = "accepted", t |-> [t EXCEPT !.engine = result.engine]]

Colored(t, l, r, expected) == Recolored(t, Colors!Unite(t.engine, l, r, expected))

NewNetwork(t, owner, color) ==
    LET added == [t EXCEPT
            !.engine = Colors!Add(@),
            !.own = Append(@, [consumed |-> FALSE, generation |-> 0, owner |-> owner,
                               color |-> color, readers |-> {}, writer |-> NoBorrow])]
    IN  IF color = NoColor THEN added
        ELSE Colored(added, Len(t.own) + 1, 0, color).t

Handle(t, n, capability, borrow) ==
    [network |-> n, capability |-> capability, generation |-> t.own[n].generation,
     borrow |-> borrow]

Newest(t) == Handle(t, Len(t.own), "owned", NoBorrow)

(* Mutant of RequireColor: the colours of other networks are not asked.     *)
RequireColorAlone(t, n, color) ==
    IF color = NoColor THEN [ok |-> TRUE, t |-> t]
    ELSE IF t.own[n].color \notin {NoColor, color} THEN Refused(t)
    ELSE [ok |-> TRUE, t |-> [t EXCEPT !.own[n].color = color]]

Painted(fixed, n, color) == [fixed EXCEPT !.t.own[n].color = color]

RequireColor(t, n, color) ==
    IF color = NoColor THEN [ok |-> TRUE, t |-> t]
    ELSE IF t.own[n].color \notin {NoColor, color} THEN Refused(t)
    ELSE Painted(Colored(t, n, 0, color), n, color)

LanesOf(comb) == {comb.lanes[i].network : i \in 1..Len(comb.lanes)}

MarkUsed(t, networks) ==
    [t EXCEPT !.combs = [c \in 1..Len(t.combs) |->
        [t.combs[c] EXCEPT !.used = @ \/ LanesOf(t.combs[c]) \cap networks # {}]]]

MoveTo(t, n, owner) ==
    [t EXCEPT !.own[n].generation = @ + 1, !.own[n].owner = owner]

(* The second lane of an output connector, made when it is first needed, of *)
(* the other colour than the first.                                         *)
Laned(t, c, n) ==
    [t EXCEPT !.combs[c].lanes = Append(@, Handle(t, n, "owned", NoBorrow))]

WithSecondary(t, c) ==
    LET n == Len(t.own) + 1
    IN  Laned(Colored(NewNetwork(t, Owner(frames), NoColor),
                      t.combs[c].lanes[1].network, n, 1).t, c, n)

FreeLanes(t, c) ==
    LET lanes == t.combs[c].lanes
        Free(i) == IF Consumable(t, lanes[i]) THEN <<lanes[i]>> ELSE <<>>
    IN  IF Len(lanes) = 1 THEN Free(1) ELSE Free(1) \o Free(2)

FirstLanes(t, free, count) ==
    [ok |-> Len(free) >= count, t |-> t,
     lanes |-> SubSeq(free, 1, IF Len(free) < count THEN Len(free) ELSE count)]

FreeLanesOf(t, c, count) == FirstLanes(t, FreeLanes(t, c), count)

TakeLanes(t, c, count) ==
    FreeLanesOf(IF Len(FreeLanes(t, c)) < count /\ Len(t.combs[c].lanes) < 2
                THEN WithSecondary(t, c) ELSE t, c, count)

(* Mutant of Transferred: the source is not consumed.                       *)
TransferredKeepingSource(same, destination, source) ==
    IF ~same.ok THEN same
    ELSE [same EXCEPT
           !.t = MarkUsed([same.t EXCEPT !.transfers = Append(@, <<destination, source>>)],
                          {destination, source})]

(* A network is taken into another one, which is not asked to be consumable. *)
Transferred(same, destination, source) ==
    IF ~same.ok THEN same
    ELSE [same EXCEPT
           !.t = MarkUsed([same.t EXCEPT !.transfers = Append(@, <<destination, source>>),
                                         !.own[source].consumed = TRUE],
                          {destination, source})]

TransferNetwork(t, destination, source) ==
    IF ~Consumable(t, source) \/ destination.network = source.network THEN Refused(t)
    ELSE Transferred(Colored(t, destination.network, source.network, 0),
                     destination.network, source.network)

(* Transfers of one source or two, in turn, each to the destination of the  *)
(* same index: an output has two lanes, and a join is bound to two inputs.  *)
TransferNext(before, destination, source) ==
    IF before.ok THEN TransferNetwork(before.t, destination, source) ELSE before

TransferAll(t, destinations, sources) ==
    IF Len(sources) = 1 THEN TransferNetwork(t, destinations[1], sources[1])
    ELSE TransferNext(TransferNetwork(t, destinations[1], sources[1]),
                      destinations[2], sources[2])

(* The preflight of the transfers unites them in a copy of the colours.     *)
UniteNext(before, destination, source) ==
    IF /\ before.ok /\ Consumable(before.t, source)
       /\ destination.network # source.network
    THEN Colored(before.t, destination.network, source.network, 0)
    ELSE Refused(before.t)

UniteAll(before, destinations, sources) ==
    IF Len(sources) = 1 THEN UniteNext(before, destinations[1], sources[1])
    ELSE UniteNext(UniteNext(before, destinations[1], sources[1]),
                   destinations[2], sources[2])

Preflight(t, destinations, sources) ==
    UniteAll([ok |-> TRUE, t |-> [t EXCEPT !.engine = Colors!Clone(@)]],
             destinations, sources).ok

(* The networks a transfer has not taken into another one.                  *)
LogicalRoot(t, n) ==
    LET root[i \in 0..Len(t.transfers)] ==
            IF i = 0 THEN n
            ELSE IF t.transfers[i][2] = root[i - 1] THEN t.transfers[i][1] ELSE root[i - 1]
    IN  root[Len(t.transfers)]

InputRoots(t, inputs) == {LogicalRoot(t, n) : n \in inputs}

(* Mutant of RegisterInputs: the inputs of a connector may share a colour.  *)
RegisterInputsAlike(t, inputs) ==
    [ok |-> Cardinality(InputRoots(t, inputs)) <= 2, t |-> t]

(* Two logical networks on one connector use both wires, three are too many. *)
RegisterInputs(t, inputs) ==
    LET roots == InputRoots(t, inputs)
        least == CHOOSE n \in roots : \A m \in roots : n <= m
        other == CHOOSE n \in roots : n # least
    IN  IF Cardinality(roots) > 2 THEN Refused(t)
        ELSE IF Cardinality(roots) < 2 THEN [ok |-> TRUE, t |-> t]
        ELSE Colored(t, least, other, 1)

CombinatorOn(t, n, inputs) ==
    [t EXCEPT !.combs = Append(@, [lanes |-> <<Handle(t, n, "owned", NoBorrow)>>,
                                   inputs |-> inputs, used |-> FALSE])]

CreateCombinator(t, inputs) ==
    RegisterInputs(CombinatorOn(NewNetwork(t, Owner(frames), NoColor), Len(t.own) + 1, inputs),
                   inputs)

-----------------------------------------------------------------------------
(* The recorder accepts calls; a factory body is exactly one function.      *)
Running == status = "active" /\ factory.phase \in {"none", "running"}

(* A combinator used as a network is its primary lane.                      *)
Usable == handles \cup {topology.combs[c].lanes[1] : c \in 1..Len(topology.combs)}

One == {<<h>> : h \in Usable}
Two == Usable \X Usable
OneOrTwo == {{l, r} : l, r \in Usable}

Refers(hs) == {hs[i].network : i \in 1..Len(hs)}

Fits(t) == t.engine.size <= MaxNetworks

Idle == UNCHANGED <<borrows, frames, conditions, pairs>>

(* A call is counted before it does anything else, and must be in budget.   *)
(* The network that a join or a destructuring makes is counted once more by *)
(* the code (#network), not here: every sequence of calls that the code has *)
(* budget for is one here.                                                  *)
Counted == dslCalls < DslCallBudget /\ dslCalls' = dslCalls + 1
Uncounted == UNCHANGED dslCalls

(* A call is accepted and gives the program new handles ...                 *)
Accept(result, given) ==
    /\ result.ok /\ Fits(result.t)
    /\ topology' = result.t
    /\ handles' = handles \cup given
    /\ UNCHANGED <<called, factory, caught, forgotten, status>>

(* ... or refused: the recorder throws this failure from now on ...         *)
Poison(result) ==
    /\ ~result.ok
    /\ status' = "failed"
    /\ UNCHANGED <<topology, borrows, frames, called, handles, conditions, pairs,
                   factory, caught, forgotten>>

(* Mutant of Restored: what was consumed before is free again.              *)
RestoredUnconsumed(saved) ==
    [saved EXCEPT !.engine = Colors!Clone(@),
                  !.own = [n \in 1..Len(@) |-> [@[n] EXCEPT !.consumed = FALSE]]]

(* Mutant of Restored: networks keep who consumed and owns them.            *)
RestoredNetworks(saved) == [saved EXCEPT !.engine = Colors!Clone(@), !.own = topology.own]

(* The snapshot holds a copy of the colours, and what is restored is a copy *)
(* of that: a copy of a copy is the copy.                                   *)
Restored(saved) == [saved EXCEPT !.engine = Colors!Clone(@)]

(* A copy of the colours forgets what an anchor below another root knew.    *)
ForgottenBy(saved) == IF saved.engine.parent[0] # 0 THEN {"colors"} ELSE {}

(* ... or, in a transaction, undone, with an error the program can catch.   *)
RollBack(result) ==
    /\ ~result.ok
    /\ topology' = Restored(topology)
    /\ caught' = TRUE
    /\ forgotten' = forgotten \cup ForgottenBy(topology)
    /\ UNCHANGED <<borrows, frames, called, handles, conditions, pairs, factory, status>>

(* Calls that do no more than this.                                         *)
AcceptOrPoison(result) == (Accept(result, {}) /\ Idle) \/ Poison(result)
AcceptOrRollBack(result) == (Accept(result, {}) /\ Idle) \/ RollBack(result)

-----------------------------------------------------------------------------
(* Networks, and the functions that borrow, own and return them.            *)
Declared(t) == Accept([ok |-> TRUE, t |-> t], {Newest(t)}) /\ Idle

Network(color) ==
    Running /\ Counted /\ Declared(NewNetwork(topology, Owner(frames), color))

Bind(h, color) ==
    /\ Running /\ Uncounted
    /\ AcceptOrPoison(RequireColor(topology, h.network, color))

(* A function is entered, with a network as the default of a parameter      *)
(* perhaps: it was made before, and the new frame adopts it.                *)
Entered(t, given) ==
    /\ Fits(t)
    /\ topology' = t
    /\ handles' = handles \cup given

EnterFunction(default) ==
    /\ status = "active" /\ factory.phase # "left" /\ called < MaxCalls
    /\ called' = called + 1
    /\ frames' = Append(frames, [owner |-> called + 1, borrows |-> {}, moves |-> {},
                                 references |-> {}])
    /\ IF default
       THEN LET t == NewNetwork(topology, called + 1, NoColor) IN Entered(t, {Newest(t)})
       ELSE Entered(topology, {})
    /\ factory' = IF factory.phase = "begun" THEN [factory EXCEPT !.phase = "running"]
                  ELSE factory
    /\ UNCHANGED <<borrows, conditions, pairs, dslCalls, caught, forgotten, status>>

(* Mutant of Released: what was moved in and not returned is kept.          *)
ReleasedKeepingMoves(frame) ==
    [n \in 1..Len(topology.own) |->
        [topology.own[n] EXCEPT !.readers = @ \ frame.borrows,
                                !.writer = IF @ \in frame.borrows THEN NoBorrow ELSE @]]

(* Mutant of Released: a mutable borrow is not given back.                  *)
ReleasedReadersOnly(frame) ==
    [n \in 1..Len(topology.own) |-> [topology.own[n] EXCEPT !.readers = @ \ frame.borrows]]

(* releaseFrame: its borrows end, and what it neither returned nor consumed *)
(* of what was moved into it is lost.                                       *)
Released(frame) ==
    [n \in 1..Len(topology.own) |->
        LET own == topology.own[n]
            lost == n \in frame.moves /\ ~own.consumed /\ own.owner = frame.owner
        IN  [own EXCEPT
              !.readers = @ \ frame.borrows,
              !.writer = IF @ \in frame.borrows THEN NoBorrow ELSE @,
              !.generation = IF lost THEN @ + 1 ELSE @,
              !.owner = IF lost THEN Lost ELSE @]]

ExitInstance ==
    /\ Running /\ frames # <<>>
    /\ topology' = [topology EXCEPT !.own = Released(Frame)]
    /\ borrows' = [b \in 1..Len(borrows) |->
                      [borrows[b] EXCEPT !.active = @ /\ b \notin Frame.borrows]]
    /\ frames' = SubSeq(frames, 1, Len(frames) - 1)
    /\ factory' = IF factory.phase = "running" /\ Len(frames) = factory.depth + 1
                  THEN [factory EXCEPT !.phase = "left"] ELSE factory
    /\ UNCHANGED <<called, handles, conditions, pairs, dslCalls, caught,
                   forgotten, status>>

(* Mutant of Borrowable: readers do not keep a writer out.                  *)
BorrowableBesideReaders(t, h, capability) ==
    /\ Readable(t, h)
    /\ capability = "ref" => h.capability # "readonly"
    /\ Of(t, h).writer = NoBorrow

Borrowable(t, h, capability) ==
    /\ Readable(t, h)
    /\ capability = "ref" => h.capability # "readonly" /\ Of(t, h).readers = {}
    /\ Of(t, h).writer = NoBorrow

Lend(colored, h, capability, id) ==
    [ok |-> Borrowable(topology, h, capability) /\ colored.ok,
     t |-> IF capability = "ref" THEN [colored.t EXCEPT !.own[h.network].writer = id]
           ELSE [colored.t EXCEPT !.own[h.network].readers = @ \cup {id}]]

Lent(result, h, capability, id) ==
    \/ /\ Accept(result, {[h EXCEPT !.capability = capability, !.borrow = id]})
       /\ borrows' = Append(borrows, [network |-> h.network, capability |-> capability,
                                      active |-> TRUE])
       /\ frames' = [frames EXCEPT ![Len(frames)].borrows = @ \cup {id}]
       /\ UNCHANGED <<conditions, pairs>>
    \/ Poison(result)

BorrowParameter(h, capability, color) ==
    LET id == Len(borrows) + 1
    IN  /\ Running /\ Counted /\ frames # <<>>
        /\ Lent(Lend(RequireColor(topology, h.network, color), h, capability, id),
                h, capability, id)

Moved(t, h, colored) ==
    [ok |-> Consumable(t, h) /\ colored.ok,
     t |-> MoveTo(colored.t, h.network, Owner(frames))]

MoveIn(result, n) ==
    \/ /\ Accept(result, {Handle(result.t, n, "move", NoBorrow)})
       /\ frames' = [frames EXCEPT ![Len(frames)].moves = @ \cup {n}]
       /\ UNCHANGED <<borrows, conditions, pairs>>
    \/ RollBack(result)

MoveFrom(t, h, color) == MoveIn(Moved(t, h, RequireColor(t, h.network, color)), h.network)

MoveParameter(h, color) ==
    /\ Running /\ Counted /\ frames # <<>>
    /\ MoveFrom(topology, h, color)

(* A combinator moves the first of its lanes that can be.                   *)
MoveTaken(taken, color) ==
    \/ taken.ok /\ MoveFrom(taken.t, taken.lanes[1], color)
    \/ RollBack(taken)

MoveCombinatorParameter(c, color) ==
    /\ Running /\ Counted /\ frames # <<>>
    /\ MoveTaken(TakeLanes(topology, c, 1), color)

(* A bare Network parameter refers to the network and takes nothing.        *)
Referred(result, n) ==
    \/ /\ Accept(result, {})
       /\ frames' = [frames EXCEPT ![Len(frames)].references =
              IF topology.own[n].owner = Owner(frames) THEN @ ELSE @ \cup {n}]
       /\ UNCHANGED <<borrows, conditions, pairs>>
    \/ Poison(result)

ImplicitNetworkParameter(h, color) ==
    /\ Running /\ Counted /\ frames # <<>>
    /\ Referred(RequireColor(topology, h.network, color), h.network)

(* A readonly view of a network of a caller may be returned as it is; a     *)
(* borrow of the frame that is left is stripped from it.                    *)
AliasesCaller(h) ==
    LET owner == Of(topology, h).owner
    IN  /\ h.capability = "readonly" /\ frames # <<>>
        /\ h.borrow # NoBorrow => borrows[h.borrow].capability # "ref"
        /\ owner # Owner(frames)
        /\ owner \in {TopLevel} \cup {frames[i].owner : i \in 1..Len(frames)}

Alias(h) == [h EXCEPT !.borrow = IF @ \in Frame.borrows THEN NoBorrow ELSE @]

(* What is shared with the caller, or was referred to by a bare parameter,  *)
(* passes through; what the frame owns goes to the caller.                  *)
PassesThrough(h, capability) ==
    IF capability = "readonly" /\ AliasesCaller(h) THEN TRUE
    ELSE h.capability \in {"owned", "move"} /\ Transparent(topology, h)

Passed(colored, h, capability) ==
    IF ~(colored.ok /\ Readable(topology, h)) THEN Poison(Refused(topology))
    ELSE /\ Accept(colored, {IF h.capability = "readonly" THEN Alias(h)
                             ELSE IF capability = "readonly"
                             THEN [h EXCEPT !.capability = capability] ELSE h})
         /\ Idle

Returned(colored, n) == MoveTo(MarkUsed(colored.t, {n}), n, Caller)

ReturnedTo(t, h, capability) ==
    /\ Accept([ok |-> TRUE, t |-> t], {Handle(t, h.network, capability, h.borrow)})
    /\ frames' = [frames EXCEPT ![Len(frames)].moves = @ \ {h.network}]
    /\ UNCHANGED <<borrows, conditions, pairs>>

ReturnOwned(colored, h, capability) ==
    IF colored.ok /\ Returnable(topology, h)
    THEN ReturnedTo(Returned(colored, h.network), h, capability)
    ELSE Poison(Refused(topology))

ReturnNetwork(h, capability, color) ==
    /\ Running
    /\ IF PassesThrough(h, capability)
       THEN Uncounted /\ Passed(RequireColor(topology, h.network, color), h, capability)
       ELSE Counted /\ ReturnOwned(RequireColor(topology, h.network, color), h, capability)

(* The lanes of a combinator that go with it out of the frame.              *)
OwnedLanes(c) ==
    {h \in {topology.combs[c].lanes[i] : i \in 1..Len(topology.combs[c].lanes)} :
        ~Of(topology, h).consumed /\ frames # <<>> /\ Of(topology, h).owner = Owner(frames)}

(* Every network of a returned value changes hands, or none of them does.   *)
ReturnAll(networks, lanes, marked) ==
    LET moved == [n \in 1..Len(topology.own) |->
                      IF n \in networks
                      THEN [topology.own[n] EXCEPT !.generation = @ + 1, !.owner = Caller]
                      ELSE topology.own[n]]
        Renewed(lane) == IF lane \in lanes
                         THEN [lane EXCEPT !.generation = @ + 1, !.capability = "owned"]
                         ELSE lane
        combs == [c \in 1..Len(topology.combs) |->
                     LET comb == topology.combs[c]
                     IN  [comb EXCEPT !.lanes = [i \in 1..Len(@) |-> Renewed(@[i])]]]
    IN  MarkUsed([topology EXCEPT !.own = moved, !.combs = combs],
                 IF marked THEN networks ELSE {})

Moving(given, lanes) == {h \in given : ~Transparent(topology, h)} \cup lanes

ValueReturns(given, lanes, moving) ==
    /\ \A h \in given \cup lanes : Readable(topology, h)
    /\ \A h \in moving : Returnable(topology, h)
    /\ \A h, g \in moving : h.network = g.network => h = g

Leave(result, networks, given) ==
    \/ /\ Accept(result, given)
       /\ frames' = IF networks = {} THEN frames
                    ELSE [frames EXCEPT ![Len(frames)].moves = @ \ networks]
       /\ UNCHANGED <<borrows, conditions, pairs>>
    \/ Poison(result)

(* Each transfer is counted, before the first of them.                      *)
ReturnMoving(given, lanes, moving, networks) ==
    LET charged == dslCalls + Cardinality(networks)
        result == [ok |-> ValueReturns(given, lanes, moving) /\ charged <= DslCallBudget,
                   t |-> ReturnAll(networks, lanes, TRUE)]
    IN  /\ dslCalls' = IF charged > DslCallBudget THEN DslCallBudget + 1 ELSE charged
        /\ Leave(result, networks,
                 {[h EXCEPT !.capability = "owned", !.generation = @ + 1] : h \in moving})

ReturnFrom(given, lanes, moving) ==
    ReturnMoving(given, lanes, moving, {h.network : h \in moving})

ReturnWith(given, lanes) == ReturnFrom(given, lanes, Moving(given, lanes))

ReturnValue(given, combinators) ==
    Running /\ ReturnWith(given, UNION {OwnedLanes(c) : c \in combinators})

ReturnLanes(lanes, networks) ==
    Leave([ok |-> \A h \in lanes : Returnable(topology, h),
           t |-> ReturnAll(networks, lanes, FALSE)], networks, {})

ReturnCombinator(c) ==
    /\ Running /\ Uncounted /\ frames # <<>>
    /\ ReturnLanes(OwnedLanes(c), {h.network : h \in OwnedLanes(c)})

-----------------------------------------------------------------------------
(* What connects networks and combinators.                                  *)
Take(destination, source) ==
    /\ Running /\ Counted
    /\ AcceptOrPoison(IF Consumable(topology, destination)
                      THEN TransferNetwork(topology, destination, source)
                      ELSE Refused(topology))

Paired(apart, networks) ==
    \/ /\ Accept([apart EXCEPT !.t = MarkUsed(@, networks)], {})
       /\ pairs' = pairs \cup {networks}
       /\ UNCHANGED <<borrows, frames, conditions>>
    \/ Poison(apart)

Pair(left, right) ==
    /\ Running /\ Counted
    /\ Paired(IF /\ Readable(topology, left) /\ Readable(topology, right)
                 /\ left.network # right.network
              THEN Colored(topology, left.network, right.network, 1)
              ELSE Refused(topology), {left.network, right.network})

(* The fixed colours that meet in one network.                              *)
FixedColors(t, networks) == {t.own[n].color : n \in networks} \ {NoColor}

JoinInto(t, result, inputs) ==
    IF Preflight(t, [i \in 1..Len(inputs) |-> result], inputs)
    THEN TransferAll(t, [i \in 1..Len(inputs) |-> result], inputs)
    ELSE Refused(t)

JoinNew(t, inputs) == JoinInto(t, Newest(t), inputs)

JoinAll(t, inputs) ==
    IF /\ \A i \in 1..Len(inputs) : Consumable(t, inputs[i])
       /\ Cardinality(Refers(inputs)) = Len(inputs)
       /\ Cardinality(FixedColors(t, Refers(inputs))) <= 1
    THEN JoinNew(NewNetwork(t, Owner(frames), NoColor), inputs)
    ELSE Refused(t)

Joined(result) == (Accept(result, {Newest(result.t)}) /\ Idle) \/ RollBack(result)

Join(inputs) == Running /\ Counted /\ Joined(JoinAll(topology, inputs))

(* ... of a lane of a combinator, and of a network perhaps.                 *)
JoinTaken(taken, others) ==
    IF taken.ok THEN JoinAll(taken.t, taken.lanes \o others) ELSE Refused(topology)

JoinCombinator(c, others) ==
    Running /\ Counted /\ Joined(JoinTaken(TakeLanes(topology, c, 1), others))

(* [first, second] = combinator: both lanes of its output connector.        *)
BothLanes(t, c) ==
    Accept([ok |-> TRUE, t |-> t], {t.combs[c].lanes[1], t.combs[c].lanes[2]}) /\ Idle

Destructure(c) ==
    /\ Running /\ Uncounted
    /\ BothLanes(IF Len(topology.combs[c].lanes) = 2 THEN topology
                 ELSE WithSecondary(topology, c), c)

(* Mutant of Compare: what is compared is not marked as read.               *)
CompareUnmarked(operands) ==
    LET result == [ok |-> \A h \in operands : Readable(topology, h),
                   t |-> topology]
    IN  /\ Running /\ Uncounted
        /\ \/ /\ Accept(result, {})
              /\ conditions' = conditions \cup {{h.network : h \in operands}}
              /\ Cardinality(conditions') <= MaxConditions
              /\ UNCHANGED <<borrows, frames, pairs>>
           \/ Poison(result)

(* A comparison reads its operands and keeps their names; the combinator    *)
(* that is made of it later does not read them again.                       *)
Compare(operands) ==
    LET result == [ok |-> \A h \in operands : Readable(topology, h),
                   t |-> MarkUsed(topology, {h.network : h \in operands})]
    IN  /\ Running /\ Uncounted
        /\ \/ /\ Accept(result, {})
              /\ conditions' = conditions \cup {{h.network : h \in operands}}
              /\ Cardinality(conditions') <= MaxConditions
              /\ UNCHANGED <<borrows, frames, pairs>>
           \/ Poison(result)

Decider(inputs) ==
    /\ Len(topology.combs) < MaxCombinators
    /\ Running /\ Counted
    /\ AcceptOrRollBack(CreateCombinator(topology, inputs))

AttachTaken(taken, destinations) ==
    IF taken.ok /\ Preflight(taken.t, destinations, taken.lanes)
    THEN TransferAll(taken.t, destinations, taken.lanes)
    ELSE Refused(topology)

Attachable(destinations) ==
    /\ Cardinality(Refers(destinations)) = Len(destinations)
    /\ \A i \in 1..Len(destinations) : Writable(topology, destinations[i])

Connected(result, c) ==
    AcceptOrRollBack(IF result.ok THEN [result EXCEPT !.t.combs[c].used = TRUE] ELSE result)

AttachMany(c, destinations) ==
    /\ Running /\ Counted
    /\ Connected(IF Attachable(destinations)
                 THEN AttachTaken(TakeLanes(topology, c, Len(destinations)), destinations)
                 ELSE Refused(topology), c)

-----------------------------------------------------------------------------
(* t.instantiate: a transaction around the call of a factory.               *)
NoFactory == [phase |-> "none"]

Instantiate ==
    /\ status = "active" /\ factory = NoFactory /\ called < MaxCalls /\ Counted
    /\ factory' = [phase |-> "begun", depth |-> Len(frames), saved |-> topology,
                   pairs |-> pairs]
    /\ UNCHANGED <<topology, borrows, frames, called, handles, conditions, pairs,
                   caught, forgotten, status>>

FactoryReturns ==
    /\ status = "active" /\ Uncounted /\ factory.phase = "left"
    /\ factory' = NoFactory
    /\ UNCHANGED <<topology, borrows, frames, called, handles, conditions, pairs,
                   caught, forgotten, status>>

(* Only an error that was recoverable inside is recoverable outside: any    *)
(* other one poisons the recorder.  The program cannot use the networks and *)
(* combinators whose creation was undone; their pairs stay recorded.        *)
FactoryThrows ==
    LET saved == factory.saved
        kept == 1..Len(saved.own)
        undoneMove == \E n \in kept : topology.own[n].generation # saved.own[n].generation
        undoneRead == \E c \in 1..Len(saved.combs) :
                          topology.combs[c].used # saved.combs[c].used
    IN  /\ status = "active" /\ Uncounted /\ factory.phase = "left"
        /\ \/ /\ caught
              /\ topology' = Restored(saved)
              /\ handles' = {h \in handles : h.network \in kept}
              /\ conditions' = {c \in conditions : c \subseteq kept}
              /\ forgotten' = forgotten \cup ForgottenBy(saved)
                     \cup (IF pairs # factory.pairs THEN {"pairs"} ELSE {})
                     \cup (IF undoneMove THEN {"moves"} ELSE {})
                     \cup (IF undoneRead THEN {"reads"} ELSE {})
              /\ factory' = NoFactory
              /\ UNCHANGED <<borrows, frames, called, pairs, caught, status>>
           \/ Poison(Refused(topology))

Plan ==
    /\ status = "active" /\ Uncounted /\ factory = NoFactory /\ frames = <<>>
    /\ status' = "sealed"
    /\ UNCHANGED <<topology, borrows, frames, called, handles, conditions, pairs,
                   factory, caught, forgotten>>

(* The call after the last one that is in budget fails for good.            *)
OverBudget ==
    /\ Running /\ dslCalls = DslCallBudget
    /\ dslCalls' = dslCalls + 1
    /\ Poison(Refused(topology))

-----------------------------------------------------------------------------
Init ==
    /\ topology = [engine |-> Colors!NewEngine, own |-> <<>>, transfers |-> <<>>,
                   combs |-> <<>>]
    /\ borrows = <<>> /\ frames = <<>> /\ called = 0
    /\ handles = {} /\ conditions = {} /\ pairs = {} /\ dslCalls = 0
    /\ factory = NoFactory /\ caught = FALSE /\ forgotten = {}
    /\ status = "active"

Combinators == 1..Len(topology.combs)

Next ==
    \/ \E color \in Requirements : Network(color)
    \/ \E h \in Usable, color \in Requirements \ {NoColor} : Bind(h, color)
    \/ \E default \in BOOLEAN : EnterFunction(default)
    \/ ExitInstance
    \/ \E h \in Usable, color \in Requirements :
          \/ \E capability \in {"readonly", "ref"} : BorrowParameter(h, capability, color)
          \/ MoveParameter(h, color)
          \/ ImplicitNetworkParameter(h, color)
          \/ \E capability \in {"owned", "readonly"} : ReturnNetwork(h, capability, color)
    \/ \E c \in Combinators, color \in Requirements : MoveCombinatorParameter(c, color)
    \/ \E c \in Combinators : ReturnValue({}, {c}) \/ ReturnCombinator(c) \/ Destructure(c)
    \/ \E h \in Usable, c \in Combinators : ReturnValue({h}, {c})
    \/ \E given \in OneOrTwo : ReturnValue(given, {}) \/ Compare(given)
    \/ \E l, r \in Usable : Take(l, r) \/ Pair(l, r)
    \/ \E hs \in One \cup Two : Join(hs)
    \/ \E c \in Combinators, hs \in {<<>>} \cup One : JoinCombinator(c, hs)
    \/ \E left, right \in conditions : Decider(left \cup right)
    \/ \E c \in Combinators, hs \in One \cup Two : AttachMany(c, hs)
    \/ Instantiate \/ FactoryReturns \/ FactoryThrows \/ Plan \/ OverBudget

Spec == Init /\ [][Next]_vars
=============================================================================
