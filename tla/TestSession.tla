----------------------------- MODULE TestSession -----------------------------
(***************************************************************************)
(* A test session: one circuit on the synchronous Known/Unknown kernel,    *)
(* the drives, pulses, callbacks, mocks and models of a test, and the      *)
(* trace it records.  Beside it, in `world`, the plain kernel runs the     *)
(* same circuit with objects that do whatever they like wherever the       *)
(* session only knows Unknown.                                             *)
(*                                                                         *)
(* A boundary takes one step per callback and per device, for a callback   *)
(* and a model may throw between any two of them.                          *)
(***************************************************************************)
EXTENDS Combinators

CONSTANTS Networks,
          Circuits,     \* the circuits a session may be created for
          DrivenBuses,  \* what a test drives and pulses
          MockedValues, \* what its mocks put out, Unknown included
          WorldBuses,   \* what an unmodelled object may really put out
          Behaviours,   \* the models a test gives an object
          Targets,      \* what a test may trace
          Settles       \* the bounds a test settles within

ASSUME DrivenBusesAssumption == \A bus \in DrivenBuses : IsSparse(bus)
ASSUME MockedValuesAssumption == \A value \in MockedValues : IsBusValue(value)
ASSUME BehavioursAssumption == Behaviours \subseteq {"echo", "pulse", "fails"}
ASSUME TargetsAssumption ==
    \A target \in Targets :
        target.kind \in {"network", "signal", "object-input", "object-output"}

VARIABLES circuit,    \* the combinators, and the objects of the plan
          kernel,     \* the committed snapshot: its tick and its networks
          session,    \* drives, pulses, scheduled callbacks, finished, failed
          boundary,   \* the boundary under way and the call that asked for it
          objects,    \* object handles, the mocks and models of their connectors
          trace,      \* TraceStore
          world,      \* the plain kernel
          calls,      \* operations the test has called
          begun,      \* what the session showed when the boundary began
          history     \* of every traced target, its value at every tick

vars == <<circuit, kernel, session, boundary, objects, trace, world, calls, begun, history>>

None == 0
NoNetworks == [n \in {} |-> ZeroBus]

(* ValueSimulationSnapshot.read                                             *)
ReadNetwork(networks, network) ==
    IF network \in DOMAIN networks THEN networks[network] ELSE Known(ZeroBus)

(* Functions that gain and lose one key.                                    *)
With(f, key, value) == Override([k \in {key} |-> value], f)
Without(f, key) == [k \in DOMAIN f \ {key} |-> f[k]]
ValueAt(f, key, default) == IF key \in DOMAIN f THEN f[key] ELSE default

-----------------------------------------------------------------------------
(* The participants of the kernel in the order they were added: the         *)
(* combinators, the external source of the session, the adapted objects.    *)
Source == [kind |-> "source", id |-> None]

Devices == Append(circuit.combinators, Source)
               \o [i \in DOMAIN objects.adapted |->
                      [kind |-> "object", id |-> objects.adapted[i].id,
                       connectors |-> objects.adapted[i].connectors]]

Connectors == UNION {ToSet(objects.adapted[i].connectors) : i \in DOMAIN objects.adapted}
Connector(name) == CHOOSE c \in Connectors : c.name = name

DeviceInput(networks, device) ==
    [red |-> ReadNetwork(networks, device.red), green |-> ReadNetwork(networks, device.green)]

ConnectorInput(networks, connector) ==
    AggregateValues([i \in DOMAIN connector.inputs |->
                        ReadNetwork(networks, connector.inputs[i])])

(* The value broadcast to each of the networks.                             *)
Broadcast(value, networks) ==
    [i \in DOMAIN networks |-> [network |-> networks[i], value |-> value]]

AllOf(sequences) == FoldLeft(\o, <<>>, sequences)

(* What drives and pulses put on their networks.                            *)
Stimulus(values) ==
    LET networks == SetToSeq(DOMAIN values)
    IN  [i \in DOMAIN networks |->
            [network |-> networks[i], value |-> Known(values[networks[i]])]]

-----------------------------------------------------------------------------
(* What the compiler makes: no two connectors of objects have the same id.  *)
ConnectorAssumption(connector) ==
    /\ connector.inputs \in Seq(Networks) /\ connector.outputs \in Seq(Networks)
    /\ connector.fallback = [kind |-> "none"] \/ IsBusValue(connector.fallback)

DeviceAssumption(device) ==
    /\ device.kind \in {"decider", "arithmetic", "selector", "constant"}
    /\ device.outputs \in Seq(Networks)
    /\ device.kind = "decider" => device.config.condition \in Conditions
    /\ device.kind = "decider" =>
          \A rows \in {device.config.outputs, device.config.elseOutputs} :
              \A i \in DOMAIN rows :
                  /\ rows[i].mode \in {"copy", "constant"}
                  /\ rows[i].kind \in {"signal", "each", "anything", "everything"}

ASSUME CircuitsAssumption ==
    \A c \in Circuits :
        /\ c.maxTick \in Nat
        /\ c.combinators \in Seq(Range(c.combinators))
        /\ \A device \in Range(c.combinators) : DeviceAssumption(device)
        /\ c.objects \in Seq(Range(c.objects))
        /\ \A object \in Range(c.objects) :
              /\ object.connectors \in Seq(Range(object.connectors))
              /\ \A connector \in Range(object.connectors) : ConnectorAssumption(connector)
        /\ \A object, other \in Range(c.objects) :
              \A i \in DOMAIN object.connectors, j \in DOMAIN other.connectors :
                  object.connectors[i].name = other.connectors[j].name =>
                      object = other /\ i = j

(* The values that a circuit and a test bring in: circuit integers, and     *)
(* rows, operands and origins as their types have them.                     *)
ValueAssumption(value) ==
    \/ value.kind = "known" /\ value.bus \in Bus
    \/ value.kind = "unknown" /\ value.origins \in [DOMAIN value.origins -> Origin]

OperandAssumption(operand) == operand.kind = "constant" => operand.value \in Int

ConfigAssumption(device) ==
    /\ device.id \in Nat
    /\ device.kind = "decider" =>
          \A rows \in {device.config.outputs, device.config.elseOutputs} :
              /\ rows \in Seq(Range(rows))
              /\ \A i \in DOMAIN rows : rows[i].mode = "constant" => rows[i].value \in Int
    /\ device.kind = "arithmetic" =>
          /\ device.config.operation \in Operations
          /\ OperandAssumption(device.config.left)
          /\ OperandAssumption(device.config.right)
    /\ device.kind = "constant" => device.config.bus \in Bus

ASSUME ValuesAssumption ==
    /\ DrivenBuses \subseteq Bus
    /\ \A value \in MockedValues : ValueAssumption(value)
    /\ \A c \in Circuits :
          /\ \A device \in Range(c.combinators) : ConfigAssumption(device)
          /\ \A object \in Range(c.objects) :
                /\ object.id \in Nat
                /\ \A connector \in Range(object.connectors) :
                      connector.fallback = [kind |-> "none"]
                          \/ ValueAssumption(connector.fallback)

-----------------------------------------------------------------------------
(* Models are functions of a test: "echo" gives its input back, "pulse"     *)
(* fires at every second tick, "fails" throws.                              *)
NoOutput == [kind |-> "none"]

ModelStep(behaviour, input, state) ==
    CASE behaviour = "echo" -> [state |-> state, output |-> input]
      [] behaviour = "pulse" ->
           [state |-> 1 - state,
            output |-> IF state = 1 THEN Known([s \in Signals |-> 1]) ELSE NoOutput]
      [] behaviour = "fails" -> [state |-> state, output |-> NoOutput]

Provider(connector) == ValueAt(objects.current, connector.name, None)

(* What a connector has to commit: its output, and the state of its model.  *)
ConnectorStep(networks, connector) ==
    LET provider == Provider(connector)
        control == objects.controls[provider]
        step == ModelStep(control.behaviour, ConnectorInput(networks, connector),
                          control.state)
    IN  CASE provider = None ->
               [provider |-> None, state |-> 0, output |-> connector.fallback]
          [] provider # None /\ control.kind = "mock" ->
               [provider |-> None, state |-> 0, output |-> control.value]
          [] OTHER ->
               [provider |-> provider, state |-> step.state, output |-> step.output]

CommittedOutput(device, output) ==
    IF output = NoOutput THEN Known(ZeroBus) ELSE ThroughDevice(output, device.id)

ObjectOutputs(networks, device) ==
    LET outputs(c) == LET output == ConnectorStep(networks, c).output
                      IN  IF output = NoOutput THEN <<>>
                          ELSE Broadcast(CommittedOutput(device, output), c.outputs)
    IN  AllOf([i \in DOMAIN device.connectors |-> outputs(device.connectors[i])])

(* device.evaluate(snapshot)                                                *)
Evaluated(networks, device) ==
    CASE device.kind = "source" -> Stimulus(session.drives) \o Stimulus(session.pulses)
      [] device.kind = "object" -> ObjectOutputs(networks, device)
      [] OTHER -> Broadcast(ValueOutput(device, DeviceInput(networks, device)),
                            device.outputs)

Throws(device) ==
    /\ device.kind = "object"
    /\ \E i \in DOMAIN device.connectors :
          LET provider == Provider(device.connectors[i])
          IN  provider # None /\ objects.controls[provider].behaviour = "fails"

WithOutput(contributions, output) ==
    With(contributions, output.network,
         Append(ValueAt(contributions, output.network, <<>>), output.value))

(* A plausible defect: a device reads what its neighbours already put out.  *)
ContributedReadingNeighbours(contributions, device) ==
    LET sofar == [n \in DOMAIN contributions |-> AggregateValues(contributions[n])]
    IN  FoldLeft(WithOutput, contributions,
                 Evaluated(Override(sofar, kernel.networks), device))

(* The outputs of one device join those of the devices before it; all read  *)
(* the committed snapshot.                                                  *)
Contributed(contributions, device) ==
    FoldLeft(WithOutput, contributions, Evaluated(kernel.networks, device))

Aggregated(contributions) ==
    [n \in DOMAIN contributions |-> AggregateValues(contributions[n])]

-----------------------------------------------------------------------------
(* The plain kernel: the same devices on concrete buses.                    *)
ConcreteEvaluated(device, networks, chosen) ==
    LET read(n) == ValueAt(networks, n, ZeroBus)
        output(c) == ConnectorStep(kernel.networks, c).output
        really(c) == IF IsKnown(output(c)) THEN output(c).bus ELSE chosen[c.name]
        put(c) == IF output(c) = NoOutput THEN <<>> ELSE Broadcast(really(c), c.outputs)
        known(values) == [i \in DOMAIN values |->
                             [network |-> values[i].network, value |-> values[i].value.bus]]
    IN  CASE device.kind = "source" ->
               known(Stimulus(session.drives) \o Stimulus(session.pulses))
          [] device.kind = "object" ->
               AllOf([i \in DOMAIN device.connectors |-> put(device.connectors[i])])
          [] OTHER ->
               Broadcast(ConcreteOutput(device, [red |-> read(device.red),
                                                 green |-> read(device.green)]),
                         device.outputs)

WithBus(sums, output) ==
    With(sums, output.network, Merge(ValueAt(sums, output.network, ZeroBus), output.value))

ConcreteStep(sums, device, chosen) ==
    FoldLeft(WithBus, sums, ConcreteEvaluated(device, world.networks, chosen))

-----------------------------------------------------------------------------
(* The trace store and its reader.                                          *)
IsNetworkTarget(target) == target.kind \in {"network", "signal"}

(* The reader of a target, on a snapshot and the outputs committed with it. *)
TargetValue(target, networks, committed) ==
    CASE IsNetworkTarget(target) -> ReadNetwork(networks, target.network)
      [] target.kind = "object-input" -> ConnectorInput(networks, Connector(target.connector))
      [] target.kind = "object-output" -> committed[target.connector]

(* A plausible defect: a signal that disappears is not recorded.            *)
ChangedSignalsPresent(target, reset, previous, current) ==
    LET signals == IF target.kind = "signal" THEN {target.signal} ELSE DOMAIN current
    IN  {s \in signals : reset \/ Carried(previous, s) # Carried(current, s)}

(* The signals whose values an event must give.                             *)
ChangedSignals(target, reset, previous, current) ==
    LET signals == IF target.kind = "signal" THEN {target.signal}
                   ELSE DOMAIN current \cup DOMAIN previous
    IN  {s \in signals : reset \/ Carried(previous, s) # Carried(current, s)}

KnownEvent(target, reset, previous, current, tick) ==
    [kind |-> "known", tick |-> tick, reset |-> reset,
     changes |-> [s \in ChangedSignals(target, reset, previous, current) |->
                     Carried(current, s)]]

(* The event of a target at a tick, or none: previous is <<>> before the    *)
(* registration, <<value>> after it.                                        *)
TraceEvents(target, previous, current, tick) ==
    LET reset == previous = <<>> \/ ~IsKnown(previous[1])
        bus == IF reset THEN ZeroBus ELSE previous[1].bus
        event == KnownEvent(target, reset, bus, current.bus, tick)
    IN  CASE previous = <<current>> -> <<>>
          [] previous # <<current>> /\ ~IsKnown(current) ->
               <<[kind |-> "unknown", tick |-> tick, origins |-> current.origins]>>
          [] OTHER -> IF reset \/ event.changes # <<>> THEN <<event>> ELSE <<>>

(* TraceStore.record: every registered target, then the last tick.          *)
Recorded(networks, committed, tick) ==
    LET value(t) == TargetValue(t, networks, committed)
    IN  [targets |-> trace.targets, endTick |-> tick,
         previous |-> [t \in trace.targets |-> value(t)],
         events |-> [t \in trace.targets |->
             trace.events[t] \o TraceEvents(t, <<trace.previous[t]>>, value(t), tick)]]

(* TraceReader: the value of a target at a tick, replayed from its events.  *)
ApplyEvent(value, event) ==
    IF event.kind = "unknown" THEN Unknown(event.origins)
    ELSE LET bus == IF event.reset \/ ~IsKnown(value) THEN ZeroBus ELSE value.bus
         IN  Known(Sparse(Override(event.changes, bus)))

Replayed(events, tick) ==
    LET last == Max({0} \cup {i \in DOMAIN events : events[i].tick <= tick})
    IN  FoldLeft(ApplyEvent, Known(ZeroBus), SubSeq(events, 1, last))

(* A document that the reader accepts.                                      *)
Readable(events, endTick) ==
    /\ events # <<>> /\ events[1].tick = 0
    /\ events[Len(events)].tick <= endTick
    /\ \A i \in 2 .. Len(events) : events[i - 1].tick < events[i].tick
    /\ \A i \in DOMAIN events :
          events[i].kind = "known" /\ ~events[i].reset =>
              i > 1 /\ events[i - 1].kind = "known"

-----------------------------------------------------------------------------
NoBoundary == [call |-> "none", callbacks |-> 0, next |-> 1, left |-> 0,
               previous |-> NoNetworks, contributions |-> NoNetworks, commits |-> <<>>,
               settled |-> 0]

Init ==
    /\ circuit \in Circuits
    /\ kernel = [tick |-> 0, networks |-> NoNetworks]
    /\ session = [drives |-> NoNetworks, pulses |-> NoNetworks,
                  scheduled |-> <<>>, finished |-> FALSE, failed |-> 0]
    /\ boundary = NoBoundary
    /\ objects = [adapted |-> <<>>, controls |-> <<>>,
                  current |-> NoNetworks, committed |-> NoNetworks]
    /\ trace = [targets |-> {}, previous |-> NoNetworks, events |-> NoNetworks,
                endTick |-> 0]
    /\ world = [networks |-> NoNetworks, sums |-> NoNetworks]
    /\ calls = 0
    /\ begun = [networks |-> NoNetworks, committed |-> NoNetworks, states |-> <<>>]
    /\ history = NoNetworks

Advancing == boundary.call # "none"
InCallback == Advancing /\ boundary.callbacks > 0
Idle == ~Advancing

(* assertMutationAllowed, where the test or a callback of it runs: the      *)
(* session has neither failed nor finished, and no device is evaluated.     *)
MutationAllowed ==
    /\ ~session.finished /\ session.failed = 0
    /\ Idle \/ InCallback

(* Bounds of a circuit: a test of it calls at most circuit.maxCalls         *)
(* operations and goes no further than tick circuit.maxTick.                *)
Called ==
    /\ MutationAllowed
    /\ calls < circuit.maxCalls
    /\ calls' = calls + 1

-----------------------------------------------------------------------------
Drive(network, bus) ==
    /\ Called
    /\ session' = [session EXCEPT !.drives = With(@, network, bus)]
    /\ UNCHANGED <<circuit, kernel, boundary, objects, trace, world, begun, history>>

Pulse(network, bus) ==
    /\ Called
    /\ session' = [session EXCEPT !.pulses = With(@, network, bus)]
    /\ UNCHANGED <<circuit, kernel, boundary, objects, trace, world, begun, history>>

Clear(network) ==
    /\ Called
    /\ session' = [session EXCEPT !.drives = Without(@, network),
                                  !.pulses = Without(@, network)]
    /\ UNCHANGED <<circuit, kernel, boundary, objects, trace, world, begun, history>>

(* A plausible defect: the boundary being evaluated may still be scheduled. *)
EarliestAfterCommitted == kernel.tick + 1

(* The first tick that a callback may still be scheduled for.               *)
Earliest == IF Advancing THEN kernel.tick + 2 ELSE kernel.tick + 1

At(tick) ==
    /\ Called
    /\ tick >= Earliest
    /\ session' = [session EXCEPT !.scheduled =
                       With(@, tick, ValueAt(@, tick, 0) + 1)]
    /\ UNCHANGED <<circuit, kernel, boundary, objects, trace, world, begun, history>>

(* A controller of a connector, which becomes its provider.                 *)
Provided(connector, control) ==
    [objects EXCEPT !.controls = Append(@, control),
                    !.current = With(@, connector.name, Len(objects.controls) + 1)]

(* mock() and the first output() of its controller: without an output the   *)
(* controller is no provider, and nothing depends on it.                    *)
Mock(connector, value) ==
    /\ Called
    /\ connector \in Connectors /\ connector.outputs # <<>>
    /\ objects' = Provided(connector, [kind |-> "mock", connector |-> connector.name,
                                       value |-> value, behaviour |-> "mock", state |-> 0])
    /\ UNCHANGED <<circuit, kernel, session, boundary, trace, world, begun, history>>

(* output() of a mock the test still holds, current or not.                 *)
MockOutput(control, value) ==
    /\ Called
    /\ objects.controls[control].kind = "mock"
    /\ objects' = [objects EXCEPT
           !.controls[control].value = value,
           !.current = With(@, objects.controls[control].connector, control)]
    /\ UNCHANGED <<circuit, kernel, session, boundary, trace, world, begun, history>>

Model(connector, behaviour) ==
    /\ Called
    /\ connector \in Connectors /\ connector.outputs # <<>>
    /\ objects' = Provided(connector, [kind |-> "model", connector |-> connector.name,
                                       value |-> Known(ZeroBus), behaviour |-> behaviour,
                                       state |-> 0])
    /\ UNCHANGED <<circuit, kernel, session, boundary, trace, world, begun, history>>

(* The controller of a provider that is no longer current clears nothing.   *)
ClearProvider(control) ==
    /\ Called
    /\ LET connector == objects.controls[control].connector
       IN  /\ ValueAt(objects.current, connector, None) = control
           /\ objects' = [objects EXCEPT !.current = Without(@, connector)]
    /\ UNCHANGED <<circuit, kernel, session, boundary, trace, world, begun, history>>

AdaptObject(object) ==
    /\ MutationAllowed
    /\ kernel.tick = 0
    /\ object \notin ToSet(objects.adapted)
    /\ objects' = [objects EXCEPT
           !.adapted = Append(@, object),
           !.committed = Override([c \in {d.name : d \in {e \in ToSet(object.connectors) :
                                                            e.outputs # <<>>}} |->
                                       Known(ZeroBus)], @)]
    /\ UNCHANGED <<circuit, kernel, session, boundary, trace, world, calls, begun, history>>

(* TraceStore.register: at tick 0, and again to no effect.                  *)
Trace(target) ==
    /\ Called
    /\ kernel.tick = 0
    /\ target \notin trace.targets
    /\ ~IsNetworkTarget(target) => \E c \in Connectors : c.name = target.connector
    /\ target.kind = "object-output" => target.connector \in DOMAIN objects.committed
    /\ LET value == TargetValue(target, kernel.networks, objects.committed)
       IN  /\ trace' = [trace EXCEPT
                  !.targets = @ \cup {target},
                  !.previous = With(@, target, value),
                  !.events = With(@, target, TraceEvents(target, <<>>, value, 0))]
           /\ history' = With(history, target, <<value>>)
    /\ UNCHANGED <<circuit, kernel, session, boundary, objects, world, begun>>

-----------------------------------------------------------------------------
(* The next boundary begins: its callbacks are taken off the schedule.      *)
Begin(call, left, tick, scheduled, networks, controls, committed) ==
    /\ boundary' = [NoBoundary EXCEPT
           !.call = call, !.left = left, !.previous = networks,
           !.callbacks = ValueAt(scheduled, tick + 1, 0)]
    /\ begun' = [networks |-> networks, committed |-> committed,
                 states |-> [i \in DOMAIN controls |-> controls[i].state]]

Advance(call, count) ==
    /\ Called /\ Idle
    /\ kernel.tick + count <= circuit.maxTick
    /\ Begin(call, count, kernel.tick, session.scheduled, kernel.networks,
             objects.controls, objects.committed)
    /\ session' = [session EXCEPT !.scheduled = Without(@, kernel.tick + 1)]
    /\ UNCHANGED <<circuit, kernel, objects, trace, world, history>>

(* tick(count) and run(count)                                               *)
Tick(count) == Advance("tick", count)

Settle(maxTicks) == Advance("settle", maxTicks)

CallbackReturns ==
    /\ InCallback
    /\ boundary' = [boundary EXCEPT !.callbacks = @ - 1]
    /\ UNCHANGED <<circuit, kernel, session, objects, trace, world, calls, begun, history>>

(* The commits of a boundary, in the order of evaluation; a model that is   *)
(* no longer the provider of its connector keeps its state.                 *)
Commit(state, commit) ==
    [state EXCEPT
        !.controls = [i \in DOMAIN @ |->
            IF i = commit.provider /\ ValueAt(state.current, commit.connector, None) = i
            THEN [@[i] EXCEPT !.state = commit.state] ELSE @[i]],
        !.committed = With(@, commit.connector, commit.output)]

Committed(state, commits) == FoldLeft(Commit, state, commits)

(* A plausible defect: a boundary that fails commits what it has evaluated. *)
FailBoundaryCommitting ==
    /\ boundary' = NoBoundary
    /\ session' = [session EXCEPT !.failed = kernel.tick + 1]
    /\ objects' = Committed(objects, boundary.commits)
    /\ world' = [world EXCEPT !.sums = NoNetworks]
    /\ UNCHANGED <<circuit, kernel, trace, calls, begun, history>>

(* An exception that escapes a callback or a participant fails the session  *)
(* for good; what callbacks did to drives and mocks stays done.             *)
FailBoundary ==
    /\ boundary' = NoBoundary
    /\ session' = [session EXCEPT !.failed = kernel.tick + 1]
    /\ world' = [world EXCEPT !.sums = NoNetworks]
    /\ UNCHANGED <<circuit, kernel, objects, trace, calls, begun, history>>

CallbackThrows == InCallback /\ FailBoundary

Evaluating == Advancing /\ boundary.callbacks = 0
EvaluatedDevice == Devices[boundary.next]

Commits(device) ==
    IF device.kind # "object" THEN <<>>
    ELSE [i \in DOMAIN device.connectors |->
             LET step == ConnectorStep(kernel.networks, device.connectors[i])
             IN  [connector |-> device.connectors[i].name,
                  provider |-> step.provider, state |-> step.state,
                  output |-> CommittedOutput(device, step.output)]]

UnknownConnectors(device) ==
    IF device.kind # "object" THEN {}
    ELSE {c.name : c \in {d \in ToSet(device.connectors) :
                             ConnectorStep(kernel.networks, d).output.kind = "unknown"}}

EvaluateDevice ==
    /\ Evaluating
    /\ boundary.next <= Len(Devices)
    /\ ~Throws(EvaluatedDevice)
    /\ boundary' = [boundary EXCEPT
           !.next = @ + 1,
           !.contributions = Contributed(@, EvaluatedDevice),
           !.commits = @ \o Commits(EvaluatedDevice)]
    /\ \E chosen \in [UnknownConnectors(EvaluatedDevice) -> WorldBuses] :
          world' = [world EXCEPT !.sums = ConcreteStep(@, EvaluatedDevice, chosen)]
    /\ UNCHANGED <<circuit, kernel, session, objects, trace, calls, begun, history>>

DeviceThrows ==
    /\ Evaluating
    /\ boundary.next <= Len(Devices)
    /\ Throws(EvaluatedDevice)
    /\ FailBoundary

(* A plausible defect: only which networks carry something is compared.     *)
SameNetworks(left, right) == DOMAIN left = DOMAIN right

(* snapshotKey: two snapshots carry the same, origins included.             *)
SameSnapshot(left, right) == left = right

(* The call goes on with the next boundary, or returns: tick() when it has  *)
(* counted down, settle() when two snapshots in a row are equal, or with an *)
(* exception when its bound is exhausted.                                   *)
GoesOn(networks) ==
    /\ boundary.left > 1
    /\ boundary.call = "settle" => ~SameSnapshot(boundary.previous, networks)

(* settle() returned the snapshot, of a boundary without a pulse: `settled` *)
(* keeps after how many operations of the test it did.                      *)
SettledNow(networks) ==
    /\ boundary.call = "settle" /\ SameSnapshot(boundary.previous, networks)
    /\ session.pulses = NoNetworks

Continue(tick, networks, after) ==
    IF GoesOn(networks)
    THEN /\ Begin(boundary.call, boundary.left - 1, tick, session.scheduled, networks,
                  after.controls, after.committed)
         /\ session' = [session EXCEPT !.pulses = NoNetworks,
                                       !.scheduled = Without(@, tick + 1)]
    ELSE /\ boundary' = [NoBoundary EXCEPT !.settled =
                            IF SettledNow(networks) THEN calls ELSE 0]
         /\ session' = [session EXCEPT !.pulses = NoNetworks]
         /\ UNCHANGED begun

CommitAll(tick, networks, after) ==
    /\ kernel' = [tick |-> tick, networks |-> networks]
    /\ objects' = after
    /\ trace' = Recorded(networks, after.committed, tick)
    /\ history' = [t \in DOMAIN history |->
                      Append(history[t], TargetValue(t, networks, after.committed))]
    /\ Continue(tick, networks, after)

CommitBoundary ==
    /\ Evaluating
    /\ boundary.next > Len(Devices)
    /\ CommitAll(kernel.tick + 1, Aggregated(boundary.contributions),
                 Committed(objects, boundary.commits))
    /\ world' = [networks |-> world.sums, sums |-> NoNetworks]
    /\ UNCHANGED <<circuit, calls>>

Finish ==
    /\ Idle /\ ~session.finished
    /\ session' = [session EXCEPT !.finished = TRUE]
    /\ UNCHANGED <<circuit, kernel, boundary, objects, trace, world, calls, begun, history>>

-----------------------------------------------------------------------------
Stimulate ==
    \E network \in Networks :
        \/ \E bus \in DrivenBuses : Drive(network, bus) \/ Pulse(network, bus)
        \/ Clear(network)

Provide ==
    \E connector \in Connectors :
        \/ \E value \in MockedValues : Mock(connector, value)
        \/ \E behaviour \in Behaviours : Model(connector, behaviour)

Control ==
    \E control \in DOMAIN objects.controls :
        \/ \E value \in MockedValues : MockOutput(control, value)
        \/ ClearProvider(control)

Observe == \E target \in Targets : Trace(target)

Adapt == \E i \in DOMAIN circuit.objects : AdaptObject(circuit.objects[i])

Schedule == \E tick \in 1 .. circuit.maxTick : At(tick)

Advances ==
    \/ \E count \in 1 .. circuit.maxTick : Tick(count)
    \/ \E maxTicks \in Settles : Settle(maxTicks)

Boundary ==
    CallbackReturns \/ CallbackThrows \/ EvaluateDevice \/ DeviceThrows \/ CommitBoundary

Next ==
    Stimulate \/ Provide \/ Control \/ Observe \/ Adapt \/ Schedule \/ Advances \/ Boundary \/ Finish

Spec == Init /\ [][Next]_vars
=============================================================================
