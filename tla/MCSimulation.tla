----------------------------- MODULE MCSimulation -----------------------------
(***************************************************************************)
(* Circuits that small sessions are created for: the networks are 1 to 3,  *)
(* the signals 1 and 2; devices, objects and connectors have ids of their  *)
(* own.                                                                    *)
(***************************************************************************)
EXTENDS SimulationProperties

Number(value) == [kind |-> "constant", value |-> value]
Of(signal, networks) == [kind |-> "signal", signal |-> signal, networks |-> networks]
All(kind, networks) == [kind |-> kind, networks |-> networks]
Is(left, comparator, right) ==
    [kind |-> "compare", left |-> left, comparator |-> comparator, right |-> right]
Group(kind, conditions) == [kind |-> kind, conditions |-> conditions]

Copy(kind, signal, networks) ==
    [mode |-> "copy", kind |-> kind, signal |-> signal, networks |-> networks, value |-> 0]
Put(kind, signal, networks) ==
    [mode |-> "constant", kind |-> kind, signal |-> signal, networks |-> networks,
     value |-> 1]

Device(kind, id, red, green, outputs, config) ==
    [kind |-> kind, id |-> id, red |-> red, green |-> green, outputs |-> outputs,
     config |-> config]

Decider(id, red, green, outputs, condition, then, else) ==
    Device("decider", id, red, green, outputs,
           [condition |-> condition, outputs |-> then, elseOutputs |-> else])

Unmodelled(name) == Unknown(name :> [path |-> <<>>, description |-> 0])

Port(name, inputs, outputs, fallback) ==
    [name |-> name, inputs |-> inputs, outputs |-> outputs, fallback |-> fallback]

Circuit(combinators, objects_, maxCalls, maxTick) ==
    [combinators |-> combinators, objects |-> objects_,
     maxCalls |-> maxCalls, maxTick |-> maxTick]

-----------------------------------------------------------------------------
(* Every shape of condition and of output row, on a red wire that the test  *)
(* drives and a green wire that an unmodelled object feeds.                 *)
Chest == [id |-> 20, connectors |-> <<Port(30, <<1>>, <<2>>, Unmodelled(30))>>]

Red == Is(Of(1, {"red"}), ">", Number(0))
Green == Is(Of(1, {"green"}), ">", Number(0))
GreenOrRed == Group("or", <<Green, Red>>)

Shapes ==
    {Group("or", <<Red, Green>>), Group("and", <<Green, Red>>),
     Group("and", <<GreenOrRed, Red>>),
     Is(All("anything", {"red"}), "=", Of(2, {"red"})),
     Is(All("everything", {"red", "green"}), ">=", Number(1)),
     Is(All("each", {"red"}), "!=", Of(2, {"red"})),
     Is(All("each", {"red", "green"}), "<", Number(2))}

MCConditions == Shapes \cup {GreenOrRed, Red, Green}

Rows(each) ==
    {Copy("signal", 1, {"red"}), Copy("signal", 2, {"green"}), Put("signal", 2, {"green"}),
     Put("anything", 1, {"green"}), Copy("anything", 1, {"red", "green"})}
        \cup (IF each THEN {Copy("each", 1, {"red"}), Put("each", 1, {"green"})}
              ELSE {Put("everything", 1, {"green"}), Copy("everything", 1, {"red"})})

Deciders ==
    {Circuit(<<Decider(10, 1, 2, <<3>>, c, <<row>>, else)>>, <<Chest>>, 2, 2) :
        <<c, row, else>> \in
            {<<x, r, e>> : x \in Shapes, r \in Rows(TRUE) \cup Rows(FALSE),
                           e \in {<<>>, <<Put("signal", 1, {})>>,
                                  <<Copy("signal", 1, {"green"})>>}}}

ValidDeciders ==
    {c \in Deciders :
        LET config == c.combinators[1].config
        IN  config.outputs[1] \in Rows(UsesEach(config.condition))}

(* Two ways of the same length from one unmodelled object to network 3.     *)
TwoWays ==
    LET through(id) == Device("arithmetic", id, 2, None, <<3>>,
                              [left |-> All("each", {"red"}), operation |-> "add",
                               right |-> Number(0), output |-> [kind |-> "each"]])
    IN  Circuit(<<through(11), through(12)>>, <<Chest>>, 2, 3)

(* A loop that alternates between 0 and 1.                                  *)
Oscillator ==
    Circuit(<<Device("arithmetic", 13, 1, None, <<1>>,
                     [left |-> Number(1), operation |-> "subtract",
                      right |-> Of(1, {"red"}), output |-> [kind |-> "signal", signal |-> 1]])>>,
            <<>>, 3, 3)

(* A selector behind a constant the model does not support.                 *)
Selection ==
    Circuit(<<Device("constant", 14, None, None, <<2>>,
                     [bus |-> (1 :> 1), supported |-> FALSE]),
              Device("constant", 15, None, None, <<1>>,
                     [bus |-> (1 :> 1) @@ (2 :> -1), supported |-> TRUE]),
              Device("selector", 16, 1, None, <<3>>,
                     [operation |-> "select", selectMax |-> TRUE, index |-> Of(2, {"red"})])>>,
            <<>>, 2, 3)

(* Two objects, for mocks and models; one connector only reads.             *)
Machines ==
    Circuit(<<>>,
            <<[id |-> 21, connectors |-> <<Port(31, <<1>>, <<2>>, Known(ZeroBus)),
                                           Port(32, <<2, 1>>, <<3>>, Unmodelled(32))>>],
              [id |-> 22, connectors |-> <<Port(33, <<3>>, <<1>>, Known(ZeroBus)),
                                           Port(34, <<3>>, <<>>, NoOutput)>>]>>,
            3, 3)

MCCircuits == ValidDeciders \cup {TwoWays, Oscillator, Selection, Machines}

MCBuses == {(1 :> 1), (1 :> 1) @@ (2 :> -2)}
MCMockedValues == {Known(bus) : bus \in MCBuses} \cup {Unmodelled(40)}
MCWorldBuses == {ZeroBus, (1 :> 1), (2 :> -2)}

MCTargets ==
    {[kind |-> "network", network |-> 1], [kind |-> "signal", network |-> 3, signal |-> 1],
     [kind |-> "object-input", connector |-> 32], [kind |-> "object-output", connector |-> 31]}
=============================================================================
