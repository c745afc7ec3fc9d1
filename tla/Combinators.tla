----------------------------- MODULE Combinators -----------------------------
(***************************************************************************)
(* What a combinator puts on its output networks for what it reads on its  *)
(* red and green wires: once on buses that are all known, as the plain     *)
(* kernel runs it, and once on bus values, as a test session runs it.      *)
(***************************************************************************)
EXTENDS CircuitValues

CONSTANT Conditions  \* of the deciders, and the conditions these are made of

IsGroup(condition) == condition.kind \in {"and", "or"}

Children(condition) == IF IsGroup(condition) THEN Range(condition.conditions) ELSE {}

(* A condition is a finite tree: among any conditions there is one that is  *)
(* made of none of the others.                                              *)
ASSUME ConditionsAssumption ==
    /\ \A condition \in Conditions :
          /\ IsGroup(condition) => condition.conditions \in Seq(Conditions)
          /\ ~IsGroup(condition) =>
                /\ condition.comparator \in {">", "<", "=", ">=", "<=", "!="}
                /\ condition.left.kind \in {"signal", "each", "anything", "everything"}
    /\ \A S \in SUBSET Conditions :
          S # {} => \E condition \in S : Children(condition) \cap S = {}

(* The buses of the wires that an operand reads, added.                     *)
SelectInput(input, networks) ==
    Merge(IF "red" \in networks THEN input.red ELSE ZeroBus,
          IF "green" \in networks THEN input.green ELSE ZeroBus)

Scalar(operand, input) ==
    IF operand.kind = "constant" THEN Int32(operand.value)
    ELSE Carried(SelectInput(input, operand.networks), operand.signal)

-----------------------------------------------------------------------------
(* Conditions of a decider: comparisons under AND and OR.                   *)
Compare(left, comparator, right) ==
    CASE comparator = ">" -> left > right
      [] comparator = "<" -> left < right
      [] comparator = "=" -> left = right
      [] comparator = ">=" -> left >= right
      [] comparator = "<=" -> left <= right
      [] comparator = "!=" -> left # right

Comparisons[condition \in Conditions] ==
    IF ~IsGroup(condition) THEN {condition}
    ELSE UNION {Comparisons[c] : c \in Children(condition)}

UsesEach(condition) == \E c \in Comparisons[condition] : c.left.kind = "each"

(* Anything and Everything range over the signals of their wires except the *)
(* one they are compared with.                                              *)
QuantifierCandidates(condition, bus) ==
    {s \in DOMAIN bus : condition.right.kind = "signal" => s # condition.right.signal}

Quantified(condition, input, bus) ==
    LET holds(s) == Compare(Carried(bus, s), condition.comparator,
                            Scalar(condition.right, input))
        candidates == QuantifierCandidates(condition, bus)
    IN  IF condition.left.kind = "anything" THEN \E s \in candidates : holds(s)
                                            ELSE \A s \in candidates : holds(s)

EvaluateComparison(condition, input, each) ==
    LET left == condition.left
        bus == SelectInput(input, left.networks)
        compared(s) == Compare(Carried(bus, s), condition.comparator,
                               Scalar(condition.right, input))
    IN  CASE left.kind = "signal" -> compared(left.signal)
          [] left.kind = "each" -> compared(each)
          [] OTHER -> Quantified(condition, input, bus)

EvaluateCondition(condition, input, each) ==
    LET holds[c \in Conditions] ==
            CASE c.kind = "and" -> \A child \in Children(c) : holds[child]
              [] c.kind = "or" -> \E child \in Children(c) : holds[child]
              [] OTHER -> EvaluateComparison(c, input, each)
    IN  holds[condition]

EachCandidates(condition, input) ==
    UNION {DOMAIN SelectInput(input, c.left.networks) :
              c \in {d \in Comparisons[condition] : d.left.kind = "each"}}

-----------------------------------------------------------------------------
(* What one output row of a decider adds; with Each in the condition it is  *)
(* added once for every signal that chose the row's branch.                 *)
OutputValue(output, carried) ==
    IF output.mode = "constant" THEN Int32(output.value) ELSE carried

Emitted(output, input, eachMode, active) ==
    LET from == SelectInput(input, output.networks)
        value(s) == OutputValue(output, Carried(from, s))
        present == IF eachMode THEN active \cap DOMAIN from ELSE DOMAIN from
    IN  CASE output.kind = "signal" ->
               BusSet(ZeroBus, output.signal,
                      IF eachMode THEN SumFunction([s \in active |-> value(s)])
                                  ELSE value(output.signal))
          [] output.kind = "everything" -> Sparse([s \in DOMAIN from |-> value(s)])
          [] output.kind = "anything" ->
               IF present = {} THEN ZeroBus
               ELSE LET first == Min(present) IN BusSet(ZeroBus, first, value(first))
          [] output.kind = "each" -> Sparse([s \in active |-> value(s)])

EmitOutputs(outputs, input, eachMode, active) ==
    AggregateBuses([i \in DOMAIN outputs |-> Emitted(outputs[i], input, eachMode, active)])

EvaluateDecider(config, input) ==
    LET condition == config.condition
        candidates == EachCandidates(condition, input)
        passed == {s \in candidates : EvaluateCondition(condition, input, s)}
    IN  IF UsesEach(condition)
        THEN Merge(EmitOutputs(config.outputs, input, TRUE, passed),
                   EmitOutputs(config.elseOutputs, input, TRUE, candidates \ passed))
        ELSE EmitOutputs(IF EvaluateCondition(condition, input, 0)
                         THEN config.outputs ELSE config.elseOutputs,
                         input, FALSE, {})

-----------------------------------------------------------------------------
Operations == {"add", "subtract", "multiply", "divide", "modulo", "power", "left-shift",
               "right-shift", "bit-and", "bit-or", "bit-xor"}

ArithmeticOperation(operation, left, right) ==
    CASE operation = "add" -> AddInt32(left, right)
      [] operation = "subtract" -> SubtractInt32(left, right)
      [] operation = "multiply" -> MultiplyInt32(left, right)
      [] operation = "divide" -> DivideInt32(left, right)
      [] operation = "modulo" -> ModuloInt32(left, right)
      [] operation = "power" -> PowerInt32(left, right)
      [] operation = "left-shift" -> Int32(left * 2^(right % Width))
      [] operation = "right-shift" -> left \div 2^(right % Width)
      [] operation = "bit-and" -> FromBits(Bits(left) \cap Bits(right))
      [] operation = "bit-or" -> FromBits(Bits(left) \cup Bits(right))
      [] operation = "bit-xor" ->
           FromBits((Bits(left) \cup Bits(right)) \ (Bits(left) \cap Bits(right)))

ArithmeticOperand(operand, input, each) ==
    IF operand.kind = "each" THEN Carried(SelectInput(input, operand.networks), each)
                             ELSE Scalar(operand, input)

EvaluateArithmetic(config, input) ==
    LET result(each) == ArithmeticOperation(config.operation,
                            ArithmeticOperand(config.left, input, each),
                            ArithmeticOperand(config.right, input, each))
        eachOperands == {o \in {config.left, config.right} : o.kind = "each"}
        candidates == UNION {DOMAIN SelectInput(input, o.networks) : o \in eachOperands}
    IN  CASE eachOperands = {} -> BusSet(ZeroBus, config.output.signal, result(0))
          [] eachOperands # {} /\ config.output.kind = "each" ->
               Sparse([s \in candidates |-> result(s)])
          [] OTHER -> BusSet(ZeroBus, config.output.signal,
                             SumFunction([s \in candidates |-> result(s)]))

-----------------------------------------------------------------------------
(* The rows of a selector, in the order it numbers them.                    *)
SelectorRows(config, bus) ==
    SortSeq(SetToSeq(DOMAIN bus),
            LAMBDA s, t : IF bus[s] = bus[t] THEN s < t
                          ELSE IF config.selectMax THEN bus[s] > bus[t]
                                                   ELSE bus[s] < bus[t])

EvaluateSelector(config, input) ==
    LET bus == Merge(input.red, input.green)
        rows == SelectorRows(config, bus)
        index == IF config.index.kind = "constant" THEN Int32(config.index.value)
                 ELSE Carried(bus, config.index.signal)
    IN  CASE config.operation = "count" ->
               BusSet(ZeroBus, config.output, Cardinality(DOMAIN bus))
          [] config.operation = "select" /\ index \in 0 .. Len(rows) - 1 ->
               BusSet(ZeroBus, rows[index + 1], Carried(bus, rows[index + 1]))
          [] OTHER -> ZeroBus

(* The device on known buses; of a constant combinator whose configuration  *)
(* the model does not support, the plain kernel knows the bus all the same. *)
ConcreteOutput(device, input) ==
    CASE device.kind = "decider" -> EvaluateDecider(device.config, input)
      [] device.kind = "arithmetic" -> EvaluateArithmetic(device.config, input)
      [] device.kind = "selector" -> EvaluateSelector(device.config, input)
      [] device.kind = "constant" -> device.config.bus

-----------------------------------------------------------------------------
(* The same devices on bus values.  An Unknown wire counts only when it can *)
(* decide the output.                                                       *)
SelectedValues(input, networks) ==
    (IF "red" \in networks THEN <<input.red>> ELSE <<>>)
        \o (IF "green" \in networks THEN <<input.green>> ELSE <<>>)

Dependency(input, networks) == AggregateValues(SelectedValues(input, networks))

KnownBus(value) == IF IsKnown(value) THEN value.bus ELSE ZeroBus
ConcreteInput(input) == [red |-> KnownBus(input.red), green |-> KnownBus(input.green)]

OperandNetworks(operand) == IF operand.kind = "constant" THEN {} ELSE operand.networks

ConditionNetworks(condition) ==
    UNION {OperandNetworks(c.left) \cup OperandNetworks(c.right) :
              c \in Comparisons[condition]}

(* A plausible defect: a constant output is taken to read nothing.          *)
CopiedNetworks(outputs) ==
    UNION {outputs[i].networks : i \in {j \in DOMAIN outputs : outputs[j].mode = "copy"}}

(* What the output rows read: the values they copy, and, for Anything and   *)
(* Everything, which signals there are.                                     *)
OutputNetworks(outputs) ==
    UNION {outputs[i].networks :
              i \in {j \in DOMAIN outputs :
                        \/ outputs[j].mode = "copy"
                        \/ outputs[j].kind \in {"anything", "everything"}}}

(* A known FALSE decides an AND, a known TRUE an OR.                        *)
Decides(kind, result) == IsKnown(result) /\ result.value = (kind = "or")

KnownCondition(value) == [kind |-> "known", value |-> value]

(* What a group makes of the results of its conditions.                     *)
GroupResult(kind, results) ==
    IF \E i \in DOMAIN results : Decides(kind, results[i])
    THEN KnownCondition(kind = "or")
    ELSE IF \E i \in DOMAIN results : ~IsKnown(results[i]) THEN AggregateValues(results)
                                                          ELSE KnownCondition(kind = "and")

ComparisonResult(condition, input) ==
    LET dependency == Dependency(input, ConditionNetworks(condition))
    IN  IF ~IsKnown(dependency) THEN dependency
        ELSE KnownCondition(EvaluateComparison(condition, ConcreteInput(input), 0))

ValueCondition(condition, input) ==
    LET result[c \in Conditions] ==
            IF IsGroup(c)
            THEN GroupResult(c.kind, [i \in DOMAIN c.conditions |-> result[c.conditions[i]]])
            ELSE ComparisonResult(c, input)
    IN  result[condition]

(* What the output of a decider depends on.  With Each the branch may       *)
(* differ from signal to signal, so both branches count.                    *)
DeciderDependency(config, input) ==
    LET condition == ValueCondition(config.condition, input)
    IN  IF UsesEach(config.condition)
        THEN Dependency(input, ConditionNetworks(config.condition)
                                   \cup OutputNetworks(config.outputs)
                                   \cup OutputNetworks(config.elseOutputs))
        ELSE IF ~IsKnown(condition) THEN condition
             ELSE Dependency(input, OutputNetworks(IF condition.value THEN config.outputs
                                                   ELSE config.elseOutputs))

ValueDependency(device, input) ==
    CASE device.kind = "decider" -> DeciderDependency(device.config, input)
      [] device.kind = "arithmetic" ->
           Dependency(input, OperandNetworks(device.config.left)
                                 \cup OperandNetworks(device.config.right))
      [] device.kind = "selector" -> Dependency(input, {"red", "green"})
      [] device.kind = "constant" ->
           IF device.config.supported THEN Known(ZeroBus)
           ELSE Unknown([id \in {device.id} |-> [path |-> <<>>, description |-> 0]])

ValueOutput(device, input) ==
    LET dependency == ValueDependency(device, input)
    IN  IF IsKnown(dependency) THEN Known(ConcreteOutput(device, ConcreteInput(input)))
        ELSE IF device.kind = "constant" THEN dependency
                                         ELSE ThroughDevice(dependency, device.id)
=============================================================================
