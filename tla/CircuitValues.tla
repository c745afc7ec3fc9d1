---------------------------- MODULE CircuitValues ----------------------------
(***************************************************************************)
(* The values of the simulator: circuit integers that wrap, sparse buses   *)
(* that hold no zero, and buses that may be Unknown and say why.           *)
(***************************************************************************)
EXTENDS Integers, SequencesExt

CONSTANTS Signals,  \* signal ids, numbered in the order of compareSignalIds
          Width     \* bits of a circuit integer, 32 in the code

ASSUME SignalsAssumption == Signals \subseteq Nat /\ IsFiniteSet(Signals)
(* A power of two: the shifts of JavaScript mask their count.               *)
ASSUME WidthAssumption == Width \in {2, 4, 8, 16, 32}

Half == 2^(Width - 1)
CircuitInteger == -Half .. Half - 1

(* `value | 0`                                                              *)
Int32(value) == ((value + Half) % (2 * Half)) - Half

AddInt32(left, right) == Int32(left + right)
SubtractInt32(left, right) == Int32(left - right)
MultiplyInt32(left, right) == Int32(left * right)

Magnitude(value) == IF value < 0 THEN -value ELSE value
Truncated(left, right) ==
    LET quotient == Magnitude(left) \div Magnitude(right)
    IN  IF (left < 0) = (right < 0) THEN quotient ELSE -quotient

DivideInt32(left, right) == IF right = 0 THEN 0 ELSE Int32(Truncated(left, right))
ModuloInt32(left, right) ==
    IF right = 0 THEN 0 ELSE left - right * Truncated(left, right)

(* Square and multiply, wrapping at every product.                          *)
Loops == [factor : Int, remaining : Nat, result : Int]

Power[loop \in Loops] ==
    IF loop.remaining = 0 THEN loop.result
    ELSE Power[[factor |-> MultiplyInt32(loop.factor, loop.factor),
                remaining |-> loop.remaining \div 2,
                result |-> IF loop.remaining % 2 = 1
                           THEN MultiplyInt32(loop.result, loop.factor)
                           ELSE loop.result]]

PowerInt32(base, exponent) ==
    IF exponent >= 0
    THEN Power[[factor |-> base, remaining |-> exponent, result |-> 1]]
    ELSE CASE base = 1 -> 1
           [] base = -1 -> IF exponent % 2 = 0 THEN 1 ELSE -1
           [] OTHER -> 0

(* The bits of the two's complement representation.                         *)
Bits(value) == {i \in 0 .. Width - 1 : (value \div 2^i) % 2 = 1}
FromBits(bits) == Int32(MapThenSumSet(LAMBDA i : 2^i, bits))

-----------------------------------------------------------------------------
(* What Map.set leaves: f where it has a value, g elsewhere.                *)
Override(f, g) ==
    [k \in DOMAIN f \cup DOMAIN g |-> IF k \in DOMAIN f THEN f[k] ELSE g[k]]

(* A SparseBus: the signals that carry something, and what they carry.      *)
Bus == UNION {[S -> CircuitInteger \ {0}] : S \in SUBSET Signals}

Sparse(values) == [s \in {x \in DOMAIN values : values[x] # 0} |-> values[s]]
ZeroBus == Sparse([s \in {} |-> 0])

Carried(bus, signal) == IF signal \in DOMAIN bus THEN bus[signal] ELSE 0

(* SparseBus.set: a zero deletes the entry.                                 *)
BusSet(bus, signal, value) == Sparse(Override([s \in {signal} |-> Int32(value)], bus))

Merge(bus, other) ==
    Sparse([s \in DOMAIN bus \cup DOMAIN other |->
               AddInt32(Carried(bus, s), Carried(other, s))])

(* A bus as SparseBus keeps it.                                             *)
IsSparse(bus) == bus = Sparse(bus)

AggregateBuses(buses) == FoldLeft(Merge, ZeroBus, buses)

-----------------------------------------------------------------------------
(* A BusValue: Known with its bus, or Unknown with its origins, one for     *)
(* each id of a source nobody modelled: the devices on the way from it and  *)
(* its description, both of which diagnostics print.                        *)
Known(bus) == [kind |-> "known", bus |-> bus]
Unknown(origins) == [kind |-> "unknown", origins |-> origins]
IsKnown(value) == value.kind = "known"

(* The origin of an unknown: the ids of the devices it came through, and    *)
(* the descriptions in their order.                                         *)
Origin == [path : Seq(Nat), description : Nat]

IsBusValue(value) ==
    IF IsKnown(value) THEN value = Known(value.bus) /\ IsSparse(value.bus)
                      ELSE value = Unknown(value.origins)

PathBefore(left, right) ==
    \/ Len(left) < Len(right)
    \/ /\ Len(left) = Len(right)
       /\ \E i \in DOMAIN left :
             left[i] < right[i] /\ SubSeq(left, 1, i - 1) = SubSeq(right, 1, i - 1)

OriginBefore(left, right) ==
    \/ PathBefore(left.path, right.path)
    \/ left.path = right.path /\ left.description < right.description

(* canonicalOrigins: of the origins of one id the least is kept.            *)
Canonical(byId, origins) ==
    [id \in DOMAIN byId \cup DOMAIN origins |->
        IF /\ id \in DOMAIN origins
           /\ id \in DOMAIN byId => OriginBefore(origins[id], byId[id])
        THEN origins[id]
        ELSE byId[id]]

ThroughDevice(value, device) ==
    IF IsKnown(value) THEN value
    ELSE Unknown([id \in DOMAIN value.origins |->
                     [value.origins[id] EXCEPT !.path = Append(@, device)]])

WithOrigins(byId, value) == IF IsKnown(value) THEN byId ELSE Canonical(byId, value.origins)

AggregateValues(values) ==
    IF \A i \in DOMAIN values : IsKnown(values[i])
    THEN Known(AggregateBuses([i \in DOMAIN values |-> values[i].bus]))
    ELSE Unknown(FoldLeft(WithOrigins, <<>>, values))
=============================================================================
