------------------------- MODULE SimulationProperties -------------------------
(* What TestSession must satisfy.                                           *)
EXTENDS TestSession

(* powerInt32 squares and multiplies; it agrees with the repeated product.  *)
Product[base \in Int, exponent \in Nat] ==
    IF exponent = 0 THEN 1 ELSE MultiplyInt32(Product[base, exponent - 1], base)

ASSUME PowerIsProduct ==
    \A base \in CircuitInteger, exponent \in 0 .. Half - 1 :
        PowerInt32(base, exponent) = Product[base, exponent]

(* Quotient and remainder give the dividend back, the least integer too.    *)
ASSUME DivisionIsExact ==
    \A left \in CircuitInteger, right \in CircuitInteger \ {0} :
        Int32(DivideInt32(left, right) * right + ModuloInt32(left, right)) = left

-----------------------------------------------------------------------------
(* What the session calls Known is what the circuit really carries,         *)
(* whatever the objects nobody modelled put out ("the available model       *)
(* cannot determine the exact bus" is the only meaning of Unknown).         *)
KnownIsTrue ==
    \A n \in Networks :
        LET value == ReadNetwork(kernel.networks, n)
        IN  IsKnown(value) => value.bus = ValueAt(world.networks, n, ZeroBus)

(* A boundary without its callbacks, with the devices in a given order.     *)
Stepped(order) == Aggregated(FoldLeft(Contributed, NoNetworks, order))

(* The order in which devices were added decides nothing: not a value, and  *)
(* not the origins and paths a diagnostic prints.                           *)
StepIgnoresOrder ==
    Evaluating /\ boundary.next = 1 => Stepped(Reverse(Devices)) = Stepped(Devices)

(* A saved trace is accepted by the reader, which gives every target back   *)
(* at every committed tick, through Unknown and through signals that come   *)
(* and go.                                                                  *)
Projected(target, value) ==
    IF target.kind = "signal" /\ IsKnown(value)
    THEN Known(Sparse([s \in {target.signal} |-> Carried(value.bus, s)]))
    ELSE value

TraceReplays ==
    \A target \in trace.targets :
        /\ Readable(trace.events[target], trace.endTick)
        /\ \A tick \in 0 .. trace.endTick :
              Replayed(trace.events[target], tick)
                  = Projected(target, history[target][tick + 1])

(* A failed session shows what it showed when the boundary began: not one   *)
(* output, model state or event of the boundary that threw.                 *)
FailedBoundaryIsInvisible ==
    session.failed # 0 =>
        /\ kernel = [tick |-> session.failed - 1, networks |-> begun.networks]
        /\ trace.endTick = kernel.tick
        /\ \A target \in trace.targets : \A i \in DOMAIN trace.events[target] :
              trace.events[target][i].tick <= kernel.tick
        /\ \A c \in DOMAIN begun.committed : objects.committed[c] = begun.committed[c]
        /\ \A i \in DOMAIN begun.states : objects.controls[i].state = begun.states[i]

(* No callback is left behind: what is still scheduled is for a boundary    *)
(* that has not begun.                                                      *)
NoCallbackIsMissed ==
    \A tick \in DOMAIN session.scheduled :
        tick > (IF Advancing THEN kernel.tick + 1 ELSE kernel.tick)

(* What settle() returns is a fixed point: with no operation since, one     *)
(* more boundary would change nothing.  Not promised while a model keeps    *)
(* state of its own, or when the last boundary still had a pulse in it.     *)
SettledIsFixed ==
    /\ Idle /\ boundary.settled = calls /\ calls > 0
    /\ \A c \in DOMAIN objects.current : objects.controls[objects.current[c]].kind = "mock"
    => Stepped(Devices) = kernel.networks
=============================================================================
