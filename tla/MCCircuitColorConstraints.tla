----------------------- MODULE MCCircuitColorConstraints -----------------------
(* Instance of CircuitColorConstraints.                                     *)
EXTENDS CircuitColorConstraintsProperties
=============================================================================
