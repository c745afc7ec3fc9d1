-------------------------- MODULE MCPrototypeProfile --------------------------
(* Instances of PrototypeProfile.                                           *)
EXTENDS PrototypeProfileProperties

CONSTANTS good, bad

TwoFiles == {good, bad}
OnlyGood == {good}

AnyVisit == {Builtin, None, good}

Everything == {"edit", "choose", "malformed", "disable", "reload"}

AllFaults == {"crash", "boot", "timeout", "read", "save", "fetch", "missing"}
=============================================================================
