--------------------------- MODULE MCCompilerPage ---------------------------
(* Instances of CompilerPage: each set of inputs and faults asks one        *)
(* question, and leaves the rest of the user's keyboard alone.              *)
EXTENDS CompilerPageProperties

EditingAndConverting == {"edit", "bind", "convert", "apply", "input"}
Testing == {"edit", "bind", "tests"}
ConvertingAndTesting == {"convert", "bind", "tests"}
AnyOperation == {"edit", "bind", "convert", "tests"}

LosingWorkers == {"crash", "boot", "timeout"}
Crashing == {"crash", "boot", "test crash", "test timeout"}
AnyLoss == {"crash", "timeout", "test crash"}
TimingOut == {"timeout"}
=============================================================================
