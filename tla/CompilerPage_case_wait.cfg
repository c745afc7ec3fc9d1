SPECIFICATION Spec
CONSTANTS
    Inputs <- ConvertingAndTesting
    Faults <- TimingOut
    MaxRevision = 3
    MaxInputEdits = 0
    MaxWorkers = 2
    MaxTestRevision = 5
    Cases = 1
INVARIANTS
    WaitingCaseIsBounded
CHECK_DEADLOCK FALSE
