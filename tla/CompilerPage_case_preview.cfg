SPECIFICATION Spec
CONSTANTS
    Inputs <- Testing
    Faults <- TimingOut
    MaxRevision = 3
    MaxInputEdits = 0
    MaxWorkers = 1
    MaxTestRevision = 5
    Cases = 1
INVARIANTS
    CaseLeavesPreviewAlone
CHECK_DEADLOCK FALSE
