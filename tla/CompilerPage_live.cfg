SPECIFICATION FairSpec
CONSTANTS
    Inputs <- AnyOperation
    Faults <- AnyLoss
    MaxRevision = 3
    MaxInputEdits = 0
    MaxWorkers = 2
    MaxTestRevision = 4
    Cases = 1
PROPERTIES
    BindingSettles
    TestRunEnds
    PreviewSettles
CHECK_DEADLOCK FALSE
