SPECIFICATION Spec
CONSTANTS
    Inputs <- Testing
    Faults <- Crashing
    MaxRevision = 4
    MaxInputEdits = 0
    MaxWorkers = 2
    MaxTestRevision = 4
    Cases = 2
INVARIANTS
    ActiveCaseIsBinding
    AnswerIsAwaited
    ExecutionIsWatched
CHECK_DEADLOCK FALSE
