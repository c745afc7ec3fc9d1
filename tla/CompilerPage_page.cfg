SPECIFICATION Spec
CONSTANTS
    Inputs <- EditingAndConverting
    Faults <- LosingWorkers
    MaxRevision = 4
    MaxInputEdits = 1
    MaxWorkers = 2
    MaxTestRevision = 0
    Cases = 1
INVARIANTS
    TypeOK
    OneOperation
    CaptureRetained
    PanelIsBacked
    FirstParseIsCold
    VerifiedPreviewIsOfInput
    PendingImportIsWorkedOn
PROPERTIES
    QueuedParseSurvives
    ShowsNewestSource
CHECK_DEADLOCK FALSE
