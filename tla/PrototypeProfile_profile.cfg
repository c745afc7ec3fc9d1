SPECIFICATION FairSpec
CONSTANTS
    good = good
    bad = bad
    Files <- TwoFiles
    LoadableFiles <- OnlyGood
    Builtin = Builtin
    BuiltinLoads = TRUE
    None = None
    Selections <- AnyVisit
    Inputs <- Everything
    Faults <- AllFaults
    MaxRevision = 5
    MaxWorkers = 2
    MaxSelections = 3
INVARIANTS
    PreviewUsesSelectedProfile
    IdentityIsOfContent
    StoredProfilesLoad
PROPERTIES
    SavedChoiceIsInUse
    ChoiceSettles
CHECK_DEADLOCK FALSE
