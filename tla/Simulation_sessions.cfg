SPECIFICATION Spec
CONSTANTS
    Signals = {1, 2}
    Width = 4
    Networks = {1, 2, 3}
    Conditions <- MCConditions
    Circuits <- MCCircuits
    DrivenBuses <- MCBuses
    MockedValues <- MCMockedValues
    WorldBuses <- MCWorldBuses
    Behaviours = {"echo", "pulse", "fails"}
    Targets <- MCTargets
    Settles = {2, 3}
INVARIANTS
    KnownIsTrue
    StepIgnoresOrder
    TraceReplays
    FailedBoundaryIsInvisible
    NoCallbackIsMissed
    SettledIsFixed
CHECK_DEADLOCK FALSE
