SPECIFICATION Spec
CONSTANTS
    DslCallBudget = 4
    MaxNetworks = 4
    MaxCalls = 0
    MaxConditions = 1
    MaxCombinators = 1
    Requirements = {0, 2}
INVARIANTS PlanReplays
CHECK_DEADLOCK FALSE
