SPECIFICATION Spec
CONSTANTS
    DslCallBudget = 3
    MaxNetworks = 2
    MaxCalls = 2
    MaxConditions = 2
    MaxCombinators = 1
    Requirements = {2}
INVARIANTS TypeOK BorrowsExclude OneOwner TransfersReplay UnusedIsUnread
PROPERTIES BorrowedStaysPut DeadHandlesStayDead
CHECK_DEADLOCK FALSE
