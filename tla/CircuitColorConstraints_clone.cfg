SPECIFICATION Spec
CONSTANTS
    MaxNetworks = 3
INVARIANTS
    CloneIsCopy
