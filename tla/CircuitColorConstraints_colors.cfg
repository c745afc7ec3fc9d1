SPECIFICATION Spec
CONSTANTS
    MaxNetworks = 3
INVARIANTS
    TypeOK
    PreflightAgrees
PROPERTIES
    KeepsPromise
