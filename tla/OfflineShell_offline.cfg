SPECIFICATION Spec
CONSTANTS
    Builds = {1, 2}
    Bundle <- MCBundle
    FirstBuild = 1
    NoBuild = 0
    Pages = {p, q}
    MaxDeployments = 2
SYMMETRY Symmetry
INVARIANTS
    CacheIsComplete
    OwnPagesLoad
PROPERTIES
    PagesKeepTheirFiles
