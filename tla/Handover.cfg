SPECIFICATION FairSpec
CONSTANTS
    Instance = {i1, i2, i3}
    NoOne = NoOne
    Sandbox = {s1}
    Concurrent = FALSE
INVARIANTS
    MarkerIsNeverStale
    ReachableOnceClaimed
    SoleInstanceIsExact
PROPERTIES
    SoleStartServes
CHECK_DEADLOCK FALSE
