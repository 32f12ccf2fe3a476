SPECIFICATION Spec
CONSTANTS
    Instance = {i1, i2}
    NoOne = NoOne
    Sandbox = {s1}
    Concurrent = FALSE
INVARIANT ReplacementKeepsItsSocket
SYMMETRY Symmetry
CHECK_DEADLOCK FALSE
