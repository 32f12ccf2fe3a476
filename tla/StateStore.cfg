SPECIFICATION Spec
CONSTANTS
    Client = {c1, c2}
    Id = {s1, s2, up}
    ValidId = {s1, s2}
    Value = {started, stopped}
    None = None
INVARIANTS
    NoTempLeftBehind
PROPERTIES
    ImplementsRecordStore
SYMMETRY Symmetry
CHECK_DEADLOCK FALSE
