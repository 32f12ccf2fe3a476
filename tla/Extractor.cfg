SPECIFICATION Spec
CONSTANTS
    p1 = p1
    p2 = p2
    t1 = t1
    t2 = t2
    t3 = t3
    d1 = d1
    page = page
    Process = {p1, p2}
    Task = {t1, t2, t3}
    ProcessOf <- MCProcessOf
    Matched = matched
    Pinned = pinned
    Explicit = FALSE
    Digest = {d1, page}
    Elf = {d1}
    Published <- MCPublished
    None = None
INVARIANTS
    OnlyWholeBinaries
    ExtractedOnce
    LeaksAreReclaimed
SYMMETRY Symmetry
CHECK_DEADLOCK FALSE
