SPECIFICATION Spec
CONSTANTS
  s1 = s1
  s2 = s2
  None = None
  Ids = {s1, s2}
  Calls = {c1, c2}
  NameOf <- SharedName
  LostRecords = {s1}
  Faults = {"outofband", "restart"}
SYMMETRY CallSymmetry
INVARIANT OrphansAreSwept
INVARIANT StoppedIsIntended
