SPECIFICATION Spec
CONSTANTS
  s1 = s1
  s2 = s2
  None = None
  Ids = {s1}
  Calls = {c1, c2}
  NameOf <- OwnNames
  LostRecords = {}
  Faults = {}
INVARIANT DeletedLeavesNoRecord
CHECK_DEADLOCK FALSE
