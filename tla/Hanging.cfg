SPECIFICATION FairSpec
CONSTANTS
  s1 = s1
  s2 = s2
  None = None
  Ids = {s1, s2}
  Calls = {c1}
  NameOf <- OwnNames
  LostRecords = {}
  Faults = {"restart"}
PROPERTY ShutdownCompletes
PROPERTY CallsReturn
