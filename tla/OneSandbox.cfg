SPECIFICATION FairSpec
CONSTANTS
  s1 = s1
  s2 = s2
  None = None
  Ids = {s1}
  Calls = {c1, c2}
  NameOf <- OwnNames
  LostRecords = {}
  Faults = {"runtime", "disk", "outofband", "restart", "crash"}
INVARIANT LifecycleExclusive
INVARIANT NoVMWithoutRecord
INVARIANT AcceptedIsDurable
INVARIANT DeletedStaysDeleted
PROPERTY PollerConverges
PROPERTY ImplementsContract
