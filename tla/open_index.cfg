SPECIFICATION Spec
CONSTANTS
  p1 = p1
  p2 = p2
  p3 = p3
  Procs = {p1, p2, p3}
  Other = Other
  NoProc = NoProc
  Release <- MCRelease
  Retries = 2
  MaxOther = 1
INVARIANTS
  SchemaAtVersion
  OpenedUsable
PROPERTY OpensEnd
CHECK_DEADLOCK FALSE
