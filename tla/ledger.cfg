SPECIFICATION RestartsFairSpec
CONSTANTS
  p1 = p1
  p2 = p2
  p3 = p3
  d1 = d1
  d2 = d2
  NoProc = NoProc
  NoSem = NoSem
  Procs = {p1, p2, p3}
  Days = {d1, d2}
  Requests <- MCSemantic
  Faults <- AllFaults
  MaxLive = 3
INVARIANTS
  TypeOK
  IndexGapFree
  OneRowPerKey
  LineageGrounded
  AckIndexed
  AddedReadable
  UnindexedHarmless
  RestartsReconcile
PROPERTIES
  ImplementsLog
  InvocationsEnd
CHECK_DEADLOCK FALSE
