SPECIFICATION RestartsSpec
CONSTANTS
  p1 = p1
  p2 = p2
  p3 = p3
  d1 = d1
  d2 = d2
  NoProc = NoProc
  NoSem = NoSem
  Procs = {p1, p2, p3}
  Days = {d1, d2}
  Requests <- MCPlain
  Faults <- MCKilled
  MaxLive = 2
INVARIANTS ShardOriginsUnique
CHECK_DEADLOCK FALSE
