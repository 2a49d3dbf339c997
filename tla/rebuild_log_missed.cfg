SPECIFICATION MCSpec
CONSTANTS
  NoStream = NoStream
  a1 = a1
  a2 = a2
  a3 = a3
  Procs = {a1, a2}
  Days = {1, 2}
  Options <- MCReplace
  MaxRebuilds = 1
  RacedRebuilds = 1
  MaxLive = 1
  Faults = {"kill", "lose"}
INVARIANT NothingDropped
CHECK_DEADLOCK FALSE
