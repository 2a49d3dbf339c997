SPECIFICATION MCSpec
CONSTANTS
  NoStream = NoStream
  a1 = a1
  a2 = a2
  a3 = a3
  Procs = {a1, a2, a3}
  Days = {1, 2}
  Options <- MCOptions
  MaxRebuilds = 2
  RacedRebuilds = 1
  MaxLive = 3
  Faults = {"kill", "lose"}
SYMMETRY MCSymmetry
INVARIANTS
  TypeOK
  FilesConsistent
  OrderedShardsConverge
  QuietNothingDropped
  QuietOriginsKept
CHECK_DEADLOCK FALSE
