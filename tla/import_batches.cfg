SPECIFICATION SourceSpec
CONSTANTS
  NoStream = NoStream
  NoKey = NoKey
  a = a
  b = b
  c = c
  d = d
  legacy = legacy
  s = s
  t = t
  k = k
  r1 = r1
  r2 = r2
  Candidates <- MCCandidates
  MaxBatch = 3
  Losses = {1, 2}
  Manifests <- MCManifests
  Rewrites <- MCRewrites
INVARIANTS
  RowsIdentified
  HolesWaived
  ImportVerdictsRight
  PreflightRight
  QualifiedImports
CHECK_DEADLOCK FALSE
