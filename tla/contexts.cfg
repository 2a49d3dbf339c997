SPECIFICATION Spec
CONSTANTS
  w = w
  a = a
  b = b
  s = s
  app = app
  top = top
  sub = sub
  declaredId = declaredId
  None = None
  Dirs = {w, a, b, s}
  AtOrAbove <- MCAtOrAbove
  Name <- MCName
  Ids = {declaredId}
  Pool = w
INVARIANT EvidenceTogether
PROPERTY HomesStay
CHECK_DEADLOCK FALSE
