SPECIFICATION Spec
CONSTANTS
  None = None
  m1 = m1
  m2 = m2
  r1 = r1
  r2 = r2
  j1 = j1
  j2 = j2
  c1 = c1
  Jobs = {j1, j2}
  Clients = {c1}
  Roles = {m1, r1, r2}
  Packages <- MCPackages
  Targets = {1, 2, 3, 4}
SYMMETRY MCSymmetry
INVARIANTS
  TypeOK
  ConfiguredCanServe
PROPERTIES
  OneHistory
  ServedWhileConfigured
  RotationRevokes
CHECK_DEADLOCK FALSE
