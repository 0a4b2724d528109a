CONSTANTS
  d1 = d1
  d2 = d2
  d3 = d3
  c1 = c1
  None = None
  Daemons = {d1, d2, d3}
  Clients = {c1}
  MaxSpawns = 1
  MaxCrashes = 1
SPECIFICATION Spec
SYMMETRY Symmetric
INVARIANTS
  TypeOK
  EstablishedStands
CHECK_DEADLOCK FALSE
