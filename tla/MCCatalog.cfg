SPECIFICATION Spec
CONSTANTS
  Ids = {e1, e2}
  Names = {n1, n2}
  Infos = {x1, x2}
  Owners = {o1}
  Admins = {a1, a2}
  None = None
SYMMETRY Symmetry
INVARIANTS
  TypeOK
  NamesUnique
  RefusalsWereTrue
PROPERTIES
  WritesAreExact
  AssignedAreKept
