SPECIFICATION Spec
CONSTANTS
  Owners = {r1, s1}
  Roles = {r1}
  Services = {s1}
  Items = {i1, i2}
  Workers = {w1, w2}
SYMMETRY Symmetry
INVARIANTS
  TableTypeOK
  GrantsWereTrue
  RevocationsWereTrue
  ReplacementsWereExact
PROPERTIES
  WritesAreWhole
  ImplementsStore
