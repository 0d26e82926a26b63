SPECIFICATION Spec
CONSTANTS
  alice = alice
  bob = bob
  Owners = {alice, bob}
  Items = {r1}
  Workers = {}
  Migrators = {m1}
  MergePairs <- OnePair
SYMMETRY Symmetry
PROPERTY RollbackReturnsOnlyAdded
