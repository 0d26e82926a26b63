SPECIFICATION Spec
CONSTANTS
  alice = alice
  bob = bob
  Owners = {alice, bob}
  Items = {r1}
  Workers = {}
  Migrators = {m1, m2}
  MergePairs <- OnePair
SYMMETRY Symmetry
PROPERTY MigrationsLoseNoRole
