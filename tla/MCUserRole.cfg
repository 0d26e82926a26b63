SPECIFICATION Spec
CONSTANTS
  alice = alice
  bob = bob
  Owners = {alice, bob}
  Items = {r1}
  Workers = {w1}
  Migrators = {m1, m2}
  MergePairs <- OnePair
SYMMETRY Symmetry
INVARIANTS
  TypeOK
  AnswersAreTrue
PROPERTIES
  UndisturbedMigrationsAreExact
  MergeOnlyMoves
  ChangesAreWhole
  ImplementsAccounts
