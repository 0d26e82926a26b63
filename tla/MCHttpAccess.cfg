SPECIFICATION FairSpec
CONSTANTS
  Actions <- MCActions
  RoleNames <- MCRoleNames
  Requirements <- MCRequirements
  Calls = {c1}
INVARIANTS
  TypeOK
  GrantsAreWitnessed
  SteadyHoldersAreLetIn
  HandlersAreGuarded
  HoldersAreNotRefused
PROPERTY EveryRequestEnds
