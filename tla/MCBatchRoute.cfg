SPECIFICATION Spec
CONSTANTS
  Actions <- MCActions
  RoleNames <- MCRoleNames
  Requirements <- MCRequirements
  Calls = {c1}
INVARIANT RoutesReachTheirHandlers
