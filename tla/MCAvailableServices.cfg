SPECIFICATION FairSpec
CONSTANTS
  Users = {u}
  Roles = {r1, r2}
  Services = {s1, s2}
  Calls = {c}
INVARIANTS
  TypeOK
  PublicIsShownHiddenIsNot
  ByRoleServicesFollowEntitlement
  NoRoleNoByRoleService
PROPERTY OnlyPortalKeepsACallWaiting
