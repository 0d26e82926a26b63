----------------------------- MODULE MCHttpAccess -----------------------------
(* One request at a time: requests share nothing but the tables, which change *)
(* in every way the checks can tell apart.                                    *)
EXTENDS HttpAccess

MCActions == {"USER_ROLE_MANAGE", "ROLE_PERMISSION_MANAGE", "SERVICE_VISIBLE_ROLE_MANAGE",
              "ROLE_READ", "ROLE_CREATE", "ROLE_UPDATE", "ROLE_DELETE",
              "PERMISSION_READ", "PERMISSION_CREATE", "PERMISSION_UPDATE", "PERMISSION_DELETE",
              "AUTHORIZATION_CHECK", "AUTHORIZATION_MANAGE"}
MCRoleNames == {"SUPER_ADMIN", "ROLE_MANAGER", "PERMISSION_MANAGER"}

\* Empty, single and several goals on either side, under every operator.
MCRequirements ==
  [permissions: {{}, {"ROLE_READ"}, {"ROLE_READ", "ROLE_UPDATE"}},
   roles: {{}, {"SUPER_ADMIN"}, {"SUPER_ADMIN", "ROLE_MANAGER"}},
   permissionOperator: {"AND", "OR"}, roleOperator: {"AND", "OR"},
   combinationOperator: {"AND", "OR"}]

=============================================================================
