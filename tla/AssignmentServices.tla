-------------------------- MODULE AssignmentServices --------------------------
(****************************************************************************)
(* RolePermissionService and ServiceVisibleRoleService: two services that   *)
(* write two tables of one database, role_permission (a role's permissions) *)
(* and service_visible_role (a service's visible roles).  Each method is    *)
(* the sequence of JoinTable's statements it awaits; which table a request  *)
(* writes follows from its owner.  UserRole has the third such service.     *)
(****************************************************************************)
EXTENDS JoinTable

CONSTANTS
  Roles,       \* the owners of role_permission
  Services     \* the owners of service_visible_role

ASSUME OwnersAreRolesOrServices == Owners = Roles \cup Services /\ Roles \cap Services = {}

Serves(w, owners, op) == Running(w) /\ req[w].owner \in owners /\ req[w].op = op

-----------------------------------------------------------------------------
(* RolePermissionService. *)

RolePermissionRequest(w) ==
  \E op \in Ops, roleId \in Roles, permissionIds \in SUBSET Items :
    Arrive(w, op, roleId, permissionIds)

assignRolePermission(w) ==
  /\ Serves(w, Roles, "assign")
  /\ CheckExists(w) \/ SaveSelect(w) \/ SaveInsert(w) \/ StatementFails(w)

revokeRolePermission(w) ==
  /\ Serves(w, Roles, "revoke")
  /\ Delete(w) \/ StatementFails(w)

assignMultiplePermissions(w) ==
  /\ Serves(w, Roles, "assignMultiple")
  /\ ReadExisting(w) \/ SaveSelect(w) \/ SaveInsert(w) \/ StatementFails(w)

revokeMultiplePermissions(w) ==
  /\ Serves(w, Roles, "revokeMultiple")
  /\ Delete(w) \/ StatementFails(w)

replaceRolePermissions(w) ==
  /\ Serves(w, Roles, "replace")
  /\ ReplaceDelete(w) \/ ReplaceSave(w) \/ StatementFails(w)

RolePermissionService(w) ==
  \/ RolePermissionRequest(w)
  \/ assignRolePermission(w)
  \/ revokeRolePermission(w)
  \/ assignMultiplePermissions(w)
  \/ revokeMultiplePermissions(w)
  \/ replaceRolePermissions(w)

-----------------------------------------------------------------------------
(* ServiceVisibleRoleService. *)

ServiceVisibleRoleRequest(w) ==
  \E op \in Ops, serviceId \in Services, roleIds \in SUBSET Items :
    Arrive(w, op, serviceId, roleIds)

assignServiceVisibleRole(w) ==
  /\ Serves(w, Services, "assign")
  /\ CheckExists(w) \/ SaveSelect(w) \/ SaveInsert(w) \/ StatementFails(w)

revokeServiceVisibleRole(w) ==
  /\ Serves(w, Services, "revoke")
  /\ Delete(w) \/ StatementFails(w)

assignMultipleRoles(w) ==
  /\ Serves(w, Services, "assignMultiple")
  /\ ReadExisting(w) \/ SaveSelect(w) \/ SaveInsert(w) \/ StatementFails(w)

revokeMultipleRoles(w) ==
  /\ Serves(w, Services, "revokeMultiple")
  /\ Delete(w) \/ StatementFails(w)

replaceServiceRoles(w) ==
  /\ Serves(w, Services, "replace")
  /\ ReplaceDelete(w) \/ ReplaceSave(w) \/ StatementFails(w)

ServiceVisibleRoleService(w) ==
  \/ ServiceVisibleRoleRequest(w)
  \/ assignServiceVisibleRole(w)
  \/ revokeServiceVisibleRole(w)
  \/ assignMultipleRoles(w)
  \/ revokeMultipleRoles(w)
  \/ replaceServiceRoles(w)

-----------------------------------------------------------------------------
Next == \E w \in Workers : RolePermissionService(w) \/ ServiceVisibleRoleService(w)

Spec == TableInit /\ [][Next]_tableVars

=============================================================================
