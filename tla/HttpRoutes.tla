------------------------------ MODULE HttpRoutes ------------------------------
(****************************************************************************)
(* The routes of the six HTTP controllers, in the order the controllers     *)
(* declare them, with what @RequireAccess demands of the caller.  Express   *)
(* tries the routes in that order and takes the first that matches.         *)
(****************************************************************************)
EXTENDS Integers, Sequences

Param == "*"     \* a path parameter, which any segment matches

Route(method, path, handler, permission, roles) ==
  [method |-> method, path |-> path, handler |-> handler,
   permissions |-> {permission}, roles |-> roles]

SuperAdmin == {"SUPER_ADMIN"}

\* The eight routes over an assignment table: `owner` and `item` are the two kinds of
\* entity in their paths, `handlers` the eight methods of the controller.
AssignmentRoutes(owner, item, permission, handlers) ==
  LET route(method, path, n) == Route(method, path, handlers[n], permission, SuperAdmin)
      all == <<owner, Param, item>>
      one == <<owner, Param, item, Param>>
      batch == <<owner, Param, item, "batch">>
  IN <<route("GET", all, 1),
       route("GET", <<item, Param, owner>>, 2),
       route("GET", <<owner, Param, item, Param, "exists">>, 3),
       route("POST", one, 4),
       route("DELETE", one, 5),
       route("POST", batch, 6),
       route("DELETE", batch, 7),
       route("PUT", all, 8)>>

UserRoleController ==
  AssignmentRoutes("users", "roles", "USER_ROLE_MANAGE",
    <<"getRoleIdsByUserId", "getUserIdsByRoleId", "checkUserRoleExists", "assignUserRole",
      "revokeUserRole", "assignMultipleRoles", "revokeMultipleRoles", "replaceUserRoles">>)

RolePermissionController ==
  AssignmentRoutes("roles", "permissions", "ROLE_PERMISSION_MANAGE",
    <<"getPermissionIdsByRoleId", "getRoleIdsByPermissionId", "checkRolePermissionExists",
      "assignRolePermission", "revokeRolePermission", "assignMultiplePermissions",
      "revokeMultiplePermissions", "replaceRolePermissions">>)

ServiceVisibleRoleController ==
  AssignmentRoutes("services", "roles", "SERVICE_VISIBLE_ROLE_MANAGE",
    <<"getRoleIdsByServiceId", "getServiceIdsByRoleId", "checkServiceVisibleRoleExists",
      "assignServiceVisibleRole", "revokeServiceVisibleRole", "assignMultipleRoles",
      "revokeMultipleRoles", "replaceServiceRoles">>)

RoleController ==
  LET readers == SuperAdmin \cup {"ROLE_MANAGER"}
  IN <<Route("GET", <<"roles">>, "searchRoles", "ROLE_READ", readers),
       Route("POST", <<"roles">>, "createRole", "ROLE_CREATE", SuperAdmin),
       Route("GET", <<"roles", Param>>, "getRoleById", "ROLE_READ", readers),
       Route("PATCH", <<"roles", Param>>, "updateRole", "ROLE_UPDATE", SuperAdmin),
       Route("DELETE", <<"roles", Param>>, "deleteRole", "ROLE_DELETE", SuperAdmin)>>

PermissionController ==
  LET readers == SuperAdmin \cup {"PERMISSION_MANAGER"}
  IN <<Route("GET", <<"permissions">>, "searchPermissions", "PERMISSION_READ", readers),
       Route("POST", <<"permissions">>, "createPermission", "PERMISSION_CREATE", SuperAdmin),
       Route("GET", <<"permissions", Param>>, "getPermissionById", "PERMISSION_READ", readers),
       Route("PATCH", <<"permissions", Param>>, "updatePermission", "PERMISSION_UPDATE", SuperAdmin),
       Route("DELETE", <<"permissions", Param>>, "deletePermission", "PERMISSION_DELETE", SuperAdmin)>>

AuthorizationController ==
  LET own(rest) == <<"authorization">> \o rest
  IN <<Route("POST", own(<<"check-permission">>), "checkPermission", "AUTHORIZATION_CHECK", SuperAdmin),
       Route("POST", own(<<"check-role">>), "checkRole", "AUTHORIZATION_CHECK", SuperAdmin),
       Route("GET", own(<<"users", Param, "permissions">>), "getUserPermissions",
             "AUTHORIZATION_MANAGE", SuperAdmin),
       Route("GET", own(<<"users", Param, "roles">>), "getUserRoles",
             "AUTHORIZATION_MANAGE", SuperAdmin)>>

\* app.module imports the feature modules in this order.
Routes ==
  AuthorizationController \o PermissionController \o RoleController
    \o RolePermissionController \o ServiceVisibleRoleController \o UserRoleController

-----------------------------------------------------------------------------
\* The request a client sends for a route: an id for every parameter.
RequestFor(route) ==
  [method |-> route.method,
   path |-> [i \in DOMAIN route.path |-> IF route.path[i] = Param THEN "id" ELSE route.path[i]]]

Matches(route, request) ==
  /\ route.method = request.method
  /\ Len(route.path) = Len(request.path)
  /\ \A i \in DOMAIN route.path : route.path[i] \in {Param, request.path[i]}

\* Route m answers the requests for route n: it is the first that matches them.
Serves(m, n) ==
  LET matching == {i \in DOMAIN Routes : Matches(Routes[i], RequestFor(Routes[n]))}
  IN m \in matching /\ \A i \in matching : m <= i

=============================================================================
