--------------------------- MODULE AccessDecision ---------------------------
(****************************************************************************)
(* The queries of authorization.service.ts as functions of one snapshot of  *)
(* the tables.  A snapshot `db` is a record of the three assignment tables  *)
(* and of the permissions and roles that are not soft-deleted.  What a      *)
(* permission or a role is about never changes here, so its action, service *)
(* and (case-folded) name are constants.  A boolean check answers true      *)
(* exactly when its set of matches is not empty.                            *)
(****************************************************************************)
CONSTANTS
  Users, Roles, Permissions, Services,
  NoService,   \* the optional serviceId left out
  Goals,       \* actions of permissions and names of roles
  ActionOf,    \* ActionOf[p]: the action of permission p
  ServiceOf,   \* ServiceOf[p]: the service of permission p
  NameOf       \* NameOf[r]: the name of role r in lower case

ASSUME CatalogAssumption ==
  /\ NoService \notin Services
  /\ ActionOf \in [Permissions -> Goals]
  /\ ServiceOf \in [Permissions -> Services]
  /\ NameOf \in [Roles -> Goals]

Snapshot == [user_role: SUBSET (Users \X Roles),
             service_visible_role: SUBSET (Services \X Roles),
             role_permission: SUBSET (Roles \X Permissions),
             permission: SUBSET Permissions,
             role: SUBSET Roles]

\* What is asked.  `kind` is the method, `goal` its action or role name; the
\* listing methods have no goal and ignore the one they are given.
Kinds == {"checkUserPermission", "checkUserRole", "getUserRoles", "getUserRoleNames",
          "getUserPermissions", "getUserPermissionActions"}
Query == [kind: Kinds, user: Users, service: Services \cup {NoService}, goal: Goals]

-----------------------------------------------------------------------------
(* The single SELECTs. *)

RolesOf(db, u) == {r \in Roles : <<u, r>> \in db.user_role}

VisibleRoles(db, s) == {r \in Roles : <<s, r>> \in db.service_visible_role}

\* Mutant: an empty list of roles is no condition.
PermissionIds_Unfiltered(db, R) ==
  {p \in Permissions : \E r \in Roles : (R = {} \/ r \in R) /\ <<r, p>> \in db.role_permission}

\* rolePermissionService.getPermissionIdsBatch: all the permissions of some roles.  For no
\* role at all MySQL refuses the empty IN (), which the caller's catch turns into [].
PermissionIds(db, R) ==
  {p \in Permissions : \E r \in R : <<r, p>> \in db.role_permission}

InService(p, s) == s = NoService \/ ServiceOf[p] = s

\* permissionService.findByAnd: an empty serviceId is no condition; soft-deleted
\* permissions are not found.
FindByAnd(db, a, s) == {p \in db.permission : ActionOf[p] = a /\ InService(p, s)}

\* The join over user_role, service_visible_role, role_permission, permission.
\* Table role is not in it: a soft-deleted role still counts.
IntegratedMatches(db, u, a, s) ==
  {p \in db.permission :
     /\ ActionOf[p] = a
     /\ ServiceOf[p] = s
     /\ \E r \in Roles : /\ <<u, r>> \in db.user_role
                         /\ <<s, r>> \in db.service_visible_role
                         /\ <<r, p>> \in db.role_permission}

-----------------------------------------------------------------------------
(* What the methods make of the answers. *)

\* Mutant: a service without visible roles is taken for no service at all.
UsableRoles_EmptyIsNull(userRoles, visibleRoles, s) ==
  IF s = NoService \/ visibleRoles = {} THEN userRoles ELSE userRoles \cap visibleRoles

\* The user's roles that may act in a service.
UsableRoles(userRoles, visibleRoles, s) ==
  IF s = NoService THEN userRoles ELSE userRoles \cap visibleRoles

NextRead(kind) ==
  CASE kind \in {"checkUserPermission", "getUserPermissions", "getUserPermissionActions"}
         -> "grants"
    [] kind \in {"checkUserRole", "getUserRoleNames"} -> "names"
    [] kind = "getUserRoles" -> "none"

\* Of the permissions `ids`, those the method reports when the live ones are as in db.
ReportedPermissions(db, q, ids) ==
  CASE q.kind = "checkUserPermission"      -> ids \cap FindByAnd(db, q.goal, q.service)
    [] q.kind = "getUserPermissionActions" -> ids \cap db.permission
    [] OTHER                               -> ids

\* Of the roles `ids`, those the method reports: role.findByIds skips deleted ones.
ReportedRoles(db, q, ids) ==
  CASE q.kind = "checkUserRole"    -> {r \in ids \cap db.role : NameOf[r] = q.goal}
    [] q.kind = "getUserRoleNames" -> ids \cap db.role
    [] OTHER                       -> ids

\* The multi-step method run against one snapshot.
StepwiseAnswer(db, q) ==
  LET usable == UsableRoles(RolesOf(db, q.user), VisibleRoles(db, q.service), q.service)
  IN IF NextRead(q.kind) = "grants"
     THEN ReportedPermissions(db, q, PermissionIds(db, usable))
     ELSE ReportedRoles(db, q, usable)

\* A chain <<r, x>> is a role of the user that may act in the service together
\* with what it contributes to the answer: a permission of r, or r itself.
Chains(db, q) ==
  {c \in Roles \X (Permissions \cup Roles) :
     /\ <<q.user, c[1]>> \in db.user_role
     /\ q.service # NoService => <<q.service, c[1]>> \in db.service_visible_role
     /\ IF NextRead(q.kind) = "grants"
        THEN /\ <<c[1], c[2]>> \in db.role_permission
             /\ c[2] \in ReportedPermissions(db, q, {c[2]})
        ELSE /\ c[1] = c[2]
             /\ c[2] \in ReportedRoles(db, q, {c[2]})}

\* The optimised query and the method it falls back to give the same decision on
\* the same tables: a failing integrated query never changes who is let in.
PathsAgreeOn(db) ==
  \A q \in Query :
    q.kind = "checkUserPermission" /\ q.service # NoService =>
      (IntegratedMatches(db, q.user, q.goal, q.service) = {} <=> StepwiseAnswer(db, q) = {})

=============================================================================
