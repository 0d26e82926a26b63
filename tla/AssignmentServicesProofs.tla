----------------------- MODULE AssignmentServicesProofs -----------------------
(* The methods of the services take no step the table's handlers do not take, so *)
(* all that is proved of the table holds of role_permission and of               *)
(* service_visible_role, written by their services side by side.                 *)
EXTENDS AssignmentServices, JoinTableProofs

LEMMA NextIsTableNext == Next => TableNext
<1> SUFFICES ASSUME NEW w \in Workers,
                    RolePermissionService(w) \/ ServiceVisibleRoleService(w)
             PROVE  TableNext
  BY DEF Next
<1>1. CASE RolePermissionRequest(w) \/ ServiceVisibleRoleRequest(w)
  BY <1>1, OwnersAreRolesOrServices
     DEF RolePermissionRequest, ServiceVisibleRoleRequest, TableNext
<1>2. CASE ~(RolePermissionRequest(w) \/ ServiceVisibleRoleRequest(w))
  <2>1. Step(w)
    BY <1>2 DEF RolePermissionService, ServiceVisibleRoleService, Step,
       assignRolePermission, revokeRolePermission, assignMultiplePermissions,
       revokeMultiplePermissions, replaceRolePermissions,
       assignServiceVisibleRole, revokeServiceVisibleRole, assignMultipleRoles,
       revokeMultipleRoles, replaceServiceRoles
  <2>2. QED
    BY <2>1 DEF TableNext
<1>3. QED
  BY <1>1, <1>2

LEMMA SpecIsTableSpec == Spec => TableSpec
BY NextIsTableNext, PTL DEF Spec, TableSpec

\* Whatever requests of the two services interleave, an answer was true at some
\* instant of its request.
THEOREM ServicesAnswerTruly == Spec => []AnswersAreTrue
BY SpecIsTableSpec, AnswersCorrect, PTL

\* Each table changes in the last step of a request, by all of it or nothing.
THEOREM ServicesWriteWhole == Spec => WritesAreWhole
BY SpecIsTableSpec, WritesWholeCorrect, PTL

\* To their clients the two services are the abstract store of assignments.
THEOREM ServicesImplementTheStore == Spec => ImplementsStore
BY SpecIsTableSpec, ImplementsTheStore, PTL

=============================================================================
