-------------------------- MODULE ComplexPermission --------------------------
(****************************************************************************)
(* checkComplexPermission of authorization.service.ts: a requirement of     *)
(* permissions and roles, decided by single checks that run in parallel     *)
(* while the tables change.                                                 *)
(*                                                                          *)
(* What a single check promises is ReadPromise, which Authorization keeps   *)
(* for checkUserPermission and checkUserRole: it says yes only to a goal    *)
(* whose links the tables showed while it ran, and no to a goal the user    *)
(* held throughout, by one unbroken chain of links, only after a failed     *)
(* read; it never throws.                                                   *)
(****************************************************************************)
CONSTANTS
  Actions,        \* what permissions allow
  RoleNames,
  Calls,          \* calls that can be running at once
  Requirements    \* what callers of the method ask for

Operators == {"AND", "OR"}

Requirement == [permissions: SUBSET Actions, roles: SUBSET RoleNames,
                permissionOperator: Operators, roleOperator: Operators,
                combinationOperator: Operators]

Goals == Actions \cup RoleNames

ASSUME GoalsAssumption == Actions \cap RoleNames = {} /\ Requirements \subseteq Requirement

VARIABLE call   \* call[c]: the call c, its progress and its answer

\* pending: the single checks that have not answered; granted: those that said yes.
\* sure and maybe are history: the goals the user has held at every instant of the
\* call by one and the same chain, and those whose links the tables have shown.
Call == [need: Requirement, phase: {"permissions", "roles", "done"},
         pending: SUBSET Goals, granted: SUBSET Goals, permissionResult: BOOLEAN,
         sure: SUBSET Goals, maybe: SUBSET Goals, failed: BOOLEAN, answer: BOOLEAN]
Absent == [phase |-> "absent"]

CallTypeOK == call \in [Calls -> Call \cup {Absent}]

Running(c) == call[c].phase \in {"permissions", "roles"}
Finished(c) == call[c].phase = "done"
At(c, phase) == call[c].phase = phase

Asked(need) == need.permissions \cup need.roles

-----------------------------------------------------------------------------
(* How single answers are combined. *)

hasAnyPermission(actions, granted) == actions = {} \/ actions \cap granted # {}

hasAllPermissions(actions, granted) == actions \subseteq granted

hasAnyRole(names, granted) == names = {} \/ names \cap granted # {}

hasAllRoles(names, granted) == names \subseteq granted

PermissionResult(need, granted) ==
  IF need.permissionOperator = "OR" THEN hasAnyPermission(need.permissions, granted)
                                    ELSE hasAllPermissions(need.permissions, granted)

RoleResult(need, granted) ==
  IF need.roleOperator = "OR" THEN hasAnyRole(need.roles, granted)
                              ELSE hasAllRoles(need.roles, granted)

Combine(need, p, r) == IF need.combinationOperator = "OR" THEN p \/ r ELSE p /\ r

\* The requirement read as a statement about a set of goals the user holds.
Meets(need, held) == Combine(need, PermissionResult(need, held), RoleResult(need, held))

-----------------------------------------------------------------------------
(* The method. *)

Done(k, answer) ==
  [need |-> k.need, phase |-> "done", pending |-> {}, granted |-> {},
   permissionResult |-> k.permissionResult, sure |-> k.sure, maybe |-> k.maybe,
   failed |-> k.failed, answer |-> answer]

AsksRoles(k, p) ==
  [need |-> k.need, phase |-> "roles", pending |-> k.need.roles, granted |-> k.granted,
   permissionResult |-> p, sure |-> k.sure, maybe |-> k.maybe,
   failed |-> k.failed, answer |-> FALSE]

\* A single check of k has answered.
Heard(k, goal, yes, failed) ==
  [need |-> k.need, phase |-> k.phase, pending |-> k.pending \ {goal},
   granted |-> IF yes THEN k.granted \cup {goal} ELSE k.granted,
   permissionResult |-> k.permissionResult, sure |-> k.sure, maybe |-> k.maybe,
   failed |-> k.failed \/ failed, answer |-> FALSE]

\* Mutant: the roles decide, if any are asked for.
Settle_RolesDecide(k) ==
  LET p == PermissionResult(k.need, k.granted)
      r == RoleResult(k.need, k.granted)
  IN IF k.pending # {} THEN k
     ELSE IF k.phase = "roles" THEN Done(k, r)
     ELSE IF k.need.roles = {} THEN Done(k, Combine(k.need, p, TRUE))
     ELSE AsksRoles(k, p)

\* Promise.all is awaited: nothing happens before the last check has answered.  Then the
\* roles are asked about, whatever the permissions said; a list that is empty is not
\* asked about and leaves its result true.
Settle(k) ==
  LET p == PermissionResult(k.need, k.granted)
      r == RoleResult(k.need, k.granted)
  IN IF k.pending # {} THEN k
     ELSE IF k.phase = "roles" THEN Done(k, Combine(k.need, k.permissionResult, r))
     ELSE IF k.need.roles = {} THEN Done(k, Combine(k.need, p, TRUE))
     ELSE AsksRoles(k, p)

\* held: what the user holds when the call starts.
Started(need, held) ==
  Settle([need |-> need, phase |-> "permissions", pending |-> need.permissions,
          granted |-> {}, permissionResult |-> TRUE, sure |-> held, maybe |-> held,
          failed |-> FALSE, answer |-> FALSE])

checkComplexPermission(c, need) ==
  /\ At(c, "absent")
  /\ \E held \in SUBSET Asked(need) : call' = [call EXCEPT ![c] = Started(need, held)]

\* A single check answers.  It fails closed: a read that fails makes it say no.
Answers(c, goal, yes, failed) ==
  /\ goal \in call[c].pending
  /\ yes => goal \in call[c].maybe /\ ~failed
  /\ ~yes => goal \notin call[c].sure \/ failed
  /\ call' = [call EXCEPT ![c] = Settle(Heard(@, goal, yes, failed))]

\* Mutant: a failed read lets the user in.
hasPermission_FailsOpen(c, action) ==
  /\ At(c, "permissions")
  /\ action \in call[c].pending
  /\ \E yes, failed \in BOOLEAN :
       /\ yes => action \in call[c].maybe \/ failed
       /\ ~yes => action \notin call[c].sure
       /\ call' = [call EXCEPT ![c] = Settle(Heard(@, action, yes, failed))]

hasPermission(c, action) ==
  At(c, "permissions") /\ \E yes, failed \in BOOLEAN : Answers(c, action, yes, failed)

checkUserRole(c, roleName) ==
  At(c, "roles") /\ \E yes, failed \in BOOLEAN : Answers(c, roleName, yes, failed)

\* The answer has been acted on.
Returns(c) == Finished(c) /\ call' = [call EXCEPT ![c] = Absent]

Step(c) ==
  \/ \E action \in Actions : hasPermission(c, action)
  \/ \E roleName \in RoleNames : checkUserRole(c, roleName)

\* The tables change under the call: a goal is no longer held, or its last link appears.
Lose(c, goal) ==
  /\ Running(c) /\ goal \in call[c].sure
  /\ call' = [call EXCEPT ![c].sure = @ \ {goal}]

Gain(c, goal) ==
  /\ Running(c) /\ goal \in Asked(call[c].need) \ call[c].maybe
  /\ call' = [call EXCEPT ![c].maybe = @ \cup {goal}]

TablesChange(c) == \E goal \in Goals : Lose(c, goal) \/ Gain(c, goal)

CallInit == call = [c \in Calls |-> Absent]

-----------------------------------------------------------------------------
(* Properties. *)

\* A user is let in only if links the tables showed during the call meet the
\* requirement, however the parallel checks and the table's writers interleave.
GrantsAreWitnessed ==
  \A c \in Calls : Finished(c) /\ call[c].answer => Meets(call[c].need, call[c].maybe)

\* A user who meets the requirement with what he holds without interruption is let in,
\* unless a read failed.
SteadyHoldersAreLetIn ==
  \A c \in Calls :
    Finished(c) /\ ~call[c].failed /\ Meets(call[c].need, call[c].sure) => call[c].answer

=============================================================================
