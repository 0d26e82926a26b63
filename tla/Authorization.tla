---------------------------- MODULE Authorization ----------------------------
(****************************************************************************)
(* The read methods of authorization.service.ts while the tables change     *)
(* under them.  Each SELECT is one step, so a method that falls back to the *)
(* multi-step approach combines what the tables showed at different times.  *)
(* The writers (user_role, service_visible_role, role_permission, roles and *)
(* permissions) are abstracted to a commit that may change one table in any *)
(* way; what they really do is the subject of UserRole and its companions.  *)
(****************************************************************************)
EXTENDS AccessDecision

CONSTANTS
  Checks,   \* method calls that can be running at once
  Queries   \* what is asked

ASSUME QueriesAssumption == Queries \subseteq Query

VARIABLES
  db,       \* the committed tables
  check,    \* check[c]: the call c, its progress and its answer
  window    \* history: what the tables showed while call c ran

vars == <<db, check, window>>

CheckPhases == {"integrated", "roles", "grants", "catalog", "names", "done"}

\* userRoles, visibleRoles, permissionIds: the answers of the call's SELECTs, as
\* long as the method still needs them.
Check == [query: Queries, phase: CheckPhases,
          userRead: BOOLEAN, userRoles: SUBSET Roles,
          visibleRead: BOOLEAN, visibleRoles: SUBSET Roles,
          permissionIds: SUBSET Permissions,
          answer: SUBSET (Permissions \cup Roles), failed: BOOLEAN]
Absent == [phase |-> "absent"]

\* ever: every row and live entity seen so far; chains: complete at every instant.
Window == [ever: Snapshot, chains: SUBSET (Roles \X (Permissions \cup Roles))]
EmptySnapshot == [user_role |-> {}, service_visible_role |-> {}, role_permission |-> {},
                  permission |-> {}, role |-> {}]
NoWindow == [ever |-> EmptySnapshot, chains |-> {}]

TypeOK ==
  /\ db \in Snapshot
  /\ check \in [Checks -> Check \cup {Absent}]
  /\ window \in [Checks -> Window]

-----------------------------------------------------------------------------

Running(c) == check[c].phase \notin {"absent", "done"}
At(c, phase) == check[c].phase = phase

Overlay(a, b) ==
  [user_role |-> a.user_role \cup b.user_role,
   service_visible_role |-> a.service_visible_role \cup b.service_visible_role,
   role_permission |-> a.role_permission \cup b.role_permission,
   permission |-> a.permission \cup b.permission,
   role |-> a.role \cup b.role]

Answered(k, matches) ==
  [k EXCEPT !.phase = "done", !.answer = matches, !.userRead = FALSE, !.userRoles = {},
            !.visibleRead = FALSE, !.visibleRoles = {}, !.permissionIds = {}]

\* Without a usable role a method returns early, false or [].  getUserPermissions does so
\* only for a user without roles: if none of his is visible, it goes on with an empty list.
EndsEarly(k, usable) ==
  \/ k.query.kind = "getUserRoles"
  \/ usable = {} /\ (k.query.kind = "getUserPermissions" => k.userRoles = {})

\* Mutant: the answer about the service's visible roles is not awaited.
AfterRoles_Early(k) ==
  LET q == k.query
      usable == UsableRoles(k.userRoles, k.visibleRoles, q.service)
  IN IF ~k.userRead
     THEN k
     ELSE IF EndsEarly(k, usable)
          THEN Answered(k, usable)
          ELSE [k EXCEPT !.phase = NextRead(q.kind)]

\* What a method does once Promise.all has both answers of the first round.
AfterRoles(k) ==
  LET q == k.query
      usable == UsableRoles(k.userRoles, k.visibleRoles, q.service)
  IN IF ~k.userRead \/ (q.service # NoService /\ ~k.visibleRead)
     THEN k
     ELSE IF EndsEarly(k, usable)
          THEN Answered(k, usable)
          ELSE [k EXCEPT !.phase = NextRead(q.kind)]

Usable(c) ==
  UsableRoles(check[c].userRoles, check[c].visibleRoles, check[c].query.service)

Continue(c, k) ==
  /\ check' = [check EXCEPT ![c] = k]
  /\ UNCHANGED <<db, window>>

-----------------------------------------------------------------------------

Call(c, q) ==
  /\ ~Running(c)
  /\ check' = [check EXCEPT ![c] =
       [query |-> q,
        phase |-> IF q.kind = "checkUserPermission" /\ q.service # NoService
                  THEN "integrated" ELSE "roles",
        userRead |-> FALSE, userRoles |-> {}, visibleRead |-> FALSE, visibleRoles |-> {},
        permissionIds |-> {}, answer |-> {}, failed |-> FALSE]]
  /\ window' = [window EXCEPT ![c] = [ever |-> db, chains |-> Chains(db, q)]]
  /\ UNCHANGED db

\* checkUserPermissionIntegratedQuery answers.
IntegratedQuery(c) ==
  LET q == check[c].query
  IN /\ At(c, "integrated")
     /\ Continue(c, Answered(check[c], IntegratedMatches(db, q.user, q.goal, q.service)))

\* It fails, returns null, and the multi-step approach takes over.
IntegratedQueryFails(c) ==
  /\ At(c, "integrated")
  /\ Continue(c, [check[c] EXCEPT !.phase = "roles"])

\* Mutant: the rows are kept instead of their role ids.
ReadUserRoles_Rows(c) ==
  /\ At(c, "roles")
  /\ ~check[c].userRead
  /\ Continue(c, [check[c] EXCEPT !.userRead = TRUE,
                                  !.userRoles = {k \in db.user_role : k[1] = check[c].query.user}])

\* The two SELECTs of the first round run in either order.
ReadUserRoles(c) ==
  /\ At(c, "roles")
  /\ ~check[c].userRead
  /\ Continue(c, AfterRoles([check[c] EXCEPT !.userRead = TRUE,
                                             !.userRoles = RolesOf(db, check[c].query.user)]))

ReadVisibleRoles(c) ==
  LET s == check[c].query.service
  IN /\ At(c, "roles")
     /\ s # NoService
     /\ ~check[c].visibleRead
     /\ Continue(c, AfterRoles([check[c] EXCEPT !.visibleRead = TRUE,
                                                !.visibleRoles = VisibleRoles(db, s)]))

ReadPermissionIds(c) ==
  LET ids == PermissionIds(db, Usable(c))
  IN /\ At(c, "grants")
     /\ Continue(c, IF check[c].query.kind = "getUserPermissions" \/ ids = {}
                    THEN Answered(check[c], ids)
                    ELSE [check[c] EXCEPT !.phase = "catalog", !.permissionIds = ids])

\* permissionService.findByAnd or findByIds, and the match with the ids read before.
ReadPermissions(c) ==
  /\ At(c, "catalog")
  /\ Continue(c, Answered(check[c],
                   ReportedPermissions(db, check[c].query, check[c].permissionIds)))

\* roleService.findByIds, and the match on the name.
ReadRoles(c) ==
  /\ At(c, "names")
  /\ Continue(c, Answered(check[c], ReportedRoles(db, check[c].query, Usable(c))))

\* Mutant: the catch block answers with what has been collected so far.
ReadFails_Collected(c) ==
  /\ Running(c) /\ ~At(c, "integrated")
  /\ Continue(c, [Answered(check[c], check[c].permissionIds) EXCEPT !.failed = TRUE])

\* A SELECT of the multi-step approach fails: every method answers false or [].
ReadFails(c) ==
  /\ Running(c) /\ ~At(c, "integrated")
  /\ Continue(c, [Answered(check[c], {}) EXCEPT !.failed = TRUE])

Step(c) ==
  \/ IntegratedQuery(c)
  \/ IntegratedQueryFails(c)
  \/ ReadUserRoles(c)
  \/ ReadVisibleRoles(c)
  \/ ReadPermissionIds(c)
  \/ ReadPermissions(c)
  \/ ReadRoles(c)
  \/ ReadFails(c)

-----------------------------------------------------------------------------
(* A commit of another request changes one table.  A call may start from any   *)
(* tables (Init), so a commit matters only while one runs.                      *)

Commit(new) ==
  /\ \E c \in Checks : Running(c)
  /\ db' = new
  /\ window' = [c \in Checks |->
       IF Running(c)
       THEN [ever |-> Overlay(window[c].ever, new),
             chains |-> window[c].chains \cap Chains(new, check[c].query)]
       ELSE window[c]]
  /\ UNCHANGED check

CommitUserRole == \E t \in SUBSET (Users \X Roles) :
  t # db.user_role /\ Commit([db EXCEPT !.user_role = t])
CommitServiceVisibleRole == \E t \in SUBSET (Services \X Roles) :
  t # db.service_visible_role /\ Commit([db EXCEPT !.service_visible_role = t])
CommitRolePermission == \E t \in SUBSET (Roles \X Permissions) :
  t # db.role_permission /\ Commit([db EXCEPT !.role_permission = t])
CommitPermission == \E t \in SUBSET Permissions :
  t # db.permission /\ Commit([db EXCEPT !.permission = t])
CommitRole == \E t \in SUBSET Roles :
  t # db.role /\ Commit([db EXCEPT !.role = t])

Init ==
  /\ db \in Snapshot
  /\ check = [c \in Checks |-> Absent]
  /\ window = [c \in Checks |-> NoWindow]

Next ==
  \/ \E c \in Checks : (\E q \in Queries : Call(c, q)) \/ Step(c)
  \/ CommitUserRole
  \/ CommitServiceVisibleRole
  \/ CommitRolePermission
  \/ CommitPermission
  \/ CommitRole

Spec == Init /\ [][Next]_vars

-----------------------------------------------------------------------------
(* Properties. *)

\* The integrated query and its fallback decide alike on whatever the tables hold.
PathsAgree == PathsAgreeOn(db)

Finished(c) == check[c].phase = "done"

\* Every match rests on links the tables did show while the call ran: a role the
\* user held, visible to the service, that granted the permission, which was alive
\* (or the live role itself).  Reads at different times never invent a link.
AnswersAreWitnessed ==
  \A c \in Checks : Finished(c) =>
    \A x \in check[c].answer :
      \E r \in Roles : <<r, x>> \in Chains(window[c].ever, check[c].query)

\* What the user holds without interruption is never missed: a chain that was
\* complete at every instant of the call is in its answer, integrated query or
\* fallback, unless a SELECT of the fallback failed.
SteadyChainsAreAnswered ==
  \A c \in Checks : Finished(c) /\ ~check[c].failed =>
    \A ch \in window[c].chains : ch[2] \in check[c].answer

-----------------------------------------------------------------------------
(* The promise.  Tables and SELECTs are hidden. *)

CallOf(k) ==
  IF k.phase = "absent" THEN [state |-> "none"]
  ELSE IF k.phase = "done"
       THEN [state |-> "answered", query |-> k.query, failed |-> k.failed, answer |-> k.answer]
       ELSE [state |-> "waiting", query |-> k.query]

SeenBy(k, w) == IF k.phase = "absent" THEN {} ELSE Chains(w.ever, k.query)

Promise == INSTANCE ReadPromise WITH
  Calls <- Checks, Links <- Roles \X (Permissions \cup Roles),
  asked <- [c \in Checks |-> CallOf(check[c])],
  steady <- [c \in Checks |-> window[c].chains],
  seen <- [c \in Checks |-> SeenBy(check[c], window[c])]

\* Six methods, two ways of deciding and a dozen SELECTs look to their callers like one
\* promise: each call is answered once, with all it could not miss and nothing it could
\* not see, and stands by that answer.
KeepsPromise == Promise!Spec

=============================================================================
