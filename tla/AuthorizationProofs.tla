------------------------- MODULE AuthorizationProofs -------------------------
(****************************************************************************)
(* Proofs about Authorization: its type invariant, the agreement of the     *)
(* integrated query with its fallback, and the two properties that relate   *)
(* an answer to what the tables showed while the call ran.                  *)
(****************************************************************************)
EXTENDS Authorization, TLAPS

-----------------------------------------------------------------------------
(* One snapshot. *)

\* On one snapshot the join and the multi-step method find the same permissions.
LEMMA PathsFindTheSame ==
  ASSUME NEW d \in Snapshot, NEW q \in Query,
         q.kind = "checkUserPermission", q.service # NoService
  PROVE  IntegratedMatches(d, q.user, q.goal, q.service) = StepwiseAnswer(d, q)
<1>1. NextRead(q.kind) = "grants"
  BY DEF NextRead
<1>2. ReportedPermissions(d, q, PermissionIds(d, UsableRoles(RolesOf(d, q.user),
                                  VisibleRoles(d, q.service), q.service)))
        = IntegratedMatches(d, q.user, q.goal, q.service)
  BY DEF ReportedPermissions, PermissionIds, UsableRoles, RolesOf, VisibleRoles,
         IntegratedMatches, FindByAnd, InService, Snapshot
<1> QED
  BY <1>1, <1>2 DEF StepwiseAnswer

\* The multi-step method, run against one snapshot, reports exactly the ends of
\* the chains of that snapshot.
LEMMA StepwiseFollowsChains ==
  ASSUME NEW d \in Snapshot, NEW q \in Query
  PROVE  StepwiseAnswer(d, q) = {x \in Permissions \cup Roles :
                                   \E r \in Roles : <<r, x>> \in Chains(d, q)}
<1> DEFINE usable == UsableRoles(RolesOf(d, q.user), VisibleRoles(d, q.service), q.service)
<1>1. ASSUME NEW r \in Roles
      PROVE  r \in usable <=> /\ <<q.user, r>> \in d.user_role
                              /\ q.service # NoService
                                   => <<q.service, r>> \in d.service_visible_role
  BY DEF UsableRoles, RolesOf, VisibleRoles
<1>2. usable \subseteq Roles
  BY DEF UsableRoles, RolesOf, VisibleRoles
<1> HIDE DEF usable
<1>3. CASE NextRead(q.kind) = "grants"
  <2>1. StepwiseAnswer(d, q) = ReportedPermissions(d, q, PermissionIds(d, usable))
    BY <1>3 DEF StepwiseAnswer, usable
  <2>2. ASSUME NEW x
        PROVE  x \in ReportedPermissions(d, q, PermissionIds(d, usable))
                 <=> /\ x \in PermissionIds(d, usable)
                     /\ x \in ReportedPermissions(d, q, {x})
    BY DEF ReportedPermissions
  <2>3. ASSUME NEW x, NEW r \in Roles
        PROVE  <<r, x>> \in Chains(d, q)
                 <=> /\ x \in Permissions \cup Roles
                     /\ r \in usable
                     /\ <<r, x>> \in d.role_permission
                     /\ x \in ReportedPermissions(d, q, {x})
    BY <1>1, <1>3 DEF Chains
  <2>4. ASSUME NEW x
        PROVE  x \in PermissionIds(d, usable)
                 <=> x \in Permissions /\ \E r \in Roles : r \in usable /\ <<r, x>> \in d.role_permission
    BY <1>2 DEF PermissionIds
  <2>5. \A r, x : <<r, x>> \in d.role_permission => x \in Permissions
    BY DEF Snapshot
  <2> QED
    BY <2>1, <2>2, <2>3, <2>4, <2>5
<1>4. CASE NextRead(q.kind) # "grants"
  <2>1. StepwiseAnswer(d, q) = ReportedRoles(d, q, usable)
    BY <1>4 DEF StepwiseAnswer, usable
  <2>2. ASSUME NEW x
        PROVE  x \in ReportedRoles(d, q, usable) <=> x \in usable /\ x \in ReportedRoles(d, q, {x})
    BY DEF ReportedRoles
  <2>3. ASSUME NEW x, NEW r \in Roles
        PROVE  <<r, x>> \in Chains(d, q)
                 <=> r = x /\ r \in usable /\ x \in ReportedRoles(d, q, {x})
    BY <1>1, <1>4 DEF Chains
  <2>4. ASSUME NEW x
        PROVE  x \in StepwiseAnswer(d, q)
                 <=> /\ x \in Permissions \cup Roles
                     /\ \E r \in Roles : <<r, x>> \in Chains(d, q)
    <3>1. x \in StepwiseAnswer(d, q) <=> x \in usable /\ x \in ReportedRoles(d, q, {x})
      BY <2>1, <2>2
    <3>2. ASSUME x \in usable, x \in ReportedRoles(d, q, {x})
          PROVE  x \in Roles /\ <<x, x>> \in Chains(d, q)
      BY <1>2, <2>3, <3>2
    <3>3. ASSUME NEW r \in Roles, <<r, x>> \in Chains(d, q)
          PROVE  x \in usable /\ x \in ReportedRoles(d, q, {x})
      BY <2>3, <3>3
    <3> QED
      BY <3>1, <3>2, <3>3
  <2> QED
    BY <2>4
<1> QED
  BY <1>3, <1>4

-----------------------------------------------------------------------------
(* Types. *)

LEMMA SelectTypes ==
  ASSUME NEW d \in Snapshot, NEW q \in Query, NEW ids \in SUBSET Permissions,
         NEW R \in SUBSET Roles, NEW V \in SUBSET Roles
  PROVE  /\ RolesOf(d, q.user) \subseteq Roles
         /\ VisibleRoles(d, q.service) \subseteq Roles
         /\ PermissionIds(d, R) \subseteq Permissions
         /\ IntegratedMatches(d, q.user, q.goal, q.service) \subseteq Permissions
         /\ UsableRoles(R, V, q.service) \subseteq Roles
         /\ ReportedPermissions(d, q, ids) \subseteq Permissions
         /\ ReportedRoles(d, q, R) \subseteq Roles
         /\ Chains(d, q) \subseteq Roles \X (Permissions \cup Roles)
<1>1. /\ RolesOf(d, q.user) \subseteq Roles
      /\ VisibleRoles(d, q.service) \subseteq Roles
      /\ PermissionIds(d, R) \subseteq Permissions
      /\ UsableRoles(R, V, q.service) \subseteq Roles
      /\ Chains(d, q) \subseteq Roles \X (Permissions \cup Roles)
  BY DEF RolesOf, VisibleRoles, PermissionIds, UsableRoles, Chains
<1>2. IntegratedMatches(d, q.user, q.goal, q.service) \subseteq Permissions
  BY DEF IntegratedMatches, Snapshot
<1>3. ASSUME NEW x \in ReportedPermissions(d, q, ids) PROVE x \in ids
  BY DEF ReportedPermissions
<1>4. ASSUME NEW x \in ReportedRoles(d, q, R) PROVE x \in R
  BY DEF ReportedRoles
<1> QED
  BY <1>1, <1>2, <1>3, <1>4

LEMMA AnsweredType ==
  ASSUME NEW k \in Check, NEW A \in SUBSET (Permissions \cup Roles)
  PROVE  Answered(k, A) \in Check
BY DEF Answered, Check, CheckPhases

LEMMA AfterRolesType ==
  ASSUME NEW k \in Check
  PROVE  AfterRoles(k) \in Check
<1> DEFINE usable == UsableRoles(k.userRoles, k.visibleRoles, k.query.service)
<1>1. usable \in SUBSET (Permissions \cup Roles)
  BY DEF Check, UsableRoles
<1>2. Answered(k, usable) \in Check
  BY <1>1, AnsweredType
<1>3. CASE k.query.kind # "getUserRoles"
  <2>1. k.query \in Query
    BY QueriesAssumption DEF Check
  <2>2. NextRead(k.query.kind) \in CheckPhases
    BY <1>3, <2>1 DEF Query, Kinds, NextRead, CheckPhases
  <2>3. [k EXCEPT !.phase = NextRead(k.query.kind)] \in Check
    BY <2>2 DEF Check
  <2> QED
    BY <1>2, <2>3 DEF AfterRoles
<1>4. CASE k.query.kind = "getUserRoles"
  BY <1>2, <1>4 DEF AfterRoles, EndsEarly
<1> QED
  BY <1>3, <1>4

\* A step of a call replaces its record by one of the right type and leaves the
\* tables alone.
LEMMA ContinueType ==
  ASSUME TypeOK, NEW c \in Checks, NEW k \in Check, Continue(c, k)
  PROVE  TypeOK'
BY DEF TypeOK, Continue

LEMMA RunningType ==
  ASSUME TypeOK, NEW c \in Checks, check[c].phase # "absent"
  PROVE  check[c] \in Check /\ check[c].query \in Query
BY QueriesAssumption DEF TypeOK, Check, Absent

LEMMA StepType ==
  ASSUME TypeOK, NEW c \in Checks, Step(c)
  PROVE  TypeOK'
<1> USE DEF At
<1>0. check[c].phase # "absent"
  BY DEF Step, IntegratedQuery, IntegratedQueryFails, ReadUserRoles, ReadVisibleRoles,
         ReadPermissionIds, ReadPermissions, ReadRoles, ReadFails, Running
<1>1. check[c] \in Check /\ check[c].query \in Query
  BY <1>0, RunningType
<1>2. db \in Snapshot
  BY DEF TypeOK
<1>3. Usable(c) \in SUBSET Roles
  BY <1>1 DEF Usable, UsableRoles, Check
<1>4. CASE IntegratedQuery(c)
  BY <1>1, <1>2, <1>4, SelectTypes, AnsweredType, ContinueType DEF IntegratedQuery
<1>5. CASE IntegratedQueryFails(c)
  <2>1. [check[c] EXCEPT !.phase = "roles"] \in Check
    BY <1>1 DEF Check, CheckPhases
  <2> QED
    BY <1>5, <2>1, ContinueType DEF IntegratedQueryFails
<1>6. CASE ReadUserRoles(c)
  <2>1. RolesOf(db, check[c].query.user) \subseteq Roles
    BY DEF RolesOf
  <2>2. [check[c] EXCEPT !.userRead = TRUE,
                         !.userRoles = RolesOf(db, check[c].query.user)] \in Check
    BY <1>1, <2>1 DEF Check
  <2> QED
    BY <1>6, <2>2, AfterRolesType, ContinueType DEF ReadUserRoles
<1>7. CASE ReadVisibleRoles(c)
  <2>1. VisibleRoles(db, check[c].query.service) \subseteq Roles
    BY DEF VisibleRoles
  <2>2. [check[c] EXCEPT !.visibleRead = TRUE,
                         !.visibleRoles = VisibleRoles(db, check[c].query.service)] \in Check
    BY <1>1, <2>1 DEF Check
  <2> QED
    BY <1>7, <2>2, AfterRolesType, ContinueType DEF ReadVisibleRoles
<1>8. CASE ReadPermissionIds(c)
  <2> DEFINE ids == PermissionIds(db, Usable(c))
  <2>1. ids \subseteq Permissions
    BY DEF PermissionIds
  <2>2. Answered(check[c], ids) \in Check
    BY <1>1, <2>1, AnsweredType
  <2>3. [check[c] EXCEPT !.phase = "catalog", !.permissionIds = ids] \in Check
    BY <1>1, <2>1 DEF Check, CheckPhases
  <2> QED
    BY <1>8, <2>2, <2>3, ContinueType DEF ReadPermissionIds
<1>9. CASE ReadPermissions(c)
  <2>1. check[c].permissionIds \in SUBSET Permissions
    BY <1>1 DEF Check
  <2> QED
    BY <1>1, <1>2, <1>9, <2>1, SelectTypes, AnsweredType, ContinueType DEF ReadPermissions
<1>10. CASE ReadRoles(c)
  BY <1>1, <1>2, <1>3, <1>10, SelectTypes, AnsweredType, ContinueType DEF ReadRoles
<1>11. CASE ReadFails(c)
  <2>1. Answered(check[c], {}) \in Check
    BY <1>1, AnsweredType
  <2>2. [Answered(check[c], {}) EXCEPT !.failed = TRUE] \in Check
    BY <2>1 DEF Check
  <2> QED
    BY <1>11, <2>2, ContinueType DEF ReadFails
<1> QED
  BY <1>4, <1>5, <1>6, <1>7, <1>8, <1>9, <1>10, <1>11 DEF Step

LEMMA CallType ==
  ASSUME TypeOK, NEW c \in Checks, NEW q \in Queries, Call(c, q)
  PROVE  TypeOK'
<1>1. q \in Query
  BY QueriesAssumption
<1>2. Chains(db, q) \subseteq Roles \X (Permissions \cup Roles)
  BY DEF Chains
<1>3. check' \in [Checks -> Check \cup {Absent}]
  BY DEF TypeOK, Call, Check, CheckPhases
<1>4. window' \in [Checks -> Window]
  BY <1>2 DEF TypeOK, Call, Window
<1> QED
  BY <1>3, <1>4 DEF TypeOK, Call

LEMMA CommitType ==
  ASSUME TypeOK, NEW new \in Snapshot, Commit(new)
  PROVE  TypeOK'
<1>1. ASSUME NEW c \in Checks
      PROVE  [ever |-> Overlay(window[c].ever, new),
              chains |-> window[c].chains \cap Chains(new, check[c].query)] \in Window
  <2>1. window[c] \in Window
    BY DEF TypeOK
  <2>2. Overlay(window[c].ever, new) \in Snapshot
    BY <2>1 DEF Overlay, Window, Snapshot
  <2> QED
    BY <2>1, <2>2 DEF Window
<1> QED
  BY <1>1 DEF TypeOK, Commit

\* Every commit of another request installs a snapshot.
LEMMA CommitsInstallSnapshots ==
  ASSUME TypeOK,
         \/ CommitUserRole \/ CommitServiceVisibleRole \/ CommitRolePermission
         \/ CommitPermission \/ CommitRole
  PROVE  \E new \in Snapshot : Commit(new)
<1>1. CASE CommitUserRole
  BY <1>1 DEF TypeOK, CommitUserRole, Snapshot
<1>2. CASE CommitServiceVisibleRole
  BY <1>2 DEF TypeOK, CommitServiceVisibleRole, Snapshot
<1>3. CASE CommitRolePermission
  BY <1>3 DEF TypeOK, CommitRolePermission, Snapshot
<1>4. CASE CommitPermission
  BY <1>4 DEF TypeOK, CommitPermission, Snapshot
<1>5. CASE CommitRole
  BY <1>5 DEF TypeOK, CommitRole, Snapshot
<1> QED
  BY <1>1, <1>2, <1>3, <1>4, <1>5

\* Every variable has its type in every reachable state.
THEOREM TypeCorrect == Spec => []TypeOK
<1>1. Init => TypeOK
  <2>1. NoWindow \in Window
    BY DEF NoWindow, EmptySnapshot, Window, Snapshot
  <2> QED
    BY <2>1 DEF Init, TypeOK
<1>2. TypeOK /\ [Next]_vars => TypeOK'
  <2> SUFFICES ASSUME TypeOK, [Next]_vars
               PROVE  TypeOK'
    OBVIOUS
  <2>1. CASE UNCHANGED vars
    BY <2>1 DEF TypeOK, vars
  <2>2. CASE Next
    BY <2>2, CallType, StepType, CommitType, CommitsInstallSnapshots DEF Next
  <2> QED
    BY <2>1, <2>2
<1> QED
  BY <1>1, <1>2, PTL DEF Spec

\* The integrated query and its fallback agree on the tables of every reachable state.
THEOREM PathsAlwaysAgree == Spec => []PathsAgree
<1>1. TypeOK => PathsAgree
  BY PathsFindTheSame DEF TypeOK, PathsAgree, PathsAgreeOn
<1> QED
  BY <1>1, TypeCorrect, PTL

-----------------------------------------------------------------------------
(* What a running call was told, related to what the tables showed meanwhile. *)

Covers(ever, d) ==
  /\ d.user_role \subseteq ever.user_role
  /\ d.service_visible_role \subseteq ever.service_visible_role
  /\ d.role_permission \subseteq ever.role_permission
  /\ d.permission \subseteq ever.permission
  /\ d.role \subseteq ever.role

Told(k, w) ==
  /\ k.userRead => /\ k.userRoles \subseteq RolesOf(w.ever, k.query.user)
                   /\ \A ch \in w.chains : ch[1] \in k.userRoles
  /\ k.visibleRead => /\ k.visibleRoles \subseteq VisibleRoles(w.ever, k.query.service)
                      /\ \A ch \in w.chains : ch[1] \in k.visibleRoles

BothRead(k) == k.userRead /\ (k.query.service # NoService => k.visibleRead)

UsableOf(k) == UsableRoles(k.userRoles, k.visibleRoles, k.query.service)

\* The phases after the first round belong to the methods that have them.
Placed(k) ==
  /\ k.phase = "integrated" => k.query.kind = "checkUserPermission" /\ k.query.service # NoService
  /\ k.phase \in {"grants", "catalog"} => BothRead(k) /\ NextRead(k.query.kind) = "grants"
  /\ k.phase = "catalog" => k.query.kind # "getUserPermissions"
  /\ k.phase = "names" => BothRead(k) /\ NextRead(k.query.kind) = "names"

Collected(k, w) ==
  k.phase = "catalog" =>
    /\ k.permissionIds \subseteq PermissionIds(w.ever, UsableOf(k))
    /\ \A ch \in w.chains : ch[2] \in k.permissionIds

Witnessed(k, w) ==
  \A x \in k.answer : \E r \in Roles : <<r, x>> \in Chains(w.ever, k.query)

Complete(k, w) == ~k.failed => \A ch \in w.chains : ch[2] \in k.answer

Sound(k, w) ==
  /\ Told(k, w)
  /\ Placed(k)
  /\ Collected(k, w)
  /\ k.phase = "done" => Witnessed(k, w) /\ Complete(k, w)

\* While a call runs its window covers the tables as they are, and its steady
\* chains are complete in them.
Open(d, k, w) == Covers(w.ever, d) /\ w.chains \subseteq Chains(d, k.query)

ReadInv ==
  \A c \in Checks :
    /\ check[c].phase # "absent" => Sound(check[c], window[c])
    /\ Running(c) => Open(db, check[c], window[c])

-----------------------------------------------------------------------------
(* Chains and the sets the methods collect. *)

\* A chain of a snapshot starts at a usable role.
LEMMA ChainStart ==
  ASSUME NEW d, NEW q, NEW ch \in Chains(d, q)
  PROVE  /\ ch[1] \in Roles
         /\ ch[1] \in RolesOf(d, q.user)
         /\ q.service # NoService => ch[1] \in VisibleRoles(d, q.service)
BY DEF Chains, RolesOf, VisibleRoles

\* For the methods that report permissions it ends at a permission of that role
\* which the method reports.
LEMMA ChainGrant ==
  ASSUME NEW d \in Snapshot, NEW q, NEW ch \in Chains(d, q), NextRead(q.kind) = "grants"
  PROVE  /\ <<ch[1], ch[2]>> \in d.role_permission
         /\ ch[2] \in Permissions
         /\ ch[2] \in ReportedPermissions(d, q, {ch[2]})
<1>1. <<ch[1], ch[2]>> \in d.role_permission /\ ch[2] \in ReportedPermissions(d, q, {ch[2]})
  BY DEF Chains
<1>2. ch[2] \in Permissions
  BY <1>1 DEF Snapshot
<1> QED
  BY <1>1, <1>2

\* For the others it ends where it starts, at a role the method reports.
LEMMA ChainRole ==
  ASSUME NEW d, NEW q, NEW ch \in Chains(d, q), NextRead(q.kind) # "grants"
  PROVE  ch[1] = ch[2] /\ ch[2] \in ReportedRoles(d, q, {ch[2]})
BY DEF Chains

\* What a method reports of a set, it reports element by element.
LEMMA ReportsOneByOne ==
  ASSUME NEW d, NEW q, NEW ids, NEW x
  PROVE  /\ x \in ReportedPermissions(d, q, ids)
              <=> x \in ids /\ x \in ReportedPermissions(d, q, {x})
         /\ x \in ReportedRoles(d, q, ids)
              <=> x \in ids /\ x \in ReportedRoles(d, q, {x})
<1>1. x \in ReportedPermissions(d, q, ids)
        <=> x \in ids /\ x \in ReportedPermissions(d, q, {x})
  BY DEF ReportedPermissions
<1>2. x \in ReportedRoles(d, q, ids) <=> x \in ids /\ x \in ReportedRoles(d, q, {x})
  BY DEF ReportedRoles
<1> QED
  BY <1>1, <1>2

\* More rows report more, grant more and make more chains.
LEMMA Monotone ==
  ASSUME NEW d \in Snapshot, NEW e \in Snapshot, Covers(e, d), NEW q
  PROVE  /\ RolesOf(d, q.user) \subseteq RolesOf(e, q.user)
         /\ VisibleRoles(d, q.service) \subseteq VisibleRoles(e, q.service)
         /\ \A R : PermissionIds(d, R) \subseteq PermissionIds(e, R)
         /\ \A ids : ReportedPermissions(d, q, ids) \subseteq ReportedPermissions(e, q, ids)
         /\ \A ids : ReportedRoles(d, q, ids) \subseteq ReportedRoles(e, q, ids)
         /\ Chains(d, q) \subseteq Chains(e, q)
<1> USE DEF Covers
<1>1. /\ RolesOf(d, q.user) \subseteq RolesOf(e, q.user)
      /\ VisibleRoles(d, q.service) \subseteq VisibleRoles(e, q.service)
      /\ \A R : PermissionIds(d, R) \subseteq PermissionIds(e, R)
  BY DEF RolesOf, VisibleRoles, PermissionIds
<1>2. ASSUME NEW ids, NEW x \in ReportedPermissions(d, q, ids)
      PROVE  x \in ReportedPermissions(e, q, ids)
  BY DEF ReportedPermissions, FindByAnd
<1>3. ASSUME NEW ids, NEW x \in ReportedRoles(d, q, ids)
      PROVE  x \in ReportedRoles(e, q, ids)
  BY DEF ReportedRoles
<1>4. Chains(d, q) \subseteq Chains(e, q)
  BY <1>2, <1>3 DEF Chains
<1> QED
  BY <1>1, <1>2, <1>3, <1>4

\* The converse of ChainStart with ChainGrant or ChainRole.
LEMMA ChainOfGrant ==
  ASSUME NEW e, NEW q, NEW r \in Roles, NEW p \in Permissions, NextRead(q.kind) = "grants",
         r \in RolesOf(e, q.user), q.service # NoService => r \in VisibleRoles(e, q.service),
         <<r, p>> \in e.role_permission, p \in ReportedPermissions(e, q, {p})
  PROVE  <<r, p>> \in Chains(e, q)
BY DEF Chains, RolesOf, VisibleRoles

LEMMA ChainOfRole ==
  ASSUME NEW e, NEW q, NEW r \in Roles, NextRead(q.kind) # "grants",
         r \in RolesOf(e, q.user), q.service # NoService => r \in VisibleRoles(e, q.service),
         r \in ReportedRoles(e, q, {r})
  PROVE  <<r, r>> \in Chains(e, q)
BY DEF Chains, RolesOf, VisibleRoles

-----------------------------------------------------------------------------
(* One call. *)

\* Once both SELECTs of the first round have answered, every usable role was the
\* user's and visible while the call ran, and every steady chain starts at one.
LEMMA UsableBacked ==
  ASSUME NEW k \in Check, NEW w, Told(k, w), BothRead(k)
  PROVE  /\ \A r \in UsableOf(k) :
              /\ r \in Roles
              /\ r \in RolesOf(w.ever, k.query.user)
              /\ k.query.service # NoService => r \in VisibleRoles(w.ever, k.query.service)
         /\ \A ch \in w.chains : ch[1] \in UsableOf(k)
BY DEF Told, BothRead, UsableOf, UsableRoles, Check

\* An answer that is witnessed and complete leaves a sound call.
LEMMA AnsweredSound ==
  ASSUME NEW k \in Check, NEW w, NEW A,
         \A x \in A : \E r \in Roles : <<r, x>> \in Chains(w.ever, k.query),
         \A ch \in w.chains : ch[2] \in A
  PROVE  Sound(Answered(k, A), w)
<1> DEFINE a == Answered(k, A)
<1>1. /\ a.phase = "done" /\ a.answer = A /\ a.query = k.query
      /\ a.userRead = FALSE /\ a.visibleRead = FALSE
  BY DEF Answered, Check
<1> HIDE DEF a
<1>2. Told(a, w) /\ Placed(a) /\ Collected(a, w)
  BY <1>1 DEF Told, Placed, Collected
<1>3. Witnessed(a, w) /\ Complete(a, w)
  BY <1>1 DEF Witnessed, Complete
<1> QED
  BY <1>2, <1>3 DEF Sound, a

LEMMA AfterRolesSound ==
  ASSUME NEW k \in Check, k.query \in Query, k.phase = "roles",
         NEW w \in Window, NEW d \in Snapshot, Told(k, w), Open(d, k, w)
  PROVE  Sound(AfterRoles(k), w)
<1>1. CASE ~BothRead(k)
  <2>1. AfterRoles(k) = k
    BY <1>1 DEF AfterRoles, BothRead
  <2> QED
    BY <2>1 DEF Sound, Placed, Collected
<1>2. CASE BothRead(k) /\ EndsEarly(k, UsableOf(k)) /\ k.query.kind # "getUserRoles"
  <2>1. UsableOf(k) = {}
    BY <1>2 DEF EndsEarly
  <2>2. AfterRoles(k) = Answered(k, {})
    BY <1>2, <2>1 DEF AfterRoles, BothRead, UsableOf
  <2>3. w.chains = {}
    BY <1>2, <2>1, UsableBacked
  <2> QED
    BY <2>2, <2>3, AnsweredSound
<1>3. CASE BothRead(k) /\ k.query.kind = "getUserRoles"
  <2>1. AfterRoles(k) = Answered(k, UsableOf(k))
    BY <1>3 DEF AfterRoles, BothRead, UsableOf, EndsEarly
  <2>2. NextRead(k.query.kind) # "grants"
    BY <1>3 DEF NextRead
  <2>3. ASSUME NEW x \in UsableOf(k)
        PROVE  x \in Roles /\ <<x, x>> \in Chains(w.ever, k.query)
    <3>1. x \in ReportedRoles(w.ever, k.query, {x})
      BY <1>3 DEF ReportedRoles
    <3> QED
      BY <1>3, <2>2, <3>1, UsableBacked, ChainOfRole
  <2>4. ASSUME NEW ch \in w.chains
        PROVE  ch[2] \in UsableOf(k)
    <3>1. ch[1] = ch[2]
      BY <2>2, ChainRole DEF Open
    <3> QED
      BY <1>3, <3>1, UsableBacked
  <2> QED
    BY <2>1, <2>3, <2>4, AnsweredSound
<1>4. CASE BothRead(k) /\ ~EndsEarly(k, UsableOf(k))
  <2> DEFINE n == [k EXCEPT !.phase = NextRead(k.query.kind)]
  <2>1. AfterRoles(k) = n
    BY <1>4 DEF AfterRoles, BothRead, UsableOf
  <2>2. NextRead(k.query.kind) \in {"grants", "names"}
    BY <1>4 DEF Query, Kinds, NextRead, EndsEarly
  <2>3. /\ n.phase = NextRead(k.query.kind) /\ n.query = k.query
        /\ n.userRead = k.userRead /\ n.userRoles = k.userRoles
        /\ n.visibleRead = k.visibleRead /\ n.visibleRoles = k.visibleRoles
    BY DEF Check
  <2> HIDE DEF n
  <2>4. Told(n, w)
    BY <2>3 DEF Told
  <2>5. Placed(n)
    BY <1>4, <2>2, <2>3 DEF Placed, BothRead
  <2>6. Collected(n, w) /\ n.phase # "done"
    BY <2>2, <2>3 DEF Collected
  <2> QED
    BY <2>1, <2>4, <2>5, <2>6 DEF Sound
<1> QED
  BY <1>1, <1>2, <1>3, <1>4

\* A sound call stays sound when its window covers more rows and keeps fewer
\* steady chains, as long as it is running.
LEMMA SoundStaysSound ==
  ASSUME NEW k \in Check, NEW v \in Window, NEW w \in Window, k.phase # "done",
         Sound(k, v), Covers(w.ever, v.ever), w.chains \subseteq v.chains
  PROVE  Sound(k, w)
<1>1. v.ever \in Snapshot /\ w.ever \in Snapshot
  BY DEF Window
<1>2. /\ RolesOf(v.ever, k.query.user) \subseteq RolesOf(w.ever, k.query.user)
      /\ VisibleRoles(v.ever, k.query.service) \subseteq VisibleRoles(w.ever, k.query.service)
      /\ \A R : PermissionIds(v.ever, R) \subseteq PermissionIds(w.ever, R)
  BY <1>1, Monotone
<1>3. Told(k, w)
  BY <1>2 DEF Sound, Told
<1>4. Collected(k, w)
  BY <1>2 DEF Sound, Collected
<1> QED
  BY <1>3, <1>4 DEF Sound

-----------------------------------------------------------------------------
(* The steps. *)

LEMMA ContinueSound ==
  ASSUME TypeOK, ReadInv, NEW c \in Checks, NEW k \in Check, Continue(c, k),
         Running(c), k.query = check[c].query, Sound(k, window[c])
  PROVE  ReadInv'
<1> SUFFICES ASSUME NEW e \in Checks
             PROVE  /\ check'[e].phase # "absent" => Sound(check'[e], window'[e])
                    /\ Running(e)' => Open(db', check'[e], window'[e])
  BY DEF ReadInv
<1>1. UNCHANGED <<db, window>> /\ check' = [check EXCEPT ![c] = k]
  BY DEF Continue
<1>2. CASE e = c
  <2>1. check'[e] = k
    BY <1>1, <1>2 DEF TypeOK
  <2>2. Open(db, check[c], window[c])
    BY DEF ReadInv
  <2> QED
    BY <1>1, <1>2, <2>1, <2>2 DEF Open
<1>3. CASE e # c
  <2>1. check'[e] = check[e]
    BY <1>1, <1>3 DEF TypeOK
  <2> QED
    BY <1>1, <2>1 DEF ReadInv, Running
<1> QED
  BY <1>2, <1>3

LEMMA StepSound ==
  ASSUME TypeOK, ReadInv, NEW c \in Checks, Step(c)
  PROVE  ReadInv'
<1> DEFINE k == check[c]
           w == window[c]
           q == check[c].query
<1>1. Running(c)
  BY DEF Step, IntegratedQuery, IntegratedQueryFails, ReadUserRoles, ReadVisibleRoles,
         ReadPermissionIds, ReadPermissions, ReadRoles, ReadFails, Running, At
<1>2. k \in Check /\ q \in Query
  BY <1>1, RunningType DEF Running
<1>3. db \in Snapshot /\ w \in Window /\ w.ever \in Snapshot
  BY DEF TypeOK, Window
<1>4. /\ Told(k, w) /\ Placed(k) /\ Collected(k, w)
      /\ Covers(w.ever, db) /\ w.chains \subseteq Chains(db, q)
  BY <1>1 DEF ReadInv, Sound, Open, Running
<1>5. /\ \A R : PermissionIds(db, R) \subseteq PermissionIds(w.ever, R)
      /\ \A ids : ReportedPermissions(db, q, ids) \subseteq ReportedPermissions(w.ever, q, ids)
      /\ \A ids : ReportedRoles(db, q, ids) \subseteq ReportedRoles(w.ever, q, ids)
      /\ RolesOf(db, q.user) \subseteq RolesOf(w.ever, q.user)
      /\ VisibleRoles(db, q.service) \subseteq VisibleRoles(w.ever, q.service)
      /\ Chains(db, q) \subseteq Chains(w.ever, q)
  BY <1>3, <1>4, Monotone
<1>6. Usable(c) = UsableOf(k)
  BY DEF Usable, UsableOf
<1>7. ASSUME NEW A \in SUBSET (Permissions \cup Roles), Continue(c, Answered(k, A)),
             \A x \in A : \E r \in Roles : <<r, x>> \in Chains(w.ever, q),
             \A ch \in w.chains : ch[2] \in A
      PROVE  ReadInv'
  <2>1. Answered(k, A) \in Check /\ Answered(k, A).query = q
    BY <1>2, AnsweredType DEF Answered, Check
  <2>2. Sound(Answered(k, A), w)
    BY <1>2, <1>7, AnsweredSound
  <2> QED
    BY <1>1, <1>7, <2>1, <2>2, ContinueSound
<1>8. CASE IntegratedQuery(c)
  <2>1. q.kind = "checkUserPermission" /\ q.service # NoService
    BY <1>4, <1>8 DEF IntegratedQuery, At, Placed
  <2> DEFINE A == IntegratedMatches(db, q.user, q.goal, q.service)
  <2>2. A = {x \in Permissions \cup Roles : \E r \in Roles : <<r, x>> \in Chains(db, q)}
    BY <1>2, <1>3, <2>1, PathsFindTheSame, StepwiseFollowsChains
  <2>3. \A x \in A : \E r \in Roles : <<r, x>> \in Chains(w.ever, q)
    BY <1>5, <2>2
  <2>4. ASSUME NEW ch \in w.chains
        PROVE  ch[2] \in A
    <3>1. ch \in Chains(db, q) /\ ch \in Roles \X (Permissions \cup Roles)
      BY <1>4 DEF Chains
    <3>2. ch = <<ch[1], ch[2]>> /\ ch[1] \in Roles /\ ch[2] \in Permissions \cup Roles
      BY <3>1
    <3> QED
      BY <2>2, <3>1, <3>2
  <2>5. Continue(c, Answered(k, A))
    BY <1>8 DEF IntegratedQuery
  <2>6. A \in SUBSET (Permissions \cup Roles)
    BY <2>2
  <2> QED
    BY <1>7, <2>3, <2>4, <2>5, <2>6
<1>9. CASE IntegratedQueryFails(c)
  <2> DEFINE n == [k EXCEPT !.phase = "roles"]
  <2>1. n \in Check
    BY <1>2 DEF Check, CheckPhases
  <2>2. /\ n.phase = "roles" /\ n.query = q
        /\ n.userRead = k.userRead /\ n.userRoles = k.userRoles
        /\ n.visibleRead = k.visibleRead /\ n.visibleRoles = k.visibleRoles
    BY <1>2 DEF Check
  <2>3. Continue(c, n)
    BY <1>9 DEF IntegratedQueryFails
  <2> HIDE DEF n
  <2>4. Sound(n, w)
    BY <1>4, <2>2 DEF Sound, Told, Placed, Collected
  <2> QED
    BY <1>1, <2>1, <2>2, <2>3, <2>4, ContinueSound
<1>10. CASE ReadUserRoles(c)
  <2> DEFINE n == [k EXCEPT !.userRead = TRUE, !.userRoles = RolesOf(db, q.user)]
  <2>1. RolesOf(db, q.user) \subseteq Roles
    BY DEF RolesOf
  <2>2. n \in Check
    BY <1>2, <2>1 DEF Check
  <2>3. /\ n.phase = "roles" /\ n.query = q
        /\ n.userRead = TRUE /\ n.userRoles = RolesOf(db, q.user)
        /\ n.visibleRead = k.visibleRead /\ n.visibleRoles = k.visibleRoles
    BY <1>2, <1>10 DEF Check, ReadUserRoles, At
  <2>4. Continue(c, AfterRoles(n))
    BY <1>10 DEF ReadUserRoles
  <2> HIDE DEF n
  <2>5. \A ch \in w.chains : ch[1] \in RolesOf(db, q.user)
    BY <1>4, ChainStart
  <2>6. Told(n, w)
    BY <1>4, <1>5, <2>3, <2>5 DEF Told
  <2>7. Open(db, n, w)
    BY <1>4, <2>3 DEF Open
  <2>8. Sound(AfterRoles(n), w)
    BY <1>2, <1>3, <2>2, <2>3, <2>6, <2>7, AfterRolesSound
  <2>9. AfterRoles(n) \in Check /\ AfterRoles(n).query = q
    BY <2>2, <2>3, AfterRolesType DEF AfterRoles, Answered, Check
  <2> QED
    BY <1>1, <2>4, <2>8, <2>9, ContinueSound
<1>11. CASE ReadVisibleRoles(c)
  <2> DEFINE n == [k EXCEPT !.visibleRead = TRUE, !.visibleRoles = VisibleRoles(db, q.service)]
  <2>1. VisibleRoles(db, q.service) \subseteq Roles
    BY DEF VisibleRoles
  <2>2. n \in Check
    BY <1>2, <2>1 DEF Check
  <2>3. /\ n.phase = "roles" /\ n.query = q /\ q.service # NoService
        /\ n.userRead = k.userRead /\ n.userRoles = k.userRoles
        /\ n.visibleRead = TRUE /\ n.visibleRoles = VisibleRoles(db, q.service)
    BY <1>2, <1>11 DEF Check, ReadVisibleRoles, At
  <2>4. Continue(c, AfterRoles(n))
    BY <1>11 DEF ReadVisibleRoles
  <2> HIDE DEF n
  <2>5. \A ch \in w.chains : ch[1] \in VisibleRoles(db, q.service)
    BY <1>4, <2>3, ChainStart
  <2>6. Told(n, w)
    BY <1>4, <1>5, <2>3, <2>5 DEF Told
  <2>7. Open(db, n, w)
    BY <1>4, <2>3 DEF Open
  <2>8. Sound(AfterRoles(n), w)
    BY <1>2, <1>3, <2>2, <2>3, <2>6, <2>7, AfterRolesSound
  <2>9. AfterRoles(n) \in Check /\ AfterRoles(n).query = q
    BY <2>2, <2>3, AfterRolesType DEF AfterRoles, Answered, Check
  <2> QED
    BY <1>1, <2>4, <2>8, <2>9, ContinueSound
<1>12. CASE ReadPermissionIds(c)
  <2> DEFINE ids == PermissionIds(db, UsableOf(k))
             n == [k EXCEPT !.phase = "catalog", !.permissionIds = ids]
  <2>1. BothRead(k) /\ NextRead(q.kind) = "grants"
    BY <1>4, <1>12 DEF ReadPermissionIds, At, Placed
  <2>2. \A ch \in w.chains : ch[2] \in ids
    <3> SUFFICES ASSUME NEW ch \in w.chains
                 PROVE  ch[2] \in ids
      OBVIOUS
    <3>1. <<ch[1], ch[2]>> \in db.role_permission /\ ch[2] \in Permissions
      BY <1>3, <1>4, <2>1, ChainGrant
    <3>2. ch[1] \in UsableOf(k)
      BY <1>2, <1>4, <2>1, UsableBacked
    <3> QED
      BY <3>1, <3>2 DEF PermissionIds
  <2>3. ids \subseteq Permissions
    BY DEF PermissionIds
  <2>4. CASE Continue(c, Answered(k, ids)) /\ q.kind = "getUserPermissions"
    <3>1. ASSUME NEW p \in ids
          PROVE  \E r \in Roles : <<r, p>> \in Chains(w.ever, q)
      <4>1. PICK r \in UsableOf(k) : <<r, p>> \in w.ever.role_permission
        BY <1>4 DEF PermissionIds, Covers
      <4>2. p \in ReportedPermissions(w.ever, q, {p})
        BY <2>4 DEF ReportedPermissions
      <4> QED
        BY <1>2, <1>4, <2>1, <2>3, <4>1, <4>2, UsableBacked, ChainOfGrant
    <3> QED
      BY <1>7, <2>2, <2>3, <2>4, <3>1
  <2>5. CASE Continue(c, Answered(k, ids)) /\ ids = {}
    BY <1>7, <2>2, <2>5
  <2>6. CASE Continue(c, n) /\ q.kind # "getUserPermissions"
    <3>1. n \in Check
      BY <1>2, <2>3 DEF Check, CheckPhases
    <3>2. /\ n.phase = "catalog" /\ n.query = q /\ n.permissionIds = ids
          /\ n.userRead = k.userRead /\ n.userRoles = k.userRoles
          /\ n.visibleRead = k.visibleRead /\ n.visibleRoles = k.visibleRoles
      BY <1>2 DEF Check
    <3> HIDE DEF n
    <3>3. UsableOf(n) = UsableOf(k)
      BY <3>2 DEF UsableOf
    <3>4. Told(n, w) /\ Placed(n)
      BY <1>4, <2>1, <2>6, <3>2 DEF Told, Placed, BothRead
    <3>5. Collected(n, w)
      BY <1>5, <2>2, <3>2, <3>3 DEF Collected
    <3>6. Sound(n, w)
      BY <3>2, <3>4, <3>5 DEF Sound
    <3> QED
      BY <1>1, <2>6, <3>1, <3>2, <3>6, ContinueSound
  <2> QED
    BY <1>6, <1>12, <2>4, <2>5, <2>6 DEF ReadPermissionIds
<1>13. CASE ReadPermissions(c)
  <2> DEFINE A == ReportedPermissions(db, q, k.permissionIds)
  <2>1. /\ BothRead(k) /\ NextRead(q.kind) = "grants"
        /\ k.permissionIds \subseteq PermissionIds(w.ever, UsableOf(k))
        /\ \A ch \in w.chains : ch[2] \in k.permissionIds
    BY <1>4, <1>13 DEF ReadPermissions, At, Placed, Collected
  <2>2. ASSUME NEW p \in A
        PROVE  p \in Permissions /\ \E r \in Roles : <<r, p>> \in Chains(w.ever, q)
    <3>1. p \in k.permissionIds /\ p \in ReportedPermissions(db, q, {p})
      BY ReportsOneByOne
    <3>2. p \in ReportedPermissions(w.ever, q, {p})
      BY <1>5, <3>1
    <3>3. p \in Permissions
      BY <2>1, <3>1 DEF PermissionIds
    <3>4. PICK r \in UsableOf(k) : <<r, p>> \in w.ever.role_permission
      BY <2>1, <3>1 DEF PermissionIds
    <3> QED
      BY <1>2, <1>4, <2>1, <3>2, <3>3, <3>4, UsableBacked, ChainOfGrant
  <2>3. ASSUME NEW ch \in w.chains
        PROVE  ch[2] \in A
    <3>1. ch[2] \in ReportedPermissions(db, q, {ch[2]})
      BY <1>3, <1>4, <2>1, ChainGrant
    <3> QED
      BY <2>1, <3>1, ReportsOneByOne
  <2>4. Continue(c, Answered(k, A))
    BY <1>13 DEF ReadPermissions
  <2>5. A \in SUBSET (Permissions \cup Roles)
    BY <2>2
  <2> QED
    BY <1>7, <2>2, <2>3, <2>4, <2>5
<1>14. CASE ReadRoles(c)
  <2> DEFINE A == ReportedRoles(db, q, UsableOf(k))
  <2>1. BothRead(k) /\ NextRead(q.kind) # "grants"
    BY <1>4, <1>14 DEF ReadRoles, At, Placed
  <2>2. ASSUME NEW x \in A
        PROVE  x \in Roles /\ <<x, x>> \in Chains(w.ever, q)
    <3>1. x \in UsableOf(k) /\ x \in ReportedRoles(db, q, {x})
      BY ReportsOneByOne
    <3>2. x \in ReportedRoles(w.ever, q, {x})
      BY <1>5, <3>1
    <3> QED
      BY <1>2, <1>4, <2>1, <3>1, <3>2, UsableBacked, ChainOfRole
  <2>3. ASSUME NEW ch \in w.chains
        PROVE  ch[2] \in A
    <3>1. ch[1] = ch[2] /\ ch[2] \in ReportedRoles(db, q, {ch[2]})
      BY <1>4, <2>1, ChainRole
    <3>2. ch[1] \in UsableOf(k)
      BY <1>2, <1>4, <2>1, UsableBacked
    <3> QED
      BY <3>1, <3>2, ReportsOneByOne
  <2>4. Continue(c, Answered(k, A))
    BY <1>6, <1>14 DEF ReadRoles
  <2>5. A \in SUBSET (Permissions \cup Roles)
    BY <2>2
  <2> QED
    BY <1>7, <2>2, <2>3, <2>4, <2>5
<1>15. CASE ReadFails(c)
  <2> DEFINE a == Answered(k, {})
             n == [a EXCEPT !.failed = TRUE]
  <2>1. a \in Check
    BY <1>2, AnsweredType
  <2>2. n \in Check
    BY <2>1 DEF Check
  <2>3. /\ n.phase = "done" /\ n.query = q /\ n.answer = {} /\ n.failed = TRUE
        /\ n.userRead = FALSE /\ n.visibleRead = FALSE
    BY <1>2, <2>1 DEF Answered, Check
  <2>4. Continue(c, n)
    BY <1>15 DEF ReadFails
  <2> HIDE DEF n
  <2>5. Sound(n, w)
    BY <2>3 DEF Sound, Told, Placed, Collected, Witnessed, Complete
  <2> QED
    BY <1>1, <2>2, <2>3, <2>4, <2>5, ContinueSound
<1> QED
  BY <1>8, <1>9, <1>10, <1>11, <1>12, <1>13, <1>14, <1>15 DEF Step

LEMMA CallSound ==
  ASSUME TypeOK, ReadInv, NEW c \in Checks, NEW q \in Queries, Call(c, q)
  PROVE  ReadInv'
<1> SUFFICES ASSUME NEW e \in Checks
             PROVE  /\ check'[e].phase # "absent" => Sound(check'[e], window'[e])
                    /\ Running(e)' => Open(db', check'[e], window'[e])
  BY DEF ReadInv
<1>1. CASE e = c
  <2>1. /\ check'[e].query = q
        /\ check'[e].userRead = FALSE /\ check'[e].visibleRead = FALSE
        /\ check'[e].phase = IF q.kind = "checkUserPermission" /\ q.service # NoService
                             THEN "integrated" ELSE "roles"
    BY <1>1 DEF Call, TypeOK
  <2>2. window'[e] = [ever |-> db, chains |-> Chains(db, q)] /\ db' = db
    BY <1>1 DEF Call, TypeOK
  <2>3. Sound(check'[e], window'[e])
    BY <2>1 DEF Sound, Told, Placed, Collected
  <2>4. Open(db', check'[e], window'[e])
    BY <2>1, <2>2 DEF Open, Covers
  <2> QED
    BY <2>3, <2>4
<1>2. CASE e # c
  <2>1. check'[e] = check[e] /\ window'[e] = window[e] /\ db' = db
    BY <1>2 DEF Call, TypeOK
  <2> QED
    BY <2>1 DEF ReadInv, Running
<1> QED
  BY <1>1, <1>2

LEMMA CommitSound ==
  ASSUME TypeOK, ReadInv, NEW new \in Snapshot, Commit(new)
  PROVE  ReadInv'
<1> SUFFICES ASSUME NEW e \in Checks
             PROVE  /\ check'[e].phase # "absent" => Sound(check'[e], window'[e])
                    /\ Running(e)' => Open(db', check'[e], window'[e])
  BY DEF ReadInv
<1>1. check' = check /\ db' = new
  BY DEF Commit
<1>2. CASE ~Running(e)
  <2>1. window'[e] = window[e]
    BY <1>2 DEF Commit
  <2> QED
    BY <1>1, <1>2, <2>1 DEF ReadInv, Running
<1>3. CASE Running(e)
  <2> DEFINE v == window[e]
             w == window'[e]
  <2>1. w = [ever |-> Overlay(v.ever, new), chains |-> v.chains \cap Chains(new, check[e].query)]
    BY <1>3 DEF Commit
  <2>2. v \in Window /\ w \in Window
    BY CommitType DEF TypeOK
  <2>3. check[e] \in Check /\ check[e].phase # "done" /\ Sound(check[e], v)
    BY <1>3, RunningType DEF ReadInv, Running
  <2>4. /\ Covers(w.ever, v.ever) /\ Covers(w.ever, new)
        /\ w.chains \subseteq v.chains /\ w.chains \subseteq Chains(new, check[e].query)
    BY <2>1 DEF Covers, Overlay
  <2> HIDE DEF v, w
  <2>5. Sound(check[e], w)
    BY <2>2, <2>3, <2>4, SoundStaysSound
  <2>6. Open(new, check[e], w)
    BY <2>4 DEF Open
  <2> QED
    BY <1>1, <2>5, <2>6 DEF w
<1> QED
  BY <1>2, <1>3

-----------------------------------------------------------------------------

\* What the proofs rest on holds always: what a call has read so far was shown, and
\* misses no chain unbroken since it was made.
THEOREM ReadInvariance == Spec => [](TypeOK /\ ReadInv)
<1>1. Init => ReadInv
  BY DEF Init, ReadInv, Absent, Running
<1>2. TypeOK /\ ReadInv /\ [Next]_vars => ReadInv'
  <2> SUFFICES ASSUME TypeOK, ReadInv, [Next]_vars
               PROVE  ReadInv'
    OBVIOUS
  <2>1. CASE UNCHANGED vars
    BY <2>1 DEF ReadInv, Running, vars
  <2>2. CASE Next
    BY <2>2, CallSound, StepSound, CommitSound, CommitsInstallSnapshots DEF Next
  <2> QED
    BY <2>1, <2>2
<1> QED
  BY <1>1, <1>2, TypeCorrect, PTL DEF Spec

\* Whatever commits between a call's SELECTs, every match it answers rests on links
\* the tables showed while it ran.
THEOREM AnswersWitnessed == Spec => []AnswersAreWitnessed
<1>1. TypeOK /\ ReadInv => AnswersAreWitnessed
  BY DEF ReadInv, Sound, Witnessed, AnswersAreWitnessed, Finished
<1> QED
  BY <1>1, ReadInvariance, PTL

\* Whatever commits between a call's SELECTs, what the user held throughout is in
\* the answer.
THEOREM SteadyChainsAnswered == Spec => []SteadyChainsAreAnswered
<1>1. TypeOK /\ ReadInv => SteadyChainsAreAnswered
  BY DEF ReadInv, Sound, Complete, SteadyChainsAreAnswered, Finished
<1> QED
  BY <1>1, ReadInvariance, PTL

-----------------------------------------------------------------------------
(* The promise to the callers. *)

Asked == [c \in Checks |-> CallOf(check[c])]
Steady == [c \in Checks |-> window[c].chains]
Seen == [c \in Checks |-> SeenBy(check[c], window[c])]

\* A failure ends a call, without an answer.
FailsClosed(k) == k.failed => k.phase = "done" /\ k.answer = {}

PromiseInv == /\ TypeOK
              /\ ReadInv
              /\ \A c \in Checks : check[c].phase # "absent" => FailsClosed(check[c])

LEMMA AnsweredFields ==
  ASSUME NEW k \in Check, NEW A
  PROVE  /\ Answered(k, A).query = k.query /\ Answered(k, A).phase = "done"
         /\ Answered(k, A).answer = A /\ Answered(k, A).failed = k.failed
BY DEF Answered, Check

\* A call goes on with the same query; only a failed one has failed.
Follows(k, n) == n \in Check /\ n.query = k.query /\ FailsClosed(n)

LEMMA AnsweredFollows ==
  ASSUME NEW k \in Check, ~k.failed, NEW A \in SUBSET (Permissions \cup Roles)
  PROVE  Follows(k, Answered(k, A))
BY AnsweredType, AnsweredFields DEF Follows, FailsClosed

LEMMA AfterRolesFollows ==
  ASSUME NEW k \in Check, ~k.failed
  PROVE  Follows(k, AfterRoles(k))
<1> DEFINE usable == UsableRoles(k.userRoles, k.visibleRoles, k.query.service)
           n == [k EXCEPT !.phase = NextRead(k.query.kind)]
<1>1. AfterRoles(k) \in {k, Answered(k, usable), n}
  BY DEF AfterRoles
<1>2. n.query = k.query /\ n.failed = k.failed
  BY DEF Check
<1>3. Answered(k, usable).query = k.query /\ Answered(k, usable).failed = k.failed
  BY AnsweredFields
<1> HIDE DEF usable, n
<1>4. QED
  BY <1>1, <1>2, <1>3, AfterRolesType DEF Follows, FailsClosed

LEMMA StepFollows ==
  ASSUME PromiseInv, NEW c \in Checks, Step(c)
  PROVE  Running(c) /\ \E n : Follows(check[c], n) /\ Continue(c, n)
<1> DEFINE k == check[c]
<1>1. Running(c)
  BY DEF Step, IntegratedQuery, IntegratedQueryFails, ReadUserRoles, ReadVisibleRoles,
         ReadPermissionIds, ReadPermissions, ReadRoles, ReadFails, Running, At
<1> SUFFICES \E n : Follows(k, n) /\ Continue(c, n)
  BY <1>1
<1>2. k \in Check /\ k.query \in Query /\ ~k.failed /\ db \in Snapshot
  BY <1>1, RunningType DEF PromiseInv, FailsClosed, Running, TypeOK
<1>3. Usable(c) \in SUBSET Roles
  BY <1>2 DEF Usable, UsableRoles, Check
<1>4. ASSUME NEW A \in SUBSET (Permissions \cup Roles), Continue(c, Answered(k, A))
      PROVE  \E n : Follows(k, n) /\ Continue(c, n)
  BY <1>2, <1>4, AnsweredFollows
<1>5. CASE IntegratedQuery(c)
  BY <1>2, <1>4, <1>5, SelectTypes DEF IntegratedQuery
<1>6. CASE IntegratedQueryFails(c)
  <2> DEFINE n == [k EXCEPT !.phase = "roles"]
  <2>1. n \in Check /\ n.query = k.query /\ n.failed = k.failed
    BY <1>2 DEF Check, CheckPhases
  <2>2. Continue(c, n)
    BY <1>6 DEF IntegratedQueryFails
  <2> HIDE DEF n
  <2>3. QED
    BY <1>2, <2>1, <2>2 DEF Follows, FailsClosed
<1>7. CASE ReadUserRoles(c)
  <2> DEFINE n == [k EXCEPT !.userRead = TRUE, !.userRoles = RolesOf(db, k.query.user)]
  <2>1. RolesOf(db, k.query.user) \subseteq Roles
    BY DEF RolesOf
  <2>2. n \in Check /\ n.query = k.query /\ n.failed = k.failed
    BY <1>2, <2>1 DEF Check
  <2>3. Continue(c, AfterRoles(n))
    BY <1>7 DEF ReadUserRoles
  <2> HIDE DEF n
  <2>4. QED
    BY <1>2, <2>2, <2>3, AfterRolesFollows DEF Follows
<1>8. CASE ReadVisibleRoles(c)
  <2> DEFINE n == [k EXCEPT !.visibleRead = TRUE, !.visibleRoles = VisibleRoles(db, k.query.service)]
  <2>1. VisibleRoles(db, k.query.service) \subseteq Roles
    BY DEF VisibleRoles
  <2>2. n \in Check /\ n.query = k.query /\ n.failed = k.failed
    BY <1>2, <2>1 DEF Check
  <2>3. Continue(c, AfterRoles(n))
    BY <1>8 DEF ReadVisibleRoles
  <2> HIDE DEF n
  <2>4. QED
    BY <1>2, <2>2, <2>3, AfterRolesFollows DEF Follows
<1>9. CASE ReadPermissionIds(c)
  <2> DEFINE ids == PermissionIds(db, Usable(c))
             n == [k EXCEPT !.phase = "catalog", !.permissionIds = ids]
  <2>1. ids \subseteq Permissions
    BY DEF PermissionIds
  <2>2. Continue(c, Answered(k, ids)) \/ Continue(c, n)
    BY <1>9 DEF ReadPermissionIds
  <2>3. n \in Check /\ n.query = k.query /\ n.failed = k.failed
    BY <1>2, <2>1 DEF Check, CheckPhases
  <2>4. ids \in SUBSET (Permissions \cup Roles)
    BY <2>1
  <2> HIDE DEF n, ids
  <2>5. QED
    BY <1>2, <1>4, <2>2, <2>3, <2>4 DEF Follows, FailsClosed
<1>10. CASE ReadPermissions(c)
  <2>1. k.permissionIds \in SUBSET Permissions
    BY <1>2 DEF Check
  <2>2. ReportedPermissions(db, k.query, k.permissionIds) \in SUBSET (Permissions \cup Roles)
    BY <1>2, <2>1, SelectTypes
  <2>3. QED
    BY <1>4, <1>10, <2>2 DEF ReadPermissions
<1>11. CASE ReadRoles(c)
  <2>1. ReportedRoles(db, k.query, Usable(c)) \in SUBSET (Permissions \cup Roles)
    BY <1>2, <1>3, SelectTypes
  <2>2. QED
    BY <1>4, <1>11, <2>1 DEF ReadRoles
<1>12. CASE ReadFails(c)
  <2> DEFINE a == Answered(k, {})
             n == [a EXCEPT !.failed = TRUE]
  <2>1. a \in Check /\ a.query = k.query /\ a.phase = "done" /\ a.answer = {}
    BY <1>2, AnsweredType, AnsweredFields
  <2>2. n \in Check /\ n.query = k.query /\ n.phase = "done" /\ n.answer = {}
    BY <2>1 DEF Check
  <2>3. Continue(c, n)
    BY <1>12 DEF ReadFails
  <2> HIDE DEF n
  <2>4. QED
    BY <2>2, <2>3 DEF Follows, FailsClosed
<1>13. QED
  BY <1>1, <1>5, <1>6, <1>7, <1>8, <1>9, <1>10, <1>11, <1>12 DEF Step

\* What a call shows of itself before it is answered, and then.
LEMMA CallOfWaiting ==
  ASSUME NEW k \in Check, k.phase # "done"
  PROVE  CallOf(k) = [state |-> "waiting", query |-> k.query]
BY DEF CallOf, Check, CheckPhases

LEMMA CallOfAnswered ==
  ASSUME NEW k \in Check, k.phase = "done"
  PROVE  CallOf(k) = [state |-> "answered", query |-> k.query, failed |-> k.failed,
                      answer |-> k.answer]
BY DEF CallOf, Check, CheckPhases

LEMMA SeenByCalled ==
  ASSUME NEW k \in Check, NEW w
  PROVE  SeenBy(k, w) = Chains(w.ever, k.query)
BY DEF SeenBy, Check, CheckPhases

LEMMA RunningWaits ==
  ASSUME TypeOK, NEW c \in Checks
  PROVE  /\ Running(c) <=> Asked[c].state = "waiting"
         /\ Running(c) => /\ check[c] \in Check /\ check[c].phase # "done"
                          /\ Asked[c] = [state |-> "waiting", query |-> check[c].query]
                          /\ Seen[c] = Chains(window[c].ever, check[c].query)
<1>1. CASE Running(c)
  <2>1. check[c] \in Check /\ check[c].phase # "done"
    BY <1>1, RunningType DEF Running
  <2>2. QED
    BY <1>1, <2>1, CallOfWaiting, SeenByCalled DEF Asked, Seen
<1>2. CASE check[c] = Absent
  BY <1>2 DEF Running, Absent, Asked, CallOf
<1>3. CASE check[c] # Absent /\ ~Running(c)
  <2>1. check[c] \in Check /\ check[c].phase = "done"
    BY <1>3 DEF TypeOK, Running, Check, CheckPhases
  <2>2. QED
    BY <1>3, <2>1, CallOfAnswered DEF Asked
<1>4. QED
  BY <1>1, <1>2, <1>3

\* A step of a call that goes on shows nothing; one that ends it is its answer.
LEMMA StepIsPromised ==
  ASSUME PromiseInv, PromiseInv', NEW c \in Checks, Step(c)
  PROVE  /\ Steady' = Steady /\ Seen' = Seen
         /\ Asked' = Asked \/ Promise!Answer(c) \/ Promise!Fail(c)
<1> DEFINE w == window[c]
           q == check[c].query
<1>1. PICK n : Follows(check[c], n) /\ Continue(c, n) /\ Running(c)
  BY StepFollows
<1>2. /\ check' = [check EXCEPT ![c] = n] /\ window' = window /\ check'[c] = n
      /\ TypeOK /\ n \in Check /\ n.query = q /\ FailsClosed(n)
  BY <1>1 DEF Continue, PromiseInv, TypeOK, Follows
<1>3. Asked' = [Asked EXCEPT ![c] = CallOf(n)] /\ Asked'[c] = CallOf(n)
  BY <1>2 DEF Asked, TypeOK
<1>4. /\ check[c] \in Check /\ Seen[c] = Chains(w.ever, q)
      /\ Asked[c] = [state |-> "waiting", query |-> q]
  BY <1>1, <1>2, RunningWaits
<1>5. SeenBy(n, w) = SeenBy(check[c], w)
  BY <1>2, <1>4, SeenByCalled
<1>6. Steady' = Steady /\ Seen' = Seen
  BY <1>2, <1>5 DEF Steady, Seen, TypeOK
<1>7. CASE n.phase # "done"
  <2>1. CallOf(n) = Asked[c]
    BY <1>2, <1>4, <1>7, CallOfWaiting
  <2>2. QED
    BY <1>3, <1>6, <2>1 DEF Asked
<1>8. CASE n.phase = "done" /\ n.failed
  <2>1. CallOf(n) = [state |-> "answered", query |-> q, failed |-> n.failed, answer |-> n.answer]
    BY <1>2, <1>8, CallOfAnswered
  <2>2. n.failed = TRUE /\ n.answer = {}
    BY <1>2, <1>8 DEF FailsClosed, Check
  <2>3. Asked[c].state = "waiting" /\ Asked[c].query = q
    BY <1>4
  <2>4. Asked' = [Asked EXCEPT ![c] = Promise!Answered(Asked[c].query, TRUE, {})]
    BY <1>3, <2>1, <2>2, <2>3 DEF Promise!Answered
  <2>5. QED
    BY <1>6, <2>3, <2>4
    DEF Promise!Fail, Promise!Waits, Promise!links, Asked, Steady, Seen
<1>9. CASE n.phase = "done" /\ ~n.failed
  <2>1. CallOf(n) = [state |-> "answered", query |-> q, failed |-> n.failed, answer |-> n.answer]
    BY <1>2, <1>9, CallOfAnswered
  <2>2. n.failed = FALSE
    BY <1>2, <1>9 DEF Check
  <2>3. Asked[c].state = "waiting" /\ Asked[c].query = q /\ Steady[c] = w.chains
    BY <1>4 DEF Steady
  <2>4. Asked'[c].state = "answered" /\ Asked'[c].answer = n.answer
    BY <1>3, <2>1
  <2>5. Sound(n, w)
    <3>1. ReadInv'
      BY DEF PromiseInv
    <3>2. Sound(check'[c], window'[c])
      BY <1>2, <1>9, <3>1 DEF ReadInv
    <3>3. QED
      BY <1>2, <3>2
  <2>6. Witnessed(n, w) /\ Complete(n, w)
    BY <1>9, <2>5 DEF Sound
  <2>7. Promise!Reached(Steady[c]) \subseteq Asked'[c].answer
    BY <1>9, <2>3, <2>4, <2>6 DEF Complete, Promise!Reached
  <2>8. Asked'[c].answer \subseteq Promise!Reached(Seen[c])
    <3> SUFFICES ASSUME NEW x \in n.answer
                 PROVE  \E l \in Chains(w.ever, q) : x = l[2]
      BY <1>4, <2>4 DEF Promise!Reached
    <3>1. PICK r \in Roles : <<r, x>> \in Chains(w.ever, q)
      BY <1>2, <2>6 DEF Witnessed
    <3>2. QED
      BY <3>1
  <2>9. Asked' = [Asked EXCEPT ![c] =
                    Promise!Answered(Asked[c].query, FALSE, Asked'[c].answer)]
    BY <1>3, <2>1, <2>2, <2>3, <2>4 DEF Promise!Answered
  <2>10. QED
    BY <1>6, <2>3, <2>4, <2>7, <2>8, <2>9
    DEF Promise!Answer, Promise!Waits, Promise!links, Asked, Steady, Seen
<1>10. QED
  BY <1>6, <1>7, <1>8, <1>9

LEMMA CallIsPromised ==
  ASSUME PromiseInv, PromiseInv', NEW c \in Checks, NEW q \in Queries, Call(c, q)
  PROVE  Promise!Ask(c)
<1> DEFINE chains == Chains(db, q)
<1>1. TypeOK /\ TypeOK' /\ q \in Query
  BY QueriesAssumption DEF PromiseInv
<1>2. /\ check'[c].query = q /\ check'[c].phase \in {"integrated", "roles"}
      /\ check'[c] \in Check \cup {Absent}
      /\ window'[c] = [ever |-> db, chains |-> chains]
      /\ \A e \in Checks : e # c => check'[e] = check[e] /\ window'[e] = window[e]
  BY <1>1 DEF Call, TypeOK
<1>3. check'[c] \in Check
  BY <1>2 DEF Absent
<1>4. CallOf(check'[c]) = [state |-> "waiting", query |-> q]
  BY <1>2, <1>3, CallOfWaiting
<1>5. SeenBy(check'[c], window'[c]) = chains
  BY <1>2, <1>3, SeenByCalled
<1>6. /\ Asked' = [Asked EXCEPT ![c] = Promise!Waiting(q)]
      /\ Steady'[c] = chains
      /\ Steady' = [Steady EXCEPT ![c] = chains]
      /\ Seen' = [Seen EXCEPT ![c] = chains]
  <2>1. window'[c].chains = chains
    BY <1>2
  <2> HIDE DEF chains
  <2>2. Asked' = [Asked EXCEPT ![c] = Promise!Waiting(q)]
    BY <1>2, <1>4 DEF Asked, Promise!Waiting
  <2>3. Steady' = [Steady EXCEPT ![c] = chains] /\ Steady'[c] = chains
    BY <1>2, <2>1 DEF Steady
  <2>4. Seen' = [Seen EXCEPT ![c] = chains]
    BY <1>2, <1>5 DEF Seen
  <2>5. QED
    BY <2>2, <2>3, <2>4
<1>7. chains \subseteq Roles \X (Permissions \cup Roles)
  BY DEF Chains
<1>8. Asked[c].state # "waiting"
  BY <1>1, RunningWaits DEF Call
<1> HIDE DEF chains
<1>9. QED
  BY <1>6, <1>7, <1>8 DEF Promise!Ask, Promise!Waits, Asked, Steady, Seen

\* A commit breaks chains and shows new ones, under every call that runs.
LEMMA CommitIsPromised ==
  ASSUME PromiseInv, PromiseInv', NEW new \in Snapshot, Commit(new)
  PROVE  Promise!LinksChange
<1>1. TypeOK /\ TypeOK' /\ check' = check
  BY DEF PromiseInv, Commit
<1>2. ASSUME NEW c \in Checks, Running(c)
      PROVE  Steady'[c] \subseteq Steady[c] /\ Seen[c] \subseteq Seen'[c]
  <2> DEFINE q == check[c].query
             v == window[c]
             w == window'[c]
  <2>1. w = [ever |-> Overlay(v.ever, new), chains |-> v.chains \cap Chains(new, q)]
    BY <1>2 DEF Commit
  <2>2. v \in Window /\ w \in Window /\ check[c] \in Check
    BY <1>1, <1>2, RunningWaits DEF TypeOK
  <2>3. Covers(w.ever, v.ever) /\ w.chains \subseteq v.chains
    BY <2>1 DEF Covers, Overlay
  <2>4. Steady[c] = v.chains /\ Steady'[c] = w.chains
    BY DEF Steady
  <2>5. Seen[c] = Chains(v.ever, q) /\ Seen'[c] = Chains(w.ever, q)
    BY <1>1, <2>2, SeenByCalled DEF Seen
  <2> HIDE DEF v, w
  <2>6. v.ever \in Snapshot /\ w.ever \in Snapshot
    BY <2>2 DEF Window
  <2>7. Chains(v.ever, q) \subseteq Chains(w.ever, q)
    BY <2>3, <2>6, Monotone
  <2>8. QED
    BY <2>3, <2>4, <2>5, <2>7
<1>3. ASSUME NEW c \in Checks, ~Running(c)
      PROVE  Steady'[c] = Steady[c] /\ Seen'[c] = Seen[c]
  BY <1>1, <1>3 DEF Steady, Seen, Commit
<1>4. \A c \in Checks : Running(c) <=> Asked[c].state = "waiting"
  BY <1>1, RunningWaits
<1>5. Asked' = Asked
  BY <1>1 DEF Asked
<1>6. /\ Steady' \in [Checks -> SUBSET (Roles \X (Permissions \cup Roles))]
      /\ Seen' \in [Checks -> SUBSET (Roles \X (Permissions \cup Roles))]
  BY <1>1 DEF TypeOK, Window, Steady, Seen, SeenBy, Chains
<1>7. QED
  BY <1>2, <1>3, <1>4, <1>5, <1>6
  DEF Promise!LinksChange, Promise!Waits, Asked, Steady, Seen

LEMMA FailsClosedKept ==
  ASSUME PromiseInv, [Next]_vars, NEW e \in Checks, check'[e].phase # "absent"
  PROVE  FailsClosed(check'[e])
<1>1. TypeOK /\ (check[e].phase # "absent" => FailsClosed(check[e]))
  BY DEF PromiseInv
<1>2. CASE check'[e] = check[e]
  BY <1>1, <1>2
<1>3. ASSUME NEW c \in Checks, NEW q \in Queries, Call(c, q)
      PROVE  FailsClosed(check'[e])
  BY <1>1, <1>2, <1>3 DEF Call, TypeOK, FailsClosed
<1>4. ASSUME NEW c \in Checks, Step(c)
      PROVE  FailsClosed(check'[e])
  <2>1. PICK n : Follows(check[c], n) /\ Continue(c, n)
    BY <1>4, StepFollows
  <2>2. QED
    BY <1>1, <1>2, <2>1 DEF Continue, Follows, TypeOK
<1>5. ASSUME NEW new \in Snapshot, Commit(new)
      PROVE  FailsClosed(check'[e])
  BY <1>2, <1>5 DEF Commit
<1>6. CASE UNCHANGED vars
  BY <1>2, <1>6 DEF vars
<1>7. QED
  BY <1>1, <1>3, <1>4, <1>5, <1>6, CommitsInstallSnapshots DEF Next

\* What the refinement rests on holds always: a call's record is sound, and a failed call
\* has ended without an answer.
THEOREM PromiseInvariance == Spec => []PromiseInv
<1>1. TypeOK /\ ReadInv /\ Init => PromiseInv
  BY DEF Init, PromiseInv, Absent
<1>2. TypeOK /\ ReadInv /\ (TypeOK /\ ReadInv)' /\ PromiseInv /\ [Next]_vars => PromiseInv'
  BY FailsClosedKept DEF PromiseInv, FailsClosed
<1>3. QED
  BY <1>1, <1>2, ReadInvariance, PTL DEF Spec

\* Every method, on every table and under all commits, keeps the promise: one answer,
\* with all that was held throughout and nothing that was never shown.
THEOREM PromiseKept == Spec => KeepsPromise
<1> DEFINE shown == <<Asked, <<Steady, Seen>>>>
<1>1. Init => Promise!Init
  BY DEF Init, Promise!Init, Promise!NoCall, CallOf, SeenBy, Absent, NoWindow
<1>2. PromiseInv /\ PromiseInv' /\ [Next]_vars => [Promise!Next]_shown
  <2> SUFFICES ASSUME PromiseInv, PromiseInv', [Next]_vars
               PROVE  [Promise!Next]_shown
    OBVIOUS
  <2>1. CASE UNCHANGED vars
    BY <2>1 DEF vars, Asked, Steady, Seen
  <2>2. ASSUME NEW c \in Checks, NEW q \in Queries, Call(c, q)
        PROVE  Promise!Next
    BY <2>2, CallIsPromised DEF Promise!Next
  <2>3. ASSUME NEW c \in Checks, Step(c)
        PROVE  [Promise!Next]_shown
    BY <2>3, StepIsPromised DEF Promise!Next
  <2>4. ASSUME NEW new \in Snapshot, Commit(new)
        PROVE  Promise!Next
    BY <2>4, CommitIsPromised DEF Promise!Next
  <2>5. TypeOK
    BY DEF PromiseInv
  <2>6. QED
    BY <2>1, <2>2, <2>3, <2>4, <2>5, CommitsInstallSnapshots DEF Next
<1>3. QED
  BY <1>1, <1>2, PromiseInvariance, PTL
  DEF Spec, KeepsPromise, Promise!Spec, Promise!vars, Promise!links, Asked, Steady, Seen

=============================================================================
