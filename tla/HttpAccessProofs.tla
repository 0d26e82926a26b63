--------------------------- MODULE HttpAccessProofs ---------------------------
(****************************************************************************)
(* Proofs about checkComplexPermission and the requests that are let in by  *)
(* it, for any actions, roles, requirements and number of calls.            *)
(****************************************************************************)
EXTENDS HttpAccess, TLAPS

-----------------------------------------------------------------------------
(* Requirements read as statements about a set of goals are monotonic, and only *)
(* the goals they name matter.                                                 *)

LEMMA PermissionsGrow ==
  ASSUME NEW need, NEW S, NEW T, S \cap need.permissions \subseteq T,
         PermissionResult(need, S)
  PROVE  PermissionResult(need, T)
BY DEF PermissionResult, hasAnyPermission, hasAllPermissions

LEMMA RolesGrow ==
  ASSUME NEW need, NEW S, NEW T, S \cap need.roles \subseteq T, RoleResult(need, S)
  PROVE  RoleResult(need, T)
BY DEF RoleResult, hasAnyRole, hasAllRoles

\* The result of an empty list is true whatever the user holds.
LEMMA NoRolesNeeded ==
  ASSUME NEW need, NEW S, need.roles = {}
  PROVE  RoleResult(need, S)
BY DEF RoleResult, hasAnyRole, hasAllRoles

-----------------------------------------------------------------------------
(* The progress of a call. *)

\* The checks still pending are of the list that is being asked about, and without a
\* failure every goal of it held throughout has been granted or is pending.
Asking(k, list) ==
  /\ k.pending \subseteq list
  /\ ~k.failed => k.sure \cap list \subseteq k.granted \cup k.pending

\* result is true only if the seen goals suffice, and, without a failure, if the steady do.
Backed(k, result, seen, steady) ==
  /\ result => seen
  /\ ~k.failed /\ steady => result

MeetsFairly(k, answer) == Backed(k, answer, Meets(k.need, k.maybe), Meets(k.need, k.sure))

PermittedFairly(k, result) ==
  Backed(k, result, PermissionResult(k.need, k.maybe), PermissionResult(k.need, k.sure))

Good(k) ==
  /\ k.granted \subseteq k.maybe /\ k.sure \subseteq k.maybe
  /\ k.phase = "permissions" => Asking(k, k.need.permissions)
  /\ k.phase = "roles" => Asking(k, k.need.roles) /\ PermittedFairly(k, k.permissionResult)
  /\ k.phase = "done" => MeetsFairly(k, k.answer)

LEMMA DoneIsGood ==
  ASSUME NEW k \in Call, k.sure \subseteq k.maybe,
         NEW answer \in BOOLEAN, MeetsFairly(k, answer)
  PROVE  Done(k, answer) \in Call /\ Good(Done(k, answer))
<1>1. Done(k, answer) \in Call
  BY DEF Done, Call
<1>2. Good(Done(k, answer))
  BY DEF Done, Good, MeetsFairly, Backed
<1> QED
  BY <1>1, <1>2

\* Settling a call keeps what is known of it.
LEMMA SettleIsGood ==
  ASSUME NEW k \in Call, Good(k), k.phase # "done"
  PROVE  Settle(k) \in Call /\ Good(Settle(k))
<1> DEFINE p == PermissionResult(k.need, k.granted)
           r == RoleResult(k.need, k.granted)
<1>1. p \in BOOLEAN /\ r \in BOOLEAN
  BY DEF PermissionResult, RoleResult, hasAnyPermission, hasAllPermissions, hasAnyRole, hasAllRoles
<1>2. k.need \in Requirement /\ k.phase \in {"permissions", "roles"}
      /\ k.permissionResult \in BOOLEAN
  BY DEF Call
<1>3. CASE k.pending # {}
  BY <1>3 DEF Settle
<1>4. ASSUME k.pending = {}, k.phase = "permissions"
      PROVE  PermittedFairly(k, p)
  <2>1. p => PermissionResult(k.need, k.maybe)
    BY PermissionsGrow DEF Good
  <2>2. ASSUME ~k.failed, PermissionResult(k.need, k.sure) PROVE p
    BY <1>4, <2>2, PermissionsGrow DEF Good, Asking
  <2> QED
    BY <2>1, <2>2 DEF Backed, PermittedFairly
<1>5. CASE k.pending = {} /\ k.phase = "permissions" /\ k.need.roles # {}
  <2> DEFINE n == AsksRoles(k, p)
  <2>1. Settle(k) = n
    BY <1>5 DEF Settle
  <2>2. n \in Call
    BY <1>1, <1>2 DEF Call, AsksRoles, Requirement, Goals
  <2>3. n.phase = "roles" /\ n.granted = k.granted /\ n.sure = k.sure /\ n.maybe = k.maybe
    BY DEF AsksRoles
  <2>4. Asking(n, n.need.roles)
    BY DEF AsksRoles, Asking
  <2>5. PermittedFairly(n, n.permissionResult)
    BY <1>4, <1>5 DEF AsksRoles, PermittedFairly, Backed
  <2>6. Good(n)
    BY <2>3, <2>4, <2>5 DEF Good
  <2> QED
    BY <2>1, <2>2, <2>6
<1>6. CASE k.pending = {} /\ k.phase = "permissions" /\ k.need.roles = {}
  <2> DEFINE a == Combine(k.need, p, TRUE)
  <2>1. Settle(k) = Done(k, a)
    BY <1>6 DEF Settle
  <2>2. a \in BOOLEAN
    BY <1>1 DEF Combine
  <2>3. RoleResult(k.need, k.maybe) /\ RoleResult(k.need, k.sure)
    BY <1>6, NoRolesNeeded
  <2>4. MeetsFairly(k, a)
    BY <1>4, <1>6, <2>3 DEF Backed, Meets, Combine, MeetsFairly, PermittedFairly
  <2> QED
    BY <2>1, <2>2, <2>4, DoneIsGood DEF Good
<1>7. CASE k.pending = {} /\ k.phase = "roles"
  <2> DEFINE a == Combine(k.need, k.permissionResult, r)
  <2>1. Settle(k) = Done(k, a)
    BY <1>7 DEF Settle
  <2>2. a \in BOOLEAN
    BY <1>1, <1>2 DEF Combine
  <2>3. r => RoleResult(k.need, k.maybe)
    BY RolesGrow DEF Good
  <2>4. ASSUME ~k.failed, RoleResult(k.need, k.sure) PROVE r
    BY <1>7, <2>4, RolesGrow DEF Good, Asking
  <2>5. PermittedFairly(k, k.permissionResult)
    BY <1>7 DEF Good
  <2>6. MeetsFairly(k, a)
    BY <2>3, <2>4, <2>5 DEF Backed, Meets, Combine, MeetsFairly, PermittedFairly
  <2> QED
    BY <2>1, <2>2, <2>6, DoneIsGood DEF Good
<1> QED
  BY <1>2, <1>3, <1>5, <1>6, <1>7

-----------------------------------------------------------------------------
(* The steps of a call. *)

LEMMA StartIsGood ==
  ASSUME NEW need \in Requirement, NEW held \in SUBSET Asked(need)
  PROVE  Started(need, held) \in Call /\ Good(Started(need, held))
<1> DEFINE k == [need |-> need, phase |-> "permissions", pending |-> need.permissions,
                 granted |-> {}, permissionResult |-> TRUE, sure |-> held, maybe |-> held,
                 failed |-> FALSE, answer |-> FALSE]
<1>1. held \subseteq Goals /\ need.permissions \subseteq Goals
  BY DEF Asked, Requirement, Goals
<1>2. k \in Call
  BY <1>1 DEF Call
<1>3. Good(k)
  BY DEF Good, Asking
<1>4. k.phase # "done" /\ Started(need, held) = Settle(k)
  BY DEF Started
<1> HIDE DEF k
<1> QED
  BY <1>2, <1>3, <1>4, SettleIsGood

LEMMA HeardIsGood ==
  ASSUME NEW k \in Call, Good(k), k.phase \in {"permissions", "roles"},
         NEW goal \in k.pending, NEW yes \in BOOLEAN, NEW failed \in BOOLEAN,
         yes => goal \in k.maybe, ~yes => goal \notin k.sure \/ failed
  PROVE  Settle(Heard(k, goal, yes, failed)) \in Call /\ Good(Settle(Heard(k, goal, yes, failed)))
<1> DEFINE h == Heard(k, goal, yes, failed)
<1>1. h \in Call
  BY DEF Heard, Call
<1>2. h.phase = k.phase /\ h.need = k.need /\ h.sure = k.sure /\ h.maybe = k.maybe
      /\ h.permissionResult = k.permissionResult /\ (h.failed <=> k.failed \/ failed)
      /\ h.pending = k.pending \ {goal}
      /\ h.granted = IF yes THEN k.granted \cup {goal} ELSE k.granted
  BY DEF Heard
<1> HIDE DEF h
<1>3. h.granted \subseteq h.maybe /\ h.sure \subseteq h.maybe
  BY <1>2 DEF Good
<1>4. ASSUME NEW list, Asking(k, list) PROVE Asking(h, list)
  BY <1>2, <1>4 DEF Asking
<1>5. PermittedFairly(k, k.permissionResult) => PermittedFairly(h, h.permissionResult)
  BY <1>2 DEF PermittedFairly, Backed
<1>6. Good(h) /\ h.phase # "done"
  BY <1>2, <1>3, <1>4, <1>5 DEF Good
<1> QED
  BY <1>1, <1>6, SettleIsGood DEF h

LEMMA LoseIsGood ==
  ASSUME NEW k \in Call, Good(k), k.phase \in {"permissions", "roles"}, NEW goal
  PROVE  [k EXCEPT !.sure = @ \ {goal}] \in Call /\ Good([k EXCEPT !.sure = @ \ {goal}])
<1> DEFINE l == [k EXCEPT !.sure = @ \ {goal}]
<1>1. l \in Call
  BY DEF Call
<1>2. l.phase = k.phase /\ l.need = k.need /\ l.sure = k.sure \ {goal} /\ l.maybe = k.maybe
      /\ l.permissionResult = k.permissionResult /\ l.failed = k.failed
      /\ l.pending = k.pending /\ l.granted = k.granted
  BY DEF Call
<1> HIDE DEF l
<1>3. ASSUME NEW list, Asking(k, list) PROVE Asking(l, list)
  BY <1>2, <1>3 DEF Asking
<1>4. PermissionResult(l.need, l.sure) => PermissionResult(k.need, k.sure)
  BY <1>2, PermissionsGrow
<1>5. PermittedFairly(k, k.permissionResult) => PermittedFairly(l, l.permissionResult)
  BY <1>2, <1>4 DEF PermittedFairly, Backed
<1>6. Good(l)
  BY <1>2, <1>3, <1>5 DEF Good
<1> QED
  BY <1>1, <1>6 DEF l

LEMMA GainIsGood ==
  ASSUME NEW k \in Call, Good(k), k.phase \in {"permissions", "roles"},
         NEW goal \in Goals
  PROVE  [k EXCEPT !.maybe = @ \cup {goal}] \in Call /\ Good([k EXCEPT !.maybe = @ \cup {goal}])
<1> DEFINE g == [k EXCEPT !.maybe = @ \cup {goal}]
<1>1. g \in Call
  BY DEF Call
<1>2. g.phase = k.phase /\ g.need = k.need /\ g.sure = k.sure /\ g.maybe = k.maybe \cup {goal}
      /\ g.permissionResult = k.permissionResult /\ g.failed = k.failed
      /\ g.pending = k.pending /\ g.granted = k.granted
  BY DEF Call
<1> HIDE DEF g
<1>3. ASSUME NEW list, Asking(k, list) PROVE Asking(g, list)
  BY <1>2, <1>3 DEF Asking
<1>4. PermissionResult(k.need, k.maybe) => PermissionResult(g.need, g.maybe)
  BY <1>2, PermissionsGrow
<1>5. PermittedFairly(k, k.permissionResult) => PermittedFairly(g, g.permissionResult)
  BY <1>2, <1>4 DEF PermittedFairly, Backed
<1>6. Good(g)
  BY <1>2, <1>3, <1>5 DEF Good
<1> QED
  BY <1>1, <1>6 DEF g

-----------------------------------------------------------------------------
(* The inductive invariant. *)

\* A request's call is the one its route asks for, and its status is what the call's
\* answer says.
Consistent(h, k) ==
  /\ h.status # "none" => Serves(h.served, h.route)
  /\ h.status \in {"token", "unauthorized"} => k.phase = "absent"
  /\ h.status \in {"access", "input", "forbidden", "badRequest", "handled"} =>
       k.phase # "absent" /\ k.need = RequireAccess(Routes[h.served])
  /\ h.status \in {"input", "forbidden", "badRequest", "handled"} => k.phase = "done"
  /\ h.status \in {"input", "badRequest", "handled"} => k.answer
  /\ h.status = "forbidden" => ~k.answer

Fine(h, k) ==
  /\ h \in Request \cup {NoRequest} /\ k \in Call \cup {Absent}
  /\ k.phase # "absent" => Good(k)
  /\ Consistent(h, k)

IInv ==
  /\ call \in [Calls -> Call \cup {Absent}] /\ http \in [Calls -> Request \cup {NoRequest}]
  /\ \A c \in Calls : Fine(http[c], call[c])

LEMMA RouteRequirement ==
  ASSUME NEW n \in DOMAIN Routes
  PROVE  RequireAccess(Routes[n]) \in Requirement
BY RoutesAssumption DEF RequireAccess, Requirement, Operators

LEMMA AbsentOrRunning ==
  ASSUME NEW k \in Call \cup {Absent}
  PROVE  k.phase # "absent" => k \in Call
BY DEF Absent

\* One request changes at a time.
LEMMA OneChanges ==
  ASSUME IInv, NEW c \in Calls, NEW h, NEW k, Fine(h, k),
         http' = [http EXCEPT ![c] = h], call' = [call EXCEPT ![c] = k]
  PROVE  IInv'
BY DEF IInv, Fine

\* A step that leaves the request alone, or the call, is one that rewrites it as it was.
LEMMA SameAgain ==
  ASSUME IInv, NEW c \in Calls
  PROVE  /\ UNCHANGED http => http' = [http EXCEPT ![c] = http[c]]
         /\ UNCHANGED call => call' = [call EXCEPT ![c] = call[c]]
BY DEF IInv

\* A request moves on to `status`, and its call stays or is replaced by k.
LEMMA StatusChanges ==
  ASSUME IInv, NEW c \in Calls, NEW status \in Open \cup Closed, NEW k,
         http[c].status # "none", Becomes(c, status),
         call' = [call EXCEPT ![c] = k], k \in Call \cup {Absent},
         k.phase # "absent" => Good(k),
         Consistent([route |-> http[c].route, served |-> http[c].served, status |-> status], k)
  PROVE  IInv'
<1> DEFINE h == [route |-> http[c].route, served |-> http[c].served, status |-> status]
<1>1. http[c] \in Request
  BY DEF IInv, NoRequest
<1>2. [http[c] EXCEPT !.status = status] = h
  BY <1>1 DEF Request
<1>3. http' = [http EXCEPT ![c] = h]
  BY <1>2 DEF Becomes, IInv
<1>4. h \in Request
  BY <1>1 DEF Request
<1>5. Fine(h, k)
  BY <1>4 DEF Fine
<1> QED
  BY <1>3, <1>5, OneChanges

LEMMA ReceiveKeeps ==
  ASSUME IInv, NEW c \in Calls, NEW n \in DOMAIN Routes, Receive(c, n)
  PROVE  IInv'
<1>1. PICK m \in DOMAIN Routes : Serves(m, n)
        /\ http' = [http EXCEPT ![c] = [route |-> n, served |-> m, status |-> "token"]]
  BY DEF Receive
<1> DEFINE h == [route |-> n, served |-> m, status |-> "token"]
<1>2. h \in Request
  BY DEF Request, Open
<1>3. call[c].phase = "absent" /\ call[c] \in Call \cup {Absent}
  BY DEF Receive, Idle, At, IInv
<1>4. Fine(h, call[c])
  BY <1>1, <1>2, <1>3 DEF Fine, Consistent
<1>5. call' = [call EXCEPT ![c] = call[c]]
  BY SameAgain DEF Receive
<1> QED
  BY <1>1, <1>4, <1>5, OneChanges

\* The call that begins for a requirement is in order.
LEMMA BeginsWell ==
  ASSUME NEW c \in Calls, NEW need \in Requirement, checkComplexPermission(c, need)
  PROVE  \E k \in Call : call' = [call EXCEPT ![c] = k] /\ Good(k) /\ k.need = need
                         /\ k.phase # "absent"
<1>1. PICK held \in SUBSET Asked(need) : call' = [call EXCEPT ![c] = Started(need, held)]
  BY DEF checkComplexPermission
<1>2. Started(need, held) \in Call /\ Good(Started(need, held))
  BY StartIsGood
<1>3. Started(need, held).need = need
  BY DEF Started, Settle, Done, AsksRoles
<1>4. Started(need, held).phase # "absent"
  BY <1>2 DEF Call
<1> QED
  BY <1>1, <1>2, <1>3, <1>4

LEMMA CallDirectlyKeeps ==
  ASSUME IInv, NEW c \in Calls, NEW need \in Requirements, CallDirectly(c, need)
  PROVE  IInv'
<1>1. PICK k \in Call : call' = [call EXCEPT ![c] = k] /\ Good(k)
  BY BeginsWell, GoalsAssumption DEF CallDirectly
<1>2. http[c].status = "none" /\ http[c] \in Request \cup {NoRequest}
  BY DEF CallDirectly, Idle, IInv
<1>3. Fine(http[c], k)
  BY <1>1, <1>2 DEF Fine, Consistent
<1>4. http' = [http EXCEPT ![c] = http[c]]
  BY SameAgain DEF CallDirectly
<1> QED
  BY <1>1, <1>3, <1>4, OneChanges

LEMMA VerifyTokenKeeps ==
  ASSUME IInv, NEW c \in Calls, VerifyToken(c)
  PROVE  IInv'
<1> DEFINE n == http[c].served
<1>1. /\ http[c].status = "token" /\ http[c] \in Request /\ Serves(n, http[c].route)
      /\ call[c].phase = "absent" /\ call[c] \in Call \cup {Absent}
  BY DEF VerifyToken, IInv, Fine, Consistent, NoRequest
<1>2. n \in DOMAIN Routes
  BY <1>1 DEF Request
<1>3. CASE Becomes(c, "unauthorized") /\ UNCHANGED call
  <2>1. call' = [call EXCEPT ![c] = call[c]]
    BY <1>3, SameAgain
  <2>2. Consistent([route |-> http[c].route, served |-> n, status |-> "unauthorized"], call[c])
    BY <1>1 DEF Consistent
  <2> QED
    BY <1>1, <1>3, <2>1, <2>2, StatusChanges DEF Closed
<1>4. CASE Becomes(c, "access") /\ checkComplexPermission(c, RequireAccess(Routes[n]))
  <2>1. PICK k \in Call : call' = [call EXCEPT ![c] = k] /\ Good(k)
                          /\ k.need = RequireAccess(Routes[n]) /\ k.phase # "absent"
    BY <1>2, <1>4, BeginsWell, RouteRequirement
  <2>2. Consistent([route |-> http[c].route, served |-> n, status |-> "access"], k)
    BY <1>1, <2>1 DEF Consistent
  <2> QED
    BY <1>1, <1>4, <2>1, <2>2, StatusChanges DEF Open
<1> QED
  BY <1>3, <1>4 DEF VerifyToken

LEMMA DecideKeeps ==
  ASSUME IInv, NEW c \in Calls, Decide(c)
  PROVE  IInv'
<1> DEFINE status == IF call[c].answer THEN "input" ELSE "forbidden"
<1>1. /\ http[c].status = "access" /\ call[c].phase = "done"
      /\ Fine(http[c], call[c])
  BY DEF Decide, Finished, IInv
<1>2. Consistent([route |-> http[c].route, served |-> http[c].served, status |-> status], call[c])
  BY <1>1 DEF Fine, Consistent
<1>3. call' = [call EXCEPT ![c] = call[c]] /\ Becomes(c, status)
  BY SameAgain DEF Decide
<1>4. status \in Open \cup Closed
  BY DEF Open, Closed
<1> QED
  BY <1>1, <1>2, <1>3, <1>4, StatusChanges DEF Fine

LEMMA ValidateKeeps ==
  ASSUME IInv, NEW c \in Calls, Validate(c)
  PROVE  IInv'
<1>1. http[c].status = "input" /\ Fine(http[c], call[c])
  BY DEF Validate, IInv
<1>2. PICK status \in {"badRequest", "handled"} : Becomes(c, status)
  BY DEF Validate
<1>3. Consistent([route |-> http[c].route, served |-> http[c].served, status |-> status], call[c])
  BY <1>1 DEF Fine, Consistent
<1>4. call' = [call EXCEPT ![c] = call[c]]
  BY SameAgain DEF Validate
<1> QED
  BY <1>1, <1>2, <1>3, <1>4, StatusChanges DEF Fine, Closed

LEMMA RepliedKeeps ==
  ASSUME IInv, NEW c \in Calls, Replied(c)
  PROVE  IInv'
<1>1. call' = [call EXCEPT ![c] = Absent]
  <2>1. CASE At(c, "absent")
    <3>1. call[c] = Absent
      BY <2>1 DEF At, IInv, Call
    <3> QED
      BY <2>1, <3>1, SameAgain DEF Replied
  <2>2. CASE ~At(c, "absent")
    BY <2>2 DEF Replied, Returns
  <2> QED
    BY <2>1, <2>2
<1>2. Fine(NoRequest, Absent)
  BY DEF Fine, Consistent, NoRequest, Absent
<1> QED
  BY <1>1, <1>2, OneChanges DEF Replied

\* A running call changes and stays in order, whatever its request.
LEMMA CallChanges ==
  ASSUME IInv, NEW c \in Calls, Running(c), UNCHANGED http, NEW k \in Call,
         call' = [call EXCEPT ![c] = k], Good(k), k.need = call[c].need
  PROVE  IInv'
<1>1. http[c].status \in {"none", "access"} /\ Fine(http[c], call[c]) /\ k.phase # "absent"
  BY DEF IInv, Fine, Consistent, Running, Request, NoRequest, Open, Closed, Call
<1>2. Fine(http[c], k)
  BY <1>1 DEF Fine, Consistent, Running
<1> QED
  BY <1>2, SameAgain, OneChanges

LEMMA StepKeeps ==
  ASSUME IInv, NEW c \in Calls, Step(c), UNCHANGED http
  PROVE  IInv'
<1>1. PICK goal \in Goals, yes \in BOOLEAN, failed \in BOOLEAN :
        call[c].phase \in {"permissions", "roles"} /\ Answers(c, goal, yes, failed)
  BY DEF Step, hasPermission, checkUserRole, At, Goals
<1> DEFINE k == Settle(Heard(call[c], goal, yes, failed))
<1>2. call[c] \in Call /\ Good(call[c])
  BY <1>1 DEF IInv, Fine, Absent
<1>3. call' = [call EXCEPT ![c] = k]
  BY <1>1 DEF Answers
<1>4. k \in Call /\ Good(k)
  BY <1>1, <1>2, HeardIsGood DEF Answers
<1>5. k.need = call[c].need
  BY DEF Settle, Heard, Done, AsksRoles
<1> QED
  BY <1>1, <1>3, <1>4, <1>5, CallChanges DEF Running

LEMMA TablesChangeKeeps ==
  ASSUME IInv, NEW c \in Calls, TablesChange(c), UNCHANGED http
  PROVE  IInv'
<1>1. PICK goal \in Goals : Lose(c, goal) \/ Gain(c, goal)
  BY DEF TablesChange
<1>2. call[c] \in Call /\ Good(call[c]) /\ Running(c)
  BY <1>1 DEF Lose, Gain, Running, IInv, Fine, Absent
<1>3. CASE Lose(c, goal)
  <2> DEFINE k == [call[c] EXCEPT !.sure = @ \ {goal}]
  <2>1. call' = [call EXCEPT ![c] = k]
    BY <1>3 DEF Lose
  <2>2. k \in Call /\ Good(k)
    BY <1>2, LoseIsGood DEF Running
  <2>3. k.need = call[c].need
    BY <1>2 DEF Call
  <2> QED
    BY <1>2, <2>1, <2>2, <2>3, CallChanges
<1>4. CASE Gain(c, goal)
  <2> DEFINE k == [call[c] EXCEPT !.maybe = @ \cup {goal}]
  <2>1. call' = [call EXCEPT ![c] = k]
    BY <1>4 DEF Gain
  <2>2. k \in Call /\ Good(k)
    BY <1>2, GainIsGood DEF Running
  <2>3. k.need = call[c].need
    BY <1>2 DEF Call
  <2> QED
    BY <1>2, <2>1, <2>2, <2>3, CallChanges
<1> QED
  BY <1>1, <1>3, <1>4

\* What the proofs rest on holds always: every request and the check its guards wait for
\* agree, and each has been answered rightly so far.
THEOREM InvariantHolds == Spec => []IInv
<1>1. Init => IInv
  BY DEF Init, CallInit, IInv, Fine, Consistent, Absent, NoRequest
<1>2. IInv /\ [Next]_vars => IInv'
  <2> SUFFICES ASSUME IInv, [Next]_vars PROVE IInv'
    OBVIOUS
  <2>1. CASE UNCHANGED vars
    BY <2>1 DEF vars, IInv, Fine
  <2>2. ASSUME NEW c \in Calls, ServerStep(c) PROVE IInv'
    BY <2>2, VerifyTokenKeeps, StepKeeps, DecideKeeps, ValidateKeeps DEF ServerStep
  <2> QED
    BY <2>1, <2>2, ReceiveKeeps, CallDirectlyKeeps, RepliedKeeps, TablesChangeKeeps DEF Next
<1> QED
  BY <1>1, <1>2, PTL DEF Spec

-----------------------------------------------------------------------------
(* What follows from it. *)

\* Every reachable state has the types of TypeOK.
THEOREM TypeCorrect == Spec => []TypeOK
<1>1. IInv => TypeOK
  BY DEF IInv, TypeOK, CallTypeOK
<1> QED
  BY <1>1, InvariantHolds, PTL

\* checkComplexPermission says yes only to users who were seen to hold enough.
THEOREM GrantsWitnessed == Spec => []GrantsAreWitnessed
<1>1. IInv => GrantsAreWitnessed
  BY DEF IInv, Fine, Good, MeetsFairly, Backed, GrantsAreWitnessed, Finished
<1> QED
  BY <1>1, InvariantHolds, PTL

\* It says yes to users who held enough throughout, unless a read failed.
THEOREM SteadyHoldersLetIn == Spec => []SteadyHoldersAreLetIn
<1>1. IInv => SteadyHoldersAreLetIn
  BY DEF IInv, Fine, Good, MeetsFairly, Backed, SteadyHoldersAreLetIn, Finished
<1> QED
  BY <1>1, InvariantHolds, PTL

\* What the guard asks for is what the route demands, in words.
LEMMA GuardAsksForTheRoute ==
  ASSUME NEW m \in DOMAIN Routes, NEW n \in DOMAIN Routes, Serves(m, n), NEW held
  PROVE  Meets(RequireAccess(Routes[m]), held) <=> Allows(Routes[n], held)
BY ShadowingAssumption, RoutesAssumption
   DEF Meets, Combine, PermissionResult, RoleResult, hasAllPermissions, hasAllRoles, RequireAccess, Allows

\* No handler runs for a caller who was not seen to hold what its route demands.
THEOREM HandlersGuarded == Spec => []HandlersAreGuarded
<1>1. ASSUME IInv, NEW c \in Calls, http[c].status = "handled"
      PROVE  Allows(Routes[http[c].route], call[c].maybe)
  <2>1. http[c] \in Request /\ Fine(http[c], call[c])
    BY <1>1 DEF IInv, NoRequest
  <2>2. call[c].phase = "done" /\ call[c].answer /\ Good(call[c])
        /\ call[c].need = RequireAccess(Routes[http[c].served])
        /\ Serves(http[c].served, http[c].route)
    BY <1>1, <2>1 DEF Fine, Consistent
  <2>3. Meets(call[c].need, call[c].maybe)
    BY <2>2 DEF Good, MeetsFairly, Backed
  <2> QED
    BY <2>1, <2>2, <2>3, GuardAsksForTheRoute DEF Request
<1>2. IInv => HandlersAreGuarded
  BY <1>1 DEF HandlersAreGuarded
<1> QED
  BY <1>2, InvariantHolds, PTL

\* A caller who held throughout what the route demands is refused only by a failed read.
THEOREM HoldersNotRefused == Spec => []HoldersAreNotRefused
<1>1. ASSUME IInv, NEW c \in Calls, http[c].status = "forbidden",
             Allows(Routes[http[c].route], call[c].sure)
      PROVE  call[c].failed
  <2>1. http[c] \in Request /\ Fine(http[c], call[c])
    BY <1>1 DEF IInv, NoRequest
  <2>2. call[c].phase = "done" /\ ~call[c].answer /\ Good(call[c])
        /\ call[c].need = RequireAccess(Routes[http[c].served])
        /\ Serves(http[c].served, http[c].route)
    BY <1>1, <2>1 DEF Fine, Consistent
  <2>3. Meets(call[c].need, call[c].sure)
    BY <1>1, <2>1, <2>2, GuardAsksForTheRoute DEF Request
  <2> QED
    BY <2>2, <2>3 DEF Good, MeetsFairly, Backed
<1>2. IInv => HoldersAreNotRefused
  BY <1>1 DEF HoldersAreNotRefused
<1> QED
  BY <1>2, InvariantHolds, PTL

=============================================================================
