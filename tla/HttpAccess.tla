------------------------------ MODULE HttpAccess ------------------------------
(****************************************************************************)
(* A request on its way to an HTTP handler: the router picks a route, the   *)
(* token guard and the authorization guard let the caller in or not, the    *)
(* validation pipe looks at the parameters, and the handler is called.  The *)
(* authorization guard is given AuthorizationService and has it check the   *)
(* route's @RequireAccess with checkComplexPermission; the method can also  *)
(* be called with any requirement by the code of another module.            *)
(****************************************************************************)
EXTENDS ComplexPermission, HttpRoutes

ASSUME RoutesAssumption ==
  \A n \in DOMAIN Routes :
    /\ Routes[n].permissions \subseteq Actions /\ Routes[n].permissions # {}
    /\ Routes[n].roles \subseteq RoleNames /\ Routes[n].roles # {}

\* A route that takes another one's requests asks for the same.
ASSUME ShadowingAssumption ==
  \A m, n \in DOMAIN Routes : Serves(m, n) =>
    Routes[m].permissions = Routes[n].permissions /\ Routes[m].roles = Routes[n].roles

VARIABLE http   \* http[c]: the HTTP request that makes call c, if one does

vars == <<call, http>>

Open == {"token", "access", "input"}
Closed == {"unauthorized", "forbidden", "badRequest", "handled"}

\* route: the route the client means, served: the route the router has picked.
Request == [route: DOMAIN Routes, served: DOMAIN Routes, status: Open \cup Closed]
NoRequest == [status |-> "none"]

TypeOK == CallTypeOK /\ http \in [Calls -> Request \cup {NoRequest}]

\* A request that has been answered keeps its last status until the client has the reply.
Idle(c) == http[c].status = "none" /\ At(c, "absent")

Busy(c) == http[c].status \in Open \/ Running(c)

Becomes(c, status) == http' = [http EXCEPT ![c].status = status]

-----------------------------------------------------------------------------
Receive(c, n) ==
  /\ Idle(c)
  /\ \E m \in DOMAIN Routes :
       /\ Serves(m, n)
       /\ http' = [http EXCEPT ![c] = [route |-> n, served |-> m, status |-> "token"]]
  /\ UNCHANGED call

\* Mutant: one of the roles is enough.
RequireAccess_Either(route) ==
  [permissions |-> route.permissions, roles |-> route.roles,
   permissionOperator |-> "AND", roleOperator |-> "OR", combinationOperator |-> "OR"]

\* Mutant: the permission is not enough.
RequireAccess_Both(route) ==
  [permissions |-> route.permissions, roles |-> route.roles,
   permissionOperator |-> "AND", roleOperator |-> "AND", combinationOperator |-> "AND"]

\* combinationOperator is 'OR' on every route; the others keep their default.
RequireAccess(route) ==
  [permissions |-> route.permissions, roles |-> route.roles,
   permissionOperator |-> "AND", roleOperator |-> "AND", combinationOperator |-> "OR"]

\* Mutant: a token that cannot be verified is an error of the server.
VerifyToken_Throws(c) ==
  /\ http[c].status = "token"
  /\ \/ Becomes(c, "error") /\ UNCHANGED call
     \/ /\ Becomes(c, "access")
        /\ checkComplexPermission(c, RequireAccess(Routes[http[c].served]))

\* AccessTokenGuard: the token is verified or not; then AuthorizationGuard asks.
VerifyToken(c) ==
  /\ http[c].status = "token"
  /\ \/ Becomes(c, "unauthorized") /\ UNCHANGED call
     \/ /\ Becomes(c, "access")
        /\ checkComplexPermission(c, RequireAccess(Routes[http[c].served]))

\* Mutant: a refusal is taken for a failure and the check is run again.
Decide_Retries(c) ==
  /\ http[c].status = "access" /\ Finished(c)
  /\ IF call[c].answer THEN Becomes(c, "input") /\ UNCHANGED call
                       ELSE UNCHANGED http /\ call' = [call EXCEPT ![c] = Started(@.need, @.sure)]

\* AuthorizationGuard acts on the answer.
Decide(c) ==
  /\ http[c].status = "access" /\ Finished(c)
  /\ Becomes(c, IF call[c].answer THEN "input" ELSE "forbidden")
  /\ UNCHANGED call

\* The ValidationPipe accepts the parameters or not.
Validate(c) ==
  /\ http[c].status = "input"
  /\ Becomes(c, "badRequest") \/ Becomes(c, "handled")
  /\ UNCHANGED call

\* The method called by other code, without a request.
CallDirectly(c, need) ==
  /\ Idle(c)
  /\ checkComplexPermission(c, need)
  /\ UNCHANGED http

\* The client, or the caller of the method, has the reply.
Replied(c) ==
  /\ ~Idle(c) /\ ~Busy(c)
  /\ http' = [http EXCEPT ![c] = NoRequest]
  /\ IF At(c, "absent") THEN UNCHANGED call ELSE Returns(c)

ServerStep(c) ==
  \/ VerifyToken(c)
  \/ Step(c) /\ UNCHANGED http
  \/ Decide(c)
  \/ Validate(c)

Init == CallInit /\ http = [c \in Calls |-> NoRequest]

Next ==
  \E c \in Calls :
    \/ \E n \in DOMAIN Routes : Receive(c, n)
    \/ \E need \in Requirements : CallDirectly(c, need)
    \/ ServerStep(c)
    \/ Replied(c)
    \/ TablesChange(c) /\ UNCHANGED http

Spec == Init /\ [][Next]_vars

\* The event loop gets round to every request, and a SQL statement is answered or
\* fails.  Clients and the tables' writers owe nothing.
FairSpec == Spec /\ \A c \in Calls : WF_vars(ServerStep(c))

-----------------------------------------------------------------------------
(* Properties. *)

\* What the route asks for, in words: its permission, or all of its roles.
Allows(route, held) ==
  \/ route.permissions # {} /\ route.permissions \subseteq held
  \/ route.roles # {} /\ route.roles \subseteq held

\* A handler runs only for a caller who was seen to hold what the route he called
\* requires, also when the router has taken another route for it.
HandlersAreGuarded ==
  \A c \in Calls : http[c].status = "handled" => Allows(Routes[http[c].route], call[c].maybe)

\* A caller is refused only if he did not hold what the route requires throughout, or
\* a read failed.
HoldersAreNotRefused ==
  \A c \in Calls :
    http[c].status = "forbidden" /\ Allows(Routes[http[c].route], call[c].sure) => call[c].failed

\* Every request and every call ends, however the tables change under it.
EveryRequestEnds == \A c \in Calls : Busy(c) ~> ~Busy(c)

\* A request reaches the handler documented for its route: README.md:191 has
\* "POST /api/users/:userId/roles/batch" assign roles in a batch.
RoutesReachTheirHandlers ==
  \A c \in Calls :
    http[c].status \in {"badRequest", "handled"} => http[c].served = http[c].route

=============================================================================
