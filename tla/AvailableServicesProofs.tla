----------------------- MODULE AvailableServicesProofs -----------------------
(****************************************************************************)
(* Who is shown which service, for every set of users, roles and services   *)
(* and any number of calls: the three properties the run checks.            *)
(****************************************************************************)
EXTENDS AvailableServices, TLAPS

\* The roles a call has read were the user's while it ran; when the read succeeded
\* those the user kept throughout are among them.
RolesBacked(k, w) ==
  /\ \A r \in k.userRoles : <<k.user, r>> \in w.held
  /\ k.rolesRead => \A r \in Roles : <<k.user, r>> \in w.keeps => r \in k.userRoles

\* While a call runs its window frames the tables as they are.
Framed(w, ur, svr) ==
  /\ w.keeps \subseteq ur /\ ur \subseteq w.held
  /\ w.stays \subseteq svr /\ svr \subseteq w.linked

\* The three properties for one call and its window.
Fair(k, w) ==
  /\ Listed(k.services, "public") \subseteq k.answer
  /\ k.answer \cap Listed(k.services, "hidden") = {}
  /\ \A s \in Listed(k.services, "byRole") :
       /\ k.batch /\ s \in k.answer
            => \E r \in Roles : <<k.user, r>> \in w.held /\ <<s, r>> \in w.linked
       /\ k.batch /\ k.rolesRead
            /\ (\E r \in Roles : <<k.user, r>> \in w.keeps /\ <<s, r>> \in w.stays)
            => s \in k.answer
       /\ s \in k.answer => \E r \in Roles : <<k.user, r>> \in w.held

CallInv(c) ==
  /\ Running(c) => /\ RolesBacked(call[c], window[c])
                   /\ Framed(window[c], user_role, service_visible_role)
  /\ Finished(c) => Fair(call[c], window[c])

Inv == TypeOK /\ \A c \in Calls : CallInv(c)

-----------------------------------------------------------------------------
(* The filters. *)

\* With the visible roles of an instant of the call, the optimized filter is fair.
LEMMA OptimizedFair ==
  ASSUME NEW k \in Call, NEW w, NEW ur, NEW svr, RolesBacked(k, w), Framed(w, ur, svr),
         NEW services \in [Services -> Visibilities],
         NEW visible, visible = svr \/ Listed(services, "byRole") = {}
  PROVE  Fair(Answered(k, services, FilterOptimized(services, k.userRoles, visible), TRUE), w)
<1> DEFINE a == Answered(k, services, FilterOptimized(services, k.userRoles, visible), TRUE)
<1>1. /\ a.user = k.user /\ a.services = services /\ a.rolesRead = k.rolesRead
      /\ a.answer = FilterOptimized(services, k.userRoles, visible)
  BY DEF Answered, Call
<1>2. k.userRoles \subseteq Roles
  BY DEF Call
<1> HIDE DEF a
<1>3. /\ Listed(services, "public") \subseteq a.answer
      /\ a.answer \cap Listed(services, "hidden") = {}
  BY <1>1 DEF FilterOptimized, Listed
<1>4. ASSUME NEW s \in Listed(services, "byRole")
      PROVE  /\ s \in a.answer => \E r \in Roles : <<k.user, r>> \in w.held /\ <<s, r>> \in w.linked
             /\ k.rolesRead /\ (\E r \in Roles : <<k.user, r>> \in w.keeps /\ <<s, r>> \in w.stays)
                  => s \in a.answer
  <2>1. visible = svr /\ s \notin Listed(services, "public")
    BY <1>4 DEF Listed
  <2>2. s \in a.answer <=> \E r \in k.userRoles : <<s, r>> \in svr
    BY <1>1, <1>4, <2>1 DEF FilterOptimized
  <2> QED
    BY <1>2, <2>2 DEF RolesBacked, Framed
<1> QED
  BY <1>1, <1>3, <1>4 DEF Fair, a

\* The basic filter answers a call whose batch query failed.
LEMMA BasicFair ==
  ASSUME NEW k \in Call, NEW w, RolesBacked(k, w)
  PROVE  Fair(Answered(k, k.services, FilterBasic(k.services, k.userRoles), FALSE), w)
<1> DEFINE a == Answered(k, k.services, FilterBasic(k.services, k.userRoles), FALSE)
<1>1. /\ a.user = k.user /\ a.services = k.services /\ a.batch = FALSE
      /\ a.answer = FilterBasic(k.services, k.userRoles)
  BY DEF Answered, Call
<1>2. k.userRoles \subseteq Roles
  BY DEF Call
<1> HIDE DEF a
<1>3. /\ Listed(k.services, "public") \subseteq a.answer
      /\ a.answer \cap Listed(k.services, "hidden") = {}
  BY <1>1 DEF FilterBasic, Listed
<1>4. ASSUME NEW s \in Listed(k.services, "byRole"), s \in a.answer
      PROVE  \E r \in Roles : <<k.user, r>> \in w.held
  <2>1. k.userRoles # {}
    BY <1>1, <1>4 DEF FilterBasic, Listed
  <2> QED
    BY <1>2, <2>1 DEF RolesBacked
<1> QED
  BY <1>1, <1>3, <1>4 DEF Fair, a

\* Without a list from portal-server nothing is public, by role or shown.
LEMMA NothingListedFair ==
  ASSUME NEW k \in Call, NEW w, \A s \in Services : k.services[s] = "hidden"
  PROVE  Fair(Answered(k, k.services, {}, TRUE), w)
BY DEF Fair, Answered, Listed, Call

-----------------------------------------------------------------------------
(* The steps. *)

\* Before portal-server has answered, the call's list hides everything.
Unlisted(c) ==
  call[c].phase \in {"roles", "portal"} =>
    \A s \in Services : call[c].services[s] = "hidden"

AllInv == Inv /\ \A c \in Calls : Unlisted(c)

LEMMA ContinueKeepsInv ==
  ASSUME AllInv, NEW c \in Calls, NEW k \in Call, Continue(c, k), Running(c),
         k.phase # "done" => RolesBacked(k, window[c]),
         k.phase = "done" => Fair(k, window[c]),
         k.phase \in {"roles", "portal"} => \A s \in Services : k.services[s] = "hidden"
  PROVE  AllInv'
<1>1. /\ call' = [call EXCEPT ![c] = k] /\ call'[c] = k
      /\ UNCHANGED <<user_role, service_visible_role, window>>
  BY DEF Continue, AllInv, Inv, TypeOK
<1>2. TypeOK'
  BY <1>1 DEF AllInv, Inv, TypeOK
<1>3. ASSUME NEW e \in Calls
      PROVE  CallInv(e)' /\ Unlisted(e)'
  <2>1. CASE e = c
    BY <1>1, <2>1 DEF AllInv, Inv, CallInv, Unlisted, Running, Finished
  <2>2. CASE e # c
    <3>1. call'[e] = call[e]
      BY <1>1, <2>2 DEF AllInv, Inv, TypeOK
    <3> QED
      BY <1>1, <3>1 DEF AllInv, Inv, CallInv, Unlisted, Running, Finished
  <2> QED
    BY <2>1, <2>2
<1> QED
  BY <1>2, <1>3 DEF AllInv, Inv

LEMMA AnsweredType ==
  ASSUME NEW k \in Call, NEW services \in [Services -> Visibilities],
         NEW answer \in SUBSET Services, NEW batch \in BOOLEAN
  PROVE  /\ Answered(k, services, answer, batch) \in Call
         /\ Answered(k, services, answer, batch).phase = "done"
BY DEF Answered, Call

LEMMA StepKeepsInv ==
  ASSUME AllInv, NEW c \in Calls, Step(c)
  PROVE  AllInv'
<1> DEFINE k == call[c]
           w == window[c]
<1>1. Running(c)
  BY DEF Step, LocalStep, ReadUserRoles, ReadUserRolesFails, PortalAnswers, PortalFails, BatchQuery,
         BatchQueryFails, At, Running
<1>2. k \in Call
  BY <1>1 DEF AllInv, Inv, TypeOK, Running, Absent
<1>3. RolesBacked(k, w) /\ Framed(w, user_role, service_visible_role) /\ Unlisted(c)
  BY <1>1 DEF AllInv, Inv, CallInv
<1>4. k.services \in [Services -> Visibilities] /\ k.userRoles \subseteq Roles
  BY <1>2 DEF Call
<1>5. CASE ReadUserRoles(c)
  <2> DEFINE R == {r \in Roles : <<k.user, r>> \in user_role}
             n == [k EXCEPT !.phase = "portal", !.rolesRead = TRUE, !.userRoles = R]
  <2>1. /\ n \in Call /\ n.phase = "portal" /\ n.user = k.user /\ n.userRoles = R
        /\ n.services = k.services
    BY <1>2 DEF Call
  <2>2. Continue(c, n) /\ k.phase = "roles"
    BY <1>5 DEF ReadUserRoles, At
  <2> HIDE DEF n
  <2>3. RolesBacked(n, w)
    BY <1>3, <2>1 DEF RolesBacked, Framed
  <2> QED
    BY <1>1, <1>3, <2>1, <2>2, <2>3, ContinueKeepsInv DEF Unlisted
<1>6. CASE ReadUserRolesFails(c)
  <2> DEFINE n == [k EXCEPT !.phase = "portal"]
  <2>1. /\ n \in Call /\ n.phase = "portal" /\ n.user = k.user /\ n.userRoles = k.userRoles
        /\ n.services = k.services /\ n.rolesRead = k.rolesRead
    BY <1>2 DEF Call
  <2>2. Continue(c, n) /\ k.phase = "roles"
    BY <1>6 DEF ReadUserRolesFails, At
  <2> HIDE DEF n
  <2>3. RolesBacked(n, w)
    BY <1>3, <2>1 DEF RolesBacked
  <2> QED
    BY <1>1, <1>3, <2>1, <2>2, <2>3, ContinueKeepsInv DEF Unlisted
<1>7. ASSUME NEW services \in [Services -> Visibilities], PortalAnswers(c, services)
      PROVE  AllInv'
  <2>1. CASE Listed(services, "byRole") = {}
    <3> DEFINE A == FilterOptimized(services, k.userRoles, {})
    <3>1. A \subseteq Services
      BY DEF FilterOptimized, Listed
    <3>2. Answered(k, services, A, TRUE) \in Call /\ Answered(k, services, A, TRUE).phase = "done"
      BY <1>2, <3>1, AnsweredType
    <3>3. Fair(Answered(k, services, A, TRUE), w)
      BY <1>2, <1>3, <2>1, OptimizedFair
    <3>4. Continue(c, Answered(k, services, A, TRUE))
      BY <1>7, <2>1 DEF PortalAnswers
    <3> QED
      BY <1>1, <3>2, <3>3, <3>4, ContinueKeepsInv
  <2>2. CASE Listed(services, "byRole") # {}
    <3> DEFINE n == [k EXCEPT !.phase = "visibility", !.services = services]
    <3>1. /\ n \in Call /\ n.phase = "visibility" /\ n.user = k.user
          /\ n.userRoles = k.userRoles /\ n.rolesRead = k.rolesRead
      BY <1>2 DEF Call
    <3>2. Continue(c, n)
      BY <1>7, <2>2 DEF PortalAnswers
    <3> HIDE DEF n
    <3>3. RolesBacked(n, w)
      BY <1>3, <3>1 DEF RolesBacked
    <3> QED
      BY <1>1, <3>1, <3>2, <3>3, ContinueKeepsInv
  <2> QED
    BY <2>1, <2>2
<1>8. CASE PortalFails(c)
  <2>1. Continue(c, Answered(k, k.services, {}, TRUE))
    BY <1>8 DEF PortalFails
  <2>2. \A s \in Services : k.services[s] = "hidden"
    BY <1>3, <1>8 DEF PortalFails, At, Unlisted
  <2>3. Fair(Answered(k, k.services, {}, TRUE), w)
    BY <1>2, <2>2, NothingListedFair
  <2>4. /\ Answered(k, k.services, {}, TRUE) \in Call
        /\ Answered(k, k.services, {}, TRUE).phase = "done"
    BY <1>2, <1>4, AnsweredType
  <2> QED
    BY <1>1, <2>1, <2>3, <2>4, ContinueKeepsInv
<1>9. CASE BatchQuery(c)
  <2> DEFINE A == FilterOptimized(k.services, k.userRoles, service_visible_role)
  <2>1. A \subseteq Services
    BY DEF FilterOptimized, Listed
  <2>2. Answered(k, k.services, A, TRUE) \in Call /\ Answered(k, k.services, A, TRUE).phase = "done"
    BY <1>2, <1>4, <2>1, AnsweredType
  <2>3. Fair(Answered(k, k.services, A, TRUE), w)
    BY <1>2, <1>3, <1>4, OptimizedFair
  <2>4. Continue(c, Answered(k, k.services, A, TRUE))
    BY <1>9 DEF BatchQuery
  <2> QED
    BY <1>1, <2>2, <2>3, <2>4, ContinueKeepsInv
<1>10. CASE BatchQueryFails(c)
  <2> DEFINE A == FilterBasic(k.services, k.userRoles)
  <2>1. A \subseteq Services
    BY DEF FilterBasic, Listed
  <2>2. Answered(k, k.services, A, FALSE) \in Call /\ Answered(k, k.services, A, FALSE).phase = "done"
    BY <1>2, <1>4, <2>1, AnsweredType
  <2>3. Fair(Answered(k, k.services, A, FALSE), w)
    BY <1>2, <1>3, BasicFair
  <2>4. Continue(c, Answered(k, k.services, A, FALSE))
    BY <1>10 DEF BatchQueryFails
  <2> QED
    BY <1>1, <2>2, <2>3, <2>4, ContinueKeepsInv
<1> QED
  BY <1>5, <1>6, <1>7, <1>8, <1>9, <1>10 DEF Step, LocalStep

LEMMA RequestKeepsInv ==
  ASSUME AllInv, NEW c \in Calls, NEW u \in Users, Request(c, u)
  PROVE  AllInv'
<1> DEFINE k == [user |-> u, phase |-> "roles", userRoles |-> {},
                 services |-> [s \in Services |-> "hidden"], answer |-> {},
                 rolesRead |-> FALSE, batch |-> FALSE]
           w == [held |-> user_role, keeps |-> user_role,
                 linked |-> service_visible_role, stays |-> service_visible_role]
<1>1. k \in Call
  BY DEF Call, Visibilities
<1>2. w \in Window
  BY DEF Window, AllInv, Inv, TypeOK
<1>3. /\ call' = [call EXCEPT ![c] = k] /\ window' = [window EXCEPT ![c] = w]
      /\ UNCHANGED <<user_role, service_visible_role>>
  BY DEF Request
<1>4. TypeOK'
  BY <1>1, <1>2, <1>3 DEF AllInv, Inv, TypeOK
<1>5. ASSUME NEW e \in Calls
      PROVE  CallInv(e)' /\ Unlisted(e)'
  <2>1. CASE e = c
    <3>1. call'[e] = k /\ window'[e] = w
      BY <1>3, <2>1 DEF AllInv, Inv, TypeOK
    <3>2. RolesBacked(k, w) /\ Framed(w, user_role, service_visible_role)
      BY DEF RolesBacked, Framed
    <3> QED
      BY <1>3, <3>1, <3>2 DEF CallInv, Unlisted, Running, Finished
  <2>2. CASE e # c
    <3>1. call'[e] = call[e] /\ window'[e] = window[e]
      BY <1>3, <2>2 DEF AllInv, Inv, TypeOK
    <3> QED
      BY <1>3, <3>1 DEF AllInv, Inv, CallInv, Unlisted, Running, Finished
  <2> QED
    BY <2>1, <2>2
<1> QED
  BY <1>4, <1>5 DEF AllInv, Inv

LEMMA CommitKeepsInv ==
  ASSUME AllInv, Watch, UNCHANGED call, user_role' \subseteq Users \X Roles,
         service_visible_role' \subseteq Services \X Roles
  PROVE  AllInv'
<1>1. TypeOK'
  <2>1. ASSUME NEW c \in Calls PROVE window'[c] \in Window
    BY DEF Watch, Window, AllInv, Inv, TypeOK
  <2> QED
    BY <2>1 DEF Watch, AllInv, Inv, TypeOK
<1>2. ASSUME NEW c \in Calls
      PROVE  CallInv(c)' /\ Unlisted(c)'
  <2>1. CASE Running(c)
    <3>1. /\ window'[c].held = window[c].held \cup user_role'
          /\ window'[c].keeps = window[c].keeps \cap user_role'
          /\ window'[c].linked = window[c].linked \cup service_visible_role'
          /\ window'[c].stays = window[c].stays \cap service_visible_role'
      BY <2>1 DEF Watch
    <3>2. Framed(window'[c], user_role', service_visible_role')
      BY <3>1 DEF Framed
    <3>3. RolesBacked(call[c], window'[c])
      BY <2>1, <3>1 DEF RolesBacked, AllInv, Inv, CallInv
    <3> QED
      BY <2>1, <3>2, <3>3 DEF AllInv, CallInv, Unlisted, Running, Finished
  <2>2. CASE ~Running(c)
    <3>1. window'[c] = window[c]
      BY <2>2 DEF Watch
    <3> QED
      BY <2>2, <3>1 DEF AllInv, Inv, CallInv, Unlisted, Running, Finished
  <2> QED
    BY <2>1, <2>2
<1> QED
  BY <1>1, <1>2 DEF AllInv, Inv

\* What the proofs rest on holds always: a call has collected only what was shown to it,
\* and lists no service before portal-server has answered.
THEOREM Invariance == Spec => []AllInv
<1>1. Init => AllInv
  <2> SUFFICES ASSUME Init PROVE AllInv
    OBVIOUS
  <2>1. TypeOK
    BY DEF Init, TypeOK, NoWindow, Window
  <2>2. \A c \in Calls : CallInv(c) /\ Unlisted(c)
    BY DEF Init, CallInv, Unlisted, Running, Finished, Absent
  <2> QED
    BY <2>1, <2>2 DEF AllInv, Inv
<1>2. AllInv /\ [Next]_vars => AllInv'
  <2> SUFFICES ASSUME AllInv, [Next]_vars PROVE AllInv'
    OBVIOUS
  <2>1. CASE UNCHANGED vars
    BY <2>1 DEF vars, AllInv, Inv, TypeOK, CallInv, Unlisted, Running, Finished
  <2>2. CASE CommitUserRole
    BY <2>2, CommitKeepsInv DEF CommitUserRole, AllInv, Inv, TypeOK
  <2>3. CASE CommitServiceVisibleRole
    BY <2>3, CommitKeepsInv DEF CommitServiceVisibleRole, AllInv, Inv, TypeOK
  <2> QED
    BY <2>1, <2>2, <2>3, RequestKeepsInv, StepKeepsInv DEF Next
<1> QED
  BY <1>1, <1>2, PTL DEF Spec

-----------------------------------------------------------------------------

\* Tables, calls and histories keep their types.
THEOREM TypeCorrect == Spec => []TypeOK
<1>1. AllInv => TypeOK
  BY DEF AllInv, Inv
<1> QED
  BY <1>1, Invariance, PTL

\* Whichever reads fail, public services are shown and hidden ones are not.
THEOREM PublicShownHiddenNot == Spec => []PublicIsShownHiddenIsNot
<1>1. AllInv => PublicIsShownHiddenIsNot
  BY DEF AllInv, Inv, CallInv, Fair, PublicIsShownHiddenIsNot
<1> QED
  BY <1>1, Invariance, PTL

\* When the batch query answers, the by-role services shown are those of the user's
\* roles, whatever other requests commit between the three reads.
THEOREM EntitlementFollowed == Spec => []ByRoleServicesFollowEntitlement
<1>1. AllInv => ByRoleServicesFollowEntitlement
  BY DEF AllInv, Inv, CallInv, Fair, ByRoleServicesFollowEntitlement, Entitled, SteadilyEntitled
<1> QED
  BY <1>1, Invariance, PTL

\* A user without any role sees no by-role service, on any path.
THEOREM RolelessSeeNone == Spec => []NoRoleNoByRoleService
<1>1. AllInv => NoRoleNoByRoleService
  BY DEF AllInv, Inv, CallInv, Fair, NoRoleNoByRoleService
<1> QED
  BY <1>1, Invariance, PTL

=============================================================================
