-------------------------- MODULE AvailableServices --------------------------
(****************************************************************************)
(* getAvailableServices of authorization.service.ts: which services of      *)
(* portal-server a user may see.  The method reads the user's roles, asks   *)
(* portal-server for all services over TCP, and reads in one batch which    *)
(* roles may see those that are visible by role.  Each of the three can     *)
(* fail and each has a fallback of its own; the tables change meanwhile.    *)
(****************************************************************************)
CONSTANTS
  Users, Roles, Services,
  Calls      \* calls of the method that can be running at once

VARIABLES
  user_role, service_visible_role,
  call,      \* call[c]: call c, its progress and its answer
  window     \* history: what the two tables showed while call c ran

vars == <<user_role, service_visible_role, call, window>>

\* isVisible and isVisibleByRole of a service; one portal does not list is as hidden.
Visibilities == {"hidden", "public", "byRole"}

\* batch: the visible roles of the by-role services were read (or none were needed).
Call == [user: Users, phase: {"roles", "portal", "visibility", "done"},
         userRoles: SUBSET Roles, services: [Services -> Visibilities],
         answer: SUBSET Services, rolesRead: BOOLEAN, batch: BOOLEAN]
Absent == [phase |-> "absent"]

\* held, linked: rows seen at some instant of the call; keeps, stays: at every instant.
Window == [held: SUBSET (Users \X Roles), keeps: SUBSET (Users \X Roles),
           linked: SUBSET (Services \X Roles), stays: SUBSET (Services \X Roles)]
NoWindow == [held |-> {}, keeps |-> {}, linked |-> {}, stays |-> {}]

TypeOK ==
  /\ user_role \subseteq Users \X Roles
  /\ service_visible_role \subseteq Services \X Roles
  /\ call \in [Calls -> Call \cup {Absent}]
  /\ window \in [Calls -> Window]

-----------------------------------------------------------------------------
(* The two filters. *)

Listed(services, visibility) == {s \in Services : services[s] = visibility}

\* Mutant: a user without roles is sent away before the public services are added.
FilterOptimized_NoRolesNothing(services, userRoles, visible) ==
  IF userRoles = {} THEN {}
  ELSE Listed(services, "public")
         \cup {s \in Listed(services, "byRole") : \E r \in userRoles : <<s, r>> \in visible}

\* Mutant: a service whose visible roles were not found is open to everybody.
FilterOptimized_NoneMeansAll(services, userRoles, visible) ==
  Listed(services, "public")
    \cup {s \in Listed(services, "byRole") :
            (\A r \in Roles : <<s, r>> \notin visible) \/ \E r \in userRoles : <<s, r>> \in visible}

\* filterServicesByVisibilityOptimized, once it has the visible roles.
FilterOptimized(services, userRoles, visible) ==
  Listed(services, "public")
    \cup {s \in Listed(services, "byRole") : \E r \in userRoles : <<s, r>> \in visible}

\* Mutant: the test for a user without roles is left out.
FilterBasic_Everybody(services, userRoles) ==
  Listed(services, "public") \cup Listed(services, "byRole")

\* filterServicesByVisibilityBasic: any role opens every by-role service.
FilterBasic(services, userRoles) ==
  Listed(services, "public")
    \cup (IF userRoles = {} THEN {} ELSE Listed(services, "byRole"))

-----------------------------------------------------------------------------

Running(c) == call[c].phase \notin {"absent", "done"}
At(c, phase) == call[c].phase = phase

Continue(c, k) ==
  /\ call' = [call EXCEPT ![c] = k]
  /\ UNCHANGED <<user_role, service_visible_role, window>>

Answered(k, services, answer, batch) ==
  [k EXCEPT !.phase = "done", !.services = services, !.answer = answer, !.batch = batch]

Request(c, u) ==
  /\ ~Running(c)
  /\ call' = [call EXCEPT ![c] =
       [user |-> u, phase |-> "roles", userRoles |-> {},
        services |-> [s \in Services |-> "hidden"], answer |-> {},
        rolesRead |-> FALSE, batch |-> FALSE]]
  /\ window' = [window EXCEPT ![c] =
       [held |-> user_role, keeps |-> user_role,
        linked |-> service_visible_role, stays |-> service_visible_role]]
  /\ UNCHANGED <<user_role, service_visible_role>>

\* Mutant: the rows are kept instead of their role ids.
ReadUserRoles_Rows(c) ==
  /\ At(c, "roles")
  /\ Continue(c, [call[c] EXCEPT !.phase = "portal", !.rolesRead = TRUE,
                                 !.userRoles = {k \in user_role : k[1] = call[c].user}])

\* getUserRoles without a service.
ReadUserRoles(c) ==
  /\ At(c, "roles")
  /\ Continue(c, [call[c] EXCEPT !.phase = "portal", !.rolesRead = TRUE,
                    !.userRoles = {r \in Roles : <<call[c].user, r>> \in user_role}])

\* getUserRoles catches its own failure: the user seems to have no role.
ReadUserRolesFails(c) ==
  /\ At(c, "roles")
  /\ Continue(c, [call[c] EXCEPT !.phase = "portal"])

\* External: portal-server's answer to FIND_ALL.  Without by-role services no batch
\* query is made.
PortalAnswers(c, services) ==
  /\ At(c, "portal")
  /\ Continue(c, IF Listed(services, "byRole") = {}
                 THEN Answered(call[c], services,
                        FilterOptimized(services, call[c].userRoles, {}), TRUE)
                 ELSE [call[c] EXCEPT !.phase = "visibility", !.services = services])

\* getAllServices falls back to an empty list, which leaves nothing to filter.
PortalFails(c) ==
  /\ At(c, "portal")
  /\ Continue(c, Answered(call[c], call[c].services, {}, TRUE))

\* The batch query of the visible roles answers.
BatchQuery(c) ==
  LET k == call[c]
  IN /\ At(c, "visibility")
     /\ Continue(c, Answered(k, k.services,
                      FilterOptimized(k.services, k.userRoles, service_visible_role), TRUE))

\* Mutant: a failed batch query starts the call over.
BatchQueryFails_StartsOver(c) ==
  /\ At(c, "visibility")
  /\ Continue(c, [call[c] EXCEPT !.phase = "roles", !.rolesRead = FALSE, !.userRoles = {}])

\* It fails, and the basic filter takes over.
BatchQueryFails(c) ==
  LET k == call[c]
  IN /\ At(c, "visibility")
     /\ Continue(c, Answered(k, k.services, FilterBasic(k.services, k.userRoles), FALSE))

\* The steps that wait for the database only.
LocalStep(c) ==
  \/ ReadUserRoles(c)
  \/ ReadUserRolesFails(c)
  \/ BatchQuery(c)
  \/ BatchQueryFails(c)

Step(c) ==
  \/ LocalStep(c)
  \/ \E services \in [Services -> Visibilities] : PortalAnswers(c, services)
  \/ PortalFails(c)

-----------------------------------------------------------------------------
(* Other requests commit changes to the two tables.  A call may start from any *)
(* tables (Init), so they matter only while one runs.                          *)

Watch ==
  window' = [c \in Calls |->
    IF Running(c)
    THEN [held |-> window[c].held \cup user_role', keeps |-> window[c].keeps \cap user_role',
          linked |-> window[c].linked \cup service_visible_role',
          stays |-> window[c].stays \cap service_visible_role']
    ELSE window[c]]

CommitUserRole ==
  /\ \E c \in Calls : Running(c)
  /\ \E t \in SUBSET (Users \X Roles) : user_role' = t
  /\ UNCHANGED <<service_visible_role, call>>
  /\ Watch

CommitServiceVisibleRole ==
  /\ \E c \in Calls : Running(c)
  /\ \E t \in SUBSET (Services \X Roles) : service_visible_role' = t
  /\ UNCHANGED <<user_role, call>>
  /\ Watch

Init ==
  /\ user_role \in SUBSET (Users \X Roles)
  /\ service_visible_role \in SUBSET (Services \X Roles)
  /\ call = [c \in Calls |-> Absent]
  /\ window = [c \in Calls |-> NoWindow]

Next ==
  \/ \E c \in Calls : (\E u \in Users : Request(c, u)) \/ Step(c)
  \/ CommitUserRole
  \/ CommitServiceVisibleRole

Spec == Init /\ [][Next]_vars

\* The database answers every query or fails it.  portal-server owes nothing: the
\* request to it has no timeout.
FairSpec == Spec /\ \A c \in Calls : WF_vars(LocalStep(c))

-----------------------------------------------------------------------------
(* Properties. *)

Finished(c) == call[c].phase = "done"

\* Whichever of the reads failed, a listed public service is in the answer and a
\* hidden one is not: the fallbacks neither lock everybody out nor open everything.
PublicIsShownHiddenIsNot ==
  \A c \in Calls : Finished(c) =>
    /\ Listed(call[c].services, "public") \subseteq call[c].answer
    /\ call[c].answer \cap Listed(call[c].services, "hidden") = {}

\* A role the user had, linked to the service, at some instants of the call.
Entitled(c, s) ==
  \E r \in Roles : <<call[c].user, r>> \in window[c].held /\ <<s, r>> \in window[c].linked

\* A role the user had, linked to the service, at every instant of the call.
SteadilyEntitled(c, s) ==
  \E r \in Roles : <<call[c].user, r>> \in window[c].keeps /\ <<s, r>> \in window[c].stays

\* When the reads succeed, a by-role service is shown only to a user entitled to it
\* while the call ran, and to every user entitled to it throughout, although roles,
\* services and links are read at three different times.
ByRoleServicesFollowEntitlement ==
  \A c \in Calls : Finished(c) /\ call[c].batch =>
    \A s \in Listed(call[c].services, "byRole") :
      /\ s \in call[c].answer => Entitled(c, s)
      /\ call[c].rolesRead /\ SteadilyEntitled(c, s) => s \in call[c].answer

\* A user who had no role at any instant of the call sees no by-role service, not
\* even through the basic filter.
NoRoleNoByRoleService ==
  \A c \in Calls :
    Finished(c) /\ (\A r \in Roles : <<call[c].user, r>> \notin window[c].held)
      => call[c].answer \cap Listed(call[c].services, "byRole") = {}

\* A call ends, whatever fails and however the tables change, unless portal-server never
\* answers it: nothing else in the method waits, and no fallback starts it over.
OnlyPortalKeepsACallWaiting ==
  \A c \in Calls : Running(c) ~> (Finished(c) \/ []At(c, "portal"))

\* authorization.service.ts:740 "서비스 가시성 규칙을 적용하여 필터링" and :904 "배치 처리
\* 실패 시 사용하는 안전한 폴백 로직": the visibility rules hold for every answer, also one
\* that the fallback gives.
EveryAnswerFollowsVisibility ==
  \A c \in Calls : Finished(c) =>
    \A s \in call[c].answer \cap Listed(call[c].services, "byRole") : Entitled(c, s)

=============================================================================
