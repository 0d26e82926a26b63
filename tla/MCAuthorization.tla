--------------------------- MODULE MCAuthorization ---------------------------
(* One user, two roles, one service with one permission. *)
EXTENDS Authorization, TLC

CONSTANTS r1, r2, p1, s1

MCActionOf == p1 :> "edit"
MCServiceOf == p1 :> s1
MCNameOf == r1 :> "edit" @@ r2 :> "view"

\* Every method in a service, and a check of each kind without one.
MCQueries == {q \in Query : /\ q.goal = "edit"
                            /\ q.service = NoService =>
                                 q.kind \in {"checkUserPermission", "checkUserRole"}}

=============================================================================
