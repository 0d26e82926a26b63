------------------------- MODULE MCAvailableServices -------------------------
(* One user, two roles and two services, which portal-server may list in any way. *)
EXTENDS AvailableServices, TLC

Symmetry == Permutations(Roles) \cup Permutations(Services)

=============================================================================
