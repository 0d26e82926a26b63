----------------------------- MODULE MCUserRole -----------------------------
(* user_role with its merge and rollback handlers on two accounts. *)
EXTENDS UserRole, TLC

CONSTANTS alice, bob

\* One direction: bob's account is merged into alice's.
OnePair == {<<bob, alice>>}

Symmetry == Permutations(Items) \cup Permutations(Workers) \cup Permutations(Migrators)

=============================================================================
