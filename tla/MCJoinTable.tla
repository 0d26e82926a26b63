----------------------------- MODULE MCJoinTable -----------------------------
(* The two services over their tables: every interleaving of the ten methods. *)
EXTENDS AssignmentServices, TLC

\* The services are the same code, so exchanging a role with a service maps every
\* behaviour to a behaviour.
Symmetry == Permutations(Owners) \cup Permutations(Items) \cup Permutations(Workers)

=============================================================================
