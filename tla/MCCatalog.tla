------------------------------ MODULE MCCatalog ------------------------------
(* Two administrators on a table of two entries while assignments come and go. *)
EXTENDS Catalog, TLC

Symmetry == Permutations(Ids) \cup Permutations(Names) \cup Permutations(Infos)
              \cup Permutations(Admins)

=============================================================================
