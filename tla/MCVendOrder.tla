---------------------------- MODULE MCVendOrder ----------------------------
(* Symmetry of the interchangeable identifiers, for the safety runs.       *)
EXTENDS VendOrder, TLC

Symmetry == Permutations(Items) \union Permutations(Sessions)
              \union Permutations(Jobs) \union Permutations(Consignments)
=============================================================================
