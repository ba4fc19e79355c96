---------------------------- MODULE MCOnboarding ----------------------------
(* Symmetry of the interchangeable identifiers.                            *)
EXTENDS Onboarding, TLC

Symmetry == Permutations(Sessions) \union Permutations(Jobs)
=============================================================================
