--------------------------- MODULE MCScopeBuilder ---------------------------
(* TLC instances of ScopeBuilder. *)
EXTENDS ScopeBuilderRefinement, TLC

Symmetry == Permutations(Builders)
=============================================================================
