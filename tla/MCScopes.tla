------------------------------- MODULE MCScopes -------------------------------
(* TLC instances of Scopes. *)
EXTENDS Scopes, TLC

Symmetry == Permutations(Builders)
=============================================================================
