--------------------------- MODULE MCScopeRegister ---------------------------
(* TLC instances of ScopeRegister. *)
EXTENDS ScopeRegister, TLC

Symmetry == Permutations(Names) \cup Permutations(Values)
=============================================================================
