----------------------- MODULE ScopeBuilderRefinement -----------------------
(***************************************************************************)
(* ScopeBuilder implements StructuredProgram: its basic blocks are the     *)
(* segments, their terminators say where control goes.                     *)
(***************************************************************************)
EXTENDS ScopeBuilder

Sound == misuses = 0

\* The blocks a block may branch to.
Targets(b) ==
  IF terms[b] = <<>> THEN {}
  ELSE {terms[b][1].onTrue, terms[b][1].onFalse} \ {NoBlock}

Program == INSTANCE StructuredProgram WITH
  Segments <- Blocks,
  Caller <- NoBlock,
  broken <- ~Sound,
  made   <- IF Sound THEN 1..nblocks ELSE {},
  ended  <- IF Sound THEN {b \in 1..nblocks : terms[b] # <<>>} ELSE {},
  next   <- [b \in Blocks |-> IF Sound THEN Targets(b) ELSE {}],
  cont   <- [b \in Blocks |-> IF Sound THEN region[b] ELSE NoBlock]

-----------------------------------------------------------------------------
(* Properties. *)

\* Every sequence of calls on builders builds a structured program, step by
\* step, until one writes behind a terminator: in particular elseStatement
\* redirects one branch of one condition, and finalise() and the destructors
\* lead a region to its own continuation, in whatever order they come.
BuildsStructuredProgram == Program!Spec

\* Whatever was called, the ways out of a condition meet in its exit block.
WaysMeet == Program!WaysMeet
=============================================================================
