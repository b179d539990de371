------------------------------ MODULE MCRuntime ------------------------------
(* TLC instances of TypeTables, and of Runtime which it extends. *)
EXTENDS TypeTables

CONSTANTS void, int64, qubit, l, m, n  \* C++ types and names for them

MCNatives     == {void, int64, qubit}
MCSpecialised == {void, int64}
MCNames       == {l, m, n}

\* int64 and the structure qubit have two names in common.
MCNamedTypes == {<<void, l>>, <<int64, l>>, <<int64, m>>, <<int64, n>>, <<qubit, n>>, <<qubit, m>>}
MCNamedSigs  == {[ret |-> l, arg |-> m], [ret |-> m, arg |-> n]}

\* For the runtime of the README.
TwoNatives == {void, int64}
TwoNames   == {l, m}
TwoTypes   == TwoNatives \X TwoNames
TwoSigs    == NameSigs
=============================================================================
