--------------------------- MODULE MCToyIrBuilder ---------------------------
(* TLC instances of ToyIrBuilder. *)
EXTENDS ToyIrBuilder

CONSTANTS n1, n2, print, main

NoQuota == <<>>

\* Int8 programs: literals, which are Int64, occur as indices only.
Programs8 ==
  {Id(n1), Op("plus", Id(n2), Id(n1)), Op("multiply", Id(n1), Id(n2)),
   CallOf(print, Id(n1)), CallOf(main, Id(n1)), Other}
  \cup {ItemOf(<<Id(n2), Id(n1)>>, Literal(i)) : i \in 1..2}

\* Int64 programs: literals as operands, arrays of one element and of two.
Programs64 ==
  {Id(n1), Op("plus", Id(n2), Literal(2)), Op("multiply", Id(n1), Id(n2)),
   ItemOf(<<Id(n2)>>, Literal(0)), ItemOf(<<Literal(1), Id(n2)>>, Literal(1))}

\* Int8 programs with all operators.
ProgramsOps == {Id(n2)} \cup {Op(o, Id(n1), Id(n2)) : o \in Operators}

\* Nothing is explored behind a return, nor in an operation whose meaning is
\* undefined: neither becomes complete or defined again.
Meaningful == ~undefined /\ \A i \in DOMAIN code : code[i].op = "ret" => i = Len(code)
=============================================================================
