------------------------------ MODULE MCValues ------------------------------
(* A TLC instance of Values. *)
EXTENDS Values

\* Two literals (one can be made in an arm), one variable of each kind or one
\* array, one explicit load, one call, two stores.  With elements of size 2, a
\* cell has the index 2, which add computes, and for getArrayElement the index 1.
SmallQuota == [const |-> 2, stack |-> 1, heap |-> 1, array |-> 1, get |-> 1, item |-> 2,
               element |-> 1, add |-> 1, mul |-> 0, icmp |-> 0, call |-> 1, store |-> 2]

\* The client begins with a literal and a memory cell: that of a variable, and
\* then it has no arrays and computes nothing, or an array, and then it has no
\* variables and calls nothing.
With(op, others) == code[2].op = op /\ Handles(others) = {}
Begins ==
  /\ Len(code) >= 1 => code[1].op = "const"
  /\ Len(code) >= 2 =>
       \/ With("stack", {"array", "add"})
       \/ With("array", {"stack", "heap", "call"})

\* A module that the verifier rejects stays rejected, so nothing is explored
\* behind one.
Sensible == Accepted /\ Begins
=============================================================================
