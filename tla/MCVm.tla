--------------------------------- MODULE MCVm ---------------------------------
(* TLC instances of Vm. *)
EXTENDS Vm, TLC

CONSTANTS void, int64, m, n,  \* two C++ types and two names for them
          print, main         \* a function of the runtime, one of the script

\* The name of void can be given to int64.
MCNatives     == {void, int64}
MCNames       == {m, n}
MCFunctions   == {print, main}
MCClientTypes == {<<void, m>>, <<int64, n>>, <<int64, m>>}
MCClientSigs  == {<<print, [ret |-> m, arg |-> n]>>, <<print, [ret |-> n, arg |-> n]>>,
                  <<main, [ret |-> n, arg |-> n]>>}
=============================================================================
