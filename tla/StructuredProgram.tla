-------------------------- MODULE StructuredProgram --------------------------
(***************************************************************************)
(* What the builders of script-builder/scope-builder.{hpp,cpp} promise:    *)
(* whatever a client calls, the module it gets is a structured program.    *)
(*                                                                         *)
(* A program consists of segments of straight code.  A segment is in a     *)
(* region, which is a function or an arm of a condition; when the region   *)
(* is complete, control goes on at the region's continuation.  Builders,   *)
(* their addresses and lifetimes, the registry and the order in which      *)
(* terminators are inserted do not occur here.                             *)
(*                                                                         *)
(* A client that writes behind a terminator has no program: nothing is     *)
(* promised of what it built, but that it stays broken.                    *)
(***************************************************************************)
CONSTANTS
  Segments,
  Caller      \* continuation of a function: its run returns

VARIABLES
  broken,     \* the client wrote behind a terminator
  made,       \* the segments there are
  ended,      \* those that are complete
  next,       \* where control goes at the end of a segment; {}: it returns
  cont        \* the continuation of the region a segment is in

vars == <<broken, made, ended, next, cont>>

Blank ==
  /\ made' = {} /\ ended' = {}
  /\ next' = [s \in Segments |-> {}]
  /\ cont' = [s \in Segments |-> Caller]

Init ==
  /\ broken = FALSE
  /\ made = {} /\ ended = {}
  /\ next = [s \in Segments |-> {}]
  /\ cont = [s \in Segments |-> Caller]

New  == Segments \ made
Open == made \ ended

\* A function begins.
Begin(s) ==
  /\ made' = made \cup {s}
  /\ UNCHANGED <<broken, ended, next, cont>>

\* An if: control enters the arm or skips it, and goes on at the join.
Condition(s, arm, join) ==
  /\ arm # join
  /\ made' = made \cup {arm, join}
  /\ ended' = ended \cup {s}
  /\ next' = [next EXCEPT ![s] = {arm, join}]
  /\ cont' = [cont EXCEPT ![arm] = join, ![join] = cont[s]]
  /\ UNCHANGED broken

\* The if at the end of s gets an else: control that skipped the arm takes the
\* other one.  Nothing else led to the join so far; now the arm leads there.
Alternative(s, arm, other) ==
  LET join == cont[arm] IN
  /\ cont[s] # join
  /\ \A r \in Segments : join \in next[r] <=> r = s
  /\ made' = made \cup {other}
  /\ ended' = ended \cup {arm}
  /\ next' = [next EXCEPT ![s] = (@ \ {join}) \cup {other}, ![arm] = {join}]
  /\ cont' = [cont EXCEPT ![other] = join]
  /\ UNCHANGED broken

\* Some regions are complete.
Complete(S) ==
  /\ ended' = ended \cup S
  /\ next' = [s \in Segments |-> IF s \in S THEN {cont[s]} \ {Caller} ELSE next[s]]
  /\ UNCHANGED <<broken, made, cont>>

Return(s) ==
  /\ ended' = ended \cup {s}
  /\ UNCHANGED <<broken, made, next, cont>>

Break == broken' = TRUE /\ Blank

Next ==
  \/ Break
  \/ \E s \in New : Begin(s)
  \/ \E s \in Open : Return(s)
  \/ \E s \in Open : \E arm, join \in New : Condition(s, arm, join)
  \/ \E s \in ended : \E arm \in Open, other \in New : Alternative(s, arm, other)
  \/ \E S \in SUBSET Open : Complete(S)

Spec == Init /\ [][Next]_vars

-----------------------------------------------------------------------------
(* Properties. *)

\* All ways meet again: from a segment that is complete, control goes to the
\* continuation of its region, or each way it may take leads to one join in
\* the same region, directly or through an arm that continues there.  So no
\* arm is entered from elsewhere and no branch leaves an arm sideways.
WaysMeet ==
  \A s \in ended :
    \/ next[s] \subseteq {cont[s]}
    \/ \E join \in made :
         /\ cont[join] = cont[s]
         /\ \A t \in next[s] : t = join \/ cont[t] = join
=============================================================================
