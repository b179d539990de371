-------------------------------- MODULE Scopes --------------------------------
(***************************************************************************)
(* The builders of ScopeBuilder, each with the ScopeRegister it carries    *)
(* (scope_ in script-builder/scope-builder.hpp), and clients that declare  *)
(* variables in them the way the toy compiler does.                        *)
(*                                                                         *)
(* Scopes nest like builders are made, blocks like control flows, and the  *)
(* client uses builders in any order: it may fill the exit block of an if  *)
(* before the arm, or open the else long after.  Whether a name that a     *)
(* scope has may be used where its builder stands depends on both trees.   *)
(*                                                                         *)
(* A value is represented by the block its instruction is in.              *)
(***************************************************************************)
EXTENDS ScopeBuilderRefinement

CONSTANTS
  Names,
  MaxScopes   \* bound: scopes ever opened

ASSUME ScopesAssumption == MaxScopes \in Nat \ {0}

NoScope == 0

VARIABLES
  nscopes, scopeParent, used, named, chain,  \* of ScopeRegister
  scope,      \* scope_ of each builder
  elses       \* ghost: scopes opened by elseStatement

Reg == INSTANCE ScopeRegister WITH
  Values <- Blocks, NoValue <- NoBlock, parent <- scopeParent

regVars   == <<nscopes, scopeParent, used, named, chain>>
scopesVars == <<vars, regVars, scope, elses>>

-----------------------------------------------------------------------------
ScopesInit ==
  /\ Init
  /\ Reg!Init
  /\ scope = [a \in Builders |-> NoScope]
  /\ elses = {}

\* The builder placed at c gets a new scope inside s.
\* (Mutants: it is given the scope s itself; it does not keep the scope.)
EnterShared(s, c) ==
  /\ scope' = [scope EXCEPT ![c] = s]
  /\ UNCHANGED regVars
EnterNone(s, c) == Reg!ChildScope(s) /\ UNCHANGED scope
Enter(s, c) ==
  /\ Reg!ChildScope(s)
  /\ scope' = [scope EXCEPT ![c] = nscopes + 1]

\* ScriptBuilder::newFunction: a function's scope is inside the script's.
OpenFunction(f, c) ==
  /\ NewFunction(f, c)
  /\ Enter(Reg!Root, c)
  /\ UNCHANGED elses

\* ScopeBuilder::ifStatement: an arm's is inside that of the builder it is made
\* from, which from now on fills the exit block and keeps its scope.
OpenIf(a, e, c) ==
  /\ IfStatement(a, e, c)
  /\ Enter(scope[a], c)
  /\ UNCHANGED elses

\* IfStatement::elseStatement: the else arm's is inside the if arm's.
OpenElse(a, c) ==
  /\ ElseStatement(a, c)
  /\ Enter(scope[a], c)
  /\ elses' = elses \cup {scope'[c]}

\* A checked declaration: the instruction of the value is put at the end of
\* the builder's block.
DeclareIn(a, n) ==
  /\ Emit(a, NoBuilder)
  /\ Reg!Declare(scope[a], n, block[a])
  /\ UNCHANGED <<scope, elses>>

\* All other calls leave the scopes alone.
Work ==
  /\ \/ \E a \in Builders : Finalise(a)
     \/ \E a \in Builders, e \in Builders \cup {NoBuilder} : Emit(a, e) \/ ReturnValue(a, e)
     \/ ScriptFinalise
     \/ DestroyScript
  /\ UNCHANGED <<regVars, scope, elses>>

\* A scope lives on as long as an inner one refers to it.
Drop(a) ==
  /\ Destroy(a)
  /\ scope' = [scope EXCEPT ![a] = NoScope]
  /\ UNCHANGED <<regVars, elses>>

ScopesNext ==
  \/ \E f \in Functions, c \in Builders : OpenFunction(f, c)
  \/ \E a, c \in Builders, e \in Builders \cup {NoBuilder} : OpenIf(a, e, c)
  \/ \E a, c \in Builders : OpenElse(a, c)
  \/ \E a \in Builders, n \in Names : DeclareIn(a, n)
  \/ Work
  \/ \E a \in Builders : Drop(a)

ScopesSpec == ScopesInit /\ [][ScopesNext]_scopesVars

-----------------------------------------------------------------------------
\* The block that calls of b's function enter: newFunction may have appended
\* further ones.
EntryOf(b) == CHOOSE c \in 1..nblocks : parent[c] = parent[b]
                /\ \A d \in 1..nblocks : parent[d] = parent[b] => c <= d

\* No way from the entry to b avoids d: there is a set of blocks that control
\* cannot leave without d, with the entry inside and b outside.
Dominates(d, b) ==
  \/ d = b
  \/ \E S \in SUBSET ((1..nblocks) \ {d, b}) :
       /\ EntryOf(b) \in S \cup {d}
       /\ \A c \in S : Targets(c) \subseteq S \cup {d}

-----------------------------------------------------------------------------
(* Properties. *)

\* Type correctness.
ScopesTypeOK ==
  /\ Reg!TypeOK
  /\ scope \in [Builders -> 0..nscopes]
  /\ \A a \in Builders : a \in Live <=> scope[a] # NoScope
  /\ elses \subseteq 1..nscopes

\* The scopes of an if arm whose else scope the builder a is in.
OtherArms(a) == {scopeParent[t] : t \in elses \cap chain[scope[a]]}

\* A name that a builder's scope has stands for a value that is there when
\* control reaches the builder's block, whatever was declared in which order
\* through which builder; except for the names of an if arm, which the else
\* arm's scope has too, being made as a child of it (scope-builder.hpp:197).
NamesDominate ==
  Sound => \A a \in Live, n \in Names : Reg!has(scope[a], n) =>
    \/ Dominates(Reg!get(scope[a], n), block[a])
    \/ \E s \in OtherArms(a) : Reg!get(scope[a], n) = named[s][n]
=============================================================================
