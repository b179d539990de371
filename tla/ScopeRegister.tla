---------------------------- MODULE ScopeRegister ----------------------------
(***************************************************************************)
(* The tree of ScopeRegister objects (script-builder/scope-register.hpp)   *)
(* and the way the toy compiler declares and looks up names in it.         *)
(*                                                                         *)
(* A scope copies the set of used names of its parent when it is opened,   *)
(* and never looks at the parent's set again; values are looked up through *)
(* the parents at the time of the lookup.  The two therefore disagree when *)
(* a parent declares something after a child was opened, which builders    *)
(* for nested blocks make possible: they can be used in any order.         *)
(***************************************************************************)
EXTENDS Naturals

CONSTANTS
  Names,      \* variable names
  Values,     \* typed values a name can stand for
  NoValue,    \* "Named variable not found"
  MaxScopes   \* bound: scopes ever opened

ASSUME ScopeAssumption ==
  /\ NoValue \notin Values
  /\ MaxScopes \in Nat \ {0}

Scopes  == 1..MaxScopes
Root    == 1          \* scope_ of the ScriptBuilder
NoScope == 0

VARIABLES
  nscopes,  \* scopes 1..nscopes exist
  parent,   \* parent_
  used,     \* used_names_
  named,    \* named_values_; NoValue: no entry
  chain     \* ghost: the scope and all its ancestors

vars == <<nscopes, parent, used, named, chain>>

-----------------------------------------------------------------------------
\* ScopeRegister::has
has(s, n) == n \in used[s]

\* ScopeRegister::get, which asks the parents in turn.
\* (Mutant: only the parent is asked, not its parents.)
getNear(s, n) ==
  IF named[s][n] = NoValue /\ parent[s] # NoScope THEN named[parent[s]][n] ELSE named[s][n]
get(s, n) ==
  LET find[a \in Scopes] ==
        IF named[a][n] # NoValue \/ parent[a] = NoScope THEN named[a][n] ELSE find[parent[a]]
  IN find[s]

\* ScopeRegister::insert
\* (Mutant: the used name is recorded under the value.)
PutSwapped(s, n, v) ==
  /\ used' = [used EXCEPT ![s] = @ \cup {v}]
  /\ named' = [named EXCEPT ![s][n] = v]
  /\ UNCHANGED <<nscopes, parent, chain>>
Put(s, n, v) ==
  /\ used' = [used EXCEPT ![s] = @ \cup {n}]
  /\ named' = [named EXCEPT ![s][n] = v]
  /\ UNCHANGED <<nscopes, parent, chain>>

Init ==
  /\ nscopes = 1
  /\ parent = [s \in Scopes |-> NoScope]
  /\ used = [s \in Scopes |-> {}]
  /\ named = [s \in Scopes |-> [n \in Names |-> NoValue]]
  /\ chain = [s \in Scopes |-> IF s = Root THEN {Root} ELSE {}]

\* ScopeRegister::childScope and the constructor.
\* (Mutant: the new scope is linked to the parent of its parent.)
ChildScopeSkipping(p) ==
  LET s == nscopes + 1 IN
  /\ s \in Scopes
  /\ nscopes' = s
  /\ parent' = [parent EXCEPT ![s] = IF parent[p] = NoScope THEN p ELSE parent[p]]
  /\ used' = [used EXCEPT ![s] = used[p]]
  /\ chain' = [chain EXCEPT ![s] =
       {s} \cup chain[IF parent[p] = NoScope THEN p ELSE parent[p]]]
  /\ UNCHANGED named
ChildScope(p) ==
  LET s == nscopes + 1 IN
  /\ s \in Scopes
  /\ nscopes' = s
  /\ parent' = [parent EXCEPT ![s] = p]
  /\ used' = [used EXCEPT ![s] = used[p]]
  /\ chain' = [chain EXCEPT ![s] = {s} \cup chain[p]]
  /\ UNCHANGED named

\* visitFunctionDeclaration inserts the arguments without a check; two
\* arguments of one name leave the second.
Insert(s, n, v) == s \in 1..nscopes /\ Put(s, n, v)

\* visitDeclaration throws "redeclares or shadows previously defined variable"
\* if the name is in use.
\* (Mutant: the check is dropped.)
DeclareUnchecked(s, n, v) == s \in 1..nscopes /\ Put(s, n, v)
Declare(s, n, v) == s \in 1..nscopes /\ ~has(s, n) /\ Put(s, n, v)

Next ==
  \/ \E p \in 1..nscopes : ChildScope(p)
  \/ \E s \in Scopes, n \in Names, v \in Values : Insert(s, n, v) \/ Declare(s, n, v)

Spec == Init /\ [][Next]_vars

-----------------------------------------------------------------------------
(* Properties. *)

\* Type correctness.
TypeOK ==
  /\ nscopes \in Scopes
  /\ parent \in [Scopes -> Scopes \cup {NoScope}]
  /\ used \in [Scopes -> SUBSET Names]
  /\ named \in [Scopes -> [Names -> Values \cup {NoValue}]]
  /\ chain \in [Scopes -> SUBSET Scopes]

\* A name that has() reports is held by the scope or by one of its ancestors,
\* so the lookup visitExpression makes after has() never throws "Named
\* variable not found", although has() answers from a set copied long ago.
HasIsBacked ==
  \A s \in 1..nscopes, n \in Names :
    has(s, n) => \E a \in chain[s] : named[a][n] # NoValue

\* get() returns what the nearest enclosing scope holds, and throws only if
\* no enclosing scope holds the name.  Scopes are numbered as they are opened,
\* so the nearest holder is the one with the largest number.
GetFindsNearest ==
  \A s \in 1..nscopes, n \in Names :
    LET holders == {a \in chain[s] : named[a][n] # NoValue} IN
    IF holders = {} THEN get(s, n) = NoValue
    ELSE \E a \in holders : (\A c \in holders : c <= a) /\ get(s, n) = named[a][n]

\* "redeclares or shadows previously defined variable" (parser.cpp:240): a
\* declaration that passes the check in one scope never changes what a name
\* already visible in any scope stands for.  It rests on every scope between
\* the one that sees the name and the one that holds it having the name in its
\* own copied set.
DeclarePreservesMeaning ==
  [][\A s \in Scopes, n \in Names, v \in Values : Declare(s, n, v) =>
       \A t \in 1..nscopes, m \in Names : has(t, m) => get(t, m)' = get(t, m)]_vars
=============================================================================
