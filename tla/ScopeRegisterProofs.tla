------------------------- MODULE ScopeRegisterProofs -------------------------
(* Proofs about ScopeRegister, for any number of scopes, names and values.  *)
EXTENDS ScopeRegister, WellFoundedInduction, TLAPS

\* A scope belongs to its own chain of enclosing scopes.
OwnChain == \A s \in 1..nscopes : s \in chain[s]

Inv == TypeOK /\ OwnChain /\ HasIsBacked

LEMMA ScopeNumbers == \A k \in Scopes : 1..k \subseteq Scopes /\ (k + 1 \in Scopes => 1..(k + 1) = (1..k) \cup {k + 1})
  BY ScopeAssumption DEF Scopes

\* insert() backs the name it marks as used in the scope itself.
LEMMA PutKeepsInv ==
  ASSUME Inv, NEW s \in 1..nscopes, NEW n \in Names, NEW v \in Values, Put(s, n, v)
  PROVE  Inv'
<1>1. nscopes \in Scopes /\ s \in Scopes /\ s \in chain[s]
  BY ScopeNumbers DEF Inv, TypeOK, OwnChain
<1>2. TypeOK'
  BY <1>1 DEF Inv, TypeOK, Put
<1>3. OwnChain'
  BY DEF Inv, OwnChain, Put
<1>4. HasIsBacked'
  <2> SUFFICES ASSUME NEW t \in 1..nscopes, NEW m \in Names, m \in used'[t]
               PROVE  \E a \in chain[t] : named'[a][m] # NoValue
    BY DEF HasIsBacked, has, Put
  <2>1. CASE t = s /\ m = n
    <3>1. named'[s][n] = v /\ v # NoValue
      BY <1>1, ScopeAssumption DEF Put, Inv, TypeOK
    <3> QED
      BY <2>1, <3>1, <1>1
  <2>2. CASE ~(t = s /\ m = n)
    <3>1. m \in used[t]
      BY <2>2, <1>1, ScopeNumbers DEF Put, Inv, TypeOK
    <3>2. PICK a \in chain[t] : named[a][m] # NoValue
      BY <3>1 DEF Inv, HasIsBacked, has
    <3>3. a \in Scopes
      BY <1>1, ScopeNumbers DEF Inv, TypeOK
    <3>4. named'[a][m] # NoValue
      BY <3>2, <3>3, ScopeAssumption DEF Put, Inv, TypeOK
    <3> QED
      BY <3>4
  <2> QED
    BY <2>1, <2>2
<1> QED
  BY <1>2, <1>3, <1>4 DEF Inv

\* A new scope sees the names of its parent through its parent's chain.
LEMMA ChildScopeKeepsInv ==
  ASSUME Inv, NEW p \in 1..nscopes, ChildScope(p)
  PROVE  Inv'
<1> DEFINE s == nscopes + 1
<1>1. nscopes \in Scopes /\ p \in Scopes /\ s \in Scopes /\ s \notin 1..nscopes
  BY ScopeNumbers DEF Inv, TypeOK, ChildScope, Scopes
<1>2. (1..nscopes)' = (1..nscopes) \cup {s}
  BY <1>1, ScopeNumbers DEF ChildScope
<1>3. /\ used' = [used EXCEPT ![s] = used[p]]
      /\ chain' = [chain EXCEPT ![s] = {s} \cup chain[p]]
      /\ parent' = [parent EXCEPT ![s] = p]
      /\ named' = named
      /\ nscopes' = s
  BY DEF ChildScope
<1> HIDE DEF s
<1>4. used'[s] = used[p] /\ chain'[s] = {s} \cup chain[p]
  BY <1>1, <1>3 DEF Inv, TypeOK
<1>5. \A t \in 1..nscopes : used'[t] = used[t] /\ chain'[t] = chain[t]
  BY <1>1, <1>3, ScopeNumbers DEF Inv, TypeOK
<1>6. TypeOK'
  <2>1. nscopes' \in Scopes /\ parent' \in [Scopes -> Scopes \cup {NoScope}]
    BY <1>1, <1>3 DEF Inv, TypeOK
  <2>2. used' \in [Scopes -> SUBSET Names]
    BY <1>1, <1>3 DEF Inv, TypeOK
  <2>3. chain' \in [Scopes -> SUBSET Scopes]
    BY <1>1, <1>3 DEF Inv, TypeOK
  <2> QED
    BY <2>1, <2>2, <2>3, <1>3 DEF Inv, TypeOK
<1>7. OwnChain'
  BY <1>2, <1>4, <1>5 DEF Inv, OwnChain
<1>8. HasIsBacked'
  <2> SUFFICES ASSUME NEW t \in (1..nscopes)', NEW m \in Names, m \in used'[t]
               PROVE  \E a \in chain'[t] : named[a][m] # NoValue
    BY <1>3 DEF HasIsBacked, has
  <2>1. CASE t = s
    BY <2>1, <1>4 DEF Inv, HasIsBacked, has
  <2>2. CASE t \in 1..nscopes
    BY <2>2, <1>5 DEF Inv, HasIsBacked, has
  <2> QED
    BY <2>1, <2>2, <1>2
<1> QED
  BY <1>6, <1>7, <1>8 DEF Inv

LEMMA InvInductive == Spec => []Inv
<1>1. Init => Inv
  <2> SUFFICES ASSUME Init PROVE Inv
    OBVIOUS
  <2>1. TypeOK
    BY ScopeAssumption DEF Init, TypeOK, Scopes, Root, NoScope
  <2>2. OwnChain /\ HasIsBacked
    BY ScopeAssumption DEF Init, OwnChain, HasIsBacked, has, Scopes, Root
  <2> QED
    BY <2>1, <2>2 DEF Inv
<1>2. Inv /\ [Next]_vars => Inv'
  <2> SUFFICES ASSUME Inv, [Next]_vars PROVE Inv'
    OBVIOUS
  <2>1. ASSUME NEW p \in 1..nscopes, ChildScope(p) PROVE Inv'
    BY <2>1, ChildScopeKeepsInv
  <2>2. ASSUME NEW s \in Scopes, NEW n \in Names, NEW v \in Values, Insert(s, n, v) PROVE Inv'
    BY <2>2, PutKeepsInv DEF Insert
  <2>3. ASSUME NEW s \in Scopes, NEW n \in Names, NEW v \in Values, Declare(s, n, v) PROVE Inv'
    BY <2>3, PutKeepsInv DEF Declare
  <2>4. CASE UNCHANGED vars
    BY <2>4 DEF vars, Inv, TypeOK, OwnChain, HasIsBacked, has
  <2> QED
    BY <2>1, <2>2, <2>3, <2>4 DEF Next
<1> QED
  BY <1>1, <1>2, PTL DEF Spec

\* The variables of the scope tree keep their types.
THEOREM ScopeTypes == Spec => []TypeOK
<1>1. Inv => TypeOK
  BY DEF Inv
<1> QED
  BY <1>1, InvInductive, PTL

\* After has() said yes, the chain of enclosing scopes holds a value for the
\* name: visitExpression can look it up, however many scopes were opened and
\* names declared since has()'s set was copied.
THEOREM HasIsAlwaysBacked == Spec => []HasIsBacked
<1>1. Inv => HasIsBacked
  BY DEF Inv
<1> QED
  BY <1>1, InvInductive, PTL
-----------------------------------------------------------------------------
(* The recursive lookup.                                                     *)

\* Induction over scopes, without an operator parameter: counterexamples have
\* a smallest one.
LEMMA Smallest ==
  ASSUME NEW T, T \subseteq Nat, T # {}
  PROVE  \E m \in T : \A k \in T : m <= k
<1> DEFINE R == OpToRel(<, Nat)
<1>1. IsWellFoundedOn(R, Nat)
  BY NatLessThanWellFounded, Zenon
<1>2. \A x, y \in Nat : y < x => <<y, x>> \in R
  BY Zenon DEF OpToRel
<1> HIDE DEF R
<1>3. PICK m \in T : \A y \in T : ~(<<y, m>> \in R)
  BY <1>1, WFMin
<1>4. \A k \in T : ~(k < m)
  BY <1>2, <1>3
<1>5. m \in Nat /\ \A k \in T : k \in Nat
  OBVIOUS
<1> QED
  BY <1>4, <1>5

\* The tree: parents are older than their children, and a chain goes on with
\* the chain of the parent.
Upward ==
  \A s \in Scopes : parent[s] \in Nat /\ parent[s] < s

Chained ==
  \A s \in 1..nscopes :
    /\ parent[s] \in 0..nscopes
    /\ chain[s] = {s} \cup (IF parent[s] = NoScope THEN {} ELSE chain[parent[s]])
    /\ chain[s] \subseteq 1..s

\* A used name is held by the scope itself or was copied from its parent, and
\* what a scope holds is used there.
Copied ==
  \A s \in 1..nscopes, n \in Names :
    /\ named[s][n] # NoValue => has(s, n)
    /\ has(s, n) => named[s][n] # NoValue \/ (parent[s] # NoScope /\ has(parent[s], n))

\* Scopes that were not opened yet are empty.
Unopened ==
  \A s \in Scopes : s > nscopes =>
    parent[s] = NoScope /\ \A n \in Names : named[s][n] = NoValue

TreeInv == Upward /\ Chained /\ Copied /\ Unopened

\* One step of the lookup of n, with f for the lookup in the parents.
LookUp(f, n, a) ==
  IF named[a][n] # NoValue \/ parent[a] = NoScope THEN named[a][n] ELSE f[parent[a]]

LEMMA LookUpLocal ==
  ASSUME Upward, NEW n, NEW a \in Scopes, NEW f, NEW g,
         \A b \in Scopes : b < a => f[b] = g[b]
  PROVE  LookUp(f, n, a) = LookUp(g, n, a)
<1>1. CASE parent[a] = NoScope
  BY <1>1 DEF LookUp
<1>2. CASE parent[a] # NoScope
  <2>1. parent[a] \in Scopes /\ parent[a] < a
    BY <1>2, ScopeAssumption DEF Upward, Scopes, NoScope
  <2> QED
    BY <2>1 DEF LookUp
<1> QED
  BY <1>1, <1>2

\* The recursion is well founded: there is a function that satisfies it on the
\* scopes up to any number, because one that does so can be extended by a scope.
LEMMA LookUpExists ==
  ASSUME Upward, NEW n \in Names
  PROVE  \E f : f = [a \in Scopes |-> LookUp(f, n, a)]
<1> DEFINE Good(f, k) == \A a \in 1..k : f[a] = LookUp(f, n, a)
           Bad == {k \in 0..MaxScopes : ~\E f : Good(f, k)}
<1>1. Bad = {}
  <2> SUFFICES ASSUME Bad # {} PROVE FALSE
    OBVIOUS
  <2>1. Bad \subseteq Nat
    OBVIOUS
  <2>2. PICK m \in Bad : \A k \in Bad : m <= k
    <3> HIDE DEF Bad
    <3> QED
      BY <2>1, Smallest
  <2>3. m \in 0..MaxScopes /\ ~\E f : Good(f, m)
    OBVIOUS
  <2>4. m # 0
    BY <2>3
  <2>5. m \in Scopes /\ m - 1 \in 0..MaxScopes /\ ~(m <= m - 1) /\ MaxScopes \in Nat
    BY <2>3, <2>4, ScopeAssumption DEF Scopes
  <2>6. PICK f : Good(f, m - 1)
    BY <2>2, <2>5
  <2> DEFINE g == [a \in Scopes |-> IF a < m THEN f[a] ELSE LookUp(f, n, a)]
  <2>7. \A a \in Scopes : a < m => g[a] = f[a]
    OBVIOUS
  <2>8. g[m] = LookUp(f, n, m)
    BY <2>5 DEF Scopes
  <2> HIDE DEF g
  <2>9. \A a \in 1..m : a \in Scopes /\ (a = m \/ (a < m /\ a \in 1..(m - 1)))
    BY <2>5 DEF Scopes
  <2>10. ASSUME NEW a \in 1..m PROVE g[a] = LookUp(g, n, a)
    <3>1. \A b \in Scopes : b < a => f[b] = g[b]
      BY <2>5, <2>7, <2>9 DEF Scopes
    <3>2. LookUp(f, n, a) = LookUp(g, n, a)
      BY <2>9, <3>1, LookUpLocal
    <3>3. g[a] = LookUp(f, n, a)
      BY <2>6, <2>7, <2>8, <2>9
    <3> QED
      BY <3>2, <3>3
  <2> QED
    BY <2>3, <2>10
<1>2. PICK f : \A a \in Scopes : f[a] = LookUp(f, n, a)
  BY <1>1, ScopeAssumption DEF Scopes
<1> DEFINE g == [a \in Scopes |-> f[a]]
<1>3. \A a \in Scopes : LookUp(f, n, a) = LookUp(g, n, a)
  BY LookUpLocal
<1>4. g = [a \in Scopes |-> LookUp(g, n, a)]
  <2>1. \A a \in Scopes : f[a] = LookUp(g, n, a)
    BY <1>2, <1>3
  <2> QED
    BY <2>1, Zenon
<1> QED
  BY <1>4

\* So get() satisfies the recursion it is written with, before and after a step.
GetIsRecursive ==
  \A n \in Names, s \in Scopes :
    get(s, n) = IF named[s][n] # NoValue \/ parent[s] = NoScope
                THEN named[s][n] ELSE get(parent[s], n)

LEMMA GetUnfolds == Upward => GetIsRecursive
<1> SUFFICES ASSUME Upward, NEW n \in Names, NEW s \in Scopes
             PROVE  get(s, n) = IF named[s][n] # NoValue \/ parent[s] = NoScope
                                THEN named[s][n] ELSE get(parent[s], n)
  BY DEF GetIsRecursive
<1> DEFINE find == CHOOSE f : f = [a \in Scopes |-> LookUp(f, n, a)]
<1>1. find = [a \in Scopes |-> LookUp(find, n, a)]
  BY LookUpExists, Zenon
<1>2. \A t : get(t, n) = find[t]
  BY Zenon DEF get, LookUp
<1> HIDE DEF find
<1>3. find[s] = LookUp(find, n, s)
  BY <1>1
<1> QED
  BY <1>2, <1>3 DEF LookUp

LEMMA GetUnfoldsNext == Upward' => GetIsRecursive'
BY GetUnfolds, PTL

LEMMA PutKeepsTree ==
  ASSUME TypeOK, TreeInv, NEW s \in 1..nscopes, NEW n \in Names, NEW v \in Values, Put(s, n, v)
  PROVE  TreeInv'
<1>1. nscopes \in Scopes /\ s \in Scopes /\ s <= nscopes
  BY ScopeNumbers DEF TypeOK, Scopes
<1>2. nscopes' = nscopes /\ parent' = parent /\ chain' = chain
  BY DEF Put
<1>3. \A t \in Scopes, m \in Names :
        /\ m \in used'[t] <=> m \in used[t] \/ (t = s /\ m = n)
        /\ named'[t][m] = IF t = s /\ m = n THEN v ELSE named[t][m]
  BY <1>1 DEF TypeOK, Put, has
<1>4. Upward' /\ Chained'
  BY <1>2 DEF TreeInv, Upward, Chained
<1>5. Unopened'
  BY <1>1, <1>2, <1>3 DEF TreeInv, Unopened, Scopes
<1>6. Copied'
  <2> SUFFICES ASSUME NEW t \in 1..nscopes, NEW m \in Names
               PROVE  /\ named'[t][m] # NoValue => m \in used'[t]
                      /\ m \in used'[t] => \/ named'[t][m] # NoValue
                                           \/ parent[t] # NoScope /\ m \in used'[parent[t]]
    BY <1>2 DEF Copied, has
  <2>1. t \in Scopes /\ v # NoValue
    BY <1>1, ScopeNumbers, ScopeAssumption
  <2>2. parent[t] # NoScope => parent[t] \in Scopes
    BY <1>1, ScopeNumbers DEF TreeInv, Chained, NoScope
  <2> QED
    BY <1>3, <2>1, <2>2 DEF TreeInv, Copied, has
<1> QED
  BY <1>4, <1>5, <1>6 DEF TreeInv

LEMMA ChildScopeKeepsTree ==
  ASSUME TypeOK, TreeInv, NEW p \in 1..nscopes, ChildScope(p)
  PROVE  TreeInv'
<1> DEFINE s == nscopes + 1
<1>1. nscopes \in Scopes /\ nscopes \in Nat /\ p \in Scopes /\ p \in Nat /\ s \in Scopes /\ s \notin 1..nscopes
  BY ScopeNumbers DEF TypeOK, ChildScope, Scopes
<1>2. (1..nscopes)' = (1..nscopes) \cup {s}
  BY <1>1, ScopeNumbers DEF ChildScope
<1>3. /\ used' = [used EXCEPT ![s] = used[p]]
      /\ chain' = [chain EXCEPT ![s] = {s} \cup chain[p]]
      /\ parent' = [parent EXCEPT ![s] = p]
      /\ named' = named
      /\ nscopes' = s
  BY DEF ChildScope
<1>4. p <= nscopes /\ p < s
  BY <1>1
<1>5. s > nscopes /\ \A t \in 1..nscopes : t \in Scopes /\ t # s /\ t < s
  BY <1>1, ScopeNumbers
<1> HIDE DEF s
<1>6. /\ used'[s] = used[p] /\ chain'[s] = {s} \cup chain[p] /\ parent'[s] = p
      /\ \A t \in Scopes : t # s => used'[t] = used[t] /\ chain'[t] = chain[t] /\ parent'[t] = parent[t]
  BY <1>1, <1>3 DEF TypeOK
<1>7. Upward'
  BY <1>1, <1>4, <1>6 DEF TreeInv, Upward
<1>8. \A t \in 1..nscopes : parent[t] # NoScope => parent[t] \in 1..nscopes
  BY <1>1 DEF TreeInv, Chained, NoScope
<1>9. Chained'
  <2> SUFFICES ASSUME NEW t \in (1..nscopes)'
               PROVE  /\ parent'[t] \in 0..s
                      /\ chain'[t] = {t} \cup (IF parent'[t] = NoScope THEN {} ELSE chain'[parent'[t]])
                      /\ chain'[t] \subseteq 1..t
    BY <1>3 DEF Chained
  <2>1. CASE t = s
    <3>1. p # NoScope /\ p \in 0..s /\ chain'[p] = chain[p] /\ chain[p] \subseteq 1..p
      BY <1>1, <1>4, <1>5, <1>6 DEF TreeInv, Chained, NoScope, Scopes
    <3>2. 1..p \subseteq 1..s /\ s \in 1..s
      BY <1>1, <1>4 DEF Scopes
    <3> QED
      BY <2>1, <3>1, <3>2, <1>6
  <2>2. CASE t \in 1..nscopes
    <3>1. parent'[t] = parent[t] /\ chain'[t] = chain[t] /\ parent[t] \in 0..nscopes
      BY <2>2, <1>5, <1>6 DEF TreeInv, Chained
    <3>2. parent[t] \in 0..s
      BY <3>1, <1>1, <1>5 DEF Scopes
    <3>3. parent[t] # NoScope => chain'[parent[t]] = chain[parent[t]]
      BY <2>2, <1>5, <1>6, <1>8
    <3> QED
      BY <2>2, <3>1, <3>2, <3>3 DEF TreeInv, Chained
  <2> QED
    BY <2>1, <2>2, <1>2
<1>10. Copied'
  <2> SUFFICES ASSUME NEW t \in (1..nscopes)', NEW m \in Names
               PROVE  /\ named[t][m] # NoValue => m \in used'[t]
                      /\ m \in used'[t] => \/ named[t][m] # NoValue
                                           \/ parent'[t] # NoScope /\ m \in used'[parent'[t]]
    BY <1>3 DEF Copied, has
  <2>1. CASE t = s
    <3>1. named[s][m] = NoValue
      BY <1>1, <1>5 DEF TreeInv, Unopened
    <3>2. used'[s] = used'[p]
      BY <1>5, <1>6
    <3>3. p # NoScope
      BY <1>1 DEF NoScope
    <3> QED
      BY <2>1, <3>1, <3>2, <3>3, <1>6
  <2>2. CASE t \in 1..nscopes
    <3>1. parent'[t] = parent[t] /\ used'[t] = used[t]
      BY <2>2, <1>5, <1>6
    <3>2. parent[t] # NoScope => used'[parent[t]] = used[parent[t]]
      BY <2>2, <1>5, <1>6, <1>8
    <3> QED
      BY <2>2, <3>1, <3>2 DEF TreeInv, Copied, has
  <2> QED
    BY <2>1, <2>2, <1>2
<1>11. Unopened'
  <2> SUFFICES ASSUME NEW t \in Scopes, t > s
               PROVE  parent'[t] = NoScope /\ \A m \in Names : named[t][m] = NoValue
    BY <1>3 DEF Unopened
  <2>1. t # s /\ t > nscopes
    BY <1>1, <1>5 DEF Scopes
  <2> QED
    BY <2>1, <1>6 DEF TreeInv, Unopened
<1> QED
  BY <1>7, <1>9, <1>10, <1>11 DEF TreeInv

LEMMA TreeInductive == Spec => [](TypeOK /\ TreeInv)
<1>1. Init => TreeInv
  <2> SUFFICES ASSUME Init PROVE TreeInv
    OBVIOUS
  <2>1. Upward /\ Unopened
    BY ScopeAssumption DEF Init, Upward, Unopened, Scopes, NoScope
  <2>2. \A s \in 1..nscopes : s = Root /\ s = 1 /\ s \in Scopes
    BY ScopeAssumption DEF Init, Scopes, Root
  <2>3. Chained /\ Copied
    BY <2>2, ScopeAssumption DEF Init, Chained, Copied, has, NoScope
  <2> QED
    BY <2>1, <2>3 DEF TreeInv
<1>2. TypeOK /\ TreeInv /\ [Next]_vars => TreeInv'
  <2> SUFFICES ASSUME TypeOK, TreeInv, [Next]_vars PROVE TreeInv'
    OBVIOUS
  <2>1. ASSUME NEW p \in 1..nscopes, ChildScope(p) PROVE TreeInv'
    BY <2>1, ChildScopeKeepsTree
  <2>2. ASSUME NEW s \in Scopes, NEW n \in Names, NEW v \in Values, Insert(s, n, v) PROVE TreeInv'
    BY <2>2, PutKeepsTree DEF Insert
  <2>3. ASSUME NEW s \in Scopes, NEW n \in Names, NEW v \in Values, Declare(s, n, v) PROVE TreeInv'
    BY <2>3, PutKeepsTree DEF Declare
  <2>4. CASE UNCHANGED vars
    BY <2>4 DEF vars, TreeInv, Upward, Chained, Copied, Unopened, has
  <2> QED
    BY <2>1, <2>2, <2>3, <2>4 DEF Next
<1> QED
  BY <1>1, <1>2, ScopeTypes, PTL DEF Spec

-----------------------------------------------------------------------------
(* What the lookup finds.                                                    *)

Holders(s, n) == {a \in chain[s] : named[a][n] # NoValue}

FindsNearest(s, n) ==
  IF Holders(s, n) = {} THEN get(s, n) = NoValue
  ELSE \E a \in Holders(s, n) : (\A c \in Holders(s, n) : c <= a) /\ get(s, n) = named[a][n]

\* The lookup in a scope is right if that in its parent is.
LEMMA NearestFromParent ==
  ASSUME TypeOK, TreeInv, NEW s \in 1..nscopes, NEW n \in Names,
         parent[s] # NoScope => FindsNearest(parent[s], n)
  PROVE  FindsNearest(s, n)
<1>1. s \in Scopes /\ s \in Nat
  BY ScopeNumbers DEF TypeOK, Scopes
<1>2. get(s, n) = IF named[s][n] # NoValue \/ parent[s] = NoScope
                  THEN named[s][n] ELSE get(parent[s], n)
  BY <1>1, GetUnfolds DEF TreeInv, GetIsRecursive
<1>3. chain[s] = {s} \cup (IF parent[s] = NoScope THEN {} ELSE chain[parent[s]])
  BY DEF TreeInv, Chained
<1>4. \A c \in chain[s] : c <= s
  BY <1>1 DEF TreeInv, Chained
<1>5. CASE named[s][n] # NoValue
  <2>1. s \in Holders(s, n) /\ \A c \in Holders(s, n) : c <= s
    BY <1>3, <1>4, <1>5 DEF Holders
  <2> QED
    BY <2>1, <1>2, <1>5 DEF FindsNearest
<1>6. CASE named[s][n] = NoValue /\ parent[s] = NoScope
  <2>1. Holders(s, n) = {}
    BY <1>3, <1>6 DEF Holders
  <2> QED
    BY <2>1, <1>2, <1>6 DEF FindsNearest
<1>7. CASE named[s][n] = NoValue /\ parent[s] # NoScope
  <2>1. Holders(s, n) = Holders(parent[s], n)
    BY <1>3, <1>7 DEF Holders
  <2> QED
    BY <2>1, <1>2, <1>7 DEF FindsNearest
<1> QED
  BY <1>5, <1>6, <1>7

\* get() returns what the nearest enclosing scope holds, however deep the tree
\* is and in whatever order scopes were opened and names declared.
THEOREM GetAlwaysFindsNearest == Spec => []GetFindsNearest
<1>1. TypeOK /\ TreeInv => GetFindsNearest
  <2> SUFFICES ASSUME TypeOK, TreeInv, NEW n \in Names
               PROVE  \A s \in 1..nscopes : FindsNearest(s, n)
    BY DEF GetFindsNearest, FindsNearest, Holders
  <2> DEFINE Wrong == {s \in 1..nscopes : ~FindsNearest(s, n)}
  <2> SUFFICES ASSUME Wrong # {} PROVE FALSE
    OBVIOUS
  <2>1. PICK s \in Wrong : \A t \in Wrong : s <= t
    <3>1. Wrong \subseteq Nat
      OBVIOUS
    <3> HIDE DEF Wrong
    <3> QED
      BY <3>1, Smallest
  <2>2. s \in 1..nscopes /\ s \in Scopes /\ ~FindsNearest(s, n) /\ nscopes \in Nat
    BY ScopeNumbers DEF TypeOK, Scopes
  <2>3. parent[s] # NoScope => parent[s] \in 1..nscopes /\ ~(s <= parent[s])
    BY <2>2, ScopeAssumption DEF TreeInv, Upward, Chained, NoScope, Scopes
  <2>4. parent[s] # NoScope => FindsNearest(parent[s], n)
    BY <2>1, <2>3
  <2> QED
    BY <2>2, <2>4, NearestFromParent
<1> QED
  BY <1>1, TreeInductive, PTL

\* The lookup of a used name stops before a scope where the name is not used.
LEMMA DeclareKeepsLookup ==
  ASSUME TypeOK, TypeOK', TreeInv, TreeInv',
         NEW s \in Scopes, NEW n \in Names, NEW v \in Values, Declare(s, n, v),
         NEW t \in 1..nscopes, NEW m \in Names, has(t, m), NEW q, q = parent[t],
         q # NoScope /\ has(q, m) => get(q, m)' = get(q, m)
  PROVE  get(t, m)' = get(t, m)
<1>1. t \in Scopes
  BY ScopeNumbers DEF TypeOK
<1>2. parent' = parent /\ ~has(s, n) /\ named' = [named EXCEPT ![s][n] = v]
  BY DEF Declare, Put
<1>3. named'[t][m] = named[t][m]
  BY <1>1, <1>2 DEF TypeOK
<1>4. get(t, m) = IF named[t][m] # NoValue \/ q = NoScope
                  THEN named[t][m] ELSE get(q, m)
  BY <1>1, GetUnfolds DEF TreeInv, GetIsRecursive
<1>5. get(t, m)' = IF named[t][m] # NoValue \/ q = NoScope
                   THEN named[t][m] ELSE get(q, m)'
  <2>1. Upward'
    BY DEF TreeInv
  <2>2. (get(t, m) = IF named[t][m] # NoValue \/ parent[t] = NoScope
                     THEN named[t][m] ELSE get(parent[t], m))'
    BY <2>1, <1>1, GetUnfoldsNext DEF GetIsRecursive
  <2>3. parent'[t] = q
    BY <1>2
  <2> QED
    BY <2>2, <2>3, <1>3
<1>6. named[t][m] # NoValue \/ (q # NoScope /\ has(q, m))
  BY DEF TreeInv, Copied
<1> QED
  BY <1>4, <1>5, <1>6

\* What goes on holding of the scopes there are.
Kept ==
  /\ nscopes' >= nscopes
  /\ \A t \in 1..nscopes : parent'[t] = parent[t] /\ chain'[t] = chain[t]
  /\ \A t \in 1..nscopes, m \in Names :
       /\ has(t, m) => has(t, m)' /\ get(t, m)' = get(t, m)
       /\ named[t][m] # NoValue => named'[t][m] = named[t][m]

LEMMA DeclareKeepsNames ==
  ASSUME TypeOK, TypeOK', TreeInv, TreeInv',
         NEW s \in Scopes, NEW n \in Names, NEW v \in Values, Declare(s, n, v)
  PROVE  Kept
<1>1. /\ parent' = parent /\ chain' = chain /\ nscopes' = nscopes /\ nscopes \in Nat
      /\ \A t \in Scopes, m \in Names :
           /\ m \in used'[t] <=> m \in used[t] \/ (t = s /\ m = n)
           /\ named'[t][m] = IF t = s /\ m = n THEN v ELSE named[t][m]
  BY DEF Declare, Put, TypeOK, Scopes
<1>2. ASSUME NEW m \in Names
      PROVE  \A t \in 1..nscopes : has(t, m) => get(t, m)' = get(t, m)
  <2> DEFINE Changed == {t \in 1..nscopes : has(t, m) /\ get(t, m)' # get(t, m)}
  <2> SUFFICES ASSUME Changed # {} PROVE FALSE
    OBVIOUS
  <2>1. PICK t \in Changed : \A u \in Changed : t <= u
    <3>1. Changed \subseteq Nat
      OBVIOUS
    <3> HIDE DEF Changed
    <3> QED
      BY <3>1, Smallest
  <2>2. t \in 1..nscopes /\ t \in Scopes /\ has(t, m) /\ get(t, m)' # get(t, m) /\ nscopes \in Nat
    BY ScopeNumbers DEF TypeOK, Scopes
  <2>3. parent[t] # NoScope => parent[t] \in 1..nscopes /\ ~(t <= parent[t])
    BY <2>2, ScopeAssumption DEF TreeInv, Upward, Chained, NoScope, Scopes
  <2>4. PICK q : q = parent[t]
    OBVIOUS
  <2>5. q # NoScope /\ has(q, m) => get(q, m)' = get(q, m)
    BY <2>1, <2>3, <2>4
  <2> QED
    BY <2>2, <2>4, <2>5, DeclareKeepsLookup
<1>3. ASSUME NEW t \in 1..nscopes, NEW m \in Names
      PROVE  /\ has(t, m) => has(t, m)'
             /\ named[t][m] # NoValue => named'[t][m] = named[t][m]
  <2>1. t \in Scopes
    BY ScopeNumbers DEF TypeOK
  <2>2. ~has(s, n) /\ s \in 1..nscopes
    BY DEF Declare
  <2>3. named[s][n] = NoValue
    BY <2>2 DEF TreeInv, Copied
  <2> QED
    BY <2>1, <2>3, <1>1 DEF has
<1> QED
  BY <1>1, <1>2, <1>3 DEF Kept

\* Lookups depend on what the scopes hold and where they are in the tree.
LEMMA LookupsKept ==
  ASSUME TypeOK, TreeInv, TreeInv', named' = named,
         \A t \in 1..nscopes : parent'[t] = parent[t]
  PROVE  \A t \in 1..nscopes, m \in Names : get(t, m)' = get(t, m)
<1> SUFFICES ASSUME NEW m \in Names PROVE \A t \in 1..nscopes : get(t, m)' = get(t, m)
  OBVIOUS
<1> DEFINE Changed == {t \in 1..nscopes : get(t, m)' # get(t, m)}
<1> SUFFICES ASSUME Changed # {} PROVE FALSE
  OBVIOUS
<1>1. PICK t \in Changed : \A u \in Changed : t <= u
  <2>1. Changed \subseteq Nat
    OBVIOUS
  <2> HIDE DEF Changed
  <2> QED
    BY <2>1, Smallest
<1>2. t \in 1..nscopes /\ t \in Scopes /\ get(t, m)' # get(t, m) /\ nscopes \in Nat
  BY ScopeNumbers DEF TypeOK, Scopes
<1>3. parent[t] # NoScope => parent[t] \in 1..nscopes /\ ~(t <= parent[t])
  BY <1>2, ScopeAssumption DEF TreeInv, Upward, Chained, NoScope, Scopes
<1>4. parent[t] # NoScope => get(parent[t], m)' = get(parent[t], m)
  <2> SUFFICES ASSUME parent[t] # NoScope PROVE get(parent[t], m)' = get(parent[t], m)
    OBVIOUS
  <2>1. PICK q \in 1..nscopes : q = parent[t] /\ ~(t <= q)
    BY <1>3
  <2>2. get(q, m)' = get(q, m)
    BY <1>1, <2>1
  <2> QED
    BY <2>1, <2>2, <1>2
<1>5. get(t, m) = IF named[t][m] # NoValue \/ parent[t] = NoScope
                  THEN named[t][m] ELSE get(parent[t], m)
  BY <1>2, GetUnfolds DEF TreeInv, GetIsRecursive
<1>6. (get(t, m) = IF named[t][m] # NoValue \/ parent[t] = NoScope
                   THEN named[t][m] ELSE get(parent[t], m))'
  <2>1. Upward'
    BY DEF TreeInv
  <2> QED
    BY <2>1, <1>2, GetUnfoldsNext DEF GetIsRecursive
<1> QED
  BY <1>2, <1>4, <1>5, <1>6

LEMMA UnchangedKeepsNames ==
  ASSUME TypeOK, TreeInv, TreeInv', UNCHANGED vars
  PROVE  Kept /\ \A t, m : has(t, m)' <=> has(t, m)
<1>1. nscopes \in Nat
  BY DEF TypeOK, Scopes
<1>2. UNCHANGED <<nscopes, parent, used, named, chain>>
  BY DEF vars
<1>3. \A t \in 1..nscopes, m \in Names : get(t, m)' = get(t, m)
  BY <1>2, LookupsKept
<1> QED
  BY <1>1, <1>2, <1>3 DEF Kept, has

\* A new scope answers has() and get() like the one it was opened in, and
\* nothing changes for the others.
LEMMA ChildScopeKeepsNames ==
  ASSUME TypeOK, TypeOK', TreeInv, TreeInv', NEW p \in 1..nscopes, ChildScope(p)
  PROVE  Kept /\ \A t \in 1..nscopes, m \in Names : has(t, m)' <=> has(t, m)
<1>1. /\ \A t \in 1..nscopes : t \in Scopes /\ t # nscopes + 1
      /\ nscopes \in Nat /\ p \in Scopes /\ nscopes + 1 \in Scopes
  BY ScopeNumbers DEF TypeOK, ChildScope, Scopes
<1>2. /\ named' = named /\ nscopes' = nscopes + 1
      /\ \A t \in 1..nscopes :
           used'[t] = used[t] /\ chain'[t] = chain[t] /\ parent'[t] = parent[t]
  BY <1>1 DEF TypeOK, ChildScope
<1>3. \A t \in 1..nscopes, m \in Names : get(t, m)' = get(t, m)
  BY <1>2, LookupsKept
<1> QED
  BY <1>1, <1>2, <1>3 DEF Kept, has

LEMMA ChildScopeSees ==
  ASSUME TypeOK, TypeOK', TreeInv, TreeInv', NEW p \in 1..nscopes, ChildScope(p),
         NEW s, s = nscopes + 1, NEW n \in Names
  PROVE  /\ s \in Scopes /\ s \notin 1..nscopes /\ nscopes' = s
         /\ parent'[s] = p /\ chain'[s] = {s} \cup chain[p] /\ named'[s][n] = NoValue
         /\ has(s, n)' <=> has(p, n)
         /\ has(p, n) => get(s, n)' = get(p, n)
<1>1. /\ nscopes \in Nat /\ p \in Scopes /\ s \in Scopes /\ s \notin 1..nscopes /\ nscopes' = s
      /\ s > nscopes /\ p # NoScope
  BY ScopeNumbers DEF TypeOK, ChildScope, Scopes, NoScope
<1>2. /\ parent'[s] = p /\ chain'[s] = {s} \cup chain[p] /\ used'[s] = used[p] /\ named' = named
  BY <1>1 DEF TypeOK, ChildScope
<1>3. named'[s][n] = NoValue
  BY <1>1, <1>2 DEF TreeInv, Unopened
<1>4. (get(s, n) = IF named[s][n] # NoValue \/ parent[s] = NoScope
                   THEN named[s][n] ELSE get(parent[s], n))'
  <2>1. Upward'
    BY DEF TreeInv
  <2> QED
    BY <2>1, <1>1, GetUnfoldsNext DEF GetIsRecursive
<1>5. get(s, n)' = get(p, n)'
  BY <1>1, <1>2, <1>3, <1>4
<1>6. has(p, n) => get(p, n)' = get(p, n)
  BY ChildScopeKeepsNames DEF Kept
<1> QED
  BY <1>1, <1>2, <1>3, <1>5, <1>6 DEF has

\* The name that is declared is found where it is declared.
LEMMA DeclareSees ==
  ASSUME TypeOK, TypeOK', TreeInv, TreeInv',
         NEW s \in Scopes, NEW n \in Names, NEW v \in Values, Declare(s, n, v)
  PROVE  /\ \A t \in Scopes, m \in Names : has(t, m)' <=> has(t, m) \/ (t = s /\ m = n)
         /\ named'[s][n] = v /\ get(s, n)' = v /\ v # NoValue
         /\ nscopes' = nscopes
<1>1. /\ \A t \in Scopes, m \in Names : m \in used'[t] <=> m \in used[t] \/ (t = s /\ m = n)
      /\ named'[s][n] = v /\ nscopes' = nscopes
  BY DEF Declare, Put, TypeOK
<1>2. v # NoValue
  BY ScopeAssumption
<1>3. (get(s, n) = IF named[s][n] # NoValue \/ parent[s] = NoScope
                   THEN named[s][n] ELSE get(parent[s], n))'
  <2>1. Upward'
    BY DEF TreeInv
  <2> QED
    BY <2>1, GetUnfoldsNext DEF GetIsRecursive
<1> QED
  BY <1>1, <1>2, <1>3 DEF has

\* A used name stands for something.
LEMMA HasFinds ==
  ASSUME TypeOK, TreeInv, NEW t \in 1..nscopes, NEW n \in Names, has(t, n)
  PROVE  get(t, n) # NoValue
<1> DEFINE Lost == {u \in 1..nscopes : has(u, n) /\ get(u, n) = NoValue}
<1> SUFFICES ASSUME Lost # {} PROVE FALSE
  OBVIOUS
<1>1. PICK u \in Lost : \A w \in Lost : u <= w
  <2>1. Lost \subseteq Nat
    OBVIOUS
  <2> HIDE DEF Lost
  <2> QED
    BY <2>1, Smallest
<1>2. u \in 1..nscopes /\ u \in Scopes /\ has(u, n) /\ get(u, n) = NoValue /\ nscopes \in Nat
  BY ScopeNumbers DEF TypeOK, Scopes
<1>3. parent[u] # NoScope => parent[u] \in 1..nscopes /\ ~(u <= parent[u])
  BY <1>2, ScopeAssumption DEF TreeInv, Upward, Chained, NoScope, Scopes
<1>4. parent[u] # NoScope /\ has(parent[u], n) => get(parent[u], n) # NoValue
  BY <1>1, <1>3
<1>5. get(u, n) = IF named[u][n] # NoValue \/ parent[u] = NoScope
                  THEN named[u][n] ELSE get(parent[u], n)
  BY <1>2, GetUnfolds DEF TreeInv, GetIsRecursive
<1>6. named[u][n] # NoValue \/ (parent[u] # NoScope /\ has(parent[u], n))
  BY <1>2 DEF TreeInv, Copied
<1> QED
  BY <1>2, <1>4, <1>5, <1>6

\* A declaration that passes the check never changes what a name already
\* visible in any scope stands for ("redeclares or shadows previously defined
\* variable", parser.cpp:240).
THEOREM DeclareAlwaysPreservesMeaning == Spec => DeclarePreservesMeaning
<1> DEFINE Keeps(s, n, v) == Declare(s, n, v) =>
      \A t \in 1..nscopes, m \in Names : has(t, m) => get(t, m)' = get(t, m)
<1>1. TypeOK /\ TreeInv /\ TypeOK' /\ TreeInv' =>
        \A s \in Scopes, n \in Names, v \in Values : Keeps(s, n, v)
  BY DeclareKeepsNames DEF Kept
<1> QED
  BY <1>1, TreeInductive, PTL DEF DeclarePreservesMeaning
=============================================================================
