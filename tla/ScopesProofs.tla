----------------------------- MODULE ScopesProofs -----------------------------
(* Proofs about Scopes: both trees, that of the scopes and that of the       *)
(* blocks, for any number of builders, blocks, scopes and names.             *)
EXTENDS Scopes, ScopeBuilderProofs

\* What is proved of every scope tree, of the one the builders share.
Tree == INSTANCE ScopeRegisterProofs WITH
  Values <- Blocks, NoValue <- NoBlock, parent <- scopeParent

LEMMA TreeConstants == NoBlock \notin Blocks /\ MaxScopes \in Nat \ {0}
BY NoBlockIsNone, ScopesAssumption

\* (The two instances of ScopeRegister are the same specification.)
LEMMA SameRegister ==
  /\ Reg!Init => Tree!Init
  /\ \A p : Reg!ChildScope(p) <=> Tree!ChildScope(p)
  /\ \A s, n, v : Reg!Declare(s, n, v) <=> Tree!Declare(s, n, v)
BY Zenon DEF Reg!Init, Tree!Init, Reg!ChildScope, Tree!ChildScope, Reg!Declare, Tree!Declare,
       Reg!Put, Tree!Put, Reg!has, Tree!has, Reg!Scopes, Tree!Scopes, Reg!NoScope, Tree!NoScope,
       Reg!Root, Tree!Root

LEMMA SameNames ==
  \A s, n : /\ Reg!has(s, n) <=> Tree!has(s, n)
            /\ Reg!get(s, n) = Tree!get(s, n)
BY Zenon DEF Reg!has, Tree!has, Reg!get, Tree!get, Reg!Scopes, Tree!Scopes, Reg!NoScope, Tree!NoScope

LEMMA ScopesStep == [ScopesNext]_scopesVars => [Next]_vars
<1>1. \A a \in Builders, n \in Names : DeclareIn(a, n) => Next
  BY DEF DeclareIn, Next
<1>2. Work => Next
  BY DEF Work, Next
<1> QED
  BY <1>1, <1>2 DEF ScopesNext, scopesVars, OpenFunction, OpenIf, OpenElse, Drop, Next

\* Scopes do not disturb the builders.
THEOREM ScopesAreBuilderSteps == ScopesSpec => Spec
<1>1. ScopesInit => Init
  BY DEF ScopesInit
<1> QED
  BY <1>1, ScopesStep, PTL DEF ScopesSpec, Spec

-----------------------------------------------------------------------------
(* Which builder has which scope.                                            *)
ScopesPlaced ==
  /\ nscopes \in 1..MaxScopes
  /\ scope \in [Builders -> 0..nscopes]
  /\ \A a \in Builders : a \in Live <=> scope[a] # NoScope
  /\ \A a \in Live : scope[a] # Reg!Root
  /\ \A a, c \in Live : scope[a] = scope[c] => a = c
  /\ elses \subseteq 1..nscopes

LEMMA ScopesPlacedInit == ScopesInit => ScopesPlaced
BY ScopesAssumption DEF ScopesInit, Init, Reg!Init, ScopesPlaced, Live, NoScope

\* A builder gets a scope of its own.
LEMMA EnterKeepsPlaced ==
  ASSUME TypeInv, ScopesPlaced, NEW s \in 1..nscopes, NEW c \in Builders, NEW k, Enter(s, c),
         kind[c] = "free", k # "free", kind' = [kind EXCEPT ![c] = k],
         elses' \subseteq elses \cup {nscopes + 1}
  PROVE  ScopesPlaced'
<1>1. /\ nscopes' = nscopes + 1 /\ nscopes + 1 \in 1..MaxScopes
      /\ scope' = [scope EXCEPT ![c] = nscopes + 1] /\ nscopes \in Nat
  BY DEF Enter, Reg!ChildScope, Reg!Scopes, ScopesPlaced
<1>2. \A a \in Builders : a \in Live' <=> a \in Live \/ a = c
  BY DEF Live, TypeInv, TypeOK
<1>3. /\ scope' \in [Builders -> 0..nscopes'] /\ scope'[c] = nscopes + 1
      /\ \A a \in Builders : a # c => scope'[a] = scope[a]
  BY <1>1 DEF ScopesPlaced
<1>4. \A a \in Builders : a \in Live' <=> scope'[a] # NoScope
  BY <1>1, <1>2, <1>3 DEF ScopesPlaced, NoScope
<1>5. \A a \in Live' : a \in Builders /\ scope'[a] # Reg!Root
  BY <1>1, <1>2, <1>3 DEF ScopesPlaced, Reg!Root, Live
<1>6. \A a, d \in Live' : scope'[a] = scope'[d] => a = d
  <2>1. \A a \in Live : scope[a] # nscopes + 1
    BY <1>1 DEF ScopesPlaced, Live
  <2> QED
    BY <2>1, <1>2, <1>3, <1>5 DEF ScopesPlaced
<1>7. elses' \subseteq 1..nscopes'
  BY <1>1 DEF ScopesPlaced
<1> QED
  BY <1>1, <1>3, <1>4, <1>5, <1>6, <1>7 DEF ScopesPlaced, Reg!Root

\* Calls that open no scope.
LEMMA OthersKeepPlaced ==
  ASSUME TypeInv, ScopesPlaced, nscopes' = nscopes, scope' = scope, elses' = elses, kind' = kind
  PROVE  ScopesPlaced'
BY DEF ScopesPlaced, Live, Reg!Root

LEMMA DestroyKeepsPlaced ==
  ASSUME TypeInv, ScopesPlaced, NEW a \in Builders, nscopes' = nscopes, elses' = elses,
         kind' = [kind EXCEPT ![a] = "free"], scope' = [scope EXCEPT ![a] = NoScope]
  PROVE  ScopesPlaced'
<1>1. \A c \in Builders : c \in Live' <=> c \in Live /\ c # a
  BY DEF Live, TypeInv, TypeOK
<1>2. /\ scope' \in [Builders -> 0..nscopes] /\ scope'[a] = NoScope
      /\ \A c \in Builders : c # a => scope'[c] = scope[c]
  BY DEF ScopesPlaced, NoScope
<1>3. \A c \in Live' : c \in Builders
  BY DEF Live
<1> QED
  BY <1>1, <1>2, <1>3 DEF ScopesPlaced, Reg!Root

\* What a builder does to the scopes when it does nothing with its own.
Quiet == UNCHANGED <<regVars, scope, elses>>

LEMMA WorkEffect ==
  ASSUME Work
  PROVE  Quiet /\ kind' = kind
BY DEF Work, Quiet, Finalise, Emit, ReturnValue, ScriptFinalise, DestroyScript, builderVars

LEMMA ScopesPlacedNext ==
  ASSUME TypeInv, ScopesPlaced, [ScopesNext]_scopesVars
  PROVE  ScopesPlaced'
<1>1. ASSUME NEW f \in Functions, NEW c \in Builders, OpenFunction(f, c) PROVE ScopesPlaced'
  <2>1. Reg!Root \in 1..nscopes
    BY DEF ScopesPlaced, Reg!Root
  <2> QED
    BY <1>1, <2>1, EnterKeepsPlaced DEF OpenFunction, NewFunction, Construct
<1>2. ASSUME NEW a \in Builders, NEW c \in Builders, NEW e \in Builders \cup {NoBuilder}, OpenIf(a, e, c)
      PROVE  ScopesPlaced'
  <2>1. scope[a] \in 1..nscopes
    BY <1>2 DEF OpenIf, IfStatement, ScopesPlaced, NoScope
  <2> QED
    BY <1>2, <2>1, EnterKeepsPlaced DEF OpenIf, IfStatement, Construct
<1>3. ASSUME NEW a \in Builders, NEW c \in Builders, OpenElse(a, c) PROVE ScopesPlaced'
  <2>1. a \in Live
    BY <1>3 DEF OpenElse, ElseStatement, Live
  <2>2. scope[a] \in 1..nscopes
    BY <2>1 DEF ScopesPlaced, NoScope
  <2>3. elses' = elses \cup {nscopes + 1}
    BY <1>3 DEF OpenElse, Enter, ScopesPlaced
  <2> QED
    BY <1>3, <2>2, <2>3, EnterKeepsPlaced DEF OpenElse, ElseStatement, Construct
<1>4. ASSUME NEW a \in Builders, NEW n \in Names, DeclareIn(a, n) PROVE ScopesPlaced'
  BY <1>4, OthersKeepPlaced DEF DeclareIn, Emit, builderVars, Reg!Declare, Reg!Put
<1>5. CASE Work
  BY <1>5, WorkEffect, OthersKeepPlaced DEF Quiet, regVars
<1>6. ASSUME NEW a \in Builders, Drop(a) PROVE ScopesPlaced'
  BY <1>6, DestroyKeepsPlaced DEF Drop, Destroy, regVars
<1>7. CASE UNCHANGED scopesVars
  BY <1>7, OthersKeepPlaced DEF scopesVars, regVars, vars, builderVars
<1> QED
  BY <1>1, <1>2, <1>3, <1>4, <1>5, <1>6, <1>7 DEF ScopesNext

LEMMA BuildersAreSound == ScopesSpec => [](Inv /\ FlowInv /\ ScopesPlaced)
<1>1. Inv => TypeInv
  BY DEF Inv
<1> QED
  BY <1>1, ScopesAreBuilderSteps, FlowInductive, ScopesPlacedInit, ScopesPlacedNext, PTL DEF ScopesSpec

\* Seen from ScopeRegister, every call opens a scope, declares a name that
\* passed the check, or does nothing.
LEMMA ScopesRegisterStep ==
  ASSUME TypeInv, ScopesPlaced, [ScopesNext]_scopesVars
  PROVE  [Tree!Next]_(Tree!vars)
<1>1. \A p \in 1..nscopes : Reg!ChildScope(p) => Tree!Next
  BY SameRegister DEF Tree!Next
<1>2. ASSUME NEW f \in Functions, NEW c \in Builders, OpenFunction(f, c) PROVE Tree!Next
  <2>1. Reg!Root \in 1..nscopes
    BY DEF ScopesPlaced, Reg!Root
  <2> QED
    BY <1>1, <1>2, <2>1 DEF OpenFunction, Enter
<1>3. ASSUME NEW a \in Builders, NEW c \in Builders, Enter(scope[a], c), a \in Live PROVE Tree!Next
  <2>1. scope[a] \in 1..nscopes
    BY <1>3 DEF ScopesPlaced, NoScope
  <2> QED
    BY <1>1, <1>3, <2>1 DEF Enter
<1>4. ASSUME NEW a \in Builders, NEW n \in Names, DeclareIn(a, n) PROVE Tree!Next
  <2>1. a \in Live
    BY <1>4 DEF DeclareIn, Emit
  <2>2. block[a] \in Blocks /\ scope[a] \in Tree!Scopes
    BY <2>1, LiveBlock, ScopesAssumption DEF ScopesPlaced, NoScope, Tree!Scopes
  <2>3. Tree!Declare(scope[a], n, block[a])
    BY <1>4, SameRegister DEF DeclareIn
  <2> QED
    BY <2>2, <2>3 DEF Tree!Next
<1>5. Quiet => UNCHANGED Tree!vars
  BY DEF Quiet, regVars, Tree!vars
<1>6. CASE \E a, c \in Builders, e \in Builders \cup {NoBuilder} : OpenIf(a, e, c)
  BY <1>3, <1>6 DEF OpenIf, IfStatement
<1>7. CASE \E a, c \in Builders : OpenElse(a, c)
  BY <1>3, <1>7 DEF OpenElse, ElseStatement, Live
<1>8. CASE Work \/ \E a \in Builders : Drop(a)
  BY <1>8, <1>5, WorkEffect DEF Drop, regVars, Tree!vars
<1>9. CASE UNCHANGED scopesVars
  BY <1>9 DEF scopesVars, regVars, Tree!vars
<1> QED
  BY <1>2, <1>4, <1>6, <1>7, <1>8, <1>9 DEF ScopesNext

\* The builders use their scopes as ScopeRegister says: the properties of scope
\* trees hold of the scopes of builders.
LEMMA ScopesUseRegister == ScopesSpec => Tree!Spec
<1>1. ScopesInit => Tree!Init
  BY SameRegister DEF ScopesInit
<1>2. Inv => TypeInv
  BY DEF Inv
<1> QED
  BY <1>1, <1>2, BuildersAreSound, ScopesRegisterStep, PTL DEF ScopesSpec, Tree!Spec

LEMMA ScopeTreeHolds == ScopesSpec => [](Tree!TypeOK /\ Tree!TreeInv)
BY TreeConstants, ScopesUseRegister, Tree!TreeInductive, PTL

\* The scopes of the builders keep their types, and exactly the live builders
\* have one.
THEOREM ScopesTypes == ScopesSpec => []ScopesTypeOK
<1>1. Tree!TypeOK /\ ScopesPlaced => ScopesTypeOK
  <2>1. Tree!TypeOK => Reg!TypeOK
    BY DEF Tree!TypeOK, Reg!TypeOK, Tree!Scopes, Reg!Scopes, Tree!NoScope, Reg!NoScope
  <2> QED
    BY <2>1 DEF ScopesPlaced, ScopesTypeOK
<1> QED
  BY <1>1, BuildersAreSound, ScopeTreeHolds, PTL

-----------------------------------------------------------------------------
(* Blocks that control must have passed.                                     *)

\* anc gives each block some blocks that every way to it has been through:
\* they are on every way to its predecessors, or to the blocks whose regions
\* go on there.
Ancestry(anc) ==
  /\ \A b \in 1..nblocks : b \in anc[b] /\ anc[b] \subseteq 1..nblocks
  /\ \A b \in 1..nblocks : \A t \in Targets(b) : anc[t] \ {t} \subseteq anc[b]
  /\ \A b \in 1..nblocks :
       region[b] # NoBlock => anc[region[b]] \ {region[b]} \subseteq anc[b]
  /\ \A b \in 1..nblocks :
       (\A c \in 1..nblocks : parent[c] = parent[b] => b <= c) => anc[b] = {b}

LEMMA EntryIsFirst ==
  ASSUME nblocks \in Nat, NEW b \in 1..nblocks
  PROVE  /\ EntryOf(b) \in 1..nblocks /\ parent[EntryOf(b)] = parent[b]
         /\ \A c \in 1..nblocks : parent[c] = parent[b] => EntryOf(b) <= c
<1> DEFINE T == {c \in 1..nblocks : parent[c] = parent[b]}
<1>1. \E m \in T : \A k \in T : m <= k
  <2>1. T \subseteq Nat /\ T # {}
    OBVIOUS
  <2> HIDE DEF T
  <2> QED
    BY <2>1, Tree!Smallest, TreeConstants
<1>2. \E m \in 1..nblocks :
        parent[m] = parent[b] /\ \A d \in 1..nblocks : parent[d] = parent[b] => m <= d
  BY <1>1
<1> QED
  BY <1>2, Zenon DEF EntryOf

\* The blocks without d in their ancestry cannot be left without d.
LEMMA AncestorsDominate ==
  ASSUME Inv, Flow, NEW anc, Ancestry(anc), NEW b \in 1..nblocks, NEW d \in anc[b]
  PROVE  Dominates(d, b)
<1> SUFFICES ASSUME d # b PROVE Dominates(d, b)
  BY DEF Dominates
<1> DEFINE S == {c \in 1..nblocks : d \notin anc[c]}
<1>1. nblocks \in Nat /\ 1..nblocks \subseteq Blocks
  BY Numbers
<1>2. d \in 1..nblocks /\ d \in anc[d]
  BY DEF Ancestry
<1>3. S \in SUBSET ((1..nblocks) \ {d, b})
  BY <1>2
<1>4. EntryOf(b) \in S \cup {d}
  <2>1. anc[EntryOf(b)] = {EntryOf(b)} /\ EntryOf(b) \in 1..nblocks
    BY <1>1, EntryIsFirst DEF Ancestry
  <2> QED
    BY <2>1
<1>5. ASSUME NEW c \in S, NEW t \in Targets(c) PROVE t \in S \cup {d}
  <2>1. t \in 1..nblocks
    BY <1>1 DEF Flow, Bounded
  <2>2. anc[t] \ {t} \subseteq anc[c] /\ d \notin anc[c]
    BY DEF Ancestry
  <2> QED
    BY <2>1, <2>2
<1> HIDE DEF S
<1> QED
  BY <1>3, <1>4, <1>5 DEF Dominates

\* Calls that create no block: the branches they add lead to the end of a
\* region.
LEMMA AncestryQuiet ==
  ASSUME Inv, Flow, NEW anc, Ancestry(anc), UNCHANGED <<nblocks, region, parent>>,
         \A b \in Blocks : Targets(b)' \subseteq Targets(b) \cup ({region[b]} \ {NoBlock})
  PROVE  Ancestry(anc)'
<1>1. 1..nblocks \subseteq Blocks
  BY Numbers
<1> QED
  BY <1>1 DEF Ancestry

LEMMA AncestryNewFunction ==
  ASSUME Inv, Flow, NEW anc, Ancestry(anc), NEW f \in Functions, NEW c \in Builders,
         NewFunction(f, c), NEW anc2,
         \A b \in Blocks : anc2[b] = IF b = nblocks + 1 THEN {b} ELSE anc[b]
  PROVE  Ancestry(anc2)'
<1>1. PICK entry \in Blocks : entry = nblocks + 1
  BY DEF NewFunction
<1>2. /\ nblocks' = entry /\ nblocks \in Nat /\ 1..nblocks \subseteq Blocks
      /\ 1..nblocks' = (1..nblocks) \cup {entry} /\ entry \notin 0..nblocks
      /\ terms' = terms /\ region' = region /\ parent' = [parent EXCEPT ![entry] = f]
      /\ NoBlock \in 0..nblocks /\ 1..nblocks \subseteq 0..nblocks
  BY <1>1, Numbers DEF NewFunction, ghostVars, NoBlock
<1>3. \A b : Targets(b)' = Targets(b)
  BY <1>2 DEF Targets
<1>4. \A b \in Blocks : Targets(b) \subseteq 1..nblocks /\ region[b] \in 0..nblocks
  BY DEF Flow, Bounded
<1>5. Targets(entry) = {} /\ region[entry] = NoBlock
  BY <1>1, <1>2 DEF Flow, Bounded, Targets, Inv, ClosureInv
<1>6. \A b \in 1..nblocks : parent'[b] = parent[b]
  BY <1>2 DEF Inv, TypeInv, TypeOK
<1>7. anc2[entry] = {entry} /\ \A b \in 1..nblocks : b # entry /\ anc2[b] = anc[b]
  BY <1>1, <1>2
<1>8. \A b \in 1..nblocks' : b \in anc2[b] /\ anc2[b] \subseteq 1..nblocks'
  BY <1>2, <1>7 DEF Ancestry
<1>9. \A b \in 1..nblocks' : \A t \in Targets(b)' : anc2[t] \ {t} \subseteq anc2[b]
  BY <1>2, <1>3, <1>4, <1>5, <1>7 DEF Ancestry
<1>10. \A b \in 1..nblocks' :
         region'[b] # NoBlock => anc2[region'[b]] \ {region'[b]} \subseteq anc2[b]
  <2>1. \A n \in 0..nblocks : n # NoBlock => n \in 1..nblocks
    BY <1>2 DEF NoBlock
  <2> QED
    BY <1>2, <1>4, <1>5, <1>7, <2>1 DEF Ancestry
<1>11. ASSUME NEW b \in 1..nblocks', \A d \in 1..nblocks' : parent'[d] = parent'[b] => b <= d
       PROVE  anc2[b] = {b}
  <2>1. CASE b = entry
    BY <2>1, <1>7
  <2>2. CASE b \in 1..nblocks
    BY <2>2, <1>2, <1>6, <1>7, <1>11 DEF Ancestry
  <2> QED
    BY <2>1, <2>2, <1>2
<1> QED
  BY <1>8, <1>9, <1>10, <1>11 DEF Ancestry

\* What ifStatement makes is behind the block it was called in.
IfParents(a) ==
  parent' = [parent EXCEPT ![nblocks + 1] = parent[block[a]], ![nblocks + 2] = parent[block[a]]]

IfAncestry(anc, anc2, a) ==
  \A b \in Blocks : anc2[b] = IF b \in {nblocks + 1, nblocks + 2}
                              THEN anc[block[a]] \cup {b} ELSE anc[b]

LEMMA AncestryIf ==
  ASSUME Inv, Flow, NEW anc, Ancestry(anc), NEW a \in Live, NEW c \in Builders,
         IfEffect(a, c), IfParents(a), NEW anc2, IfAncestry(anc, anc2, a)
  PROVE  Ancestry(anc2)'
<1>1. PICK from, exit, true \in Blocks : from = block[a] /\ exit = nblocks + 1 /\ true = nblocks + 2
  BY Numbers DEF IfEffect
<1>2. /\ nblocks' = true /\ nblocks \in Nat /\ 1..nblocks \subseteq Blocks /\ from \in 1..nblocks
      /\ 1..nblocks' = (1..nblocks) \cup {exit, true} /\ exit \notin 0..nblocks
      /\ true \notin 0..nblocks /\ exit # true /\ from < exit /\ from < true
      /\ NoBlock \in 0..nblocks /\ 1..nblocks \subseteq 0..nblocks
      /\ \A n \in 0..nblocks : n # NoBlock => n \in 1..nblocks
      /\ ~(exit <= from) /\ ~(true <= from) /\ NoBlock # exit
  <2>1. nblocks' = true /\ nblocks \in Nat /\ 1..nblocks \subseteq Blocks /\ from \in 1..nblocks
    BY <1>1, Numbers DEF IfEffect
  <2> QED
    BY <2>1, <1>1 DEF NoBlock
<1>3. \A b \in Blocks :
        /\ Targets(b)' = IF b = from THEN {true, exit} ELSE Targets(b)
        /\ region'[b] = IF b = true THEN exit ELSE IF b = exit THEN region[from] ELSE region[b]
  BY <1>1 DEF IfEffect
<1>4. \A b \in Blocks : Targets(b) \subseteq 1..nblocks /\ region[b] \in 0..nblocks
  BY DEF Flow, Bounded
<1>5. Targets(exit) = {} /\ Targets(true) = {}
  <2>1. exit > nblocks /\ true > nblocks
    BY <1>1, <1>2
  <2> QED
    BY <2>1 DEF Targets, Inv, ClosureInv
<1>6. /\ \A b \in 1..nblocks : parent'[b] = parent[b]
      /\ parent'[exit] = parent[from] /\ parent'[true] = parent[from]
  <2>1. parent \in [Blocks -> Functions \cup {NoFunction}]
    BY DEF Inv, TypeInv, TypeOK
  <2>2. parent' = [parent EXCEPT ![exit] = parent[from], ![true] = parent[from]]
    BY <1>1 DEF IfParents
  <2> QED
    BY <2>1, <2>2, <1>2, TwoUpdates
<1>7. /\ anc2[exit] = anc[from] \cup {exit} /\ anc2[true] = anc[from] \cup {true}
      /\ \A b \in 1..nblocks : b # exit /\ b # true /\ b \in Blocks /\ anc2[b] = anc[b]
      /\ anc[from] \subseteq 1..nblocks
  <2>1. nblocks + 1 = exit /\ nblocks + 2 = true /\ block[a] = from
    BY <1>1
  <2>2. \A b \in Blocks : anc2[b] = IF b \in {exit, true} THEN anc[from] \cup {b} ELSE anc[b]
    BY <2>1 DEF IfAncestry
  <2>3. anc2[exit] = anc[from] \cup {exit} /\ anc2[true] = anc[from] \cup {true}
    BY <2>2
  <2>4. \A b \in 1..nblocks : b \in 0..nblocks /\ b \in Blocks
    BY <1>2
  <2>5. \A b \in 1..nblocks : b # exit /\ b # true /\ b \in Blocks /\ anc2[b] = anc[b]
    BY <2>2, <2>4, <1>2
  <2>6. anc[from] \subseteq 1..nblocks
    BY <1>2 DEF Ancestry
  <2> QED
    BY <2>3, <2>5, <2>6
<1>8. ASSUME NEW b \in 1..nblocks' PROVE b \in anc2[b] /\ anc2[b] \subseteq 1..nblocks'
  <2>1. CASE b \in {exit, true}
    BY <2>1, <1>2, <1>7
  <2>2. CASE b \in 1..nblocks
    BY <2>2, <1>2, <1>7 DEF Ancestry
  <2> QED
    BY <2>1, <2>2, <1>2
<1>9. \A b \in 1..nblocks' : \A t \in Targets(b)' : anc2[t] \ {t} \subseteq anc2[b]
  <2> SUFFICES ASSUME NEW b \in 1..nblocks', NEW t \in Targets(b)'
               PROVE  anc2[t] \ {t} \subseteq anc2[b]
    OBVIOUS
  <2>1. CASE b = from
    BY <2>1, <1>2, <1>3, <1>7
  <2>2. CASE b # from
    <3>1. b \in 1..nblocks /\ t \in Targets(b) /\ t \in 1..nblocks
      BY <2>2, <1>2, <1>3, <1>4, <1>5
    <3> QED
      BY <3>1, <1>7 DEF Ancestry
  <2> QED
    BY <2>1, <2>2
<1>10. \A b \in 1..nblocks' :
         region'[b] # NoBlock => anc2[region'[b]] \ {region'[b]} \subseteq anc2[b]
  <2> SUFFICES ASSUME NEW b \in 1..nblocks', region'[b] # NoBlock
               PROVE  anc2[region'[b]] \ {region'[b]} \subseteq anc2[b]
    OBVIOUS
  <2>1. CASE b = true
    BY <2>1, <1>2, <1>3, <1>7
  <2>2. CASE b = exit
    <3>1. region'[b] = region[from] /\ region[from] \in 1..nblocks
      BY <2>2, <1>2, <1>3, <1>4
    <3> QED
      BY <2>2, <3>1, <1>2, <1>7 DEF Ancestry
  <2>3. CASE b \in 1..nblocks
    <3>1. region'[b] = region[b] /\ region[b] \in 1..nblocks
      BY <2>3, <1>2, <1>3, <1>4, <1>7
    <3> QED
      BY <2>3, <3>1, <1>7 DEF Ancestry
  <2> QED
    BY <2>1, <2>2, <2>3, <1>2
<1>11. ASSUME NEW b \in 1..nblocks', \A d \in 1..nblocks' : parent'[d] = parent'[b] => b <= d
       PROVE  anc2[b] = {b}
  <2>1. b \in 1..nblocks
    BY <1>2, <1>6, <1>11
  <2>2. \A d \in 1..nblocks : parent[d] = parent[b] => b <= d
    BY <2>1, <1>2, <1>6, <1>11
  <2> QED
    BY <2>1, <2>2, <1>7 DEF Ancestry
<1> QED
  BY <1>8, <1>9, <1>10, <1>11 DEF Ancestry

\* The else block is behind what the exit block was behind before.
ElseParents(final, else) == parent' = [parent EXCEPT ![else] = parent[final]]
ElseAncestry(anc, anc2, final, else) ==
  \A b \in Blocks : anc2[b] = IF b = else THEN (anc[final] \ {final}) \cup {else} ELSE anc[b]

LEMMA AncestryElse ==
  ASSUME Inv, Flow, NEW anc, Ancestry(anc), NEW a \in Live, NEW c \in Builders,
         NEW arm \in Blocks, NEW final \in Blocks, NEW else \in Blocks,
         ElseEffect(a, c, arm, final, else), ElseParents(final, else),
         NEW anc2, ElseAncestry(anc, anc2, final, else)
  PROVE  Ancestry(anc2)'
<1>1. /\ nblocks' = else /\ nblocks \in Nat /\ 1..nblocks \subseteq Blocks
      /\ arm \in 1..nblocks /\ final \in 1..nblocks /\ final < else /\ ~(else <= final)
      /\ 1..nblocks' = (1..nblocks) \cup {else} /\ else \notin 0..nblocks
      /\ NoBlock \in 0..nblocks /\ 1..nblocks \subseteq 0..nblocks /\ NoBlock # final
      /\ \A n \in 0..nblocks : n # NoBlock => n \in 1..nblocks
      /\ arm = block[a] /\ final = finalBlock[a]
  BY Numbers DEF ElseEffect, NoBlock
<1>2. \A b \in Blocks :
        /\ Targets(b)' = IF b = arm THEN {final}
                         ELSE {IF v = final THEN else ELSE v : v \in Targets(b)}
        /\ region'[b] = IF b = else THEN final ELSE region[b]
  BY DEF ElseEffect
<1>3. \A b \in Blocks : Targets(b) \subseteq 1..nblocks /\ region[b] \in 0..nblocks
  BY DEF Flow, Bounded
<1>4. Targets(else) = {} /\ region[arm] = final
  <2>1. else > nblocks
    BY <1>1 DEF ElseEffect
  <2> QED
    BY <1>1, <2>1 DEF Targets, Inv, ClosureInv, Flow, FinalsAgree
<1>5. \A b \in 1..nblocks : parent'[b] = parent[b]
  BY <1>1 DEF ElseParents, Inv, TypeInv, TypeOK
<1>6. parent'[else] = parent[final]
  BY DEF ElseParents, Inv, TypeInv, TypeOK
<1>7. /\ anc2[else] = (anc[final] \ {final}) \cup {else}
      /\ \A b \in 1..nblocks : b # else /\ b \in Blocks /\ anc2[b] = anc[b]
      /\ anc[final] \subseteq 1..nblocks
  BY <1>1 DEF ElseAncestry, Ancestry
<1>8. \A b \in 1..nblocks' : b \in anc2[b] /\ anc2[b] \subseteq 1..nblocks'
  BY <1>1, <1>7 DEF Ancestry
<1>9. \A b \in 1..nblocks' : \A t \in Targets(b)' : anc2[t] \ {t} \subseteq anc2[b]
  <2> SUFFICES ASSUME NEW b \in 1..nblocks', NEW t \in Targets(b)'
               PROVE  anc2[t] \ {t} \subseteq anc2[b]
    OBVIOUS
  <2>1. CASE b = arm
    <3>1. t = final
      BY <2>1, <1>2
    <3> QED
      BY <2>1, <3>1, <1>1, <1>4, <1>7 DEF Ancestry
  <2>2. CASE b # arm
    <3>1. b \in 1..nblocks
      BY <1>1, <1>2, <1>4, <2>2
    <3>2. PICK v \in Targets(b) : t = IF v = final THEN else ELSE v
      BY <3>1, <1>1, <1>2, <2>2
    <3>3. v \in 1..nblocks /\ anc[v] \ {v} \subseteq anc[b]
      BY <3>1, <1>1, <1>3 DEF Ancestry
    <3> QED
      BY <3>1, <3>2, <3>3, <1>7
  <2> QED
    BY <2>1, <2>2
<1>10. \A b \in 1..nblocks' :
         region'[b] # NoBlock => anc2[region'[b]] \ {region'[b]} \subseteq anc2[b]
  <2> SUFFICES ASSUME NEW b \in 1..nblocks', region'[b] # NoBlock
               PROVE  anc2[region'[b]] \ {region'[b]} \subseteq anc2[b]
    OBVIOUS
  <2>1. CASE b = else
    BY <2>1, <1>1, <1>2, <1>7
  <2>2. CASE b \in 1..nblocks
    <3>1. region'[b] = region[b] /\ region[b] \in 1..nblocks
      BY <2>2, <1>1, <1>2, <1>3, <1>7
    <3> QED
      BY <2>2, <3>1, <1>7 DEF Ancestry
  <2> QED
    BY <2>1, <2>2, <1>1
<1>11. ASSUME NEW b \in 1..nblocks', \A d \in 1..nblocks' : parent'[d] = parent'[b] => b <= d
       PROVE  anc2[b] = {b}
  <2>1. b \in 1..nblocks
    BY <1>1, <1>5, <1>6, <1>11
  <2> QED
    BY <2>1, <1>1, <1>5, <1>7, <1>11 DEF Ancestry
<1> QED
  BY <1>8, <1>9, <1>10, <1>11 DEF Ancestry

-----------------------------------------------------------------------------
(* Which names the scopes of builders have.                                  *)

\* Nothing is declared in the scope of the script, and the scopes of else arms
\* are inside others.
ScopesNested ==
  /\ \A n \in Names : ~Tree!has(Reg!Root, n)
  /\ \A t \in elses : scopeParent[t] # NoScope

Trees == ScopesPlaced /\ Tree!TypeOK /\ Tree!TreeInv

\* The calls that open a scope inside s, for a builder placed at c.
Entered(s, c, new) ==
  /\ Tree!Kept
  /\ \A t \in 1..nscopes, n \in Names : Tree!has(t, n)' <=> Tree!has(t, n)
  /\ \A x \in Builders : scope'[x] = IF x = c THEN new ELSE scope[x]
  /\ scopeParent'[new] = s /\ s # NoScope /\ new \notin 1..nscopes
  /\ chain'[new] = {new} \cup chain[s]
  /\ \A n \in Names :
       /\ named'[new][n] = NoBlock
       /\ Tree!has(new, n)' <=> Tree!has(s, n)
       /\ Tree!has(s, n) => Tree!get(new, n)' = Tree!get(s, n)

LEMMA EnterEffect ==
  ASSUME Trees, Trees', NEW s \in 1..nscopes, NEW c \in Builders, Enter(s, c),
         NEW new, new = nscopes + 1
  PROVE  Entered(s, c, new)
<1>1. Tree!ChildScope(s) /\ scope' = [scope EXCEPT ![c] = new] /\ nscopes \in Nat
  BY SameRegister DEF Enter, Trees, ScopesPlaced
<1>2. /\ Tree!Kept
      /\ \A t \in 1..nscopes, n \in Names : Tree!has(t, n)' <=> Tree!has(t, n)
  BY <1>1, TreeConstants, Tree!ChildScopeKeepsNames DEF Trees
<1>3. \A n \in Names :
        /\ named'[new][n] = NoBlock
        /\ Tree!has(new, n)' <=> Tree!has(s, n)
        /\ Tree!has(s, n) => Tree!get(new, n)' = Tree!get(s, n)
  BY <1>1, TreeConstants, Tree!ChildScopeSees DEF Trees
<1>4. /\ scopeParent'[new] = s /\ chain'[new] = {new} \cup chain[s]
  <2>1. new \in Tree!Scopes
    BY <1>1 DEF Tree!ChildScope
  <2> QED
    BY <1>1, <2>1 DEF Trees, Tree!TypeOK, Tree!ChildScope
<1>5. \A a \in Builders : scope'[a] = IF a = c THEN new ELSE scope[a]
  BY <1>1 DEF Trees, ScopesPlaced
<1> QED
  BY <1>1, <1>2, <1>3, <1>4, <1>5 DEF NoScope, Entered

LEMMA DeclareEffect ==
  ASSUME Trees, Trees', TypeInv, NEW a \in Builders, NEW n \in Names, DeclareIn(a, n),
         NEW s, s = scope[a], NEW v, v = block[a]
  PROVE  /\ Tree!Kept
         /\ a \in Live /\ s \in 2..nscopes /\ nscopes' = nscopes /\ scope' = scope /\ elses' = elses
         /\ \A t \in 1..nscopes, m \in Names :
              Tree!has(t, m)' <=> Tree!has(t, m) \/ (t = s /\ m = n)
         /\ named'[s][n] = v /\ Tree!get(s, n)' = v /\ v # NoBlock
<1>1. a \in Live /\ Tree!Declare(s, n, v) /\ scope' = scope /\ elses' = elses
  BY SameRegister DEF DeclareIn, Emit
<1>2. v \in Blocks /\ s \in 2..nscopes /\ s \in Tree!Scopes /\ nscopes \in Nat
  <2>1. s \in 0..nscopes /\ s # 0 /\ s # 1 /\ nscopes \in 1..MaxScopes
    BY <1>1 DEF Trees, ScopesPlaced, NoScope, Reg!Root, Live
  <2> QED
    BY <1>1, <2>1, LiveBlock, ScopesAssumption DEF Tree!Scopes
<1>3. Tree!Kept
  BY <1>1, <1>2, TreeConstants, Tree!DeclareKeepsNames DEF Trees
<1>4. /\ \A t \in Tree!Scopes, m \in Names :
           Tree!has(t, m)' <=> Tree!has(t, m) \/ (t = s /\ m = n)
      /\ named'[s][n] = v /\ Tree!get(s, n)' = v /\ v # NoBlock
      /\ nscopes' = nscopes
  BY <1>1, <1>2, TreeConstants, Tree!DeclareSees DEF Trees
<1>5. 1..nscopes \subseteq Tree!Scopes
  BY ScopesAssumption DEF Trees, ScopesPlaced, Tree!Scopes
<1> QED
  BY <1>1, <1>2, <1>3, <1>4, <1>5

LEMMA QuietEffect ==
  ASSUME Trees, Trees', UNCHANGED regVars
  PROVE  Tree!Kept /\ \A t, n : Tree!has(t, n)' <=> Tree!has(t, n)
BY TreeConstants, Tree!UnchangedKeepsNames DEF Trees, regVars, Tree!vars

LEMMA ScopesNestedNext ==
  ASSUME Trees, Trees', TypeInv, ScopesNested, [ScopesNext]_scopesVars
  PROVE  ScopesNested'
<1>1. Reg!Root = 1 /\ 1 \in 1..nscopes /\ nscopes \in Nat /\ elses \subseteq 1..nscopes
  BY DEF Trees, ScopesPlaced, Reg!Root
<1>2. ASSUME Tree!Kept, elses' = elses,
             \A n \in Names : Tree!has(1, n)' <=> Tree!has(1, n)
      PROVE  ScopesNested'
  BY <1>1, <1>2 DEF ScopesNested, Tree!Kept, Reg!Root
<1>3. ASSUME NEW s \in 1..nscopes, NEW c \in Builders, Enter(s, c), elses' \subseteq elses \cup {nscopes + 1}
      PROVE  ScopesNested'
  <2>1. PICK new : new = nscopes + 1
    OBVIOUS
  <2>2. /\ Tree!Kept /\ scopeParent'[new] = s /\ s # NoScope
        /\ \A n \in Names : Tree!has(1, n)' <=> Tree!has(1, n)
    BY <1>1, <1>3, <2>1, EnterEffect DEF Entered
  <2>3. \A t \in elses' : scopeParent'[t] # NoScope
    BY <1>1, <1>3, <2>1, <2>2 DEF ScopesNested, Tree!Kept
  <2> QED
    BY <2>2, <2>3, <1>1 DEF ScopesNested, Reg!Root
<1>4. ASSUME NEW f \in Functions, NEW c \in Builders, OpenFunction(f, c) PROVE ScopesNested'
  BY <1>1, <1>3, <1>4 DEF OpenFunction
<1>5. \A a \in Live : a \in Builders /\ scope[a] \in 1..nscopes
  BY DEF Trees, ScopesPlaced, NoScope, Live
<1>6. ASSUME NEW a \in Builders, NEW c \in Builders, NEW e \in Builders \cup {NoBuilder}, OpenIf(a, e, c)
      PROVE  ScopesNested'
  BY <1>3, <1>5, <1>6 DEF OpenIf, IfStatement
<1>7. ASSUME NEW a \in Builders, NEW c \in Builders, OpenElse(a, c) PROVE ScopesNested'
  <2>1. a \in Live /\ Enter(scope[a], c) /\ elses' = elses \cup {scope'[c]}
    BY <1>7 DEF OpenElse, ElseStatement, Live
  <2>2. scope'[c] = nscopes + 1
    BY <2>1 DEF Enter, Trees, ScopesPlaced
  <2> QED
    BY <1>3, <1>5, <2>1, <2>2
<1>8. ASSUME NEW a \in Builders, NEW n \in Names, DeclareIn(a, n) PROVE ScopesNested'
  <2>1. PICK s, v : s = scope[a] /\ v = block[a]
    OBVIOUS
  <2>2. /\ Tree!Kept /\ elses' = elses /\ s \in 2..nscopes
        /\ \A t \in 1..nscopes, m \in Names :
             Tree!has(t, m)' <=> Tree!has(t, m) \/ (t = s /\ m = n)
    BY <1>8, <2>1, DeclareEffect
  <2> QED
    BY <2>2, <1>1, <1>2
<1>9. CASE Work \/ (\E a \in Builders : Drop(a)) \/ UNCHANGED scopesVars
  <2>1. UNCHANGED regVars /\ elses' = elses
    BY <1>9, WorkEffect DEF Quiet, Drop, scopesVars
  <2> QED
    BY <2>1, <1>2, QuietEffect
<1> QED
  BY <1>4, <1>6, <1>7, <1>8, <1>9 DEF ScopesNext

LEMMA ScopesStayNested == ScopesSpec => [](Inv /\ FlowInv /\ Trees /\ ScopesNested)
<1>1. ScopesInit => ScopesNested
  BY ScopesAssumption DEF ScopesInit, Reg!Init, ScopesNested, Tree!has, Reg!Root, Reg!Scopes
<1>2. Inv => TypeInv
  BY DEF Inv
<1>3. ScopesPlaced /\ Tree!TypeOK /\ Tree!TreeInv => Trees
  BY DEF Trees
<1> QED
  BY <1>1, <1>2, <1>3, BuildersAreSound, ScopeTreeHolds, ScopesNestedNext, PTL DEF ScopesSpec

-----------------------------------------------------------------------------
(* What the names stand for.                                                 *)

\* The exception: the name of an if arm that an else arm's scope has.
Excused(a, n) == \E s \in OtherArms(a) : Tree!get(scope[a], n) = named[s][n]

\* The value is in a block that control has passed when it reaches b.
Passed(anc, a, n, b) == Tree!get(scope[a], n) \in anc[b] \/ Excused(a, n)

\* The names of a builder's scope stand for values that are there in its block.
\* Those that the scope of an if arm has from outside are there before the exit
\* block as well: an else arm may still be made, which starts before it.
Reached(anc, a) ==
  \A n \in Names : Tree!has(scope[a], n) =>
    /\ Passed(anc, a, n, block[a])
    /\ kind[a] = "if" /\ named[scope[a]][n] = NoBlock =>
         /\ Tree!get(scope[a], n) # finalBlock[a] \/ Excused(a, n)
         /\ Passed(anc, a, n, finalBlock[a])

\* An exception stays one: what a scope holds is never replaced.
LEMMA ExcuseKept ==
  ASSUME Trees, ScopesNested, Tree!Kept, elses \subseteq elses',
         NEW a \in Live, NEW c \in Builders, NEW s, s = scope[a], NEW r, r = scope'[c],
         chain[s] \subseteq chain'[r],
         NEW n \in Names, Tree!has(s, n), Tree!get(r, n)' = Tree!get(s, n), Excused(a, n)
  PROVE  Excused(c, n)'
<1>1. PICK t \in elses \cap chain[s] : Tree!get(s, n) = named[scopeParent[t]][n]
  BY DEF Excused, OtherArms
<1>2. PICK p : p = scopeParent[t]
  OBVIOUS
<1>3. t \in 1..nscopes /\ s \in 1..nscopes /\ p \in 1..nscopes
  BY <1>1, <1>2 DEF Trees, ScopesPlaced, ScopesNested, Tree!TreeInv, Tree!Chained, NoScope,
                    Tree!NoScope, Live
<1>4. scopeParent'[t] = p
  BY <1>2, <1>3 DEF Tree!Kept
<1>5. named[p][n] # NoBlock
  BY <1>1, <1>2, <1>3, TreeConstants, Tree!HasFinds DEF Trees
<1>6. named'[p][n] = named[p][n]
  BY <1>3, <1>5 DEF Tree!Kept
<1>7. t \in elses' \cap chain'[r] /\ Tree!get(r, n)' = named'[scopeParent'[t]][n]
  BY <1>1, <1>2, <1>4, <1>6
<1>8. Tree!get(r, n)' = Tree!get(scope[c], n)'
  OBVIOUS
<1> QED
  BY <1>7, <1>8 DEF Excused, OtherArms

\* A builder that keeps its scope, and moves on to a block with more behind it
\* at most.
LEMMA ReachedKept ==
  ASSUME Trees, ScopesNested, Tree!Kept, elses \subseteq elses', NEW a \in Live, a \in Builders,
         NEW s, s = scope[a], scope'[a] = s, kind'[a] = kind[a], finalBlock'[a] = finalBlock[a],
         NEW anc, NEW anc2, anc[block[a]] \subseteq anc2[block'[a]],
         kind[a] = "if" => anc[finalBlock[a]] \subseteq anc2[finalBlock[a]],
         \A n \in Names : Tree!has(s, n)' =>
           \/ Tree!has(s, n)
           \/ named'[s][n] # NoBlock /\ Tree!get(s, n)' \in anc2[block'[a]],
         Reached(anc, a)
  PROVE  Reached(anc2, a)'
<1> SUFFICES ASSUME NEW n \in Names, Tree!has(s, n)'
             PROVE  /\ Passed(anc2, a, n, block[a])'
                    /\ kind'[a] = "if" /\ named'[s][n] = NoBlock =>
                         /\ Tree!get(s, n)' # finalBlock'[a] \/ Excused(a, n)'
                         /\ Passed(anc2, a, n, finalBlock[a])'
  BY DEF Reached
<1>1. s \in 1..nscopes
  BY DEF Trees, ScopesPlaced, NoScope
<1>2. CASE ~Tree!has(s, n)
  BY <1>2 DEF Passed
<1>3. CASE Tree!has(s, n)
  <2>1. Tree!get(s, n)' = Tree!get(s, n) /\ (named'[s][n] = NoBlock => named[s][n] = NoBlock)
        /\ chain'[s] = chain[s]
    BY <1>1, <1>3 DEF Tree!Kept
  <2>2. Excused(a, n) => Excused(a, n)'
    BY <1>3, <2>1, ExcuseKept
  <2> QED
    BY <1>3, <2>1, <2>2 DEF Reached, Passed
<1> QED
  BY <1>2, <1>3

\* The new builder of an arm: its scope has the names of the one it is made
\* from.
LEMMA ReachedArm ==
  ASSUME Trees, ScopesNested, Tree!Kept, elses \subseteq elses', NEW a \in Live, NEW c \in Builders,
         NEW s, s = scope[a], NEW r, r = scope'[c], chain[s] \subseteq chain'[r],
         \A n \in Names : /\ Tree!has(r, n)' <=> Tree!has(s, n)
                          /\ Tree!has(s, n) => Tree!get(r, n)' = Tree!get(s, n),
         NEW anc2,
         \A n \in Names : Tree!has(s, n) =>
           \/ Excused(a, n)
           \/ Excused(c, n)'
           \/ /\ Tree!get(s, n) \in anc2[block'[c]]
              /\ kind'[c] = "if" => /\ Tree!get(s, n) # finalBlock'[c]
                                    /\ Tree!get(s, n) \in anc2[finalBlock'[c]]
  PROVE  Reached(anc2, c)'
<1> SUFFICES ASSUME NEW n \in Names, Tree!has(r, n)'
             PROVE  /\ Passed(anc2, c, n, block[c])'
                    /\ kind'[c] = "if" /\ named'[r][n] = NoBlock =>
                         /\ Tree!get(r, n)' # finalBlock'[c] \/ Excused(c, n)'
                         /\ Passed(anc2, c, n, finalBlock[c])'
  BY DEF Reached
<1>1. Tree!has(s, n) /\ Tree!get(r, n)' = Tree!get(s, n)
  OBVIOUS
<1>2. Excused(a, n) => Excused(c, n)'
  BY <1>1, ExcuseKept
<1> QED
  BY <1>1, <1>2 DEF Passed

NamesInv ==
  \E anc \in [Blocks -> SUBSET Blocks] : Ancestry(anc) /\ \A a \in Live : Reached(anc, a)

\* What is known before and after a call that is no misuse.
Before == Inv /\ Sound /\ Flow /\ Trees /\ ScopesNested
After  == Inv /\ Sound /\ Trees

\* Where builders stand.
LEMMA BuilderBlocks ==
  ASSUME Inv
  PROVE  /\ \A a \in Live : /\ a \in Builders /\ block[a] \in 1..nblocks /\ block[a] \in Blocks
                            /\ kind[a] = "if" => /\ finalBlock[a] \in 1..nblocks
                                                 /\ finalBlock[a] \in Blocks
         /\ nblocks \in Nat /\ 1..nblocks \subseteq Blocks
<1>1. /\ nblocks \in Nat /\ 1..nblocks \subseteq Blocks /\ \A a \in Live : block[a] \in 1..nblocks
  BY Numbers
<1>2. \A a \in Live : a \in Builders /\ (kind[a] = "if" => finalBlock[a] \in 1..nblocks)
  <2>1. \A n \in 0..nblocks : n # NoBlock => n \in 1..nblocks
    BY <1>1 DEF NoBlock
  <2> QED
    BY <2>1 DEF Inv, TypeInv, Placed, Live
<1> QED
  BY <1>1, <1>2

LEMMA NamesOpenFunction ==
  ASSUME Before, After', NEW anc \in [Blocks -> SUBSET Blocks], Ancestry(anc),
         \A x \in Live : Reached(anc, x),
         NEW f \in Functions, NEW c \in Builders, OpenFunction(f, c)
  PROVE  NamesInv'
<1>1. NewFunction(f, c) /\ Enter(Reg!Root, c) /\ elses' = elses
  BY DEF OpenFunction
<1>2. PICK entry : entry = nblocks + 1
  OBVIOUS
<1>3. PICK new : new = nscopes + 1
  OBVIOUS
<1>4. PICK root : root = Reg!Root /\ root \in 1..nscopes
  BY DEF Before, Trees, ScopesPlaced, Reg!Root
<1>5. /\ kind[c] = "free" /\ entry \in Blocks /\ entry \notin 1..nblocks
      /\ \A x \in Builders : /\ x \in Live' <=> x \in Live \/ x = c
                             /\ x # c => /\ kind'[x] = kind[x] /\ block'[x] = block[x]
                                         /\ finalBlock'[x] = finalBlock[x]
  BY <1>1, <1>2, Numbers DEF NewFunction, Construct, Before, Inv, TypeInv, TypeOK, Live
<1>6. /\ Tree!Kept
      /\ \A t \in 1..nscopes, n \in Names : Tree!has(t, n)' <=> Tree!has(t, n)
      /\ \A x \in Builders : scope'[x] = IF x = c THEN new ELSE scope[x]
      /\ \A n \in Names : Tree!has(new, n)' <=> Tree!has(root, n)
  BY <1>1, <1>3, <1>4, EnterEffect DEF Before, After, Entered
<1> DEFINE anc2 == [b \in Blocks |-> IF b = entry THEN {b} ELSE anc[b]]
<1>7. anc2 \in [Blocks -> SUBSET Blocks] /\ \A b \in Blocks : anc2[b] = IF b = entry THEN {b} ELSE anc[b]
  OBVIOUS
<1> HIDE DEF anc2
<1>8. Ancestry(anc2)'
  BY <1>1, <1>2, <1>7, AncestryNewFunction DEF Before
<1>9. ASSUME NEW a \in Live' PROVE Reached(anc2, a)'
  <2>1. CASE a = c
    <3>1. scope'[c] = new /\ \A n \in Names : ~Tree!has(new, n)'
      BY <1>4, <1>6 DEF Before, ScopesNested
    <3> QED
      BY <2>1, <3>1 DEF Reached
  <2>2. CASE a # c
    <3>1. a \in Live /\ a \in Builders
      BY <1>5, <2>2 DEF Live
    <3>2. PICK s : s = scope[a] /\ s \in 1..nscopes
      BY <3>1 DEF Before, Trees, ScopesPlaced, NoScope
    <3>3. anc2[block[a]] = anc[block[a]] /\ (kind[a] = "if" => anc2[finalBlock[a]] = anc[finalBlock[a]])
      BY <1>5, <1>7, <3>1, BuilderBlocks DEF Before
    <3> QED
      BY <1>1, <1>5, <1>6, <2>2, <3>1, <3>2, <3>3, ReachedKept DEF Before
  <2> QED
    BY <2>1, <2>2
<1> QED
  BY <1>7, <1>8, <1>9 DEF NamesInv

LEMMA NamesOpenIf ==
  ASSUME Before, After', NEW anc \in [Blocks -> SUBSET Blocks], Ancestry(anc),
         \A x \in Live : Reached(anc, x),
         NEW a \in Builders, NEW c \in Builders, NEW e \in Builders \cup {NoBuilder}, OpenIf(a, e, c)
  PROVE  NamesInv'
<1>1. IfStatement(a, e, c) /\ Enter(scope[a], c) /\ elses' = elses
  BY DEF OpenIf
<1>2. a \in Live /\ IfEffect(a, c)
  BY <1>1, IfStatementEffect DEF Before, After
<1>3. PICK from, exit, true : from = block[a] /\ exit = nblocks + 1 /\ true = nblocks + 2
  OBVIOUS
<1>4. PICK new : new = nscopes + 1
  OBVIOUS
<1>5. PICK s : s = scope[a] /\ s \in 1..nscopes
  BY <1>2 DEF Before, Trees, ScopesPlaced, NoScope
<1>6. /\ kind[c] = "free" /\ a # c /\ exit \in Blocks /\ true \in Blocks /\ from \in 1..nblocks
      /\ exit \notin 1..nblocks /\ true \notin 1..nblocks /\ exit # true
      /\ \A x \in Builders : /\ x \in Live' <=> x \in Live \/ x = c
                             /\ kind'[x] = IF x = c THEN "if" ELSE kind[x]
                             /\ block'[x] = IF x = c THEN true ELSE IF x = a THEN exit ELSE block[x]
                             /\ finalBlock'[x] = IF x = c THEN exit ELSE finalBlock[x]
  BY <1>2, <1>3, Numbers DEF IfEffect, Live, Before
<1>7. /\ Tree!Kept
      /\ \A t \in 1..nscopes, n \in Names : Tree!has(t, n)' <=> Tree!has(t, n)
      /\ \A x \in Builders : scope'[x] = IF x = c THEN new ELSE scope[x]
      /\ chain'[new] = {new} \cup chain[s]
      /\ \A n \in Names : /\ Tree!has(new, n)' <=> Tree!has(s, n)
                          /\ Tree!has(s, n) => Tree!get(new, n)' = Tree!get(s, n)
  <2>1. Enter(s, c)
    BY <1>1, <1>5
  <2>2. Entered(s, c, new)
    BY <2>1, <1>4, <1>5, EnterEffect DEF Before, After
  <2> QED
    BY <2>2 DEF Entered
<1>8. PICK anc2 \in [Blocks -> SUBSET Blocks] :
        \A b \in Blocks : anc2[b] = IF b \in {exit, true} THEN anc[from] \cup {b} ELSE anc[b]
  <2> DEFINE anc2 == [b \in Blocks |-> IF b \in {exit, true} THEN anc[from] \cup {b} ELSE anc[b]]
  <2>1. anc[from] \subseteq Blocks
    BY <1>6, Numbers DEF Before
  <2>2. anc2 \in [Blocks -> SUBSET Blocks]
    BY <2>1
  <2> QED
    BY <2>2
<1>9. Ancestry(anc2)'
  <2>1. IfParents(a)
    BY <1>1 DEF IfStatement, IfParents
  <2>2. IfAncestry(anc, anc2, a)
    BY <1>3, <1>8 DEF IfAncestry
  <2>3. Inv /\ Flow
    BY DEF Before
  <2> QED
    BY <1>2, <2>1, <2>2, <2>3, AncestryIf
<1>10. anc[from] \subseteq anc2[exit] /\ anc[from] \subseteq anc2[true] /\ anc[from] \subseteq 1..nblocks
  BY <1>6, <1>8 DEF Ancestry
<1>11. ASSUME NEW x \in Live' PROVE Reached(anc2, x)'
  <2>1. CASE x = c
    <3>1. scope'[c] = new /\ kind'[c] = "if" /\ block'[c] = true /\ finalBlock'[c] = exit
      BY <1>6, <1>7
    <3>2. \A n \in Names : Tree!has(s, n) => Tree!get(s, n) \in anc[from] \/ Excused(a, n)
      BY <1>2, <1>3, <1>5 DEF Reached, Passed
    <3>3. \A n \in Names : Tree!has(s, n) =>
            \/ Excused(a, n)
            \/ Excused(c, n)'
            \/ /\ Tree!get(s, n) \in anc2[block'[c]]
               /\ kind'[c] = "if" => /\ Tree!get(s, n) # finalBlock'[c]
                                     /\ Tree!get(s, n) \in anc2[finalBlock'[c]]
      BY <3>1, <3>2, <1>6, <1>10
    <3>4. chain[s] \subseteq chain'[new] /\ elses \subseteq elses'
      BY <1>1, <1>7
    <3>5. Reached(anc2, c)'
      BY <3>1, <3>3, <3>4, <1>2, <1>5, <1>7, ReachedArm DEF Before
    <3> QED
      BY <2>1, <3>5
  <2>2. CASE x # c
    <3>1. x \in Live /\ x \in Builders
      BY <1>6, <2>2 DEF Live
    <3>2. PICK r : r = scope[x] /\ r \in 1..nscopes
      BY <3>1 DEF Before, Trees, ScopesPlaced, NoScope
    <3>3. anc[block[x]] \subseteq anc2[block'[x]]
          /\ (kind[x] = "if" => anc[finalBlock[x]] \subseteq anc2[finalBlock[x]])
      <4>1. /\ block[x] \in 1..nblocks /\ block[x] \in Blocks
            /\ kind[x] = "if" => finalBlock[x] \in 1..nblocks /\ finalBlock[x] \in Blocks
        BY <3>1, BuilderBlocks DEF Before
      <4>2. kind[x] = "if" => anc2[finalBlock[x]] = anc[finalBlock[x]]
        BY <4>1, <1>6, <1>8
      <4>3. anc2[block[x]] = anc[block[x]]
        BY <4>1, <1>6, <1>8
      <4> QED
        BY <4>2, <4>3, <1>3, <1>6, <1>10, <2>2, <3>1
    <3> QED
      BY <1>1, <1>6, <1>7, <2>2, <3>1, <3>2, <3>3, ReachedKept DEF Before
  <2> QED
    BY <2>1, <2>2
<1> QED
  BY <1>8, <1>9, <1>11 DEF NamesInv
LEMMA NamesOpenElse ==
  ASSUME Before, After', NEW anc \in [Blocks -> SUBSET Blocks], Ancestry(anc),
         \A x \in Live : Reached(anc, x),
         NEW a \in Builders, NEW c \in Builders, OpenElse(a, c)
  PROVE  NamesInv'
<1>1. ElseStatement(a, c) /\ Enter(scope[a], c) /\ elses' = elses \cup {scope'[c]}
  BY DEF OpenElse
<1>2. a \in Live /\ \E arm, final, else \in Blocks : ElseEffect(a, c, arm, final, else)
  BY <1>1, ElseStatementEffect DEF Before, After
<1>3. PICK arm, final, else \in Blocks : ElseEffect(a, c, arm, final, else)
  BY <1>2
<1>4. PICK new : new = nscopes + 1
  OBVIOUS
<1>5. PICK s : s = scope[a] /\ s \in 1..nscopes
  BY <1>2 DEF Before, Trees, ScopesPlaced, NoScope
<1>6. /\ a # c /\ kind[a] = "if" /\ final = finalBlock[a]
      /\ final \in 1..nblocks /\ else \notin 1..nblocks
      /\ \A x \in Builders : /\ x \in Live' <=> x \in Live \/ x = c
                             /\ kind'[x] = IF x = c THEN "else" ELSE kind[x]
                             /\ block'[x] = IF x = c THEN else ELSE block[x]
                             /\ finalBlock'[x] = IF x = c THEN final ELSE finalBlock[x]
  BY <1>3, Numbers DEF ElseEffect, Live, Before
<1>7. /\ Tree!Kept
      /\ \A t \in 1..nscopes, n \in Names : Tree!has(t, n)' <=> Tree!has(t, n)
      /\ \A x \in Builders : scope'[x] = IF x = c THEN new ELSE scope[x]
      /\ chain'[new] = {new} \cup chain[s] /\ scopeParent'[new] = s
      /\ \A n \in Names : /\ Tree!has(new, n)' <=> Tree!has(s, n)
                          /\ Tree!has(s, n) => Tree!get(new, n)' = Tree!get(s, n)
  <2>1. Enter(s, c)
    BY <1>1, <1>5
  <2>2. Entered(s, c, new)
    BY <2>1, <1>4, <1>5, EnterEffect DEF Before, After
  <2> QED
    BY <2>2 DEF Entered
<1>8. PICK anc2 \in [Blocks -> SUBSET Blocks] :
        \A b \in Blocks : anc2[b] = IF b = else THEN (anc[final] \ {final}) \cup {else} ELSE anc[b]
  <2> DEFINE anc2 == [b \in Blocks |-> IF b = else THEN (anc[final] \ {final}) \cup {else} ELSE anc[b]]
  <2>1. anc2 \in [Blocks -> SUBSET Blocks]
    OBVIOUS
  <2> QED
    BY <2>1
<1>9. Ancestry(anc2)'
  <2>1. ElseParents(final, else)
    BY <1>1, <1>3 DEF ElseStatement, ElseEffect, ElseParents
  <2>2. ElseAncestry(anc, anc2, final, else)
    BY <1>8 DEF ElseAncestry
  <2>3. Inv /\ Flow
    BY DEF Before
  <2> QED
    BY <1>2, <1>3, <2>1, <2>2, <2>3, AncestryElse
<1>10. anc2[else] = (anc[final] \ {final}) \cup {else}
  BY <1>8
<1>11. ASSUME NEW x \in Live' PROVE Reached(anc2, x)'
  <2>1. CASE x = c
    <3>1. scope'[c] = new /\ kind'[c] = "else" /\ block'[c] = else
      BY <1>6, <1>7
    <3>2. ASSUME NEW n \in Names, Tree!has(s, n)
          PROVE  Excused(a, n) \/ Excused(c, n)' \/ Tree!get(s, n) \in anc2[block'[c]]
      <4>1. CASE named[s][n] = NoBlock
        <5>1. \/ Excused(a, n)
              \/ Tree!get(s, n) # final /\ Tree!get(s, n) \in anc[final]
          BY <1>2, <1>5, <1>6, <3>2, <4>1 DEF Reached, Passed
        <5> QED
          BY <5>1, <1>10, <3>1
      <4>2. CASE named[s][n] # NoBlock
        <5>1. Tree!get(s, n) = named[s][n]
          BY <4>2, <1>5, TreeConstants, Tree!HasFinds, Tree!GetUnfolds
             DEF Before, Trees, Tree!TreeInv, Tree!GetIsRecursive, Tree!TypeOK, Tree!Scopes
        <5>2. Tree!get(new, n)' = named'[s][n]
          BY <5>1, <3>2, <4>2, <1>5, <1>7 DEF Tree!Kept
        <5>3. new \in elses' \cap chain'[new] /\ scopeParent'[new] = s
          BY <1>1, <1>7, <3>1
        <5> QED
          BY <5>2, <5>3, <3>1 DEF Excused, OtherArms
      <4> QED
        BY <4>1, <4>2
    <3>3. chain[s] \subseteq chain'[new] /\ elses \subseteq elses'
      BY <1>1, <1>7
    <3>4. Reached(anc2, c)'
      BY <3>1, <3>2, <3>3, <1>2, <1>5, <1>7, ReachedArm DEF Before
    <3> QED
      BY <2>1, <3>4
  <2>2. CASE x # c
    <3>1. x \in Live /\ x \in Builders
      BY <1>6, <2>2 DEF Live
    <3>2. PICK r : r = scope[x] /\ r \in 1..nscopes
      BY <3>1 DEF Before, Trees, ScopesPlaced, NoScope
    <3>3. anc2[block[x]] = anc[block[x]] /\ (kind[x] = "if" => anc2[finalBlock[x]] = anc[finalBlock[x]])
      BY <1>6, <1>8, <3>1, BuilderBlocks DEF Before
    <3> QED
      BY <1>1, <1>6, <1>7, <2>2, <3>1, <3>2, <3>3, ReachedKept DEF Before
  <2> QED
    BY <2>1, <2>2
<1> QED
  BY <1>8, <1>9, <1>11 DEF NamesInv

\* The calls that place no builder: none moves, and the branches that are made
\* lead to the ends of regions.
BuildersStay ==
  /\ UNCHANGED <<nblocks, region, parent>>
  /\ \A b \in Blocks : Targets(b)' \subseteq Targets(b) \cup ({region[b]} \ {NoBlock})
  /\ \A x \in Live' : /\ x \in Live /\ kind'[x] = kind[x]
                      /\ block'[x] = block[x] /\ finalBlock'[x] = finalBlock[x]

LEMMA OthersStay ==
  ASSUME Before, After',
         \/ \E a \in Builders, e \in Builders \cup {NoBuilder} : Emit(a, e) \/ ReturnValue(a, e)
         \/ \E a \in Builders : Finalise(a) \/ Destroy(a)
         \/ ScriptFinalise \/ DestroyScript
         \/ UNCHANGED vars
  PROVE  BuildersStay
<1>1. ASSUME UNCHANGED <<kind, block, finalBlock, region, nblocks, parent>>,
             \A b \in Blocks : Targets(b)' = Targets(b)
      PROVE  BuildersStay
  BY <1>1 DEF BuildersStay, Live
<1>2. ASSUME NEW a \in Builders, NEW e \in Builders \cup {NoBuilder}, Emit(a, e)
      PROVE  BuildersStay
  <2>1. UNCHANGED <<kind, block, finalBlock, region, nblocks, parent, terms>>
    BY <1>2 DEF Emit, builderVars
  <2> QED
    BY <2>1, <1>1 DEF Targets
<1>3. ASSUME NEW a \in Builders, NEW e \in Builders \cup {NoBuilder}, ReturnValue(a, e)
      PROVE  BuildersStay
  <2>1. UNCHANGED <<kind, block, finalBlock, region, nblocks, parent>>
    BY <1>3 DEF ReturnValue, builderVars
  <2>2. \A b \in Blocks : Targets(b)' = Targets(b)
    BY <1>3, ReturnEffect DEF Before, After
  <2> QED
    BY <2>1, <2>2, <1>1
<1>4. ASSUME \/ \E a \in Builders : Finalise(a) \/ Destroy(a)
             \/ ScriptFinalise \/ DestroyScript
      PROVE  BuildersStay
  <2>1. parent' = parent
    BY <1>4 DEF Finalise, Destroy, ScriptFinalise, DestroyScript
  <2>2. FinalisesSome
    BY <1>4, FinaliseCalls DEF Before
  <2>3. PICK S \in SUBSET Builders : S \subseteq Live /\ FinaliseEach(S)
    BY <2>2 DEF FinalisesSome
  <2>4. \A b \in Blocks : Targets(b)' \subseteq Targets(b) \cup ({region[b]} \ {NoBlock})
    BY <2>3, FinaliseTargets DEF Before, Flow
  <2> QED
    BY <2>1, <2>2, <2>4 DEF FinalisesSome, BuildersStay
<1>5. CASE UNCHANGED vars
  BY <1>5, <1>1 DEF vars, builderVars, moduleVars, ghostVars, Targets
<1> QED
  BY <1>2, <1>3, <1>4, <1>5

LEMMA NamesStay ==
  ASSUME Before, NEW anc \in [Blocks -> SUBSET Blocks], Ancestry(anc),
         \A x \in Live : Reached(anc, x),
         BuildersStay, Tree!Kept, elses' = elses,
         \A x \in Live' : scope'[x] = scope[x],
         \A x \in Live', n \in Names : Tree!has(scope[x], n)' =>
           \/ Tree!has(scope[x], n)
           \/ /\ named'[scope[x]][n] # NoBlock
              /\ Tree!get(scope[x], n)' \in anc[block[x]]
  PROVE  NamesInv'
<1>1. Ancestry(anc)'
  BY AncestryQuiet DEF Before, BuildersStay
<1>2. ASSUME NEW x \in Live' PROVE Reached(anc, x)'
  <2>1. /\ x \in Live /\ x \in Builders /\ kind'[x] = kind[x] /\ block'[x] = block[x]
        /\ finalBlock'[x] = finalBlock[x] /\ scope'[x] = scope[x]
    BY DEF BuildersStay, Live
  <2>2. PICK s : s = scope[x]
    OBVIOUS
  <2>3. \A n \in Names : Tree!has(s, n)' =>
          \/ Tree!has(s, n)
          \/ named'[s][n] # NoBlock /\ Tree!get(s, n)' \in anc[block'[x]]
    BY <2>1, <2>2
  <2> QED
    BY <2>1, <2>2, <2>3, ReachedKept DEF Before
<1> QED
  BY <1>1, <1>2 DEF NamesInv

LEMMA NamesDeclare ==
  ASSUME Before, After', NEW anc \in [Blocks -> SUBSET Blocks], Ancestry(anc),
         \A x \in Live : Reached(anc, x),
         NEW a \in Builders, NEW n \in Names, DeclareIn(a, n)
  PROVE  NamesInv'
<1>1. PICK s, v : s = scope[a] /\ v = block[a]
  OBVIOUS
<1>2. /\ Tree!Kept
      /\ a \in Live /\ s \in 2..nscopes /\ scope' = scope /\ elses' = elses
      /\ \A t \in 1..nscopes, m \in Names :
           Tree!has(t, m)' <=> Tree!has(t, m) \/ (t = s /\ m = n)
      /\ named'[s][n] = v /\ Tree!get(s, n)' = v /\ v # NoBlock
  BY <1>1, DeclareEffect DEF Before, After, Inv
<1>3. BuildersStay
  BY OthersStay DEF DeclareIn
<1>4. v \in anc[v]
  BY <1>1, <1>2, BuilderBlocks DEF Before, Ancestry
<1>5. ASSUME NEW x \in Live', NEW m \in Names, Tree!has(scope[x], m)', ~Tree!has(scope[x], m)
      PROVE  named'[scope[x]][m] # NoBlock /\ Tree!get(scope[x], m)' \in anc[block[x]]
  <2>1. PICK t : t = scope[x]
    OBVIOUS
  <2>2. x \in Live /\ t \in 1..nscopes
    BY <1>3, <2>1 DEF BuildersStay, Before, Trees, ScopesPlaced, NoScope, Live
  <2>3. Tree!has(t, m)' /\ ~Tree!has(t, m)
    BY <1>2, <1>5, <2>1
  <2>4. t = s /\ m = n
    BY <1>2, <2>2, <2>3
  <2>5. x = a
    BY <1>1, <1>2, <2>1, <2>2, <2>4 DEF Before, Trees, ScopesPlaced
  <2> QED
    BY <1>1, <1>2, <1>4, <2>1, <2>4, <2>5
<1> QED
  BY <1>2, <1>3, <1>5, NamesStay

LEMMA NamesOthers ==
  ASSUME Before, After', NEW anc \in [Blocks -> SUBSET Blocks], Ancestry(anc),
         \A x \in Live : Reached(anc, x),
         Work \/ (\E a \in Builders : Drop(a)) \/ UNCHANGED scopesVars
  PROVE  NamesInv'
<1>1. UNCHANGED regVars /\ elses' = elses
  BY WorkEffect DEF Quiet, Drop, scopesVars
<1>2. BuildersStay
  BY OthersStay DEF Work, Drop, scopesVars
<1>3. Tree!Kept /\ \A t, n : Tree!has(t, n)' <=> Tree!has(t, n)
  BY <1>1, QuietEffect DEF Before, After
<1>4. \A x \in Live' : scope'[x] = scope[x]
  <2>1. CASE Work \/ UNCHANGED scopesVars
    BY <2>1, WorkEffect DEF Quiet, scopesVars
  <2>2. ASSUME NEW a \in Builders, Drop(a) PROVE \A x \in Live' : scope'[x] = scope[x]
    BY <2>2 DEF Drop, Destroy, Live, Before, Inv, TypeInv, TypeOK, Trees, ScopesPlaced
  <2> QED
    BY <2>1, <2>2
<1>5. \A x \in Live', n \in Names : Tree!has(scope[x], n)' => Tree!has(scope[x], n)
  BY <1>1, <1>3, <1>4
<1> QED
  BY <1>1, <1>2, <1>3, <1>4, <1>5, NamesStay

LEMMA NamesNext ==
  ASSUME Inv, Inv', FlowInv, Trees, Trees', ScopesNested, Sound => NamesInv,
         [ScopesNext]_scopesVars
  PROVE  (Sound => NamesInv)'
<1> SUFFICES ASSUME Sound' PROVE NamesInv'
  OBVIOUS
<1>1. Sound
  <2>1. [Next]_vars
    BY ScopesStep
  <2>2. CASE UNCHANGED vars
    BY <2>2 DEF vars, ghostVars, Sound
  <2> QED
    BY <2>1, <2>2, SoundBefore
<1>2. Before /\ After'
  BY <1>1 DEF Before, After, FlowInv
<1>3. PICK anc \in [Blocks -> SUBSET Blocks] : Ancestry(anc) /\ \A x \in Live : Reached(anc, x)
  BY <1>1 DEF NamesInv
<1>4. ASSUME NEW f \in Functions, NEW c \in Builders, OpenFunction(f, c) PROVE NamesInv'
  BY <1>2, <1>3, <1>4, NamesOpenFunction
<1>5. ASSUME NEW a \in Builders, NEW c \in Builders, NEW e \in Builders \cup {NoBuilder}, OpenIf(a, e, c)
      PROVE  NamesInv'
  BY <1>2, <1>3, <1>5, NamesOpenIf
<1>6. ASSUME NEW a \in Builders, NEW c \in Builders, OpenElse(a, c) PROVE NamesInv'
  BY <1>2, <1>3, <1>6, NamesOpenElse
<1>7. ASSUME NEW a \in Builders, NEW n \in Names, DeclareIn(a, n) PROVE NamesInv'
  BY <1>2, <1>3, <1>7, NamesDeclare
<1>8. CASE Work \/ (\E a \in Builders : Drop(a)) \/ UNCHANGED scopesVars
  BY <1>2, <1>3, <1>8, NamesOthers
<1> QED
  BY <1>4, <1>5, <1>6, <1>7, <1>8 DEF ScopesNext

\* Every name that a builder's scope has, and that is not one of the other arm,
\* stands for a value whose block control cannot avoid on its way to the
\* builder's block: for any number of builders, functions, blocks and scopes,
\* in whatever order the client uses them.
THEOREM NamesAlwaysDominate == ScopesSpec => []NamesDominate
<1>1. ScopesInit => (Sound => NamesInv)
  <2> SUFFICES ASSUME ScopesInit PROVE NamesInv
    OBVIOUS
  <2>1. nblocks = 0 /\ \A a \in Builders : kind[a] = "free"
    BY DEF ScopesInit, Init
  <2>2. Live = {} /\ 1..nblocks = {}
    BY <2>1 DEF Live
  <2>3. [b \in Blocks |-> {}] \in [Blocks -> SUBSET Blocks]
    OBVIOUS
  <2> QED
    BY <2>2, <2>3 DEF NamesInv, Ancestry
<1>2. (Inv /\ FlowInv /\ Trees /\ ScopesNested) /\ (Sound => NamesInv) => NamesDominate
  <2> SUFFICES ASSUME Inv, FlowInv, Trees, ScopesNested, Sound => NamesInv, Sound,
                      NEW a \in Live, NEW n \in Names, Reg!has(scope[a], n)
               PROVE  \/ Dominates(Reg!get(scope[a], n), block[a])
                      \/ \E s \in OtherArms(a) : Reg!get(scope[a], n) = named[s][n]
    BY DEF NamesDominate
  <2>1. PICK anc \in [Blocks -> SUBSET Blocks] : Ancestry(anc) /\ Reached(anc, a)
    BY DEF NamesInv
  <2>2. Tree!has(scope[a], n) /\ Reg!get(scope[a], n) = Tree!get(scope[a], n)
    BY SameNames
  <2>3. Tree!get(scope[a], n) \in anc[block[a]] \/ Excused(a, n)
    BY <2>1, <2>2 DEF Reached, Passed
  <2>4. block[a] \in 1..nblocks /\ Flow
    BY BuilderBlocks DEF FlowInv
  <2> QED
    BY <2>1, <2>2, <2>3, <2>4, AncestorsDominate DEF Excused
<1> QED
  BY <1>1, <1>2, NamesNext, ScopesStayNested, PTL DEF ScopesSpec
=============================================================================
