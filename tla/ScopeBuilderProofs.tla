------------------------- MODULE ScopeBuilderProofs -------------------------
(* Theorems about ScopeBuilder, for every value of its constants: first its  *)
(* own invariants, then that it implements StructuredProgram.                *)
EXTENDS ScopeBuilderRefinement, SequenceTheorems, TLAPS

LEMMA TwoUpdates ==
  ASSUME NEW S, NEW T, NEW f \in [S -> T],
         NEW a \in S, NEW b \in S, NEW x \in T, NEW y \in T
  PROVE  /\ [f EXCEPT ![a] = x, ![b] = y] \in [S -> T]
         /\ \A z \in S : [f EXCEPT ![a] = x, ![b] = y][z] =
                           IF z = b THEN y ELSE IF z = a THEN x ELSE f[z]
OBVIOUS

LEMMA RetargetType ==
  ASSUME NEW t \in Terminators, NEW old \in Blocks, NEW new \in Blocks
  PROVE  Retarget(t, old, new) \in Terminators
BY DEF Retarget, Terminators

\* Redirecting branches keeps the terminators of every block where they are.
LEMMA ReplaceUsesType ==
  ASSUME NEW ts \in [Blocks -> Seq(Terminators)], NEW old \in Blocks, NEW new \in Blocks
  PROVE  /\ ReplaceUses(ts, old, new) \in [Blocks -> Seq(Terminators)]
         /\ \A b \in Blocks : Len(ReplaceUses(ts, old, new)[b]) = Len(ts[b])
<1> DEFINE r(b) == [i \in DOMAIN ts[b] |-> Retarget(ts[b][i], old, new)]
<1>1. ASSUME NEW b \in Blocks
      PROVE  r(b) \in Seq(Terminators) /\ Len(r(b)) = Len(ts[b])
  <2>1. ts[b] \in Seq(Terminators)
    OBVIOUS
  <2>2. \A i \in 1..Len(ts[b]) : Retarget(ts[b][i], old, new) \in Terminators
    BY <2>1, RetargetType
  <2>3. Len(ts[b]) \in Nat /\ DOMAIN ts[b] = 1..Len(ts[b])
    BY <2>1
  <2> QED
    BY <2>2, <2>3, IsASeq, LenProperties
<1>2. ReplaceUses(ts, old, new) = [b \in Blocks |-> r(b)]
  BY DEF ReplaceUses
<1> QED
  BY <1>1, <1>2

LEMMA ClosingType ==
  ASSUME TypeOK, NEW a \in Builders
  PROVE  Closing(a) \in Terminators
BY DEF TypeOK, Closing, RetVoid, Br, Terminators, Kinds

\* Finalising any set of builders keeps the variables it changes well typed.
LEMMA FinaliseEachType ==
  ASSUME TypeOK, NEW S \in SUBSET Builders, FinaliseEach(S)
  PROVE  /\ terms' \in [Blocks -> Seq(Terminators)]
         /\ open' \in [Blocks -> BOOLEAN]
         /\ finaliseCalled' \in [Builders -> BOOLEAN]
         /\ builders' \in SUBSET Builders
<1> DEFINE todo == {a \in S : ~finaliseCalled[a]}
           Closes(b) == open[b] /\ \E a \in todo : block[a] = b
           Owner(b) == CHOOSE a \in todo : block[a] = b
<1>1. ASSUME NEW b \in Blocks, Closes(b)
      PROVE  Append(terms[b], Closing(Owner(b))) \in Seq(Terminators)
  <2>1. Owner(b) \in Builders
    BY <1>1
  <2>2. Closing(Owner(b)) \in Terminators
    BY <2>1, ClosingType
  <2>3. terms[b] \in Seq(Terminators)
    BY DEF TypeOK
  <2> QED
    BY <2>2, <2>3, AppendProperties
<1>2. terms' = [b \in Blocks |-> IF Closes(b) THEN Append(terms[b], Closing(Owner(b)))
                                              ELSE terms[b]]
  BY DEF FinaliseEach
<1>3. terms' \in [Blocks -> Seq(Terminators)]
  BY <1>1, <1>2 DEF TypeOK
<1>4. open' \in [Blocks -> BOOLEAN]
  BY Zenon DEF FinaliseEach, TypeOK
<1>5. finaliseCalled' \in [Builders -> BOOLEAN]
  BY Zenon DEF FinaliseEach, TypeOK
<1> QED
  BY <1>3, <1>4, <1>5 DEF FinaliseEach, TypeOK

LEMMA CountMisuseType ==
  ASSUME TypeOK, NEW a \in Builders, NEW e \in Builders \cup {NoBuilder}, CountMisuse(a, e)
  PROVE  misuses' \in 0..MaxMisuses
BY ConstantsAssumption DEF TypeOK, CountMisuse

\* Appending a terminator to one block keeps the terminators well typed.
LEMMA AppendType ==
  ASSUME NEW ts \in [Blocks -> Seq(Terminators)], NEW b \in Blocks, NEW t \in Terminators
  PROVE  [ts EXCEPT ![b] = Append(@, t)] \in [Blocks -> Seq(Terminators)]
<1>1. Append(ts[b], t) \in Seq(Terminators)
  BY AppendProperties
<1> QED
  BY <1>1

LEMMA TerminatorTypes ==
  ASSUME NEW t \in Blocks \cup {NoBlock}, NEW f \in Blocks \cup {NoBlock}
  PROVE  {Ret, RetVoid, Br(t), CondBr(t, f)} \subseteq Terminators
BY DEF Ret, RetVoid, Br, CondBr, Terminators, Kinds

-----------------------------------------------------------------------------
(* Where builders and blocks stand: the invariant that makes every step well  *)
(* typed.  A live builder fills a block that exists, and the final block of   *)
(* an if or else statement exists too.                                        *)
Placed ==
  /\ \A a \in Live : block[a] \in 1..nblocks
  /\ \A a \in Builders : finalBlock[a] \in 0..nblocks
  /\ \A a \in Builders : kind[a] \in {"if", "else"} => finalBlock[a] # NoBlock
  /\ \A a \in Builders : kind[a] = "free" => finaliseCalled[a]

TypeInv == TypeOK /\ Placed

LEMMA LiveBlock ==
  ASSUME TypeInv, NEW a \in Live
  PROVE  block[a] \in Blocks /\ block[a] \in 1..nblocks
BY DEF TypeInv, TypeOK, Placed, Live, NoBlock

LEMMA TypeInvInit == Init => TypeInv
<1> SUFFICES ASSUME Init PROVE TypeInv
  OBVIOUS
<1> USE ConstantsAssumption DEF Init
<1>1. TypeOK
  <2>1. \A b \in Blocks : <<>> \in Seq(Terminators)
    OBVIOUS
  <2> QED
    BY <2>1 DEF TypeOK, Blocks, NoBlock
<1>2. Placed
  BY DEF Placed, Live, NoBlock
<1> QED
  BY <1>1, <1>2 DEF TypeInv

LEMMA TypeInvNewFunction ==
  ASSUME TypeInv, NEW f \in Functions, NEW c \in Builders, NewFunction(f, c)
  PROVE  TypeInv'
<1> USE DEF NewFunction, Construct
<1>0. nblocks + 1 \in Blocks /\ nblocks \in Nat /\ MaxBlocks \in Nat
  BY ConstantsAssumption DEF TypeInv, TypeOK
<1>1. TypeOK'
  BY <1>0 DEF TypeInv, TypeOK, Blocks, ghostVars
<1>2. Placed'
  BY <1>0 DEF TypeInv, Placed, TypeOK, Live, NoBlock, Blocks
<1> QED
  BY <1>1, <1>2 DEF TypeInv

LEMMA TypeInvEmit ==
  ASSUME TypeInv, NEW a \in Builders, NEW e \in Builders \cup {NoBuilder}, Emit(a, e)
  PROVE  TypeInv'
<1>1. misuses' \in 0..MaxMisuses
  BY CountMisuseType DEF Emit, TypeInv
<1>2. open' \in [Blocks -> BOOLEAN]
  <2>1. ReadInto(open, e) \in [Blocks -> BOOLEAN]
    BY DEF ReadInto, TypeInv, TypeOK
  <2> QED
    BY <2>1 DEF Emit
<1>3. TypeOK'
  BY <1>1, <1>2 DEF TypeInv, TypeOK, Emit, scriptVars, builderVars
<1>4. Placed'
  BY DEF TypeInv, Placed, Emit, Live, builderVars
<1> QED
  BY <1>3, <1>4 DEF TypeInv

LEMMA TypeInvReturnValue ==
  ASSUME TypeInv, NEW a \in Builders, NEW e \in Builders \cup {NoBuilder}, ReturnValue(a, e)
  PROVE  TypeInv'
<1>1. misuses' \in 0..MaxMisuses
  BY CountMisuseType DEF ReturnValue, TypeInv
<1>2. open' \in [Blocks -> BOOLEAN]
  <2>1. ReadInto(open, e) \in [Blocks -> BOOLEAN]
    BY DEF ReadInto, TypeInv, TypeOK
  <2> QED
    BY <2>1 DEF ReturnValue
<1>3. terms' \in [Blocks -> Seq(Terminators)]
  <2>1. block[a] \in Blocks
    BY LiveBlock DEF ReturnValue
  <2>2. Ret \in Terminators
    BY TerminatorTypes
  <2> QED
    BY <2>1, <2>2, AppendType DEF ReturnValue, TypeInv, TypeOK
<1>4. TypeOK'
  BY <1>1, <1>2, <1>3 DEF TypeInv, TypeOK, ReturnValue, scriptVars, builderVars
<1>5. Placed'
  BY DEF TypeInv, Placed, ReturnValue, Live, builderVars
<1> QED
  BY <1>4, <1>5 DEF TypeInv

LEMMA TypeInvIfStatement ==
  ASSUME TypeInv, NEW a \in Builders, NEW e \in Builders \cup {NoBuilder}, NEW c \in Builders,
         IfStatement(a, e, c)
  PROVE  TypeInv'
<1> DEFINE from == block[a]
           exit == nblocks + 1
           true == nblocks + 2
<1>0. /\ from \in Blocks /\ exit \in Blocks /\ true \in Blocks
      /\ nblocks \in Nat /\ MaxBlocks \in Nat /\ a # c
  BY ConstantsAssumption DEF TypeInv, TypeOK, Placed, IfStatement, Live, Blocks
<1>1. misuses' \in 0..MaxMisuses
  BY CountMisuseType DEF IfStatement, TypeInv
<1>2. open' \in [Blocks -> BOOLEAN]
  <2>1. ReadInto(open, e) \in [Blocks -> BOOLEAN]
    BY DEF ReadInto, TypeInv, TypeOK
  <2> QED
    BY <2>1 DEF IfStatement
<1>3. terms' \in [Blocks -> Seq(Terminators)]
  <2>1. CondBr(true, exit) \in Terminators
    BY <1>0, TerminatorTypes
  <2>2. terms' = [terms EXCEPT ![from] = Append(@, CondBr(true, exit))]
    BY DEF IfStatement
  <2> HIDE DEF from, exit, true
  <2> QED
    BY <1>0, <2>1, <2>2, AppendType DEF TypeInv, TypeOK
<1>4. /\ block' \in [Builders -> Blocks \cup {NoBlock}]
      /\ \A x \in Builders : block'[x] = IF x = c THEN true
                                         ELSE IF x = a THEN exit ELSE block[x]
  <2>1. block' = [block EXCEPT ![a] = exit, ![c] = true]
    BY DEF IfStatement
  <2> HIDE DEF from, exit, true
  <2> QED
    BY <1>0, <2>1, TwoUpdates DEF TypeInv, TypeOK
<1>5. parent' \in [Blocks -> Functions \cup {NoFunction}]
  <2>1. parent' = [parent EXCEPT ![exit] = parent[from], ![true] = parent[from]]
    BY DEF IfStatement
  <2>2. parent \in [Blocks -> Functions \cup {NoFunction}]
    BY DEF TypeInv, TypeOK
  <2>3. parent[from] \in Functions \cup {NoFunction}
    BY <1>0, <2>2
  <2> HIDE DEF from, exit, true
  <2> QED
    BY <1>0, <2>1, <2>2, <2>3, TwoUpdates
<1>6. head' \in [Blocks -> Blocks \cup {NoBlock}]
  <2>1. head' = [head EXCEPT ![exit] = from, ![true] = from]
    BY DEF IfStatement
  <2> HIDE DEF from, exit, true
  <2> QED
    BY <1>0, <2>1, TwoUpdates DEF TypeInv, TypeOK
<1>7. region' \in [Blocks -> Blocks \cup {NoBlock}]
  <2>1. region' = [region EXCEPT ![exit] = region[from], ![true] = exit]
    BY DEF IfStatement
  <2>2. region \in [Blocks -> Blocks \cup {NoBlock}]
    BY DEF TypeInv, TypeOK
  <2>3. region[from] \in Blocks \cup {NoBlock}
    BY <1>0, <2>2
  <2> HIDE DEF from, exit, true
  <2> QED
    BY <1>0, <2>1, <2>2, <2>3, TwoUpdates
<1>8. /\ nblocks' = true
      /\ kind' = [kind EXCEPT ![c] = "if"]
      /\ finalBlock' = [finalBlock EXCEPT ![c] = exit]
      /\ finaliseCalled' = [finaliseCalled EXCEPT ![c] = FALSE]
      /\ builders' = builders \cup {c}
      /\ scriptAlive' = scriptAlive
  BY DEF IfStatement, Construct
<1>9. TypeOK'
  <2>1. nblocks' \in 0..MaxBlocks
    BY <1>0, <1>8 DEF Blocks
  <2>2. /\ kind' \in [Builders -> {"free", "function", "if", "else"}]
        /\ finalBlock' \in [Builders -> Blocks \cup {NoBlock}]
        /\ finaliseCalled' \in [Builders -> BOOLEAN]
        /\ builders' \in SUBSET Builders
        /\ scriptAlive' \in BOOLEAN
    <3> HIDE DEF exit
    <3> QED
      BY <1>0, <1>8 DEF TypeInv, TypeOK
  <2> QED
    BY <1>1, <1>2, <1>3, <1>4, <1>5, <1>6, <1>7, <2>1, <2>2 DEF TypeOK
<1>10. Placed'
  <2>1. ASSUME NEW x \in Builders, kind'[x] # "free"
        PROVE  block'[x] \in 1..nblocks'
    <3>1. CASE x = c \/ x = a
      BY <3>1, <1>0, <1>4, <1>8 DEF Blocks
    <3>2. CASE x # c /\ x # a
      <4>1. x \in Live
        BY <3>2, <2>1, <1>8 DEF TypeInv, TypeOK, Live
      <4>2. block'[x] \in 1..nblocks
        BY <3>2, <4>1, <1>4, LiveBlock
      <4> QED
        BY <4>2, <1>0, <1>8
    <3> QED
      BY <3>1, <3>2
  <2>2. ASSUME NEW x \in Builders
        PROVE  /\ finalBlock'[x] \in 0..nblocks'
               /\ kind'[x] \in {"if", "else"} => finalBlock'[x] # NoBlock
               /\ kind'[x] = "free" => finaliseCalled'[x]
    BY <1>0, <1>8 DEF TypeInv, TypeOK, Placed, NoBlock
  <2> QED
    BY <2>1, <2>2 DEF Placed, Live
<1> QED
  BY <1>9, <1>10 DEF TypeInv

LEMMA TypeInvElseStatement ==
  ASSUME TypeInv, NEW a \in Builders, NEW c \in Builders, ElseStatement(a, c)
  PROVE  TypeInv'
<1> DEFINE final == finalBlock[a]
           else  == nblocks + 1
<1>0. /\ final \in Blocks /\ else \in Blocks /\ block[a] \in Blocks
      /\ nblocks \in Nat /\ MaxBlocks \in Nat /\ a # c
  BY ConstantsAssumption DEF TypeInv, TypeOK, Placed, ElseStatement, Live, Blocks, NoBlock
<1>1. misuses' \in 0..MaxMisuses
  BY CountMisuseType DEF ElseStatement, TypeInv
<1>3. terms' \in [Blocks -> Seq(Terminators)]
  <2>1. Br(final) \in Terminators
    BY <1>0, TerminatorTypes
  <2>2. ReplaceUses(terms, final, else) \in [Blocks -> Seq(Terminators)]
    BY <1>0, ReplaceUsesType DEF TypeInv, TypeOK
  <2>3. terms' = [ReplaceUses(terms, final, else) EXCEPT ![block[a]] = Append(@, Br(final))]
    BY DEF ElseStatement
  <2> HIDE DEF final, else
  <2> QED
    BY <1>0, <2>1, <2>2, <2>3, AppendType
<1>4. head' \in [Blocks -> Blocks \cup {NoBlock}]
  <2>1. head' = [head EXCEPT ![else] = head[final], ![final] = NoBlock]
    BY DEF ElseStatement
  <2>2. head \in [Blocks -> Blocks \cup {NoBlock}]
    BY DEF TypeInv, TypeOK
  <2>3. head[final] \in Blocks \cup {NoBlock}
    BY <1>0, <2>2
  <2> HIDE DEF final, else
  <2> QED
    BY <1>0, <2>1, <2>2, <2>3, TwoUpdates
<1>5. /\ nblocks' = else
      /\ block' = [block EXCEPT ![c] = else]
      /\ kind' = [kind EXCEPT ![c] = "else"]
      /\ finalBlock' = [finalBlock EXCEPT ![c] = final]
      /\ finaliseCalled' = [finaliseCalled EXCEPT ![c] = FALSE]
      /\ builders' = builders \cup {c}
      /\ open' = [open EXCEPT ![block[a]] = FALSE]
      /\ parent' = [parent EXCEPT ![else] = parent[final]]
      /\ region' = [region EXCEPT ![else] = final]
      /\ scriptAlive' = scriptAlive
  BY DEF ElseStatement, Construct
<1>6. final \in 1..nblocks
  BY <1>0 DEF TypeInv, Placed, Blocks
<1>7. TypeOK'
  <2>1. nblocks' \in 0..MaxBlocks
    BY <1>0, <1>5 DEF Blocks
  <2>2. /\ kind' \in [Builders -> {"free", "function", "if", "else"}]
        /\ finalBlock' \in [Builders -> Blocks \cup {NoBlock}]
        /\ finaliseCalled' \in [Builders -> BOOLEAN]
        /\ block' \in [Builders -> Blocks \cup {NoBlock}]
        /\ builders' \in SUBSET Builders
        /\ scriptAlive' \in BOOLEAN
        /\ open' \in [Blocks -> BOOLEAN]
        /\ parent' \in [Blocks -> Functions \cup {NoFunction}]
        /\ region' \in [Blocks -> Blocks \cup {NoBlock}]
    <3> HIDE DEF final, else
    <3> QED
      BY <1>0, <1>5 DEF TypeInv, TypeOK
  <2> QED
    BY <1>1, <1>3, <1>4, <2>1, <2>2 DEF TypeOK
<1>8. Placed'
  <2> HIDE DEF final
  <2> QED
    BY <1>0, <1>5, <1>6 DEF TypeInv, TypeOK, Placed, Live, Blocks, NoBlock
<1> QED
  BY <1>7, <1>8 DEF TypeInv

LEMMA TypeInvFinalise ==
  ASSUME TypeInv, NEW a \in Builders, Finalise(a)
  PROVE  TypeInv'
<1>1. TypeOK'
  BY FinaliseEachType DEF TypeInv, TypeOK, Finalise, ghostVars
<1>2. Placed'
  BY DEF TypeInv, Placed, Finalise, FinaliseEach, Live
<1> QED
  BY <1>1, <1>2 DEF TypeInv

LEMMA TypeInvDestroy ==
  ASSUME TypeInv, NEW a \in Builders, Destroy(a)
  PROVE  TypeInv'
<1>1. TypeOK'
  BY FinaliseEachType DEF TypeInv, TypeOK, Destroy, ghostVars
<1>2. Placed'
  <2>1. finaliseCalled'[a]
    BY DEF TypeInv, TypeOK, Destroy, FinaliseEach
  <2> QED
    BY <2>1 DEF TypeInv, TypeOK, Placed, Destroy, FinaliseEach, Live, NoBlock
<1> QED
  BY <1>1, <1>2 DEF TypeInv

LEMMA TypeInvScript ==
  ASSUME TypeInv, ScriptFinalise \/ DestroyScript
  PROVE  TypeInv'
<1>0. builders \in SUBSET Builders /\ FinaliseEach(builders)
  BY DEF TypeInv, TypeOK, ScriptFinalise, DestroyScript
<1>1. TypeOK'
  BY <1>0, FinaliseEachType DEF TypeInv, TypeOK, ScriptFinalise, DestroyScript, ghostVars
<1>2. Placed'
  BY <1>0 DEF TypeInv, Placed, ScriptFinalise, DestroyScript, FinaliseEach, Live
<1> QED
  BY <1>1, <1>2 DEF TypeInv

LEMMA TypeInvNext == TypeInv /\ [Next]_vars => TypeInv'
<1> SUFFICES ASSUME TypeInv, [Next]_vars PROVE TypeInv'
  OBVIOUS
<1>1. CASE UNCHANGED vars
  BY <1>1 DEF TypeInv, TypeOK, Placed, Live, vars, scriptVars, builderVars, moduleVars, ghostVars
<1>2. CASE Next
  BY <1>2, TypeInvNewFunction, TypeInvEmit, TypeInvReturnValue, TypeInvIfStatement,
     TypeInvElseStatement, TypeInvFinalise, TypeInvDestroy, TypeInvScript DEF Next
<1> QED
  BY <1>1, <1>2

\* Every reachable state is well typed: no call, in whatever order, leads to a
\* builder without a block or to a branch to a block that does not exist.
THEOREM TypeCorrect == Spec => [](TypeOK /\ Placed)
<1>1. Spec => []TypeInv
  BY TypeInvInit, TypeInvNext, PTL DEF Spec
<1> QED
  BY <1>1, PTL DEF TypeInv

-----------------------------------------------------------------------------
(* The registry of live builders.  RegistryExact is inductive on its own;     *)
(* that a destroyed ScriptBuilder has an empty registry makes TeardownSafe.   *)
RegistryInv ==
  /\ RegistryExact
  /\ ~scriptAlive => builders = {}

LEMMA RegistryInit == Init => RegistryInv
BY DEF Init, RegistryInv, RegistryExact, Live

\* A new object is registered and not finalised.
LEMMA RegistryConstruct ==
  ASSUME TypeInv, RegistryInv, scriptAlive, scriptAlive',
         NEW c \in Builders, NEW k \in {"function", "if", "else"}, NEW b, NEW final,
         Construct(c, k, b, final)
  PROVE  RegistryInv'
BY DEF TypeInv, TypeOK, RegistryInv, RegistryExact, Live, Construct

LEMMA RegistryNext == TypeInv /\ RegistryInv /\ [Next]_vars => RegistryInv'
<1> SUFFICES ASSUME TypeInv, RegistryInv, [Next]_vars PROVE RegistryInv'
  OBVIOUS
<1>1. ASSUME NEW f \in Functions, NEW c \in Builders, NewFunction(f, c)
      PROVE  RegistryInv'
  BY <1>1, RegistryConstruct DEF NewFunction
<1>2. ASSUME NEW a \in Builders, NEW e \in Builders \cup {NoBuilder},
             Emit(a, e) \/ ReturnValue(a, e)
      PROVE  RegistryInv'
  BY <1>2 DEF Emit, ReturnValue, scriptVars, builderVars, RegistryInv, RegistryExact, Live
<1>3. ASSUME NEW a \in Builders, NEW c \in Builders, NEW e \in Builders \cup {NoBuilder},
             IfStatement(a, e, c)
      PROVE  RegistryInv'
  BY <1>3, RegistryConstruct DEF IfStatement
<1>4. ASSUME NEW a \in Builders, NEW c \in Builders, ElseStatement(a, c)
      PROVE  RegistryInv'
  BY <1>4, RegistryConstruct DEF ElseStatement
<1>5. ASSUME NEW a \in Builders, Finalise(a)
      PROVE  RegistryInv'
  BY <1>5 DEF TypeInv, TypeOK, Finalise, FinaliseEach, RegistryInv, RegistryExact, Live
<1>6. ASSUME NEW a \in Builders, Destroy(a)
      PROVE  RegistryInv'
  BY <1>6 DEF TypeInv, TypeOK, Destroy, FinaliseEach, RegistryInv, RegistryExact, Live
<1>7. CASE ScriptFinalise \/ DestroyScript
  <2>1. FinaliseEach(builders) /\ kind' = kind
    BY <1>7 DEF ScriptFinalise, DestroyScript
  <2>2. \A a \in builders : a \in Live /\ ~finaliseCalled[a]
    BY DEF RegistryInv, RegistryExact
  <2>3. builders' = {}
    BY <2>1, <2>2 DEF FinaliseEach
  <2>4. \A a \in Builders : finaliseCalled'[a] <=> finaliseCalled[a] \/ a \in builders
    BY <2>1, <2>2 DEF FinaliseEach, TypeInv, TypeOK
  <2> QED
    BY <2>1, <2>3, <2>4 DEF RegistryInv, RegistryExact, Live
<1>8. CASE UNCHANGED vars
  BY <1>8 DEF vars, scriptVars, builderVars, RegistryInv, RegistryExact, Live
<1> QED
  BY <1>1, <1>2, <1>3, <1>4, <1>5, <1>6, <1>7, <1>8 DEF Next

\* builders_ always holds exactly the builders that exist and have not been
\* finalised, so the loop of ScriptBuilder::finalise meets no dangling pointer
\* and its assertion holds, for any number of builders and any order of calls.
THEOREM RegistryIsExact == Spec => []RegistryExact
<1>1. Spec => [](TypeInv /\ RegistryInv)
  BY TypeInvInit, TypeInvNext, RegistryInit, RegistryNext, PTL DEF Spec
<1> QED
  BY <1>1, PTL DEF RegistryInv

\* A builder that outlives its ScriptBuilder has been finalised: its destructor
\* will not touch the freed registry, module or context.
THEOREM TeardownIsSafe == Spec => []TeardownSafe
<1>1. Spec => [](TypeInv /\ RegistryInv)
  BY TypeInvInit, TypeInvNext, RegistryInit, RegistryNext, PTL DEF Spec
<1>2. RegistryInv => TeardownSafe
  BY DEF RegistryInv, RegistryExact, TeardownSafe
<1> QED
  BY <1>1, <1>2, PTL

-----------------------------------------------------------------------------
(* No two builders share a block: blocks are numbered in the order they are   *)
(* created, so a new one is not the block of any builder.                     *)
LEMMA OwnershipInit == Init => BlockOwnership
BY DEF Init, BlockOwnership, Live

LEMMA OwnershipFinalise ==
  ASSUME BlockOwnership, block' = block, kind' = kind
  PROVE  BlockOwnership'
BY DEF BlockOwnership, Live

LEMMA OwnershipNext == TypeInv /\ BlockOwnership /\ [Next]_vars => BlockOwnership'
<1> SUFFICES ASSUME TypeInv, BlockOwnership, [Next]_vars PROVE BlockOwnership'
  OBVIOUS
<1>0. nblocks \in Nat
  BY ConstantsAssumption DEF TypeInv, TypeOK
<1>1. ASSUME NEW f \in Functions, NEW c \in Builders, NewFunction(f, c)
      PROVE  BlockOwnership'
  <2>1. \A x \in Live : block[x] \in 1..nblocks
    BY LiveBlock
  <2>2. /\ kind' = [kind EXCEPT ![c] = "function"]
        /\ block' = [block EXCEPT ![c] = nblocks + 1]
    BY <1>1 DEF NewFunction, Construct
  <2> QED
    BY <1>0, <2>1, <2>2 DEF TypeInv, TypeOK, BlockOwnership, Live
<1>2. ASSUME NEW a \in Builders, NEW e \in Builders \cup {NoBuilder},
             Emit(a, e) \/ ReturnValue(a, e)
      PROVE  BlockOwnership'
  BY <1>2, OwnershipFinalise DEF Emit, ReturnValue, builderVars
<1>3. ASSUME NEW a \in Builders, NEW c \in Builders, NEW e \in Builders \cup {NoBuilder},
             IfStatement(a, e, c)
      PROVE  BlockOwnership'
  <2>1. \A x \in Live : block[x] \in 1..nblocks
    BY LiveBlock
  <2>2. kind' = [kind EXCEPT ![c] = "if"] /\ a \in Live /\ kind[c] = "free" /\ a # c
    BY <1>3 DEF IfStatement, Construct, Live
  <2>3. \A x \in Builders : block'[x] = IF x = c THEN nblocks + 2
                                        ELSE IF x = a THEN nblocks + 1 ELSE block[x]
    <3>1. block' = [block EXCEPT ![a] = nblocks + 1, ![c] = nblocks + 2]
      BY <1>3 DEF IfStatement
    <3>2. nblocks + 1 \in Blocks /\ nblocks + 2 \in Blocks
      BY <1>0, <1>3, ConstantsAssumption DEF IfStatement, Blocks
    <3> QED
      BY <3>1, <3>2, TwoUpdates DEF TypeInv, TypeOK
  <2>4. \A x \in Builders : x \in Live' <=> x \in Live \/ x = c
    BY <2>2 DEF TypeInv, TypeOK, Live
  <2> QED
    BY <1>0, <2>1, <2>2, <2>3, <2>4 DEF BlockOwnership, Live
<1>4. ASSUME NEW a \in Builders, NEW c \in Builders, ElseStatement(a, c)
      PROVE  BlockOwnership'
  <2>1. \A x \in Live : block[x] \in 1..nblocks
    BY LiveBlock
  <2>2. /\ kind' = [kind EXCEPT ![c] = "else"]
        /\ block' = [block EXCEPT ![c] = nblocks + 1]
    BY <1>4 DEF ElseStatement, Construct
  <2> QED
    BY <1>0, <2>1, <2>2 DEF TypeInv, TypeOK, BlockOwnership, Live
<1>5. ASSUME NEW a \in Builders, Finalise(a)
      PROVE  BlockOwnership'
  BY <1>5, OwnershipFinalise DEF Finalise
<1>6. ASSUME NEW a \in Builders, Destroy(a)
      PROVE  BlockOwnership'
  BY <1>6 DEF TypeInv, TypeOK, Destroy, BlockOwnership, Live
<1>7. CASE ScriptFinalise \/ DestroyScript
  BY <1>7, OwnershipFinalise DEF ScriptFinalise, DestroyScript
<1>8. CASE UNCHANGED vars
  BY <1>8, OwnershipFinalise DEF vars, builderVars
<1> QED
  BY <1>1, <1>2, <1>3, <1>4, <1>5, <1>6, <1>7, <1>8 DEF Next

\* However ifStatement and elseStatement hand blocks around, no two builders
\* ever append to the same basic block.
THEOREM BlocksAreOwned == Spec => []BlockOwnership
BY TypeInvInit, TypeInvNext, OwnershipInit, OwnershipNext, PTL DEF Spec

-----------------------------------------------------------------------------
(* How blocks end.  Blocks that do not exist yet are empty, and a block that  *)
(* ends in a terminator has one: without these a write behind a terminator    *)
(* could go unnoticed, or a new block could start out closed.                 *)
ClosureInv ==
  /\ \A b \in Blocks : b > nblocks => terms[b] = <<>> /\ open[b]
  /\ \A b \in Blocks : ~open[b] => terms[b] # <<>>
  /\ BlocksClosed
  /\ MisuseIsCaught

Inv == TypeInv /\ RegistryInv /\ BlockOwnership /\ ClosureInv

LEMMA ClosureInit == Init => ClosureInv
BY DEF Init, ClosureInv, BlocksClosed, MisuseIsCaught, Blocks

LEMMA SeqLength ==
  ASSUME NEW s \in Seq(Terminators)
  PROVE  Len(s) \in Nat /\ (s = <<>> <=> Len(s) = 0)
BY EmptySeq, LenProperties

\* The number of terminators of a block.
TermCount(b) == Len(terms[b])

\* What the properties say of a block, in terms of that number.
Counted(b) ==
  /\ TermCount(b) \in Nat
  /\ open[b] \in BOOLEAN
  /\ terms[b] = <<>> <=> TermCount(b) = 0
  /\ Unterminated(b) <=> TermCount(b) = 0
  /\ Malformed(b) <=> TermCount(b) > 1 \/ (TermCount(b) = 1 /\ open[b])

LEMMA CountedType ==
  ASSUME NEW ts \in Seq(Terminators), NEW o \in BOOLEAN
  PROVE  (ts # <<>> /\ (Len(ts) > 1 \/ o)) <=> (Len(ts) > 1 \/ (Len(ts) = 1 /\ o))
<1>1. Len(ts) \in Nat /\ (ts = <<>> <=> Len(ts) = 0)
  BY SeqLength
<1> DEFINE n == Len(ts)
           empty == ts = <<>>
<1>2. n \in Nat /\ (empty <=> n = 0)
  BY <1>1
<1> HIDE DEF n, empty
<1>3. (~empty /\ (n > 1 \/ o)) <=> (n > 1 \/ (n = 1 /\ o))
  BY <1>2
<1> QED
  BY <1>3 DEF n, empty

LEMMA BlocksCounted == TypeOK => \A b \in Blocks : Counted(b)
<1> SUFFICES ASSUME TypeOK, NEW b \in Blocks PROVE Counted(b)
  OBVIOUS
<1>1. terms[b] \in Seq(Terminators) /\ open[b] \in BOOLEAN
  BY DEF TypeOK
<1>2. Len(terms[b]) \in Nat /\ (terms[b] = <<>> <=> Len(terms[b]) = 0)
  BY <1>1, SeqLength
<1>3. Malformed(b) <=> Len(terms[b]) > 1 \/ (Len(terms[b]) = 1 /\ open[b])
  BY <1>1, CountedType, Zenon DEF Malformed
<1> QED
  BY <1>1, <1>2, <1>3, Zenon DEF Counted, TermCount, Unterminated

LEMMA BlocksCountedNext == TypeOK' => \A b \in Blocks : Counted(b)'
<1>1. (TypeOK => \A b \in Blocks : Counted(b))'
  BY BlocksCounted, PTL
<1> QED
  BY <1>1

\* While nothing was misused, a builder whose block is open is registered and
\* its block has no terminator.
LEMMA OpenIsRegistered ==
  ASSUME Inv, misuses = 0, NEW a \in Live, open[block[a]]
  PROVE  a \in builders /\ terms[block[a]] = <<>>
<1>1. block[a] \in 1..nblocks
  BY LiveBlock DEF Inv
<1>2. terms[block[a]] = <<>>
  BY <1>1 DEF Inv, ClosureInv, BlocksClosed, Malformed
<1>3. PICK x \in builders : block[x] = block[a]
  BY <1>1, <1>2 DEF Inv, ClosureInv, BlocksClosed, Unterminated
<1>4. x \in Live
  BY <1>3 DEF Inv, RegistryInv, RegistryExact
<1> QED
  BY <1>2, <1>3, <1>4 DEF Inv, BlockOwnership

\* What a call on builder a does to the ends of blocks: its own block gets w
\* terminators, and the block of the operand's builder is written to.
Writes(a, e, w) ==
  \A b \in Blocks :
    /\ TermCount(b)' = TermCount(b) + IF b = block[a] THEN w ELSE 0
    /\ open'[b] <=> IF b = block[a] THEN w = 0
                    ELSE open[b] \/ (e # NoBuilder /\ b = block[e])

\* Any call that writes keeps the closed blocks as they should be and shows
\* as malformed if it was a misuse.
LEMMA ClosureWrites ==
  ASSUME Inv, TypeInv', NEW a \in Live, NEW e \in Live \cup {NoBuilder}, NEW w \in {0, 1},
         CountMisuse(a, e), Writes(a, e, w), nblocks' >= nblocks
  PROVE  /\ \A b \in Blocks : b > nblocks' => terms'[b] = <<>> /\ open'[b]
         /\ \A b \in Blocks : ~open'[b] => terms'[b] # <<>>
         /\ misuses' = 0 => \A b \in Blocks : b <= nblocks' => ~Malformed(b)'
         /\ MisuseIsCaught'
<1>1. /\ nblocks \in Nat /\ nblocks' \in Nat /\ misuses \in Nat /\ nblocks' <= MaxBlocks
      /\ MaxBlocks \in Nat
  BY ConstantsAssumption DEF Inv, TypeInv, TypeOK
<1>2. /\ \A b \in Blocks : Counted(b)
      /\ \A b \in Blocks : Counted(b)'
  BY BlocksCounted, BlocksCountedNext DEF Inv, TypeInv
<1>3. block[a] \in Blocks /\ block[a] <= nblocks
  BY LiveBlock DEF Inv
<1>4. e # NoBuilder => e \in Live /\ block[e] \in Blocks /\ block[e] <= nblocks
  BY LiveBlock DEF Inv
<1>7. \A b \in Blocks : b > nblocks => TermCount(b) = 0 /\ open[b]
  BY <1>2 DEF Inv, ClosureInv, Counted
<1>8. \A b \in Blocks : ~open[b] => TermCount(b) > 0
  BY <1>2 DEF Inv, ClosureInv, Counted
<1>9. \A b \in Blocks : b > nblocks' => terms'[b] = <<>> /\ open'[b]
  <2> SUFFICES ASSUME NEW b \in Blocks, b > nblocks' PROVE terms'[b] = <<>> /\ open'[b]
    OBVIOUS
  <2>1. b # block[a] /\ b > nblocks /\ b \in Nat
    BY <1>1, <1>3 DEF Blocks
  <2>2. TermCount(b) = 0 /\ open[b]
    BY <1>7, <2>1
  <2>3. TermCount(b)' = 0 /\ open'[b]
    BY <2>1, <2>2 DEF Writes
  <2> QED
    BY <1>2, <2>3 DEF Counted
<1>10. \A b \in Blocks : ~open'[b] => terms'[b] # <<>>
  <2> SUFFICES ASSUME NEW b \in Blocks, ~open'[b] PROVE TermCount(b)' # 0
    BY <1>2 DEF Counted
  <2>1. CASE b = block[a]
    BY <1>2, <2>1 DEF Writes, Counted
  <2>2. CASE b # block[a]
    BY <1>2, <1>8, <2>2 DEF Writes, Counted
  <2> QED
    BY <2>1, <2>2
<1>11. ASSUME misuses' = 0, NEW b \in Blocks, b <= nblocks' PROVE ~Malformed(b)'
  <2>1. misuses = 0 /\ open[block[a]] /\ (e # NoBuilder => open[block[e]])
    BY <1>11, <1>1 DEF CountMisuse, IsActive
  <2>2. terms[block[a]] = <<>> /\ (e # NoBuilder => terms[block[e]] = <<>>)
    BY <1>4, <2>1, OpenIsRegistered
  <2>3. TermCount(block[a]) = 0 /\ (e # NoBuilder => TermCount(block[e]) = 0)
    BY <1>2, <1>3, <1>4, <2>2 DEF Counted
  <2>4. b <= nblocks => ~Malformed(b)
    BY <1>1, <2>1 DEF Inv, ClosureInv, BlocksClosed, Blocks
  <2>5. b > nblocks => ~Malformed(b)
    BY <1>2, <1>7 DEF Counted
  <2>6. ~Malformed(b)
    BY <1>1, <2>4, <2>5 DEF Blocks
  <2>7. TermCount(b) \in Nat /\ ~(TermCount(b) > 1) /\ (TermCount(b) = 1 => ~open[b])
    BY <1>2, <2>6 DEF Counted
  <2>8. ~(TermCount(b)' > 1) /\ (TermCount(b)' = 1 => ~open'[b])
    BY <2>3, <2>7 DEF Writes
  <2> QED
    BY <1>2, <2>8 DEF Counted
<1>12. MisuseIsCaught'
  <2> SUFFICES ASSUME misuses' > 0
               PROVE  \E b \in Blocks : b <= nblocks /\ Malformed(b)'
    BY <1>1 DEF MisuseIsCaught, Blocks
  <2>1. CASE misuses > 0
    <3>1. PICK b \in Blocks : b <= nblocks /\ Malformed(b)
      BY <1>1, <2>1 DEF Inv, ClosureInv, MisuseIsCaught, Blocks
    <3>2. TermCount(b) \in Nat /\ (TermCount(b) > 1 \/ (TermCount(b) = 1 /\ open[b]))
      BY <1>2, <3>1 DEF Counted
    <3>3. TermCount(b)' > 1 \/ (TermCount(b)' = 1 /\ open'[b])
      BY <3>2 DEF Writes
    <3>4. Malformed(b)'
      BY <1>2, <3>3 DEF Counted
    <3> QED
      BY <3>1, <3>4
  <2>2. CASE misuses = 0
    <3>1. ~open[block[a]] \/ (e # NoBuilder /\ ~open[block[e]])
      BY <2>2 DEF CountMisuse, IsActive
    <3>2. ASSUME NEW b \in Blocks, b <= nblocks, ~open[b],
                 b = block[a] \/ (e # NoBuilder /\ b = block[e])
          PROVE  Malformed(b)'
      <4>1. TermCount(b) \in Nat /\ TermCount(b) > 0
        BY <1>2, <1>8, <3>2 DEF Counted
      <4>2. TermCount(b)' > 1 \/ (TermCount(b)' = 1 /\ open'[b])
        BY <3>2, <4>1 DEF Writes
      <4> QED
        BY <1>2, <4>2 DEF Counted
    <3> QED
      BY <1>3, <1>4, <3>1, <3>2
  <2> QED
    BY <1>1, <2>1, <2>2
<1> QED
  BY <1>9, <1>10, <1>11, <1>12

\* What finalising the builders of S does to the ends of blocks.
Finalises(S) ==
  \A b \in Blocks :
    LET closes == open[b] /\ \E a \in S : ~finaliseCalled[a] /\ block[a] = b
    IN /\ TermCount(b)' = TermCount(b) + IF closes THEN 1 ELSE 0
       /\ open'[b] <=> open[b] /\ ~closes

LEMMA FinaliseEachEffect ==
  ASSUME TypeInv, NEW S \in SUBSET Builders, FinaliseEach(S)
  PROVE  Finalises(S)
<1> SUFFICES ASSUME NEW b \in Blocks
             PROVE  LET closes == open[b] /\ \E a \in S : ~finaliseCalled[a] /\ block[a] = b
                    IN /\ TermCount(b)' = TermCount(b) + IF closes THEN 1 ELSE 0
                       /\ open'[b] <=> open[b] /\ ~closes
  BY DEF Finalises
<1> DEFINE todo == {a \in S : ~finaliseCalled[a]}
           Closes == open[b] /\ \E a \in todo : block[a] = b
           Owner == CHOOSE a \in todo : block[a] = b
<1>1. Closes <=> open[b] /\ \E a \in S : ~finaliseCalled[a] /\ block[a] = b
  OBVIOUS
<1>2. open'[b] <=> open[b] /\ ~Closes
  BY DEF FinaliseEach
<1>3. terms'[b] = IF Closes THEN Append(terms[b], Closing(Owner)) ELSE terms[b]
  BY DEF FinaliseEach
<1>4. terms[b] \in Seq(Terminators)
  BY DEF TypeInv, TypeOK
<1>5. ASSUME Closes PROVE TermCount(b)' = TermCount(b) + 1
  <2>1. Owner \in Builders
    BY <1>5
  <2>2. Closing(Owner) \in Terminators
    BY <2>1, ClosingType DEF TypeInv
  <2> HIDE DEF Owner
  <2> QED
    BY <1>3, <1>4, <1>5, <2>2, AppendProperties DEF TermCount
<1>6. ASSUME ~Closes PROVE TermCount(b)' = TermCount(b) + 0
  BY <1>3, <1>4, <1>6, SeqLength DEF TermCount
<1> HIDE DEF Closes
<1> QED
  BY <1>1, <1>2, <1>5, <1>6

LEMMA ReadIntoEffect ==
  ASSUME TypeInv, NEW e \in Live \cup {NoBuilder}
  PROVE  /\ ReadInto(open, e) \in [Blocks -> BOOLEAN]
         /\ \A b \in Blocks : ReadInto(open, e)[b] <=>
                                open[b] \/ (e # NoBuilder /\ b = block[e])
BY LiveBlock DEF ReadInto, TypeInv, TypeOK

\* Appending one terminator to the block of builder a.
LEMMA AppendWrites ==
  ASSUME TypeInv, NEW a \in Live, NEW e \in Live \cup {NoBuilder}, NEW t \in Terminators,
         NEW ts \in [Blocks -> Seq(Terminators)], \A b \in Blocks : Len(ts[b]) = Len(terms[b]),
         terms' = [ts EXCEPT ![block[a]] = Append(@, t)],
         open' = [ReadInto(open, e) EXCEPT ![block[a]] = FALSE]
  PROVE  Writes(a, e, 1)
<1>1. block[a] \in Blocks
  BY LiveBlock
<1>2. Len(Append(ts[block[a]], t)) = Len(terms[block[a]]) + 1
  BY <1>1, AppendProperties
<1>3. \A b \in Blocks : Len(terms[b]) \in Nat
  BY SeqLength DEF TypeInv, TypeOK
<1>4. \A b \in Blocks : TermCount(b)' = TermCount(b) + IF b = block[a] THEN 1 ELSE 0
  <2> SUFFICES ASSUME NEW b \in Blocks
               PROVE  Len(terms'[b]) = Len(terms[b]) + IF b = block[a] THEN 1 ELSE 0
    BY DEF TermCount
  <2>1. terms'[b] = IF b = block[a] THEN Append(ts[block[a]], t) ELSE ts[b]
    BY <1>1
  <2>2. CASE b = block[a]
    BY <1>2, <2>1, <2>2
  <2>3. CASE b # block[a]
    BY <1>3, <2>1, <2>3
  <2> QED
    BY <2>2, <2>3
<1>5. \A b \in Blocks : open'[b] <=> IF b = block[a] THEN FALSE
                                     ELSE open[b] \/ (e # NoBuilder /\ b = block[e])
  BY <1>1, ReadIntoEffect
<1> QED
  BY <1>4, <1>5 DEF Writes

\* The second half of BlocksClosed: what a call on builder a must leave behind
\* for the blocks without a terminator.
LEMMA ClosureKept ==
  ASSUME Inv, TypeInv', NEW a \in Live, NEW e \in Live \cup {NoBuilder}, NEW w \in {0, 1},
         CountMisuse(a, e), Writes(a, e, w), nblocks' >= nblocks,
         misuses' = 0 =>
           /\ \A b \in Blocks : nblocks < b /\ b <= nblocks' =>
                \E x \in builders' : block'[x] = b
           /\ \A x \in builders : x \in builders' /\ (block'[x] = block[x] \/ (x = a /\ w = 1))
  PROVE  ClosureInv'
<1>1. /\ nblocks \in Nat /\ nblocks' \in Nat /\ misuses \in Nat /\ nblocks' <= MaxBlocks
      /\ MaxBlocks \in Nat
  BY ConstantsAssumption DEF Inv, TypeInv, TypeOK
<1>2. /\ \A b \in Blocks : b > nblocks' => terms'[b] = <<>> /\ open'[b]
      /\ \A b \in Blocks : ~open'[b] => terms'[b] # <<>>
      /\ misuses' = 0 => \A b \in Blocks : b <= nblocks' => ~Malformed(b)'
      /\ MisuseIsCaught'
  BY ClosureWrites
<1>3. /\ \A b \in Blocks : Counted(b)
      /\ \A b \in Blocks : Counted(b)'
  BY BlocksCounted, BlocksCountedNext DEF Inv, TypeInv
<1>4. ASSUME misuses' = 0, NEW b \in Blocks, b <= nblocks', Unterminated(b)'
      PROVE  \E x \in builders' : block'[x] = b
  <2>1. CASE nblocks < b
    BY <1>4, <2>1
  <2>2. CASE b <= nblocks
    <3>1. TermCount(b) \in Nat /\ TermCount(b)' = 0
      BY <1>3, <1>4 DEF Counted
    <3>2. TermCount(b) = 0 /\ ~(b = block[a] /\ w = 1)
      BY <3>1 DEF Writes
    <3>3. misuses = 0
      BY <1>1, <1>4 DEF CountMisuse
    <3>4. Unterminated(b)
      BY <1>3, <3>2 DEF Counted
    <3>5. PICK x \in builders : block[x] = b
      BY <1>1, <2>2, <3>3, <3>4 DEF Inv, ClosureInv, BlocksClosed, Blocks
    <3>6. x \in builders' /\ block'[x] = b
      BY <1>4, <3>2, <3>5
    <3> QED
      BY <3>6
  <2> QED
    BY <1>1, <2>1, <2>2 DEF Blocks
<1>5. BlocksClosed'
  BY <1>1, <1>2, <1>4 DEF BlocksClosed, Blocks
<1> QED
  BY <1>2, <1>5 DEF ClosureInv

LEMMA ClosureNewFunction ==
  ASSUME Inv, NEW f \in Functions, NEW c \in Builders, NewFunction(f, c)
  PROVE  ClosureInv'
<1>1. /\ nblocks \in Nat /\ MaxBlocks \in Nat /\ nblocks + 1 \in Blocks
      /\ nblocks' = nblocks + 1 /\ terms' = terms /\ open' = open /\ misuses' = misuses
      /\ builders' = builders \cup {c} /\ block' = [block EXCEPT ![c] = nblocks + 1]
      /\ kind[c] = "free"
  BY ConstantsAssumption DEF Inv, TypeInv, TypeOK, NewFunction, Construct, ghostVars
<1>2. c \notin builders /\ builders \subseteq Builders
  BY <1>1 DEF Inv, RegistryInv, RegistryExact, Live
<1>3. /\ \A b \in Blocks : b > nblocks' => terms'[b] = <<>> /\ open'[b]
      /\ \A b \in Blocks : ~open'[b] => terms'[b] # <<>>
  BY <1>1 DEF Inv, ClosureInv, Blocks
<1>4. terms[nblocks + 1] = <<>>
  BY <1>1 DEF Inv, ClosureInv
<1>5. block'[c] = nblocks + 1 /\ \A x \in builders : x \in builders' /\ block'[x] = block[x]
  BY <1>1, <1>2 DEF Inv, TypeInv, TypeOK
<1>6. \A b : (Malformed(b)' <=> Malformed(b)) /\ (Unterminated(b)' <=> Unterminated(b))
  BY <1>1 DEF Malformed, Unterminated
<1>7. ~Malformed(nblocks + 1)
  BY <1>4 DEF Malformed
<1>8. MisuseIsCaught'
  BY <1>1, <1>6 DEF Inv, ClosureInv, MisuseIsCaught
<1>9. BlocksClosed'
  <2> SUFFICES ASSUME misuses = 0, NEW b \in 1..(nblocks + 1)
               PROVE  /\ ~Malformed(b)
                      /\ Unterminated(b) => \E x \in builders' : block'[x] = b
    BY <1>1, <1>6 DEF BlocksClosed
  <2>1. CASE b = nblocks + 1
    BY <1>1, <1>5, <1>7, <2>1
  <2>2. CASE b # nblocks + 1
    <3>1. b \in 1..nblocks
      BY <1>1, <2>2
    <3>2. ~Malformed(b) /\ (Unterminated(b) => \E x \in builders : block[x] = b)
      BY <3>1 DEF Inv, ClosureInv, BlocksClosed
    <3> QED
      BY <1>5, <3>2
  <2> QED
    BY <2>1, <2>2
<1> QED
  BY <1>3, <1>8, <1>9 DEF ClosureInv

LEMMA ClosureEmit ==
  ASSUME Inv, TypeInv', NEW a \in Builders, NEW e \in Builders \cup {NoBuilder}, Emit(a, e)
  PROVE  ClosureInv'
<1>1. /\ a \in Live /\ e \in Live \cup {NoBuilder} /\ CountMisuse(a, e)
      /\ terms' = terms /\ open' = [ReadInto(open, e) EXCEPT ![block[a]] = TRUE]
      /\ nblocks' = nblocks /\ builders' = builders /\ block' = block
  BY DEF Emit, scriptVars, builderVars
<1>2. nblocks \in Nat
  BY DEF Inv, TypeInv, TypeOK
<1>3. block[a] \in Blocks
  BY <1>1, LiveBlock DEF Inv
<1>4. \A b \in Blocks : TermCount(b)' = TermCount(b) + 0
  BY <1>1, SeqLength DEF TermCount, Inv, TypeInv, TypeOK
<1>5. \A b \in Blocks : open'[b] <=> IF b = block[a] THEN TRUE
                                     ELSE open[b] \/ (e # NoBuilder /\ b = block[e])
  BY <1>1, <1>3, ReadIntoEffect DEF Inv
<1>6. Writes(a, e, 0)
  BY <1>4, <1>5 DEF Writes
<1> QED
  BY <1>1, <1>2, <1>6, ClosureKept DEF Blocks

LEMMA ClosureReturnValue ==
  ASSUME Inv, TypeInv', NEW a \in Builders, NEW e \in Builders \cup {NoBuilder},
         ReturnValue(a, e)
  PROVE  ClosureInv'
<1>1. /\ a \in Live /\ e \in Live \cup {NoBuilder} /\ CountMisuse(a, e)
      /\ terms' = [terms EXCEPT ![block[a]] = Append(@, Ret)]
      /\ open' = [ReadInto(open, e) EXCEPT ![block[a]] = FALSE]
      /\ nblocks' = nblocks /\ builders' = builders /\ block' = block
  BY DEF ReturnValue, scriptVars, builderVars
<1>2. nblocks \in Nat /\ terms \in [Blocks -> Seq(Terminators)] /\ Ret \in Terminators
  BY TerminatorTypes DEF Inv, TypeInv, TypeOK
<1>3. Writes(a, e, 1)
  BY <1>1, <1>2, AppendWrites DEF Inv
<1> QED
  BY <1>1, <1>2, <1>3, ClosureKept DEF Blocks

LEMMA ClosureIfStatement ==
  ASSUME Inv, TypeInv', NEW a \in Builders, NEW e \in Builders \cup {NoBuilder},
         NEW c \in Builders, IfStatement(a, e, c)
  PROVE  ClosureInv'
<1> DEFINE exit == nblocks + 1
           true == nblocks + 2
<1>1. /\ a \in Live /\ e \in Live \cup {NoBuilder} /\ CountMisuse(a, e)
      /\ terms' = [terms EXCEPT ![block[a]] = Append(@, CondBr(true, exit))]
      /\ open' = [ReadInto(open, e) EXCEPT ![block[a]] = FALSE]
      /\ nblocks' = true /\ builders' = builders \cup {c} /\ kind[c] = "free"
      /\ block' = [block EXCEPT ![a] = exit, ![c] = true]
  BY DEF IfStatement, Construct
<1>2. nblocks \in Nat /\ exit \in Blocks /\ true \in Blocks /\ misuses \in Nat
  BY ConstantsAssumption DEF IfStatement, Blocks, Inv, TypeInv, TypeOK
<1>3. terms \in [Blocks -> Seq(Terminators)] /\ CondBr(true, exit) \in Terminators
  BY <1>2, TerminatorTypes DEF Inv, TypeInv, TypeOK
<1> HIDE DEF exit, true
<1>4. Writes(a, e, 1)
  BY <1>1, <1>3, AppendWrites DEF Inv
<1>5. \A x \in Builders : block'[x] = IF x = c THEN true ELSE IF x = a THEN exit ELSE block[x]
  <2>1. block \in [Builders -> Blocks \cup {NoBlock}]
    BY DEF Inv, TypeInv, TypeOK
  <2>2. block' = [block EXCEPT ![a] = exit, ![c] = true]
    BY <1>1
  <2> QED
    BY <1>2, <2>1, <2>2, TwoUpdates
<1>6. a # c /\ c \notin builders /\ builders \subseteq Builders
  BY <1>1 DEF Inv, RegistryInv, RegistryExact, Live
<1>7. misuses' = 0 => a \in builders
  BY <1>1, <1>2, OpenIsRegistered DEF CountMisuse, IsActive
<1>8. nblocks' >= nblocks /\ \A b \in Blocks : nblocks < b /\ b <= nblocks' => b = exit \/ b = true
  BY <1>1, <1>2 DEF exit, true, Blocks
<1> QED
  BY <1>1, <1>4, <1>5, <1>6, <1>7, <1>8, ClosureKept

LEMMA ClosureElseStatement ==
  ASSUME Inv, TypeInv', NEW a \in Builders, NEW c \in Builders, ElseStatement(a, c)
  PROVE  ClosureInv'
<1> DEFINE final == finalBlock[a]
           else  == nblocks + 1
           ts    == ReplaceUses(terms, final, else)
<1>1. /\ kind[a] = "if" /\ kind[c] = "free" /\ CountMisuse(a, NoBuilder)
      /\ terms' = [ts EXCEPT ![block[a]] = Append(@, Br(final))]
      /\ open' = [open EXCEPT ![block[a]] = FALSE]
      /\ nblocks' = else /\ builders' = builders \cup {c}
      /\ block' = [block EXCEPT ![c] = else]
  BY DEF ElseStatement, Construct
<1>2. a \in Live
  BY <1>1 DEF Live
<1>3. nblocks \in Nat /\ else \in Blocks /\ final \in Blocks
  BY <1>1, ConstantsAssumption DEF ElseStatement, Inv, TypeInv, TypeOK, Placed, NoBlock
<1>4. /\ ts \in [Blocks -> Seq(Terminators)]
      /\ \A b \in Blocks : Len(ts[b]) = Len(terms[b])
  BY <1>3, ReplaceUsesType DEF Inv, TypeInv, TypeOK
<1>5. Br(final) \in Terminators
  BY <1>3, TerminatorTypes
<1>6. open' = [ReadInto(open, NoBuilder) EXCEPT ![block[a]] = FALSE]
  BY <1>1 DEF ReadInto
<1>7. nblocks' >= nblocks /\ \A b \in Blocks : nblocks < b /\ b <= nblocks' => b = else
  BY <1>1, <1>3 DEF Blocks
<1>8. c \notin builders /\ builders \subseteq Builders
  BY <1>1 DEF Inv, RegistryInv, RegistryExact, Live
<1> HIDE DEF final, else, ts
<1>9. Writes(a, NoBuilder, 1)
  BY <1>1, <1>2, <1>4, <1>5, <1>6, AppendWrites DEF Inv
<1>10. block'[c] = else /\ \A x \in builders : block'[x] = block[x]
  BY <1>1, <1>8 DEF Inv, TypeInv, TypeOK
<1> QED
  BY <1>1, <1>2, <1>7, <1>9, <1>10, ClosureKept

\* Finalising registered builders closes every open block of theirs.
LEMMA ClosureFinalise ==
  ASSUME Inv, TypeInv', NEW S \in SUBSET Builders, FinaliseEach(S), S \subseteq Live,
         nblocks' = nblocks, misuses' = misuses,
         \A x \in builders' : block'[x] = block[x]
  PROVE  ClosureInv'
<1>1. Finalises(S)
  BY FinaliseEachEffect DEF Inv
<1>2. /\ \A b \in Blocks : Counted(b)
      /\ \A b \in Blocks : Counted(b)'
  BY BlocksCounted, BlocksCountedNext DEF Inv, TypeInv
<1>3. nblocks \in Nat /\ nblocks <= MaxBlocks /\ MaxBlocks \in Nat /\ 1..nblocks \subseteq Blocks
  BY ConstantsAssumption DEF Inv, TypeInv, TypeOK, Blocks
<1>4. \A b \in Blocks : b > nblocks' => terms'[b] = <<>> /\ open'[b]
  <2> SUFFICES ASSUME NEW b \in Blocks, b > nblocks
               PROVE  TermCount(b)' = 0 /\ open'[b]
    BY <1>2 DEF Counted
  <2>1. TermCount(b) = 0 /\ open[b]
    BY <1>2 DEF Counted, Inv, ClosureInv
  <2>2. \A x \in S : block[x] # b
    BY <1>3, LiveBlock DEF Inv, Blocks
  <2> QED
    BY <1>1, <2>1, <2>2 DEF Finalises
<1>5. \A b \in Blocks : ~open'[b] => terms'[b] # <<>>
  <2> SUFFICES ASSUME NEW b \in Blocks, ~open'[b] PROVE TermCount(b)' # 0
    BY <1>2 DEF Counted
  <2>1. TermCount(b) \in Nat /\ (~open[b] => TermCount(b) # 0)
    BY <1>2 DEF Counted, Inv, ClosureInv
  <2> QED
    BY <1>1, <2>1 DEF Finalises
<1>6. MisuseIsCaught'
  <2> SUFFICES ASSUME misuses > 0 PROVE \E b \in 1..nblocks : Malformed(b)'
    BY DEF MisuseIsCaught
  <2>1. PICK b \in 1..nblocks : Malformed(b)
    BY DEF Inv, ClosureInv, MisuseIsCaught
  <2>2. TermCount(b) \in Nat /\ (TermCount(b) > 1 \/ (TermCount(b) = 1 /\ open[b]))
    BY <1>2, <1>3, <2>1 DEF Counted
  <2>3. TermCount(b)' > 1 \/ (TermCount(b)' = 1 /\ open'[b])
    BY <1>1, <1>3, <2>2 DEF Finalises
  <2>4. Malformed(b)'
    BY <1>2, <1>3, <2>3 DEF Counted
  <2> QED
    BY <2>4
<1>7. BlocksClosed'
  <2> SUFFICES ASSUME misuses = 0, NEW b \in 1..nblocks
               PROVE  /\ ~Malformed(b)'
                      /\ Unterminated(b)' => \E x \in builders' : block'[x] = b
    BY DEF BlocksClosed
  <2>1. b \in Blocks /\ TermCount(b) \in Nat
    BY <1>2, <1>3 DEF Counted
  <2>2. ~(TermCount(b) > 1) /\ (TermCount(b) = 1 => ~open[b])
    BY <1>2, <2>1 DEF Counted, Inv, ClosureInv, BlocksClosed
  <2>3. TermCount(b) = 0 => open[b] /\ \E x \in builders : block[x] = b
    BY <1>2, <2>1 DEF Counted, Inv, ClosureInv, BlocksClosed
  <2>4. ~(TermCount(b)' > 1) /\ (TermCount(b)' = 1 => ~open'[b])
    BY <1>1, <2>1, <2>2, <2>3 DEF Finalises
  <2>5. ASSUME TermCount(b)' = 0 PROVE \E x \in builders' : block'[x] = b
    <3>1. TermCount(b) = 0 /\ ~\E x \in S : ~finaliseCalled[x] /\ block[x] = b
      BY <1>1, <2>1, <2>3, <2>5 DEF Finalises
    <3>2. PICK x \in builders : block[x] = b
      BY <2>3, <3>1
    <3>3. x \in builders'
      BY <3>1, <3>2 DEF FinaliseEach
    <3> QED
      BY <3>2, <3>3
  <2> QED
    BY <1>2, <2>1, <2>4, <2>5 DEF Counted
<1> QED
  BY <1>4, <1>5, <1>6, <1>7 DEF ClosureInv

LEMMA ClosureNext == Inv /\ TypeInv' /\ [Next]_vars => ClosureInv'
<1> SUFFICES ASSUME Inv, TypeInv', [Next]_vars PROVE ClosureInv'
  OBVIOUS
<1>1. ASSUME NEW a \in Builders, Finalise(a)
      PROVE  ClosureInv'
  BY <1>1, ClosureFinalise DEF Finalise, ghostVars
<1>2. ASSUME NEW a \in Builders, Destroy(a)
      PROVE  ClosureInv'
  <2>1. {a} \subseteq Live /\ FinaliseEach({a}) /\ nblocks' = nblocks /\ misuses' = misuses
    BY <1>2 DEF Destroy, ghostVars
  <2>2. \A x \in builders' : block'[x] = block[x]
    <3>1. a \notin builders'
      BY <1>2 DEF Destroy, FinaliseEach, Inv, RegistryInv, RegistryExact
    <3>2. builders' \subseteq Builders
      BY DEF TypeInv, TypeOK
    <3> QED
      BY <1>2, <3>1, <3>2 DEF Destroy, Inv, TypeInv, TypeOK
  <2> QED
    BY <2>1, <2>2, ClosureFinalise
<1>3. CASE ScriptFinalise \/ DestroyScript
  <2>1. builders \subseteq Live
    BY DEF Inv, RegistryInv, RegistryExact
  <2> QED
    BY <1>3, <2>1, ClosureFinalise DEF ScriptFinalise, DestroyScript, ghostVars, Live
<1>4. CASE UNCHANGED vars
  BY <1>4 DEF vars, scriptVars, builderVars, moduleVars, ghostVars, Inv, ClosureInv,
              BlocksClosed, MisuseIsCaught, Malformed, Unterminated
<1> QED
  BY <1>1, <1>2, <1>3, <1>4, ClosureNewFunction, ClosureEmit, ClosureReturnValue,
     ClosureIfStatement, ClosureElseStatement DEF Next

LEMMA InvInductive == Spec => []Inv
<1>1. Init => Inv
  BY TypeInvInit, RegistryInit, OwnershipInit, ClosureInit DEF Inv
<1>2. Inv /\ [Next]_vars => Inv'
  BY TypeInvNext, RegistryNext, OwnershipNext, ClosureNext DEF Inv
<1> QED
  BY <1>1, <1>2, PTL DEF Spec

\* If no call wrote behind a terminator, every block is properly ended or has a
\* registered builder that will end it: closing or destroying the ScriptBuilder
\* leaves no block that the verifier would refuse for its ending.
THEOREM BlocksAreClosed == Spec => []BlocksClosed
<1>1. Inv => BlocksClosed
  BY DEF Inv, ClosureInv
<1> QED
  BY <1>1, InvInductive, PTL

\* A call that writes behind a terminator, which requireIsActive would have
\* refused, breaks the module for good: no later call mends it, so makeScript
\* never hands out a script built that way.
THEOREM MisuseIsAlwaysCaught == Spec => []MisuseIsCaught
<1>1. Inv => MisuseIsCaught
  BY DEF Inv, ClosureInv
<1> QED
  BY <1>1, InvInductive, PTL

-----------------------------------------------------------------------------
(* The refinement.                                                           *)

\* If statements that may still get an else.
Pending == {a \in Live : kind[a] = "if" /\ open[block[a]]}

-----------------------------------------------------------------------------
(* The shape of the control flow as long as nothing was misused.             *)

\* A builder's final block is where the region of its block goes on.
FinalsAgree == \A a \in Live : region[block[a]] = finalBlock[a]

\* Nothing refers to a block that does not exist.
Bounded ==
  /\ \A b \in Blocks : head[b] \in 0..nblocks /\ region[b] \in 0..nblocks
  /\ \A b \in Blocks : Targets(b) \subseteq 1..nblocks
  /\ \A b \in Blocks : b > nblocks => head[b] = NoBlock /\ region[b] = NoBlock

\* Only the condition of a pending if leads to its exit block, and no other
\* builder will.
Skippable(a) ==
  /\ head[finalBlock[a]] \in 1..nblocks
  /\ \A b \in Blocks : finalBlock[a] \in Targets(b) <=> b = head[finalBlock[a]]
  /\ \A c \in Live : finalBlock[c] = finalBlock[a] => c = a

Flow ==
  /\ FinalsAgree
  /\ Bounded
  /\ \A a \in Pending : Skippable(a)
  /\ \A b \in Blocks : head[b] # NoBlock => region[head[b]] # b
  /\ \A b \in Blocks : head[b] # NoBlock => b \in Targets(head[b])
  /\ \A b \in Blocks : \A v \in Targets(b) : head[v] = b \/ region[b] = v

FlowInv == Sound => Flow

-----------------------------------------------------------------------------
(* What the calls do to the branches.                                        *)

Ended(b) == terms[b] # <<>>

\* While nothing was misused, a block is open until it has its terminator.
LEMMA SoundEnds ==
  ASSUME Inv, Sound
  PROVE  \A b \in Blocks : (open[b] <=> ~Ended(b)) /\ (open[b] => Targets(b) = {})
<1> SUFFICES ASSUME NEW b \in Blocks PROVE open[b] <=> ~Ended(b)
  BY DEF Targets, Ended
<1>1. nblocks \in Nat /\ open[b] \in BOOLEAN
  BY ConstantsAssumption DEF Inv, TypeInv, TypeOK
<1>2. CASE b > nblocks
  BY <1>2 DEF Inv, ClosureInv, Ended
<1>3. CASE b <= nblocks
  <2>1. ~Malformed(b) /\ (~open[b] => terms[b] # <<>>)
    BY <1>1, <1>3 DEF Inv, ClosureInv, BlocksClosed, Sound, Blocks
  <2> QED
    BY <1>1, <2>1 DEF Malformed, Ended
<1> QED
  BY <1>1, <1>2, <1>3 DEF Blocks

LEMMA OneTerminator ==
  ASSUME NEW s \in Seq(Terminators), s = <<>>, NEW t \in Terminators
  PROVE  Append(s, t) # <<>> /\ Append(s, t)[1] = t
OBVIOUS

\* A block that gets its first terminator branches where that one says.
LEMMA AppendTargets ==
  ASSUME Inv, NEW p \in Blocks, terms[p] = <<>>, NEW t \in Terminators,
         terms' = [terms EXCEPT ![p] = Append(@, t)]
  PROVE  \A b \in Blocks :
           /\ Targets(b)' = IF b = p THEN {t.onTrue, t.onFalse} \ {NoBlock} ELSE Targets(b)
           /\ Ended(b)' <=> Ended(b) \/ b = p
<1>1. terms \in [Blocks -> Seq(Terminators)]
  BY DEF Inv, TypeInv, TypeOK
<1>2. terms'[p] # <<>> /\ terms'[p][1] = t
  BY <1>1, OneTerminator
<1>3. \A b \in Blocks : b # p => terms'[b] = terms[b]
  BY <1>1
<1> QED
  BY <1>2, <1>3 DEF Targets, Ended

\* Redirecting branches.
LEMMA ReplaceTargets ==
  ASSUME Inv, NEW old \in Blocks, NEW new \in Blocks, NEW b \in Blocks
  PROVE  LET ts == ReplaceUses(terms, old, new)[b] IN
         /\ ts # <<>> <=> Ended(b)
         /\ ts # <<>> => {ts[1].onTrue, ts[1].onFalse} \ {NoBlock}
                         = {IF v = old THEN new ELSE v : v \in Targets(b)}
<1> DEFINE ts == ReplaceUses(terms, old, new)[b]
<1>1. terms \in [Blocks -> Seq(Terminators)]
  BY DEF Inv, TypeInv, TypeOK
<1>2. ts = [i \in DOMAIN terms[b] |-> Retarget(terms[b][i], old, new)]
  BY DEF ReplaceUses
<1>3. ts \in Seq(Terminators) /\ Len(ts) = Len(terms[b]) /\ terms[b] \in Seq(Terminators)
  <2>1. /\ ReplaceUses(terms, old, new) \in [Blocks -> Seq(Terminators)]
        /\ \A x \in Blocks : Len(ReplaceUses(terms, old, new)[x]) = Len(terms[x])
    BY <1>1, ReplaceUsesType
  <2> QED
    BY <1>1, <2>1
<1>4. (ts = <<>> <=> Len(ts) = 0) /\ (terms[b] = <<>> <=> Len(terms[b]) = 0)
  <2> HIDE DEF ts
  <2> QED
    BY <1>3, SeqLength
<1>5. ts # <<>> <=> Ended(b)
  <2> HIDE DEF ts
  <2> QED
    BY <1>3, <1>4 DEF Ended
<1>6. ASSUME Ended(b)
      PROVE  {ts[1].onTrue, ts[1].onFalse} \ {NoBlock}
             = {IF v = old THEN new ELSE v : v \in Targets(b)}
  <2>1. 1 \in DOMAIN terms[b]
    BY <1>3, <1>6 DEF Ended
  <2>2. ts[1] = Retarget(terms[b][1], old, new)
    BY <1>2, <2>1
  <2>3. terms[b][1] \in Terminators
    BY <1>3, <2>1
  <2> DEFINE t == terms[b][1]
  <2>4. /\ ts[1].onTrue = IF t.onTrue = old THEN new ELSE t.onTrue
        /\ ts[1].onFalse = IF t.onFalse = old THEN new ELSE t.onFalse
    BY <2>2, <2>3 DEF Retarget, Terminators
  <2>5. old # NoBlock /\ new # NoBlock
    BY DEF Blocks, NoBlock
  <2>6. Targets(b) = {t.onTrue, t.onFalse} \ {NoBlock}
    BY <1>6 DEF Targets, Ended
  <2> HIDE DEF ts, t
  <2> QED
    BY <2>4, <2>5, <2>6
<1> QED
  BY <1>5, <1>6

\* elseStatement: the branches to the exit block go to the else block, the arm
\* of the if is closed.
LEMMA ElseTargets ==
  ASSUME Inv, NEW old \in Blocks, NEW new \in Blocks, NEW p \in Blocks, terms[p] = <<>>,
         terms' = [ReplaceUses(terms, old, new) EXCEPT ![p] = Append(@, Br(old))]
  PROVE  \A b \in Blocks :
           /\ Targets(b)' = IF b = p THEN {old}
                            ELSE {IF v = old THEN new ELSE v : v \in Targets(b)}
           /\ Ended(b)' <=> Ended(b) \/ b = p
<1> DEFINE ts == ReplaceUses(terms, old, new)
<1>1. ts \in [Blocks -> Seq(Terminators)] /\ Br(old) \in Terminators
  BY ReplaceUsesType, TerminatorTypes DEF Inv, TypeInv, TypeOK
<1>2. \A b \in Blocks :
        /\ ts[b] # <<>> <=> Ended(b)
        /\ ts[b] # <<>> => {ts[b][1].onTrue, ts[b][1].onFalse} \ {NoBlock}
                           = {IF v = old THEN new ELSE v : v \in Targets(b)}
  BY ReplaceTargets
<1>3. terms' = [ts EXCEPT ![p] = Append(@, Br(old))]
  OBVIOUS
<1> HIDE DEF ts
<1>4. terms'[p] # <<>> /\ terms'[p][1] = Br(old)
  <2>1. ts[p] = <<>>
    BY <1>2 DEF Ended
  <2>2. terms'[p] = Append(ts[p], Br(old))
    BY <1>1, <1>3
  <2>3. ts[p] \in Seq(Terminators)
    BY <1>1
  <2>4. Append(ts[p], Br(old)) # <<>> /\ Append(ts[p], Br(old))[1] = Br(old)
    BY <1>1, <2>1, <2>3, OneTerminator
  <2> QED
    BY <2>2, <2>4
<1>5. \A b \in Blocks : b # p => terms'[b] = ts[b]
  BY <1>1, <1>3
<1>6. Targets(p)' = {old} /\ Ended(p)'
  BY <1>4 DEF Targets, Ended, Br, Blocks, NoBlock
<1>7. \A b \in Blocks : ~Ended(b) => Targets(b) = {}
  BY DEF Ended, Targets
<1>8. ASSUME NEW b \in Blocks, b # p
      PROVE  /\ Ended(b)' <=> Ended(b)
             /\ Targets(b)' = {IF v = old THEN new ELSE v : v \in Targets(b)}
  <2>1. Ended(b)' <=> Ended(b)
    BY <1>2, <1>5, <1>8 DEF Ended
  <2>2. CASE Ended(b)
    BY <2>2, <2>1, <1>2, <1>5, <1>8 DEF Targets, Ended
  <2>3. CASE ~Ended(b)
    <3>1. Targets(b)' = {}
      BY <2>1, <2>3 DEF Targets, Ended
    <3> QED
      BY <3>1, <2>1, <2>3, <1>7
  <2> QED
    BY <2>1, <2>2, <2>3
<1> QED
  BY <1>6, <1>8

\* Finalising leads every open block of the builders to its region's end.
Closes(S, b) == open[b] /\ \E a \in S : ~finaliseCalled[a] /\ block[a] = b

LEMMA FinaliseTargets ==
  ASSUME Inv, Sound, FinalsAgree, NEW S \in SUBSET Builders, S \subseteq Live, FinaliseEach(S)
  PROVE  \A b \in Blocks :
           /\ Targets(b)' = IF Closes(S, b) THEN {region[b]} \ {NoBlock} ELSE Targets(b)
           /\ Ended(b)' <=> Ended(b) \/ Closes(S, b)
           /\ open'[b] <=> open[b] /\ ~Closes(S, b)
<1> SUFFICES ASSUME NEW b \in Blocks
             PROVE  /\ Targets(b)' = IF Closes(S, b) THEN {region[b]} \ {NoBlock} ELSE Targets(b)
                    /\ Ended(b)' <=> Ended(b) \/ Closes(S, b)
                    /\ open'[b] <=> open[b] /\ ~Closes(S, b)
  OBVIOUS
<1> DEFINE todo == {a \in S : ~finaliseCalled[a]}
           closes == open[b] /\ \E a \in todo : block[a] = b
           owner == CHOOSE a \in todo : block[a] = b
<1>1. closes <=> Closes(S, b)
  BY DEF Closes
<1>2. open'[b] <=> open[b] /\ ~closes
  BY DEF FinaliseEach
<1>3. terms'[b] = IF closes THEN Append(terms[b], Closing(owner)) ELSE terms[b]
  BY DEF FinaliseEach
<1>4. terms[b] \in Seq(Terminators)
  BY DEF Inv, TypeInv, TypeOK
<1>5. ASSUME closes PROVE Targets(b)' = {region[b]} \ {NoBlock} /\ Ended(b)'
  <2>1. owner \in S /\ block[owner] = b
    BY <1>5
  <2>2. Closing(owner) \in Terminators
    BY <2>1, ClosingType DEF Inv, TypeInv
  <2>3. region[b] = finalBlock[owner]
    BY <2>1 DEF FinalsAgree
  <2> HIDE DEF owner
  <2>4. terms[b] = <<>>
    BY <1>5, SoundEnds DEF Ended
  <2>5. terms'[b] # <<>> /\ terms'[b][1] = Closing(owner)
    BY <1>3, <1>4, <1>5, <2>2, <2>4, OneTerminator
  <2>6. {Closing(owner).onTrue, Closing(owner).onFalse} \ {NoBlock} = {finalBlock[owner]} \ {NoBlock}
    BY DEF Closing, RetVoid, Br
  <2> QED
    BY <2>3, <2>5, <2>6 DEF Targets, Ended
<1>6. ASSUME ~closes PROVE Targets(b)' = Targets(b) /\ (Ended(b)' <=> Ended(b))
  BY <1>3, <1>6 DEF Targets, Ended
<1> HIDE DEF closes
<1> QED
  BY <1>1, <1>2, <1>5, <1>6

LEMMA Numbers ==
  ASSUME Inv
  PROVE  /\ nblocks \in Nat /\ MaxBlocks \in Nat /\ misuses \in Nat
         /\ 1..nblocks \subseteq Blocks /\ NoBlock \notin Blocks /\ nblocks <= MaxBlocks
         /\ \A a \in Live : block[a] \in 1..nblocks
BY ConstantsAssumption, LiveBlock DEF Inv, TypeInv, TypeOK, Blocks, NoBlock

-----------------------------------------------------------------------------
(* Flow is kept by every call that is no misuse.                             *)
LEMMA FlowInit == Init => Flow
<1> SUFFICES ASSUME Init PROVE Flow
  OBVIOUS
<1>1. \A b \in Blocks : head[b] = NoBlock /\ region[b] = NoBlock /\ Targets(b) = {}
  BY DEF Init, Targets
<1>2. Live = {} /\ nblocks = 0
  BY DEF Init, Live
<1> QED
  BY <1>1, <1>2 DEF Flow, FinalsAgree, Bounded, Pending, NoBlock

\* Calls that neither redirect a branch nor move a builder.
LEMMA FlowQuiet ==
  ASSUME Inv, Flow, UNCHANGED <<kind, block, finalBlock, head, region, nblocks>>,
         \A b \in Blocks : Targets(b)' = Targets(b) /\ (open'[b] => open[b])
  PROVE  Flow'
<1>1. Live' = Live
  BY DEF Live
<1>2. Pending' \subseteq Pending
  BY <1>1, LiveBlock DEF Pending, Inv
<1>3. \A a \in Pending' : Skippable(a)'
  BY <1>1, <1>2 DEF Flow, Skippable
<1>4. FinalsAgree' /\ Bounded'
  BY <1>1 DEF Flow, FinalsAgree, Bounded
<1>5. \A b \in Blocks : head[b] # NoBlock => head[b] \in Blocks
  BY DEF Inv, TypeInv, TypeOK
<1> QED
  BY <1>3, <1>4, <1>5 DEF Flow

LEMMA FlowNewFunction ==
  ASSUME Inv, Flow, NEW f \in Functions, NEW c \in Builders, NewFunction(f, c)
  PROVE  Flow'
<1>1. /\ kind[c] = "free" /\ nblocks' = nblocks + 1 /\ nblocks + 1 \in Blocks
      /\ kind' = [kind EXCEPT ![c] = "function"]
      /\ block' = [block EXCEPT ![c] = nblocks + 1]
      /\ finalBlock' = [finalBlock EXCEPT ![c] = NoBlock]
      /\ terms' = terms /\ open' = open /\ head' = head /\ region' = region
      /\ nblocks \in Nat
  BY ConstantsAssumption DEF NewFunction, Construct, ghostVars, Inv, TypeInv, TypeOK
<1>2. \A b : Targets(b)' = Targets(b)
  BY <1>1 DEF Targets
<1>3. /\ \A x \in Builders : x \in Live' <=> x \in Live \/ x = c
      /\ \A x \in Live : x # c /\ block'[x] = block[x] /\ finalBlock'[x] = finalBlock[x] /\ kind'[x] = kind[x]
      /\ block'[c] = nblocks + 1 /\ finalBlock'[c] = NoBlock /\ kind'[c] = "function"
  BY <1>1 DEF Inv, TypeInv, TypeOK, Live
<1>4. FinalsAgree'
  <2>1. region[nblocks + 1] = NoBlock
    BY <1>1 DEF Flow, Bounded
  <2> QED
    BY <1>1, <1>3, <2>1 DEF Flow, FinalsAgree, Live
<1>5. Bounded'
  BY <1>1, <1>2 DEF Flow, Bounded, Blocks
<1>6. ASSUME NEW x \in Pending' PROVE Skippable(x)'
  <2>1. x \in Builders /\ x \in Live' /\ kind'[x] = "if" /\ open'[block'[x]]
    BY <1>6 DEF Pending, Live
  <2>2. x \in Pending /\ finalBlock'[x] = finalBlock[x]
    BY <1>1, <1>3, <2>1 DEF Pending
  <2>3. finalBlock[x] # NoBlock
    BY <2>1, <2>2 DEF Pending, Inv, TypeInv, Placed
  <2>4. Skippable(x)
    BY <2>2 DEF Flow
  <2>5. \A y \in Live' : y \in Builders
    BY DEF Live
  <2> QED
    BY <1>1, <1>2, <1>3, <2>2, <2>3, <2>4, <2>5 DEF Skippable
<1> QED
  BY <1>1, <1>2, <1>4, <1>5, <1>6 DEF Flow

\* Finalising and destroying builders, one or all of them.
LEMMA FlowFinalise ==
  ASSUME Inv, Sound, Flow, NEW S \in SUBSET Builders, S \subseteq Live, FinaliseEach(S),
         UNCHANGED <<head, region, nblocks>>,
         \A x \in Live' : /\ x \in Live /\ kind'[x] = kind[x]
                          /\ block'[x] = block[x] /\ finalBlock'[x] = finalBlock[x]
  PROVE  Flow'
<1>1. \A b \in Blocks :
        /\ Targets(b)' = IF Closes(S, b) THEN {region[b]} \ {NoBlock} ELSE Targets(b)
        /\ Ended(b)' <=> Ended(b) \/ Closes(S, b)
        /\ open'[b] <=> open[b] /\ ~Closes(S, b)
  BY FinaliseTargets DEF Flow
<1>2. \A b \in Blocks : open[b] => Targets(b) = {}
  BY SoundEnds
<1>3. \A b \in Blocks : head[b] # NoBlock => head[b] \in Blocks
  BY DEF Inv, TypeInv, TypeOK
<1>4. \A b \in Blocks : Targets(b) \subseteq Targets(b)'
  BY <1>1, <1>2 DEF Closes
<1>5. FinalsAgree'
  BY DEF Flow, FinalsAgree
<1>6. Bounded'
  <2>1. nblocks \in Nat
    BY DEF Inv, TypeInv, TypeOK
  <2>2. \A b \in Blocks : region[b] \in 0..nblocks /\ Targets(b) \subseteq 1..nblocks
    BY DEF Flow, Bounded
  <2>3. \A b \in Blocks : Targets(b)' \subseteq 1..nblocks
    BY <1>1, <2>1, <2>2 DEF NoBlock
  <2> QED
    BY <2>3 DEF Flow, Bounded
<1>7. ASSUME NEW x \in Pending' PROVE Skippable(x)'
  <2>1. x \in Live' /\ kind'[x] = "if" /\ open'[block'[x]]
    BY <1>7 DEF Pending
  <2>2. x \in Live /\ block[x] \in Blocks
    BY <2>1, LiveBlock DEF Inv
  <2>3. x \in Pending /\ ~Closes(S, block[x])
    BY <1>1, <2>1, <2>2 DEF Pending
  <2>4. Skippable(x)
    BY <2>3 DEF Flow
  <2>5. ASSUME NEW b \in Blocks, Closes(S, b) PROVE region[b] # finalBlock[x]
    <3>1. PICK y \in S : block[y] = b
      BY <2>5 DEF Closes
    <3>2. y \in Live /\ region[b] = finalBlock[y]
      BY <3>1 DEF Flow, FinalsAgree
    <3> QED
      BY <2>3, <2>4, <2>5, <3>1, <3>2 DEF Skippable
  <2>6. \A b \in Blocks : finalBlock[x] \in Targets(b)' <=> finalBlock[x] \in Targets(b)
    BY <1>1, <1>4, <2>5
  <2> QED
    BY <2>1, <2>4, <2>6 DEF Skippable
<1>8. \A b \in Blocks : \A v \in Targets(b)' : head[v] = b \/ region[b] = v
  BY <1>1 DEF Flow
<1> QED
  BY <1>3, <1>4, <1>5, <1>6, <1>7, <1>8 DEF Flow

\* What a call of ifStatement that is no misuse changes.
IfEffect(a, c) ==
  LET from == block[a]
      exit == nblocks + 1
      true == nblocks + 2
  IN
  /\ from \in 1..nblocks /\ exit \in Blocks /\ true \in Blocks
  /\ open[from] /\ terms[from] = <<>> /\ a # c /\ kind[c] = "free"
  /\ nblocks' = true
  /\ \A b \in Blocks :
       /\ Targets(b)' = IF b = from THEN {true, exit} ELSE Targets(b)
       /\ Ended(b)' <=> Ended(b) \/ b = from
       /\ open'[b] => open[b] /\ b # from
       /\ head'[b] = IF b \in {true, exit} THEN from ELSE head[b]
       /\ region'[b] = IF b = true THEN exit ELSE IF b = exit THEN region[from] ELSE region[b]
  /\ \A x \in Builders :
       /\ kind'[x] = IF x = c THEN "if" ELSE kind[x]
       /\ block'[x] = IF x = c THEN true ELSE IF x = a THEN exit ELSE block[x]
       /\ finalBlock'[x] = IF x = c THEN exit ELSE finalBlock[x]

LEMMA IfStatementEffect ==
  ASSUME Inv, Inv', Sound, Sound', NEW a \in Builders, NEW e \in Builders \cup {NoBuilder},
         NEW c \in Builders, IfStatement(a, e, c)
  PROVE  a \in Live /\ IfEffect(a, c)
<1> DEFINE from == block[a]
           exit == nblocks + 1
           true == nblocks + 2
<1>1. /\ a \in Live /\ e \in Live \cup {NoBuilder} /\ kind[c] = "free" /\ CountMisuse(a, e)
      /\ nblocks' = true /\ true \in Blocks
      /\ terms' = [terms EXCEPT ![from] = Append(@, CondBr(true, exit))]
      /\ open' = [ReadInto(open, e) EXCEPT ![from] = FALSE]
      /\ block' = [block EXCEPT ![a] = exit, ![c] = true]
      /\ kind' = [kind EXCEPT ![c] = "if"]
      /\ finalBlock' = [finalBlock EXCEPT ![c] = exit]
      /\ head' = [head EXCEPT ![exit] = from, ![true] = from]
      /\ region' = [region EXCEPT ![exit] = region[from], ![true] = exit]
  BY DEF IfStatement, Construct
<1>2. /\ nblocks \in Nat /\ MaxBlocks \in Nat /\ misuses \in Nat
      /\ exit \in Blocks /\ from \in Blocks /\ from \in 1..nblocks /\ a # c
      /\ from # exit /\ from # true /\ exit # true
  <2>1. /\ nblocks \in Nat /\ MaxBlocks \in Nat /\ misuses \in Nat
        /\ 1..nblocks \subseteq Blocks /\ from \in 1..nblocks
    BY <1>1, Numbers
  <2>2. exit \in Blocks
    BY <1>1, <2>1 DEF Blocks
  <2> QED
    BY <1>1, <2>1, <2>2 DEF Live
<1>3. open[from] /\ (e # NoBuilder => open[block[e]])
  BY <1>1, <1>2 DEF Sound, CountMisuse, IsActive
<1>4. terms[from] = <<>>
  BY <1>2, <1>3, SoundEnds DEF Ended
<1>5. CondBr(true, exit) \in Terminators
        /\ {CondBr(true, exit).onTrue, CondBr(true, exit).onFalse} \ {NoBlock} = {true, exit}
  <2>1. CondBr(true, exit) \in Terminators
    BY <1>1, <1>2, TerminatorTypes
  <2> QED
    BY <1>1, <1>2, <2>1 DEF CondBr, Blocks, NoBlock
<1>6. \A b \in Blocks : open'[b] => open[b] /\ b # from
  <2>1. /\ ReadInto(open, e) \in [Blocks -> BOOLEAN]
        /\ \A b \in Blocks : ReadInto(open, e)[b] <=>
                               open[b] \/ (e # NoBuilder /\ b = block[e])
    BY <1>1, ReadIntoEffect DEF Inv
  <2> QED
    BY <1>1, <1>2, <1>3, <2>1
<1> HIDE DEF from, exit, true
<1>7. \A b \in Blocks :
        /\ Targets(b)' = IF b = from THEN {true, exit} ELSE Targets(b)
        /\ Ended(b)' <=> Ended(b) \/ b = from
  <2>1. terms' = [terms EXCEPT ![from] = Append(@, CondBr(true, exit))]
    BY <1>1
  <2>2. \A b \in Blocks :
          /\ Targets(b)' = IF b = from
                           THEN {CondBr(true, exit).onTrue, CondBr(true, exit).onFalse} \ {NoBlock}
                           ELSE Targets(b)
          /\ Ended(b)' <=> Ended(b) \/ b = from
    BY <1>2, <1>4, <1>5, <2>1, AppendTargets
  <2> QED
    BY <1>5, <2>2
<1>8. \A b \in Blocks : head'[b] = IF b \in {true, exit} THEN from ELSE head[b]
  <2>1. head \in [Blocks -> Blocks \cup {NoBlock}]
    BY DEF Inv, TypeInv, TypeOK
  <2> QED
    BY <1>1, <1>2, <2>1, TwoUpdates
<1>9. \A b \in Blocks :
        region'[b] = IF b = true THEN exit ELSE IF b = exit THEN region[from] ELSE region[b]
  <2>1. region \in [Blocks -> Blocks \cup {NoBlock}]
    BY DEF Inv, TypeInv, TypeOK
  <2> QED
    BY <1>1, <1>2, <2>1, TwoUpdates
<1>10. \A x \in Builders : block'[x] = IF x = c THEN true ELSE IF x = a THEN exit ELSE block[x]
  <2>1. block \in [Builders -> Blocks \cup {NoBlock}]
    BY DEF Inv, TypeInv, TypeOK
  <2> QED
    BY <1>1, <1>2, <2>1, TwoUpdates
<1>11. \A x \in Builders :
         /\ kind'[x] = IF x = c THEN "if" ELSE kind[x]
         /\ finalBlock'[x] = IF x = c THEN exit ELSE finalBlock[x]
  BY <1>1 DEF Inv, TypeInv, TypeOK
<1> QED
  BY <1>1, <1>2, <1>3, <1>4, <1>6, <1>7, <1>8, <1>9, <1>10, <1>11 DEF IfEffect, from, exit, true

LEMMA FlowIfStatement ==
  ASSUME Inv, Sound, Flow, NEW a \in Live, NEW c \in Builders, IfEffect(a, c)
  PROVE  Flow'
<1>a. PICK from, exit, true : from = block[a] /\ exit = nblocks + 1 /\ true = nblocks + 2
  OBVIOUS
<1>1. /\ from \in 1..nblocks /\ from \in Blocks /\ exit \in Blocks /\ true \in Blocks
      /\ open[from] /\ terms[from] = <<>> /\ a # c /\ kind[c] = "free" /\ nblocks' = true
      /\ nblocks \in Nat /\ 1..nblocks \subseteq Blocks
      /\ \A b \in Blocks : b \in 1..nblocks' <=> b \in 1..nblocks \/ b \in {true, exit}
      /\ exit \notin 0..nblocks /\ true \notin 0..nblocks /\ exit # true
      /\ 0..nblocks \subseteq 0..nblocks' /\ {true, exit, from} \subseteq 1..nblocks'
  <2>1. /\ nblocks \in Nat /\ 1..nblocks \subseteq Blocks
    BY Numbers
  <2> QED
    BY <1>a, <2>1 DEF IfEffect, Blocks
<1>2. \A b \in Blocks :
        /\ Targets(b)' = IF b = from THEN {true, exit} ELSE Targets(b)
        /\ open'[b] => open[b] /\ b # from
        /\ head'[b] = IF b \in {true, exit} THEN from ELSE head[b]
        /\ region'[b] = IF b = true THEN exit ELSE IF b = exit THEN region[from] ELSE region[b]
  BY <1>a DEF IfEffect
<1>3. \A x \in Builders :
        /\ kind'[x] = IF x = c THEN "if" ELSE kind[x]
        /\ block'[x] = IF x = c THEN true ELSE IF x = a THEN exit ELSE block[x]
        /\ finalBlock'[x] = IF x = c THEN exit ELSE finalBlock[x]
  BY <1>a DEF IfEffect
<1>4. \A x \in Builders : x \in Live' <=> x \in Live \/ x = c
  BY <1>1, <1>3 DEF Live
<1>5. \A x \in Live : x \in Builders /\ x # c /\ block[x] \in 1..nblocks /\ finalBlock[x] \in 0..nblocks
  BY <1>1, LiveBlock DEF Inv, TypeInv, Placed, Live
<1>6. Targets(from) = {}
  BY <1>1 DEF Targets
<1>7. /\ \A b \in Blocks : head[b] \in 0..nblocks /\ region[b] \in 0..nblocks
      /\ \A b \in Blocks : Targets(b) \subseteq 1..nblocks
      /\ \A b \in Blocks : b > nblocks => head[b] = NoBlock /\ region[b] = NoBlock
  BY DEF Flow, Bounded
<1>0. NoBlock \notin Blocks /\ NoBlock \in 0..nblocks /\ NoBlock \notin 1..nblocks
      /\ \A n \in 0..nblocks : n # NoBlock => n \in 1..nblocks
  BY <1>1 DEF Blocks, NoBlock
<1>8. FinalsAgree'
  <2> SUFFICES ASSUME NEW x \in Builders, x \in Live' PROVE region'[block'[x]] = finalBlock'[x]
    BY DEF FinalsAgree, Live
  <2>1. CASE x = c
    BY <1>0, <1>1, <1>2, <1>3, <2>1
  <2>2. CASE x # c
    <3>1. x \in Live /\ region[block[x]] = finalBlock[x] /\ finalBlock'[x] = finalBlock[x]
      BY <1>0, <1>3, <1>4, <2>2 DEF Flow, FinalsAgree
    <3> QED
      BY <1>a, <1>0, <1>1, <1>2, <1>3, <1>5, <2>2, <3>1 DEF Blocks
  <2> QED
    BY <2>1, <2>2
<1>9. Bounded'
  <2>1. \A b \in Blocks : head'[b] \in 0..nblocks' /\ region'[b] \in 0..nblocks'
    BY <1>0, <1>1, <1>2, <1>7
  <2>2. \A b \in Blocks : Targets(b)' \subseteq 1..nblocks'
    BY <1>0, <1>1, <1>2, <1>7
  <2>3. \A b \in Blocks : b > nblocks' => head'[b] = NoBlock /\ region'[b] = NoBlock
    BY <1>0, <1>1, <1>2, <1>7 DEF Blocks
  <2> QED
    BY <2>1, <2>2, <2>3 DEF Bounded
<1>10. ASSUME NEW x \in Pending' PROVE Skippable(x)'
  <2>1. x \in Builders /\ x \in Live' /\ kind'[x] = "if" /\ open'[block'[x]]
    BY <1>0, <1>10 DEF Pending, Live
  <2>2. CASE x = c
    <3>1. finalBlock'[x] = exit /\ head'[exit] = from
      BY <1>0, <1>1, <1>2, <1>3, <2>2
    <3>2. ASSUME NEW b \in Blocks PROVE exit \in Targets(b)' <=> b = from
      <4>1. exit \notin 1..nblocks
        BY <1>a, <1>1
      <4>2. exit \notin Targets(b)
        BY <4>1, <1>7
      <4> QED
        BY <4>2, <1>2
    <3>3. \A y \in Live' : finalBlock'[y] = exit => y = c
      BY <1>0, <1>1, <1>3, <1>4, <1>5 DEF Live
    <3> QED
      BY <1>0, <1>1, <2>2, <3>1, <3>2, <3>3 DEF Skippable
  <2>3. CASE x # c
    <3>1. x \in Live /\ kind[x] = "if" /\ finalBlock'[x] = finalBlock[x]
      BY <1>0, <1>3, <1>4, <2>1, <2>3
    <3>2. open[block[x]]
      BY <1>a, <1>0, <1>1, <1>2, <1>3, <1>5, <2>1, <2>3, <3>1 DEF Blocks
    <3>3. Skippable(x)
      BY <3>1, <3>2 DEF Pending, Flow
    <3>4. finalBlock[x] \in 1..nblocks /\ finalBlock[x] \in Blocks
      BY <1>0, <1>1, <1>5, <3>1 DEF Inv, TypeInv, Placed, NoBlock, Blocks
    <3>5. head'[finalBlock[x]] = head[finalBlock[x]]
      BY <1>0, <1>1, <1>2, <3>4
    <3>6. ASSUME NEW b \in Blocks
          PROVE  finalBlock[x] \in Targets(b)' <=> finalBlock[x] \in Targets(b)
      <4>1. finalBlock[x] \notin {true, exit}
        BY <1>a, <1>1, <3>4
      <4> QED
        BY <4>1, <1>2, <1>6
    <3>7. \A y \in Live' : finalBlock'[y] = finalBlock[x] => y = x
      BY <1>0, <1>1, <1>3, <1>4, <3>3, <3>4 DEF Skippable, Live
    <3> QED
      BY <1>0, <1>1, <3>1, <3>3, <3>5, <3>6, <3>7 DEF Skippable
  <2> QED
    BY <2>2, <2>3
<1>11. ASSUME NEW b \in Blocks, NEW h, h = head'[b], h # NoBlock
       PROVE  region'[h] # b /\ b \in Targets(h)'
  <2>1. CASE b \in {true, exit}
    <3>1. h = from
      BY <1>2, <1>11, <2>1
    <3>2. region'[from] = region[from] /\ Targets(from)' = {true, exit}
      BY <1>1, <1>2
    <3>3. region[from] \in 0..nblocks
      BY <1>1, <1>7
    <3> QED
      BY <1>1, <2>1, <3>1, <3>2, <3>3
  <2>2. CASE b \notin {true, exit}
    <3>1. h = head[b] /\ h \in 1..nblocks /\ h \in Blocks
      BY <1>0, <1>1, <1>2, <1>7, <1>11, <2>2
    <3>2. region[h] # b /\ b \in Targets(h)
      BY <3>1, <1>11 DEF Flow
    <3>3. region'[h] = region[h]
      BY <1>1, <1>2, <3>1
    <3>4. Targets(h)' = Targets(h)
      BY <1>2, <1>6, <3>1, <3>2
    <3> QED
      BY <3>2, <3>3, <3>4
  <2> QED
    BY <2>1, <2>2
<1>12. ASSUME NEW b \in Blocks, NEW v \in Targets(b)'
       PROVE  head'[v] = b \/ region'[b] = v
  <2>1. CASE b = from
    BY <1>0, <1>1, <1>2, <2>1
  <2>2. CASE b # from
    <3>1. v \in Targets(b) /\ v \in 1..nblocks /\ v \in Blocks
      BY <1>0, <1>1, <1>2, <1>7, <2>2 DEF Blocks
    <3>2. head[v] = b \/ region[b] = v
      BY <3>1 DEF Flow
    <3>3. head'[v] = head[v]
      BY <1>0, <1>1, <1>2, <3>1
    <3>4. region[b] = v => region'[b] = v
      BY <1>0, <1>1, <1>2, <1>7, <3>1 DEF NoBlock
    <3> QED
      BY <3>2, <3>3, <3>4
  <2> QED
    BY <2>1, <2>2
<1> QED
  BY <1>8, <1>9, <1>10, <1>11, <1>12 DEF Flow, Targets

\* What a call of elseStatement that is no misuse changes.
ElseEffect(a, c, arm, final, else) ==
  /\ arm = block[a] /\ final = finalBlock[a] /\ else = nblocks + 1
  /\ arm \in 1..nblocks /\ final \in 1..nblocks /\ else \in Blocks
  /\ open[arm] /\ terms[arm] = <<>> /\ a # c /\ kind[a] = "if" /\ kind[c] = "free"
  /\ nblocks' = else
  /\ \A b \in Blocks :
       /\ Targets(b)' = IF b = arm THEN {final}
                        ELSE {IF v = final THEN else ELSE v : v \in Targets(b)}
       /\ Ended(b)' <=> Ended(b) \/ b = arm
       /\ open'[b] => open[b] /\ b # arm
       /\ head'[b] = IF b = final THEN NoBlock ELSE IF b = else THEN head[final] ELSE head[b]
       /\ region'[b] = IF b = else THEN final ELSE region[b]
  /\ \A x \in Builders :
       /\ kind'[x] = IF x = c THEN "else" ELSE kind[x]
       /\ block'[x] = IF x = c THEN else ELSE block[x]
       /\ finalBlock'[x] = IF x = c THEN final ELSE finalBlock[x]

LEMMA ElseStatementEffect ==
  ASSUME Inv, Inv', Sound, Sound', NEW a \in Builders, NEW c \in Builders, ElseStatement(a, c)
  PROVE  a \in Live /\ \E arm, final, else \in Blocks : ElseEffect(a, c, arm, final, else)
<1>a. PICK arm, final, else : arm = block[a] /\ final = finalBlock[a] /\ else = nblocks + 1
  OBVIOUS
<1>1. /\ kind[a] = "if" /\ kind[c] = "free" /\ CountMisuse(a, NoBuilder)
      /\ nblocks' = else /\ else \in Blocks
      /\ terms' = [ReplaceUses(terms, final, else) EXCEPT ![arm] = Append(@, Br(final))]
      /\ open' = [open EXCEPT ![arm] = FALSE]
      /\ block' = [block EXCEPT ![c] = else]
      /\ kind' = [kind EXCEPT ![c] = "else"]
      /\ finalBlock' = [finalBlock EXCEPT ![c] = final]
      /\ head' = [head EXCEPT ![else] = head[final], ![final] = NoBlock]
      /\ region' = [region EXCEPT ![else] = final]
  BY <1>a DEF ElseStatement, Construct
<1>2. a \in Live /\ a # c
  BY <1>1 DEF Live
<1>3. /\ nblocks \in Nat /\ 1..nblocks \subseteq Blocks
      /\ arm \in 1..nblocks /\ final \in 1..nblocks /\ arm \in Blocks /\ final \in Blocks
      /\ else # final
  <2>1. /\ nblocks \in Nat /\ 1..nblocks \subseteq Blocks /\ block[a] \in 1..nblocks
    BY <1>2, Numbers
  <2>2. finalBlock[a] \in 1..nblocks
    BY <1>1, <2>1 DEF Inv, TypeInv, Placed, NoBlock
  <2> QED
    BY <1>a, <2>1, <2>2
<1>4. open[arm] /\ terms[arm] = <<>>
  <2>1. open[arm]
    BY <1>a, <1>1, Numbers DEF Sound, CountMisuse, IsActive
  <2> QED
    BY <1>3, <2>1, SoundEnds DEF Ended
<1>5. \A b \in Blocks :
        /\ Targets(b)' = IF b = arm THEN {final}
                         ELSE {IF v = final THEN else ELSE v : v \in Targets(b)}
        /\ Ended(b)' <=> Ended(b) \/ b = arm
  <2>1. terms' = [ReplaceUses(terms, final, else) EXCEPT ![arm] = Append(@, Br(final))]
    BY <1>1
  <2>2. terms[arm] = <<>> /\ final \in Blocks /\ else \in Blocks /\ arm \in Blocks
    BY <1>1, <1>3, <1>4
  <2> QED
    BY <2>1, <2>2, ElseTargets, Zenon
<1>6. \A b \in Blocks :
        head'[b] = IF b = final THEN NoBlock ELSE IF b = else THEN head[final] ELSE head[b]
  <2>1. head \in [Blocks -> Blocks \cup {NoBlock}]
    BY DEF Inv, TypeInv, TypeOK
  <2>2. head[final] \in Blocks \cup {NoBlock}
    BY <1>3, <2>1
  <2> QED
    BY <1>1, <1>3, <2>1, <2>2, TwoUpdates
<1>7. \A b \in Blocks : /\ open'[b] => open[b] /\ b # arm
                        /\ region'[b] = IF b = else THEN final ELSE region[b]
  BY <1>1 DEF Inv, TypeInv, TypeOK
<1>8. \A x \in Builders :
        /\ kind'[x] = IF x = c THEN "else" ELSE kind[x]
        /\ block'[x] = IF x = c THEN else ELSE block[x]
        /\ finalBlock'[x] = IF x = c THEN final ELSE finalBlock[x]
  BY <1>1 DEF Inv, TypeInv, TypeOK
<1>9. ElseEffect(a, c, arm, final, else)
  BY <1>a, <1>1, <1>2, <1>3, <1>4, <1>5, <1>6, <1>7, <1>8 DEF ElseEffect
<1> QED
  BY <1>1, <1>2, <1>3, <1>9

\* The exit block was reached from the condition only, and the builder was the
\* only one that would lead there.
LEMMA FlowElseStatement ==
  ASSUME Inv, Sound, Flow, NEW a \in Live, NEW c \in Builders,
         NEW arm \in Blocks, NEW final \in Blocks, NEW else \in Blocks,
         ElseEffect(a, c, arm, final, else)
  PROVE  Flow'
<1>1. /\ arm = block[a] /\ final = finalBlock[a]
      /\ arm \in 1..nblocks /\ final \in 1..nblocks /\ else \notin 0..nblocks
      /\ open[arm] /\ a # c /\ kind[a] = "if" /\ kind[c] = "free" /\ nblocks' = else
      /\ nblocks \in Nat /\ 1..nblocks \subseteq Blocks
      /\ \A b \in Blocks : b \in 1..nblocks' <=> b \in 1..nblocks \/ b = else
      /\ 0..nblocks \subseteq 0..nblocks' /\ {final, else} \subseteq 1..nblocks'
      /\ \A b \in Blocks : b > nblocks' => b > nblocks /\ b # else /\ b # final
      /\ NoBlock \in 0..nblocks /\ \A n \in 0..nblocks : n # NoBlock => n \in 1..nblocks
  <2>1. nblocks \in Nat /\ 1..nblocks \subseteq Blocks
    BY Numbers
  <2> QED
    BY <2>1 DEF ElseEffect, Blocks, NoBlock
<1>2. \A b \in Blocks :
        /\ Targets(b)' = IF b = arm THEN {final}
                         ELSE {IF v = final THEN else ELSE v : v \in Targets(b)}
        /\ open'[b] => open[b] /\ b # arm
        /\ head'[b] = IF b = final THEN NoBlock ELSE IF b = else THEN head[final] ELSE head[b]
        /\ region'[b] = IF b = else THEN final ELSE region[b]
  BY DEF ElseEffect
<1>3. \A x \in Builders :
        /\ kind'[x] = IF x = c THEN "else" ELSE kind[x]
        /\ block'[x] = IF x = c THEN else ELSE block[x]
        /\ finalBlock'[x] = IF x = c THEN final ELSE finalBlock[x]
  BY DEF ElseEffect
<1>4. \A x \in Builders : x \in Live' <=> x \in Live \/ x = c
  BY <1>1, <1>3 DEF Live
<1>5. \A x \in Live : x \in Builders /\ x # c /\ block[x] \in 1..nblocks /\ finalBlock[x] \in 0..nblocks
  BY <1>1, LiveBlock DEF Inv, TypeInv, Placed, Live
<1>6. /\ \A b \in Blocks : head[b] \in 0..nblocks /\ region[b] \in 0..nblocks
      /\ \A b \in Blocks : Targets(b) \subseteq 1..nblocks
      /\ \A b \in Blocks : b > nblocks => head[b] = NoBlock /\ region[b] = NoBlock
  BY DEF Flow, Bounded
<1>7. Targets(arm) = {}
  BY <1>1, SoundEnds
<1>8. Skippable(a) /\ region[arm] = final
  BY <1>1 DEF Flow, Pending, FinalsAgree
<1>9. PICK s \in Blocks : /\ s = head[final] /\ s # arm /\ s # NoBlock
                          /\ \A b \in Blocks : final \in Targets(b) <=> b = s
  <2>1. PICK s \in Blocks : s = head[final] /\ s \in 1..nblocks
    BY <1>1, <1>8 DEF Skippable
  <2>2. \A b \in Blocks : final \in Targets(b) <=> b = s
    BY <1>1, <1>8, <2>1 DEF Skippable
  <2>3. s # NoBlock
    BY <2>1 DEF NoBlock
  <2> QED
    BY <1>7, <2>1, <2>2, <2>3
<1>10. ASSUME NEW b \in Blocks, b # arm, b # s PROVE Targets(b)' = Targets(b)
  <2>1. final \notin Targets(b)
    BY <1>9, <1>10
  <2> QED
    BY <1>2, <1>10, <2>1
<1>11. Targets(s)' = (Targets(s) \ {final}) \cup {else} /\ Targets(arm)' = {final}
  BY <1>2, <1>9
<1>12. FinalsAgree'
  <2> SUFFICES ASSUME NEW x \in Builders, x \in Live' PROVE region'[block'[x]] = finalBlock'[x]
    BY DEF FinalsAgree, Live
  <2>1. CASE x = c
    BY <1>1, <1>2, <1>3, <2>1
  <2>2. CASE x # c
    <3>1. x \in Live /\ region[block[x]] = finalBlock[x]
      BY <1>4, <2>2 DEF Flow, FinalsAgree
    <3>2. block[x] \in Blocks /\ block[x] # else
      BY <1>1, <1>5, <3>1
    <3> QED
      BY <1>2, <1>3, <2>2, <3>1, <3>2
  <2> QED
    BY <2>1, <2>2
<1>13. Bounded'
  <2>1. \A b \in Blocks : head'[b] \in 0..nblocks' /\ region'[b] \in 0..nblocks'
    BY <1>1, <1>2, <1>6
  <2>2. \A b \in Blocks : Targets(b)' \subseteq 1..nblocks'
    BY <1>1, <1>2, <1>6
  <2>3. \A b \in Blocks : b > nblocks' => head'[b] = NoBlock /\ region'[b] = NoBlock
    BY <1>1, <1>2, <1>6
  <2> QED
    BY <2>1, <2>2, <2>3 DEF Bounded
<1>14. ASSUME NEW x \in Pending' PROVE Skippable(x)'
  <2>1. x \in Builders /\ x \in Live' /\ kind'[x] = "if" /\ open'[block'[x]]
    BY <1>14 DEF Pending, Live
  <2>2. x # c /\ x \in Live /\ kind[x] = "if" /\ block'[x] = block[x] /\ finalBlock'[x] = finalBlock[x]
    BY <1>3, <1>4, <2>1
  <2>3. block[x] \in Blocks
    BY <1>1, <1>5, <2>2
  <2>4. open[block[x]] /\ block[x] # arm
    BY <1>2, <2>1, <2>2, <2>3
  <2>5. x # a /\ Skippable(x)
    BY <1>1, <2>2, <2>4 DEF Pending, Flow
  <2>6. PICK j \in Blocks : j = finalBlock[x] /\ j \in 1..nblocks
    BY <1>1, <1>5, <2>2 DEF Inv, TypeInv, Placed
  <2>7. j # final /\ j # else
    BY <1>1, <2>2, <2>5, <2>6, <1>8 DEF Skippable
  <2>8. head'[j] = head[j]
    BY <1>2, <2>7
  <2>9. ASSUME NEW b \in Blocks PROVE j \in Targets(b)' <=> j \in Targets(b)
    BY <1>7, <1>10, <1>11, <2>7
  <2>10. \A y \in Live' : finalBlock'[y] = j => y = x
    BY <1>3, <1>4, <2>5, <2>6, <2>7 DEF Skippable, Live
  <2> QED
    BY <1>1, <2>2, <2>5, <2>6, <2>8, <2>9, <2>10 DEF Skippable
<1>15. ASSUME NEW b \in Blocks, NEW h, h = head'[b], h # NoBlock
       PROVE  region'[h] # b /\ b \in Targets(h)'
  <2>0. b # final
    BY <1>2, <1>15
  <2>1. CASE b = else
    <3>1. h = s
      BY <1>2, <1>9, <1>15, <2>0, <2>1
    <3>2. region'[s] \in 0..nblocks
      BY <1>1, <1>2, <1>6
    <3> QED
      BY <1>1, <1>11, <2>1, <3>1, <3>2
  <2>2. CASE b # else
    <3>1. h = head[b] /\ h \in 1..nblocks /\ h \in Blocks /\ h # else
      BY <1>1, <1>2, <1>6, <1>15, <2>0, <2>2
    <3>2. region[h] # b /\ b \in Targets(h)
      BY <3>1, <1>15 DEF Flow
    <3>3. region'[h] = region[h]
      BY <1>2, <3>1
    <3>4. b \in Targets(h)'
      BY <1>7, <1>10, <1>11, <2>0, <3>1, <3>2
    <3> QED
      BY <3>2, <3>3, <3>4
  <2> QED
    BY <2>1, <2>2
<1>16. ASSUME NEW b \in Blocks, NEW v \in Targets(b)'
       PROVE  head'[v] = b \/ region'[b] = v
  <2>1. CASE b = arm
    BY <1>1, <1>2, <1>8, <2>1
  <2>2. CASE b = s /\ v = else
    BY <1>1, <1>2, <1>9, <2>2
  <2>3. CASE b # arm /\ ~(b = s /\ v = else)
    <3>1. v \in Targets(b) /\ v # final /\ v \in 1..nblocks /\ v \in Blocks
      BY <1>1, <1>6, <1>9, <1>10, <1>11, <2>3
    <3>2. head[v] = b \/ region[b] = v
      BY <3>1 DEF Flow
    <3>3. head'[v] = head[v]
      BY <1>1, <1>2, <3>1
    <3>4. region[b] = v => region'[b] = v
      BY <1>1, <1>2, <1>6, <3>1 DEF NoBlock
    <3> QED
      BY <3>2, <3>3, <3>4
  <2> QED
    BY <2>1, <2>2, <2>3
<1> QED
  BY <1>12, <1>13, <1>14, <1>15, <1>16 DEF Flow, Targets

\* A module that was misused stays so.
LEMMA SoundBefore ==
  ASSUME Inv, Next, Sound'
  PROVE  Sound
<1>1. misuses \in Nat
  BY Numbers
<1>2. misuses' = misuses \/ misuses' = misuses + 1
  BY DEF Next, NewFunction, Emit, ReturnValue, IfStatement, ElseStatement, Finalise, Destroy,
         ScriptFinalise, DestroyScript, CountMisuse, ghostVars
<1> QED
  BY <1>1, <1>2 DEF Sound

\* The calls that finalise: which builders, and what they leave alone.
FinalisesSome ==
  \E S \in SUBSET Builders :
    /\ S \subseteq Live /\ FinaliseEach(S)
    /\ UNCHANGED <<head, region, nblocks, misuses>>
    /\ \A x \in Live' : /\ x \in Live /\ kind'[x] = kind[x]
                        /\ block'[x] = block[x] /\ finalBlock'[x] = finalBlock[x]

LEMMA FinaliseCalls ==
  ASSUME Inv,
         \/ \E a \in Builders : Finalise(a) \/ Destroy(a)
         \/ ScriptFinalise \/ DestroyScript
  PROVE  FinalisesSome
<1>1. ASSUME NEW a \in Builders, Finalise(a) PROVE FinalisesSome
  <2>1. {a} \in SUBSET Builders /\ {a} \subseteq Live /\ FinaliseEach({a}) /\ Live' = Live
    BY <1>1 DEF Finalise, Live
  <2> QED
    BY <1>1, <2>1 DEF Finalise, FinalisesSome, ghostVars
<1>2. ASSUME NEW a \in Builders, Destroy(a) PROVE FinalisesSome
  <2>1. {a} \in SUBSET Builders /\ {a} \subseteq Live /\ FinaliseEach({a})
        /\ UNCHANGED <<head, region, nblocks, misuses>>
    BY <1>2 DEF Destroy, ghostVars
  <2>2. \A x \in Live' : /\ x \in Live /\ kind'[x] = kind[x]
                         /\ block'[x] = block[x] /\ finalBlock'[x] = finalBlock[x]
    BY <1>2 DEF Destroy, Live, Inv, TypeInv, TypeOK
  <2> QED
    BY <2>1, <2>2 DEF FinalisesSome
<1>3. CASE ScriptFinalise \/ DestroyScript
  <2>1. builders \in SUBSET Builders /\ builders \subseteq Live /\ FinaliseEach(builders)
        /\ UNCHANGED <<kind, block, finalBlock, head, region, nblocks, misuses>>
    BY <1>3 DEF ScriptFinalise, DestroyScript, ghostVars, Inv, RegistryInv, RegistryExact, Live
  <2>2. Live' = Live
    BY <2>1 DEF Live
  <2> QED
    BY <2>1, <2>2 DEF FinalisesSome
<1> QED
  BY <1>1, <1>2, <1>3

\* Calls that write to a builder's block and no more.
LEMMA EmitEffect ==
  ASSUME Inv, Sound, Sound', NEW a \in Builders, NEW e \in Builders \cup {NoBuilder}, Emit(a, e)
  PROVE  /\ UNCHANGED <<kind, block, finalBlock, head, region, nblocks, terms>>
         /\ \A b \in Blocks : open'[b] => open[b]
<1>1. /\ a \in Live /\ e \in Live \cup {NoBuilder} /\ CountMisuse(a, e)
      /\ UNCHANGED <<kind, block, finalBlock, head, region, nblocks, terms>>
      /\ open' = [ReadInto(open, e) EXCEPT ![block[a]] = TRUE]
  BY DEF Emit, scriptVars, builderVars
<1>2. open[block[a]] /\ (e # NoBuilder => open[block[e]])
  BY <1>1, Numbers DEF Sound, CountMisuse, IsActive
<1>3. /\ ReadInto(open, e) \in [Blocks -> BOOLEAN]
      /\ \A b \in Blocks : ReadInto(open, e)[b] <=> open[b] \/ (e # NoBuilder /\ b = block[e])
  BY <1>1, ReadIntoEffect DEF Inv
<1> QED
  BY <1>1, <1>2, <1>3

LEMMA ReturnEffect ==
  ASSUME Inv, Sound, Sound', NEW a \in Builders, NEW e \in Builders \cup {NoBuilder},
         ReturnValue(a, e)
  PROVE  \E p \in Blocks :
           /\ p \in 1..nblocks /\ ~Ended(p)
           /\ UNCHANGED <<kind, block, finalBlock, head, region, nblocks>>
           /\ \A b \in Blocks : /\ open'[b] => open[b]
                                /\ Targets(b)' = Targets(b)
                                /\ Ended(b)' <=> Ended(b) \/ b = p
<1>1. /\ a \in Live /\ e \in Live \cup {NoBuilder} /\ CountMisuse(a, e)
      /\ UNCHANGED <<kind, block, finalBlock, head, region, nblocks>>
      /\ terms' = [terms EXCEPT ![block[a]] = Append(@, Ret)]
      /\ open' = [ReadInto(open, e) EXCEPT ![block[a]] = FALSE]
  BY DEF ReturnValue, scriptVars, builderVars
<1>2. PICK p \in Blocks : p = block[a] /\ p \in 1..nblocks
  BY <1>1, Numbers
<1>3. open[p] /\ (e # NoBuilder => open[block[e]])
  BY <1>1, <1>2, Numbers DEF Sound, CountMisuse, IsActive
<1>4. terms[p] = <<>> /\ ~Ended(p) /\ Targets(p) = {}
  BY <1>3, SoundEnds DEF Ended
<1>5. \A b \in Blocks :
        /\ Targets(b)' = IF b = p THEN {Ret.onTrue, Ret.onFalse} \ {NoBlock} ELSE Targets(b)
        /\ Ended(b)' <=> Ended(b) \/ b = p
  <2>1. Ret \in Terminators
    BY TerminatorTypes
  <2> QED
    BY <1>1, <1>2, <1>4, <2>1, AppendTargets
<1>6. {Ret.onTrue, Ret.onFalse} \ {NoBlock} = {}
  BY DEF Ret
<1>7. /\ ReadInto(open, e) \in [Blocks -> BOOLEAN]
      /\ \A b \in Blocks : ReadInto(open, e)[b] <=> open[b] \/ (e # NoBuilder /\ b = block[e])
  BY <1>1, ReadIntoEffect DEF Inv
<1>8. \A b \in Blocks : open'[b] => open[b]
  BY <1>1, <1>2, <1>3, <1>7
<1> QED
  BY <1>1, <1>2, <1>4, <1>5, <1>6, <1>8

LEMMA FlowNext == Inv /\ Inv' /\ FlowInv /\ [Next]_vars => FlowInv'
<1> SUFFICES ASSUME Inv, Inv', FlowInv, [Next]_vars, Sound' PROVE Flow'
  BY DEF FlowInv
<1>1. CASE UNCHANGED vars
  <2>1. UNCHANGED <<kind, block, finalBlock, head, region, nblocks, terms, open, misuses>>
    BY <1>1 DEF vars, builderVars, moduleVars, ghostVars
  <2>2. \A b \in Blocks : Targets(b)' = Targets(b) /\ (open'[b] => open[b])
    BY <2>1 DEF Targets
  <2> QED
    BY <2>1, <2>2, FlowQuiet DEF FlowInv, Sound
<1>2. CASE Next
  <2>1. Sound /\ Flow
    BY <1>2, SoundBefore DEF FlowInv
  <2>2. ASSUME NEW f \in Functions, NEW c \in Builders, NewFunction(f, c) PROVE Flow'
    BY <2>1, <2>2, FlowNewFunction
  <2>3. ASSUME NEW a \in Builders, NEW e \in Builders \cup {NoBuilder}, Emit(a, e) PROVE Flow'
    <3>1. /\ UNCHANGED <<kind, block, finalBlock, head, region, nblocks, terms>>
          /\ \A b \in Blocks : open'[b] => open[b]
      BY <2>1, <2>3, EmitEffect
    <3>2. \A b \in Blocks : Targets(b)' = Targets(b)
      BY <3>1 DEF Targets
    <3> QED
      BY <2>1, <3>1, <3>2, FlowQuiet
  <2>4. ASSUME NEW a \in Builders, NEW e \in Builders \cup {NoBuilder}, ReturnValue(a, e)
        PROVE  Flow'
    BY <2>1, <2>4, ReturnEffect, FlowQuiet
  <2>5. ASSUME NEW a \in Builders, NEW c \in Builders, NEW e \in Builders \cup {NoBuilder},
               IfStatement(a, e, c)
        PROVE  Flow'
    BY <2>1, <2>5, IfStatementEffect, FlowIfStatement
  <2>6. ASSUME NEW a \in Builders, NEW c \in Builders, ElseStatement(a, c) PROVE Flow'
    <3>1. a \in Live /\ \E arm, final, else \in Blocks : ElseEffect(a, c, arm, final, else)
      BY <2>1, <2>6, ElseStatementEffect
    <3> QED
      BY <2>1, <3>1, FlowElseStatement
  <2>7. ASSUME FinalisesSome PROVE Flow'
    BY <2>1, <2>7, FlowFinalise DEF FinalisesSome
  <2> QED
    BY <1>2, <2>2, <2>3, <2>4, <2>5, <2>6, <2>7, FinaliseCalls DEF Next
<1> QED
  BY <1>1, <1>2

-----------------------------------------------------------------------------
(* Every call is a step of StructuredProgram, or is not seen there.          *)

\* The program, as long as there is one.
EndedBlocks == {b \in 1..nblocks : Ended(b)}

LEMMA ProgramNew ==
  ASSUME Sound
  PROVE  Program!New = Blocks \ 1..nblocks /\ Program!Open = (1..nblocks) \ EndedBlocks
BY DEF Program!New, Program!Open, EndedBlocks, Ended

LEMMA BreakStep ==
  ASSUME Sound, ~Sound'
  PROVE  Program!Next
<1>1. Program!Break
  BY DEF Program!Break, Program!Blank
<1> QED
  BY <1>1 DEF Program!Next

LEMMA UnseenStep ==
  ASSUME Sound' = Sound,
         Sound => /\ nblocks' = nblocks /\ region' = region
                  /\ \A b \in Blocks : Targets(b)' = Targets(b) /\ (Ended(b)' <=> Ended(b)),
         Inv
  PROVE  UNCHANGED Program!vars
<1>1. CASE ~Sound
  BY <1>1 DEF Program!vars
<1>2. CASE Sound
  <2>1. 1..nblocks \subseteq Blocks
    BY Numbers
  <2>2. {b \in 1..nblocks : terms[b] # <<>>}' = {b \in 1..nblocks : terms[b] # <<>>}
    BY <1>2, <2>1 DEF Ended
  <2> QED
    BY <1>2, <2>2 DEF Program!vars
<1> QED
  BY <1>1, <1>2

LEMMA BeginStep ==
  ASSUME Inv, Sound, Sound', NEW f \in Functions, NEW c \in Builders, NewFunction(f, c)
  PROVE  Program!Next
<1>1. PICK s \in Blocks : s = nblocks + 1
  BY DEF NewFunction
<1>2. nblocks' = s /\ terms' = terms /\ region' = region
  BY <1>1 DEF NewFunction, ghostVars
<1>3. s \in Program!New /\ 1..nblocks' = (1..nblocks) \cup {s} /\ nblocks \in Nat
  BY <1>1, <1>2, Numbers, ProgramNew
<1>4. terms[s] = <<>>
  BY <1>1, <1>3 DEF Inv, ClosureInv
<1>5. {b \in 1..nblocks : terms[b] # <<>>}' = {b \in 1..nblocks : terms[b] # <<>>}
  BY <1>2, <1>3, <1>4
<1>6. \A b : Targets(b)' = Targets(b)
  BY <1>2 DEF Targets
<1>7. Program!Begin(s)
  BY <1>2, <1>3, <1>5, <1>6 DEF Program!Begin
<1> QED
  BY <1>3, <1>7 DEF Program!Next

LEMMA ReturnStep ==
  ASSUME Inv, Sound, Sound', NEW a \in Builders, NEW e \in Builders \cup {NoBuilder},
         ReturnValue(a, e)
  PROVE  Program!Next
<1>1. PICK p \in Blocks :
        /\ p \in 1..nblocks /\ ~Ended(p)
        /\ UNCHANGED <<region, nblocks>>
        /\ \A b \in Blocks : Targets(b)' = Targets(b) /\ (Ended(b)' <=> Ended(b) \/ b = p)
  BY ReturnEffect
<1>2. p \in Program!Open /\ 1..nblocks \subseteq Blocks
  BY <1>1, ProgramNew, Numbers DEF EndedBlocks
<1>3. {b \in 1..nblocks : terms[b] # <<>>}' = {b \in 1..nblocks : terms[b] # <<>>} \cup {p}
  BY <1>1, <1>2 DEF Ended
<1>4. Program!Return(p)
  BY <1>1, <1>3 DEF Program!Return
<1> QED
  BY <1>2, <1>4 DEF Program!Next

LEMMA ConditionStep ==
  ASSUME Inv, Sound, Sound', Flow, NEW a \in Live, NEW c \in Builders, IfEffect(a, c)
  PROVE  Program!Next
<1>1. PICK from, exit, true : from = block[a] /\ exit = nblocks + 1 /\ true = nblocks + 2
  OBVIOUS
<1>2. /\ from \in 1..nblocks /\ exit \in Blocks /\ true \in Blocks /\ terms[from] = <<>>
      /\ nblocks' = true /\ nblocks \in Nat /\ 1..nblocks \subseteq Blocks
      /\ exit \notin 1..nblocks /\ true \notin 1..nblocks /\ exit # true
      /\ 1..nblocks' = (1..nblocks) \cup {true, exit}
  BY <1>1, Numbers DEF IfEffect
<1>3. \A b \in Blocks :
        /\ Targets(b)' = IF b = from THEN {true, exit} ELSE Targets(b)
        /\ Ended(b)' <=> Ended(b) \/ b = from
        /\ region'[b] = IF b = true THEN exit ELSE IF b = exit THEN region[from] ELSE region[b]
  BY <1>1 DEF IfEffect
<1>4. from \in Program!Open /\ exit \in Program!New /\ true \in Program!New
  BY <1>2, ProgramNew DEF EndedBlocks, Ended
<1>5. ~Ended(exit) /\ ~Ended(true)
  BY <1>1, <1>2 DEF Ended, Inv, ClosureInv
<1>6. {b \in 1..nblocks : terms[b] # <<>>}' = {b \in 1..nblocks : terms[b] # <<>>} \cup {from}
  <2>1. \A b \in Blocks : terms'[b] # <<>> <=> terms[b] # <<>> \/ b = from
    BY <1>3 DEF Ended
  <2> QED
    BY <1>2, <1>5, <2>1 DEF Ended
<1>7. [b \in Blocks |-> Targets(b)]' = [[b \in Blocks |-> Targets(b)] EXCEPT ![from] = {true, exit}]
  BY <1>2, <1>3
<1>8. [b \in Blocks |-> region[b]]'
      = [[b \in Blocks |-> region[b]] EXCEPT ![true] = exit, ![exit] = [b \in Blocks |-> region[b]][from]]
  BY <1>2, <1>3
<1>9. Program!Condition(from, true, exit)
  BY <1>2, <1>6, <1>7, <1>8 DEF Program!Condition
<1> QED
  BY <1>4, <1>9 DEF Program!Next

LEMMA AlternativeStep ==
  ASSUME Inv, Sound, Sound', Flow, NEW a \in Live, NEW c \in Builders,
         NEW arm \in Blocks, NEW final \in Blocks, NEW else \in Blocks,
         ElseEffect(a, c, arm, final, else)
  PROVE  Program!Next
<1>1. /\ arm = block[a] /\ final = finalBlock[a] /\ else = nblocks + 1
      /\ arm \in 1..nblocks /\ final \in 1..nblocks /\ open[arm] /\ terms[arm] = <<>>
      /\ kind[a] = "if" /\ nblocks' = else
      /\ nblocks \in Nat /\ 1..nblocks \subseteq Blocks
      /\ else \notin 1..nblocks /\ 1..nblocks' = (1..nblocks) \cup {else}
  BY Numbers DEF ElseEffect
<1>2. \A b \in Blocks :
        /\ Targets(b)' = IF b = arm THEN {final}
                         ELSE {IF v = final THEN else ELSE v : v \in Targets(b)}
        /\ Ended(b)' <=> Ended(b) \/ b = arm
        /\ region'[b] = IF b = else THEN final ELSE region[b]
  BY DEF ElseEffect
<1>3. Skippable(a) /\ region[arm] = final
  BY <1>1 DEF Flow, Pending, FinalsAgree
<1>4. PICK s \in Blocks : s = head[final] /\ s \in 1..nblocks
  BY <1>1, <1>3 DEF Skippable
<1>5. \A b \in Blocks : final \in Targets(b) <=> b = s
  BY <1>1, <1>3, <1>4 DEF Skippable
<1>6. s # arm /\ Ended(s) /\ region[s] # final
  <2>1. Targets(s) # {}
    BY <1>5
  <2>2. s # arm /\ Ended(s)
    BY <1>1, <2>1 DEF Targets, Ended
  <2>3. region[s] # final
    BY <1>4 DEF Flow, NoBlock
  <2> QED
    BY <2>2, <2>3
<1>7. ~Ended(else)
  BY <1>1 DEF Ended, Inv, ClosureInv
<1>8. {b \in 1..nblocks : terms[b] # <<>>}' = {b \in 1..nblocks : terms[b] # <<>>} \cup {arm}
  <2>1. \A b \in Blocks : terms'[b] # <<>> <=> terms[b] # <<>> \/ b = arm
    BY <1>2 DEF Ended
  <2>2. arm # else
    BY <1>1
  <2> QED
    BY <1>1, <1>7, <2>1, <2>2 DEF Ended
<1>9. [b \in Blocks |-> Targets(b)]'
      = [[b \in Blocks |-> Targets(b)] EXCEPT ![s] = (@ \ {final}) \cup {else}, ![arm] = {final}]
  <2>1. ASSUME NEW b \in Blocks
        PROVE  Targets(b)' = IF b = arm THEN {final}
                             ELSE IF b = s THEN (Targets(s) \ {final}) \cup {else} ELSE Targets(b)
    <3>1. CASE b = arm
      BY <1>2, <3>1
    <3>2. CASE b # arm /\ b = s
      BY <1>2, <1>5, <3>2
    <3>3. CASE b # arm /\ b # s
      <4>1. final \notin Targets(b)
        BY <1>5, <3>3
      <4> QED
        BY <1>2, <3>3, <4>1
    <3> QED
      BY <3>1, <3>2, <3>3
  <2>2. \A b \in Blocks :
          Targets(b)' = IF b = arm THEN {final}
                        ELSE IF b = s THEN (Targets(s) \ {final}) \cup {else} ELSE Targets(b)
    BY <2>1
  <2> QED
    BY <2>2, <1>6
<1>10. [b \in Blocks |-> region[b]]' = [[b \in Blocks |-> region[b]] EXCEPT ![else] = final]
  BY <1>2
<1>11. s \in {b \in 1..nblocks : terms[b] # <<>>} /\ arm \in Program!Open /\ else \in Program!New
  BY <1>1, <1>4, <1>6, ProgramNew DEF EndedBlocks, Ended
<1>12. Program!Alternative(s, arm, else)
  <2> DEFINE cont == [b \in Blocks |-> IF Sound THEN region[b] ELSE NoBlock]
             next == [b \in Blocks |-> IF Sound THEN Targets(b) ELSE {}]
  <2>1. cont[arm] = final /\ cont[s] # final
    BY <1>3, <1>6
  <2>2. \A r \in Blocks : final \in next[r] <=> r = s
    BY <1>5
  <2>3. next' = [next EXCEPT ![s] = (@ \ {final}) \cup {else}, ![arm] = {final}]
    BY <1>9
  <2>4. cont' = [cont EXCEPT ![else] = final]
    BY <1>10
  <2>5. (IF Sound THEN 1..nblocks ELSE {})' = (IF Sound THEN 1..nblocks ELSE {}) \cup {else}
    BY <1>1
  <2>6. (IF Sound THEN {b \in 1..nblocks : terms[b] # <<>>} ELSE {})'
        = (IF Sound THEN {b \in 1..nblocks : terms[b] # <<>>} ELSE {}) \cup {arm}
    BY <1>8
  <2>7. UNCHANGED ~Sound
    BY DEF Sound
  <2> HIDE DEF cont, next
  <2>8. /\ cont[s] # cont[arm]
        /\ \A r \in Blocks : cont[arm] \in next[r] <=> r = s
        /\ next' = [next EXCEPT ![s] = (@ \ {cont[arm]}) \cup {else}, ![arm] = {cont[arm]}]
        /\ cont' = [cont EXCEPT ![else] = cont[arm]]
    BY <2>1, <2>2, <2>3, <2>4
  <2> QED
    BY <2>5, <2>6, <2>7, <2>8, Zenon DEF Program!Alternative, cont, next
<1> QED
  BY <1>11, <1>12 DEF Program!Next

LEMMA CompleteStep ==
  ASSUME Inv, Sound, Sound', Flow, FinalisesSome
  PROVE  Program!Next
<1>1. PICK S \in SUBSET Builders :
        S \subseteq Live /\ FinaliseEach(S) /\ nblocks' = nblocks /\ region' = region
  BY DEF FinalisesSome
<1>2. \A b \in Blocks :
        /\ Targets(b)' = IF Closes(S, b) THEN {region[b]} \ {NoBlock} ELSE Targets(b)
        /\ Ended(b)' <=> Ended(b) \/ Closes(S, b)
  BY <1>1, FinaliseTargets DEF Flow
<1>3. PICK closed \in SUBSET Blocks : closed = {b \in Blocks : Closes(S, b)}
  OBVIOUS
<1>4. 1..nblocks \subseteq Blocks /\ closed \subseteq 1..nblocks
  <2>1. \A x \in Live : block[x] \in 1..nblocks
    BY Numbers
  <2> QED
    BY <1>1, <1>3, <2>1, Numbers DEF Closes
<1>5. closed \in SUBSET Program!Open
  <2>1. \A b \in closed : ~Ended(b)
    BY <1>3, SoundEnds DEF Closes
  <2> QED
    BY <1>4, <2>1, ProgramNew DEF EndedBlocks
<1>6. {b \in 1..nblocks : terms[b] # <<>>}' = {b \in 1..nblocks : terms[b] # <<>>} \cup closed
  <2>1. \A b \in Blocks : terms'[b] # <<>> <=> terms[b] # <<>> \/ b \in closed
    BY <1>2, <1>3 DEF Ended
  <2> QED
    BY <1>1, <1>4, <2>1
<1>7. [b \in Blocks |-> Targets(b)]'
      = [b \in Blocks |-> IF b \in closed THEN {region[b]} \ {NoBlock} ELSE Targets(b)]
  BY <1>2, <1>3
<1>8. Program!Complete(closed)
  BY <1>1, <1>6, <1>7 DEF Program!Complete
<1> QED
  BY <1>5, <1>8 DEF Program!Next

LEMMA ProgramInit == Init => Program!Init
<1> SUFFICES ASSUME Init PROVE Program!Init
  OBVIOUS
<1>1. Sound /\ nblocks = 0 /\ \A b \in Blocks : region[b] = NoBlock /\ Targets(b) = {}
  BY DEF Init, Sound, Targets
<1> QED
  BY <1>1 DEF Program!Init

LEMMA ProgramStep ==
  Inv /\ Inv' /\ FlowInv /\ [Next]_vars => [Program!Next]_(Program!vars)
<1> SUFFICES ASSUME Inv, Inv', FlowInv, [Next]_vars
             PROVE  Program!Next \/ UNCHANGED Program!vars
  OBVIOUS
<1>1. CASE UNCHANGED vars
  <2>1. UNCHANGED <<misuses, nblocks, region, terms>>
    BY <1>1 DEF vars, moduleVars, ghostVars
  <2> QED
    BY <2>1, UnseenStep DEF Sound, Targets, Ended
<1>2. CASE Next /\ ~Sound
  <2>1. ~Sound'
    BY <1>2, SoundBefore
  <2> QED
    BY <1>2, <2>1, UnseenStep DEF Sound
<1>3. CASE Next /\ Sound /\ ~Sound'
  BY <1>3, BreakStep
<1>4. CASE Next /\ Sound /\ Sound'
  <2>1. Sound /\ Sound' /\ Flow
    BY <1>4 DEF FlowInv
  <2>2. ASSUME NEW f \in Functions, NEW c \in Builders, NewFunction(f, c) PROVE Program!Next
    BY <2>1, <2>2, BeginStep
  <2>3. ASSUME NEW a \in Builders, NEW e \in Builders \cup {NoBuilder}, Emit(a, e)
        PROVE  UNCHANGED Program!vars
    <3>1. UNCHANGED <<nblocks, region, terms>>
      BY <2>1, <2>3, EmitEffect
    <3> QED
      BY <2>1, <3>1, UnseenStep DEF Targets, Ended
  <2>4. ASSUME NEW a \in Builders, NEW e \in Builders \cup {NoBuilder}, ReturnValue(a, e)
        PROVE  Program!Next
    BY <2>1, <2>4, ReturnStep
  <2>5. ASSUME NEW a \in Builders, NEW c \in Builders, NEW e \in Builders \cup {NoBuilder},
               IfStatement(a, e, c)
        PROVE  Program!Next
    BY <2>1, <2>5, IfStatementEffect, ConditionStep
  <2>6. ASSUME NEW a \in Builders, NEW c \in Builders, ElseStatement(a, c) PROVE Program!Next
    <3>1. a \in Live /\ \E arm, final, else \in Blocks : ElseEffect(a, c, arm, final, else)
      BY <2>1, <2>6, ElseStatementEffect
    <3> QED
      BY <2>1, <3>1, AlternativeStep
  <2>7. ASSUME FinalisesSome PROVE Program!Next
    BY <2>1, <2>7, CompleteStep
  <2> QED
    BY <1>4, <2>2, <2>3, <2>4, <2>5, <2>6, <2>7, FinaliseCalls DEF Next
<1> QED
  BY <1>1, <1>2, <1>3, <1>4

-----------------------------------------------------------------------------
LEMMA FlowInductive == Spec => [](Inv /\ FlowInv)
<1>1. Init => FlowInv
  BY FlowInit DEF FlowInv
<1> QED
  BY <1>1, InvInductive, FlowNext, PTL DEF Spec

\* ScopeBuilder implements StructuredProgram: for any number of builders and
\* any sequence of calls, each call of scope-builder.cpp is one step of building
\* a structured program, or does not show in it, until one writes behind a
\* terminator.
THEOREM ImplementsStructuredProgram == Spec => BuildsStructuredProgram
<1>1. Spec => []Inv
  BY InvInductive
<1>2. Spec => [](Inv /\ FlowInv)
  BY FlowInductive
<1>3. Init => Program!Init
  BY ProgramInit
<1>4. Inv /\ Inv' /\ FlowInv /\ [Next]_vars => [Program!Next]_(Program!vars)
  BY ProgramStep
<1> QED
  BY <1>2, <1>3, <1>4, PTL DEF Spec, Program!Spec, BuildsStructuredProgram

\* Branches lead from a condition to its arms, or from an arm to its exit block;
\* elseStatement redirects one conditional branch and nothing else.
THEOREM FlowIsStructured == Spec => []StructuredFlow
<1>1. Inv /\ FlowInv => StructuredFlow
  <2> SUFFICES ASSUME Inv, Sound, Flow, NEW b \in 1..nblocks, NEW i \in DOMAIN terms[b],
                      NEW v, v \in {terms[b][i].onTrue, terms[b][i].onFalse}
               PROVE  v = NoBlock \/ head[v] = b \/ region[b] = v
    BY DEF StructuredFlow, FlowInv, Sound
  <2>1. b \in Blocks /\ ~Malformed(b)
    BY Numbers DEF Inv, ClosureInv, BlocksClosed, Sound
  <2>2. terms[b] \in Seq(Terminators)
    BY <2>1 DEF Inv, TypeInv, TypeOK
  <2>3. i = 1 /\ terms[b] # <<>>
    BY <2>1, <2>2 DEF Malformed
  <2>4. v = NoBlock \/ v \in Targets(b)
    BY <2>3 DEF Targets
  <2> QED
    BY <2>1, <2>4 DEF Flow
<1> QED
  BY <1>1, FlowInductive, PTL

\* No arm is lost: each stays a target of the branch it was made for.
THEOREM ArmsAreEntered == Spec => []ArmsEntered
<1>1. Inv /\ FlowInv => ArmsEntered
  <2> SUFFICES ASSUME Inv, Sound, Flow, NEW b \in 1..nblocks, head[b] # NoBlock
               PROVE  /\ terms[head[b]] # <<>>
                      /\ b \in {terms[head[b]][1].onTrue, terms[head[b]][1].onFalse}
    BY DEF ArmsEntered, FlowInv, Sound
  <2>1. b \in Targets(head[b])
    BY Numbers DEF Flow
  <2> QED
    BY <2>1 DEF Targets
<1> QED
  BY <1>1, FlowInductive, PTL

\* What is proved of every structured program holds of what a client builds.
Promise == INSTANCE StructuredProgramProofs WITH
  Segments <- Blocks,
  Caller <- NoBlock,
  broken <- ~Sound,
  made   <- IF Sound THEN 1..nblocks ELSE {},
  ended  <- IF Sound THEN {b \in 1..nblocks : terms[b] # <<>>} ELSE {},
  next   <- [b \in Blocks |-> IF Sound THEN Targets(b) ELSE {}],
  cont   <- [b \in Blocks |-> IF Sound THEN region[b] ELSE NoBlock]

\* (The two instances of StructuredProgram are the same specification.)
LEMMA PromiseKept == Spec => Promise!Spec
<1>1. Program!Init => Promise!Init
  BY DEF Program!Init, Promise!Init
<1>2. [Program!Next]_(Program!vars) => [Promise!Next]_(Promise!vars)
  BY Zenon
     DEF Program!Next, Promise!Next, Program!vars, Promise!vars,
         Program!New, Promise!New, Program!Open, Promise!Open, Program!Begin,
         Promise!Begin, Program!Condition, Promise!Condition, Program!Alternative,
         Promise!Alternative, Program!Complete, Promise!Complete, Program!Return,
         Promise!Return, Program!Break, Promise!Break, Program!Blank, Promise!Blank
<1> QED
  BY <1>1, <1>2, ImplementsStructuredProgram, PTL
     DEF BuildsStructuredProgram, Program!Spec, Promise!Spec

LEMMA NoBlockIsNone == NoBlock \notin Blocks
BY DEF NoBlock, Blocks

\* All ways out of a condition meet in its exit block, whatever was called.
THEOREM AllWaysMeet == Spec => []WaysMeet
<1>1. Promise!Spec => []Promise!WaysMeet
  BY NoBlockIsNone, Promise!WaysAlwaysMeet
<1>2. Promise!WaysMeet => WaysMeet
  BY DEF Promise!WaysMeet, Program!WaysMeet, WaysMeet
<1> QED
  BY <1>1, <1>2, PromiseKept, PTL

-----------------------------------------------------------------------------
(* What a run through the blocks rests on.                                   *)

\* rank orders the blocks: branches and the ends of regions lead to blocks of
\* higher rank.
Forward(rank) ==
  \A b \in 1..nblocks :
    /\ \A t \in Targets(b) : t \in 1..nblocks /\ rank[b] < rank[t]
    /\ region[b] # NoBlock => region[b] \in 1..nblocks /\ rank[b] < rank[region[b]]

\* A block that branches to an arm of an if with an else branches to the other.
ArmsTogether ==
  \A b, c \in 1..nblocks :
    head[b] # NoBlock /\ head[b] = head[c] /\ region[b] = region[c] =>
      \A p \in 1..nblocks : b \in Targets(p) => c \in Targets(p)

Runnable == (\E rank \in [Blocks -> Nat] : Forward(rank)) /\ ArmsTogether

\* An arm is entered from its condition only: it is nobody's continuation.
LEMMA TogetherFromApart ==
  ASSUME Inv, Sound, Flow, Promise!ArmsApart
  PROVE  ArmsTogether
<1> SUFFICES ASSUME NEW b \in 1..nblocks, NEW c \in 1..nblocks, b # c,
                    head[b] # NoBlock, head[b] = head[c], region[b] = region[c],
                    NEW p \in 1..nblocks, b \in Targets(p)
             PROVE  c \in Targets(p)
  BY DEF ArmsTogether
<1>1. b \in Blocks /\ c \in Blocks /\ p \in Blocks /\ head[b] \in 0..nblocks
  BY Numbers DEF Flow, Bounded
<1>2. head[b] \in 1..nblocks /\ head[b] \in Blocks
  BY <1>1, Numbers DEF NoBlock
<1>3. b \in Targets(head[b]) /\ c \in Targets(head[b])
  BY <1>1 DEF Flow
<1>4. \A s \in 1..nblocks : \A v, w \in Targets(s) :
        v # w /\ region[v] = region[w] => \A x \in Blocks : region[x] # v
  <2> SUFFICES ASSUME NEW s \in 1..nblocks, NEW v \in Targets(s), NEW w \in Targets(s),
                      v # w, region[v] = region[w], NEW x \in Blocks
               PROVE  region[x] # v
    OBVIOUS
  <2>1. s \in Blocks
    BY Numbers
  <2>2. v \in Blocks /\ w \in Blocks
    BY <2>1, Numbers DEF Flow, Bounded
  <2> QED
    BY <2>1, <2>2 DEF Promise!ArmsApart
<1>5. region[p] # b
  BY <1>1, <1>2, <1>3, <1>4
<1> QED
  BY <1>1, <1>3, <1>5 DEF Flow

LEMMA ForwardFromOrder ==
  ASSUME Inv, Sound, Flow, NEW rank \in [Blocks -> Nat], Promise!Ordered(rank)
  PROVE  Forward(rank)
<1> SUFFICES ASSUME NEW b \in 1..nblocks
             PROVE  /\ \A t \in Targets(b) : t \in 1..nblocks /\ rank[b] < rank[t]
                    /\ region[b] # NoBlock => region[b] \in 1..nblocks /\ rank[b] < rank[region[b]]
  BY DEF Forward
<1>1. b \in Blocks /\ nblocks \in Nat
  BY Numbers
<1>2. \A t \in Targets(b) \cup ({region[b]} \ {NoBlock}) : rank[b] < rank[t]
  BY <1>1 DEF Promise!Ordered
<1>3. Targets(b) \subseteq 1..nblocks /\ region[b] \in 0..nblocks
  BY <1>1 DEF Flow, Bounded
<1> QED
  BY <1>1, <1>2, <1>3 DEF NoBlock

LEMMA AlwaysRunnable == Spec => [](Sound => Runnable)
<1>1. Promise!Spec => [](Promise!Acyclic /\ Promise!ArmsApart)
  BY NoBlockIsNone, Promise!NoLoops, Promise!ArmsStayApart, PTL
<1>2. Inv /\ FlowInv /\ Promise!Acyclic /\ Promise!ArmsApart => (Sound => Runnable)
  <2> SUFFICES ASSUME Inv, FlowInv, Promise!Acyclic, Promise!ArmsApart, Sound
               PROVE  Runnable
    OBVIOUS
  <2>1. Flow
    BY DEF FlowInv
  <2>2. PICK rank \in [Blocks -> Nat] : Promise!Ordered(rank)
    BY DEF Promise!Acyclic
  <2> QED
    BY <2>1, <2>2, ForwardFromOrder, TogetherFromApart DEF Runnable
<1> QED
  BY <1>1, <1>2, PromiseKept, FlowInductive, PTL
=============================================================================
