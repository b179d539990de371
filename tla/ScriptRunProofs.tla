--------------------------- MODULE ScriptRunProofs ---------------------------
(* Proofs about ScriptRun, from the theorems about ScopeBuilder. *)
EXTENDS ScriptRun, ScopeBuilderProofs, WellFoundedInduction

\* Making and running scripts does not disturb the builders: seen from
\* ScopeBuilder, every step of the composition is a step or a stutter.
THEOREM RunsAreBuilderSteps == RunSpec => Spec
<1>1. RunInit => Init
  BY DEF RunInit
<1>2. [RunNext]_<<vars, runVars>> => [Next]_vars
  BY DEF RunNext, Build, MakeScript, Execute, Step, Return, Branch, NoBranch, Leave
<1> QED
  BY <1>1, <1>2, PTL DEF RunSpec, Spec

\* A module in which a call wrote behind a terminator is broken.
LEMMA MisusedIsBroken == MisuseIsCaught /\ misuses # 0 /\ misuses \in Nat => isModuleBroken
  BY DEF MisuseIsCaught, isModuleBroken

\* No script is ever made from a module in which a call wrote to a terminated
\* block, whatever happened between the call and the verification.
THEOREM ScriptsAreNotMisused == RunSpec => []ScriptNotMisused
<1> DEFINE Known == MisuseIsCaught /\ misuses \in Nat
<1>1. Spec => []Known
  <2>1. TypeOK => misuses \in Nat
    BY ConstantsAssumption DEF TypeOK
  <2> QED
    BY <2>1, TypeCorrect, MisuseIsAlwaysCaught, PTL
<1>2. RunInit => ScriptNotMisused
  BY DEF RunInit, Init, Snapshot, ScriptNotMisused
<1>3. Known /\ ScriptNotMisused /\ [RunNext]_<<vars, runVars>> => ScriptNotMisused'
  <2> SUFFICES ASSUME Known, ScriptNotMisused, [RunNext]_<<vars, runVars>>
               PROVE  ScriptNotMisused'
    OBVIOUS
  <2>1. CASE MakeScript
    <3>1. ~isModuleBroken /\ script'.misuses = misuses
      BY <2>1 DEF MakeScript, Snapshot
    <3>2. misuses = 0
      BY <3>1, MisusedIsBroken
    <3> QED
      BY <3>1, <3>2 DEF ScriptNotMisused
  <2>2. CASE UNCHANGED script
    BY <2>2 DEF ScriptNotMisused
  <2> QED
    BY <2>1, <2>2 DEF RunNext, Build, Execute, Step, Return, Branch, NoBranch, Leave, runVars
<1> QED
  BY <1>1, <1>2, <1>3, RunsAreBuilderSteps, PTL DEF RunSpec
-----------------------------------------------------------------------------
(* A run through a script that was accepted.                                 *)

\* Where a block of the script leads.
Leads(b) == {script.terms[b][1].onTrue, script.terms[b][1].onFalse} \ {NoBlock}

\* What Runnable says of a module, of the script: the module moves on.
Upwards(rank) ==
  \A b \in 1..script.nblocks : \A t \in Leads(b) :
    t \in 1..script.nblocks /\ rank[b] < rank[t]

SiblingsTogether ==
  \A b, c \in 1..script.nblocks :
    script.head[b] # NoBlock /\ script.head[b] = script.head[c]
      /\ script.region[b] = script.region[c] =>
      \A p \in 1..script.nblocks : b \in Leads(p) => c \in Leads(p)

\* The run has come up to pc from below.
Ascended(rank) == pc # NoBlock => \A v \in visited : v = pc \/ rank[v] < rank[pc]

RunInv ==
  /\ RunTypeOK
  /\ \A b \in 1..script.nblocks : script.terms[b] # <<>>
  /\ \E rank \in [Blocks -> Nat] : Upwards(rank) /\ Ascended(rank)
  /\ SiblingsTogether
  /\ ExclusiveArms

Usable == Inv /\ (Sound => Runnable)

LEMMA RunInvInit == Usable /\ RunInit => RunInv
<1> SUFFICES ASSUME Usable, RunInit PROVE RunInv
  OBVIOUS
<1>1. /\ script.nblocks = 0 /\ script.parent = parent /\ script.terms = terms
      /\ pc = NoBlock /\ visited = {} /\ nblocks = 0
  BY DEF RunInit, Init, Snapshot
<1>2. MaxBlocks \in Nat
  BY ConstantsAssumption
<1>3. RunTypeOK
  BY <1>1, <1>2 DEF RunTypeOK, Usable, Inv, TypeInv, TypeOK, NoBlock
<1>4. Upwards([b \in Blocks |-> 0]) /\ Ascended([b \in Blocks |-> 0])
  BY <1>1 DEF Upwards, Ascended
<1>5. SiblingsTogether /\ ExclusiveArms
  BY <1>1 DEF SiblingsTogether, ExclusiveArms
<1> QED
  BY <1>1, <1>3, <1>4, <1>5 DEF RunInv

LEMMA MakeScriptKeepsRunInv ==
  ASSUME Usable, RunInv, MakeScript
  PROVE  RunInv'
<1>1. /\ script' = Snapshot /\ visited' = {} /\ pc' = NoBlock
      /\ ~isModuleBroken
  BY DEF MakeScript
<1>2. misuses = 0
  BY <1>1, MisusedIsBroken, Numbers DEF Usable, Inv, ClosureInv
<1>3. PICK rank \in [Blocks -> Nat] : Forward(rank)
  BY <1>2 DEF Usable, Sound, Runnable
<1>4. /\ script'.nblocks = nblocks /\ script'.parent = parent /\ script'.terms = terms
      /\ script'.head = head /\ script'.region = region
  BY <1>1 DEF Snapshot
<1>5. \A b \in 1..nblocks : terms[b] # <<>>
  BY <1>1 DEF isModuleBroken, Unterminated
<1>6. \A b \in 1..nblocks : Leads(b)' = Targets(b)
  BY <1>4, <1>5 DEF Leads, Targets
<1>7. RunTypeOK'
  BY <1>1, <1>4, Numbers DEF RunTypeOK, Usable, Inv, TypeInv, TypeOK, NoBlock
<1>8. Upwards(rank)' /\ Ascended(rank)'
  BY <1>1, <1>3, <1>4, <1>6 DEF Upwards, Ascended, Forward
<1>9. SiblingsTogether'
  BY <1>2, <1>4, <1>6 DEF SiblingsTogether, Usable, Sound, Runnable, ArmsTogether
<1>10. ExclusiveArms'
  BY <1>1 DEF ExclusiveArms
<1> QED
  BY <1>4, <1>5, <1>7, <1>8, <1>9, <1>10 DEF RunInv

\* A set of numbers has a smallest one (without an operator parameter).
LEMMA LeastBlock ==
  ASSUME NEW T, T \subseteq Nat, T # {}
  PROVE  \E m \in T : \A k \in T : m <= k
<1> DEFINE R == OpToRel(<, Nat)
<1>1. IsWellFoundedOn(R, Nat)
  BY NatLessThanWellFounded, Zenon
<1>2. \A x, y \in Nat : y < x => <<y, x>> \in R
  BY Zenon DEF OpToRel
<1> HIDE DEF R
<1>3. PICK m \in T : \A y \in T : ~(<<y, m>> \in R)
  BY <1>1, WFMin
<1>4. \A k \in T : ~(k < m)
  BY <1>2, <1>3
<1>5. m \in Nat /\ \A k \in T : k \in Nat
  OBVIOUS
<1> QED
  BY <1>4, <1>5

LEMMA EntryExists ==
  ASSUME NEW f, BlocksOf(f) # {}
  PROVE  Entry(f) \in 1..script.nblocks
<1>1. BlocksOf(f) \subseteq Nat /\ BlocksOf(f) \subseteq 1..script.nblocks
  BY DEF BlocksOf
<1>2. \E b \in BlocksOf(f) : \A c \in BlocksOf(f) : b <= c
  BY <1>1, LeastBlock
<1>3. Entry(f) \in BlocksOf(f)
  BY <1>2, Zenon DEF Entry
<1> QED
  BY <1>1, <1>3

\* A run starts with nothing visited.
LEMMA ExecuteKeepsRunInv ==
  ASSUME RunInv, NEW f \in Functions, Execute(f)
  PROVE  RunInv'
<1>1. script' = script /\ pc' = Entry(f) /\ visited' = {Entry(f)} /\ Entry(f) \in 1..script.nblocks
  BY EntryExists DEF Execute
<1>2. RunTypeOK'
  BY <1>1 DEF RunInv, RunTypeOK, Entry, BlocksOf
<1>3. PICK rank \in [Blocks -> Nat] : Upwards(rank)
  BY DEF RunInv
<1>4. Upwards(rank)' /\ Ascended(rank)'
  BY <1>1, <1>3 DEF Upwards, Ascended, Leads
<1>5. SiblingsTogether' /\ ExclusiveArms'
  BY <1>1 DEF RunInv, SiblingsTogether, ExclusiveArms, Leads
<1> QED
  BY <1>1, <1>2, <1>4, <1>5 DEF RunInv

\* A run that enters an arm has not visited the other: both are above pc.
LEMMA StepKeepsRunInv ==
  ASSUME RunInv, Step
  PROVE  RunInv'
<1>1. script' = script /\ pc \in 1..script.nblocks /\ pc # NoBlock
  BY DEF Step, Return, Branch, NoBranch, Leave, RunInv, RunTypeOK, NoBlock
<1>2. PICK rank \in [Blocks -> Nat] : Upwards(rank) /\ Ascended(rank)
  BY DEF RunInv
<1>3. PICK b : Leave(b) /\ (b = NoBlock \/ b \in Leads(pc))
  BY DEF Step, Return, Branch, NoBranch, Leads
<1>4. pc' = b /\ visited' = visited \cup ({b} \ {NoBlock})
  BY <1>3 DEF Leave
<1>5. CASE b = NoBlock
  <2>1. visited' = visited /\ pc' = NoBlock
    BY <1>4, <1>5
  <2>2. RunTypeOK' /\ Upwards(rank)' /\ Ascended(rank)' /\ SiblingsTogether' /\ ExclusiveArms'
    BY <2>1, <1>1, <1>2 DEF RunInv, RunTypeOK, Upwards, Ascended, SiblingsTogether, ExclusiveArms, Leads, NoBlock
  <2> QED
    BY <2>2, <1>1 DEF RunInv
<1>6. CASE b \in Leads(pc)
  <2>1. b \in 1..script.nblocks /\ rank[pc] < rank[b] /\ visited' = visited \cup {b}
    BY <1>1, <1>2, <1>4, <1>6 DEF Upwards, Leads
  <2>2. visited \subseteq Blocks /\ b \in Blocks /\ pc \in Blocks
    BY <2>1, <1>1, ConstantsAssumption DEF RunInv, RunTypeOK, Blocks
  <2>3. RunTypeOK'
    BY <2>1, <1>1, <1>4 DEF RunInv, RunTypeOK
  <2>4. \A v \in visited : rank[v] < rank[b]
    BY <2>1, <2>2, <1>1, <1>2 DEF Ascended
  <2>5. Upwards(rank)' /\ Ascended(rank)'
    BY <2>1, <2>4, <1>1, <1>2, <1>4 DEF Upwards, Ascended, Leads
  <2>6. \A c \in visited : c \notin Leads(pc)
    <3>1. \A c \in Leads(pc) : c \in 1..script.nblocks /\ rank[pc] < rank[c]
      BY <1>1, <1>2 DEF Upwards
    <3>2. \A c \in visited : c = pc \/ rank[c] < rank[pc]
      BY <1>1, <1>2 DEF Ascended
    <3> QED
      BY <3>1, <3>2, <2>2
  <2>7. ASSUME NEW c \in visited,
               script.head[b] # NoBlock, script.head[b] = script.head[c],
               script.region[b] = script.region[c]
        PROVE  FALSE
    <3>1. c \in 1..script.nblocks
      BY DEF RunInv, RunTypeOK
    <3>2. c \in Leads(pc)
      BY <3>1, <2>1, <2>7, <1>1, <1>6 DEF RunInv, SiblingsTogether
    <3> QED
      BY <3>2, <2>6
  <2>8. ExclusiveArms'
    BY <2>1, <2>7, <1>1 DEF RunInv, ExclusiveArms
  <2> QED
    BY <2>3, <2>5, <2>8, <1>1 DEF RunInv, SiblingsTogether, Leads
<1> QED
  BY <1>3, <1>5, <1>6

LEMMA RunInvInductive == RunSpec => []RunInv
<1>1. Spec => []Usable
  <2>1. Inv /\ (Sound => Runnable) => Usable
    BY DEF Usable
  <2> QED
    BY <2>1, FlowInductive, AlwaysRunnable, PTL
<1>2. Usable /\ RunInv /\ [RunNext]_<<vars, runVars>> => RunInv'
  <2> SUFFICES ASSUME Usable, RunInv, [RunNext]_<<vars, runVars>> PROVE RunInv'
    OBVIOUS
  <2>1. CASE UNCHANGED runVars
    <3>1. script' = script /\ pc' = pc /\ visited' = visited
      BY <2>1 DEF runVars
    <3>2. \A rank : Upwards(rank)' = Upwards(rank) /\ Ascended(rank)' = Ascended(rank)
      BY <3>1 DEF Upwards, Ascended, Leads
    <3>3. RunTypeOK' = RunTypeOK /\ SiblingsTogether' = SiblingsTogether /\ ExclusiveArms' = ExclusiveArms
      BY <3>1 DEF RunTypeOK, SiblingsTogether, ExclusiveArms, Leads
    <3> QED
      BY <3>1, <3>2, <3>3 DEF RunInv
  <2> QED
    BY <2>1, MakeScriptKeepsRunInv, ExecuteKeepsRunInv, StepKeepsRunInv DEF RunNext, Build
<1> QED
  BY <1>1, <1>2, RunInvInit, RunsAreBuilderSteps, PTL DEF RunSpec

\* What is run is there: a run never leaves the blocks of the script it is in.
THEOREM RunTypes == RunSpec => []RunTypeOK
<1>1. RunInv => RunTypeOK
  BY DEF RunInv
<1> QED
  BY <1>1, RunInvInductive, PTL

\* No run executes both arms of an if statement, whatever calls built them.
THEOREM ArmsAreExclusive == RunSpec => []ExclusiveArms
<1>1. RunInv => ExclusiveArms
  BY DEF RunInv
<1> QED
  BY <1>1, RunInvInductive, PTL

\* No run comes to a block it has been in: the blocks behind it are the ones
\* below.  So a run is no longer than the function, which is why it returns.
THEOREM RunsNeverRepeat == RunSpec => []NeverRepeats
<1>1. RunInv => NeverRepeats
  <2> SUFFICES ASSUME RunInv, pc # NoBlock,
                      NEW t \in {script.terms[pc][1].onTrue, script.terms[pc][1].onFalse}, t \in visited
               PROVE  FALSE
    BY DEF NeverRepeats
  <2>1. pc \in 1..script.nblocks /\ visited \subseteq 1..script.nblocks
    BY DEF RunInv, RunTypeOK, NoBlock
  <2>2. PICK rank \in [Blocks -> Nat] : Upwards(rank) /\ Ascended(rank)
    BY DEF RunInv
  <2>3. t \in Leads(pc)
    BY <2>1 DEF Leads, NoBlock
  <2>4. rank[pc] < rank[t]
    BY <2>1, <2>2, <2>3 DEF Upwards
  <2>5. t = pc \/ rank[t] < rank[pc]
    BY <2>2 DEF Ascended
  <2>6. pc \in Blocks /\ t \in Blocks
    BY <2>1, ConstantsAssumption DEF RunInv, RunTypeOK, Blocks
  <2> QED
    BY <2>4, <2>5, <2>6
<1> QED
  BY <1>1, RunInvInductive, PTL
=============================================================================
