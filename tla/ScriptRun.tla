------------------------------ MODULE ScriptRun ------------------------------
(***************************************************************************)
(* From builder to execution: ScriptBuilder::makeScript, which snapshots   *)
(* the module into a Script if the verifier accepts it, and VM::execute,   *)
(* which runs a function of the Script.  ScopeBuilder supplies the client, *)
(* who may go on using the builders after a Script was made, may make a    *)
(* new one, and may run any of its functions.                              *)
(*                                                                         *)
(* A run visits basic blocks.  Data is abstracted away: a conditional      *)
(* branch may go either way.  execute() is synchronous, so while a run is  *)
(* going on the client waits.                                              *)
(***************************************************************************)
EXTENDS ScopeBuilder

VARIABLES
  script,   \* the last Script made: the blocks of the module as they were
  pc,       \* the block being executed; NoBlock: no run is going on
  visited   \* ghost: blocks entered by the current (or last) run

runVars == <<script, pc, visited>>

\* What makeScript writes to the payload, together with the ghosts.
Snapshot ==
  [nblocks |-> nblocks, parent |-> parent, terms |-> terms,
   misuses |-> misuses, head |-> head, region |-> region]

RunInit ==
  /\ Init
  /\ script = Snapshot
  /\ pc = NoBlock
  /\ visited = {}

\* Any call on the builders or the ScriptBuilder.
Build ==
  /\ pc = NoBlock
  /\ Next
  /\ UNCHANGED runVars

\* ScriptBuilder::makeScript throws if the module is broken.  It does not
\* finalise anything.
MakeScript ==
  /\ scriptAlive
  /\ pc = NoBlock
  /\ ~isModuleBroken
  /\ script' = Snapshot
  /\ visited' = {}
  /\ UNCHANGED <<vars, pc>>

\* The blocks of f in the script; the one that was created first is its entry
\* block, because ifStatement and elseStatement only insert blocks behind it.
\* (Mutant: the blocks are looked up in the module, which has moved on.)
BlocksOfModule(f) == {b \in 1..nblocks : parent[b] = f}
BlocksOf(f) == {b \in 1..script.nblocks : script.parent[b] = f}
Entry(f)    == CHOOSE b \in BlocksOf(f) : \A c \in BlocksOf(f) : b <= c

\* VM::execute of a function the script defines.
Execute(f) ==
  /\ pc = NoBlock
  /\ BlocksOf(f) # {}
  /\ pc' = Entry(f)
  /\ visited' = {Entry(f)}
  /\ UNCHANGED <<vars, script>>

\* The compiled code executes a block and its terminator.
Leave(b) ==
  /\ pc' = b
  /\ visited' = visited \cup ({b} \ {NoBlock})
  /\ UNCHANGED <<vars, script>>
Return   == script.terms[pc][1].kind \in {"ret", "retvoid"} /\ Leave(NoBlock)
Branch   == script.terms[pc][1].kind \in {"br", "condbr"} /\ Leave(script.terms[pc][1].onTrue)
NoBranch == script.terms[pc][1].kind = "condbr" /\ Leave(script.terms[pc][1].onFalse)
Step     == pc # NoBlock /\ (Return \/ Branch \/ NoBranch)

RunNext ==
  \/ Build
  \/ MakeScript
  \/ \E f \in Functions : Execute(f)
  \/ Step

\* The processor goes on executing the code it was sent into; the functions a
\* block calls are assumed to return.  Nothing is assumed of the client.
RunSpec == RunInit /\ [][RunNext]_<<vars, runVars>> /\ WF_<<vars, runVars>>(Step)

-----------------------------------------------------------------------------
(* Properties. *)

\* Type correctness of the variables added here.
RunTypeOK ==
  /\ script.nblocks \in 0..MaxBlocks
  /\ script.parent \in [Blocks -> Functions \cup {NoFunction}]
  /\ script.terms \in [Blocks -> Seq(Terminators)]
  /\ pc \in 0..script.nblocks
  /\ visited \subseteq 1..script.nblocks

\* No script that makeScript hands out contains code of a call that wrote to a
\* terminated block, however the client went on between the misuse and the
\* verification: it never runs code whose control flow was not the one asked for.
ScriptNotMisused == script.misuses = 0

\* A run executes at most one of the two arms of an if statement: the arm
\* that elseStatement closes goes on behind the join, not into the else arm.
ExclusiveArms ==
  \A b, c \in visited :
    script.head[b] # NoBlock /\ script.head[b] = script.head[c]
      /\ script.region[b] = script.region[c] => b = c

\* No branch leads back to a block the run has been through, its own included:
\* whatever was nested, finalised or redirected, each block runs once at most.
NeverRepeats ==
  pc # NoBlock =>
    {script.terms[pc][1].onTrue, script.terms[pc][1].onFalse} \cap visited = {}

\* Every run of a script that makeScript accepted comes back to the caller of
\* execute(): no order of if, else, return and finalise calls builds a loop
\* or a block that control cannot leave.
RunReturns == pc # NoBlock ~> pc = NoBlock
=============================================================================
