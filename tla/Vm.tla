---------------------------------- MODULE Vm ----------------------------------
(***************************************************************************)
(* VM::execute (vm/vm.hpp) on the JitEngine it creates for every call      *)
(* (vm/jit-engine.hpp), composed with the Runtime it takes the native      *)
(* functions from and the ScriptBuilder a script was made from.            *)
(*                                                                         *)
(* The runtime may change between the construction of the ScriptBuilder,   *)
(* makeScript() and each execute(): a script is text with the declarations *)
(* of its builder, and names are bound to addresses anew by every call.    *)
(* A module is the set of functions it has bodies for and the set of       *)
(* functions its code calls, both among those it declares; ScopeBuilder    *)
(* and ScriptRun model how the bodies are built and what happens in them.  *)
(***************************************************************************)
EXTENDS Runtime

CONSTANTS
  ProcessSymbols,  \* functions the process itself exports
  NoScript,
  ClientTypes,     \* bounds: the <<native type, name>> pairs and
  ClientSigs       \* <<function, signature>> pairs that clients use

ASSUME VmAssumption ==
  /\ ProcessSymbols \subseteq Functions
  /\ ClientTypes \subseteq Natives \X Names
  /\ ClientSigs \subseteq Functions \X NameSigs

VARIABLES
  script,   \* the last script made, with what its builder knew
  process,  \* "running" or "exited" by llvm::ExitOnError
  ran       \* ghost: functions of the script that were executed

vmVars == <<vars, script, process, ran>>

-----------------------------------------------------------------------------
\* JitEngine's constructor defines the runtime's addresses, as they are now.
Absolute == {f \in Functions : addresses[f] # NoSig}

\* JitEngine::addModule: a second definition of a name is an error.
\* (Mutant: one engine serves all calls, and the module is not removed.)
AddsModuleOnce == script.defines \cap Absolute = {} /\ ran \cap script.defines = {}
AddsModule     == script.defines \cap Absolute = {}

\* Compiling a function links its whole module: against itself, the addresses
\* and the search generator of the process.
\* (Mutant: only exported symbols are found.)
LinksExported == DOMAIN script.decls \subseteq script.defines \cup ProcessSymbols
Links         == DOMAIN script.decls \subseteq script.defines \cup Absolute \cup ProcessSymbols

\* JitEngine::lookup finds exported symbols.  The addresses are defined without
\* flags, so a function of the runtime is not found by its name.
Found(f) ==
  \/ f \in script.defines /\ Links
  \/ f \in ProcessSymbols \ (script.defines \cup Absolute)

\* execute() calls the function; otherwise ExitOnError ends the process:
\* JitEngine::createNew without a target, addModule, or lookup.
Runs(f) == platformReady /\ AddsModule /\ Found(f)

-----------------------------------------------------------------------------
VmInit ==
  /\ Init
  /\ script = NoScript
  /\ process = "running"
  /\ ran = {}

\* Types and functions are added to the runtime at any time, and ScriptBuilders
\* made from it; newFunction declares like getOrDeclareFunction.
Build ==
  /\ \/ \E T \in Natives, n \in Names : <<T, n>> \in ClientTypes /\ DefineType(T, n)
     \/ \E f \in Functions : DefineFunction(f) /\ <<f, runtimeFunctions'[f]>> \in ClientSigs
     \/ InitPlatform
     \/ NewScriptBuilder
     \/ \E f \in Functions, nsig \in NameSigs :
          <<f, nsig>> \in ClientSigs /\ GetOrDeclareFunction(f, nsig)
  /\ UNCHANGED <<script, process, ran>>

\* What a call can be made to: getFunctionByLlvmName's answer, if not null.
\* (Mutant: the null function of an unknown name is called.)
CallableUnknown == Functions
Callable        == {f \in Functions : decls[f] # NoSig}

\* ScriptBuilder::makeScript: a copy of the module as text.  The last two
\* fields are ghosts: which of the functions it calls the builder knew from the
\* runtime, with an address, and whether a type name had been rebound by then.
MakeScript ==
  /\ builder = "built"
  /\ \E defines, calls \in SUBSET Callable :
       script' = [defines  |-> defines,
                  decls    |-> [f \in calls |-> decls[f]],
                  natives  |-> calls \cap imported \cap Absolute,
                  rebound  |-> rebound]
  /\ ran' = {}
  /\ UNCHANGED <<vars, process>>

\* VM::execute.  The engine, and the module with it, ends with the call.
Execute(f) ==
  /\ script # NoScript
  /\ \/ Runs(f) /\ ran' = ran \cup {f} /\ UNCHANGED <<script, process>>
     \/ ~Runs(f) /\ process' = "exited" /\ script' = NoScript /\ ran' = {}
  /\ UNCHANGED vars

VmNext ==
  /\ process = "running"
  /\ Build \/ MakeScript \/ \E f \in Functions : Execute(f)

VmSpec == VmInit /\ [][VmNext]_vmVars

-----------------------------------------------------------------------------
(* Properties. *)

Scripts ==
  [defines : SUBSET Functions,
   decls   : UNION {[calls -> [ret : Natives, arg : Natives]] : calls \in SUBSET Functions},
   natives : SUBSET Functions,
   rebound : BOOLEAN]

\* Type correctness: a script declares whatever it calls.
VmTypeOK ==
  /\ script \in Scripts \cup {NoScript}
  /\ process \in {"running", "exited"}
  /\ ran \subseteq Functions

\* A script that was made before the runtime changed is linked to native
\* functions it may still call: whatever was defined, or rebound, since the
\* script was made, the address a call of an imported function is linked to is
\* that of a function with the signature the script's text declares.
LinkedCallsFit ==
  script # NoScript /\ ~script.rebound =>
    \A f \in script.natives : addresses[f] \in Sigs => script.decls[f] = addresses[f]

\* execute() leaves nothing behind, and the runtime only grows: what ran once
\* runs again, unless the runtime was given a function the script has too.
RunnableStaysRunnable ==
  \A f \in ran : (script.defines \cup {f}) \cap Absolute = {} => Runs(f)

\* "When defining a function, the runtime will make it available directly in VM
\* without further implementation needed" (README.md): a script that calls only
\* its own functions and functions the runtime had defined when its builder was
\* made can be run after initPlatform(), unless the runtime has one of its own.
DefinedIsAvailable ==
  /\ script # NoScript
  /\ platformReady
  /\ DOMAIN script.decls \subseteq script.defines \cup script.natives
  /\ script.defines \cap Absolute = {}
  => \A f \in script.defines : Runs(f)
=============================================================================
