# A TLA+ model of Svaðilfari

Svaðilfari (`src/svadilfari/cc`) lets a client define a *runtime* (types and
native functions), build LLVM functions block by block with *builders*, turn
the module into a *script*, and run the script in a *VM*. Clients are Python
scripts (through `pysvadilfari`) and a toy compiler (`parser/parser.cpp`).
Everything runs in one thread. What is hard is not parallelism but **order**:
the client holds handles to many mutable objects and may call, keep and drop
them in any order, and almost no call checks that its turn has come.

## Inventory

| Part | State it keeps | Operations | What makes it correct |
|---|---|---|---|
| `ScopeBuilder`, `IfStatement`, `ElseStatement` (`script-builder/scope-builder.*`) | the block being filled, the join block, `finalise_called_` | emit, `returnValue`, `ifStatement`, `elseStatement`, `finalise`, destructor | every block gets exactly one terminator; branches are the structured ones asked for; no block has two writers |
| `ScriptBuilder` (`script-builder/script-builder.*`) | module, registry of raw builder pointers, copy of the types, function cache | `newFunction`, `getOrDeclareFunction`, `getIr`, `finalise`, `makeScript`, destructor | the registry is exactly the live builders not finalised; declared signatures are right; broken modules are refused |
| `ScopeRegister` (`script-builder/scope-register.hpp`) | used names (copied from the parent), values, parent | `childScope`, `has`, `insert`, `get` | `has` implies `get`; nearest scope wins; no declaration changes a visible name |
| `RuntimeDefinition`, `Runtime` (`runtime/`) | name ↔ native type maps, declared functions, addresses | `defineType`, `declareFunction`, `defineFunction`, `initPlatform` | the signature a script calls through is the native one |
| Values (`mutable-*`, `typed-value*`, `constant-*`) | instruction, read cache, builder reference | `set`, `get`, `readValue`, `writeValue`, indexing, arithmetic | a read sees the last write; offsets stay in bounds; widths |
| `ToyIrBuilder`, `Compiler` (`parser/parser.cpp`) | stack of function builders | one visit per grammar rule | the code computes what the source says |
| `Script`, `VM`, `JitEngine` (`vm/`) | payload; symbol table | `load`, `execute`, `addModule`, `lookup` | a run returns; the symbols linked are the runtime's |
| Python bindings, LLVM helpers (`pysvadilfari/`, `llvm/llvm-helpers.hpp`) | – | forwarding; `LLVMTypeAllocator` | which calls a client has; one LLVM type per native type |
| Qubit operations, `TypeDeclarationRegister`, dead value classes, Rust/C# samples | – | – | not modelled, see below |

Interactions: a builder registers with its `ScriptBuilder` and calls back into
it when finalised or destroyed; the `ScriptBuilder` calls `finalise` on its
builders; values keep a reference to the builder they were created by, and
reading one may emit code there; a `ScriptBuilder` copies the runtime's tables
when it is constructed; a script is a copy of the module at one moment; the VM
reads the runtime's addresses when it runs a script.

Hard behaviours: any order of construction, use, finalisation and destruction
of builders; calls on builders whose block has ended; redirection of branches by
`elseStatement` after nested ifs; copies that go stale (used names, types, read
caches, scripts); exceptions half way through an operation (`initPlatform`, the
constructor of `ScriptBuilder`, declarations in the toy compiler). There is no
network, no persistence and no concurrency. `PROJECT.json` lists the hazards with
their lines.

## Modules

| Module | Models | Extends |
|---|---|---|
| `ScopeBuilder` | builders, registry, basic blocks | – |
| `StructuredProgram` | what builders promise: a structured program | – |
| `ScopeBuilderRefinement` | the refinement mapping between the two | `ScopeBuilder`, instance of `StructuredProgram` |
| `Scopes` | builders with their scopes, and the variables declared in them | composes `ScopeBuilderRefinement` with `ScopeRegister` |
| `ScriptRun` | `makeScript`, `VM::execute`, the control flow of a run | composes with `ScopeBuilder` |
| `ScopeRegister` | scopes and the toy compiler's declarations | – |
| `Runtime` | types, functions, addresses, the constructor of `ScriptBuilder`, `getOrDeclareFunction` | – |
| `TypeTables` | the builder's table by native type, next to the one by name | `Runtime` |
| `Vm` | scripts linked by the JIT against a runtime that changes | composes with `Runtime` |
| `Values` | value objects, the instructions they emit, and the execution of these | – |
| `ToyIrBuilder` | the visitor of the toy compiler, against what the source means | composes with `Values` |
| `*Proofs` | theorems about the module they are named after | that module, and the proofs they build on |
| `MC*` | TLC instances: symmetry sets, quotas, sample expressions, clients' types | the module they are named after |

Operators introduced by a comment `(Mutant: ...)` are faulty variants of the
definition after them. They occur in no specification; each one, put in the
place of its original, must make TLC report the property it is listed with in
`PROJECT.json`.

### ScopeBuilder

`kind`, `block`, `finalBlock`, `finaliseCalled` are the fields of the objects, one
entry per *address*; an address whose object was destroyed is reused. `builders`
is `builders_`. Of the LLVM module the model keeps, per block, its function, the
terminators inserted so far in order (`terms`) and whether the block currently ends
in one (`open`, that is `getTerminator() == nullptr`). One action per public call:
`NewFunction`, `Emit` (`call` and all the `new*` calls: at least one instruction that
is no terminator), `ReturnValue`, `IfStatement`, `ElseStatement`, `Finalise`,
`Destroy`, `ScriptFinalise` (also `getIr`), `DestroyScript`. An operand may belong to
another builder, whose block then gets the load (`ReadInto`).

No call of the code checks that the block is open, so no action does.
The ghost `misuses` counts the calls that write behind a terminator;
`MaxMisuses` bounds it. `head` and `region` are ghosts that remember which
branch and which join a block was made for.

`FinaliseEach` writes in one piece what the code does in a loop in hash order. That
is sound because no two builders fill the same block: `BlockOwnership`, proved.
`Destroy` is only enabled after the `ScriptBuilder` died if the builder was
finalised, because otherwise the destructor would go through dangling references;
`TeardownSafe`, proved, says that this guard never blocks a client.

### StructuredProgram and ScopeBuilderRefinement

`StructuredProgram` is the promise without builders: segments of code, where control goes
at the end of each (`next`), and where the region they are in continues (`cont`). An `Alternative` may be added to a condition
at any later time, and regions are completed in any order and number at once (`finalise` of the
`ScriptBuilder`). `Break` is a client's first call behind a terminator, after which nothing is promised.

The mapping takes basic blocks for segments, the targets of a block's terminator for `next`, and `region` for
`cont`; `Sound` is the absence of misuse. A step that only emits code, registers or drops a builder is not
seen. What has to be right for this is `elseStatement`: it must take one branch from the condition, give it to the
new arm, and lead the old arm to the join, although blocks nested in the arm have branches of their own.

### Scopes

`Enter` is `scope_` of the new builder, a child of the script's scope (`OpenFunction`), of the builder's it is made from
(`OpenIf`), or of the if arm's (`OpenElse`). `DeclareIn` is `visitDeclaration`: an instruction in the builder's block and a checked
`insert`; a value is identified with the block of its instruction. `Dominates` is dominance of blocks, stated without
paths: some set of blocks separates the entry from the use. A builder that moves on to an exit block keeps its
scope, and handles can be used in any order, so scope and block nest differently. `NamesDominate` says that they never disagree,
except where the code's own nesting is wrong: `elseStatement` opens the else arm's scope inside the if arm's, so
a name of the if arm is found there although its value is not computed. The property excuses exactly these names
(`OtherArms`); without the excuse TLC violates it in four steps. In `makeScript` the verifier then rejects the module.

### ScriptRun

`Build` is any step of `ScopeBuilder`. `MakeScript` copies the module if
`isModuleBroken` is false, `Execute(f)` enters the first block of `f`, and `Return`,
`Branch`, `NoBranch` are the terminators; a condition may go either way. A run
and the client do not overlap, since `execute()` is synchronous. Only the last script is
kept; a client that keeps more can run no more than one at a time.

### ScopeRegister

One entry per scope that was ever opened (`parent_` pointers keep ancestors alive).
`Insert` is what `visitFunctionDeclaration` does with arguments, unchecked; `Declare` is
`visitDeclaration`, which refuses a used name. `chain` is a ghost: the ancestors.

### Runtime

Type names are resolved twice: `declareFunction<R, Args...>` turns native types into
names, and the constructor of `ScriptBuilder` turns names into LLVM types, perhaps much
later. A signature has a return type and one argument; further arguments go the same
way. An address is identified with the native signature of its function (`Raw` for the
`void*` overload). Calls that throw without changing anything are disabled; those that
throw half way (`InitPlatform`, `NewScriptBuilder`) are modelled with what they leave.
Void as an argument type, which LLVM refuses in debug builds, is let through. The ghost
`rebound` tells whether a name was ever given to a second type.

### TypeTables

`types_` maps names to declarations, `from_native_types_` native types; the second is filled while iterating over a hash
map, so `KeepLast` lets any of a type's names win. A type with an `LLVMTypeAllocator` of its own (`Specialised`) has the same
LLVM type under each name, any other type a new structure per name: the unsigned integers are among these.
Constants are typed by the second table, parameters by the first, and nothing but the LLVM verifier compares them.

### Vm

Every `execute()` makes a `JitEngine` from the runtime as it is now and drops it afterwards, so the symbol table is
no variable: `Absolute` (the runtime's addresses), `AddsModule` (no symbol twice), `Links` (every function called is in the module,
an address, or exported by the process) and `Found` (the runtime's own functions are not, lacking the flag)
describe it. If any step fails, `ExitOnError` ends the process, hence `process`. A script is the set of functions it
has bodies for and the declarations of those it calls; `natives` and `rebound` are ghosts that remember what its builder knew.
`ran` is a ghost as well. `MakeScript` may pick any functions for bodies and calls among those declared.
A payload from `makeScript` parses, so `load()` does not fail; `Script` objects made by hand are left out.

### Values

Three orders are kept apart: the calls of the client, the instructions (each goes to the builder of the
object that emits it, `Home`), and execution (`Run`: one `Pass` for each block, through constants, `entry`, an arm, `exit`). `code` is the list of
instructions with the block each was put in, `cache` is `read_cache_`, one entry for each instruction. Calls read their operands one after the
other, each with its effects, so they are operators from state records to state records, and an action
applies one of them. Ghosts remember what the client means: `content` is the memory as of the calls made so far,
`meant` the word it expects of each instruction. `RunAgrees` compares that with execution. A store while a
cache is filled makes the variable `overwritten`; reading it through the cache sets `staleRead`, the only excuse.

Both kinds of array have the same operators: they read their operands in different orders, with the same
result. `newHeapVariable` differs from `newStackVariable` in that its values have no cache. The verifier is modelled by the
one check that matters here: an operand must be computed on every way to its use (`Dominates`), and nothing may stand
behind the terminator of an arm. `Binary` emits one instruction for each operator (`Apply`: `add`, `mul`, `icmp`). The model has one function and at most one `if`; `ScopeBuilder` has the general
control flow. There is one scalar type: operands of different types make a call throw before it has any
effect, or the verifier reject.

### ToyIrBuilder

One action per visitor that the grammar can reach: `VisitFunctionDeclaration` and `PopFunctionBuilder` (start and end of an
operation), `VisitDeclaration`, `VisitAssignment`, `VisitStatement` (an expression), `VisitReturn` and so on. The
syntax tree is not given: any statement over the constant set `Expressions` may come next, so TLC goes through all
short programs. `Visit` emits the code of an expression with the operators of `Values`, in the order of the
C++ code: an index before the array it is applied to, identifiers without any code, reading only when an
operator needs a value. `Eval` and `Effects` are what the language means, written
independently of it, with operators of its own (`Calculate`). An operation without arguments makes the visitor use a null
pointer (`VisitBareFunctionDeclaration`, `parser.cpp:69`). An exception (`failed`) leaves `compile()`, which drops everything built, so it ends the behaviour.

The ghost `undefined` marks programs whose meaning the comparison leaves out: an index outside its array, a `return`
without a value (it emits nothing), a second body for a name (dead code). The ghost `unfaithful` marks operations whose source has a meaning that the compiler is known to miss,
and is set by what the source contains, not by what the code does with it: `-` and `/`, which `OpCode` compiles to an addition and a multiplication as
`parser.cpp:274` and `:280` do, and arrays of several elements that are wider than one byte. `OperatorsMeanSource` and `ElementsInBounds` claim
the meaning and the bounds for these as well, and their runs refute them; the properties that hold leave out exactly them. Every `let` throws (`parser.cpp:231`), so the demo
program at the end of `parser.cpp`, which contains two, does not compile.

## Runs

| Run | Instance | Shows |
|---|---|---|
| `structured` | 3 builders, 7 blocks, no misuse | `BuildsStructuredProgram`, `WaysMeet`, `BlocksClosed`, `StructuredFlow`, `ArmsEntered` |
| `finalised` | 2 builders, 4 blocks, 1 misuse | violation: finalised blocks can be modified |
| `scripts` | 2 builders, 5 blocks, 1 misuse, a void function | `RegistryExact`, `TeardownSafe`, `BlockOwnership`, `MisuseIsCaught`, `ScriptNotMisused`, `ExclusiveArms`, `NeverRepeats`, and liveness: `RunReturns` |
| `scopes` | 4 scopes, 2 names, 2 values | `HasIsBacked`, `GetFindsNearest`, `DeclarePreservesMeaning` |
| `names` | 3 builders, 6 blocks, 5 scopes, a name, no misuse | `NamesDominate` |
| `abi` | 3 native types, one of them a structure, 3 names, 1 function | `AbiMatches`, `NativeAlwaysResolves`, `NativeArgumentsFit`, `DefinitionsAreFinal` |
| `readme` | 2 native types, 2 names, 1 function | violation: the README's runtime cannot be built on |
| `vm` | 2 native types, 2 names, a native and a script function | `LinkedCallsFit`, `RunnableStaysRunnable`, `DefinedIsAvailable` |
| `values` | 7 instructions, one variable of each kind or an array of 3 cells with elements of size 2, 2 stores, an if with else | `RunAgrees`, `ArmsHaveNoEffect` |
| `toy` | programs of about 4 statements with one-byte scalars, `+`, `*`, arrays of two elements, 8 expressions | `CompiledMeansSource`, `NeverStale`, `AddressesInBounds` |
| `operators` | one-byte programs with all four operators | violation: `-` and `/` mean something else |
| `elements` | Int64 programs with arrays of one and of two elements | violation: elements outside their array |

Each passing run also checks the type invariant of its module.

Bounds. Seven blocks hold a function with an if/else nested in an arm of another (entry,
two joins, four arms); three builders are one per nesting level, and
addresses are reused, so more objects than that are created. One misuse is enough
to start from: the properties say what holds after the first. Four blocks
hold an if with an else, five leave room for a second `entry` block, six for an if nested in an arm. Four
scopes give a chain of depth four and every tree below it; five are a function, an if with an else, and one more arm. Permutations of builders and
names are symmetries: no definition tells two of them apart (`CHOOSE` picks from sets that are singletons, by
`BlockOwnership`). The run that checks liveness uses no symmetry.

`Runtime`, `TypeTables` and `Vm`: the clients of an instance choose from a set of pairs of a type and a name (`ClientTypes`, in `TypeTables` `NamedTypes`) in which a type has several
names, a name two types, and the structure two names, and from a few signatures (`ClientSigs`, `NamedSigs`); all orders of the calls are explored. In `vm`,
`main` is exported by the process as well, so that it can be found in three ways.

`Values`: seven instructions hold a literal, a variable, a store, a load, a condition, a second store in an arm and a load
behind the join, the shortest history in which a cache filled in one block is used in another after a store.
Words are computed modulo 3 (10 where elements have size 8, so that an offset fits), so that a stored word differs from the one before and from `NoWord`.
`Quota` limits each kind of instruction (none of `mul` and `icmp`, which differ from `add` in the word they compute only; `mul` occurs in `toy`), and nothing is explored behind code that the verifier rejects, since it stays
rejected. In `toy` a program is a
declaration, an assignment that reads the variable, a call and a return; `Room` stops statements that might not fit. Its scalars
are one byte because with them scaling twice is harmless; literals, which are Int64, then occur as indices only. Elements of several bytes are the subject of `elements`,
and of the theorems, which hold for every size. In `values`, elements of size 2 make the scaling by `getArrayElement` visible: its index 1 is the cell that `get` and `set` reach by index 2, which a client computes as 1 + 1.

Deadlock is not checked, except in `abi` and `readme`: the bounds, an exception in the toy compiler, the destruction of the `ScriptBuilder`, and `ExitOnError` in the VM end a behaviour.

Fairness. Only `ScriptRun` assumes any: weak fairness of `Step`, the processor going on
with the code it is in. It includes the assumption that functions called from the run
return; the code does not stop a script from calling itself for ever. Nothing is assumed of the
client.

## Divergences found

* `finalised`: the guard `requireIsActive()` ("Block was finalised and cannot be modified.",
  `scope-builder.cpp:186`) is called by the qubit operations only. All other calls write to a
  finalised block. `MisuseIsCaught` shows what saves the program: the verifier in `makeScript`.
  `getIr`, which does not verify, prints such modules.
* `readme`: the runtime of `README.md:19-24` declares a function over the name `Int8`, which it never
  defines, so `ScriptBuilder(rt)` of `README.md:48` throws.
* `operators`: `-` is compiled to an addition and `/` to a multiplication (`parser.cpp:274`, `:280`, both marked TODO), although the
  grammar accepts both and remainder is refused. TLC finds `1 - 1` returning 2.
* `elements`: `visitArrayInitializer` and `getArrayElement` multiply an index by the size of the element
  (`parser.cpp:143`, `mutable-stack-array.hpp:56`), and `CreateGEP` multiplies again. With Int64 elements every
  index but 0 is outside the array. The demo program uses index 3 of four elements (`parser.cpp:509`).

## Proofs

All theorems hold for every value of the constants allowed by the assumptions
(`ConstantsAssumption`, `ScopeAssumption`, `RuntimeAssumption`, `SigAssumption`, `VmAssumption`, `TablesAssumption`, `ValuesAssumption`, `ToyAssumption`: sentinels are different from
real values, bounds are natural numbers, sets are over the types and functions there are, and literals and the offsets in an array fit into an integer). Every leaf is checked by TLAPS with Z3, Zenon and LS4.

*ScopeBuilder.* The inductive invariant is `Inv == TypeInv /\ RegistryInv /\ BlockOwnership /\ ClosureInv`.
`TypeInv` adds to `TypeOK` that blocks beyond `nblocks` are untouched and that live
builders fill existing blocks, so that a new block is nobody else's: that gives
`BlockOwnership` (`BlocksAreOwned`). `RegistryInv` gives `RegistryIsExact` and `TeardownIsSafe`.
`ClosureInv` counts the terminators of each block: without misuse an open block has
none and a closed one has one, an open block has a registered owner, and after a misuse some block has
too many. It is not inductive without ownership (finalising one builder must not
close another's block) nor without the registry (the owner must be registered). From it follow
`BlocksAreClosed` and `MisuseIsAlwaysCaught`.

*ScopeBuilderRefinement.* `ImplementsStructuredProgram` is the step simulation, under `Inv /\ FlowInv`. `FlowInv` says of
a module without misuse: a live builder fills a block whose region is its final block (`FinalsAgree`); branches lead to blocks that
exist (`Bounded`); a branch leads to a block whose `head` it comes from or to its own region, and every `head` still branches there;
and for every if arm that is still open (`Pending`), its condition and nothing else leads to the join, and no
other builder will (`Skippable`). The last part is what
makes `elseStatement` right: it redirects every use of the join, so there must be exactly one. It is not inductive without block
ownership: closing one builder must not close another's arm. `FlowIsStructured` and `ArmsAreEntered` follow from `FlowInv`. These proofs are in
`ScopeBuilderProofs` too.

*StructuredProgram.* Three theorems are proved of the abstract program alone and carried over to the builders by the refinement.
`WaysAlwaysMeet` gives `AllWaysMeet`. `NoLoops` says that the segments have an order (`rank`) that control only ascends; the witness changes with
every step: a condition or an alternative is put between what it is behind and what it goes on to, by spreading the ranks. `ArmsStayApart` says that no region goes on
in an arm. They are stated of the order, not of paths, so no induction over data is needed.

*ScriptRun.* `RunsAreBuilderSteps` is the refinement `RunSpec => Spec`, so everything proved of
`ScopeBuilder` holds while scripts are made and run. `ScriptsAreNotMisused` follows: `makeScript`
refuses a module with a malformed block, and `MisuseIsCaught` says a misused module has one. `Runnable` (`AlwaysRunnable`) is what
`NoLoops` and `ArmsStayApart` say of a module: its blocks have an order, and what leads to one arm leads to the other. A script inherits it
from the module it is a copy of, and `RunInv` adds `Ascended`: a run has come up to where it is. Behind the condition both arms are above, so when a run enters one it has
not been in the other (`ArmsAreExclusive`), and no block runs twice (`RunsNeverRepeat`).
`RunInv` is not inductive without `SiblingsTogether`: an arm must not be entered but from the condition.

*ScopeRegister.* `HasIsBacked` is inductive with the fact that a scope is in its own chain. `get` is a recursive function; what it computes is
found without induction over data. `TreeInv` says that parents are opened before their children (`Upward`), that `chain` is
the scope and its parent's chain, and that used names were copied from the parent when the scope was opened. That the recursion
has the value it is written with (`GetUnfolds`) is shown by a construction for all scopes up to a least one for which it fails; `Smallest`, which provides it, is
obtained from the well-founded order of the naturals by `WFMin`, which has no operator parameter. `GetAlwaysFindsNearest` and `DeclareAlwaysPreservesMeaning` take a least
counterexample in the same way. `Kept` is what every operation leaves alone; it is what the composition in `Scopes` needs.

*Scopes.* `ScopesAreBuilderSteps` (`ScopesSpec => Spec`) and `ScopesUseRegister` (`ScopesSpec => Tree!Spec`) make both parts' theorems available. `NamesDominate` is about
all ways through the blocks. Its invariant `NamesInv` says that there is an `Ancestry`: a set of blocks for every block, such that whatever is before a block in the sets of its
predecessors is in its own. It is a post-fixed point, so every block in it dominates (`AncestorsDominate`), and no path has to be looked at. `Reached` says of a builder that the value of each name of its scope is
in the set of its block; and, because an else arm may still be made, whose block starts before the exit block, that the names an if arm has from outside are before
its exit block as well. This second part is what makes it inductive: `elseStatement` gives the new block the set of the exit block without that block itself,
and the names that are not covered are those declared in the if arm, which is what the property excuses. An excuse stays one because nothing a scope holds is
replaced (`ExcuseKept`, from `Kept`).

*Runtime.* `AbiAlwaysMatches` needs `NamesAgree` (the name of a type names that type while
nothing was rebound), `AddressesAgree` (a lambda's recorded names resolve to its signature) and
`ImportsDeclared` (an imported function has a declaration, so neither the runtime nor the builder changes
it any more). `RegisterGrows` is the lemma behind them: without rebinding the register only grows.
`DefinitionsStayFinal` is the action property that the two compositions rest on.

*TypeTables* (in `RuntimeProofs`, as is *Vm*). `TablesAreRuntime` makes the invariant above available. Added are `TablesAgree` (a type that has a name is kept under one of
its names) and `ImportsResolved` (what the constructor declared resolves in its own copy of the types, whatever the runtime
has become). With `AbiMatches` they give `NativeArgumentsAlwaysFit`.

*Vm.* `VmIsRuntime` is the refinement `VmSpec => Spec`. `VmInv` adds `Known` (the imported functions a script calls still have the address and the
signature they had) and `RanLinked` (what ran was linked, and nothing it was linked to goes away). Both are kept by a step of the runtime
because definitions are final. The four invariants of `Vm` follow.

*Values.* `RunsAlwaysAgree` compares two orders: of the calls, and of execution. `Good` is what every call keeps of the state it passes on: an instruction is applied to earlier ones of
the right kinds, and an access is emitted by the builder of the object it accesses (`Fits`); builder `f` never returns from `exit` to
`entry` (`Ordered`); the memory is what the stores so far left in it, and a load got what the stores before it
left (`Stored`); a filled cache is the load of its variable, with the present content unless it was overwritten (`Cached`); and
each instruction means what its operands do, unless a stale cache was read (`Faithful`). None of the last three is inductive alone: an operand is as
often a cached load as a new one. `Pass` is a recursive function; that it has the value it is written with is again shown by a construction
(`PassSteps`). Then the run is followed pass by pass (`PassAgrees`): a register gets what its instruction means, and a cell what the stores to it executed so far mean. The crux is `Stored`
against execution. An object's stores and loads are all emitted by one builder, so if they run, they run in the order of the calls,
whatever is executed in between. `ArmsNeverHaveEffect` follows the passes for
both arms at once: an access is emitted by its object's builder and a pointer stays in the object it was made for (`Points`), so an arm
changes no cell of `f`, and what `f` computes at the exit is the same whichever arm was taken.

*ToyIrBuilder.* `CompilerMeansSource` says that the compiler is right: what a run passes to functions and returns (`Heard`) is what the source says.
The invariant, `ToyInv`, has three parts beside `GoodState` of `Values`. `Neat`: all code is straight, no two cached values share a cell, and no cache was overwritten,
although caches outlive the statement that filled them; this gives `CompilerNeverStale`. `Named`: a name of the scope has a handle of its own, that
of an argument or a variable, so an assignment changes one name only. `Denotes`: the value meant by the handle is the one the source gives to the name.
The last is not inductive without the other two: a variable is read lazily, so what it means must survive the code of every expression between. Expressions are
followed in the order of the C++ code, by one lemma for each visitor (`AtomComputes` to `ElementComputes`): the visit adds instructions that keep what was meant before (`Follows`), says what the
source says, and its result means what `Eval` gives. In the element expression, arrays are filled by a recursive function; it is followed element by element (`FillFacts`, `SlotsDiffer`). Then
`GoodRunsAgree` of `Values` carries the meaning over to execution; the verifier accepts straight code (`StraightIsAccepted`).
`AddressesStayInBounds` needs no hypothesis on the size of the elements: as long as the operation is neither `undefined` nor `unfaithful` (`Clear`), either elements have size one, and
scaling the offset twice changes nothing, or arrays have one element, and the only offset is zero (`Narrow`). `Denotes` and what was said are invariant under `Clear` only, since a wrong operator or address
makes all that comes after it mean something else; `JudgeFacts` says that a step which ends in `Clear` began there and evaluates only expressions the compiler gets right.

Only model-checked: `RunReturns`, because liveness is beyond the prover. Its safety core, `NeverRepeats`, is proved.

## Not modelled, and why

* Qubit operations: they call through function pointers that nothing ever assigns.
* `ConstantArray`: stateless; every read makes a new global of the same content.
* `TypeDeclarationRegister` (`runtime/type-register.*`): instantiated by nothing. `registerType`: called by nothing.
* `ValueConverter` in `llvm-helpers.hpp`, `named-value.hpp`, `constant-int-sum-expr.hpp`: dead code. Rust and C# files: samples.
* Values used after the builder that made them died (`typed-value-prototype.hpp:48`): the client's obligation; the outcome is undefined.
* Widths of constants (`parser.cpp:317`): conversions of a single value on which no state depends.
* The call from C++ into a script's function: its argument types are the client's claim (`vm.hpp:49`).
* LLVM itself is external: blocks, terminators, `replaceUsesWithIf` and the parts of the verifier that look at
  terminators and return types. The verifier's other checks (dominance, operand types) only reject more.

## Plan

1. Types in `ToyIrBuilder`, so that the exceptions for operands of different types occur, and operations with several arguments.
2. Several scripts at a time in `Vm`, and scripts whose functions call one another (`ScriptRun` has the control flow, `Vm` the linking).
