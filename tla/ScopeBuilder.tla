---------------------------- MODULE ScopeBuilder ----------------------------
(***************************************************************************)
(* The ScopeBuilder / IfStatement / ElseStatement objects of               *)
(* svadilfari/cc/script-builder/scope-builder.{hpp,cpp}, the registry of   *)
(* live builders that ScriptBuilder keeps, and the basic blocks they fill. *)
(*                                                                         *)
(* A client (a Python script or the toy compiler) holds builder handles in *)
(* any order and for any time; every public call is one atomic action, as  *)
(* the program is single threaded.  Nothing in the code stops a client     *)
(* from using a builder whose block is already terminated, so the actions  *)
(* do not either; the ghost "misuses" counts the calls that do.            *)
(*                                                                         *)
(* Of a basic block the model keeps what getTerminator() and the verifier  *)
(* look at: the terminators inserted so far, in order, and whether the     *)
(* block currently ends in one of them.                                    *)
(***************************************************************************)
EXTENDS Naturals, Sequences

CONSTANTS
  Builders,       \* addresses a ScopeBuilder object may be allocated at
  NoBuilder,      \* "the operand emits nothing when it is read"
  Functions,      \* LLVM functions of the module
  VoidFunctions,  \* those whose return type is void
  NoFunction,     \* parent of a block that does not exist yet
  MaxBlocks,      \* bound: basic blocks ever created in the module
  MaxMisuses      \* bound: calls that write to a block that is already terminated

ASSUME ConstantsAssumption ==
  /\ NoBuilder \notin Builders
  /\ NoFunction \notin Functions
  /\ VoidFunctions \subseteq Functions
  /\ MaxBlocks \in Nat
  /\ MaxMisuses \in Nat

Blocks  == 1..MaxBlocks
NoBlock == 0

\* Terminator instructions.
Kinds == {"ret", "retvoid", "br", "condbr"}
Terminators ==
  [kind : Kinds, onTrue : Blocks \cup {NoBlock}, onFalse : Blocks \cup {NoBlock}]

Ret          == [kind |-> "ret",     onTrue |-> NoBlock, onFalse |-> NoBlock]
RetVoid      == [kind |-> "retvoid", onTrue |-> NoBlock, onFalse |-> NoBlock]
Br(b)        == [kind |-> "br",      onTrue |-> b,       onFalse |-> NoBlock]
CondBr(t, f) == [kind |-> "condbr",  onTrue |-> t,       onFalse |-> f]

VARIABLES
  \* ScriptBuilder
  scriptAlive,    \* the ScriptBuilder (and its module) has not been destroyed
  builders,       \* builders_: the set of raw pointers to registered builders
  \* ScopeBuilder objects
  kind,           \* the dynamic type of the object, or "free" memory, whose
                  \* fields are kept at NoBlock, NoBlock and TRUE
  block,          \* block_, also the insertion point of builder_
  finalBlock,     \* final_block_ of an If/ElseStatement; NoBlock: no terminator function
  finaliseCalled, \* finalise_called_
  \* llvm::Module
  nblocks,        \* blocks 1..nblocks exist
  parent,         \* BasicBlock::getParent()
  terms,          \* terminators of each block, in insertion order
  open,           \* getTerminator() = nullptr: the block does not end in a terminator
  \* ghosts
  misuses,        \* number of calls that wrote to an already terminated block
  head,           \* head[b]: the block whose conditional branch should lead to b
  region          \* region[b]: the join block of the innermost arm b belongs to

scriptVars  == <<scriptAlive, builders>>
builderVars == <<kind, block, finalBlock, finaliseCalled>>
moduleVars  == <<nblocks, parent, terms, open>>
ghostVars   == <<misuses, head, region>>
vars        == <<scriptVars, builderVars, moduleVars, ghostVars>>

-----------------------------------------------------------------------------
Live == {a \in Builders : kind[a] # "free"}

\* ScopeBuilder::isActive
IsActive(a) == open[block[a]]

\* readValue() of an operand may emit a load, and it emits it into the block
\* of the builder e that created the value, not of the builder being called.
ReadInto(o, e) == IF e = NoBuilder THEN o ELSE [o EXCEPT ![block[e]] = TRUE]

\* Ghost: a call on builder a whose operand belongs to e is a misuse if it
\* writes to a block that ends in a terminator, which requireIsActive() would
\* have refused.
CountMisuse(a, e) ==
  LET misuse == ~IsActive(a) \/ (e # NoBuilder /\ ~IsActive(e))
  IN /\ misuse => misuses < MaxMisuses
     /\ misuses' = IF misuse THEN misuses + 1 ELSE misuses

\* Value::replaceUsesWithIf on the uses of block "old"; no phi node is ever
\* created, so the filter excludes nothing.
\* (Mutant: the second operand of a conditional branch is forgotten.)
RetargetFirst(t, old, new) == [t EXCEPT !.onTrue = IF @ = old THEN new ELSE @]
\* (Mutant: the use is replaced whatever block it names.)
RetargetAny(t, old, new) == [t EXCEPT !.onTrue = IF @ = NoBlock THEN @ ELSE new]
Retarget(t, old, new) ==
  [t EXCEPT !.onTrue  = IF @ = old THEN new ELSE @,
            !.onFalse = IF @ = old THEN new ELSE @]

ReplaceUses(ts, old, new) ==
  [b \in Blocks |-> [i \in DOMAIN ts[b] |-> Retarget(ts[b][i], old, new)]]

\* The constructor: the object is placed at c, fills block b, and registers.
\* (Mutant: addBuilder is not called.)
ConstructUnregistered(c, k, b, final) ==
  /\ kind'           = [kind EXCEPT ![c] = k]
  /\ finalBlock'     = [finalBlock EXCEPT ![c] = final]
  /\ finaliseCalled' = [finaliseCalled EXCEPT ![c] = FALSE]
  /\ builders'       = builders
Construct(c, k, b, final) ==
  /\ kind'           = [kind EXCEPT ![c] = k]
  /\ finalBlock'     = [finalBlock EXCEPT ![c] = final]
  /\ finaliseCalled' = [finaliseCalled EXCEPT ![c] = FALSE]
  /\ builders'       = builders \cup {c}

\* The terminator finalise() adds: the terminator function of an
\* If/ElseStatement branches to the final block, a function's scope returns.
\* (Mutant: a function's scope is closed by an unreachable.)
ClosingUnreachable(a) == IF finalBlock[a] = NoBlock THEN [RetVoid EXCEPT !.kind = "unreachable"]
                                                    ELSE Br(finalBlock[a])
\* (Mutant: the branch leads back into the builder's own block.)
ClosingLooping(a) == IF finalBlock[a] = NoBlock THEN RetVoid ELSE Br(block[a])
Closing(a) == IF finalBlock[a] = NoBlock THEN RetVoid ELSE Br(finalBlock[a])

\* ScopeBuilder::finalise on every builder of S.  The code visits them one by
\* one in hash order; no two of them fill the same block (BlockOwnership), so
\* the order does not show and the update is written in one piece.
\* (Mutant: the isActive() test is dropped.)
FinaliseEachAlways(S) ==
  LET todo     == {a \in S : ~finaliseCalled[a]}
      Closes(b) == \E a \in todo : block[a] = b
      Owner(b) == CHOOSE a \in todo : block[a] = b
  IN /\ terms' = [b \in Blocks |-> IF Closes(b)
                                   THEN Append(terms[b], Closing(Owner(b)))
                                   ELSE terms[b]]
     /\ open' = [b \in Blocks |-> open[b] /\ ~Closes(b)]
     /\ finaliseCalled' = [a \in Builders |-> finaliseCalled[a] \/ a \in todo]
     /\ builders' = builders \ todo
FinaliseEach(S) ==
  LET todo     == {a \in S : ~finaliseCalled[a]}
      Closes(b) == open[b] /\ \E a \in todo : block[a] = b
      Owner(b) == CHOOSE a \in todo : block[a] = b
  IN /\ terms' = [b \in Blocks |-> IF Closes(b)
                                   THEN Append(terms[b], Closing(Owner(b)))
                                   ELSE terms[b]]
     /\ open' = [b \in Blocks |-> open[b] /\ ~Closes(b)]
     /\ finaliseCalled' = [a \in Builders |-> finaliseCalled[a] \/ a \in todo]
     /\ builders' = builders \ todo

-----------------------------------------------------------------------------
Init ==
  /\ scriptAlive = TRUE
  /\ builders = {}
  /\ kind = [a \in Builders |-> "free"]
  /\ block = [a \in Builders |-> NoBlock]
  /\ finalBlock = [a \in Builders |-> NoBlock]
  /\ finaliseCalled = [a \in Builders |-> TRUE]
  /\ nblocks = 0
  /\ parent = [b \in Blocks |-> NoFunction]
  /\ terms = [b \in Blocks |-> <<>>]
  /\ open = [b \in Blocks |-> TRUE]
  /\ misuses = 0
  /\ head = [b \in Blocks |-> NoBlock]
  /\ region = [b \in Blocks |-> NoBlock]

\* ScriptBuilder::newFunction: a second call for the same function appends
\* another "entry" block to it.
\* (Mutant: a function that has an entry block already is continued there.)
NewFunctionReusing(f, c) ==
  LET reused == {b \in Blocks : parent[b] = f}
      entry == IF reused = {} THEN nblocks + 1 ELSE CHOOSE b \in reused : TRUE
  IN
  /\ scriptAlive
  /\ kind[c] = "free"
  /\ entry \in Blocks
  /\ nblocks' = IF reused = {} THEN entry ELSE nblocks
  /\ parent' = [parent EXCEPT ![entry] = f]
  /\ block' = [block EXCEPT ![c] = entry]
  /\ Construct(c, "function", entry, NoBlock)
  /\ UNCHANGED <<scriptAlive, terms, open, ghostVars>>
NewFunction(f, c) ==
  LET entry == nblocks + 1 IN
  /\ scriptAlive
  /\ kind[c] = "free"
  /\ entry \in Blocks
  /\ nblocks' = entry
  /\ parent' = [parent EXCEPT ![entry] = f]
  /\ block' = [block EXCEPT ![c] = entry]
  /\ Construct(c, "function", entry, NoBlock)
  /\ UNCHANGED <<scriptAlive, terms, open, ghostVars>>

\* ScopeBuilder::call, newStackVariable, newStackArray, newHeapVariable,
\* newHeapArray, constantGetElement: each puts at least one instruction that
\* is no terminator at the end of the builder's block, after reading its
\* operand (an argument of the call, the size of an array) if it has one.
Emit(a, e) ==
  /\ scriptAlive
  /\ a \in Live
  /\ e \in Live \cup {NoBuilder}
  /\ open' = [ReadInto(open, e) EXCEPT ![block[a]] = TRUE]
  /\ CountMisuse(a, e)
  /\ UNCHANGED <<scriptVars, builderVars, nblocks, parent, terms, head, region>>

\* ScopeBuilder::returnValue.
\* (Mutant: the return takes the place of the terminator that is there.)
ReturnValueReplacing(a, e) ==
  /\ scriptAlive
  /\ a \in Live
  /\ e \in Live \cup {NoBuilder}
  /\ terms' = [terms EXCEPT ![block[a]] = <<Ret>>]
  /\ open' = [ReadInto(open, e) EXCEPT ![block[a]] = FALSE]
  /\ CountMisuse(a, e)
  /\ UNCHANGED <<scriptVars, builderVars, nblocks, parent, head, region>>
ReturnValue(a, e) ==
  /\ scriptAlive
  /\ a \in Live
  /\ e \in Live \cup {NoBuilder}
  /\ terms' = [terms EXCEPT ![block[a]] = Append(@, Ret)]
  /\ open' = [ReadInto(open, e) EXCEPT ![block[a]] = FALSE]
  /\ CountMisuse(a, e)
  /\ UNCHANGED <<scriptVars, builderVars, nblocks, parent, head, region>>

\* ScopeBuilder::ifStatement: the builder moves on to the exit block, the
\* IfStatement placed at c fills the true block.
IfStatement(a, e, c) ==
  LET from  == block[a]
      exit  == nblocks + 1
      true  == nblocks + 2
  IN
  /\ scriptAlive
  /\ a \in Live
  /\ e \in Live \cup {NoBuilder}
  /\ kind[c] = "free"
  /\ true \in Blocks
  /\ nblocks' = true
  /\ parent' = [parent EXCEPT ![exit] = parent[from], ![true] = parent[from]]
  /\ terms' = [terms EXCEPT ![from] = Append(@, CondBr(true, exit))]
  /\ open' = [ReadInto(open, e) EXCEPT ![from] = FALSE]
  /\ block' = [block EXCEPT ![a] = exit, ![c] = true]
  /\ Construct(c, "if", true, exit)
  /\ CountMisuse(a, e)
  /\ head' = [head EXCEPT ![exit] = from, ![true] = from]
  /\ region' = [region EXCEPT ![exit] = region[from], ![true] = exit]
  /\ UNCHANGED scriptAlive

\* IfStatement::elseStatement: all branches to the final block are redirected
\* to the new else block, then this arm is closed with a branch to the final
\* block.
\* (Mutant: the arm is closed before the branches are redirected.)
ElseStatementClosingFirst(a, c) ==
  LET final == finalBlock[a]
      else  == nblocks + 1
  IN
  /\ scriptAlive
  /\ kind[a] = "if"
  /\ kind[c] = "free"
  /\ else \in Blocks
  /\ nblocks' = else
  /\ parent' = [parent EXCEPT ![else] = parent[final]]
  /\ terms' = ReplaceUses([terms EXCEPT ![block[a]] = Append(@, Br(final))], final, else)
  /\ open' = [open EXCEPT ![block[a]] = FALSE]
  /\ block' = [block EXCEPT ![c] = else]
  /\ Construct(c, "else", else, final)
  /\ CountMisuse(a, NoBuilder)
  /\ head' = [head EXCEPT ![else] = head[final], ![final] = NoBlock]
  /\ region' = [region EXCEPT ![else] = final]
  /\ UNCHANGED scriptAlive
ElseStatement(a, c) ==
  LET final == finalBlock[a]
      else  == nblocks + 1
  IN
  /\ scriptAlive
  /\ kind[a] = "if"
  /\ kind[c] = "free"
  /\ else \in Blocks
  /\ nblocks' = else
  /\ parent' = [parent EXCEPT ![else] = parent[final]]
  /\ terms' = [ReplaceUses(terms, final, else)
                 EXCEPT ![block[a]] = Append(@, Br(final))]
  /\ open' = [open EXCEPT ![block[a]] = FALSE]
  /\ block' = [block EXCEPT ![c] = else]
  /\ Construct(c, "else", else, final)
  /\ CountMisuse(a, NoBuilder)
  /\ head' = [head EXCEPT ![else] = head[final], ![final] = NoBlock]
  /\ region' = [region EXCEPT ![else] = final]
  /\ UNCHANGED scriptAlive

\* ScopeBuilder::finalise, which is public.
Finalise(a) ==
  /\ scriptAlive
  /\ a \in Live
  /\ FinaliseEach({a})
  /\ UNCHANGED <<scriptAlive, kind, block, finalBlock, nblocks, parent, ghostVars>>

\* ScopeBuilder::~ScopeBuilder: the last handle is dropped.  This may come
\* after the ScriptBuilder is gone, when finalise() must have nothing left to
\* do (TeardownSafe): it would reach through dangling references.
Destroy(a) ==
  /\ a \in Live
  /\ scriptAlive \/ finaliseCalled[a]
  /\ FinaliseEach({a})
  /\ kind' = [kind EXCEPT ![a] = "free"]
  /\ block' = [block EXCEPT ![a] = NoBlock]
  /\ finalBlock' = [finalBlock EXCEPT ![a] = NoBlock]
  /\ UNCHANGED <<scriptAlive, nblocks, parent, ghostVars>>

\* ScriptBuilder::finalise and getIr: every registered builder is finalised.
ScriptFinalise ==
  /\ scriptAlive
  /\ FinaliseEach(builders)
  /\ UNCHANGED <<scriptAlive, kind, block, finalBlock, nblocks, parent, ghostVars>>

\* ScriptBuilder::~ScriptBuilder, possibly while builders are still held.
\* (Mutant: the destructor does not call finalise.)
DestroyScriptOnly ==
  /\ scriptAlive
  /\ scriptAlive' = FALSE
  /\ UNCHANGED <<builders, builderVars, moduleVars, ghostVars>>
DestroyScript ==
  /\ scriptAlive
  /\ FinaliseEach(builders)
  /\ scriptAlive' = FALSE
  /\ UNCHANGED <<kind, block, finalBlock, nblocks, parent, ghostVars>>

Next ==
  \/ \E f \in Functions, c \in Builders : NewFunction(f, c)
  \/ \E a \in Builders : Finalise(a) \/ Destroy(a)
  \/ \E a \in Builders, e \in Builders \cup {NoBuilder} : Emit(a, e) \/ ReturnValue(a, e)
  \/ \E a, c \in Builders, e \in Builders \cup {NoBuilder} : IfStatement(a, e, c)
  \/ \E a, c \in Builders : ElseStatement(a, c)
  \/ ScriptFinalise
  \/ DestroyScript

Spec == Init /\ [][Next]_vars

-----------------------------------------------------------------------------
(* What LLVM's verifier, run by makeScript, looks at. *)

\* A terminator has instructions behind it: no later call can remove them.
Malformed(b) == terms[b] # <<>> /\ (Len(terms[b]) > 1 \/ open[b])

\* The block has not been given its terminator yet.
Unterminated(b) == terms[b] = <<>>

\* The return instructions of the block fit the function's return type.
ReturnsFit(b) ==
  \A i \in DOMAIN terms[b] :
    /\ terms[b][i].kind = "ret" => parent[b] \notin VoidFunctions
    /\ terms[b][i].kind = "retvoid" => parent[b] \in VoidFunctions

\* ScriptBuilder::isModuleBroken, as far as control flow goes.
\* (Mutant: code behind a terminator goes unnoticed.)
isModuleBrokenLenient == \E b \in 1..nblocks : Unterminated(b) \/ ~ReturnsFit(b)
isModuleBroken ==
  \E b \in 1..nblocks : Malformed(b) \/ Unterminated(b) \/ ~ReturnsFit(b)

-----------------------------------------------------------------------------
(* Properties. *)

\* Type correctness of every variable.
TypeOK ==
  /\ scriptAlive \in BOOLEAN
  /\ builders \in SUBSET Builders
  /\ kind \in [Builders -> {"free", "function", "if", "else"}]
  /\ block \in [Builders -> Blocks \cup {NoBlock}]
  /\ finalBlock \in [Builders -> Blocks \cup {NoBlock}]
  /\ finaliseCalled \in [Builders -> BOOLEAN]
  /\ nblocks \in 0..MaxBlocks
  /\ parent \in [Blocks -> Functions \cup {NoFunction}]
  /\ terms \in [Blocks -> Seq(Terminators)]
  /\ open \in [Blocks -> BOOLEAN]
  /\ misuses \in 0..MaxMisuses
  /\ head \in [Blocks -> Blocks \cup {NoBlock}]
  /\ region \in [Blocks -> Blocks \cup {NoBlock}]

\* builders_ holds exactly the builders that exist and were not finalised, so
\* ScriptBuilder::finalise never follows a pointer to a freed builder, never
\* misses one, and its assert(builders_.size() == 0) holds; this although
\* addresses are reused and builders die in any order.
RegistryExact == builders = {a \in Live : ~finaliseCalled[a]}

\* Builders that outlive their ScriptBuilder have nothing left to do:
\* ~ScopeBuilder will not touch the destroyed registry or the freed block.
TeardownSafe == ~scriptAlive => \A a \in Live : finaliseCalled[a]

\* No two builders ever append to the same basic block, whatever blocks
\* ifStatement and elseStatement have handed around.
BlockOwnership ==
  \A a, c \in Live : block[a] = block[c] => a = c

\* As long as no call wrote to a terminated block, every block either has
\* exactly one terminator, at its end, or has none and a registered builder
\* that will close it.  finalise() therefore leaves no block unterminated.
BlocksClosed ==
  misuses = 0 => \A b \in 1..nblocks :
    /\ ~Malformed(b)
    /\ Unterminated(b) => \E a \in builders : block[a] = b

\* The verifier in makeScript sees every misuse, and sees it for good: once a
\* call has written behind a terminator the module is broken for ever.
MisuseIsCaught == misuses > 0 => \E b \in 1..nblocks : Malformed(b)

\* The control flow of a module that was not misused is the structured one:
\* a branch leads from the block an if statement was called in to one of its
\* arms (to the exit block while there is no else), or from inside an arm to
\* the exit block of its own if statement.  In particular elseStatement
\* redirects the conditional branch of its if statement and nothing else.
StructuredFlow ==
  misuses = 0 => \A b \in 1..nblocks : \A i \in DOMAIN terms[b] :
    LET Legal(v) == v = NoBlock \/ head[v] = b \/ region[b] = v
    IN Legal(terms[b][i].onTrue) /\ Legal(terms[b][i].onFalse)

\* No arm is lost: every block made for an arm, and the exit block while there
\* is no else, is the target of the conditional branch it was made for.
ArmsEntered ==
  misuses = 0 => \A b \in 1..nblocks : head[b] # NoBlock =>
    /\ terms[head[b]] # <<>>
    /\ b \in {terms[head[b]][1].onTrue, terms[head[b]][1].onFalse}

\* "Block was finalised and cannot be modified." (scope-builder.cpp:186):
\* nothing is added to a block that ends in a terminator.
FinalisedBlocksUnmodified ==
  [][\A b \in Blocks :
       ~open[b] => ~open'[b] /\ Len(terms'[b]) = Len(terms[b])]_vars
=============================================================================
