---------------------------- MODULE ToyIrBuilder ----------------------------
(***************************************************************************)
(* The toy compiler (parser/parser.cpp): ToyIrBuilder visits the syntax    *)
(* tree of a program and makes the calls of module Values.  The program is *)
(* not given in advance; it is chosen statement by statement.  Beside the  *)
(* code, ghosts keep what the program means: the values of its names and   *)
(* the words it passes to functions or returns, in order.                  *)
(*                                                                         *)
(* An operation of the language has no branches: all code goes to builder  *)
(* "f".  All scalars have one type, named in the declarations.  The body   *)
(* of an operation starts with fresh code; what the verifier says of the   *)
(* operations before does not change it.                                   *)
(***************************************************************************)
EXTENDS Values

CONSTANTS
  Names,       \* identifiers of arguments and variables
  Functions,   \* identifiers of operations and functions
  Imported,    \* functions that the runtime declares
  Expressions, \* the expressions that programs contain
  Room         \* bound: no statement emits more instructions

\* Atoms and expressions.  Remainder, parentheses and strings are "other".
Operators == {"plus", "minus", "multiply", "divide"}
Literal(w) == [kind |-> "int", word |-> w]
Id(n)      == [kind |-> "id", name |-> n]
Op(o, a, b)   == [kind |-> "op", op |-> o, lhs |-> a, rhs |-> b]
CallOf(f, a)  == [kind |-> "call", function |-> f, arg |-> a]
ItemOf(es, i)  == [kind |-> "element", elements |-> es, index |-> i]
Other         == [kind |-> "other"]

AtomShapes == [kind : {"int"}, word : Words] \cup [kind : {"id"}, name : Names]
Shapes ==
  AtomShapes
  \cup [kind : {"op"}, op : Operators, lhs : AtomShapes, rhs : AtomShapes]
  \cup [kind : {"call"}, function : Functions, arg : AtomShapes]
  \cup [kind : {"element"}, elements : Seq(AtomShapes), index : AtomShapes]
  \cup {Other}

\* Literals, and the offsets in an array, fit into an integer.
ASSUME ToyAssumption ==
  /\ Imported \subseteq Functions /\ "none" \notin Functions /\ Room \in Nat
  /\ Expressions \subseteq Shapes
  /\ \A e \in Expressions : e.kind = "element" =>
       \A k \in DOMAIN e.elements : (k - 1) * ElemSize \in Words

VARIABLES
  current,   \* the operation being visited, or "none"
  declared,  \* function_declaration_cache_ of program_
  bodies,    \* functions that were given a body
  env,       \* the scope: handle of a name, or NoReg
  failed,    \* what was thrown: the compilation has ended
  \* ghosts
  src,       \* the value the program gives to a name
  said,      \* words passed to functions and returned
  undefined, \* the program left an array, returned without a value, or gives the
             \* operation a second body, which LLVM appends as dead code
  unfaithful \* the operation has an expression that is known to be compiled wrongly

scope == <<current, declared, bodies, env>>
ghosts == <<src, said, undefined, unfaithful>>
toyVars == <<vars, scope, failed, ghosts>>

-----------------------------------------------------------------------------
(* What the program means. *)

Value(a) == IF a.kind = "int" THEN a.word ELSE src[a.name]
Within(e) == Value(e.index) # NoWord /\ Value(e.index) < Len(e.elements)
Calculate(o, u, v) ==
  IF NoWord \in {u, v} THEN NoWord
  ELSE CASE o = "plus"     -> (u + v) % Base
         [] o = "minus"    -> (u + (Base - v)) % Base
         [] o = "multiply" -> (u * v) % Base
         [] o = "divide"   -> IF v = 0 THEN NoWord ELSE u \div v
Eval(e) ==
  CASE e.kind \in {"int", "id"} -> Value(e)
    [] e.kind = "op"      -> Calculate(e.op, Value(e.lhs), Value(e.rhs))
    [] e.kind = "call"    -> Answer(Value(e.arg))
    [] e.kind = "element" -> IF Within(e) THEN Value(e.elements[Value(e.index) + 1]) ELSE NoWord

Says(op, w) == [op |-> op, word |-> w]
Effects(e) == IF e.kind = "call" THEN <<Says("call", Value(e.arg))>> ELSE <<>>

\* What the compiler is known to get wrong: minus and divide, which the code
\* marks as to be done, and arrays of several wide elements, whose cells are
\* scaled out of the array.  Beside sources without a meaning (undefined), the
\* properties excuse no more.
Unfaithful(e) ==
  \/ e.kind = "op" /\ e.op \in {"minus", "divide"}
  \/ e.kind = "element" /\ ElemSize > 1 /\ Len(e.elements) > 1

\* The expressions es are evaluated.
Judge(es) ==
  /\ undefined' = (undefined \/ \E e \in es : e.kind = "element" /\ ~Within(e))
  /\ unfaithful' = (unfaithful \/ \E e \in es : Unfaithful(e))
Evaluated(e, effects) == said' = said \o Effects(e) \o effects /\ Judge({e})

-----------------------------------------------------------------------------
(* visitExpression. *)

Atoms(e) ==
  CASE e.kind \in {"int", "id"} -> {e}
    [] e.kind = "op"      -> {e.lhs, e.rhs}
    [] e.kind = "call"    -> {e.arg}
    [] e.kind = "element" -> {e.index} \cup {e.elements[k] : k \in DOMAIN e.elements}
    [] e.kind = "other"   -> {}

\* The exceptions an expression may throw.
Faults(e) ==
  {"not declared" : a \in {x \in Atoms(e) : x.kind = "id" /\ env[x.name] = NoReg}}
  \cup (IF e.kind = "call" /\ e.function \notin declared THEN {"function not declared"} ELSE {})
  \cup (IF e.kind = "other" THEN {"not implemented"} ELSE {})

\* The handle of the instruction emitted last.
Last(s) == Len(s.code)
With(s, h) == [s |-> s, h |-> h]

VisitAtom(s, a) ==
  IF a.kind = "int" THEN LET t == Put(s, "f", "const", a.word, NoReg, a.word) IN With(t, Last(t))
  ELSE With(s, env[a.name])

\* visitArrayInitializer: the elements are visited, then the array is allocated
\* and filled, the k-th element at index (k - 1) * type_declaration.size.
\* (Mutant: counting from one.)
SlotFromOne(k) == k * ElemSize
Slot(k) == (k - 1) * ElemSize

SetElement(s, array, k, h) ==
  LET i == Put(s, "f", "const", Slot(k), NoReg, Slot(k)) IN SetItem(i, array, Last(i), h)

Fill(s, hs) ==
  LET array == Put(s, "f", "array", NoReg, Len(hs), Address(Last(s) + 1, 0))
      filled[k \in 0..Len(hs)] ==
        IF k = 0 THEN array ELSE SetElement(filled[k - 1], Last(array), k, hs[k])
  IN With(filled[Len(hs)], Last(array))

VisitNext(all, a) == LET v == VisitAtom(all.s, a) IN [s |-> v.s, hs |-> Append(all.hs, v.h)]

VisitArrayInitializer(s, es) ==
  LET visited[k \in 0..Len(es)] ==
        IF k = 0 THEN [s |-> s, hs |-> <<>>] ELSE VisitNext(visited[k - 1], es[k])
  IN Fill(visited[Len(es)].s, visited[Len(es)].hs)

\* Minus is compiled to an addition, divide to a multiplication.
OpCode(o) == IF o \in {"plus", "minus"} THEN "add" ELSE "mul"

\* Both operands are visited before either is read.
\* (Mutant: lhs is used for both.)
VisitOpLhsTwice(s, e) ==
  LET l == VisitAtom(s, e.lhs)
      t == Binary(VisitAtom(l.s, e.rhs).s, OpCode(e.op), l.h, l.h)
  IN With(t, Last(t))
VisitOp(s, e) ==
  LET l == VisitAtom(s, e.lhs)
      r == VisitAtom(l.s, e.rhs)
      t == Binary(r.s, OpCode(e.op), l.h, r.h)
  IN With(t, Last(t))

\* The state after visiting e, and the handle of its value.
Visit(s, e) ==
  CASE e.kind \in {"int", "id"} -> VisitAtom(s, e)
    [] e.kind = "op" -> VisitOp(s, e)
    [] e.kind = "call" ->
         LET a == VisitAtom(s, e.arg)
             t == CallWith(a.s, "f", a.h)
         IN With(t, Last(t))
    [] e.kind = "element" ->
         LET i == VisitAtom(s, e.index)
             a == VisitArrayInitializer(i.s, e.elements)
             t == Element(a.s, a.h, i.h)
         IN With(t, Last(t))

-----------------------------------------------------------------------------
(* The visitors of declarations and statements. *)

ToyInit ==
  /\ Init
  /\ current = "none"
  /\ declared = Imported
  /\ bodies = {}
  /\ env = [n \in Names |-> NoReg]
  /\ failed = "no"
  /\ src = [n \in Names |-> NoWord]
  /\ said = <<>>
  /\ undefined = FALSE
  /\ unfaithful = FALSE

Visiting == current # "none" /\ failed = "no" /\ Len(code) + Room <= MaxCode

\* An exception leaves compile(), which discards all that was built.
Throw(reasons) == failed' \in reasons /\ UNCHANGED <<vars, scope, ghosts>>

Emits(s) == Become(s) /\ UNCHANGED <<opened, failed>>

\* The scope of a new operation: its argument is the first handle.
\* (Mutant: the names of the operation before stay.)
ScopeKept(n)  == [env EXCEPT ![n] = 1]
ScopeOf(n)    == [m \in Names |-> IF m = n THEN 1 ELSE NoReg]

\* visitFunctionDeclaration, up to its statements: an operation with one
\* argument, which is w in the run that is looked at.
VisitFunctionDeclaration(f, n, w) ==
  /\ current = "none" /\ failed = "no"
  /\ current' = f
  /\ declared' = declared \cup {f}
  /\ env' = ScopeOf(n)
  /\ src' = [m \in Names |-> IF m = n THEN w ELSE NoWord]
  /\ said' = <<>>
  /\ undefined' = (f \in bodies)
  /\ unfaithful' = FALSE
  /\ Emits(Put(Fresh, "f", "const", w, NoReg, w))
  /\ UNCHANGED bodies

\* An operation without arguments: a null pointer is used.
VisitBareFunctionDeclaration == current = "none" /\ failed = "no" /\ Throw({"crash"})

\* popFunctionBuilder destroys the builder, which finalises it.
PopFunctionBuilder ==
  /\ current # "none" /\ failed = "no"
  /\ bodies' = bodies \cup {current}
  /\ current' = "none"
  /\ UNCHANGED <<vars, declared, env, failed, ghosts>>

\* set(), then readValue()->setName().  (Mutant: in the other order.)
ReadThenSet(s, h, v) == SetValue(Read(s, h), h, v)
SetThenRead(s, h, v) == Read(SetValue(s, h, v), h)

\* A redeclaration is noticed when the variable exists and holds its value.
VisitDeclaration(n, e) ==
  /\ Visiting /\ Faults(e) = {}
  /\ IF env[n] # NoReg THEN Throw({"redeclared"})
     ELSE \E v \in {Visit(state, e)} :
          LET x == Last(v.s) + 1
          IN /\ Emits(SetThenRead(Put(v.s, "f", "stack", NoReg, 1, Address(x, 0)), x, v.h))
             /\ env' = [env EXCEPT ![n] = x]
             /\ src' = [src EXCEPT ![n] = Eval(e)]
             /\ Evaluated(e, <<>>)
             /\ UNCHANGED <<current, declared, bodies>>

\* "let" and declarations without a type throw; a declaration without an
\* initial value sets the variable to a null pointer.
VisitOtherDeclaration == Visiting /\ Throw({"let", "not implemented", "crash"})

\* Only variables and array elements can be written.
VisitAssignment(l, e) ==
  /\ Visiting /\ Faults(l) \cup Faults(e) = {}
  /\ \E lhs \in {Visit(state, l)} : \E rhs \in {Visit(lhs.s, e)} :
        IF lhs.s.code[lhs.h].op \notin Caching THEN Throw({"read only"})
        ELSE /\ Emits(Assign(rhs.s, lhs.h, rhs.h))
             /\ src' = IF l.kind = "id" THEN [src EXCEPT ![l.name] = Eval(e)] ELSE src
             /\ said' = said \o Effects(e)
             /\ Judge({l, e})
             /\ UNCHANGED scope

VisitStatement(e) ==
  /\ Visiting /\ Faults(e) = {}
  /\ Emits(Visit(state, e).s)
  /\ Evaluated(e, <<>>)
  /\ UNCHANGED <<scope, src>>

VisitReturn(e) ==
  /\ Visiting /\ Faults(e) = {}
  /\ \E v \in {Visit(state, e)} : \E t \in {Read(v.s, v.h)} :
        Emits(Put(t, "f", "ret", Operand(t, v.h), NoReg, Meaning(t, v.h)))
  /\ Evaluated(e, <<Says("ret", Eval(e))>>)
  /\ UNCHANGED <<scope, src>>

\* A return without a value emits nothing at all.
VisitReturnNothing ==
  /\ Visiting
  /\ undefined' = TRUE
  /\ UNCHANGED <<vars, scope, failed, src, said, unfaithful>>

\* break and continue.
VisitContinue == Visiting /\ Throw({"not implemented"})

VisitFaulty(e) == Visiting /\ Faults(e) # {} /\ Throw(Faults(e))

ToyNext ==
  \/ \E f \in Functions, n \in Names, w \in Literals : VisitFunctionDeclaration(f, n, w)
  \/ VisitBareFunctionDeclaration
  \/ PopFunctionBuilder
  \/ \E n \in Names, e \in Expressions : VisitDeclaration(n, e)
  \/ VisitOtherDeclaration
  \/ \E l, e \in Expressions : VisitAssignment(l, e)
  \/ \E e \in Expressions : VisitStatement(e) \/ VisitReturn(e)
  \/ VisitReturnNothing
  \/ VisitContinue
  \/ \E e \in Expressions : VisitFaulty(e)

ToySpec == ToyInit /\ [][ToyNext]_toyVars

-----------------------------------------------------------------------------
(* Properties. *)

\* Type correctness; a name of the scope is an argument or a stack variable.
ToyTypeOK ==
  /\ current \in Functions \cup {"none"}
  /\ Imported \subseteq declared /\ bodies \subseteq declared /\ declared \subseteq Functions
  /\ env \in [Names -> 0..Len(code)]
  /\ \A n \in Names : env[n] # NoReg => code[env[n]].op \in {"const", "stack"}
  /\ failed \in {"no", "not declared", "function not declared", "not implemented",
                 "redeclared", "let", "crash", "read only"}

\* The verifier wants the body to end with its only terminator.
Complete == \A i \in DOMAIN code : code[i].op = "ret" <=> i = Len(code)

\* Every address that was computed lies inside its array.
StaysInside ==
  \A i \in DOMAIN code : code[i].op \in {"item", "element"} => Inside(code[i].x, meant[i].at)

\* What instructions pass to functions and return, if register r holds val[r].
Talk(c, val) == IF c.op \in {"call", "ret"} THEN <<Says(c.op, val[c.x])>> ELSE <<>>
Spoken(is, val) ==
  LET spoken[k \in 0..Len(is)] == IF k = 0 THEN <<>> ELSE spoken[k - 1] \o Talk(is[k], val)
  IN spoken[Len(is)]
Heard == Spoken(code, Run("no arm"))

\* An operation is compiled to the end.
Compiled == current = "none" /\ failed = "no" /\ code # <<>> /\ Complete

\* A compiled operation passes to functions, in order, and returns what its
\* source says, although identifiers are read lazily and read caches outlive
\* the statement that filled them.
CompiledMeansSource == Compiled /\ ~undefined /\ ~unfaithful => Heard = said

\* The same, for all operators.
OperatorsMeanSource == Compiled /\ ~undefined /\ StaysInside => Heard = said

\* The compiler mixes set() and readValue(), and yet never uses a read cache
\* that a store has made stale.
NeverStale == ~staleRead

\* If the source stays inside its arrays, so do the addresses computed, unless
\* they are those of several wide elements.
AddressesInBounds == ~undefined /\ ~unfaithful => StaysInside

\* The same, for all arrays.
ElementsInBounds == ~undefined => StaysInside
=============================================================================
