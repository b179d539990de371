------------------------------- MODULE Values -------------------------------
(***************************************************************************)
(* The value objects of script-builder/ (ConstantInteger, TypedValue,      *)
(* MutableStackVariable, MutableHeapVariable, MutableStackArray,           *)
(* MutableHeapArray), the instructions their operations emit, and what     *)
(* these instructions compute when the function runs.                      *)
(*                                                                         *)
(* Every object keeps a reference to the IRBuilder it was created with and *)
(* emits there, wherever its caller is building.  So the order of the      *)
(* calls, the order of the instructions and the order of execution are     *)
(* three different things.  The model has one function with at most one    *)
(* if: builder "f" fills "entry" and, once ifStatement was called, "exit"; *)
(* "then" and "else" fill the arms.  Control flow in general is the        *)
(* subject of ScopeBuilder.                                                *)
(*                                                                         *)
(* A handle is the number of the instruction that made it, as a constant,  *)
(* an allocation, a load or an address is an llvm::Value too.  All scalars *)
(* have one type: what a wrong type leads to is an exception before any    *)
(* effect, or a module that the verifier rejects.                          *)
(***************************************************************************)
EXTENDS Naturals, Sequences, FiniteSets

CONSTANTS
  Base,      \* integers are computed modulo Base
  NoWord,    \* content of memory nothing was stored to
  Literals,  \* the integers clients write
  Lengths,   \* lengths of arrays
  ElemSize,  \* TypeDeclaration::size of the element type
  MaxCode,   \* bound: instructions of the function
  Quota      \* bound: for some kinds of instruction, how many of them

ASSUME ValuesAssumption ==
  /\ Base \in Nat \ {0}
  /\ NoWord \notin Nat
  /\ Literals \subseteq 0..(Base - 1)
  /\ Lengths \subseteq Nat \ {0}
  /\ ElemSize \in Nat \ {0}
  /\ MaxCode \in Nat

Words == 0..(Base - 1)
NoReg == 0
Registers == 1..MaxCode

\* The cells of what an alloca or malloc instruction returned.
Address(r, k) == [base |-> r, at |-> k]
Addresses == [base : Registers, at : Words]

VARIABLES
  code,        \* the instructions, in the order they were emitted
  cache,       \* read_cache_ of each handle, NoReg if it is empty or the handle has none
  opened,      \* "none", "if": ifStatement was called, "else": elseStatement too
  \* ghosts
  meant,       \* what the client means by an instruction, at the time of the call
  content,     \* what the client last stored in a cell
  overwritten, \* variables whose cell was stored to since they filled their cache
  staleRead    \* such a variable was read through its cache

vars == <<code, cache, opened, meant, content, overwritten, staleRead>>

\* What one call changes; the calls are operators on such records because
\* they read their operands one after the other, each with its effects.
state == [code |-> code, cache |-> cache, meant |-> meant, content |-> content,
          overwritten |-> overwritten, staleRead |-> staleRead]
Become(after) == \E s \in {after} :
  /\ Len(s.code) <= MaxCode
  /\ \A op \in DOMAIN Quota : Cardinality({i \in DOMAIN s.code : s.code[i].op = op}) <= Quota[op]
  /\ code' = s.code
  /\ cache' = s.cache
  /\ meant' = s.meant
  /\ content' = s.content
  /\ overwritten' = s.overwritten
  /\ staleRead' = s.staleRead

\* Nothing is built yet.
Fresh == [code |-> <<>>,
          cache |-> <<>>,
          meant |-> <<>>,
          content |-> [a \in Addresses |-> NoWord],
          overwritten |-> {},
          staleRead |-> FALSE]

-----------------------------------------------------------------------------
(* Emitting instructions. *)

\* The insertion point of a builder.  An arm that got an else is terminated.
Position(b) ==
  CASE b = "f"    -> IF opened = "none" THEN "entry" ELSE "exit"
    [] b = "then" -> IF opened = "else" THEN "sealed" ELSE "then"
    [] b = "else" -> "else"

\* llvm::IRBuilder: m is what the client means by the result.
Put(s, b, op, x, y, m) ==
  [s EXCEPT
     !.code = Append(@, [op |-> op, builder |-> b, x |-> x, y |-> y,
                         block |-> IF op = "const" THEN "const" ELSE Position(b)]),
     !.cache = Append(@, NoReg),
     !.meant = Append(@, m)]

\* Objects that keep a read cache, and all that stand for a memory cell.
Caching  == {"stack", "element"}
Variable == Caching \cup {"heap"}

Cell(s, a) == IF a \in DOMAIN s.content THEN s.content[a] ELSE NoWord
Home(s, h) == s.code[h].builder

Load(s, h, op) == Put(s, Home(s, h), op, h, NoReg, Cell(s, s.meant[h]))

\* Register r, by which the client means m, is stored to the cell of h.
\* (Mutant: the instruction goes to the builder of the stored value.)
StoreAtOperand(s, h, r, m) ==
  [Put(s, Home(s, r), "store", h, r, m) EXCEPT
     !.content = [a \in DOMAIN @ |-> IF a = s.meant[h] THEN m ELSE @[a]],
     !.overwritten = @ \cup {c \in DOMAIN s.cache : s.cache[c] # NoReg /\ s.meant[c] = s.meant[h]}]
Store(s, h, r, m) ==
  [Put(s, Home(s, h), "store", h, r, m) EXCEPT
     !.content = [a \in DOMAIN @ |-> IF a = s.meant[h] THEN m ELSE @[a]],
     !.overwritten = @ \cup {c \in DOMAIN s.cache : s.cache[c] # NoReg /\ s.meant[c] = s.meant[h]}]

\* readValue(): a MutableStackVariable emits a load only if its cache is empty,
\* a MutableHeapVariable always; the others return the register they have.
\* (Mutant: the pointer is cached instead of the loaded value.)
ReadCachingPointer(s, h) ==
  LET op == s.code[h].op IN
  IF op \in Variable /\ s.cache[h] = NoReg
  THEN LET t == Load(s, h, "load")
       IN IF op \in Caching THEN [t EXCEPT !.cache[h] = h] ELSE t
  ELSE [s EXCEPT !.staleRead = @ \/ h \in s.overwritten]
Read(s, h) ==
  LET op == s.code[h].op IN
  IF op \in Variable /\ s.cache[h] = NoReg
  THEN LET t == Load(s, h, "load")
       IN IF op \in Caching THEN [t EXCEPT !.cache[h] = Len(t.code)] ELSE t
  ELSE [s EXCEPT !.staleRead = @ \/ h \in s.overwritten]

\* The register that readValue() has just returned, and what it stands for.
Operand(s, h) ==
  LET op == s.code[h].op IN
  IF op \in Caching THEN s.cache[h] ELSE IF op = "heap" THEN Len(s.code) ELSE h
Meaning(s, h) ==
  IF s.code[h].op \in Variable THEN Cell(s, s.meant[h]) ELSE s.meant[h]

-----------------------------------------------------------------------------
(* The calls, as operators. *)

\* MutableStackVariable::set, MutableHeapVariable::set: the cache stays.
SetValue(s, h, v) == LET t == Read(s, v) IN Store(t, h, Operand(t, v), Meaning(t, v))

\* writeValue, called with v->readValue(): the cache of h is emptied.
\* (Mutant: the cache is not emptied.)
AssignKeepingCache(s, h, v) ==
  [SetValue(s, h, v) EXCEPT !.overwritten = @ \ {h}]
Assign(s, h, v) ==
  [SetValue(s, h, v) EXCEPT !.cache[h] = NoReg, !.overwritten = @ \ {h}]

\* The pointer to an array's cell; "item" is CreateGEP with the index as it is.
Item(s, h, x) ==
  LET t == Read(s, x)
  IN Put(t, Home(s, h), "item", h, Operand(t, x), Address(h, Meaning(t, x)))

\* MutableStackArray::getArrayElement: the index is multiplied by the size of
\* an element, and CreateGEP counts in elements again.
Element(s, h, x) ==
  LET t == Read(s, x)
  IN Put(t, Home(s, h), "element", h, Operand(t, x),
         Address(h, IF Meaning(t, x) = NoWord THEN NoWord ELSE ElemSize * Meaning(t, x)))

\* MutableStackArray::set and MutableHeapArray::set.
SetItem(s, h, x, v) ==
  LET t == Item(Read(s, v), h, x)
      r == Operand(Read(s, v), v)
  IN Store(t, Len(t.code), r, Meaning(s, v))

\* MutableStackArray::get and MutableHeapArray::get.
GetItem(s, h, x) == LET t == Item(s, h, x) IN Load(t, Len(t.code), "get")

\* What the instructions compute, modulo Base.
Arithmetic == {"add", "mul", "icmp"}
Apply(op, u, v) ==
  IF NoWord \in {u, v} THEN NoWord
  ELSE CASE op = "add"  -> (u + v) % Base
         [] op = "mul"  -> (u * v) % Base
         [] op = "icmp" -> (IF u = v THEN 1 ELSE 0) % Base

\* operator+, operator*, operator==: the instruction goes to a's builder.
Binary(s, op, a, b) ==
  LET t == Read(s, a)
      u == Read(t, b)
  IN Put(u, Home(s, a), op, Operand(t, a), Operand(u, b), Apply(op, Meaning(s, a), Meaning(s, b)))

\* ScopeBuilder::call of a function that adds one.
Answer(v) == Apply("add", v, 1)
CallWith(s, b, v) == LET t == Read(s, v) IN Put(t, b, "call", Operand(t, v), NoReg, Answer(Meaning(t, v)))

-----------------------------------------------------------------------------
(* The client. *)

Init ==
  /\ code = Fresh.code
  /\ cache = Fresh.cache
  /\ opened = "none"
  /\ meant = Fresh.meant
  /\ content = Fresh.content
  /\ overwritten = Fresh.overwritten
  /\ staleRead = Fresh.staleRead

Builders == {"f"} \cup (IF opened = "none" THEN {} ELSE {"then"})
                  \cup (IF opened = "else" THEN {"else"} ELSE {})
Handles(ops) == {h \in DOMAIN code : code[h].op \in ops}
Scalars   == Handles({"const", "get", "call"} \cup Arithmetic \cup Variable)
Variables == Handles(Variable)
Arrays    == Handles({"array"})

\* LLVM leaves an access outside an array undefined: clients stay inside.
Inside(h, k) == k # NoWord /\ k < code[h].y

Call(s) == Become(s) /\ UNCHANGED opened

\* toInt8, toInt16, toInt32, toInt64.
ToInt(b, w) == Call(Put(state, b, "const", w, NoReg, w))

\* newStackVariable, newHeapVariable, newStackArray, newHeapArray.
New(b, op, n) == Call(Put(state, b, op, NoReg, n, Address(Len(code) + 1, 0)))

Set(h, v)        == Call(SetValue(state, h, v))
Get(h)           == Call(Load(state, h, "get"))
WriteValue(h, v) == Call(Assign(state, h, v))

SetAt(h, x, v) == Inside(h, Meaning(state, x)) /\ Call(SetItem(state, h, x, v))
GetAt(h, x)    == Inside(h, Meaning(state, x)) /\ Call(GetItem(state, h, x))
GetArrayElement(h, x) ==
  /\ Meaning(state, x) # NoWord
  /\ Inside(h, ElemSize * Meaning(state, x))
  /\ Call(Element(state, h, x))

Compute(op, a, b) == Call(Binary(state, op, a, b))
CallFunction(b, v) == Call(CallWith(state, b, v))

IfStatement(v) ==
  /\ opened = "none"
  /\ opened' = "if"
  /\ LET t == Read(state, v)
     IN Become(Put(t, "f", "condbr", Operand(t, v), NoReg, Meaning(t, v)))

ElseStatement ==
  /\ opened = "if"
  /\ opened' = "else"
  /\ Become(state)

Next ==
  \/ \E b \in Builders : \E w \in Literals : ToInt(b, w)
  \/ \E b \in Builders : New(b, "stack", 1) \/ New(b, "heap", 1)
  \/ \E b \in Builders, n \in Lengths : New(b, "array", n)
  \/ \E h \in Variables : Get(h)
  \/ \E h \in Variables, v \in Scalars : Set(h, v)
  \/ \E h \in Handles(Caching), v \in Scalars : WriteValue(h, v)
  \/ \E h \in Arrays, x, v \in Scalars : SetAt(h, x, v)
  \/ \E h \in Arrays, x \in Scalars : GetAt(h, x) \/ GetArrayElement(h, x)
  \/ \E op \in Arithmetic, a, b \in Scalars : Compute(op, a, b)
  \/ \E b \in Builders, v \in Scalars : CallFunction(b, v)
  \/ \E v \in Scalars : IfStatement(v)
  \/ ElseStatement

Spec == Init /\ [][Next]_vars

-----------------------------------------------------------------------------
(* What LLVM does with the function. *)

Uses(i) == IF code[i].op = "const" THEN {} ELSE
           IF code[i].op \in {"stack", "heap", "array"} THEN {} ELSE {code[i].x, code[i].y} \ {NoReg}

\* The verifier: every operand is computed on all ways to its use, and nothing
\* stands behind the terminator of an arm.
Dominates(d, u) == d \in {"const", "entry", u}
Accepted ==
  \A i \in DOMAIN code :
    /\ code[i].block # "sealed"
    /\ \A r \in Uses(i) : Dominates(code[r].block, code[i].block)

\* The ways through the function, by the arm they take.
Ways == CASE opened = "none" -> {"no arm"}
          [] opened = "if"   -> {"then", "no arm"}
          [] opened = "else" -> {"then", "else"}

\* Executing instruction i: registers and memory after it.
Execute(m, i) ==
  LET c == code[i]
      At(p) == IF p \in DOMAIN m.mem THEN m.mem[p] ELSE NoWord
      Returns(v) == [m EXCEPT !.reg[i] = v]
  IN CASE c.op = "const" -> Returns(c.x)
       [] c.op \in {"stack", "heap", "array"} -> Returns(Address(i, 0))
       [] c.op = "item" -> Returns(Address(c.x, m.reg[c.y]))
       [] c.op = "element" ->
            Returns(Address(c.x, IF m.reg[c.y] = NoWord THEN NoWord ELSE ElemSize * m.reg[c.y]))
       [] c.op \in {"load", "get"} -> Returns(At(m.reg[c.x]))
       [] c.op = "store" ->
            IF m.reg[c.x] \in DOMAIN m.mem
            THEN [Returns(m.reg[c.y]) EXCEPT !.mem[m.reg[c.x]] = m.reg[c.y]]
            ELSE Returns(m.reg[c.y])
       [] c.op \in Arithmetic -> Returns(Apply(c.op, m.reg[c.x], m.reg[c.y]))
       [] c.op = "call" -> Returns(Answer(m.reg[c.x]))
       [] c.op \in {"condbr", "ret"} -> Returns(m.reg[c.x])

\* What machine m becomes in a pass through the instructions of block b.
Step(m, b, i) == IF code[i].block = b THEN Execute(m, i) ELSE m
Pass(m, b) ==
  LET machine[k \in 0..Len(code)] == IF k = 0 THEN m ELSE Step(machine[k - 1], b, k)
  IN machine[Len(code)]

\* The registers after a run through the given arm.
Idle == [reg |-> [i \in DOMAIN code |-> NoWord], mem |-> [p \in Addresses |-> NoWord]]
Run(arm) == Pass(Pass(Pass(Pass(Idle, "const"), "entry"), arm), "exit").reg

-----------------------------------------------------------------------------
(* Properties. *)

Ops == {"const", "stack", "heap", "array", "item", "element", "load", "get",
        "store", "call", "condbr", "ret"} \cup Arithmetic

\* Type correctness; a read cache holds a load from its own variable.
TypeOK ==
  /\ code \in Seq([op : Ops, builder : {"f", "then", "else"}, x : Nat, y : Nat,
                   block : {"const", "entry", "then", "else", "sealed", "exit"}])
  /\ Len(code) <= MaxCode
  /\ DOMAIN meant = DOMAIN code
  /\ cache \in [DOMAIN code -> 0..Len(code)]
  /\ \A h \in DOMAIN code : cache[h] # NoReg => code[cache[h]].op = "load" /\ code[cache[h]].x = h
  /\ opened \in {"none", "if", "else"}
  /\ content \in [Addresses -> Words \cup {NoWord}]
  /\ overwritten \subseteq DOMAIN code
  /\ staleRead \in BOOLEAN

\* A function that the verifier accepts computes, in every run that reaches an
\* instruction, what the client meant by it when it made the call: although
\* reading a variable in an arm emits a load somewhere else, caches loads made
\* in other blocks, and the calls on different builders come in any order.
\* The one exception is a client that reads a variable directly after set(),
\* or a write through another handle, has bypassed its cache.
RunAgrees ==
  Accepted /\ ~staleRead =>
    \A arm \in Ways : LET reg == Run(arm) IN
      \A i \in DOMAIN code :
        code[i].block \in {"const", "entry", arm, "exit"} => reg[i] = meant[i]

\* Nothing that is built in an arm has an effect on what is computed behind
\* the if: a store to a variable of the function, made while filling an arm,
\* is emitted behind the arm, or rejected.
ArmsHaveNoEffect ==
  Accepted =>
    \A p, q \in Ways : LET one == Run(p)  other == Run(q) IN
      \A i \in DOMAIN code : code[i].block = "exit" => one[i] = other[i]
=============================================================================
