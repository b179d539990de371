----------------------------- MODULE ValuesProofs -----------------------------
(* Proofs about Values, for any bounds, literals and sizes. *)
EXTENDS Values, WellFoundedInduction, TLAPS

USE DEF Arithmetic

Blocks       == {"const", "entry", "then", "else", "sealed", "exit"}
BuilderNames == {"f", "then", "else"}

\* Registers that hold a word; those that point to a cell, or to an array.
Results  == {"const", "load", "get", "call"} \cup Arithmetic
Cells    == {"stack", "heap", "item", "element"}
Pointers == Cells \cup {"array"}

Contents     == Words \cup {NoWord}
Instructions == [op : Ops, builder : BuilderNames, x : Nat, y : Nat, block : Blocks]
Meanings     == Contents \cup [base : Nat, at : Nat \cup {NoWord}]

\* The states that calls pass on are records of the variables.
Typed(s) ==
  /\ s \in [code : Seq(Instructions), cache : Seq(Nat), meant : Seq(Meanings),
            content : [Addresses -> Contents], overwritten : SUBSET Nat, staleRead : BOOLEAN]
  /\ Len(s.cache) = Len(s.code) /\ Len(s.meant) = Len(s.code)
  /\ s.overwritten \subseteq 1..Len(s.code)

\* Instruction i is applied to earlier ones, of the right kinds; accesses are
\* emitted by the builder of what they access.
Fits(s, i) ==
  LET c == s.code[i]
      m == s.meant[i]
      Takes(r, ops) == r \in 1..(i - 1) /\ s.code[r].op \in ops
  IN /\ c.op = "const" => m = c.x /\ m \in Words
     /\ c.op \in {"stack", "heap", "array"} => m = Address(i, 0)
     /\ c.op \in {"item", "element"} =>
          /\ Takes(c.x, {"array"}) /\ Takes(c.y, Results)
          /\ m = Address(c.x, m.at) /\ m.at \in Nat \cup {NoWord}
     /\ c.op \in {"load", "get"} => Takes(c.x, Cells) /\ m \in Contents
     /\ c.op = "store" => Takes(c.x, Cells) /\ Takes(c.y, Results) /\ m \in Contents
     /\ c.op \in Arithmetic => Takes(c.x, Results) /\ Takes(c.y, Results) /\ m \in Contents
     /\ c.op \in {"load", "get", "call", "condbr", "ret"} => c.y = NoReg
     /\ c.op \in {"call", "condbr", "ret"} => Takes(c.x, Results) /\ m \in Contents
     /\ c.op \in {"item", "element", "load", "get", "store"} => c.builder = s.code[c.x].builder

\* Where the instruction of a builder can be.
Lies(c) ==
  /\ c.op = "const" <=> c.block = "const"
  /\ c.builder = "f"    => c.block \in {"const", "entry", "exit"}
  /\ c.builder = "then" => c.block \in {"const", "then", "sealed"}
  /\ c.builder = "else" => c.block \in {"const", "else"}
  /\ opened = "none" => c.block # "exit"

\* Instructions fit, and builder "f" never returns from "exit" to "entry".
Ordered(s) ==
  /\ \A i \in 1..Len(s.code) : Fits(s, i) /\ Lies(s.code[i])
  /\ \A i \in 1..Len(s.code) : \A j \in 1..(i - 1) :
       s.code[j].block = "exit" => s.code[i].block # "entry"

\* v is what the stores before instruction n leave in cell a.
StoresTo(s, j, a) == s.code[j].op = "store" /\ s.meant[s.code[j].x] = a
Holds(s, n, a, v) ==
  \/ v = NoWord /\ \A j \in 1..(n - 1) : ~StoresTo(s, j, a)
  \/ \E j \in 1..(n - 1) :
       /\ StoresTo(s, j, a) /\ v = s.meant[j]
       /\ \A k \in (j + 1)..(n - 1) : ~StoresTo(s, k, a)

\* Memory and the loads from it, at the time of the calls.
Loaded(s, i) ==
  LET a == s.meant[s.code[i].x]
  IN IF a \in Addresses THEN Holds(s, i, a, s.meant[i]) ELSE s.meant[i] = NoWord
Stored(s) ==
  /\ \A a \in Addresses : Holds(s, Len(s.code) + 1, a, s.content[a])
  /\ \A i \in 1..Len(s.code) : s.code[i].op \in {"load", "get"} => Loaded(s, i)

\* A filled cache is a load from the variable, and holds what the cell holds
\* unless the cell was overwritten.
Cached(s) ==
  \A c \in 1..Len(s.code) : s.cache[c] # NoReg =>
    /\ s.code[c].op \in Caching
    /\ s.cache[c] \in 1..Len(s.code)
    /\ s.code[s.cache[c]].op = "load" /\ s.code[s.cache[c]].x = c
    /\ c \notin s.overwritten => s.meant[s.cache[c]] = Cell(s, s.meant[c])

\* The meaning of a result is the one of its operands.
MeansOperands(s, i) ==
  LET c == s.code[i]
      m == s.meant[i]
  IN /\ c.op = "item" => m = Address(c.x, s.meant[c.y])
     /\ c.op = "element" =>
          m = Address(c.x, IF s.meant[c.y] = NoWord THEN NoWord ELSE ElemSize * s.meant[c.y])
     /\ c.op = "store" => m = s.meant[c.y]
     /\ c.op \in Arithmetic => m = Apply(c.op, s.meant[c.x], s.meant[c.y])
     /\ c.op = "call" => m = Answer(s.meant[c.x])
     /\ c.op \in {"condbr", "ret"} => m = s.meant[c.x]
Faithful(s) == s.staleRead \/ \A i \in 1..Len(s.code) : MeansOperands(s, i)

Good(s) == Typed(s) /\ Ordered(s) /\ Stored(s) /\ Cached(s) /\ Faithful(s)

\* t has the instructions of s, and perhaps more.
Extends(s, t) ==
  /\ Len(s.code) <= Len(t.code)
  /\ \A i \in 1..Len(s.code) : t.code[i] = s.code[i] /\ t.meant[i] = s.meant[i]
  /\ s.staleRead => t.staleRead

\* ... and stored nothing.
OnlyReads(s, t) == Extends(s, t) /\ t.content = s.content /\ t.overwritten = s.overwritten

-----------------------------------------------------------------------------
LEMMA WordFacts ==
  /\ 0 \in Words /\ NoWord \notin Words /\ Words \subseteq Nat
  /\ \A op \in Arithmetic, u, v \in Contents : Apply(op, u, v) \in Contents
  /\ \A v \in Contents : Answer(v) \in Contents
<1>1. 0 \in Words /\ NoWord \notin Words /\ Words \subseteq Nat /\ Base \in Nat /\ Base # 0
  BY ValuesAssumption DEF Words
<1>2. \A n \in Nat : n % Base \in Words
  BY <1>1 DEF Words
<1>3. ASSUME NEW u \in Nat, NEW v \in Nat, u # NoWord, v # NoWord, NEW op \in Arithmetic
      PROVE  Apply(op, u, v) \in Contents
  <2>1. u + v \in Nat /\ u * v \in Nat /\ (IF u = v THEN 1 ELSE 0) \in Nat
    OBVIOUS
  <2>2. Apply(op, u, v) \in {(u + v) % Base, (u * v) % Base, (IF u = v THEN 1 ELSE 0) % Base}
    BY <1>3 DEF Apply
  <2> QED
    BY <1>2, <2>1, <2>2 DEF Contents
<1>4. \A op \in Arithmetic, u, v \in Contents : Apply(op, u, v) \in Contents
  BY <1>1, <1>3 DEF Apply, Contents
<1>5. \A v \in Contents : Answer(v) \in Contents
  <2> SUFFICES ASSUME NEW v \in Contents PROVE Apply("add", v, 1) \in Contents
    BY DEF Answer
  <2>1. CASE v = NoWord
    BY <2>1 DEF Apply, Contents
  <2>2. CASE v # NoWord
    BY <1>1, <1>3, <2>2, ValuesAssumption DEF Contents
  <2> QED
    BY <2>1, <2>2
<1> QED
  BY <1>1, <1>4, <1>5

\* t is s with one more instruction.
Emitted(s, t, b, op, x, y, m) ==
  /\ Typed(t) /\ OnlyReads(s, t) /\ t.staleRead = s.staleRead
  /\ Len(t.code) = Len(s.code) + 1 /\ Len(s.code) + 1 \in Nat
  /\ t.code[Len(s.code) + 1] = [op |-> op, builder |-> b, x |-> x, y |-> y,
                                block |-> IF op = "const" THEN "const" ELSE Position(b)]
  /\ t.meant[Len(s.code) + 1] = m /\ t.cache[Len(s.code) + 1] = NoReg
  /\ \A i \in 1..Len(s.code) : t.cache[i] = s.cache[i]

\* What an emitted instruction is, and that nothing else changes.
LEMMA PutFacts ==
  ASSUME NEW s, Typed(s), NEW b \in BuilderNames, NEW op \in Ops, NEW x \in Nat, NEW y \in Nat,
         NEW m \in Meanings
  PROVE  Emitted(s, Put(s, b, op, x, y, m), b, op, x, y, m)
<1> DEFINE c == [op |-> op, builder |-> b, x |-> x, y |-> y,
                 block |-> IF op = "const" THEN "const" ELSE Position(b)]
           t == Put(s, b, op, x, y, m)
           n == Len(s.code) + 1
<1>1. c \in Instructions
  BY DEF Instructions, Blocks, BuilderNames, Position
<1> HIDE DEF c
<1>2. s.code \in Seq(Instructions) /\ s.cache \in Seq(Nat) /\ s.meant \in Seq(Meanings) /\ NoReg \in Nat
  BY DEF Typed, NoReg
<1>3. /\ t.code = Append(s.code, c) /\ t.cache = Append(s.cache, NoReg) /\ t.meant = Append(s.meant, m)
      /\ t.content = s.content /\ t.overwritten = s.overwritten /\ t.staleRead = s.staleRead
      /\ t \in [code : Seq(Instructions), cache : Seq(Nat), meant : Seq(Meanings),
                content : [Addresses -> Contents], overwritten : SUBSET Nat, staleRead : BOOLEAN]
  <2>1. s \in [code : Seq(Instructions), cache : Seq(Nat), meant : Seq(Meanings),
                content : [Addresses -> Contents], overwritten : SUBSET Nat, staleRead : BOOLEAN]
    BY DEF Typed
  <2>2. t = [s EXCEPT !.code = Append(s.code, c), !.cache = Append(s.cache, NoReg),
                      !.meant = Append(s.meant, m)]
    BY DEF Put, c
  <2>3. /\ Append(s.code, c) \in Seq(Instructions) /\ Append(s.cache, NoReg) \in Seq(Nat)
        /\ Append(s.meant, m) \in Seq(Meanings)
    BY <1>1, <1>2
  <2> HIDE DEF t
  <2> QED
    BY <2>1, <2>2, <2>3
<1> HIDE DEF t
<1>4. /\ Len(t.code) = n /\ Len(t.cache) = n /\ Len(t.meant) = n /\ n \in Nat
      /\ t.code[n] = c /\ t.meant[n] = m /\ t.cache[n] = NoReg
      /\ \A i \in 1..Len(s.code) :
           t.code[i] = s.code[i] /\ t.meant[i] = s.meant[i] /\ t.cache[i] = s.cache[i]
  <2>1. Len(s.code) \in Nat /\ Len(s.cache) = Len(s.code) /\ Len(s.meant) = Len(s.code)
    BY <1>2 DEF Typed
  <2>2. Len(t.code) = n /\ t.code[n] = c /\ \A i \in 1..Len(s.code) : t.code[i] = s.code[i]
    BY ONLY <1>1, <1>2, <1>3, <2>1
  <2>3. Len(t.meant) = n /\ t.meant[n] = m /\ \A i \in 1..Len(s.code) : t.meant[i] = s.meant[i]
    BY ONLY <1>2, <1>3, <2>1, m \in Meanings
  <2>4. Len(t.cache) = n /\ t.cache[n] = NoReg /\ \A i \in 1..Len(s.code) : t.cache[i] = s.cache[i]
    BY ONLY <1>2, <1>3, <2>1
  <2> QED
    BY ONLY <2>1, <2>2, <2>3, <2>4
<1>5. Typed(t) /\ OnlyReads(s, t)
  BY <1>3, <1>4 DEF Typed, OnlyReads, Extends
<1> QED
  BY <1>3, <1>4, <1>5 DEF Emitted, c, n, t
\* What is known of an instruction does not change when others follow.
LEMMA FitsStays ==
  ASSUME NEW s, NEW t, Extends(s, t), Len(s.code) \in Nat, NEW i \in 1..Len(s.code), Fits(s, i)
  PROVE  /\ Fits(t, i)
         /\ MeansOperands(s, i) => MeansOperands(t, i)
<1>1. t.code[i] = s.code[i] /\ t.meant[i] = s.meant[i]
  BY DEF Extends
<1>2. \A r \in 1..(i - 1) : t.code[r] = s.code[r] /\ t.meant[r] = s.meant[r]
  BY DEF Extends
<1>3. Fits(t, i)
  BY <1>1, <1>2 DEF Fits
<1>4. MeansOperands(s, i) => MeansOperands(t, i)
  BY <1>1, <1>2 DEF Fits, MeansOperands
<1> QED
  BY <1>3, <1>4

LEMMA StoresToStays ==
  ASSUME NEW s, NEW t, Extends(s, t), Typed(s), Ordered(s), NEW j \in 1..Len(s.code), NEW a
  PROVE  StoresTo(t, j, a) <=> StoresTo(s, j, a)
<1>1. t.code[j] = s.code[j]
  BY DEF Extends
<1>2. Len(s.code) \in Nat
  BY DEF Typed
<1>3. s.code[j].op = "store" => s.code[j].x \in 1..Len(s.code)
  BY <1>2 DEF Ordered, Fits
<1> QED
  BY <1>1, <1>3 DEF StoresTo, Extends

LEMMA HoldsStays ==
  ASSUME NEW s, NEW t, Extends(s, t), Typed(s), Ordered(s), NEW n \in 1..(Len(s.code) + 1),
         NEW a, NEW v
  PROVE  Holds(t, n, a, v) <=> Holds(s, n, a, v)
<1>1. Len(s.code) \in Nat
  BY DEF Typed
<1>2. \A j \in 1..(n - 1) : j \in 1..Len(s.code)
  BY <1>1
<1>3. \A j \in 1..(n - 1) : (StoresTo(t, j, a) <=> StoresTo(s, j, a)) /\ t.meant[j] = s.meant[j]
  BY <1>2, StoresToStays DEF Extends
<1>4. \A j \in 1..(n - 1) : \A k \in (j + 1)..(n - 1) : k \in 1..(n - 1)
  BY <1>1
<1> QED
  BY <1>3, <1>4, Zenon DEF Holds

\* The instruction behind the others stores, or does not.
LEMMA HoldsNext ==
  ASSUME NEW t, NEW n \in Nat \ {0}, NEW a
  PROVE  /\ StoresTo(t, n, a) => Holds(t, n + 1, a, t.meant[n])
         /\ ~StoresTo(t, n, a) => \A v : Holds(t, n, a, v) => Holds(t, n + 1, a, v)
<1>1. (n + 1) - 1 = n /\ n \in 1..n /\ (n + 1)..n = {} /\ \A j \in 1..(n - 1) : j \in 1..n
  OBVIOUS
<1>2. StoresTo(t, n, a) => Holds(t, n + 1, a, t.meant[n])
  BY <1>1 DEF Holds
<1>3. ASSUME ~StoresTo(t, n, a), NEW v, Holds(t, n, a, v) PROVE Holds(t, n + 1, a, v)
  <2>1. \A j \in 1..n : j \in 1..(n - 1) \/ j = n
    OBVIOUS
  <2>2. \A j \in Nat : \A k \in (j + 1)..n : k \in (j + 1)..(n - 1) \/ k = n
    OBVIOUS
  <2>3. 1..(n - 1) \subseteq Nat
    OBVIOUS
  <2> QED
    BY <1>1, <1>3, <2>1, <2>2, <2>3 DEF Holds
<1> QED
  BY <1>2, <1>3

LEMMA LoadedStays ==
  ASSUME NEW s, NEW t, Extends(s, t), Typed(s), Ordered(s), NEW i \in 1..Len(s.code),
         s.code[i].op \in {"load", "get"}, Loaded(s, i)
  PROVE  Loaded(t, i)
<1>1. Len(s.code) \in Nat /\ i \in 1..(Len(s.code) + 1)
  BY DEF Typed
<1>2. s.code[i].x \in 1..Len(s.code)
  BY <1>1 DEF Ordered, Fits
<1>3. t.code[i] = s.code[i] /\ t.meant[i] = s.meant[i] /\ t.meant[s.code[i].x] = s.meant[s.code[i].x]
  BY <1>2 DEF Extends
<1> QED
  BY <1>1, <1>3, HoldsStays DEF Loaded

\* Where Put emits is where the builder is.
LEMMA PutLies ==
  ASSUME NEW b \in BuilderNames, NEW op, NEW c,
         c.op = op, c.builder = b, c.block = IF op = "const" THEN "const" ELSE Position(b),
         opened \in {"none", "if", "else"}
  PROVE  Lies(c) /\ (c.block = "entry" => opened = "none")
BY DEF Lies, Position, BuilderNames

\* One more instruction, if it fits and means what its operands mean.
LEMMA PutKeepsOrdered ==
  ASSUME NEW s, Typed(s), Ordered(s), NEW b \in BuilderNames, NEW op \in Ops, NEW x \in Nat,
         NEW y \in Nat, NEW m \in Meanings, opened \in {"none", "if", "else"},
         NEW t, Typed(t), Extends(s, t), Len(t.code) = Len(s.code) + 1,
         t.code[Len(t.code)] = [op |-> op, builder |-> b, x |-> x, y |-> y,
                                block |-> IF op = "const" THEN "const" ELSE Position(b)],
         Fits(t, Len(t.code))
  PROVE  Ordered(t)
<1> DEFINE n == Len(t.code)
<1>1. Len(s.code) \in Nat /\ n = Len(s.code) + 1 /\ \A i \in 1..n : i = n \/ i \in 1..Len(s.code)
  BY DEF Typed
<1>2. Lies(t.code[n]) /\ (t.code[n].block = "entry" => opened = "none")
  BY PutLies
<1>3. ASSUME NEW i \in 1..n PROVE Fits(t, i) /\ Lies(t.code[i])
  <2>1. CASE i = n
    BY <1>2, <2>1
  <2>2. CASE i \in 1..Len(s.code)
    BY <1>1, <2>2, FitsStays DEF Ordered, Extends
  <2> QED
    BY <1>1, <2>1, <2>2
<1>4. ASSUME NEW i \in 1..n, NEW j \in 1..(i - 1), t.code[j].block = "exit" PROVE t.code[i].block # "entry"
  <2>1. j \in 1..Len(s.code) /\ t.code[j] = s.code[j]
    BY <1>1 DEF Extends
  <2>2. CASE i = n
    BY <1>2, <1>4, <2>1, <2>2 DEF Ordered, Lies
  <2>3. CASE i \in 1..Len(s.code)
    BY <1>4, <2>1, <2>3 DEF Ordered, Extends
  <2> QED
    BY <1>1, <2>2, <2>3
<1> QED
  BY <1>3, <1>4 DEF Ordered

LEMMA FaithfulGrows ==
  ASSUME NEW s, NEW t, Typed(s), Ordered(s), Faithful(s), Extends(s, t),
         Len(t.code) = Len(s.code) + 1, t.staleRead \/ MeansOperands(t, Len(t.code))
  PROVE  Faithful(t)
<1>1. Len(s.code) \in Nat
  BY DEF Typed
<1>2. SUFFICES ASSUME ~t.staleRead, NEW i \in 1..Len(t.code) PROVE MeansOperands(t, i)
  BY DEF Faithful
<1>3. CASE i = Len(t.code)
  BY <1>2, <1>3
<1>4. CASE i \in 1..Len(s.code)
  <2>1. ~s.staleRead
    BY <1>2 DEF Extends
  <2> QED
    BY <1>1, <1>4, <2>1, FitsStays DEF Faithful, Ordered
<1> QED
  BY <1>1, <1>3, <1>4

LEMMA PutKeepsGood ==
  ASSUME NEW s, Good(s), NEW b \in BuilderNames, NEW op \in Ops, op # "store", NEW x \in Nat,
         NEW y \in Nat, NEW m \in Meanings, opened \in {"none", "if", "else"},
         NEW t, t = Put(s, b, op, x, y, m), Fits(t, Len(s.code) + 1),
         op \in {"load", "get"} => m = Cell(s, s.meant[x]),
         op \in {"load", "get"} \/ t.staleRead \/ MeansOperands(t, Len(s.code) + 1)
  PROVE  Good(t)
<1> DEFINE n == Len(s.code) + 1
<1>1. /\ Typed(t) /\ Extends(s, t) /\ t.content = s.content /\ t.overwritten = s.overwritten
      /\ Len(t.code) = n /\ n \in Nat \ {0} /\ Len(s.code) \in Nat
      /\ t.code[n] = [op |-> op, builder |-> b, x |-> x, y |-> y,
                      block |-> IF op = "const" THEN "const" ELSE Position(b)]
      /\ t.meant[n] = m /\ t.cache[n] = NoReg
      /\ \A i \in 1..Len(s.code) : t.cache[i] = s.cache[i]
  <2>1. Typed(s)
    BY DEF Good
  <2>2. /\ Typed(t) /\ OnlyReads(s, t) /\ Len(t.code) = n /\ n \in Nat
        /\ t.code[n] = [op |-> op, builder |-> b, x |-> x, y |-> y,
                        block |-> IF op = "const" THEN "const" ELSE Position(b)]
        /\ t.meant[n] = m /\ t.cache[n] = NoReg
        /\ \A i \in 1..Len(s.code) : t.cache[i] = s.cache[i]
    <3>1. Emitted(s, t, b, op, x, y, m)
      BY <2>1, PutFacts
    <3> QED
      BY <3>1 DEF Emitted
  <2>3. Len(s.code) \in Nat
    BY <2>1 DEF Typed
  <2> QED
    BY <2>2, <2>3 DEF OnlyReads
<1> HIDE DEF n
<1>2. \A i \in 1..n : i = n \/ i \in 1..Len(s.code)
  BY <1>1 DEF n
<1>3. Ordered(t)
  BY <1>1, PutKeepsOrdered DEF Good, n
<1>4. Stored(t)
  <2>1. ASSUME NEW a \in Addresses PROVE Holds(t, n + 1, a, t.content[a])
    <3>1. Holds(s, n, a, s.content[a])
      BY DEF Good, Stored, n
    <3>2. Holds(t, n, a, s.content[a])
      BY <1>1, <3>1, HoldsStays DEF Good, n
    <3> QED
      BY <1>1, <3>2, HoldsNext DEF StoresTo
  <2>2. ASSUME NEW i \in 1..n, t.code[i].op \in {"load", "get"} PROVE Loaded(t, i)
    <3>1. CASE i = n
      <4>1. op \in {"load", "get"} /\ x \in 1..Len(s.code) /\ m = Cell(s, s.meant[x])
        BY <1>1, <2>2, <3>1 DEF Fits, n
      <4>2. t.meant[x] = s.meant[x] /\ DOMAIN s.content = Addresses
        BY <1>1, <4>1 DEF Extends, Good, Typed
      <4>3. s.meant[x] \in Addresses => Holds(t, n, s.meant[x], m)
        <5> SUFFICES ASSUME s.meant[x] \in Addresses PROVE Holds(t, n, s.meant[x], m)
          OBVIOUS
        <5>1. Holds(s, n, s.meant[x], s.content[s.meant[x]])
          BY DEF Good, Stored, n
        <5>2. m = s.content[s.meant[x]]
          BY <4>1, <4>2 DEF Cell
        <5>3. n \in 1..(Len(s.code) + 1) /\ Typed(s) /\ Ordered(s)
          BY <1>1 DEF Good, n
        <5>4. Holds(t, n, s.meant[x], m) <=> Holds(s, n, s.meant[x], m)
          BY ONLY <1>1, <5>3, HoldsStays
        <5> QED
          BY <5>1, <5>2, <5>4
      <4>4. s.meant[x] \notin Addresses => m = NoWord
        BY <4>1, <4>2 DEF Cell
      <4> QED
        BY <1>1, <3>1, <4>2, <4>3, <4>4 DEF Loaded
    <3>2. CASE i \in 1..Len(s.code)
      <4>1. t.code[i] = s.code[i]
        BY <1>1, <3>2 DEF Extends
      <4> QED
        BY <1>1, <2>2, <3>2, <4>1, LoadedStays DEF Good, Stored
    <3> QED
      BY <1>2, <3>1, <3>2
  <2> QED
    BY <1>1, <2>1, <2>2 DEF Stored
<1>5. Cached(t)
  <2> SUFFICES ASSUME NEW c \in 1..n, t.cache[c] # NoReg
               PROVE  /\ t.code[c].op \in Caching
                      /\ t.cache[c] \in 1..n
                      /\ t.code[t.cache[c]].op = "load" /\ t.code[t.cache[c]].x = c
                      /\ c \notin t.overwritten => t.meant[t.cache[c]] = Cell(t, t.meant[c])
    BY <1>1 DEF Cached
  <2>1. c \in 1..Len(s.code) /\ s.cache[c] # NoReg /\ t.cache[c] = s.cache[c]
    BY <1>1, <1>2
  <2>2. /\ s.code[c].op \in Caching
        /\ s.cache[c] \in 1..Len(s.code)
        /\ s.code[s.cache[c]].op = "load" /\ s.code[s.cache[c]].x = c
        /\ c \notin s.overwritten => s.meant[s.cache[c]] = Cell(s, s.meant[c])
    BY <2>1 DEF Good, Cached
  <2>3. /\ t.code[c] = s.code[c] /\ t.meant[c] = s.meant[c]
        /\ t.code[s.cache[c]] = s.code[s.cache[c]] /\ t.meant[s.cache[c]] = s.meant[s.cache[c]]
        /\ s.cache[c] \in 1..n
    <3>1. \A i \in 1..Len(s.code) : t.code[i] = s.code[i] /\ t.meant[i] = s.meant[i] /\ i \in 1..n
      BY <1>1 DEF Extends, n
    <3> QED
      BY <2>1, <2>2, <3>1
  <2>4. Cell(t, t.meant[c]) = Cell(s, s.meant[c])
    BY <1>1, <2>3 DEF Cell
  <2> QED
    BY <1>1, <2>1, <2>2, <2>3, <2>4
<1>6. Faithful(t)
  <2>1. op \in {"load", "get"} => MeansOperands(t, n)
    BY <1>1 DEF MeansOperands
  <2>2. Len(t.code) = Len(s.code) + 1 /\ (t.staleRead \/ MeansOperands(t, Len(t.code)))
    BY <1>1, <2>1 DEF n
  <2>3. Typed(s) /\ Ordered(s) /\ Faithful(s)
    BY DEF Good
  <2> QED
    BY ONLY <1>1, <2>2, <2>3, FaithfulGrows
<1> QED
  BY <1>1, <1>3, <1>4, <1>5, <1>6 DEF Good
-----------------------------------------------------------------------------
(* Loads, stores and reads. *)

Arm == opened \in {"none", "if", "else"}

LEMMA CellFacts ==
  ASSUME NEW s, Typed(s), NEW a
  PROVE  Cell(s, a) \in Contents
BY DEF Typed, Cell, Contents

LEMMA CodeFacts ==
  ASSUME NEW s, Typed(s)
  PROVE  /\ Len(s.code) \in Nat /\ DOMAIN s.code = 1..Len(s.code) /\ DOMAIN s.cache = 1..Len(s.code)
         /\ DOMAIN s.content = Addresses
         /\ \A i \in 1..Len(s.code) : s.code[i] \in Instructions /\ s.meant[i] \in Meanings
BY DEF Typed

LEMMA LoadKeepsGood ==
  ASSUME NEW s, Good(s), Arm, NEW h \in 1..Len(s.code), s.code[h].op \in Cells,
         NEW op \in {"load", "get"}
  PROVE  LET t == Load(s, h, op)
             n == Len(s.code) + 1
         IN /\ Good(t) /\ OnlyReads(s, t) /\ t.staleRead = s.staleRead
            /\ Len(t.code) = n /\ t.code[n].op = op /\ t.code[n].x = h
            /\ t.code[n].builder = s.code[h].builder
            /\ t.meant[n] = Cell(s, s.meant[h])
            /\ t.cache[n] = NoReg /\ \A i \in 1..Len(s.code) : t.cache[i] = s.cache[i]
<1> DEFINE t == Load(s, h, op)
           n == Len(s.code) + 1
<1>1. Typed(s) /\ opened \in {"none", "if", "else"}
  BY DEF Good, Arm
<1>2. /\ s.code[h].builder \in BuilderNames /\ op \in Ops /\ op # "store" /\ h \in Nat /\ NoReg \in Nat
      /\ Cell(s, s.meant[h]) \in Meanings /\ Cell(s, s.meant[h]) \in Contents
  BY <1>1, CodeFacts, CellFacts DEF Instructions, Ops, NoReg, Meanings
<1>3. t = Put(s, s.code[h].builder, op, h, NoReg, Cell(s, s.meant[h]))
  BY DEF Load, Home
<1> HIDE DEF t
<1>4. /\ OnlyReads(s, t) /\ t.staleRead = s.staleRead
      /\ Len(t.code) = n /\ n \in Nat
      /\ t.code[n] = [op |-> op, builder |-> s.code[h].builder, x |-> h, y |-> NoReg,
                      block |-> IF op = "const" THEN "const" ELSE Position(s.code[h].builder)]
      /\ t.meant[n] = Cell(s, s.meant[h]) /\ t.cache[n] = NoReg
      /\ \A i \in 1..Len(s.code) : t.cache[i] = s.cache[i]
  <2>1. Emitted(s, t, s.code[h].builder, op, h, NoReg, Cell(s, s.meant[h]))
    BY <1>1, <1>2, <1>3, PutFacts
  <2> QED
    BY <2>1 DEF Emitted
<1>5. t.code[h] = s.code[h] /\ h \in 1..(n - 1)
  BY <1>1, <1>4, CodeFacts DEF OnlyReads, Extends
<1>6. Fits(t, n)
  BY <1>2, <1>4, <1>5 DEF Fits
<1>7. Good(t)
  BY <1>1, <1>2, <1>3, <1>6, PutKeepsGood
<1> QED
  BY <1>4, <1>7 DEF t

LEMMA StoreKeepsGood ==
  ASSUME NEW s, Good(s), Arm, NEW h \in 1..Len(s.code), s.code[h].op \in Cells,
         NEW r \in 1..Len(s.code), s.code[r].op \in Results, NEW m \in Contents,
         s.staleRead \/ m = s.meant[r]
  PROVE  LET t == Store(s, h, r, m)
             n == Len(s.code) + 1
         IN /\ Good(t) /\ Extends(s, t) /\ t.staleRead = s.staleRead
            /\ Len(t.code) = n /\ t.code[n].op = "store" /\ t.code[n].x = h
            /\ t.code[n].builder = s.code[h].builder
            /\ t.content = [a \in Addresses |-> IF a = s.meant[h] THEN m ELSE s.content[a]]
            /\ t.overwritten = s.overwritten \cup
                 {c \in 1..Len(s.code) : s.cache[c] # NoReg /\ s.meant[c] = s.meant[h]}
            /\ t.cache[n] = NoReg /\ \A i \in 1..Len(s.code) : t.cache[i] = s.cache[i]
<1> DEFINE t == Store(s, h, r, m)
           p == Put(s, s.code[h].builder, "store", h, r, m)
           n == Len(s.code) + 1
           spoilt == {c \in 1..Len(s.code) : s.cache[c] # NoReg /\ s.meant[c] = s.meant[h]}
           written == [a \in Addresses |-> IF a = s.meant[h] THEN m ELSE s.content[a]]
<1>1. Typed(s) /\ opened \in {"none", "if", "else"}
  BY DEF Good, Arm
<1>2. /\ s.code[h].builder \in BuilderNames /\ "store" \in Ops /\ h \in Nat /\ r \in Nat
      /\ m \in Meanings
  BY <1>1, CodeFacts DEF Instructions, Ops, Meanings
<1>3. /\ Typed(p) /\ OnlyReads(s, p) /\ p.staleRead = s.staleRead
      /\ Len(p.code) = n /\ n \in Nat
      /\ p.code[n] = [op |-> "store", builder |-> s.code[h].builder, x |-> h, y |-> r,
                      block |-> Position(s.code[h].builder)]
      /\ p.meant[n] = m /\ p.cache[n] = NoReg
      /\ \A i \in 1..Len(s.code) : p.cache[i] = s.cache[i]
  <2>1. Emitted(s, p, s.code[h].builder, "store", h, r, m)
    BY <1>1, <1>2, PutFacts
  <2> QED
    BY <2>1 DEF Emitted
<1>4. p.content = s.content /\ p.overwritten = s.overwritten /\ Extends(s, p)
  BY <1>3 DEF OnlyReads
<1>5. t = [p EXCEPT !.content = written, !.overwritten = s.overwritten \cup spoilt]
  <2>1. DOMAIN s.content = Addresses /\ DOMAIN s.cache = 1..Len(s.code)
    BY <1>1, CodeFacts
  <2> QED
    BY <1>4, <2>1 DEF Store, Home
<1>6. written \in [Addresses -> Contents] /\ s.overwritten \cup spoilt \in SUBSET Nat
  BY <1>1 DEF Typed
<1> HIDE DEF t, p, written, spoilt
<1>7. /\ t.code = p.code /\ t.meant = p.meant /\ t.cache = p.cache /\ t.staleRead = p.staleRead
      /\ t.content = written /\ t.overwritten = s.overwritten \cup spoilt
      /\ t \in [code : Seq(Instructions), cache : Seq(Nat), meant : Seq(Meanings),
                content : [Addresses -> Contents], overwritten : SUBSET Nat, staleRead : BOOLEAN]
  BY <1>3, <1>5, <1>6 DEF Typed
<1>8. Typed(t)
  <2>1. spoilt \subseteq 1..n /\ s.overwritten \subseteq 1..n
    <3>1. Len(s.code) \in Nat /\ s.overwritten \subseteq 1..Len(s.code)
      BY <1>1 DEF Typed
    <3> QED
      BY <3>1 DEF spoilt
  <2> QED
    BY <1>3, <1>7, <2>1 DEF Typed
<1>9. Extends(s, t)
  BY <1>4, <1>7 DEF Extends
<1>10. /\ Len(s.code) \in Nat /\ n \in Nat \ {0} /\ Len(t.code) = n
       /\ \A i \in 1..n : i = n \/ i \in 1..Len(s.code)
  <2>1. Len(s.code) \in Nat
    BY <1>1, CodeFacts
  <2> QED
    BY <1>3, <1>7, <2>1
<1>11. /\ t.code[n].op = "store" /\ t.code[n].x = h /\ t.code[n].y = r
       /\ t.code[n].builder = s.code[h].builder /\ t.meant[n] = m
       /\ t.cache[n] = NoReg /\ \A i \in 1..Len(s.code) : t.cache[i] = s.cache[i]
       /\ t.code[h] = s.code[h] /\ t.code[r] = s.code[r]
       /\ t.meant[h] = s.meant[h] /\ t.meant[r] = s.meant[r]
       /\ h \in 1..(n - 1) /\ r \in 1..(n - 1)
  <2>1. \A i \in 1..Len(s.code) : t.code[i] = s.code[i] /\ t.meant[i] = s.meant[i] /\ i \in 1..(n - 1)
    BY <1>9, <1>10 DEF Extends
  <2>2. /\ t.code[h] = s.code[h] /\ t.code[r] = s.code[r]
        /\ t.meant[h] = s.meant[h] /\ t.meant[r] = s.meant[r]
        /\ h \in 1..(n - 1) /\ r \in 1..(n - 1)
    BY <2>1
  <2>3. t.code[n] = [op |-> "store", builder |-> s.code[h].builder, x |-> h, y |-> r,
                     block |-> Position(s.code[h].builder)]
    BY <1>3, <1>7
  <2>4. t.meant[n] = m /\ t.cache[n] = NoReg /\ \A i \in 1..Len(s.code) : t.cache[i] = s.cache[i]
    BY <1>3, <1>7
  <2> QED
    BY <2>2, <2>3, <2>4
<1>12. Fits(t, n)
  BY <1>11 DEF Fits
<1>13. Ordered(t)
  <2>1. t.code[Len(t.code)] = [op |-> "store", builder |-> s.code[h].builder, x |-> h, y |-> r,
          block |-> IF "store" = "const" THEN "const" ELSE Position(s.code[h].builder)]
    BY <1>3, <1>7, <1>10
  <2> QED
    BY <1>1, <1>2, <1>8, <1>9, <1>10, <1>12, <2>1, PutKeepsOrdered DEF Good
<1>14. Stored(t)
  <2>1. ASSUME NEW a \in Addresses PROVE Holds(t, n + 1, a, t.content[a])
    <3>1. CASE a = s.meant[h]
      <4>1. StoresTo(t, n, a) /\ t.content[a] = m
        BY <1>7, <1>11, <3>1 DEF StoresTo, written
      <4> QED
        BY <1>10, <1>11, <4>1, HoldsNext
    <3>2. CASE a # s.meant[h]
      <4>1. ~StoresTo(t, n, a) /\ t.content[a] = s.content[a]
        BY <1>7, <1>11, <3>2 DEF StoresTo, written
      <4>2. Holds(s, n, a, s.content[a])
        BY DEF Good, Stored
      <4>3. Holds(t, n, a, s.content[a])
        <5>1. n \in 1..(Len(s.code) + 1) /\ Typed(s) /\ Ordered(s)
          BY <1>10 DEF Good
        <5> QED
          BY <1>9, <4>2, <5>1, HoldsStays
      <4> QED
        BY <1>10, <4>1, <4>3, HoldsNext
    <3> QED
      BY <3>1, <3>2
  <2>2. ASSUME NEW i \in 1..n, t.code[i].op \in {"load", "get"} PROVE Loaded(t, i)
    <3>1. i \in 1..Len(s.code) /\ t.code[i] = s.code[i]
      BY <1>9, <1>10, <1>11, <2>2 DEF Extends
    <3> QED
      BY <1>1, <1>9, <2>2, <3>1, LoadedStays DEF Good, Stored
  <2> QED
    BY <1>10, <2>1, <2>2 DEF Stored
<1>15. Cached(t)
  <2> SUFFICES ASSUME NEW c \in 1..n, t.cache[c] # NoReg
               PROVE  /\ t.code[c].op \in Caching
                      /\ t.cache[c] \in 1..n
                      /\ t.code[t.cache[c]].op = "load" /\ t.code[t.cache[c]].x = c
                      /\ c \notin t.overwritten => t.meant[t.cache[c]] = Cell(t, t.meant[c])
    BY <1>10 DEF Cached
  <2>1. c \in 1..Len(s.code) /\ s.cache[c] # NoReg /\ t.cache[c] = s.cache[c]
    BY <1>10, <1>11
  <2>2. /\ s.code[c].op \in Caching
        /\ s.cache[c] \in 1..Len(s.code)
        /\ s.code[s.cache[c]].op = "load" /\ s.code[s.cache[c]].x = c
        /\ c \notin s.overwritten => s.meant[s.cache[c]] = Cell(s, s.meant[c])
    BY <2>1 DEF Good, Cached
  <2>3. /\ t.code[c] = s.code[c] /\ t.meant[c] = s.meant[c]
        /\ t.code[s.cache[c]] = s.code[s.cache[c]] /\ t.meant[s.cache[c]] = s.meant[s.cache[c]]
        /\ s.cache[c] \in 1..n
    <3>1. \A i \in 1..Len(s.code) : t.code[i] = s.code[i] /\ t.meant[i] = s.meant[i] /\ i \in 1..n
      BY <1>9, <1>10 DEF Extends
    <3> QED
      BY <2>1, <2>2, <3>1
  <2>4. c \notin t.overwritten => Cell(t, t.meant[c]) = Cell(s, s.meant[c])
    <3> SUFFICES ASSUME c \notin t.overwritten PROVE Cell(t, t.meant[c]) = Cell(s, s.meant[c])
      OBVIOUS
    <3>1. s.meant[c] # s.meant[h]
      BY <1>7, <2>1 DEF spoilt
    <3>2. DOMAIN s.content = Addresses
      BY <1>1, CodeFacts
    <3> QED
      BY <1>7, <2>3, <3>1, <3>2 DEF Cell, written
  <2> QED
    BY <1>7, <2>1, <2>2, <2>3, <2>4
<1>16. Faithful(t)
  <2>1. t.staleRead \/ MeansOperands(t, n)
    BY <1>3, <1>7, <1>11 DEF MeansOperands
  <2> QED
    BY <1>1, <1>9, <1>10, <2>1, FaithfulGrows DEF Good
<1>17. Good(t)
  BY <1>8, <1>13, <1>14, <1>15, <1>16 DEF Good
<1> QED
  BY <1>3, <1>7, <1>9, <1>10, <1>11, <1>17 DEF t, written, spoilt
\* Read caches and flags are not part of the code.
LEMMA SameCode ==
  ASSUME NEW s, NEW t, Ordered(s), Stored(s), Faithful(s),
         t.code = s.code, t.meant = s.meant, t.content = s.content, s.staleRead => t.staleRead
  PROVE  Ordered(t) /\ Stored(t) /\ Faithful(t)
<1>1. \A i : Fits(s, i) => Fits(t, i)
  BY DEF Fits
<1>2. Ordered(t)
  BY <1>1 DEF Ordered
<1>3. \A j, a : StoresTo(t, j, a) <=> StoresTo(s, j, a)
  BY DEF StoresTo
<1>4. \A n, a, v : Holds(s, n, a, v) => Holds(t, n, a, v)
  BY <1>3 DEF Holds
<1>5. \A i : Loaded(s, i) => Loaded(t, i)
  BY <1>4 DEF Loaded
<1>6. Stored(t)
  BY <1>4, <1>5 DEF Stored
<1>7. \A i : MeansOperands(s, i) => MeansOperands(t, i)
  BY DEF MeansOperands
<1>8. Faithful(t)
  BY <1>7 DEF Faithful
<1> QED
  BY <1>2, <1>6, <1>8

LEMMA FillKeepsGood ==
  ASSUME NEW s, Good(s), NEW h \in 1..Len(s.code), NEW l \in 1..Len(s.code),
         s.code[h].op \in Caching, s.code[l].op = "load", s.code[l].x = h,
         s.meant[l] = Cell(s, s.meant[h])
  PROVE  LET t == [s EXCEPT !.cache[h] = l]
         IN /\ Good(t) /\ OnlyReads(s, t) /\ t.code = s.code /\ t.meant = s.meant
            /\ t.staleRead = s.staleRead
            /\ t.cache[h] = l /\ \A i \in 1..Len(s.code) \ {h} : t.cache[i] = s.cache[i]
<1> DEFINE t == [s EXCEPT !.cache[h] = l]
<1>1. Typed(s) /\ Len(s.code) \in Nat
  BY CodeFacts DEF Good
<1>2. h \in Nat /\ l \in Nat /\ h \in 1..Len(s.cache) /\ s.cache \in Seq(Nat)
  BY <1>1 DEF Typed
<1>3. /\ [s.cache EXCEPT ![h] = l] \in Seq(Nat)
      /\ Len([s.cache EXCEPT ![h] = l]) = Len(s.cache)
  BY <1>2
<1>4. /\ t.code = s.code /\ t.meant = s.meant /\ t.content = s.content
      /\ t.overwritten = s.overwritten /\ t.staleRead = s.staleRead
      /\ t.cache = [s.cache EXCEPT ![h] = l]
      /\ t \in [code : Seq(Instructions), cache : Seq(Nat), meant : Seq(Meanings),
                content : [Addresses -> Contents], overwritten : SUBSET Nat, staleRead : BOOLEAN]
  BY <1>1, <1>3 DEF Typed
<1> HIDE DEF t
<1>5. Typed(t)
  BY <1>1, <1>3, <1>4 DEF Typed
<1>6. OnlyReads(s, t)
  BY <1>1, <1>4 DEF OnlyReads, Extends
<1>7. t.cache[h] = l /\ \A i \in 1..Len(s.code) \ {h} : t.cache[i] = s.cache[i]
  BY <1>1, <1>2, <1>4 DEF Typed
<1>8. Ordered(t) /\ Stored(t) /\ Faithful(t)
  BY <1>4, SameCode DEF Good
<1>9. Cached(t)
  <2>1. \A a : Cell(t, a) = Cell(s, a)
    BY <1>4 DEF Cell
  <2>2. Cached(s)
    BY DEF Good
  <2>3. ASSUME NEW c \in 1..Len(s.code), t.cache[c] # NoReg
        PROVE  /\ s.code[c].op \in Caching
               /\ t.cache[c] \in 1..Len(s.code)
               /\ s.code[t.cache[c]].op = "load" /\ s.code[t.cache[c]].x = c
               /\ c \notin t.overwritten => s.meant[t.cache[c]] = Cell(s, s.meant[c])
    <3>1. CASE c = h
      BY <1>4, <1>7, <2>3, <3>1
    <3>2. CASE c # h
      <4>1. t.cache[c] = s.cache[c]
        BY <1>7, <3>2
      <4>2. s.cache[c] # NoReg
        BY <2>3, <4>1
      <4>3. /\ s.code[c].op \in Caching
            /\ s.cache[c] \in 1..Len(s.code)
            /\ s.code[s.cache[c]].op = "load" /\ s.code[s.cache[c]].x = c
            /\ c \notin s.overwritten => s.meant[s.cache[c]] = Cell(s, s.meant[c])
        BY ONLY <2>2, <4>2, c \in 1..Len(s.code) DEF Cached
      <4>4. c \notin t.overwritten => c \notin s.overwritten
        BY <1>4, <3>2
      <4> QED
        BY ONLY <4>1, <4>3, <4>4
    <3> QED
      BY <3>1, <3>2
  <2>4. t.code = s.code /\ t.meant = s.meant
    BY <1>4
  <2> QED
    BY ONLY <2>1, <2>3, <2>4 DEF Cached
<1> QED
  BY <1>4, <1>5, <1>6, <1>7, <1>8, <1>9 DEF Good, t

LEMMA EmptyKeepsGood ==
  ASSUME NEW s, Good(s), NEW h \in 1..Len(s.code)
  PROVE  LET t == [s EXCEPT !.cache[h] = NoReg, !.overwritten = @ \ {h}]
         IN /\ Good(t) /\ Extends(s, t) /\ t.code = s.code /\ t.meant = s.meant
            /\ t.content = s.content /\ t.overwritten = s.overwritten \ {h}
            /\ t.staleRead = s.staleRead
            /\ t.cache[h] = NoReg /\ \A i \in 1..Len(s.code) \ {h} : t.cache[i] = s.cache[i]
<1> DEFINE t == [s EXCEPT !.cache[h] = NoReg, !.overwritten = @ \ {h}]
<1>1. Typed(s) /\ Len(s.code) \in Nat
  BY CodeFacts DEF Good
<1>2. h \in Nat /\ NoReg \in Nat /\ h \in 1..Len(s.cache) /\ s.cache \in Seq(Nat)
  BY <1>1 DEF Typed, NoReg
<1>3. /\ [s.cache EXCEPT ![h] = NoReg] \in Seq(Nat)
      /\ Len([s.cache EXCEPT ![h] = NoReg]) = Len(s.cache)
      /\ s.overwritten \ {h} \in SUBSET Nat
  BY <1>1, <1>2 DEF Typed
<1>4. /\ t.code = s.code /\ t.meant = s.meant /\ t.content = s.content
      /\ t.overwritten = s.overwritten \ {h} /\ t.staleRead = s.staleRead
      /\ t.cache = [s.cache EXCEPT ![h] = NoReg]
      /\ t \in [code : Seq(Instructions), cache : Seq(Nat), meant : Seq(Meanings),
                content : [Addresses -> Contents], overwritten : SUBSET Nat, staleRead : BOOLEAN]
  BY <1>1, <1>3 DEF Typed
<1> HIDE DEF t
<1>5. Typed(t)
  BY <1>1, <1>3, <1>4 DEF Typed
<1>6. Extends(s, t)
  BY <1>1, <1>4 DEF Extends
<1>7. t.cache[h] = NoReg /\ \A i \in 1..Len(s.code) \ {h} : t.cache[i] = s.cache[i]
  BY <1>1, <1>2, <1>4 DEF Typed
<1>8. Ordered(t) /\ Stored(t) /\ Faithful(t)
  BY <1>4, SameCode DEF Good
<1>9. Cached(t)
  <2>1. \A a : Cell(t, a) = Cell(s, a)
    BY <1>4 DEF Cell
  <2>2. Cached(s)
    BY DEF Good
  <2>3. ASSUME NEW c \in 1..Len(s.code), t.cache[c] # NoReg
        PROVE  /\ s.code[c].op \in Caching
               /\ t.cache[c] \in 1..Len(s.code)
               /\ s.code[t.cache[c]].op = "load" /\ s.code[t.cache[c]].x = c
               /\ c \notin t.overwritten => s.meant[t.cache[c]] = Cell(s, s.meant[c])
    <3>1. CASE c = h
      BY <1>4, <1>7, <2>3, <3>1
    <3>2. CASE c # h
      <4>1. t.cache[c] = s.cache[c]
        BY <1>7, <3>2
      <4>2. s.cache[c] # NoReg
        BY <2>3, <4>1
      <4>3. /\ s.code[c].op \in Caching
            /\ s.cache[c] \in 1..Len(s.code)
            /\ s.code[s.cache[c]].op = "load" /\ s.code[s.cache[c]].x = c
            /\ c \notin s.overwritten => s.meant[s.cache[c]] = Cell(s, s.meant[c])
        BY ONLY <2>2, <4>2, c \in 1..Len(s.code) DEF Cached
      <4>4. c \notin t.overwritten => c \notin s.overwritten
        BY <1>4, <3>2
      <4> QED
        BY ONLY <4>1, <4>3, <4>4
    <3> QED
      BY <3>1, <3>2
  <2>4. t.code = s.code /\ t.meant = s.meant
    BY <1>4
  <2> QED
    BY ONLY <2>1, <2>3, <2>4 DEF Cached
<1> QED
  BY <1>4, <1>5, <1>6, <1>7, <1>8, <1>9 DEF Good, t

LEMMA FlagKeepsGood ==
  ASSUME NEW s, Good(s), NEW b \in BOOLEAN
  PROVE  LET t == [s EXCEPT !.staleRead = @ \/ b]
         IN /\ Good(t) /\ OnlyReads(s, t) /\ t.code = s.code /\ t.meant = s.meant
            /\ t.cache = s.cache /\ t.staleRead = (s.staleRead \/ b)
<1> DEFINE t == [s EXCEPT !.staleRead = @ \/ b]
<1>1. Typed(s) /\ Len(s.code) \in Nat
  BY CodeFacts DEF Good
<1>2. s.staleRead \in BOOLEAN /\ (s.staleRead \/ b) \in BOOLEAN
  BY <1>1 DEF Typed
<1>3. /\ t.code = s.code /\ t.meant = s.meant /\ t.content = s.content
      /\ t.overwritten = s.overwritten /\ t.cache = s.cache
      /\ t.staleRead = (s.staleRead \/ b)
      /\ t \in [code : Seq(Instructions), cache : Seq(Nat), meant : Seq(Meanings),
                content : [Addresses -> Contents], overwritten : SUBSET Nat, staleRead : BOOLEAN]
  BY <1>1, <1>2 DEF Typed
<1> HIDE DEF t
<1>4. Typed(t)
  BY <1>1, <1>3 DEF Typed
<1>5. OnlyReads(s, t)
  BY <1>1, <1>3 DEF OnlyReads, Extends
<1>6. Ordered(t) /\ Stored(t) /\ Faithful(t)
  BY <1>3, SameCode DEF Good
<1>7. Cached(t)
  BY <1>3 DEF Good, Cached, Cell
<1> QED
  BY <1>3, <1>4, <1>5, <1>6, <1>7 DEF Good, t

\* What readValue() can be called on.
ScalarOps == {"const", "get", "call"} \cup Arithmetic \cup Variable
IsScalar(s, h) == h \in 1..Len(s.code) /\ s.code[h].op \in ScalarOps
IsCell(s, h)   == h \in 1..Len(s.code) /\ s.code[h].op \in Cells

\* Register r is an operand that stands for word m.
StandsFor(s, r, m) ==
  /\ r \in 1..Len(s.code) /\ s.code[r].op \in Results
  /\ s.staleRead \/ s.meant[r] = m
  /\ m \in Contents

LEMMA ExtendsTransitive ==
  ASSUME NEW s, NEW t, NEW u, Len(s.code) \in Nat, Len(t.code) \in Nat, Len(u.code) \in Nat,
         Extends(s, t), Extends(t, u)
  PROVE  Extends(s, u)
BY DEF Extends

\* Handles and operands stay what they are when instructions follow.
LEMMA HandlesStay ==
  ASSUME NEW s, NEW t, Extends(s, t), Len(s.code) \in Nat, Len(t.code) \in Nat
  PROVE  /\ \A h : IsScalar(s, h) => IsScalar(t, h)
         /\ \A h : IsCell(s, h) => IsCell(t, h)
         /\ \A r, m : StandsFor(s, r, m) => StandsFor(t, r, m)
         /\ \A h \in 1..Len(s.code) : h \in 1..Len(t.code) /\ t.code[h] = s.code[h] /\ t.meant[h] = s.meant[h]
BY DEF Extends, IsScalar, IsCell, StandsFor

LEMMA MeaningStays ==
  ASSUME NEW s, NEW t, OnlyReads(s, t), NEW h \in 1..Len(s.code)
  PROVE  Meaning(t, h) = Meaning(s, h)
BY DEF OnlyReads, Extends, Meaning, Cell

LEMMA MeaningFacts ==
  ASSUME NEW s, Typed(s), Ordered(s), NEW h, IsScalar(s, h)
  PROVE  Meaning(s, h) \in Contents
<1>1. Fits(s, h) /\ h \in 1..Len(s.code) /\ s.code[h].op \in ScalarOps
  BY DEF Ordered, IsScalar
<1>2. CASE s.code[h].op \in Variable
  BY <1>2, CellFacts DEF Meaning
<1>3. CASE s.code[h].op \notin Variable
  BY <1>1, <1>3 DEF Meaning, Fits, ScalarOps, Contents
<1> QED
  BY <1>2, <1>3

\* readValue() emits at most a load, and returns a register that stands for
\* what the handle means - or the cache was stale.
LEMMA ReadKeepsGood ==
  ASSUME NEW s, Good(s), Arm, NEW h, IsScalar(s, h)
  PROVE  LET t == Read(s, h)
         IN /\ Good(t) /\ OnlyReads(s, t) /\ StandsFor(t, Operand(t, h), Meaning(t, h))
<1> DEFINE t == Read(s, h)
           op == s.code[h].op
           n == Len(s.code) + 1
<1>1. /\ h \in 1..Len(s.code) /\ op \in ScalarOps /\ Len(s.code) \in Nat /\ Typed(s) /\ Ordered(s)
      /\ n \in Nat /\ NoReg \notin 1..n
  BY CodeFacts DEF IsScalar, Good, NoReg
<1>2. Meaning(s, h) \in Contents
  BY <1>1, MeaningFacts
<1>3. op \in Variable => op \in Cells /\ (op \in Caching \/ op = "heap")
  BY DEF Variable, Caching, Cells
<1>4. CASE op \in Variable /\ s.cache[h] = NoReg
  <2> DEFINE l == Load(s, h, "load")
  <2>1. /\ Good(l) /\ OnlyReads(s, l) /\ l.staleRead = s.staleRead
        /\ Len(l.code) = n /\ l.code[n].op = "load" /\ l.code[n].x = h
        /\ l.meant[n] = Cell(s, s.meant[h])
        /\ l.cache[n] = NoReg /\ \A i \in 1..Len(s.code) : l.cache[i] = s.cache[i]
    BY <1>1, <1>3, <1>4, LoadKeepsGood
  <2>2. t = IF op \in Caching THEN [l EXCEPT !.cache[h] = Len(l.code)] ELSE l
    BY <1>4 DEF Read
  <2> HIDE DEF l, t
  <2>3. /\ l.code[h] = s.code[h] /\ l.meant[h] = s.meant[h] /\ l.content = s.content
        /\ h \in 1..Len(l.code) /\ n \in 1..Len(l.code)
    BY <1>1, <2>1 DEF OnlyReads, Extends
  <2>4. Cell(l, l.meant[h]) = Cell(s, s.meant[h]) /\ Meaning(l, h) = Cell(s, s.meant[h])
    BY <1>4, <2>3 DEF Cell, Meaning
  <2>5. CASE op \in Caching
    <3>1. l.code[h].op \in Caching
      BY <2>3, <2>5
    <3>2. l.meant[n] = Cell(l, l.meant[h])
      BY <2>1, <2>4
    <3>3. t = [l EXCEPT !.cache[h] = n]
      BY <2>1, <2>2, <2>5
    <3>4. /\ Good(t) /\ OnlyReads(l, t) /\ t.code = l.code /\ t.meant = l.meant
          /\ t.staleRead = l.staleRead /\ t.cache[h] = n
      <4>1. n \in 1..Len(l.code) /\ h \in 1..Len(l.code) /\ Good(l) /\ l.code[n].op = "load" /\ l.code[n].x = h
        BY <2>1, <2>3
      <4> HIDE DEF n
      <4> QED
        BY <3>1, <3>2, <3>3, <4>1, FillKeepsGood
    <3>5. OnlyReads(s, t)
      BY <1>1, <2>1, <3>4, ExtendsTransitive DEF OnlyReads
    <3>6. Operand(t, h) = n /\ Meaning(t, h) = l.meant[n]
      <4>1. Meaning(t, h) = Meaning(s, h)
        BY <1>1, <3>5, MeaningStays
      <4>2. Meaning(s, h) = Cell(s, s.meant[h])
        BY <1>4 DEF Meaning
      <4> QED
        BY <2>1, <2>3, <2>5, <3>4, <4>1, <4>2 DEF Operand
    <3> QED
      BY <1>2, <1>1, <2>1, <2>3, <3>4, <3>5, <3>6, MeaningStays DEF StandsFor, Results, t
  <2>6. CASE op \notin Caching
    <3>1. t = l /\ op = "heap"
      BY <1>3, <1>4, <2>2, <2>6
    <3>2. Operand(t, h) = n /\ Meaning(t, h) = l.meant[n]
      BY <2>1, <2>3, <2>4, <3>1 DEF Operand, Caching
    <3> QED
      BY <1>2, <1>1, <2>1, <2>3, <3>1, <3>2, MeaningStays DEF StandsFor, Results, t
  <2> QED
    BY <2>5, <2>6
<1>5. CASE ~(op \in Variable /\ s.cache[h] = NoReg)
  <2>1. t = [s EXCEPT !.staleRead = @ \/ h \in s.overwritten] /\ (h \in s.overwritten) \in BOOLEAN
    BY <1>5 DEF Read
  <2> HIDE DEF t
  <2>2. /\ Good(t) /\ OnlyReads(s, t) /\ t.code = s.code /\ t.meant = s.meant
        /\ t.cache = s.cache /\ t.staleRead = (s.staleRead \/ h \in s.overwritten)
    BY <2>1, FlagKeepsGood
  <2>3. Meaning(t, h) = Meaning(s, h)
    BY <1>1, <2>2, MeaningStays
  <2>4. CASE op \in Caching
    <3>1. op \in Variable /\ s.cache[h] # NoReg
      BY <1>5, <2>4 DEF Variable
    <3>2. /\ s.cache[h] \in 1..Len(s.code) /\ s.code[s.cache[h]].op = "load"
          /\ h \notin s.overwritten => s.meant[s.cache[h]] = Cell(s, s.meant[h])
      BY <1>1, <3>1 DEF Good, Cached
    <3>3. Operand(t, h) = s.cache[h] /\ Meaning(s, h) = Cell(s, s.meant[h])
      BY <2>2, <2>4, <3>1 DEF Operand, Meaning
    <3> QED
      BY <1>2, <2>2, <2>3, <3>2, <3>3 DEF StandsFor, Results, t
  <2>5. CASE op \notin Caching
    <3>1. op # "heap"
      <4> SUFFICES ASSUME op = "heap" PROVE FALSE
        OBVIOUS
      <4>1. s.cache[h] # NoReg
        BY <1>5 DEF Variable
      <4> QED
        BY <1>1, <2>5, <4>1 DEF Good, Cached
    <3>2. op \notin Variable /\ op \in Results
      BY <1>1, <2>5, <3>1 DEF Variable, ScalarOps, Results
    <3>3. Operand(t, h) = h /\ Meaning(s, h) = s.meant[h]
      BY <2>2, <2>5, <3>1, <3>2 DEF Operand, Meaning
    <3> QED
      BY <1>1, <1>2, <2>2, <2>3, <3>2, <3>3 DEF StandsFor, t
  <2> QED
    BY <2>4, <2>5
<1> QED
  BY <1>4, <1>5
-----------------------------------------------------------------------------
(* Instructions that neither load nor store. *)

\* One more instruction at the end, which is op and means m.
Adds(s, t, op, m) ==
  /\ Good(t) /\ OnlyReads(s, t) /\ Len(t.code) = Len(s.code) + 1
  /\ t.code[Len(t.code)].op = op /\ t.meant[Len(t.code)] = m

LEMMA PutAdds ==
  ASSUME NEW s, Good(s), Arm, NEW b \in BuilderNames, NEW op \in Ops \ {"load", "get", "store"},
         NEW x \in Nat, NEW y \in Nat, NEW m \in Meanings,
         \A t : /\ Extends(s, t)
                /\ t.code[Len(s.code) + 1] =
                     [op |-> op, builder |-> b, x |-> x, y |-> y,
                      block |-> IF op = "const" THEN "const" ELSE Position(b)]
                /\ t.meant[Len(s.code) + 1] = m
                => Fits(t, Len(s.code) + 1) /\ (t.staleRead \/ MeansOperands(t, Len(s.code) + 1))
  PROVE  Adds(s, Put(s, b, op, x, y, m), op, m)
<1> DEFINE c == [op |-> op, builder |-> b, x |-> x, y |-> y,
                 block |-> IF op = "const" THEN "const" ELSE Position(b)]
           n == Len(s.code) + 1
           t == Put(s, b, op, x, y, m)
<1>1. Typed(s) /\ opened \in {"none", "if", "else"} /\ op \in Ops
  BY DEF Good, Arm
<1>2. /\ Typed(t) /\ OnlyReads(s, t) /\ Len(t.code) = n
      /\ t.code[n] = c /\ t.meant[n] = m
  <2>1. Emitted(s, t, b, op, x, y, m)
    BY <1>1, PutFacts
  <2> QED
    BY <2>1 DEF Emitted
<1>3. \A u : Extends(s, u) /\ u.code[n] = c /\ u.meant[n] = m
               => Fits(u, n) /\ (u.staleRead \/ MeansOperands(u, n))
  OBVIOUS
<1>4. op \notin {"load", "get", "store"}
  OBVIOUS
<1> HIDE DEF c, n, t
<1>5. Extends(s, t)
  BY ONLY <1>2 DEF OnlyReads
<1>6. Fits(t, n) /\ (t.staleRead \/ MeansOperands(t, n))
  BY ONLY <1>2, <1>3, <1>5
<1>7. Good(t)
  BY <1>1, <1>4, <1>6, PutKeepsGood DEF n, t
<1> QED
  BY <1>2, <1>7 DEF Adds, c, n, t

LEMMA ConstAdds ==
  ASSUME NEW s, Good(s), Arm, NEW b \in BuilderNames, NEW w \in Words
  PROVE  Adds(s, Put(s, b, "const", w, NoReg, w), "const", w)
<1>1. w \in Nat /\ NoReg \in Nat /\ w \in Meanings /\ "const" \in Ops \ {"load", "get", "store"}
  BY WordFacts DEF NoReg, Meanings, Contents, Ops
<1> DEFINE n == Len(s.code) + 1
<1>2. ASSUME NEW t,
             t.code[n] = [op |-> "const", builder |-> b, x |-> w, y |-> NoReg,
                          block |-> IF "const" = "const" THEN "const" ELSE Position(b)],
             t.meant[n] = w
      PROVE  Fits(t, n) /\ MeansOperands(t, n)
  BY <1>2 DEF Fits, MeansOperands
<1> QED
  BY <1>1, <1>2, PutAdds

LEMMA NewAdds ==
  ASSUME NEW s, Good(s), Arm, NEW b \in BuilderNames, NEW op \in {"stack", "heap", "array"},
         NEW k \in Nat
  PROVE  Adds(s, Put(s, b, op, NoReg, k, Address(Len(s.code) + 1, 0)), op, Address(Len(s.code) + 1, 0))
<1> DEFINE n == Len(s.code) + 1
<1>1. n \in Nat
  BY CodeFacts DEF Good
<1>2. NoReg \in Nat /\ Address(n, 0) \in Meanings /\ op \in Ops \ {"load", "get", "store"}
  BY <1>1 DEF NoReg, Meanings, Address, Ops
<1>3. ASSUME NEW t,
             t.code[n] = [op |-> op, builder |-> b, x |-> NoReg, y |-> k,
                          block |-> IF op = "const" THEN "const" ELSE Position(b)],
             t.meant[n] = Address(n, 0)
      PROVE  Fits(t, n) /\ MeansOperands(t, n)
  BY <1>3 DEF Fits, MeansOperands
<1> QED
  BY <1>2, <1>3, PutAdds

\* What an operand stands for is what is meant by it.
LEMMA StandsForStays ==
  ASSUME NEW s, NEW t, Good(s), Extends(s, t), NEW r, NEW m, StandsFor(s, r, m)
  PROVE  /\ r \in 1..Len(s.code) /\ t.code[r].op \in Results /\ m \in Contents
         /\ t.staleRead \/ t.meant[r] = m
BY DEF StandsFor, Extends

LEMMA UseAdds ==
  ASSUME NEW s, Good(s), Arm, NEW b \in BuilderNames, NEW op \in {"call", "condbr", "ret"},
         NEW r, NEW m, StandsFor(s, r, m)
  PROVE  LET v == IF op = "call" THEN Answer(m) ELSE m
         IN Adds(s, Put(s, b, op, r, NoReg, v), op, v)
<1> DEFINE v == IF op = "call" THEN Answer(m) ELSE m
           n == Len(s.code) + 1
<1>1. r \in 1..Len(s.code) /\ m \in Contents /\ Len(s.code) \in Nat
  BY CodeFacts DEF StandsFor, Good
<1>2. /\ NoReg \in Nat /\ r \in Nat /\ v \in Contents /\ v \in Meanings
      /\ op \in Ops \ {"load", "get", "store"}
  BY <1>1, WordFacts DEF NoReg, Meanings, Ops
<1>3. ASSUME NEW t, Extends(s, t),
             t.code[n] = [op |-> op, builder |-> b, x |-> r, y |-> NoReg,
                          block |-> IF op = "const" THEN "const" ELSE Position(b)],
             t.meant[n] = v
      PROVE  Fits(t, n) /\ (t.staleRead \/ MeansOperands(t, n))
  <2>1. t.code[r].op \in Results /\ (t.staleRead \/ t.meant[r] = m) /\ r \in 1..(n - 1)
    BY <1>1, <1>3, StandsForStays
  <2> QED
    BY <1>2, <1>3, <2>1 DEF Fits, MeansOperands
<1> HIDE DEF v
<1>4. Adds(s, Put(s, b, op, r, NoReg, v), op, v)
  BY <1>2, <1>3, PutAdds
<1> QED
  BY <1>4 DEF v

LEMMA BinaryAdds ==
  ASSUME NEW s, Good(s), Arm, NEW b \in BuilderNames, NEW op \in Arithmetic,
         NEW q, NEW k, StandsFor(s, q, k), NEW r, NEW m, StandsFor(s, r, m)
  PROVE  Adds(s, Put(s, b, op, q, r, Apply(op, k, m)), op, Apply(op, k, m))
<1> DEFINE n == Len(s.code) + 1
           v == Apply(op, k, m)
<1>1. /\ q \in 1..Len(s.code) /\ k \in Contents
      /\ r \in 1..Len(s.code) /\ m \in Contents /\ Len(s.code) \in Nat
  BY CodeFacts DEF StandsFor, Good
<1>2. q \in Nat /\ r \in Nat /\ v \in Contents /\ v \in Meanings /\ op \in Ops \ {"load", "get", "store"}
  BY <1>1, WordFacts DEF Meanings, Ops
<1>3. ASSUME NEW t, Extends(s, t),
             t.code[n] = [op |-> op, builder |-> b, x |-> q, y |-> r,
                          block |-> IF op = "const" THEN "const" ELSE Position(b)],
             t.meant[n] = v
      PROVE  Fits(t, n) /\ (t.staleRead \/ MeansOperands(t, n))
  <2>1. /\ t.code[q].op \in Results /\ (t.staleRead \/ t.meant[q] = k) /\ q \in 1..(n - 1)
        /\ t.code[r].op \in Results /\ (t.staleRead \/ t.meant[r] = m) /\ r \in 1..(n - 1)
    BY <1>1, <1>3, StandsForStays
  <2> QED
    BY <1>2, <1>3, <2>1 DEF Fits, MeansOperands
<1> HIDE DEF v
<1>4. Adds(s, Put(s, b, op, q, r, v), op, v)
  BY <1>2, <1>3, PutAdds
<1> QED
  BY <1>4 DEF v

\* Where an index leads: element's is scaled.
At(op, m) == IF op = "element" THEN IF m = NoWord THEN NoWord ELSE ElemSize * m ELSE m

LEMMA PointerAdds ==
  ASSUME NEW s, Good(s), Arm, NEW op \in {"item", "element"},
         NEW h \in 1..Len(s.code), s.code[h].op = "array", NEW r, NEW m, StandsFor(s, r, m)
  PROVE  Adds(s, Put(s, s.code[h].builder, op, h, r, Address(h, At(op, m))), op, Address(h, At(op, m)))
<1> DEFINE n == Len(s.code) + 1
           b == s.code[h].builder
           v == At(op, m)
<1>1. /\ r \in 1..Len(s.code) /\ m \in Contents /\ Len(s.code) \in Nat /\ b \in BuilderNames
  BY CodeFacts DEF StandsFor, Good, Instructions
<1>2. v \in Nat \cup {NoWord}
  <2>1. m # NoWord => m \in Nat
    BY <1>1, WordFacts DEF Contents
  <2>2. ElemSize \in Nat
    BY ValuesAssumption
  <2> QED
    BY <2>1, <2>2 DEF At
<1>3. h \in Nat /\ r \in Nat /\ Address(h, v) \in Meanings /\ op \in Ops \ {"load", "get", "store"}
  <2> HIDE DEF v
  <2>1. h \in Nat /\ r \in Nat
    BY <1>1
  <2> QED
    BY <1>2, <2>1 DEF Meanings, Ops, Address
<1>4. ASSUME NEW t, Extends(s, t),
             t.code[n] = [op |-> op, builder |-> b, x |-> h, y |-> r,
                          block |-> IF op = "const" THEN "const" ELSE Position(b)],
             t.meant[n] = Address(h, v)
      PROVE  Fits(t, n) /\ (t.staleRead \/ MeansOperands(t, n))
  <2>1. /\ t.code[r].op \in Results /\ (t.staleRead \/ t.meant[r] = m) /\ r \in 1..(n - 1)
        /\ t.code[h] = s.code[h] /\ h \in 1..(n - 1)
    BY <1>1, <1>4, StandsForStays DEF Extends
  <2>2. Fits(t, n)
    <3> HIDE DEF v
    <3>1. t.meant[n].at = v /\ Address(h, v) = Address(h, t.meant[n].at)
      BY <1>4 DEF Address
    <3> QED
      BY <1>2, <1>4, <2>1, <3>1 DEF Fits
  <2>3. t.staleRead \/ MeansOperands(t, n)
    BY <1>4, <2>1 DEF MeansOperands, At
  <2> QED
    BY <2>2, <2>3
<1> HIDE DEF v, b
<1>5. Adds(s, Put(s, b, op, h, r, Address(h, v)), op, Address(h, v))
  BY <1>1, <1>3, <1>4, PutAdds
<1> QED
  BY <1>5 DEF v, b
-----------------------------------------------------------------------------
(* The calls. *)

LEMMA GoodLen ==
  ASSUME NEW s, Good(s)
  PROVE  Len(s.code) \in Nat /\ Len(s.code) + 1 \in Nat /\ Typed(s) /\ Ordered(s)
BY CodeFacts DEF Good

\* After reading v, and whatever is emitted then without a store, the operand
\* still stands for what v means.
LEMMA ReadStands ==
  ASSUME NEW s, Good(s), Arm, NEW v, IsScalar(s, v)
  PROVE  LET t == Read(s, v)
         IN /\ Good(t) /\ OnlyReads(s, t) /\ Extends(s, t)
            /\ Meaning(t, v) = Meaning(s, v) /\ Meaning(s, v) \in Contents
            /\ StandsFor(t, Operand(t, v), Meaning(s, v))
            /\ \A u : Good(u) /\ Extends(t, u) => StandsFor(u, Operand(t, v), Meaning(s, v))
            /\ \A h : IsScalar(s, h) => IsScalar(t, h) /\ Meaning(t, h) = Meaning(s, h)
            /\ \A h : IsCell(s, h) => IsCell(t, h)
            /\ \A h \in 1..Len(s.code) : h \in 1..Len(t.code) /\ t.code[h] = s.code[h]
<1> DEFINE t == Read(s, v)
<1>1. Good(t) /\ OnlyReads(s, t) /\ StandsFor(t, Operand(t, v), Meaning(t, v))
  BY ReadKeepsGood
<1> HIDE DEF t
<1>2. Extends(s, t) /\ v \in 1..Len(s.code)
  BY <1>1 DEF OnlyReads, IsScalar
<1>3. \A h : IsScalar(s, h) => Meaning(t, h) = Meaning(s, h)
  BY <1>1, MeaningStays DEF IsScalar
<1>4. Meaning(t, v) = Meaning(s, v) /\ Meaning(s, v) \in Contents
  BY <1>3, GoodLen, MeaningFacts
<1>5. /\ \A h : IsScalar(s, h) => IsScalar(t, h)
      /\ \A h : IsCell(s, h) => IsCell(t, h)
      /\ \A h \in 1..Len(s.code) : h \in 1..Len(t.code) /\ t.code[h] = s.code[h]
  BY <1>1, <1>2, GoodLen, HandlesStay
<1>6. ASSUME NEW u, Good(u), Extends(t, u) PROVE StandsFor(u, Operand(t, v), Meaning(s, v))
  BY <1>1, <1>4, <1>6, GoodLen, HandlesStay
<1> QED
  BY <1>1, <1>2, <1>3, <1>4, <1>5, <1>6 DEF t

LEMMA SetValueKeepsGood ==
  ASSUME NEW s, Good(s), Arm, NEW h, IsCell(s, h), NEW v, IsScalar(s, v)
  PROVE  LET t == SetValue(s, h, v)
         IN Good(t) /\ Extends(s, t)
<1> DEFINE r == Read(s, v)
           o == Operand(r, v)
           m == Meaning(r, v)
<1>1. /\ Good(r) /\ Extends(s, r) /\ StandsFor(r, o, m) /\ IsCell(r, h)
  BY ReadStands
<1>2. SetValue(s, h, v) = Store(r, h, o, m)
  BY DEF SetValue
<1> HIDE DEF r, o, m
<1>3. /\ h \in 1..Len(r.code) /\ r.code[h].op \in Cells /\ o \in 1..Len(r.code)
      /\ r.code[o].op \in Results /\ m \in Contents /\ (r.staleRead \/ m = r.meant[o])
  BY <1>1 DEF IsCell, StandsFor
<1>4. Good(Store(r, h, o, m)) /\ Extends(r, Store(r, h, o, m))
  BY <1>1, <1>3, StoreKeepsGood
<1> QED
  BY <1>1, <1>2, <1>4, GoodLen, ExtendsTransitive

LEMMA AssignKeepsGood ==
  ASSUME NEW s, Good(s), Arm, NEW h, IsCell(s, h), NEW v, IsScalar(s, v)
  PROVE  LET t == Assign(s, h, v)
         IN Good(t) /\ Extends(s, t)
<1> DEFINE u == SetValue(s, h, v)
<1>1. Good(u) /\ Extends(s, u)
  BY SetValueKeepsGood
<1>2. Assign(s, h, v) = [u EXCEPT !.cache[h] = NoReg, !.overwritten = @ \ {h}]
  BY DEF Assign
<1> HIDE DEF u
<1>3. h \in 1..Len(u.code)
  BY <1>1, GoodLen, HandlesStay DEF IsCell
<1> DEFINE t == [u EXCEPT !.cache[h] = NoReg, !.overwritten = @ \ {h}]
<1>4. Good(t) /\ Extends(u, t)
  BY <1>1, <1>3, EmptyKeepsGood
<1> HIDE DEF t
<1> QED
  BY <1>1, <1>2, <1>4, GoodLen, ExtendsTransitive DEF t

\* The pointer to a cell of an array is the last instruction.
IsArray(s, h) == h \in 1..Len(s.code) /\ s.code[h].op = "array"

LEMMA ItemKeepsGood ==
  ASSUME NEW s, Good(s), Arm, NEW h, IsArray(s, h), NEW x, IsScalar(s, x)
  PROVE  LET t == Item(s, h, x)
         IN /\ Good(t) /\ OnlyReads(s, t)
            /\ Len(t.code) \in 1..Len(t.code) /\ t.code[Len(t.code)].op = "item"
            /\ t.meant[Len(t.code)] = Address(h, Meaning(s, x))
<1> DEFINE r == Read(s, x)
           o == Operand(r, x)
           m == Meaning(r, x)
           t == Item(s, h, x)
<1>1. /\ Good(r) /\ OnlyReads(s, r) /\ StandsFor(r, o, m) /\ m = Meaning(s, x)
      /\ h \in 1..Len(r.code) /\ r.code[h] = s.code[h] /\ r.code[h].op = "array"
  BY ReadStands DEF IsArray
<1>2. t = Put(r, r.code[h].builder, "item", h, o, Address(h, At("item", m)))
  BY <1>1 DEF Item, Home, At
<1>3. At("item", m) = m
  BY DEF At
<1> HIDE DEF r, o, m, t
<1>4. Adds(r, t, "item", Address(h, At("item", m)))
  BY <1>1, <1>2, PointerAdds
<1>5. Good(t) /\ OnlyReads(r, t) /\ Len(t.code) = Len(r.code) + 1 /\ Len(r.code) \in Nat
  BY <1>1, <1>4, GoodLen DEF Adds
<1>6. OnlyReads(s, t)
  BY <1>1, <1>5, GoodLen, ExtendsTransitive DEF OnlyReads
<1> QED
  BY <1>1, <1>3, <1>4, <1>5, <1>6 DEF Adds, t

LEMMA ElementKeepsGood ==
  ASSUME NEW s, Good(s), Arm, NEW h, IsArray(s, h), NEW x, IsScalar(s, x)
  PROVE  LET t == Element(s, h, x)
         IN /\ Good(t) /\ OnlyReads(s, t)
            /\ Len(t.code) \in 1..Len(t.code) /\ t.code[Len(t.code)].op = "element"
            /\ t.meant[Len(t.code)] = Address(h, At("element", Meaning(s, x)))
<1> DEFINE r == Read(s, x)
           o == Operand(r, x)
           m == Meaning(r, x)
           t == Element(s, h, x)
<1>1. /\ Good(r) /\ OnlyReads(s, r) /\ StandsFor(r, o, m) /\ m = Meaning(s, x)
      /\ h \in 1..Len(r.code) /\ r.code[h] = s.code[h] /\ r.code[h].op = "array"
  BY ReadStands DEF IsArray
<1>2. t = Put(r, r.code[h].builder, "element", h, o, Address(h, At("element", m)))
  BY <1>1 DEF Element, Home, At
<1> HIDE DEF r, o, m, t
<1>3. Adds(r, t, "element", Address(h, At("element", m)))
  BY <1>1, <1>2, PointerAdds
<1>4. Good(t) /\ OnlyReads(r, t) /\ Len(t.code) = Len(r.code) + 1 /\ Len(r.code) \in Nat
  BY <1>1, <1>3, GoodLen DEF Adds
<1>5. OnlyReads(s, t)
  BY <1>1, <1>4, GoodLen, ExtendsTransitive DEF OnlyReads
<1> QED
  BY <1>1, <1>3, <1>4, <1>5 DEF Adds, t

LEMMA SetItemKeepsGood ==
  ASSUME NEW s, Good(s), Arm, NEW h, IsArray(s, h), NEW x, IsScalar(s, x), NEW v, IsScalar(s, v)
  PROVE  LET t == SetItem(s, h, x, v)
         IN Good(t) /\ Extends(s, t)
<1> DEFINE q == Read(s, v)
           o == Operand(q, v)
           m == Meaning(s, v)
           i == Item(q, h, x)
           n == Len(i.code)
           t == SetItem(s, h, x, v)
<1>1. /\ Good(q) /\ Extends(s, q) /\ IsScalar(q, x) /\ IsArray(q, h)
      /\ \A u : Good(u) /\ Extends(q, u) => StandsFor(u, o, m)
  BY ReadStands DEF IsArray
<1>2. t = Store(i, n, o, m)
  BY DEF SetItem
<1> HIDE DEF q, o, m, i, t
<1>3. Good(i) /\ Extends(q, i) /\ n \in 1..Len(i.code) /\ i.code[n].op = "item"
  BY <1>1, ItemKeepsGood DEF i, OnlyReads
<1>4. StandsFor(i, o, m)
  BY <1>1, <1>3
<1> HIDE DEF n
<1>5. /\ i.code[n].op \in Cells /\ o \in 1..Len(i.code) /\ i.code[o].op \in Results
      /\ m \in Contents /\ (i.staleRead \/ m = i.meant[o])
  BY <1>3, <1>4 DEF StandsFor, Cells
<1>6. Good(t) /\ Extends(i, t)
  BY <1>2, <1>3, <1>5, StoreKeepsGood
<1> QED
  BY <1>1, <1>3, <1>6, GoodLen, ExtendsTransitive DEF t

LEMMA GetItemKeepsGood ==
  ASSUME NEW s, Good(s), Arm, NEW h, IsArray(s, h), NEW x, IsScalar(s, x)
  PROVE  LET t == GetItem(s, h, x)
         IN Good(t) /\ Extends(s, t)
<1> DEFINE i == Item(s, h, x)
           n == Len(i.code)
           t == GetItem(s, h, x)
<1>1. Good(i) /\ Extends(s, i) /\ n \in 1..Len(i.code) /\ i.code[n].op = "item"
  BY ItemKeepsGood DEF OnlyReads
<1>2. t = Load(i, n, "get")
  BY DEF GetItem
<1> HIDE DEF i, t
<1>3. i.code[n].op \in Cells
  BY <1>1 DEF Cells
<1> HIDE DEF n
<1>4. Good(t) /\ Extends(i, t)
  BY <1>1, <1>2, <1>3, LoadKeepsGood DEF OnlyReads
<1> QED
  BY <1>1, <1>4, GoodLen, ExtendsTransitive DEF t

LEMMA BinaryKeepsGood ==
  ASSUME NEW s, Good(s), Arm, NEW op \in Arithmetic, NEW a, IsScalar(s, a), NEW b, IsScalar(s, b)
  PROVE  LET t == Binary(s, op, a, b)
         IN /\ Good(t) /\ OnlyReads(s, t)
            /\ Len(t.code) \in 1..Len(t.code) /\ t.code[Len(t.code)].op = op
            /\ t.meant[Len(t.code)] = Apply(op, Meaning(s, a), Meaning(s, b))
<1> DEFINE p == Read(s, a)
           u == Read(p, b)
           q == Operand(p, a)
           r == Operand(u, b)
           k == Meaning(s, a)
           m == Meaning(s, b)
           t == Binary(s, op, a, b)
<1>1. /\ Good(p) /\ OnlyReads(s, p) /\ IsScalar(p, b) /\ Meaning(p, b) = m
      /\ \A w : Good(w) /\ Extends(p, w) => StandsFor(w, q, k)
  BY ReadStands
<1>2. t = Put(u, s.code[a].builder, op, q, r, Apply(op, k, m))
  BY DEF Binary, Home
<1> HIDE DEF p, q, k, m, t
<1>3. /\ Good(u) /\ OnlyReads(p, u) /\ Extends(p, u) /\ StandsFor(u, r, m)
  BY <1>1, ReadStands
<1> HIDE DEF u, r
<1>4. StandsFor(u, q, k)
  BY <1>1, <1>3
<1>5. s.code[a].builder \in BuilderNames
  BY GoodLen, CodeFacts DEF IsScalar, Instructions
<1>6. Adds(u, t, op, Apply(op, k, m))
  BY <1>2, <1>3, <1>4, <1>5, BinaryAdds
<1>7. Good(t) /\ OnlyReads(u, t) /\ Len(t.code) = Len(u.code) + 1 /\ Len(u.code) \in Nat
  BY <1>3, <1>6, GoodLen DEF Adds
<1>8. OnlyReads(s, t)
  <2>1. OnlyReads(s, u)
    BY <1>1, <1>3, GoodLen, ExtendsTransitive DEF OnlyReads
  <2> QED
    BY <1>3, <1>7, <2>1, GoodLen, ExtendsTransitive DEF OnlyReads
<1> QED
  BY <1>6, <1>7, <1>8 DEF Adds, t, k, m

\* Calls, branches and returns.
LEMMA UseKeepsGood ==
  ASSUME NEW s, Good(s), Arm, NEW b \in BuilderNames, NEW op \in {"call", "condbr", "ret"},
         NEW v, IsScalar(s, v)
  PROVE  LET r == Read(s, v)
             m == IF op = "call" THEN Answer(Meaning(r, v)) ELSE Meaning(r, v)
             t == Put(r, b, op, Operand(r, v), NoReg, m)
         IN /\ Good(t) /\ OnlyReads(s, t) /\ Meaning(r, v) = Meaning(s, v)
            /\ Len(t.code) \in 1..Len(t.code) /\ t.code[Len(t.code)].op = op
            /\ t.meant[Len(t.code)] = m
<1> DEFINE r == Read(s, v)
           o == Operand(r, v)
           w == Meaning(r, v)
           m == IF op = "call" THEN Answer(w) ELSE w
           t == Put(r, b, op, o, NoReg, m)
<1>1. /\ Good(r) /\ OnlyReads(s, r) /\ StandsFor(r, o, w) /\ Meaning(r, v) = Meaning(s, v)
  BY ReadStands
<1> HIDE DEF r, o, w
<1>2. Adds(r, t, op, m)
  BY <1>1, UseAdds
<1> HIDE DEF m, t
<1>3. Good(t) /\ OnlyReads(r, t) /\ Len(t.code) = Len(r.code) + 1 /\ Len(r.code) \in Nat
  BY <1>1, <1>2, GoodLen DEF Adds
<1>4. OnlyReads(s, t)
  BY <1>1, <1>3, GoodLen, ExtendsTransitive DEF OnlyReads
<1> QED
  BY <1>1, <1>2, <1>3, <1>4 DEF Adds, r, o, w, m, t
-----------------------------------------------------------------------------
(* The steps. *)

GoodState == Good(state) /\ Arm /\ Len(code) <= MaxCode

\* The variables take the fields of what a call returns.
LEMMA BecomeState ==
  ASSUME NEW t, Typed(t), Become(t)
  PROVE  state' = t /\ Len(code') <= MaxCode
<1>1. /\ code' = t.code /\ cache' = t.cache /\ meant' = t.meant /\ content' = t.content
      /\ overwritten' = t.overwritten /\ staleRead' = t.staleRead /\ Len(t.code) <= MaxCode
  BY DEF Become
<1>2. state' = [code |-> code', cache |-> cache', meant |-> meant', content |-> content',
                overwritten |-> overwritten', staleRead |-> staleRead']
  BY DEF state
<1>3. t \in [code : Seq(Instructions), cache : Seq(Nat), meant : Seq(Meanings),
             content : [Addresses -> Contents], overwritten : SUBSET Nat, staleRead : BOOLEAN]
  BY DEF Typed
<1>4. t = [code |-> t.code, cache |-> t.cache, meant |-> t.meant, content |-> t.content,
           overwritten |-> t.overwritten, staleRead |-> t.staleRead]
  BY <1>3
<1> QED
  BY <1>1, <1>2, <1>4

LEMMA GoodNext ==
  ASSUME NEW t, Good(t), state' = t, opened' = "none" => opened = "none"
  PROVE  Good(state)'
<1>1. Typed(state)'
  BY DEF Good, Typed
<1>2. Ordered(state)'
  <2>1. \A i : Fits(t, i) => Fits(state, i)'
    BY DEF Fits
  <2>2. \A c : Lies(c) => Lies(c)'
    BY DEF Lies
  <2> QED
    BY <2>1, <2>2 DEF Good, Ordered
<1>3. Stored(state)'
  <2>1. \A j, a : StoresTo(t, j, a) <=> StoresTo(state, j, a)'
    BY DEF StoresTo
  <2>2. \A n, a, v : Holds(t, n, a, v) => Holds(state, n, a, v)'
    BY <2>1 DEF Holds
  <2>3. \A i : Loaded(t, i) => Loaded(state, i)'
    BY <2>2 DEF Loaded
  <2> QED
    BY <2>2, <2>3 DEF Good, Stored
<1>4. Cached(state)'
  BY DEF Good, Cached, Cell
<1>5. Faithful(state)'
  <2>1. \A i : MeansOperands(t, i) => MeansOperands(state, i)'
    BY DEF MeansOperands
  <2> QED
    BY <2>1 DEF Good, Faithful
<1> QED
  BY <1>1, <1>2, <1>3, <1>4, <1>5 DEF Good

LEMMA BecomeGood ==
  ASSUME NEW t, Good(t), Become(t), Arm', opened' = "none" => opened = "none"
  PROVE  GoodState'
<1>1. Typed(t)
  BY DEF Good
<1>2. state' = t /\ Len(code') <= MaxCode
  BY <1>1, BecomeState
<1>3. Good(state)'
  BY <1>2, GoodNext
<1> QED
  BY <1>2, <1>3 DEF GoodState

LEMMA InitGood == Init => GoodState
<1> SUFFICES ASSUME Init PROVE GoodState
  OBVIOUS
<1>1. /\ state.code = <<>> /\ state.cache = <<>> /\ state.meant = <<>>
      /\ state.content = [a \in Addresses |-> NoWord]
      /\ state.overwritten = {} /\ state.staleRead = FALSE
      /\ opened = "none" /\ code = <<>>
  BY DEF Init, Fresh, state
<1>2. Typed(state)
  <2>1. [a \in Addresses |-> NoWord] \in [Addresses -> Contents]
    BY DEF Contents
  <2> QED
    BY <2>1 DEF Init, Fresh, state, Typed
<1>3. Len(state.code) = 0 /\ 1..0 = {} /\ 1..(1 - 1) = {}
  BY <1>1
<1>4. Stored(state)
  <2>1. \A a \in Addresses : Holds(state, 1, a, NoWord)
    BY <1>3 DEF Holds
  <2> QED
    BY <1>1, <1>3, <2>1 DEF Stored
<1>5. Ordered(state) /\ Cached(state) /\ Faithful(state)
  BY <1>3 DEF Ordered, Cached, Faithful
<1> QED
  BY <1>1, <1>2, <1>3, <1>4, <1>5, ValuesAssumption DEF GoodState, Good, Arm

\* What the client passes is what the calls expect.
LEMMA ClientFacts ==
  ASSUME GoodState
  PROVE  /\ Good(state) /\ Arm /\ Builders \subseteq BuilderNames
         /\ Arm' <=> opened' \in {"none", "if", "else"}
         /\ \A h \in Scalars : IsScalar(state, h)
         /\ \A h \in Variables : IsCell(state, h)
         /\ Handles(Caching) \subseteq Variables
         /\ \A h \in Arrays : IsArray(state, h)
<1>1. state.code = code /\ Good(state) /\ Arm
  BY DEF state, GoodState
<1>2. DOMAIN code = 1..Len(code)
  BY <1>1, CodeFacts DEF Good
<1>3. Builders \subseteq BuilderNames
  BY DEF Builders, BuilderNames
<1> QED
  BY <1>1, <1>2, <1>3 DEF Scalars, Variables, Arrays, Handles, IsScalar, IsCell, IsArray,
     ScalarOps, Variable, Cells, Caching, Arm

LEMMA CallGood ==
  ASSUME GoodState, NEW t, Good(t), Call(t)
  PROVE  GoodState'
BY BecomeGood DEF GoodState, Call, Arm

LEMMA GoodInductive == GoodState /\ [Next]_vars => GoodState'
<1> SUFFICES ASSUME GoodState, [Next]_vars PROVE GoodState'
  OBVIOUS
<1>1. /\ Good(state) /\ Arm /\ Builders \subseteq BuilderNames
      /\ \A h \in Scalars : IsScalar(state, h)
      /\ \A h \in Variables : IsCell(state, h)
      /\ Handles(Caching) \subseteq Variables
      /\ \A h \in Arrays : IsArray(state, h)
      /\ state.code = code
  BY ClientFacts DEF state
<1>2. ASSUME NEW b \in Builders, NEW w \in Literals, ToInt(b, w) PROVE GoodState'
  <2>1. w \in Words
    BY ValuesAssumption DEF Words
  <2>2. Good(Put(state, b, "const", w, NoReg, w))
    BY <1>1, <2>1, ConstAdds DEF Adds
  <2> QED
    BY <1>2, <2>2, CallGood DEF ToInt
<1>3. ASSUME NEW b \in Builders, NEW op \in {"stack", "heap", "array"}, NEW n \in Nat, New(b, op, n)
      PROVE  GoodState'
  <2>1. Good(Put(state, b, op, NoReg, n, Address(Len(state.code) + 1, 0)))
    BY <1>1, NewAdds DEF Adds
  <2> QED
    BY <1>1, <1>3, <2>1, CallGood DEF New
<1>4. ASSUME NEW h \in Variables, Get(h) PROVE GoodState'
  <2>1. Good(Load(state, h, "get"))
    BY <1>1, LoadKeepsGood DEF IsCell
  <2> QED
    BY <1>4, <2>1, CallGood DEF Get
<1>5. ASSUME NEW h \in Variables, NEW v \in Scalars, Set(h, v) PROVE GoodState'
  BY <1>1, <1>5, SetValueKeepsGood, CallGood DEF Set
<1>6. ASSUME NEW h \in Handles(Caching), NEW v \in Scalars, WriteValue(h, v) PROVE GoodState'
  BY <1>1, <1>6, AssignKeepsGood, CallGood DEF WriteValue
<1>7. ASSUME NEW h \in Arrays, NEW x \in Scalars, NEW v \in Scalars, SetAt(h, x, v) PROVE GoodState'
  BY <1>1, <1>7, SetItemKeepsGood, CallGood DEF SetAt
<1>8. ASSUME NEW h \in Arrays, NEW x \in Scalars, GetAt(h, x) PROVE GoodState'
  BY <1>1, <1>8, GetItemKeepsGood, CallGood DEF GetAt
<1>9. ASSUME NEW h \in Arrays, NEW x \in Scalars, GetArrayElement(h, x) PROVE GoodState'
  BY <1>1, <1>9, ElementKeepsGood, CallGood DEF GetArrayElement
<1>10. ASSUME NEW op \in Arithmetic, NEW a \in Scalars, NEW b \in Scalars, Compute(op, a, b) PROVE GoodState'
  BY <1>1, <1>10, BinaryKeepsGood, CallGood DEF Compute
<1>11. ASSUME NEW b \in Builders, NEW v \in Scalars, CallFunction(b, v) PROVE GoodState'
  <2>1. Good(CallWith(state, b, v))
    BY <1>1, UseKeepsGood DEF CallWith
  <2> QED
    BY <1>11, <2>1, CallGood DEF CallFunction
<1>12. ASSUME NEW v \in Scalars, IfStatement(v) PROVE GoodState'
  <2> DEFINE r == Read(state, v)
             t == Put(r, "f", "condbr", Operand(r, v), NoReg, Meaning(r, v))
  <2>1. Good(t)
    BY <1>1, UseKeepsGood DEF BuilderNames
  <2>2. Become(t) /\ opened' = "if"
    BY <1>12 DEF IfStatement
  <2> QED
    BY <2>1, <2>2, BecomeGood DEF Arm
<1>13. ASSUME ElseStatement PROVE GoodState'
  BY <1>1, <1>13, BecomeGood DEF ElseStatement, Arm
<1>14. ASSUME UNCHANGED vars PROVE GoodState'
  <2>1. state' = state /\ opened' = opened /\ code' = code
    BY <1>14 DEF vars, state
  <2>2. Good(state)'
    BY <1>1, <2>1, GoodNext
  <2> QED
    BY <2>1, <2>2 DEF GoodState, Arm
<1>15. Lengths \subseteq Nat /\ 1 \in Nat
  BY ValuesAssumption
<1> QED
  BY <1>2, <1>3, <1>4, <1>5, <1>6, <1>7, <1>8, <1>9, <1>10, <1>11, <1>12, <1>13, <1>14, <1>15
     DEF Next

LEMMA AlwaysGood == Spec => []GoodState
<1> QED
  BY InitGood, GoodInductive, PTL DEF Spec

\* The fields have their types, and a read cache holds a load from its own
\* variable.
THEOREM ValuesTypes == Spec => []TypeOK
<1>1. GoodState => TypeOK
  <2> SUFFICES ASSUME GoodState PROVE TypeOK
    OBVIOUS
  <2>1. /\ Typed(state) /\ Cached(state) /\ Arm /\ Len(code) <= MaxCode
        /\ state.code = code /\ state.cache = cache /\ state.meant = meant
        /\ state.content = content /\ state.overwritten = overwritten /\ state.staleRead = staleRead
    BY DEF GoodState, Good, state
  <2>2. /\ code \in Seq(Instructions) /\ cache \in Seq(Nat) /\ meant \in Seq(Meanings)
        /\ content \in [Addresses -> Contents] /\ staleRead \in BOOLEAN
        /\ Len(cache) = Len(code) /\ Len(meant) = Len(code) /\ overwritten \subseteq 1..Len(code)
    BY <2>1 DEF Typed
  <2>3. DOMAIN code = 1..Len(code) /\ DOMAIN meant = DOMAIN code /\ DOMAIN cache = DOMAIN code
    BY <2>2
  <2>4. \A h \in DOMAIN code : cache[h] # NoReg =>
          cache[h] \in 1..Len(code) /\ code[cache[h]].op = "load" /\ code[cache[h]].x = h
    BY <2>1, <2>3 DEF Cached
  <2>5. cache \in [DOMAIN code -> 0..Len(code)]
    <3>1. cache = [h \in DOMAIN cache |-> cache[h]] /\ Len(code) \in Nat
      BY <2>2
    <3>2. \A h \in DOMAIN code : cache[h] \in 0..Len(code)
      BY <2>4, <3>1 DEF NoReg
    <3> QED
      BY <2>3, <3>1, <3>2
  <2> QED
    BY <2>1, <2>2, <2>3, <2>4, <2>5 DEF TypeOK, Arm, Instructions, BuilderNames, Blocks, Contents
<1> QED
  BY <1>1, AlwaysGood, PTL
-----------------------------------------------------------------------------
(* Execution. *)

IsMachine(m) ==
  /\ m = [reg |-> m.reg, mem |-> m.mem]
  /\ m.reg = [i \in DOMAIN code |-> m.reg[i]]
  /\ m.mem = [p \in Addresses |-> m.mem[p]]

Contained(m, p) == IF p \in Addresses THEN m.mem[p] ELSE NoWord

\* What instruction i puts in its register.
Result(m, i) ==
  LET c == code[i]
  IN CASE c.op = "const" -> c.x
       [] c.op \in {"stack", "heap", "array"} -> Address(i, 0)
       [] c.op = "item" -> Address(c.x, m.reg[c.y])
       [] c.op = "element" ->
            Address(c.x, IF m.reg[c.y] = NoWord THEN NoWord ELSE ElemSize * m.reg[c.y])
       [] c.op \in {"load", "get"} -> Contained(m, m.reg[c.x])
       [] c.op = "store" -> m.reg[c.y]
       [] c.op \in Arithmetic -> Apply(c.op, m.reg[c.x], m.reg[c.y])
       [] c.op = "call" -> Answer(m.reg[c.x])
       [] c.op \in {"condbr", "ret"} -> m.reg[c.x]

LEMMA ReturnsFacts ==
  ASSUME NEW m, IsMachine(m), NEW i \in DOMAIN code, NEW v
  PROVE  LET w == [m EXCEPT !.reg[i] = v]
         IN /\ IsMachine(w) /\ w.mem = m.mem /\ w.reg[i] = v
            /\ \A j \in DOMAIN code : j # i => w.reg[j] = m.reg[j]
<1> DEFINE r == [j \in DOMAIN code |-> IF j = i THEN v ELSE m.reg[j]]
           w == [m EXCEPT !.reg[i] = v]
<1>1. [m.reg EXCEPT ![i] = v] = r
  BY DEF IsMachine
<1>2. w = [reg |-> r, mem |-> m.mem]
  <2>1. w = [m EXCEPT !.reg = [m.reg EXCEPT ![i] = v]]
    BY DEF IsMachine
  <2>2. m = [reg |-> m.reg, mem |-> m.mem]
    BY DEF IsMachine
  <2> HIDE DEF r, w
  <2> QED
    BY <1>1, <2>1, <2>2
<1>3. w.reg = r /\ w.mem = m.mem
  BY <1>2
<1>4. r = [j \in DOMAIN code |-> r[j]]
  OBVIOUS
<1>5. r[i] = v /\ \A j \in DOMAIN code : j # i => r[j] = m.reg[j]
  OBVIOUS
<1>6. m.mem = [p \in Addresses |-> m.mem[p]]
  BY DEF IsMachine
<1> HIDE DEF r, w
<1>7. IsMachine(w)
  BY <1>2, <1>3, <1>4, <1>6 DEF IsMachine
<1> QED
  BY <1>3, <1>5, <1>7 DEF w

LEMMA ExecuteFacts ==
  ASSUME NEW m, IsMachine(m), NEW i \in DOMAIN code, code[i].op \in Ops
  PROVE  LET w == Execute(m, i)
         IN /\ IsMachine(w) /\ w.reg[i] = Result(m, i)
            /\ \A j \in DOMAIN code : j # i => w.reg[j] = m.reg[j]
            /\ \A p \in Addresses :
                 w.mem[p] = IF code[i].op = "store" /\ p = m.reg[code[i].x]
                            THEN m.reg[code[i].y] ELSE m.mem[p]
<1> DEFINE w == Execute(m, i)
           v == Result(m, i)
           u == [m EXCEPT !.reg[i] = v]
<1>1. /\ IsMachine(u) /\ u.mem = m.mem /\ u.reg[i] = v
      /\ \A j \in DOMAIN code : j # i => u.reg[j] = m.reg[j]
  <2> HIDE DEF v
  <2> QED
    BY ReturnsFacts
<1>2. DOMAIN m.mem = Addresses
  BY DEF IsMachine
<1>3. CASE code[i].op = "store" /\ m.reg[code[i].x] \in DOMAIN m.mem
  <2> DEFINE a == m.reg[code[i].x]
             k == m.reg[code[i].y]
             q == [p \in Addresses |-> IF p = a THEN k ELSE m.mem[p]]
  <2>1. v = k
    BY <1>3 DEF Result
  <2>2. w = [u EXCEPT !.mem[a] = k]
    BY <1>3, <2>1 DEF Execute
  <2>3. u = [reg |-> u.reg, mem |-> u.mem] /\ u.mem = [p \in Addresses |-> u.mem[p]]
    BY <1>1 DEF IsMachine
  <2> HIDE DEF u, w
  <2>4. [u.mem EXCEPT ![a] = k] = q
    BY <1>1, <2>3
  <2>5. w = [reg |-> u.reg, mem |-> q]
    <3>1. w = [u EXCEPT !.mem = [u.mem EXCEPT ![a] = k]]
      BY <2>2, <2>3
    <3> HIDE DEF q, a, k
    <3> QED
      BY <2>3, <2>4, <3>1
  <2>6. w.reg = u.reg /\ w.mem = q
    BY <2>5
  <2>7. IsMachine(w)
    <3>1. q = [p \in Addresses |-> q[p]]
      OBVIOUS
    <3> HIDE DEF q
    <3> QED
      BY <1>1, <2>5, <2>6, <3>1 DEF IsMachine
  <2>8. \A p \in Addresses : w.mem[p] = IF p = a THEN k ELSE m.mem[p]
    BY <2>6
  <2> QED
    BY <1>1, <1>3, <2>1, <2>6, <2>7, <2>8 DEF w
<1>4. CASE ~(code[i].op = "store" /\ m.reg[code[i].x] \in DOMAIN m.mem)
  <2>1. w = u
    BY <1>2, <1>4 DEF Execute, Result, Contained, Ops
  <2>2. \A p \in Addresses : ~(code[i].op = "store" /\ p = m.reg[code[i].x])
    BY <1>2, <1>4
  <2> QED
    BY <1>1, <2>1, <2>2 DEF w
<1> QED
  BY <1>3, <1>4

\* The least member of a set of natural numbers.
LEMMA Least ==
  ASSUME NEW T, T \subseteq Nat, T # {}
  PROVE  \E m \in T : \A k \in T : m <= k
<1> DEFINE R == OpToRel(<, Nat)
<1>1. IsWellFoundedOn(R, Nat)
  BY NatLessThanWellFounded, Zenon
<1>2. \A x, y \in Nat : y < x => <<y, x>> \in R
  BY Zenon DEF OpToRel
<1> HIDE DEF R
<1>3. PICK m \in T : \A y \in T : ~(<<y, m>> \in R)
  BY <1>1, WFMin
<1>4. \A k \in T : ~(k < m)
  BY <1>2, <1>3
<1> QED
  BY <1>3, <1>4

\* The recursion of Pass has a solution, so a pass goes from machine to machine.
Advance(f, m, b, k) == IF k = 0 THEN m ELSE Step(f[k - 1], b, k)
Passes(f, m, b) == f = [k \in 0..Len(code) |-> Advance(f, m, b, k)]

LEMMA AdvanceExists ==
  ASSUME Len(code) \in Nat, NEW m, NEW b
  PROVE  \E f : Passes(f, m, b)
<1> DEFINE Solves(f, n) == \A k \in 0..n : f[k] = Advance(f, m, b, k)
           Bad == {n \in 0..Len(code) : ~\E f : Solves(f, n)}
<1>1. Bad = {}
  <2> SUFFICES ASSUME Bad # {} PROVE FALSE
    OBVIOUS
  <2>1. Bad \subseteq Nat
    OBVIOUS
  <2>2. PICK n \in Bad : \A k \in Bad : n <= k
    <3> HIDE DEF Bad
    <3> QED
      BY <2>1, Least
  <2>3. n \in 0..Len(code) /\ ~\E f : Solves(f, n)
    OBVIOUS
  <2>4. n # 0
    <3> SUFFICES ASSUME n = 0 PROVE FALSE
      OBVIOUS
    <3> DEFINE g == [k \in {0} |-> m]
    <3>1. Solves(g, 0)
      BY DEF Advance
    <3> QED
      BY <2>3, <3>1
  <2>5. n - 1 \in 0..Len(code) /\ ~(n <= n - 1) /\ n - 1 # n /\ n \in Nat
    BY <2>3, <2>4
  <2>6. PICK f : Solves(f, n - 1)
    BY <2>2, <2>5
  <2> DEFINE g == [k \in 0..n |-> IF k = n THEN Step(f[n - 1], b, n) ELSE f[k]]
  <2>7. g[n] = Step(f[n - 1], b, n) /\ \A k \in 0..(n - 1) : g[k] = f[k]
    BY <2>5
  <2> HIDE DEF g
  <2>8. ASSUME NEW k \in 0..n PROVE g[k] = Advance(g, m, b, k)
    <3>1. CASE k = n
      <4>1. g[n - 1] = f[n - 1]
        BY <2>4, <2>5, <2>7
      <4> QED
        BY <2>4, <2>7, <3>1, <4>1 DEF Advance
    <3>2. CASE k # n
      <4>1. k \in 0..(n - 1) /\ (k # 0 => k - 1 \in 0..(n - 1))
        BY <2>5, <3>2
      <4>2. g[k] = f[k] /\ f[k] = Advance(f, m, b, k) /\ (k # 0 => g[k - 1] = f[k - 1])
        BY <2>6, <2>7, <4>1
      <4> QED
        BY <4>2 DEF Advance
    <3> QED
      BY <3>1, <3>2
  <2> QED
    BY <2>3, <2>8
<1>2. Len(code) \in 0..Len(code)
  OBVIOUS
<1>3. PICK f : Solves(f, Len(code))
  BY <1>1, <1>2
<1> DEFINE g == [k \in 0..Len(code) |-> f[k]]
<1>4. \A k \in 0..Len(code) : g[k] = f[k] /\ (k # 0 => k - 1 \in 0..Len(code) /\ g[k - 1] = f[k - 1])
  OBVIOUS
<1> HIDE DEF g
<1>5. \A k \in 0..Len(code) : f[k] = Advance(g, m, b, k)
  <2> SUFFICES ASSUME NEW k \in 0..Len(code) PROVE f[k] = Advance(g, m, b, k)
    OBVIOUS
  <2>1. f[k] = Advance(f, m, b, k)
    BY <1>3
  <2> QED
    BY <1>4, <2>1 DEF Advance
<1>6. g = [k \in 0..Len(code) |-> Advance(g, m, b, k)]
  BY <1>5, Zenon DEF g
<1>7. Passes(g, m, b)
  BY <1>6, Zenon DEF Passes
<1> QED
  BY <1>7

LEMMA PassSteps ==
  ASSUME Len(code) \in Nat, NEW m, NEW b
  PROVE  \E f : /\ f[0] = m /\ f[Len(code)] = Pass(m, b)
                /\ \A k \in 1..Len(code) : f[k] = Step(f[k - 1], b, k)
<1> DEFINE machine == CHOOSE f : Passes(f, m, b)
<1>1. Passes(machine, m, b)
  <2>1. \E f : Passes(f, m, b)
    BY AdvanceExists
  <2> QED
    BY <2>1, Zenon
<1>2. Pass(m, b) = machine[Len(code)]
  BY Zenon DEF Pass, Passes, Advance
<1> HIDE DEF machine
<1>3. \A k \in 0..Len(code) : machine[k] = Advance(machine, m, b, k)
  <2>1. machine = [k \in 0..Len(code) |-> Advance(machine, m, b, k)]
    BY <1>1, Zenon DEF Passes
  <2> QED
    BY <2>1
<1>4. machine[0] = m
  BY <1>3 DEF Advance
<1>5. \A k \in 1..Len(code) : machine[k] = Step(machine[k - 1], b, k)
  <2> SUFFICES ASSUME NEW k \in 1..Len(code) PROVE machine[k] = Step(machine[k - 1], b, k)
    OBVIOUS
  <2>1. k \in 0..Len(code) /\ k # 0
    OBVIOUS
  <2> QED
    BY <1>3, <2>1 DEF Advance
<1> QED
  BY <1>2, <1>4, <1>5

-----------------------------------------------------------------------------
(* What was executed agrees with what was meant. *)

\* v is what the stores among the instructions D leave in cell a.
Kept(D, a, v) ==
  \/ v = NoWord /\ \A j \in D : ~StoresTo(state, j, a)
  \/ \E j \in D : /\ StoresTo(state, j, a) /\ v = meant[j]
                  /\ \A k \in D : k > j => ~StoresTo(state, k, a)

Agreed(m, D) ==
  /\ IsMachine(m)
  /\ \A i \in D : m.reg[i] = meant[i]
  /\ \A a \in Addresses : Kept(D, a, m.mem[a])

\* Of the stores to the object that i accesses, those before i are in D.
Accesses == {"load", "get", "store"}
Target(i) == meant[code[i].x].base
InOrder(D, i) ==
  code[i].op \in Accesses =>
    \A j \in DOMAIN code : code[j].op = "store" /\ Target(j) = Target(i) => (j \in D <=> j < i)

LEMMA StateFacts ==
  ASSUME GoodState
  PROVE  /\ Len(code) \in Nat /\ DOMAIN code = 1..Len(code)
         /\ \A i \in DOMAIN code : /\ Fits(state, i) /\ Lies(code[i])
                                   /\ code[i] \in Instructions /\ code[i].op \in Ops
         /\ \A i \in DOMAIN code : \A j \in 1..(i - 1) :
              code[j].block = "exit" => code[i].block # "entry"
         /\ \A i \in DOMAIN code : code[i].op \in {"load", "get"} => Loaded(state, i)
         /\ ~staleRead => \A i \in DOMAIN code : MeansOperands(state, i)
<1>1. /\ Typed(state) /\ Ordered(state) /\ Stored(state) /\ Faithful(state)
      /\ state.code = code /\ state.staleRead = staleRead
  BY DEF GoodState, Good, state
<1>2. /\ Len(code) \in Nat /\ DOMAIN code = 1..Len(code)
      /\ \A i \in 1..Len(code) : code[i] \in Instructions
  BY <1>1, CodeFacts
<1>3. \A i \in DOMAIN code : code[i].op \in Ops
  BY <1>2 DEF Instructions
<1> QED
  BY <1>1, <1>2, <1>3 DEF Ordered, Stored, Faithful

\* Two ways of saying what was stored last.
LEMMA HoldsKept ==
  ASSUME GoodState, NEW D, NEW i \in Nat, NEW a, NEW u, NEW v,
         \A j \in Nat : StoresTo(state, j, a) => (j \in D <=> j \in 1..(i - 1)),
         D \subseteq Nat, Holds(state, i, a, u), Kept(D, a, v)
  PROVE  u = v
<1>1. state.meant = meant
  BY DEF state
<1>2. 1..(i - 1) \subseteq Nat /\ \A j \in 1..(i - 1) : \A k \in 1..(i - 1) : k > j => k \in (j + 1)..(i - 1)
  OBVIOUS
<1>3. CASE \A j \in D : ~StoresTo(state, j, a)
  <2>1. \A j \in 1..(i - 1) : ~StoresTo(state, j, a)
    BY <1>2, <1>3
  <2> QED
    BY <1>3, <2>1 DEF Holds, Kept
<1>4. CASE \E j \in D : StoresTo(state, j, a)
  <2>1. PICK j \in D : /\ StoresTo(state, j, a) /\ v = meant[j]
                       /\ \A k \in D : k > j => ~StoresTo(state, k, a)
    BY <1>4 DEF Kept
  <2>2. j \in 1..(i - 1) /\ j \in Nat
    BY <2>1
  <2>3. PICK l \in 1..(i - 1) : /\ StoresTo(state, l, a) /\ u = state.meant[l]
                                /\ \A k \in (l + 1)..(i - 1) : ~StoresTo(state, k, a)
    BY <2>1, <2>2 DEF Holds
  <2>4. l \in D /\ l \in Nat
    BY <1>2, <2>3
  <2>5. ~(l > j) /\ ~(j > l)
    BY <1>2, <2>1, <2>2, <2>3, <2>4
  <2> QED
    BY <1>1, <2>1, <2>2, <2>3, <2>4, <2>5
<1> QED
  BY <1>3, <1>4

LEMMA TargetOfStore ==
  ASSUME NEW i, NEW a, StoresTo(state, i, a)
  PROVE  Target(i) = a.base /\ code[i].op = "store"
BY DEF StoresTo, Target, state

\* An instruction whose operands and predecessors were executed computes what
\* was meant.
LEMMA ExecuteAgrees ==
  ASSUME GoodState, ~staleRead, NEW D, D \subseteq DOMAIN code, NEW i \in DOMAIN code, i \notin D,
         NEW m, Agreed(m, D), Uses(i) \subseteq D, InOrder(D, i)
  PROVE  Agreed(Execute(m, i), D \cup {i})
<1> DEFINE w == Execute(m, i)
           c == code[i]
<1>1. /\ Fits(state, i) /\ MeansOperands(state, i) /\ c.op \in Ops
      /\ c.op \in {"load", "get"} => Loaded(state, i)
      /\ Len(code) \in Nat /\ DOMAIN code = 1..Len(code) /\ i \in Nat
      /\ state.code = code /\ state.meant = meant
  BY StateFacts DEF state
<1>2. /\ IsMachine(w) /\ w.reg[i] = Result(m, i)
      /\ \A j \in DOMAIN code : j # i => w.reg[j] = m.reg[j]
      /\ \A p \in Addresses :
           w.mem[p] = IF c.op = "store" /\ p = m.reg[c.x] THEN m.reg[c.y] ELSE m.mem[p]
  BY <1>1, ExecuteFacts DEF Agreed
<1> HIDE DEF w
<1>3. /\ c.op \in {"item", "element", "store"} \cup Arithmetic => m.reg[c.y] = meant[c.y]
      /\ c.op \in {"load", "get", "store", "call", "condbr", "ret"} \cup Arithmetic => m.reg[c.x] = meant[c.x]
  <2>1. c.op \in {"item", "element", "store"} \cup Arithmetic => c.y \in Uses(i)
    BY <1>1 DEF Fits, Uses, NoReg
  <2>2. c.op \in {"load", "get", "store", "call", "condbr", "ret"} \cup Arithmetic => c.x \in Uses(i)
    BY <1>1 DEF Fits, Uses, NoReg
  <2> QED
    BY <2>1, <2>2 DEF Agreed
<1>4. \A a : StoresTo(state, i, a) <=> c.op = "store" /\ a = meant[c.x]
  BY <1>1 DEF StoresTo
<1>5. Result(m, i) = meant[i]
  <2>1. CASE c.op \in {"load", "get"}
    <3> DEFINE a == meant[c.x]
    <3>1. Result(m, i) = Contained(m, a)
      BY <1>3, <2>1 DEF Result
    <3>2. CASE a \in Addresses
      <4>1. Holds(state, i, a, meant[i])
        BY <1>1, <2>1, <3>2 DEF Loaded
      <4>2. Kept(D, a, m.mem[a])
        BY <3>2 DEF Agreed
      <4>3. ASSUME NEW j \in Nat, StoresTo(state, j, a) PROVE j \in D <=> j \in 1..(i - 1)
        <5>1. c.op \in Accesses /\ Target(i) = a.base /\ Target(j) = a.base /\ code[j].op = "store"
          BY <2>1, <4>3, TargetOfStore DEF Accesses, Target
        <5>2. j \in D => j \in DOMAIN code
          OBVIOUS
        <5>3. j \in 1..(i - 1) => j \in DOMAIN code
          BY <1>1
        <5>4. j \in DOMAIN code => (j \in D <=> j < i)
          BY <5>1 DEF InOrder
        <5> QED
          BY <1>1, <5>2, <5>3, <5>4
      <4>4. D \subseteq Nat
        BY <1>1
      <4>5. meant[i] = m.mem[a]
        BY <1>1, <4>1, <4>2, <4>3, <4>4, HoldsKept
      <4> QED
        BY <3>1, <3>2, <4>5 DEF Contained
    <3>3. CASE a \notin Addresses
      BY <1>1, <2>1, <3>1, <3>3 DEF Loaded, Contained
    <3> QED
      BY <3>2, <3>3
  <2>2. CASE c.op \notin {"load", "get"}
    BY <1>1, <1>3, <2>2 DEF Result, Fits, MeansOperands, Ops
  <2> QED
    BY <2>1, <2>2
<1>6. ASSUME NEW a \in Addresses PROVE Kept(D \cup {i}, a, w.mem[a])
  <2>1. Kept(D, a, m.mem[a])
    BY DEF Agreed
  <2>2. CASE c.op = "store" /\ a = meant[c.x]
    <3>1. StoresTo(state, i, a) /\ w.mem[a] = meant[i]
      BY <1>1, <1>2, <1>3, <1>4, <2>2 DEF MeansOperands
    <3>2. ASSUME NEW k \in D, StoresTo(state, k, a) PROVE k < i
      <4>1. c.op \in Accesses /\ Target(i) = a.base /\ Target(k) = a.base /\ code[k].op = "store"
        BY <2>2, <3>2, TargetOfStore DEF Accesses, Target
      <4> QED
        BY <4>1 DEF InOrder
    <3>3. \A k \in D \cup {i} : k > i => ~StoresTo(state, k, a)
      BY <1>1, <3>2
    <3> QED
      BY <3>1, <3>3 DEF Kept
  <2>3. CASE ~(c.op = "store" /\ a = meant[c.x])
    <3>1. w.mem[a] = m.mem[a] /\ ~StoresTo(state, i, a)
      BY <1>2, <1>3, <1>4, <2>3
    <3> QED
      BY <2>1, <3>1 DEF Kept
  <2> QED
    BY <2>2, <2>3
<1>7. \A j \in D \cup {i} : w.reg[j] = meant[j]
  BY <1>2, <1>5 DEF Agreed
<1> QED
  BY <1>2, <1>6, <1>7 DEF Agreed, w

\* The instructions of some blocks, and those executed by a part of a pass.
InBlocks(B) == {i \in DOMAIN code : code[i].block \in B}
Done(B, b, k) == InBlocks(B) \cup {i \in DOMAIN code : code[i].block = b /\ i <= k}

\* An instruction of block b can be executed behind the blocks B and the
\* instructions of b before it.
Ready(B, b, i) == Uses(i) \subseteq Done(B, b, i - 1) /\ InOrder(Done(B, b, i - 1), i)

LEMMA PassAgrees ==
  ASSUME GoodState, ~staleRead, NEW B, NEW b, b \notin B, NEW m, Agreed(m, InBlocks(B)),
         \A i \in InBlocks({b}) : Ready(B, b, i)
  PROVE  Agreed(Pass(m, b), InBlocks(B \cup {b}))
<1>1. Len(code) \in Nat /\ DOMAIN code = 1..Len(code)
  BY StateFacts
<1>2. PICK f : /\ f[0] = m /\ f[Len(code)] = Pass(m, b)
               /\ \A k \in 1..Len(code) : f[k] = Step(f[k - 1], b, k)
  BY <1>1, PassSteps
<1> DEFINE Bad == {k \in 0..Len(code) : ~Agreed(f[k], Done(B, b, k))}
<1>3. Bad = {}
  <2> SUFFICES ASSUME Bad # {} PROVE FALSE
    OBVIOUS
  <2>1. Bad \subseteq Nat
    OBVIOUS
  <2>2. PICK n \in Bad : \A k \in Bad : n <= k
    <3> HIDE DEF Bad
    <3> QED
      BY <2>1, Least
  <2>3. n \in 0..Len(code) /\ ~Agreed(f[n], Done(B, b, n)) /\ n \in Nat
    OBVIOUS
  <2>4. n # 0
    <3>1. Done(B, b, 0) = InBlocks(B)
      BY <1>1 DEF Done
    <3> QED
      BY <1>2, <2>3, <3>1
  <2>5. n \in 1..Len(code) /\ n - 1 \in 0..Len(code) /\ ~(n <= n - 1)
    BY <1>1, <2>3, <2>4
  <2>6. Agreed(f[n - 1], Done(B, b, n - 1))
    BY <2>2, <2>5
  <2>7. f[n] = Step(f[n - 1], b, n)
    BY <1>2, <2>5
  <2>8. CASE code[n].block = b
    <3>1. Done(B, b, n) = Done(B, b, n - 1) \cup {n}
      BY <1>1, <2>5, <2>8 DEF Done
    <3>2. n \in DOMAIN code /\ n \notin Done(B, b, n - 1) /\ Done(B, b, n - 1) \subseteq DOMAIN code
      BY <1>1, <2>5, <2>8 DEF Done, InBlocks
    <3>3. Ready(B, b, n)
      BY <2>8, <3>2 DEF InBlocks
    <3>4. Agreed(Execute(f[n - 1], n), Done(B, b, n - 1) \cup {n})
      BY <2>6, <3>2, <3>3, ExecuteAgrees DEF Ready
    <3> QED
      BY <2>3, <2>7, <2>8, <3>1, <3>4 DEF Step
  <2>9. CASE code[n].block # b
    <3>1. Done(B, b, n) = Done(B, b, n - 1)
      BY <1>1, <2>5, <2>9 DEF Done
    <3> QED
      BY <2>3, <2>6, <2>7, <2>9, <3>1 DEF Step
  <2> QED
    BY <2>8, <2>9
<1>4. Agreed(f[Len(code)], Done(B, b, Len(code)))
  <2>1. Len(code) \in 0..Len(code)
    BY <1>1
  <2> QED
    BY <1>3, <2>1
<1>5. Done(B, b, Len(code)) = InBlocks(B \cup {b})
  BY <1>1 DEF Done, InBlocks
<1> QED
  BY <1>2, <1>4, <1>5

\* An access is emitted by the builder of the object it accesses.
LEMMA AccessIsAtHome ==
  ASSUME GoodState, NEW i \in DOMAIN code, code[i].op \in Accesses
  PROVE  code[i].builder = code[Target(i)].builder
<1> DEFINE p == code[i].x
<1>1. Fits(state, i) /\ state.code = code /\ state.meant = meant /\ DOMAIN code = 1..Len(code) /\ Len(code) \in Nat
  BY StateFacts DEF state
<1>2. p \in 1..(i - 1) /\ code[p].op \in Cells /\ code[i].builder = code[p].builder
  BY <1>1 DEF Fits, Accesses
<1>3. p \in DOMAIN code
  BY <1>1, <1>2
<1>4. Fits(state, p)
  BY <1>3, StateFacts
<1>5. CASE code[p].op \in {"stack", "heap"}
  <2>1. meant[p] = Address(p, 0)
    BY <1>1, <1>4, <1>5 DEF Fits
  <2> QED
    BY <1>2, <2>1 DEF Target, Address
<1>6. CASE code[p].op \in {"item", "element"}
  <2>1. meant[p] = Address(code[p].x, meant[p].at) /\ code[p].builder = code[code[p].x].builder
    BY <1>1, <1>4, <1>6 DEF Fits
  <2>2. meant[p].base = code[p].x
    BY <2>1 DEF Address
  <2> QED
    BY <1>2, <2>1, <2>2 DEF Target
<1> QED
  BY <1>2, <1>5, <1>6 DEF Cells

\* The blocks a run has executed when it comes to block b.
Behind(arm, b) ==
  CASE b = "const" -> {}
    [] b = "entry" -> {"const"}
    [] b = "exit"  -> {"const", "entry", arm}
    [] b = arm     -> {"const", "entry"}

Arms == {"no arm", "then", "else"}
Passed(arm) == {"const", "entry", arm, "exit"}

LEMMA AllReady ==
  ASSUME GoodState, Accepted, NEW arm \in Arms, NEW b \in Passed(arm), NEW i, i \in InBlocks({b})
  PROVE  Ready(Behind(arm, b), b, i)
<1> DEFINE B == Behind(arm, b)
           D == Done(B, b, i - 1)
<1>1. /\ i \in DOMAIN code /\ code[i].block = b
      /\ DOMAIN code = 1..Len(code) /\ Len(code) \in Nat /\ i \in Nat
      /\ Fits(state, i) /\ Lies(code[i]) /\ state.code = code
  <2>1. i \in DOMAIN code /\ code[i].block = b
    BY DEF InBlocks
  <2>2. DOMAIN code = 1..Len(code) /\ Len(code) \in Nat /\ Fits(state, i) /\ Lies(code[i])
    BY <2>1, StateFacts
  <2>3. state.code = code
    BY DEF state
  <2>4. i \in Nat
    BY <2>1, <2>2
  <2> QED
    BY <2>1, <2>2, <2>3, <2>4, Zenon
<1> HIDE DEF B, D
<1>2. ASSUME NEW r \in Uses(i) PROVE r \in D
  <2>1. r \in 1..(i - 1)
    <3>1. /\ r \in {code[i].x, code[i].y} \ {NoReg}
          /\ code[i].op \notin {"const", "stack", "heap", "array"}
      BY <1>2 DEF Uses
    <3>2. code[i].op \in Ops
      BY <1>1, StateFacts
    <3> QED
      BY <1>1, <3>1, <3>2 DEF Fits, Ops
  <2>2. r \in DOMAIN code /\ r <= i - 1
    BY <1>1, <2>1
  <2>3. code[r].block \in {"const", "entry", b}
    BY <1>1, <1>2 DEF Accepted, Dominates
  <2>4. code[i].op # "const"
    BY <1>2 DEF Uses
  <2>5. b # "const"
    BY <1>1, <2>4 DEF Lies
  <2>6. code[r].block = b \/ code[r].block \in B
    BY <2>3, <2>5 DEF B, Behind, Passed, Arms
  <2> QED
    BY <2>2, <2>6 DEF D, Done, InBlocks
<1>3. ASSUME code[i].op \in Accesses, NEW j \in DOMAIN code, code[j].op = "store", Target(j) = Target(i)
      PROVE  j \in D <=> j < i
  <2>1. code[j].builder = code[i].builder
    BY <1>1, <1>3, AccessIsAtHome DEF Accesses
  <2>2. Lies(code[j]) /\ j \in Nat
    BY <1>1, StateFacts
  <2>3. code[i].block # "const" /\ code[j].block # "const"
    BY <1>1, <1>3, <2>2 DEF Lies, Accesses
  <2>4. code[i].block # "sealed" /\ code[j].block # "sealed"
    BY <1>1 DEF Accepted
  <2>5. j \in D <=> code[j].block \in B \/ (code[j].block = b /\ j < i)
    BY <1>1, <2>2 DEF D, Done, InBlocks
  <2>6. code[i].builder \in BuilderNames
    BY <1>1, StateFacts DEF Instructions
  <2>7. CASE code[i].builder = "f"
    <3>1. code[i].block \in {"entry", "exit"} /\ code[j].block \in {"entry", "exit"}
      BY <1>1, <2>1, <2>2, <2>3, <2>7 DEF Lies
    <3>2. j < i /\ code[j].block = "exit" => code[i].block # "entry"
      BY <1>1, <2>2, StateFacts
    <3>3. i < j /\ code[i].block = "exit" => code[j].block # "entry"
      BY <1>1, <2>2, StateFacts
    <3>4. CASE b = "entry"
      BY <1>1, <2>3, <2>5, <3>1, <3>2, <3>4 DEF B, Behind, Passed, Arms
    <3>5. CASE b = "exit"
      <4>1. code[j].block = "entry" => j # i /\ j < i
        BY <1>1, <2>2, <3>3, <3>5
      <4> QED
        BY <2>5, <3>1, <3>5, <4>1 DEF B, Behind, Passed, Arms
    <3> QED
      BY <1>1, <3>1, <3>4, <3>5
  <2>8. CASE code[i].builder = "then"
    <3>1. code[i].block = "then" /\ code[j].block = "then"
      BY <1>1, <2>1, <2>2, <2>3, <2>4, <2>8 DEF Lies
    <3> QED
      BY <1>1, <2>5, <3>1 DEF B, Behind, Passed, Arms
  <2>9. CASE code[i].builder = "else"
    <3>1. code[i].block = "else" /\ code[j].block = "else"
      BY <1>1, <2>1, <2>2, <2>3, <2>4, <2>9 DEF Lies
    <3> QED
      BY <1>1, <2>5, <3>1 DEF B, Behind, Passed, Arms
  <2> QED
    BY <2>6, <2>7, <2>8, <2>9 DEF BuilderNames
<1> QED
  BY <1>2, <1>3 DEF Ready, InOrder, B, D

LEMMA IdleAgrees == ASSUME GoodState PROVE Agreed(Idle, InBlocks({}))
<1>1. InBlocks({}) = {}
  BY DEF InBlocks
<1>2. IsMachine(Idle) /\ \A a \in Addresses : Idle.mem[a] = NoWord
  BY DEF IsMachine, Idle
<1> QED
  BY <1>1, <1>2 DEF Agreed, Kept

\* In what the verifier accepts, a run computes what the client meant.
LEMMA GoodRunsAgree == GoodState => RunAgrees
<1> SUFFICES ASSUME GoodState, Accepted, ~staleRead, NEW arm \in Ways
             PROVE  \A i \in DOMAIN code :
                      code[i].block \in {"const", "entry", arm, "exit"} => Run(arm)[i] = meant[i]
  BY DEF RunAgrees
<1> DEFINE m1 == Pass(Idle, "const")
           m2 == Pass(m1, "entry")
           m3 == Pass(m2, arm)
           m4 == Pass(m3, "exit")
<1>1. arm \in Arms
  BY DEF GoodState, Arm, Ways, Arms
<1>2. \A b \in Passed(arm) : \A i \in InBlocks({b}) : Ready(Behind(arm, b), b, i)
  BY <1>1, AllReady
<1>3. /\ Behind(arm, "const") = {} /\ Behind(arm, "entry") = {"const"}
      /\ Behind(arm, arm) = {"const", "entry"} /\ Behind(arm, "exit") = {"const", "entry", arm}
  BY <1>1 DEF Behind, Arms
<1> HIDE DEF m1, m2, m3, m4
<1>4. Agreed(m1, InBlocks({} \cup {"const"}))
  BY <1>2, <1>3, IdleAgrees, PassAgrees DEF Passed, m1
<1>5. Agreed(m2, InBlocks({"const"} \cup {"entry"}))
  <2>1. {} \cup {"const"} = {"const"} /\ "entry" \notin {"const"}
    OBVIOUS
  <2> QED
    BY <1>2, <1>3, <1>4, <2>1, PassAgrees DEF Passed, m2
<1>6. Agreed(m3, InBlocks({"const", "entry"} \cup {arm}))
  <2>1. {"const"} \cup {"entry"} = {"const", "entry"} /\ arm \notin {"const", "entry"}
    BY <1>1 DEF Arms
  <2> QED
    BY <1>2, <1>3, <1>5, <2>1, PassAgrees DEF Passed, m3
<1>7. Agreed(m4, InBlocks({"const", "entry", arm} \cup {"exit"}))
  <2>1. {"const", "entry"} \cup {arm} = {"const", "entry", arm} /\ "exit" \notin {"const", "entry", arm}
    BY <1>1 DEF Arms
  <2> QED
    BY <1>2, <1>3, <1>6, <2>1, PassAgrees DEF Passed, m4
<1>8. Run(arm) = m4.reg
  BY DEF Run, m1, m2, m3, m4
<1> QED
  BY <1>7, <1>8 DEF Agreed, InBlocks

THEOREM RunsAlwaysAgree == Spec => []RunAgrees
BY GoodRunsAgree, AlwaysGood, PTL

-----------------------------------------------------------------------------
(* What an arm does is not seen behind the if. *)

\* Pointers in the registers D point into the object they were made for.
Points(m, D) ==
  /\ IsMachine(m)
  /\ \A i \in D : code[i].op \in Pointers => m.reg[i].base = meant[i].base

LEMMA ExecutePoints ==
  ASSUME GoodState, NEW D, D \subseteq DOMAIN code, NEW i \in DOMAIN code, NEW m, Points(m, D)
  PROVE  Points(Execute(m, i), D \cup {i})
<1> DEFINE w == Execute(m, i)
           c == code[i]
<1>1. Fits(state, i) /\ c.op \in Ops /\ state.code = code /\ state.meant = meant
  BY StateFacts DEF state
<1>2. /\ IsMachine(w) /\ w.reg[i] = Result(m, i)
      /\ \A j \in DOMAIN code : j # i => w.reg[j] = m.reg[j]
  BY <1>1, ExecuteFacts DEF Points
<1> HIDE DEF w
<1>3. c.op \in Pointers => Result(m, i).base = meant[i].base
  <2>1. CASE c.op \in {"stack", "heap", "array"}
    BY <1>1, <2>1 DEF Result, Fits
  <2>2. CASE c.op \in {"item", "element"}
    <3>1. meant[i].base = c.x
      BY <1>1, <2>2 DEF Fits, Address
    <3>2. Result(m, i).base = c.x
      BY <2>2 DEF Result, Address
    <3> QED
      BY <3>1, <3>2
  <2> QED
    BY <2>1, <2>2 DEF Pointers, Cells
<1>4. \A j \in D \cup {i} : code[j].op \in Pointers => w.reg[j].base = meant[j].base
  BY <1>2, <1>3 DEF Points
<1> QED
  BY <1>2, <1>4 DEF Points, w

\* Every operand is executed before it is used.
LEMMA UsesDone ==
  ASSUME GoodState, Accepted, NEW i \in DOMAIN code, NEW r \in Uses(i)
  PROVE  r \in Done({"const", "entry"}, code[i].block, i - 1)
<1>1. /\ DOMAIN code = 1..Len(code) /\ Len(code) \in Nat /\ i \in Nat
      /\ Fits(state, i) /\ code[i].op \in Ops
  BY StateFacts
<1>2. state.code = code
  BY DEF state
<1>3. /\ r \in {code[i].x, code[i].y} \ {NoReg}
      /\ code[i].op \notin {"const", "stack", "heap", "array"}
  BY DEF Uses
<1>4. r \in 1..(i - 1)
  BY <1>1, <1>2, <1>3 DEF Fits, Ops
<1>5. r \in DOMAIN code /\ r <= i - 1
  BY <1>1, <1>4
<1>6. code[r].block \in {"const", "entry", code[i].block}
  BY DEF Accepted, Dominates
<1> QED
  BY <1>5, <1>6 DEF Done, InBlocks

\* Cells of objects that builder "f" made.
OfFunction(a) == a.base \in DOMAIN code /\ code[a.base].builder = "f"

\* The first two passes, which are the same on all ways.
LEMMA PassPoints ==
  ASSUME GoodState, NEW B, NEW b, NEW m, Points(m, InBlocks(B))
  PROVE  Points(Pass(m, b), InBlocks(B \cup {b}))
<1>1. Len(code) \in Nat /\ DOMAIN code = 1..Len(code)
  BY StateFacts
<1>2. PICK f : /\ f[0] = m /\ f[Len(code)] = Pass(m, b)
               /\ \A k \in 1..Len(code) : f[k] = Step(f[k - 1], b, k)
  BY <1>1, PassSteps
<1> DEFINE Bad == {k \in 0..Len(code) : ~Points(f[k], Done(B, b, k))}
<1>3. Bad = {}
  <2> SUFFICES ASSUME Bad # {} PROVE FALSE
    OBVIOUS
  <2>1. Bad \subseteq Nat
    OBVIOUS
  <2>2. PICK n \in Bad : \A k \in Bad : n <= k
    <3> HIDE DEF Bad
    <3> QED
      BY <2>1, Least
  <2>3. n \in 0..Len(code) /\ ~Points(f[n], Done(B, b, n)) /\ n \in Nat
    OBVIOUS
  <2>4. n # 0
    <3>1. Done(B, b, 0) = InBlocks(B)
      BY <1>1 DEF Done
    <3> QED
      BY <1>2, <2>3, <3>1
  <2>5. n \in 1..Len(code) /\ n - 1 \in 0..Len(code) /\ ~(n <= n - 1)
    BY <1>1, <2>3, <2>4
  <2>6. Points(f[n - 1], Done(B, b, n - 1)) /\ f[n] = Step(f[n - 1], b, n)
    BY <1>2, <2>2, <2>5
  <2>7. CASE code[n].block = b
    <3>1. Done(B, b, n) = Done(B, b, n - 1) \cup {n}
      BY <1>1, <2>5, <2>7 DEF Done
    <3>2. n \in DOMAIN code /\ Done(B, b, n - 1) \subseteq DOMAIN code
      BY <1>1, <2>5 DEF Done, InBlocks
    <3> QED
      BY <2>3, <2>6, <2>7, <3>1, <3>2, ExecutePoints DEF Step
  <2>8. CASE code[n].block # b
    <3>1. Done(B, b, n) = Done(B, b, n - 1)
      BY <1>1, <2>5, <2>8 DEF Done
    <3> QED
      BY <2>3, <2>6, <2>8, <3>1 DEF Step
  <2> QED
    BY <2>7, <2>8
<1>4. Points(f[Len(code)], Done(B, b, Len(code)))
  <2>1. Len(code) \in 0..Len(code)
    BY <1>1
  <2> QED
    BY <1>3, <2>1
<1>5. Done(B, b, Len(code)) = InBlocks(B \cup {b})
  BY <1>1 DEF Done, InBlocks
<1> QED
  BY <1>2, <1>4, <1>5

\* w has in the registers D, and in the cells of the function, what m has.
Alike(m, w, D) ==
  /\ IsMachine(m) /\ IsMachine(w)
  /\ \A i \in D : w.reg[i] = m.reg[i]
  /\ \A a \in Addresses : OfFunction(a) => w.mem[a] = m.mem[a]

\* The object an access of block b reaches, when it is executed.
LEMMA Reaches ==
  ASSUME GoodState, Accepted, NEW i \in DOMAIN code, code[i].op \in Accesses,
         NEW m, Points(m, Done({"const", "entry"}, code[i].block, i - 1))
  PROVE  /\ code[i].x \in Uses(i)
         /\ OfFunction(m.reg[code[i].x]) <=> code[i].builder = "f"
<1> DEFINE x == code[i].x
<1>1. Fits(state, i) /\ DOMAIN code = 1..Len(code) /\ Len(code) \in Nat /\ i \in Nat
  BY StateFacts
<1>2. x \in 1..(i - 1) /\ code[x].op \in Cells
  <2>1. state.code = code
    BY DEF state
  <2> QED
    BY <1>1, <2>1 DEF Fits, Accesses
<1>3. x \in Uses(i)
  BY <1>2 DEF Uses, Accesses, NoReg
<1>4. x \in Done({"const", "entry"}, code[i].block, i - 1)
  BY <1>3, UsesDone
<1>5. m.reg[x].base = meant[x].base
  BY <1>2, <1>4 DEF Points, Pointers
<1>6. code[i].builder = code[meant[x].base].builder
  BY AccessIsAtHome DEF Target
<1>7. meant[x].base \in DOMAIN code
  <2>1. x \in DOMAIN code /\ x \in Nat
    BY <1>1, <1>2
  <2>2. Fits(state, x)
    BY <2>1, StateFacts
  <2>3. state.code = code /\ state.meant = meant
    BY DEF state
  <2>4. CASE code[x].op \in {"stack", "heap"}
    BY <2>1, <2>2, <2>3, <2>4 DEF Fits, Address
  <2>5. CASE code[x].op \in {"item", "element"}
    <3>1. meant[x].base = code[x].x /\ code[x].x \in 1..(x - 1)
      BY <2>2, <2>3, <2>5 DEF Fits, Address
    <3> QED
      BY <1>1, <1>2, <2>1, <3>1
  <2> QED
    BY <1>2, <2>4, <2>5 DEF Cells
<1> QED
  BY <1>3, <1>5, <1>6, <1>7 DEF OfFunction

\* An arm changes neither the registers before it nor the cells of the function.
LEMMA ArmStays ==
  ASSUME GoodState, Accepted, NEW arm \in Arms, NEW m, Points(m, InBlocks({"const", "entry"}))
  PROVE  Alike(m, Pass(m, arm), InBlocks({"const", "entry"}))
<1> DEFINE B == {"const", "entry"}
           J(w, k) == Alike(m, w, InBlocks(B)) /\ Points(w, Done(B, arm, k))
<1>1. Len(code) \in Nat /\ DOMAIN code = 1..Len(code)
  BY StateFacts
<1>2. PICK f : /\ f[0] = m /\ f[Len(code)] = Pass(m, arm)
               /\ \A k \in 1..Len(code) : f[k] = Step(f[k - 1], arm, k)
  BY <1>1, PassSteps
<1> DEFINE Bad == {k \in 0..Len(code) : ~J(f[k], k)}
<1>3. Bad = {}
  <2> SUFFICES ASSUME Bad # {} PROVE FALSE
    OBVIOUS
  <2>1. Bad \subseteq Nat
    OBVIOUS
  <2>2. PICK n \in Bad : \A k \in Bad : n <= k
    <3> HIDE DEF Bad
    <3> QED
      BY <2>1, Least
  <2>3. n \in 0..Len(code) /\ ~J(f[n], n) /\ n \in Nat
    OBVIOUS
  <2>4. n # 0
    <3>1. Done(B, arm, 0) = InBlocks(B)
      BY <1>1 DEF Done
    <3>2. J(m, 0)
      BY <3>1 DEF Alike, Points
    <3> QED
      BY <1>2, <2>3, <3>2
  <2>5. n \in 1..Len(code) /\ n - 1 \in 0..Len(code) /\ ~(n <= n - 1) /\ n \in DOMAIN code
    BY <1>1, <2>3, <2>4
  <2>6. J(f[n - 1], n - 1) /\ f[n] = Step(f[n - 1], arm, n)
    BY <1>2, <2>2, <2>5
  <2>7. CASE code[n].block = arm
    <3> DEFINE u == f[n - 1]
               w == Execute(u, n)
    <3>1. f[n] = w
      BY <2>6, <2>7 DEF Step
    <3>2. Done(B, arm, n) = Done(B, arm, n - 1) \cup {n}
      BY <1>1, <2>5, <2>7 DEF Done
    <3>3. Done(B, arm, n - 1) \subseteq DOMAIN code
      BY <1>1 DEF Done, InBlocks
    <3>4. Points(w, Done(B, arm, n))
      BY <2>5, <2>6, <3>2, <3>3, ExecutePoints
    <3>5. Lies(code[n]) /\ code[n].op \in Ops
      BY <2>5, StateFacts
    <3>6. n \notin InBlocks(B) /\ code[n].builder # "f"
      BY <2>7, <3>5 DEF InBlocks, Lies, Arms
    <3>7. /\ IsMachine(w)
          /\ \A j \in DOMAIN code : j # n => w.reg[j] = u.reg[j]
          /\ \A p \in Addresses :
               w.mem[p] = IF code[n].op = "store" /\ p = u.reg[code[n].x]
                          THEN u.reg[code[n].y] ELSE u.mem[p]
      BY <2>5, <2>6, <3>5, ExecuteFacts DEF Points
    <3>8. ASSUME NEW a \in Addresses, OfFunction(a) PROVE w.mem[a] = m.mem[a]
      <4>1. u.mem[a] = m.mem[a]
        BY <2>6, <3>8 DEF Alike
      <4>2. ~(code[n].op = "store" /\ a = u.reg[code[n].x])
        BY <2>5, <2>6, <2>7, <3>6, <3>8, Reaches DEF Accesses
      <4> QED
        BY <3>7, <4>1, <4>2
    <3> HIDE DEF w
    <3>9. \A i \in InBlocks(B) : w.reg[i] = m.reg[i]
      BY <2>6, <3>6, <3>7 DEF Alike, InBlocks
    <3>10. Alike(m, w, InBlocks(B))
      BY <2>6, <3>7, <3>8, <3>9 DEF Alike
    <3> QED
      BY <2>3, <3>1, <3>4, <3>10
  <2>8. CASE code[n].block # arm
    <3>1. Done(B, arm, n) = Done(B, arm, n - 1)
      BY <1>1, <2>5, <2>8 DEF Done
    <3> QED
      BY <2>3, <2>6, <2>8, <3>1 DEF Step
  <2> QED
    BY <2>7, <2>8
<1>4. Len(code) \in 0..Len(code)
  BY <1>1
<1> QED
  BY <1>2, <1>3, <1>4

\* Behind the if, machines that are alike stay alike.
LEMMA ExitAlike ==
  ASSUME GoodState, Accepted, NEW m, NEW w, Alike(m, w, InBlocks({"const", "entry"})),
         Points(m, InBlocks({"const", "entry"}))
  PROVE  Alike(Pass(m, "exit"), Pass(w, "exit"), InBlocks({"const", "entry", "exit"}))
<1> DEFINE B == {"const", "entry"}
           D(k) == Done(B, "exit", k)
           J(u, v, k) == Alike(u, v, D(k)) /\ Points(u, D(k))
<1>1. Len(code) \in Nat /\ DOMAIN code = 1..Len(code)
  BY StateFacts
<1>2. PICK f : /\ f[0] = m /\ f[Len(code)] = Pass(m, "exit")
               /\ \A k \in 1..Len(code) : f[k] = Step(f[k - 1], "exit", k)
  BY <1>1, PassSteps
<1>3. PICK g : /\ g[0] = w /\ g[Len(code)] = Pass(w, "exit")
               /\ \A k \in 1..Len(code) : g[k] = Step(g[k - 1], "exit", k)
  BY <1>1, PassSteps
<1> DEFINE Bad == {k \in 0..Len(code) : ~J(f[k], g[k], k)}
<1>4. Bad = {}
  <2> SUFFICES ASSUME Bad # {} PROVE FALSE
    OBVIOUS
  <2>1. Bad \subseteq Nat
    OBVIOUS
  <2>2. PICK n \in Bad : \A k \in Bad : n <= k
    <3> HIDE DEF Bad
    <3> QED
      BY <2>1, Least
  <2>3. n \in 0..Len(code) /\ ~J(f[n], g[n], n) /\ n \in Nat
    OBVIOUS
  <2>4. n # 0
    <3>1. D(0) = InBlocks(B)
      BY <1>1 DEF Done
    <3> HIDE DEF D
    <3> QED
      BY <1>2, <1>3, <2>3, <3>1
  <2>5. n \in 1..Len(code) /\ n - 1 \in 0..Len(code) /\ ~(n <= n - 1) /\ n \in DOMAIN code
    BY <1>1, <2>3, <2>4
  <2>6. /\ J(f[n - 1], g[n - 1], n - 1)
        /\ f[n] = Step(f[n - 1], "exit", n) /\ g[n] = Step(g[n - 1], "exit", n)
    BY <1>2, <1>3, <2>2, <2>5
  <2>7. CASE code[n].block = "exit"
    <3> DEFINE u == f[n - 1]
               v == g[n - 1]
               s == Execute(u, n)
               t == Execute(v, n)
               c == code[n]
    <3>1. f[n] = s /\ g[n] = t
      BY <2>6, <2>7 DEF Step
    <3>2. D(n) = D(n - 1) \cup {n}
      BY <1>1, <2>5, <2>7 DEF Done
    <3>3. D(n - 1) \subseteq DOMAIN code
      BY <1>1 DEF Done, InBlocks
    <3>4. Points(s, D(n))
      BY <2>5, <2>6, <3>2, <3>3, ExecutePoints
    <3>5. Lies(c) /\ c.op \in Ops /\ c \in Instructions /\ Fits(state, n) /\ state.code = code
      BY <2>5, StateFacts DEF state
    <3>6. c.builder = "f"
      BY <2>7, <3>5 DEF Lies, Instructions, BuilderNames
    <3>7. /\ IsMachine(s) /\ s.reg[n] = Result(u, n)
          /\ \A j \in DOMAIN code : j # n => s.reg[j] = u.reg[j]
          /\ \A p \in Addresses :
               s.mem[p] = IF c.op = "store" /\ p = u.reg[c.x] THEN u.reg[c.y] ELSE u.mem[p]
      BY <2>5, <2>6, <3>5, ExecuteFacts DEF Alike
    <3>8. /\ IsMachine(t) /\ t.reg[n] = Result(v, n)
          /\ \A j \in DOMAIN code : j # n => t.reg[j] = v.reg[j]
          /\ \A p \in Addresses :
               t.mem[p] = IF c.op = "store" /\ p = v.reg[c.x] THEN v.reg[c.y] ELSE v.mem[p]
      BY <2>5, <2>6, <3>5, ExecuteFacts DEF Alike
    <3>9. \A r \in Uses(n) : v.reg[r] = u.reg[r]
      BY <2>5, <2>6, <2>7, UsesDone DEF Alike
    <3>10. c.op \in Accesses => c.x \in Uses(n) /\ OfFunction(u.reg[c.x])
      BY <2>5, <2>6, <2>7, <3>6, Reaches
    <3> HIDE DEF s, t, u, v, D
    <3>11. /\ c.op \in {"item", "element", "store"} \cup Arithmetic => v.reg[c.y] = u.reg[c.y]
           /\ c.op \in Accesses \cup Arithmetic \cup {"call", "condbr", "ret"} => v.reg[c.x] = u.reg[c.x]
      <4>1. c.op \in {"item", "element", "store"} \cup Arithmetic => c.y \in Uses(n)
        BY <3>5 DEF Fits, Uses, NoReg
      <4>2. c.op \in {"call", "condbr", "ret"} \cup Arithmetic => c.x \in Uses(n)
        BY <3>5 DEF Fits, Uses, NoReg
      <4> QED
        BY <3>9, <3>10, <4>1, <4>2
    <3>12. \A a \in Addresses : OfFunction(a) => v.mem[a] = u.mem[a]
      BY <2>6 DEF Alike, u, v
    <3>13. Result(v, n) = Result(u, n)
      <4>1. CASE c.op \in {"load", "get"}
        <5>1. Contained(v, v.reg[c.x]) = Contained(u, u.reg[c.x])
          BY <3>10, <3>11, <3>12, <4>1 DEF Contained, Accesses
        <5> QED
          BY <4>1, <5>1 DEF Result
      <4>2. CASE c.op \notin {"load", "get"}
        BY <3>5, <3>11, <4>2 DEF Result, Ops, Accesses
      <4> QED
        BY <4>1, <4>2
    <3>14. ASSUME NEW a \in Addresses, OfFunction(a) PROVE t.mem[a] = s.mem[a]
      BY <3>7, <3>8, <3>11, <3>12, <3>14 DEF Accesses
    <3>15. \A i \in D(n - 1) : i \in DOMAIN code /\ v.reg[i] = u.reg[i]
      BY <2>6, <3>3 DEF Alike, u, v
    <3>16. \A i \in D(n) : t.reg[i] = s.reg[i]
      BY <3>2, <3>7, <3>8, <3>13, <3>15
    <3>17. Alike(s, t, D(n))
      BY <3>7, <3>8, <3>14, <3>16 DEF Alike
    <3> QED
      BY <2>3, <3>1, <3>4, <3>17
  <2>8. CASE code[n].block # "exit"
    <3>1. D(n) = D(n - 1)
      BY <1>1, <2>5, <2>8 DEF Done
    <3> HIDE DEF D
    <3> QED
      BY <2>3, <2>6, <2>8, <3>1 DEF Step
  <2> QED
    BY <2>7, <2>8
<1>5. Len(code) \in 0..Len(code)
  BY <1>1
<1>6. D(Len(code)) = InBlocks({"const", "entry", "exit"})
  BY <1>1 DEF Done, InBlocks
<1> QED
  BY <1>2, <1>3, <1>4, <1>5, <1>6

\* What is computed behind the if does not depend on the arm that was taken.
THEOREM ArmsNeverHaveEffect == Spec => []ArmsHaveNoEffect
<1>1. GoodState => ArmsHaveNoEffect
  <2> SUFFICES ASSUME GoodState, Accepted, NEW p \in Ways, NEW q \in Ways,
                      NEW i \in DOMAIN code, code[i].block = "exit"
               PROVE  Run(p)[i] = Run(q)[i]
    BY DEF ArmsHaveNoEffect
  <2> DEFINE B == {"const", "entry"}
             m == Pass(Pass(Idle, "const"), "entry")
             u == Pass(m, p)
             v == Pass(m, q)
  <2>1. p \in Arms /\ q \in Arms
    BY DEF GoodState, Arm, Ways, Arms
  <2>2. Points(Idle, InBlocks({}))
    BY IdleAgrees DEF Agreed, Points, InBlocks
  <2>3. Points(m, InBlocks(B))
    <3>1. Points(Pass(Idle, "const"), InBlocks({} \cup {"const"}))
      BY <2>2, PassPoints
    <3>2. {} \cup {"const"} = {"const"} /\ {"const"} \cup {"entry"} = B
      OBVIOUS
    <3> HIDE DEF B
    <3> QED
      BY <3>1, <3>2, PassPoints
  <2> HIDE DEF m
  <2>4. Alike(m, u, InBlocks(B)) /\ Alike(m, v, InBlocks(B))
    BY <2>1, <2>3, ArmStays
  <2>5. Points(u, InBlocks(B))
    <3>1. Points(u, InBlocks(B \cup {p}))
      BY <2>3, PassPoints
    <3>2. InBlocks(B) \subseteq InBlocks(B \cup {p})
      BY DEF InBlocks
    <3> QED
      BY <3>1, <3>2 DEF Points
  <2> HIDE DEF u, v
  <2>6. Alike(u, v, InBlocks(B))
    BY <2>4 DEF Alike
  <2>7. Alike(Pass(u, "exit"), Pass(v, "exit"), InBlocks({"const", "entry", "exit"}))
    BY <2>5, <2>6, ExitAlike
  <2>8. Run(p) = Pass(u, "exit").reg /\ Run(q) = Pass(v, "exit").reg
    BY DEF Run, m, u, v
  <2>9. i \in InBlocks({"const", "entry", "exit"})
    BY DEF InBlocks
  <2> QED
    BY <2>7, <2>8, <2>9 DEF Alike
<1> QED
  BY <1>1, AlwaysGood, PTL
=============================================================================
