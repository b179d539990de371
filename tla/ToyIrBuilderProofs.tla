-------------------------- MODULE ToyIrBuilderProofs --------------------------
(* Proofs about ToyIrBuilder, for any programs, names, words and sizes. *)
EXTENDS ToyIrBuilder, ValuesProofs

USE DEF Arithmetic

-----------------------------------------------------------------------------
(* The invariant. *)

\* The values read from arrays, one for each array.
Elements(s) == {i \in 1..Len(s.code) : s.code[i].op = "element"}

\* No cache is stale, all is emitted by one builder, and no two values that
\* have a cache share a cell.
Neat(s) ==
  /\ ~s.staleRead /\ s.overwritten = {}
  /\ \A i \in 1..Len(s.code) : s.code[i].builder = "f"
  /\ \A c, d \in Elements(s) : s.code[c].x = s.code[d].x => c = d

\* Every address lies inside its array.
Bounded(s) ==
  \A i \in 1..Len(s.code) : s.code[i].op \in {"item", "element"} =>
    s.meant[i].at # NoWord /\ s.meant[i].at < s.code[s.code[i].x].y

\* What the code says, as it is meant.
Talked(s) == Spoken(s.code, s.meant)

\* A name of the scope is an argument or a variable of its own ...
Named(s) ==
  \A n \in Names : /\ env[n] \in 0..Len(s.code)
                   /\ env[n] # NoReg => /\ s.code[env[n]].op \in {"const", "stack"}
                                        /\ \A m \in Names : env[m] = env[n] => m = n

\* ... whose value is what the program gives to it.
Denotes(s) == \A n \in Names : env[n] # NoReg => src[n] \in Words /\ Meaning(s, env[n]) = src[n]

ScopeTypes ==
  /\ current \in declared \cup {"none"}
  /\ Imported \subseteq declared /\ bodies \subseteq declared /\ declared \subseteq Functions
  /\ env \in [Names -> Nat] /\ DOMAIN src = Names
  /\ failed \in {"no", "not declared", "function not declared", "not implemented",
                 "redeclared", "let", "crash", "read only"}
  /\ undefined \in BOOLEAN /\ unfaithful \in BOOLEAN

\* So far the source has a meaning, and no expression known to be compiled wrongly.
Clear == ~undefined /\ ~unfaithful

ToyInv ==
  /\ GoodState /\ opened = "none" /\ ScopeTypes
  /\ Neat(state) /\ Named(state)
  /\ Clear => Denotes(state) /\ said = Talked(state) /\ Bounded(state)

-----------------------------------------------------------------------------
(* The recursions of the model: through a program, through the elements of an *)
(* array that are visited, and through those that are stored.                 *)

Onward(kind, p, q, x, k) ==
  CASE kind = "spoken"  -> x \o Talk(p[k], q)
    [] kind = "visited" -> VisitNext(x, p[k])
    [] kind = "filled"  -> SetElement(x, q, k, p[k])
Forward(f, kind, p, q, z, k) == IF k = 0 THEN z ELSE Onward(kind, p, q, f[k - 1], k)
Forwards(f, kind, p, q, z, N) == f = [k \in 0..N |-> Forward(f, kind, p, q, z, k)]

\* Each has a solution: there is no least length without one.
LEMMA ForwardExists ==
  ASSUME NEW N \in Nat, NEW kind, NEW p, NEW q, NEW z
  PROVE  \E f : Forwards(f, kind, p, q, z, N)
<1> DEFINE Solves(f, n) == \A k \in 0..n : f[k] = Forward(f, kind, p, q, z, k)
           Bad == {n \in 0..N : ~\E f : Solves(f, n)}
<1>1. Bad = {}
  <2> SUFFICES ASSUME Bad # {} PROVE FALSE
    OBVIOUS
  <2>1. Bad \subseteq Nat
    OBVIOUS
  <2>2. PICK n \in Bad : \A k \in Bad : n <= k
    <3> HIDE DEF Bad
    <3> QED
      BY <2>1, Least
  <2>3. n \in 0..N /\ ~\E f : Solves(f, n)
    OBVIOUS
  <2>4. n # 0
    <3> SUFFICES ASSUME n = 0 PROVE FALSE
      OBVIOUS
    <3> DEFINE g == [k \in {0} |-> z]
    <3>1. Solves(g, 0)
      BY DEF Forward
    <3> QED
      BY <2>3, <3>1
  <2>5. n - 1 \in 0..N /\ ~(n <= n - 1) /\ n - 1 # n /\ n \in Nat
    BY <2>3, <2>4
  <2>6. PICK f : Solves(f, n - 1)
    BY <2>2, <2>5
  <2> DEFINE g == [k \in 0..n |-> IF k = n THEN Onward(kind, p, q, f[n - 1], n) ELSE f[k]]
  <2>7. g[n] = Onward(kind, p, q, f[n - 1], n) /\ \A k \in 0..(n - 1) : g[k] = f[k]
    BY <2>5
  <2> HIDE DEF g
  <2>8. ASSUME NEW k \in 0..n PROVE g[k] = Forward(g, kind, p, q, z, k)
    <3>1. CASE k = n
      <4>1. g[n - 1] = f[n - 1]
        BY <2>4, <2>5, <2>7
      <4> QED
        BY <2>4, <2>7, <3>1, <4>1 DEF Forward
    <3>2. CASE k # n
      <4>1. k \in 0..(n - 1) /\ (k # 0 => k - 1 \in 0..(n - 1))
        BY <2>5, <3>2
      <4>2. g[k] = f[k] /\ f[k] = Forward(f, kind, p, q, z, k) /\ (k # 0 => g[k - 1] = f[k - 1])
        BY <2>6, <2>7, <4>1
      <4> QED
        BY <4>2 DEF Forward
    <3> QED
      BY <3>1, <3>2
  <2> QED
    BY <2>3, <2>8
<1>2. N \in 0..N
  OBVIOUS
<1>3. PICK f : Solves(f, N)
  BY <1>1, <1>2
<1> DEFINE g == [k \in 0..N |-> f[k]]
<1>4. \A k \in 0..N : g[k] = f[k] /\ (k # 0 => k - 1 \in 0..N /\ g[k - 1] = f[k - 1])
  OBVIOUS
<1> HIDE DEF g
<1>5. \A k \in 0..N : f[k] = Forward(g, kind, p, q, z, k)
  <2> SUFFICES ASSUME NEW k \in 0..N PROVE f[k] = Forward(g, kind, p, q, z, k)
    OBVIOUS
  <2>1. f[k] = Forward(f, kind, p, q, z, k)
    BY <1>3
  <2> QED
    BY <1>4, <2>1 DEF Forward
<1>6. g = [k \in 0..N |-> Forward(g, kind, p, q, z, k)]
  BY <1>5, Zenon DEF g
<1>7. Forwards(g, kind, p, q, z, N)
  BY <1>6, Zenon DEF Forwards
<1> QED
  BY <1>7

\* Step by step, and the value at the end.
Goes(f, kind, p, q, z, N) ==
  f[0] = z /\ \A k \in 1..N : f[k] = Onward(kind, p, q, f[k - 1], k)

LEMMA ForwardsGoes ==
  ASSUME NEW N \in Nat, NEW kind, NEW p, NEW q, NEW z, NEW f, Forwards(f, kind, p, q, z, N)
  PROVE  Goes(f, kind, p, q, z, N)
<1>1. \A k \in 0..N : f[k] = Forward(f, kind, p, q, z, k)
  <2>1. f = [k \in 0..N |-> Forward(f, kind, p, q, z, k)]
    BY Zenon DEF Forwards
  <2> QED
    BY <2>1
<1>2. f[0] = z
  BY <1>1 DEF Forward
<1>3. \A k \in 1..N : f[k] = Onward(kind, p, q, f[k - 1], k)
  <2> SUFFICES ASSUME NEW k \in 1..N PROVE f[k] = Onward(kind, p, q, f[k - 1], k)
    OBVIOUS
  <2>1. k \in 0..N /\ k # 0
    OBVIOUS
  <2> QED
    BY <1>1, <2>1 DEF Forward
<1> QED
  BY <1>2, <1>3 DEF Goes

\* For each of them, the definition of the model has the form of Forwards.
SpokenBy(f, is, val) ==
  f = [k \in 0..Len(is) |-> IF k = 0 THEN <<>> ELSE f[k - 1] \o Talk(is[k], val)]
VisitedBy(f, s, es) ==
  f = [k \in 0..Len(es) |-> IF k = 0 THEN [s |-> s, hs |-> <<>>] ELSE VisitNext(f[k - 1], es[k])]
FilledBy(f, a, hs) ==
  f = [k \in 0..Len(hs) |-> IF k = 0 THEN a ELSE SetElement(f[k - 1], Last(a), k, hs[k])]

LEMMA SpokenSteps ==
  ASSUME NEW is, Len(is) \in Nat, NEW val
  PROVE  \E f : Goes(f, "spoken", is, val, <<>>, Len(is)) /\ f[Len(is)] = Spoken(is, val)
<1> DEFINE f == CHOOSE g : SpokenBy(g, is, val)
<1>1. \A g, k : Forward(g, "spoken", is, val, <<>>, k)
                  = IF k = 0 THEN <<>> ELSE g[k - 1] \o Talk(is[k], val)
  BY DEF Forward, Onward
<1>2. \A g : Forwards(g, "spoken", is, val, <<>>, Len(is)) <=> SpokenBy(g, is, val)
  BY <1>1 DEF Forwards, SpokenBy
<1>3. SpokenBy(f, is, val)
  <2>1. \E g : SpokenBy(g, is, val)
    BY <1>2, ForwardExists
  <2> QED
    BY <2>1, Zenon
<1>4. f[Len(is)] = Spoken(is, val)
  BY Zenon DEF Spoken, SpokenBy
<1> HIDE DEF f
<1> QED
  BY <1>2, <1>3, <1>4, ForwardsGoes

LEMMA VisitedSteps ==
  ASSUME NEW es, Len(es) \in Nat, NEW s
  PROVE  \E f : /\ Goes(f, "visited", es, 0, [s |-> s, hs |-> <<>>], Len(es))
                /\ VisitArrayInitializer(s, es) = Fill(f[Len(es)].s, f[Len(es)].hs)
<1> DEFINE f == CHOOSE g : VisitedBy(g, s, es)
           z == [s |-> s, hs |-> <<>>]
<1>1. \A g, k : Forward(g, "visited", es, 0, z, k) = IF k = 0 THEN z ELSE VisitNext(g[k - 1], es[k])
  BY DEF Forward, Onward
<1>2. \A g : Forwards(g, "visited", es, 0, z, Len(es)) <=> VisitedBy(g, s, es)
  BY <1>1 DEF Forwards, VisitedBy
<1>3. VisitedBy(f, s, es)
  <2>1. \E g : VisitedBy(g, s, es)
    BY <1>2, ForwardExists
  <2> QED
    BY <2>1, Zenon
<1>4. VisitArrayInitializer(s, es) = Fill(f[Len(es)].s, f[Len(es)].hs)
  BY Zenon DEF VisitArrayInitializer, VisitedBy
<1> HIDE DEF f
<1> QED
  BY <1>2, <1>3, <1>4, ForwardsGoes

LEMMA FilledSteps ==
  ASSUME NEW hs, Len(hs) \in Nat, NEW s,
         NEW a, a = Put(s, "f", "array", NoReg, Len(hs), Address(Last(s) + 1, 0))
  PROVE  \E f : /\ Goes(f, "filled", hs, Last(a), a, Len(hs))
                /\ Fill(s, hs) = With(f[Len(hs)], Last(a))
<1> DEFINE f == CHOOSE g : FilledBy(g, a, hs)
<1>1. \A g, k : Forward(g, "filled", hs, Last(a), a, k)
                  = IF k = 0 THEN a ELSE SetElement(g[k - 1], Last(a), k, hs[k])
  BY DEF Forward, Onward
<1>2. \A g : Forwards(g, "filled", hs, Last(a), a, Len(hs)) <=> FilledBy(g, a, hs)
  BY <1>1 DEF Forwards, FilledBy
<1>3. FilledBy(f, a, hs)
  <2>1. \E g : FilledBy(g, a, hs)
    BY <1>2, ForwardExists
  <2> QED
    BY <2>1, Zenon
<1>4. Fill(s, hs) = With(f[Len(hs)], Last(a))
  BY Zenon DEF Fill, FilledBy
<1> HIDE DEF f
<1> QED
  BY <1>2, <1>3, <1>4, ForwardsGoes

-----------------------------------------------------------------------------
(* What a program says. *)

LEMMA SpokenIsSequence ==
  ASSUME NEW is, Len(is) \in Nat, NEW val
  PROVE  \E S : Spoken(is, val) \in Seq(S)
<1>1. PICK f : Goes(f, "spoken", is, val, <<>>, Len(is)) /\ f[Len(is)] = Spoken(is, val)
  BY SpokenSteps
<1> DEFINE S == {Says(is[k].op, val[is[k].x]) : k \in 1..Len(is)}
           Bad == {k \in 0..Len(is) : f[k] \notin Seq(S)}
<1>2. \A k \in 1..Len(is) : Talk(is[k], val) \in Seq(S)
  <2> SUFFICES ASSUME NEW k \in 1..Len(is) PROVE Talk(is[k], val) \in Seq(S)
    OBVIOUS
  <2>1. Says(is[k].op, val[is[k].x]) \in S
    OBVIOUS
  <2> HIDE DEF S
  <2> QED
    BY <2>1 DEF Talk
<1> HIDE DEF S
<1>3. Bad = {}
  <2> SUFFICES ASSUME Bad # {} PROVE FALSE
    OBVIOUS
  <2>1. Bad \subseteq Nat
    OBVIOUS
  <2>2. PICK n \in Bad : \A k \in Bad : n <= k
    <3> HIDE DEF Bad
    <3> QED
      BY <2>1, Least
  <2>3. n # 0
    <3>1. f[0] = <<>> /\ <<>> \in Seq(S)
      BY <1>1 DEF Goes
    <3> QED
      BY <3>1
  <2>4. n \in 1..Len(is) /\ n - 1 \in 0..Len(is) /\ ~(n <= n - 1)
    BY <2>3
  <2>5. f[n - 1] \in Seq(S)
    BY <2>2, <2>4
  <2>6. f[n] = f[n - 1] \o Talk(is[n], val)
    BY <1>1, <2>4 DEF Goes, Onward
  <2>7. Talk(is[n], val) \in Seq(S)
    BY <1>2, <2>4
  <2>8. \A a, b \in Seq(S) : a \o b \in Seq(S)
    OBVIOUS
  <2>9. f[n] \in Seq(S)
    BY <2>5, <2>6, <2>7, <2>8
  <2> QED
    BY <2>9
<1>4. f[Len(is)] \in Seq(S)
  BY <1>3
<1> QED
  BY <1>1, <1>4

\* One more instruction says what it says itself.
LEMMA SpokenNext ==
  ASSUME NEW is, Len(is) \in Nat, NEW js, Len(js) = Len(is) + 1, NEW u, NEW v,
         \A k \in 1..Len(is) : Talk(js[k], v) = Talk(is[k], u)
  PROVE  Spoken(js, v) = Spoken(is, u) \o Talk(js[Len(js)], v)
<1> DEFINE n == Len(is)
<1>0. n + 1 \in Nat /\ n + 1 \in 1..(n + 1) /\ n + 1 - 1 = n /\ n \in 0..n /\ Len(js) \in Nat
  OBVIOUS
<1>1. PICK f : Goes(f, "spoken", is, u, <<>>, n) /\ f[n] = Spoken(is, u)
  BY SpokenSteps
<1>2. PICK g : Goes(g, "spoken", js, v, <<>>, Len(js)) /\ g[Len(js)] = Spoken(js, v)
  BY <1>0, SpokenSteps
<1> DEFINE Bad == {k \in 0..n : f[k] # g[k]}
<1>3. Bad = {}
  <2> SUFFICES ASSUME Bad # {} PROVE FALSE
    OBVIOUS
  <2>1. Bad \subseteq Nat
    OBVIOUS
  <2>2. PICK m \in Bad : \A k \in Bad : m <= k
    <3> HIDE DEF Bad
    <3> QED
      BY <2>1, Least
  <2>3. m # 0
    BY <1>1, <1>2 DEF Goes
  <2>4. m \in 1..n /\ m \in 1..Len(js) /\ m - 1 \in 0..n /\ ~(m <= m - 1)
    BY <2>3
  <2>5. f[m - 1] = g[m - 1]
    BY <2>2, <2>4
  <2>6. f[m] = f[m - 1] \o Talk(is[m], u) /\ g[m] = g[m - 1] \o Talk(js[m], v)
    BY <1>1, <1>2, <2>4 DEF Goes, Onward
  <2> QED
    BY <2>4, <2>5, <2>6
<1>4. f[n] = g[n]
  BY <1>0, <1>3
<1>5. g[n + 1] = g[n] \o Talk(js[n + 1], v)
  <2>1. \A k \in 1..Len(js) : g[k] = Onward("spoken", js, v, g[k - 1], k)
    BY <1>2 DEF Goes
  <2>2. g[n + 1] = Onward("spoken", js, v, g[n + 1 - 1], n + 1)
    BY <1>0, <2>1
  <2> QED
    BY <1>0, <2>2 DEF Onward
<1> QED
  BY <1>1, <1>2, <1>4, <1>5

LEMMA SpokenSame ==
  ASSUME NEW is, Len(is) \in Nat, NEW u, NEW v,
         \A k \in 1..Len(is) : Talk(is[k], v) = Talk(is[k], u)
  PROVE  Spoken(is, v) = Spoken(is, u)
<1> DEFINE n == Len(is)
<1>1. PICK f : Goes(f, "spoken", is, u, <<>>, n) /\ f[n] = Spoken(is, u)
  BY SpokenSteps
<1>2. PICK g : Goes(g, "spoken", is, v, <<>>, n) /\ g[n] = Spoken(is, v)
  BY SpokenSteps
<1> DEFINE Bad == {k \in 0..n : f[k] # g[k]}
<1>3. Bad = {}
  <2> SUFFICES ASSUME Bad # {} PROVE FALSE
    OBVIOUS
  <2>1. Bad \subseteq Nat
    OBVIOUS
  <2>2. PICK m \in Bad : \A k \in Bad : m <= k
    <3> HIDE DEF Bad
    <3> QED
      BY <2>1, Least
  <2>3. m # 0
    BY <1>1, <1>2 DEF Goes
  <2>4. m \in 1..n /\ m - 1 \in 0..n /\ ~(m <= m - 1)
    BY <2>3
  <2>5. f[m - 1] = g[m - 1]
    BY <2>2, <2>4
  <2>6. f[m] = f[m - 1] \o Talk(is[m], u) /\ g[m] = g[m - 1] \o Talk(is[m], v)
    BY <1>1, <1>2, <2>4 DEF Goes, Onward
  <2> QED
    BY <2>4, <2>5, <2>6
<1> QED
  BY <1>1, <1>2, <1>3

-----------------------------------------------------------------------------
(* What every piece of code of an operation keeps. *)

\* t is s and more code, which leaves the cells of the first n objects alone.
Follows(n, s, t) ==
  /\ Good(t) /\ Neat(t) /\ Extends(s, t)
  /\ \A a \in Addresses : a.base \in 1..n => t.content[a] = s.content[a]

\* Elements of an array of that length are where the compiler takes them to be.
Narrow(size) == ~(ElemSize > 1 /\ size > 1)

\* ... and which says nothing, nor reads an array, nor leaves one, if the arrays
\* it makes have the given size.
Keeps(n, s, t, size) ==
  /\ Follows(n, s, t)
  /\ Elements(t) = Elements(s) /\ Talked(t) = Talked(s)
  /\ Narrow(size) /\ Bounded(s) => Bounded(t)

LEMMA OneIsNarrow == Narrow(1)
BY DEF Narrow

LEMMA FollowsTransitive ==
  ASSUME NEW s, NEW t, NEW u, NEW n, Good(s), Follows(n, s, t), Follows(n, t, u)
  PROVE  Follows(n, s, u)
<1>1. Len(s.code) \in Nat /\ Len(t.code) \in Nat /\ Len(u.code) \in Nat
  BY GoodLen DEF Follows
<1>2. Extends(s, u)
  BY <1>1, ExtendsTransitive DEF Follows
<1> QED
  BY <1>2 DEF Follows

LEMMA KeepsTransitive ==
  ASSUME NEW s, NEW t, NEW u, NEW n, NEW size, Good(s), Keeps(n, s, t, size), Keeps(n, t, u, size)
  PROVE  Keeps(n, s, u, size)
<1>1. Follows(n, s, u)
  BY FollowsTransitive DEF Keeps
<1> QED
  BY <1>1 DEF Keeps

LEMMA KeepsItself ==
  ASSUME NEW s, NEW n, NEW size, Good(s), Neat(s)
  PROVE  Keeps(n, s, s, size)
<1>1. Len(s.code) \in Nat
  BY GoodLen
<1> QED
  BY <1>1 DEF Keeps, Follows, Extends

LEMMA KeepsFewer ==
  ASSUME NEW s, NEW t, NEW n \in Nat, NEW m \in 0..n, NEW size, Keeps(n, s, t, size)
  PROVE  Keeps(m, s, t, size)
<1>1. 1..m \subseteq 1..n
  OBVIOUS
<1> QED
  BY <1>1 DEF Keeps, Follows

\* The handles of atoms: constants and variables.
IsPlain(s, h) == h \in 1..Len(s.code) /\ s.code[h].op \in {"const", "stack"}

LEMMA PlainStays ==
  ASSUME NEW s, NEW t, NEW n \in Nat, Good(s), n <= Len(s.code), Follows(n, s, t),
         NEW h \in 1..n, IsPlain(s, h)
  PROVE  IsPlain(t, h) /\ IsScalar(t, h) /\ Meaning(t, h) = Meaning(s, h)
<1>1. Len(s.code) \in Nat /\ Len(t.code) \in Nat /\ Typed(s) /\ Typed(t) /\ Ordered(s)
  BY GoodLen DEF Follows
<1>2. h \in 1..Len(s.code) /\ h \in 1..Len(t.code) /\ t.code[h] = s.code[h] /\ t.meant[h] = s.meant[h]
  BY <1>1 DEF Follows, Extends
<1>3. IsPlain(t, h) /\ IsScalar(t, h)
  BY <1>2 DEF IsPlain, IsScalar, ScalarOps, Variable, Caching
<1>4. CASE s.code[h].op = "const"
  <2>1. s.code[h].op \notin Variable /\ t.code[h].op \notin Variable
    BY <1>2, <1>4 DEF Variable, Caching
  <2> QED
    BY ONLY <1>2, <1>3, <2>1 DEF Meaning
<1>5. CASE s.code[h].op = "stack"
  <2>1. s.meant[h] = Address(h, 0)
    BY <1>1, <1>2, <1>5 DEF Ordered, Fits
  <2>2. Address(h, 0).base = h
    BY DEF Address
  <2>3. DOMAIN s.content = Addresses /\ DOMAIN t.content = Addresses
    BY <1>1, CodeFacts
  <2>4. Cell(t, Address(h, 0)) = Cell(s, Address(h, 0))
    BY <2>2, <2>3 DEF Cell, Follows
  <2>5. s.code[h].op \in Variable /\ t.code[h].op \in Variable
    BY <1>2, <1>5 DEF Variable, Caching
  <2> QED
    BY ONLY <1>2, <1>3, <2>1, <2>4, <2>5 DEF Meaning
<1> QED
  BY <1>3, <1>4, <1>5 DEF IsPlain

LEMMA TalkStays ==
  ASSUME NEW s, NEW t, Good(s), Extends(s, t), NEW k \in 1..Len(s.code)
  PROVE  Talk(t.code[k], t.meant) = Talk(s.code[k], s.meant)
<1>1. t.code[k] = s.code[k]
  BY DEF Extends
<1>2. Len(s.code) \in Nat /\ Ordered(s)
  BY GoodLen
<1>3. CASE s.code[k].op \in {"call", "ret"}
  <2>1. s.code[k].x \in 1..(k - 1)
    BY <1>2, <1>3 DEF Ordered, Fits
  <2>2. s.code[k].x \in 1..Len(s.code)
    BY <1>2, <2>1
  <2>3. t.meant[s.code[k].x] = s.meant[s.code[k].x]
    BY <2>2 DEF Extends
  <2> QED
    BY <1>1, <2>3 DEF Talk
<1>4. CASE s.code[k].op \notin {"call", "ret"}
  BY <1>1, <1>4 DEF Talk
<1> QED
  BY <1>3, <1>4

LEMMA TalkedNext ==
  ASSUME NEW s, NEW t, Good(s), Good(t), Extends(s, t), Len(t.code) = Len(s.code) + 1
  PROVE  /\ Talked(t) = Talked(s) \o Talk(t.code[Len(t.code)], t.meant)
         /\ t.code[Len(t.code)].op \notin {"call", "ret"} => Talked(t) = Talked(s)
<1>1. Len(s.code) \in Nat
  BY GoodLen
<1>2. \A k \in 1..Len(s.code) : Talk(t.code[k], t.meant) = Talk(s.code[k], s.meant)
  BY TalkStays
<1>3. Talked(t) = Talked(s) \o Talk(t.code[Len(t.code)], t.meant)
  <2>1. Spoken(t.code, t.meant) = Spoken(s.code, s.meant) \o Talk(t.code[Len(t.code)], t.meant)
    <3> DEFINE is == s.code
               js == t.code
               u == s.meant
               v == t.meant
    <3>1. /\ Len(is) \in Nat /\ Len(js) = Len(is) + 1
          /\ \A k \in 1..Len(is) : Talk(js[k], v) = Talk(is[k], u)
      BY <1>1, <1>2
    <3> HIDE DEF is, js, u, v
    <3>2. Spoken(js, v) = Spoken(is, u) \o Talk(js[Len(js)], v)
      BY ONLY <3>1, SpokenNext
    <3> QED
      BY <3>2 DEF is, js, u, v
  <2> QED
    BY <2>1 DEF Talked
<1>4. PICK S : Talked(s) \in Seq(S)
  BY <1>1, SpokenIsSequence DEF Talked
<1>5. Talked(s) \o <<>> = Talked(s)
  BY <1>4
<1> QED
  BY <1>3, <1>5 DEF Talk

LEMMA BoundedNext ==
  ASSUME NEW s, NEW t, Good(s), Extends(s, t), Len(t.code) = Len(s.code) + 1, Bounded(s),
         LET c == t.code[Len(t.code)]
         IN c.op \in {"item", "element"} =>
              /\ c.x \in 1..Len(s.code)
              /\ t.meant[Len(t.code)].at # NoWord /\ t.meant[Len(t.code)].at < s.code[c.x].y
  PROVE  Bounded(t)
<1> SUFFICES ASSUME NEW i \in 1..Len(t.code), t.code[i].op \in {"item", "element"}
             PROVE  t.meant[i].at # NoWord /\ t.meant[i].at < t.code[t.code[i].x].y
  BY DEF Bounded
<1>1. Len(s.code) \in Nat /\ Ordered(s)
  BY GoodLen
<1>2. CASE i = Len(t.code)
  BY <1>2 DEF Extends
<1>3. CASE i # Len(t.code)
  <2>1. i \in 1..Len(s.code)
    BY <1>1, <1>3
  <2>2. t.code[i] = s.code[i] /\ t.meant[i] = s.meant[i]
    BY <2>1 DEF Extends
  <2>3. s.code[i].x \in 1..(i - 1)
    BY <1>1, <2>1, <2>2 DEF Ordered, Fits
  <2>4. s.code[i].x \in 1..Len(s.code)
    BY <1>1, <2>1, <2>3
  <2>5. t.code[s.code[i].x] = s.code[s.code[i].x]
    BY <2>4 DEF Extends
  <2> QED
    BY <2>1, <2>2, <2>5 DEF Bounded
<1> QED
  BY <1>2, <1>3

\* The same for one more instruction, of almost any kind.
LEMMA NextKeeps ==
  ASSUME NEW s, NEW t, NEW n, NEW size, Good(s), Neat(s), Good(t), Extends(s, t),
         Len(t.code) = Len(s.code) + 1, ~t.staleRead, t.overwritten = {},
         \A a \in Addresses : a.base \in 1..n => t.content[a] = s.content[a],
         t.code[Len(t.code)].builder = "f",
         t.code[Len(t.code)].op \notin {"element", "call", "ret"},
         Narrow(size) /\ t.code[Len(t.code)].op = "item" =>
           /\ t.code[Len(t.code)].x \in 1..Len(s.code)
           /\ t.meant[Len(t.code)].at # NoWord
           /\ t.meant[Len(t.code)].at < s.code[t.code[Len(t.code)].x].y
  PROVE  Keeps(n, s, t, size)
<1>1. Len(s.code) \in Nat /\ Len(t.code) \in Nat
  BY GoodLen
<1>2. \A i \in 1..Len(t.code) : i = Len(t.code) \/ i \in 1..Len(s.code)
  BY <1>1
<1>3. \A i \in 1..Len(s.code) : i \in 1..Len(t.code) /\ t.code[i] = s.code[i]
  BY <1>1 DEF Extends
<1>4. Elements(t) = Elements(s)
  BY <1>2, <1>3 DEF Elements
<1>5. \A i \in 1..Len(t.code) : t.code[i].builder = "f"
  BY <1>2, <1>3 DEF Neat
<1>6. \A c, d \in Elements(t) : t.code[c].x = t.code[d].x => c = d
  <2>1. \A c \in Elements(s) : t.code[c] = s.code[c]
    BY <1>3 DEF Elements
  <2> QED
    BY <1>4, <2>1 DEF Neat
<1>7. Neat(t)
  BY <1>5, <1>6 DEF Neat
<1>8. Talked(t) = Talked(s)
  BY TalkedNext
<1>9. Narrow(size) /\ Bounded(s) => Bounded(t)
  BY BoundedNext
<1> QED
  BY <1>4, <1>7, <1>8, <1>9 DEF Keeps, Follows

\* Filling or emptying a cache is no code.
LEMMA CacheKeeps ==
  ASSUME NEW s, NEW p, NEW t, NEW n, NEW size, Keeps(n, s, p, size), Good(t), t.code = p.code, t.meant = p.meant,
         t.content = p.content, t.staleRead = p.staleRead, t.overwritten = {}
  PROVE  Keeps(n, s, t, size)
<1>1. Elements(t) = Elements(p) /\ Talked(t) = Talked(p) /\ (Bounded(p) => Bounded(t))
  BY DEF Elements, Talked, Bounded
<1>2. Neat(t)
  BY <1>1 DEF Keeps, Follows, Neat
<1> QED
  BY <1>1, <1>2 DEF Keeps, Follows, Extends

-----------------------------------------------------------------------------
(* Emitting, reading and storing. *)

\* t is s and one more instruction of the operation.
Plus(s, t, op, x, y, m) == Good(t) /\ Emitted(s, t, "f", op, x, y, m)

LEMMA PlusFacts ==
  ASSUME NEW s, Good(s), NEW t, NEW op, NEW x, NEW y, NEW m, Plus(s, t, op, x, y, m)
  PROVE  /\ Good(t) /\ OnlyReads(s, t) /\ Extends(s, t) /\ t.staleRead = s.staleRead
         /\ t.content = s.content /\ t.overwritten = s.overwritten
         /\ Len(s.code) \in Nat /\ Len(t.code) = Len(s.code) + 1 /\ Len(t.code) \in 1..Len(t.code)
         /\ t.code[Len(t.code)].builder = "f" /\ t.code[Len(t.code)].op = op
         /\ t.code[Len(t.code)].x = x /\ t.code[Len(t.code)].y = y
         /\ t.meant[Len(t.code)] = m /\ t.cache[Len(t.code)] = NoReg
         /\ \A i \in 1..Len(s.code) : t.cache[i] = s.cache[i]
<1>1. Len(s.code) \in Nat
  BY GoodLen
<1> QED
  BY <1>1 DEF Plus, Emitted, OnlyReads

LEMMA PlusKeeps ==
  ASSUME NEW s, Good(s), Neat(s), NEW n, NEW size, NEW t, NEW op, NEW x, NEW y, NEW m, Plus(s, t, op, x, y, m),
         op \notin {"element", "call", "ret"},
         Narrow(size) /\ op = "item" => x \in 1..Len(s.code) /\ m.at # NoWord /\ m.at < s.code[x].y
  PROVE  Keeps(n, s, t, size)
<1>1. /\ Good(t) /\ Extends(s, t) /\ Len(t.code) = Len(s.code) + 1 /\ t.staleRead = s.staleRead
      /\ t.overwritten = s.overwritten /\ t.content = s.content
      /\ t.code[Len(t.code)].builder = "f" /\ t.code[Len(t.code)].op = op
      /\ t.code[Len(t.code)].x = x /\ t.meant[Len(t.code)] = m
  BY PlusFacts
<1>2. ~t.staleRead /\ t.overwritten = {}
  BY <1>1 DEF Neat
<1> QED
  BY <1>1, <1>2, NextKeeps

LEMMA PutPlus ==
  ASSUME NEW s, Good(s), NEW op \in Ops, NEW x \in Nat, NEW y \in Nat, NEW m \in Meanings,
         Good(Put(s, "f", op, x, y, m))
  PROVE  Plus(s, Put(s, "f", op, x, y, m), op, x, y, m)
<1>1. Typed(s) /\ "f" \in BuilderNames
  BY DEF Good, BuilderNames
<1> QED
  BY <1>1, PutFacts DEF Plus

LEMMA ConstPlus ==
  ASSUME NEW s, Good(s), Arm, NEW w \in Words
  PROVE  Plus(s, Put(s, "f", "const", w, NoReg, w), "const", w, NoReg, w)
<1>1. w \in Nat /\ NoReg \in Nat /\ w \in Meanings /\ "const" \in Ops /\ "f" \in BuilderNames
  BY WordFacts DEF NoReg, Meanings, Contents, Ops, BuilderNames
<1>2. Good(Put(s, "f", "const", w, NoReg, w))
  BY <1>1, ConstAdds DEF Adds
<1> QED
  BY <1>1, <1>2, PutPlus

LEMMA NewPlus ==
  ASSUME NEW s, Good(s), Arm, NEW op \in {"stack", "array"}, NEW k \in Nat
  PROVE  Plus(s, Put(s, "f", op, NoReg, k, Address(Len(s.code) + 1, 0)),
              op, NoReg, k, Address(Len(s.code) + 1, 0))
<1>1. Len(s.code) + 1 \in Nat
  BY GoodLen
<1>2. /\ NoReg \in Nat /\ Address(Len(s.code) + 1, 0) \in Meanings
      /\ op \in Ops /\ op \in {"stack", "heap", "array"} /\ "f" \in BuilderNames
  BY <1>1 DEF NoReg, Meanings, Address, Ops, BuilderNames
<1>3. Good(Put(s, "f", op, NoReg, k, Address(Len(s.code) + 1, 0)))
  BY <1>2, NewAdds DEF Adds
<1> QED
  BY <1>2, <1>3, PutPlus

LEMMA UsePlus ==
  ASSUME NEW s, Good(s), Arm, NEW op \in {"call", "ret"}, NEW r, NEW m, StandsFor(s, r, m)
  PROVE  LET v == IF op = "call" THEN Answer(m) ELSE m
         IN Plus(s, Put(s, "f", op, r, NoReg, v), op, r, NoReg, v)
<1> DEFINE v == IF op = "call" THEN Answer(m) ELSE m
<1>1. r \in 1..Len(s.code) /\ m \in Contents /\ Len(s.code) \in Nat
  BY GoodLen DEF StandsFor
<1>2. /\ NoReg \in Nat /\ r \in Nat /\ v \in Meanings /\ op \in Ops
      /\ op \in {"call", "condbr", "ret"} /\ "f" \in BuilderNames
  BY <1>1, WordFacts DEF NoReg, Meanings, Ops, BuilderNames
<1>3. Good(Put(s, "f", op, r, NoReg, v))
  BY <1>2, UseAdds DEF Adds
<1> HIDE DEF v
<1>4. Plus(s, Put(s, "f", op, r, NoReg, v), op, r, NoReg, v)
  BY <1>2, <1>3, PutPlus
<1> QED
  BY <1>4 DEF v

LEMMA BinaryPlus ==
  ASSUME NEW s, Good(s), Arm, NEW op \in Arithmetic, NEW q, NEW k, StandsFor(s, q, k), NEW r, NEW m, StandsFor(s, r, m)
  PROVE  Plus(s, Put(s, "f", op, q, r, Apply(op, k, m)), op, q, r, Apply(op, k, m))
<1>1. Len(s.code) \in Nat /\ q \in 1..Len(s.code) /\ r \in 1..Len(s.code) /\ k \in Contents /\ m \in Contents
  BY GoodLen DEF StandsFor
<1>2. /\ q \in Nat /\ r \in Nat /\ Apply(op, k, m) \in Meanings /\ op \in Ops /\ "f" \in BuilderNames
  BY <1>1, WordFacts DEF Meanings, Ops, BuilderNames
<1>3. Good(Put(s, "f", op, q, r, Apply(op, k, m)))
  BY <1>2, BinaryAdds DEF Adds
<1> QED
  BY <1>2, <1>3, PutPlus

LEMMA PointerPlus ==
  ASSUME NEW s, Good(s), Neat(s), Arm, NEW op \in {"item", "element"}, NEW h, IsArray(s, h),
         NEW r, NEW m, StandsFor(s, r, m)
  PROVE  Plus(s, Put(s, "f", op, h, r, Address(h, At(op, m))), op, h, r, Address(h, At(op, m)))
<1>1. /\ h \in 1..Len(s.code) /\ s.code[h].op = "array" /\ s.code[h].builder = "f"
      /\ r \in 1..Len(s.code) /\ m \in Contents /\ Len(s.code) \in Nat
  BY GoodLen DEF IsArray, Neat, StandsFor
<1>2. Good(Put(s, "f", op, h, r, Address(h, At(op, m))))
  BY <1>1, PointerAdds DEF Adds
<1>3. At(op, m) \in Nat \cup {NoWord}
  <2>1. m # NoWord => m \in Nat
    BY <1>1, WordFacts DEF Contents
  <2>2. ElemSize \in Nat
    BY ValuesAssumption
  <2> QED
    BY <2>1, <2>2 DEF At
<1>4. h \in Nat /\ r \in Nat /\ op \in Ops
  BY <1>1 DEF Ops
<1>5. Address(h, At(op, m)) \in Meanings
  BY <1>3, <1>4 DEF Meanings, Address
<1> QED
  BY <1>2, <1>4, <1>5, PutPlus

\* Reading never meets a stale cache.
LEMMA ReadKeeps ==
  ASSUME NEW s, Good(s), Neat(s), Arm, NEW h, IsScalar(s, h), NEW n, NEW size
  PROVE  Keeps(n, s, Read(s, h), size)
<1> DEFINE t == Read(s, h)
           op == s.code[h].op
<1>1. Good(t) /\ OnlyReads(s, t)
  BY ReadKeepsGood
<1>2. /\ h \in 1..Len(s.code) /\ s.code[h].builder = "f" /\ Typed(s)
      /\ t.content = s.content /\ t.overwritten = {}
  BY <1>1, GoodLen DEF IsScalar, Neat, OnlyReads
<1>3. CASE op \in Variable /\ s.cache[h] = NoReg
  <2> DEFINE l == Load(s, h, "load")
  <2>1. op \in Cells
    BY <1>3 DEF Variable, Caching, Cells
  <2>2. /\ Good(l) /\ OnlyReads(s, l) /\ l.staleRead = s.staleRead /\ Len(l.code) = Len(s.code) + 1
        /\ l.code[Len(s.code) + 1].op = "load"
    BY <1>2, <2>1, LoadKeepsGood
  <2>3. l.code[Len(s.code) + 1].builder = "f"
    <3>1. /\ h \in Nat /\ NoReg \in Nat /\ "load" \in Ops /\ "f" \in BuilderNames
          /\ Cell(s, s.meant[h]) \in Meanings
      BY <1>2, CellFacts, GoodLen DEF NoReg, Ops, BuilderNames, Meanings
    <3>2. l = Put(s, "f", "load", h, NoReg, Cell(s, s.meant[h]))
      BY <1>2 DEF Load, Home
    <3>3. Emitted(s, l, "f", "load", h, NoReg, Cell(s, s.meant[h]))
      BY <1>2, <3>1, <3>2, PutFacts
    <3> QED
      BY <3>3 DEF Emitted
  <2> HIDE DEF l
  <2>4. Keeps(n, s, l, size)
    <3>1. /\ Extends(s, l) /\ l.overwritten = {} /\ ~l.staleRead /\ l.content = s.content
      BY <2>2 DEF OnlyReads, Neat
    <3> QED
      BY <2>2, <2>3, <3>1, NextKeeps
  <2>5. t = IF op \in Caching THEN [l EXCEPT !.cache[h] = Len(l.code)] ELSE l
    BY <1>3 DEF Read, l
  <2>6. l \in [code : Seq(Instructions), cache : Seq(Nat), meant : Seq(Meanings),
               content : [Addresses -> Contents], overwritten : SUBSET Nat, staleRead : BOOLEAN]
    BY <2>2 DEF Good, Typed
  <2> HIDE DEF t
  <2>7. t.code = l.code /\ t.meant = l.meant /\ t.content = l.content /\ t.staleRead = l.staleRead
    BY <2>5, <2>6
  <2> QED
    BY <1>1, <1>2, <2>4, <2>7, CacheKeeps DEF t
<1>4. CASE ~(op \in Variable /\ s.cache[h] = NoReg)
  <2>1. t = [s EXCEPT !.staleRead = @ \/ h \in s.overwritten] /\ (h \in s.overwritten) \in BOOLEAN
    BY <1>4 DEF Read
  <2>2. h \notin s.overwritten
    BY DEF Neat
  <2> HIDE DEF t
  <2>3. t.code = s.code /\ t.meant = s.meant /\ t.staleRead = (s.staleRead \/ h \in s.overwritten)
    BY <2>1, FlagKeepsGood
  <2>4. t.staleRead = s.staleRead
    BY <1>2, <2>2, <2>3 DEF Typed
  <2>5. Keeps(n, s, s, size)
    BY KeepsItself
  <2> QED
    BY <1>1, <1>2, <2>3, <2>4, <2>5, CacheKeeps DEF t
<1> QED
  BY <1>3, <1>4

-----------------------------------------------------------------------------
(* Arrays. *)

\* No element of array h was read.
Unindexed(s, h) == \A c \in Elements(s) : s.code[c].x # h

LEMMA UnindexedStays ==
  ASSUME NEW s, NEW t, NEW n, NEW size, Keeps(n, s, t, size), NEW h, Unindexed(s, h)
  PROVE  Unindexed(t, h)
<1>1. \A c \in Elements(s) : t.code[c] = s.code[c]
  BY DEF Elements, Keeps, Follows, Extends
<1> QED
  BY <1>1 DEF Unindexed, Keeps

LEMMA ArrayStays ==
  ASSUME NEW s, NEW t, NEW n, Good(s), Follows(n, s, t), NEW h, IsArray(s, h)
  PROVE  IsArray(t, h) /\ t.code[h] = s.code[h]
<1>1. Len(s.code) \in Nat /\ Len(t.code) \in Nat
  BY GoodLen DEF Follows
<1> QED
  BY <1>1 DEF IsArray, Follows, Extends

\* Values that have a cache do not share their cell.
LEMMA SoleCell ==
  ASSUME NEW s, Good(s), Neat(s), NEW h \in 1..Len(s.code),
         s.code[h].op \in {"stack", "item", "element"},
         s.code[h].op = "item" => Unindexed(s, s.code[h].x),
         NEW c \in 1..Len(s.code), s.cache[c] # NoReg, s.meant[c] = s.meant[h]
  PROVE  c = h
<1>1. Len(s.code) \in Nat /\ Ordered(s) /\ Cached(s)
  BY GoodLen DEF Good
<1>2. s.code[c].op \in {"stack", "element"}
  BY <1>1 DEF Cached, Caching
<1>3. \A k, l, i, j : Address(k, i) = Address(l, j) => k = l
  <2> SUFFICES ASSUME NEW k, NEW l, NEW i, NEW j, Address(k, i) = Address(l, j) PROVE k = l
    OBVIOUS
  <2>1. Address(k, i).base = Address(l, j).base
    OBVIOUS
  <2> QED
    BY <2>1 DEF Address
<1>4. \A i \in 1..Len(s.code) :
        /\ s.code[i].op = "stack" => s.meant[i] = Address(i, 0)
        /\ s.code[i].op \in {"item", "element"} =>
             /\ s.code[i].x \in 1..(i - 1) /\ s.code[s.code[i].x].op = "array"
             /\ s.meant[i] = Address(s.code[i].x, s.meant[i].at)
  BY <1>1 DEF Ordered, Fits
<1>5. CASE s.code[c].op = "stack" /\ s.code[h].op = "stack"
  BY <1>3, <1>4, <1>5
<1>6. CASE s.code[c].op = "stack" /\ s.code[h].op # "stack"
  <2>1. c = s.code[h].x
    BY <1>3, <1>4, <1>6
  <2> QED
    BY <1>4, <1>6, <2>1
<1>7. CASE s.code[c].op = "element" /\ s.code[h].op = "stack"
  <2>1. h = s.code[c].x
    BY <1>3, <1>4, <1>7
  <2> QED
    BY <1>4, <1>7, <2>1
<1>8. CASE s.code[c].op = "element" /\ s.code[h].op # "stack"
  <2>1. s.code[c].x = s.code[h].x
    BY <1>3, <1>4, <1>8
  <2>2. c \in Elements(s)
    BY <1>8 DEF Elements
  <2>3. s.code[h].op = "element"
    BY <1>8, <2>1, <2>2 DEF Unindexed
  <2>4. h \in Elements(s)
    BY <2>3 DEF Elements
  <2> QED
    BY <2>1, <2>2, <2>4 DEF Neat
<1> QED
  BY <1>2, <1>5, <1>6, <1>7, <1>8

LEMMA StoreFacts ==
  ASSUME NEW s, Good(s), Neat(s), Arm, NEW h \in 1..Len(s.code),
         s.code[h].op \in {"stack", "item", "element"},
         s.code[h].op = "item" => Unindexed(s, s.code[h].x),
         NEW r, NEW m, StandsFor(s, r, m)
  PROVE  LET t == Store(s, h, r, m)
         IN /\ Good(t) /\ Extends(s, t) /\ ~t.staleRead
            /\ Len(t.code) = Len(s.code) + 1
            /\ t.code[Len(t.code)].op = "store" /\ t.code[Len(t.code)].builder = "f"
            /\ t.content = [a \in Addresses |-> IF a = s.meant[h] THEN m ELSE s.content[a]]
            /\ t.overwritten \subseteq {h} /\ (s.cache[h] = NoReg => t.overwritten = {})
            /\ \A i \in 1..Len(s.code) : t.cache[i] = s.cache[i]
<1> DEFINE t == Store(s, h, r, m)
<1>1. /\ r \in 1..Len(s.code) /\ s.code[r].op \in Results /\ m \in Contents /\ m = s.meant[r]
      /\ s.code[h].op \in Cells /\ s.code[h].builder = "f"
  BY DEF StandsFor, Neat, Cells
<1>2. /\ Good(t) /\ Extends(s, t) /\ t.staleRead = s.staleRead
      /\ Len(t.code) = Len(s.code) + 1 /\ t.code[Len(s.code) + 1].op = "store"
      /\ t.code[Len(s.code) + 1].builder = s.code[h].builder
      /\ t.content = [a \in Addresses |-> IF a = s.meant[h] THEN m ELSE s.content[a]]
      /\ t.overwritten = s.overwritten \cup
           {c \in 1..Len(s.code) : s.cache[c] # NoReg /\ s.meant[c] = s.meant[h]}
      /\ \A i \in 1..Len(s.code) : t.cache[i] = s.cache[i]
  BY <1>1, StoreKeepsGood
<1> HIDE DEF t
<1>3. \A c \in 1..Len(s.code) : s.cache[c] # NoReg /\ s.meant[c] = s.meant[h] => c = h
  BY SoleCell
<1>4. t.overwritten \subseteq {h} /\ (s.cache[h] = NoReg => t.overwritten = {})
  BY <1>2, <1>3 DEF Neat
<1>5. ~t.staleRead
  BY <1>2 DEF Neat
<1> QED
  BY <1>1, <1>2, <1>4, <1>5 DEF t

\* A store to something whose cache is empty.
LEMMA StoreKeeps ==
  ASSUME NEW s, Good(s), Neat(s), Arm, NEW h \in 1..Len(s.code), s.cache[h] = NoReg,
         s.code[h].op \in {"stack", "item", "element"},
         s.code[h].op = "item" => Unindexed(s, s.code[h].x),
         NEW r, NEW m, StandsFor(s, r, m), NEW n, NEW size, s.meant[h].base \notin 1..n
  PROVE  Keeps(n, s, Store(s, h, r, m), size)
<1> DEFINE t == Store(s, h, r, m)
<1>1. /\ Good(t) /\ Extends(s, t) /\ ~t.staleRead /\ t.overwritten = {}
      /\ Len(t.code) = Len(s.code) + 1
      /\ t.code[Len(t.code)].op = "store" /\ t.code[Len(t.code)].builder = "f"
      /\ t.content = [a \in Addresses |-> IF a = s.meant[h] THEN m ELSE s.content[a]]
  BY StoreFacts
<1> HIDE DEF t
<1>2. \A a \in Addresses : a.base \in 1..n => t.content[a] = s.content[a]
  BY <1>1
<1> QED
  BY <1>1, <1>2, NextKeeps DEF t

\* Setting an element of an array from which none was read yet.
LEMMA SetItemKeeps ==
  ASSUME NEW s, Good(s), Neat(s), Arm, NEW h, IsArray(s, h), Unindexed(s, h),
         NEW x, IsScalar(s, x), NEW v, IsScalar(s, v), NEW n, NEW size, h \notin 1..n,
         Narrow(size) => Meaning(s, x) # NoWord /\ Meaning(s, x) < s.code[h].y
  PROVE  LET t == SetItem(s, h, x, v)
         IN /\ Keeps(n, s, t, size)
            /\ t.content = [a \in Addresses |-> IF a = Address(h, Meaning(s, x)) THEN Meaning(s, v)
                                                ELSE s.content[a]]
<1> DEFINE q == Read(s, v)
           p == Read(q, x)
           k == Meaning(s, x)
           m == Meaning(s, v)
           o == Operand(p, x)
           i == Put(p, "f", "item", h, o, Address(h, k))
           r == Operand(q, v)
           t == SetItem(s, h, x, v)
<1>1. /\ Keeps(n, s, q, size) /\ Good(q) /\ Neat(q) /\ OnlyReads(s, q) /\ IsScalar(q, x) /\ Meaning(q, x) = k
      /\ \A u : Good(u) /\ Extends(q, u) => StandsFor(u, r, m)
  <2>1. Keeps(n, s, q, size)
    BY ReadKeeps
  <2> QED
    BY <2>1, ReadStands DEF Keeps, Follows
<1>2. IsArray(q, h) /\ q.code[h] = s.code[h]
  BY <1>1, ArrayStays DEF Keeps
<1>3. /\ Keeps(n, q, p, size) /\ Good(p) /\ Neat(p) /\ OnlyReads(q, p) /\ Meaning(p, x) = k
      /\ StandsFor(p, o, k)
  <2> HIDE DEF q, k
  <2>1. Keeps(n, q, p, size)
    BY <1>1, ReadKeeps
  <2> QED
    BY <1>1, <2>1, ReadStands DEF Keeps, Follows
<1>4. IsArray(p, h) /\ p.code[h] = s.code[h]
  BY <1>1, <1>2, <1>3, ArrayStays DEF Keeps
<1>5. t = Store(i, Len(i.code), r, m)
  <2>1. Home(q, h) = "f"
    BY <1>1, <1>2 DEF Home, Neat, IsArray
  <2>2. Item(q, h, x) = i
    BY <1>3, <2>1 DEF Item
  <2> QED
    BY <2>2 DEF SetItem
<1>6. Plus(p, i, "item", h, o, Address(h, k))
  <2>1. At("item", k) = k
    BY DEF At
  <2> HIDE DEF p, o, k
  <2>2. Plus(p, Put(p, "f", "item", h, o, Address(h, At("item", k))), "item", h, o, Address(h, At("item", k)))
    BY <1>3, <1>4, PointerPlus
  <2> QED
    BY <2>1, <2>2
<1> HIDE DEF q, p, o, r, i, t, k, m
<1>7. /\ Good(i) /\ Extends(p, i) /\ i.content = p.content /\ Len(i.code) \in 1..Len(i.code)
      /\ i.code[Len(i.code)].op = "item" /\ i.code[Len(i.code)].x = h
      /\ i.meant[Len(i.code)] = Address(h, k) /\ i.cache[Len(i.code)] = NoReg
  BY <1>3, <1>6, PlusFacts
<1>8. Keeps(n, p, i, size)
  <2>1. Address(h, k).at = k
    BY DEF Address
  <2>2. Narrow(size) => h \in 1..Len(p.code) /\ Address(h, k).at # NoWord /\ Address(h, k).at < p.code[h].y
    BY <1>4, <2>1 DEF IsArray, k
  <2> QED
    BY <1>3, <1>6, <2>2, PlusKeeps
<1>9. Keeps(n, s, i, size)
  BY <1>1, <1>3, <1>8, KeepsTransitive
<1>10. StandsFor(i, r, m)
  <2>1. Extends(q, i)
    BY <1>1, <1>3, <1>7, GoodLen, ExtendsTransitive DEF OnlyReads
  <2> QED
    BY <1>1, <1>7, <2>1
<1>11. Unindexed(i, h) /\ Neat(i)
  BY <1>9, UnindexedStays DEF Keeps, Follows
<1>12. Address(h, k).base = h
  BY DEF Address
<1> DEFINE l == Len(i.code)
<1>13. /\ l \in 1..Len(i.code) /\ i.cache[l] = NoReg /\ i.code[l].op = "item"
       /\ Unindexed(i, i.code[l].x) /\ i.meant[l] = Address(h, k) /\ i.meant[l].base \notin 1..n
  BY <1>7, <1>11, <1>12
<1>14. t = Store(i, l, r, m)
  BY <1>5
<1> HIDE DEF l
<1>15. Keeps(n, i, t, size)
  BY <1>7, <1>10, <1>11, <1>13, <1>14, StoreKeeps
<1>16. t.content = [a \in Addresses |-> IF a = i.meant[l] THEN m ELSE i.content[a]]
  BY <1>7, <1>10, <1>11, <1>13, <1>14, StoreFacts
<1>17. i.content = s.content
  BY <1>1, <1>3, <1>7 DEF OnlyReads
<1>18. Keeps(n, s, t, size)
  BY <1>9, <1>15, KeepsTransitive
<1> QED
  BY <1>13, <1>16, <1>17, <1>18 DEF t, k, m

LEMMA SetElementKeeps ==
  ASSUME NEW s, Good(s), Neat(s), Arm, NEW array, IsArray(s, array), Unindexed(s, array),
         NEW k, Slot(k) \in Words, NEW h, IsScalar(s, h), NEW n, NEW size, array \notin 1..n,
         Narrow(size) => Slot(k) < s.code[array].y
  PROVE  LET t == SetElement(s, array, k, h)
         IN /\ Keeps(n, s, t, size)
            /\ t.content = [a \in Addresses |-> IF a = Address(array, Slot(k)) THEN Meaning(s, h)
                                                ELSE s.content[a]]
<1> DEFINE w == Slot(k)
           i == Put(s, "f", "const", w, NoReg, w)
           x == Len(i.code)
           t == SetElement(s, array, k, h)
<1>1. Plus(s, i, "const", w, NoReg, w)
  BY ConstPlus
<1>2. /\ Good(i) /\ OnlyReads(s, i) /\ Extends(s, i) /\ i.content = s.content
      /\ x \in 1..Len(i.code) /\ i.code[x].op = "const" /\ i.meant[x] = w
      /\ Len(s.code) \in Nat /\ Len(i.code) \in Nat
  BY <1>1, PlusFacts, GoodLen
<1>3. Keeps(n, s, i, size)
  BY <1>1, PlusKeeps
<1>4. t = SetItem(i, array, x, h)
  BY DEF SetElement, Last
<1>5. w \in Words /\ (Narrow(size) => w < s.code[array].y)
  OBVIOUS
<1> HIDE DEF t, x, w, i
<1>6. IsArray(i, array) /\ i.code[array] = s.code[array] /\ Unindexed(i, array) /\ Neat(i)
  <2>1. Unindexed(i, array)
    BY <1>3, UnindexedStays
  <2>2. Follows(n, s, i)
    BY <1>3 DEF Keeps
  <2>3. IsArray(i, array) /\ i.code[array] = s.code[array]
    BY <2>2, ArrayStays
  <2> QED
    BY <2>1, <2>2, <2>3 DEF Follows
<1>7. IsScalar(i, x) /\ Meaning(i, x) = w
  BY <1>2 DEF IsScalar, ScalarOps, Meaning, Variable, Caching
<1>8. IsScalar(i, h) /\ Meaning(i, h) = Meaning(s, h)
  <2>1. h \in 1..Len(s.code)
    BY DEF IsScalar
  <2> QED
    BY <1>2, <2>1, HandlesStay, MeaningStays
<1>9. w # NoWord
  BY <1>5, WordFacts
<1>10. /\ Keeps(n, i, t, size)
       /\ t.content = [a \in Addresses |-> IF a = Address(array, w) THEN Meaning(i, h) ELSE i.content[a]]
  <2>1. Narrow(size) => Meaning(i, x) # NoWord /\ Meaning(i, x) < i.code[array].y
    BY <1>5, <1>6, <1>7, <1>9
  <2>2. LET u == SetItem(i, array, x, h)
        IN /\ Keeps(n, i, u, size)
           /\ u.content = [a \in Addresses |-> IF a = Address(array, Meaning(i, x)) THEN Meaning(i, h)
                                               ELSE i.content[a]]
    BY ONLY Arm, array \notin 1..n, <1>2, <1>6, <1>7, <1>8, <2>1, SetItemKeeps
  <2> QED
    BY <1>4, <1>7, <2>2
<1>11. Keeps(n, s, t, size)
  BY <1>3, <1>10, KeepsTransitive
<1> QED
  BY <1>2, <1>8, <1>10, <1>11 DEF t, w

\* Different elements are at different places.
LEMMA SlotsDiffer ==
  ASSUME NEW j \in Nat \ {0}, NEW k \in Nat \ {0}, j < k
  PROVE  Slot(j) < Slot(k)
<1> DEFINE a == j - 1
           d == k - j
<1>1. a \in Nat /\ d \in Nat \ {0} /\ k - 1 = a + d /\ ElemSize \in Nat \ {0}
  BY ValuesAssumption
<1> HIDE DEF a, d
<1>2. (a + d) * ElemSize = a * ElemSize + d * ElemSize
  BY <1>1
<1>3. d * ElemSize > 0 /\ a * ElemSize \in Nat /\ d * ElemSize \in Nat
  BY <1>1
<1>4. Slot(j) = a * ElemSize /\ Slot(k) = (a + d) * ElemSize
  BY <1>1 DEF Slot, a
<1> QED
  BY <1>2, <1>3, <1>4

\* An array holds the values it is filled with.
FilledUpTo(u, array, s, hs, k) ==
  array \in Registers => \A j \in 1..k : u.content[Address(array, Slot(j))] = Meaning(s, hs[j])

LEMMA FillFacts ==
  ASSUME NEW s, Good(s), Neat(s), Arm, NEW hs, Len(hs) \in Nat,
         \A k \in 1..Len(hs) : IsPlain(s, hs[k]) /\ Slot(k) \in Words
  PROVE  LET v == Fill(s, hs)
         IN /\ Keeps(Len(s.code), s, v.s, Len(hs)) /\ v.h = Len(s.code) + 1
            /\ IsArray(v.s, v.h) /\ v.s.code[v.h].y = Len(hs) /\ Unindexed(v.s, v.h)
            /\ FilledUpTo(v.s, v.h, s, hs, Len(hs))
<1> DEFINE n == Len(s.code)
           z == Put(s, "f", "array", NoReg, Len(hs), Address(Last(s) + 1, 0))
           h == Last(z)
<1>1. n \in Nat /\ Last(s) = n /\ Ordered(s)
  BY GoodLen DEF Last
<1>2. Plus(s, z, "array", NoReg, Len(hs), Address(n + 1, 0))
  BY <1>1, NewPlus
<1>3. /\ Good(z) /\ Extends(s, z) /\ h = n + 1 /\ IsArray(z, h) /\ z.code[h].y = Len(hs)
  BY <1>1, <1>2, PlusFacts DEF Last, IsArray
<1>4. Keeps(n, s, z, Len(hs))
  BY <1>2, PlusKeeps
<1>5. Unindexed(z, h)
  <2>1. \A c \in Elements(s) : z.code[c] = s.code[c] /\ s.code[c].x \in 1..(c - 1) /\ c \in 1..n
    BY <1>1, <1>3 DEF Elements, Extends, Ordered, Fits
  <2> QED
    BY <1>1, <1>3, <1>4, <2>1 DEF Keeps, Unindexed
<1>6. PICK f : Goes(f, "filled", hs, h, z, Len(hs)) /\ Fill(s, hs) = With(f[Len(hs)], h)
  BY FilledSteps
<1>7. /\ f[0] = z
      /\ \A k \in 1..Len(hs) : f[k] = SetElement(f[k - 1], h, k, hs[k])
  BY <1>6 DEF Goes, Onward
<1> HIDE DEF z, h, n
<1> DEFINE J(u, k) == /\ Keeps(n, s, u, Len(hs)) /\ IsArray(u, h) /\ u.code[h].y = Len(hs) /\ Unindexed(u, h)
                      /\ FilledUpTo(u, h, s, hs, k)
<1>8. J(z, 0)
  BY <1>3, <1>4, <1>5 DEF FilledUpTo
<1>9. ASSUME NEW k \in 1..Len(hs), NEW u, J(u, k - 1)
      PROVE  J(SetElement(u, h, k, hs[k]), k)
  <2> DEFINE t == SetElement(u, h, k, hs[k])
  <2>1. Good(u) /\ Neat(u)
    BY <1>9 DEF Keeps, Follows
  <2>2. IsScalar(u, hs[k]) /\ Meaning(u, hs[k]) = Meaning(s, hs[k])
    <3>1. IsPlain(s, hs[k]) /\ hs[k] \in 1..n /\ n <= Len(s.code)
      BY <1>1 DEF IsPlain, n
    <3> QED
      BY <1>1, <1>9, <3>1, PlainStays DEF Keeps
  <2>3. Slot(k) \in Words /\ h \notin 1..n
    BY <1>1, <1>3
  <2>4. Narrow(Len(hs)) => Slot(k) < u.code[h].y
    <3>1. CASE ElemSize = 1
      BY <1>9, <3>1 DEF Slot
    <3>2. CASE ~(Len(hs) > 1)
      <4>1. k = 1 /\ k - 1 = 0 /\ Len(hs) = 1
        BY <3>2
      <4>1a. 0 * ElemSize = 0
        BY ValuesAssumption
      <4>2. Slot(k) = 0
        BY <4>1, <4>1a DEF Slot
      <4> QED
        BY <1>9, <4>1, <4>2
    <3> QED
      BY <3>1, <3>2, ValuesAssumption DEF Narrow
  <2>5. /\ Keeps(n, u, t, Len(hs))
        /\ t.content = [a \in Addresses |-> IF a = Address(h, Slot(k)) THEN Meaning(u, hs[k])
                                            ELSE u.content[a]]
    BY <1>9, <2>1, <2>2, <2>3, <2>4, SetElementKeeps
  <2> HIDE DEF t
  <2>6. Keeps(n, s, t, Len(hs))
    BY <1>9, <2>5, KeepsTransitive
  <2>7. IsArray(t, h) /\ t.code[h].y = Len(hs) /\ Unindexed(t, h)
    <3>1. Unindexed(t, h)
      BY <1>9, <2>5, UnindexedStays
    <3>2. Follows(n, u, t)
      BY <2>5 DEF Keeps
    <3> QED
      BY <1>9, <2>1, <3>1, <3>2, ArrayStays
  <2>8. ASSUME h \in Registers, NEW j \in 1..k
        PROVE  t.content[Address(h, Slot(j))] = Meaning(s, hs[j])
    <3>1. Slot(j) \in Words
      OBVIOUS
    <3>2. Address(h, Slot(j)) \in Addresses
      BY <2>8, <3>1 DEF Address, Addresses
    <3>3. CASE j = k
      BY <2>2, <2>5, <3>2, <3>3
    <3>4. CASE j # k
      <4>1. j \in Nat \ {0} /\ k \in Nat \ {0} /\ j < k /\ j \in 1..(k - 1)
        BY <3>4
      <4>2. Slot(j) < Slot(k) /\ Slot(j) \in Nat /\ Slot(k) \in Nat
        BY <2>3, <3>1, <4>1, SlotsDiffer, WordFacts
      <4>3. Address(h, Slot(j)) # Address(h, Slot(k))
        <5>1. Address(h, Slot(j)).at # Address(h, Slot(k)).at
          BY <4>2 DEF Address
        <5> QED
          BY <5>1
      <4>4. u.content[Address(h, Slot(j))] = Meaning(s, hs[j])
        BY <1>9, <2>8, <4>1 DEF FilledUpTo
      <4> QED
        BY <2>5, <3>2, <4>3, <4>4
    <3> QED
      BY <3>3, <3>4
  <2> QED
    BY <2>6, <2>7, <2>8 DEF FilledUpTo, t
<1> DEFINE Bad == {k \in 0..Len(hs) : ~J(f[k], k)}
<1>10. Bad = {}
  <2> SUFFICES ASSUME Bad # {} PROVE FALSE
    OBVIOUS
  <2>1. Bad \subseteq Nat
    OBVIOUS
  <2>2. PICK m \in Bad : \A k \in Bad : m <= k
    <3> HIDE DEF Bad
    <3> QED
      BY <2>1, Least
  <2>3. m \in 0..Len(hs) /\ ~J(f[m], m)
    OBVIOUS
  <2>4. m # 0
    BY <1>7, <1>8, <2>3
  <2>5. m \in 1..Len(hs) /\ m - 1 \in 0..Len(hs) /\ ~(m <= m - 1)
    BY <2>3, <2>4
  <2>6. J(f[m - 1], m - 1)
    BY <2>2, <2>5
  <2> HIDE DEF J, Bad
  <2>7. J(SetElement(f[m - 1], h, m, hs[m]), m)
    BY <1>9, <2>5, <2>6 DEF J
  <2> QED
    BY <1>7, <2>3, <2>5, <2>7
<1>11. J(f[Len(hs)], Len(hs))
  BY <1>10
<1> QED
  BY <1>3, <1>6, <1>11 DEF With, n

-----------------------------------------------------------------------------
(* Visiting atoms and arrays. *)

\* An atom that may be visited.
Declared(a) == a \in AtomShapes /\ (a.kind = "id" => env[a.name] # NoReg)

LEMMA AtomCases ==
  ASSUME NEW a, Declared(a)
  PROVE  \/ a.kind = "int" /\ a.word \in Words
         \/ a.kind = "id" /\ a.name \in Names /\ env[a.name] # NoReg
BY DEF Declared, AtomShapes

LEMMA NamedStays ==
  ASSUME NEW s, NEW t, Good(s), Good(t), Extends(s, t), Named(s)
  PROVE  Named(t)
<1>1. Len(s.code) \in Nat /\ Len(t.code) \in Nat
  BY GoodLen
<1> SUFFICES ASSUME NEW n \in Names
             PROVE  /\ env[n] \in 0..Len(t.code)
                    /\ env[n] # NoReg => /\ t.code[env[n]].op \in {"const", "stack"}
                                         /\ \A m \in Names : env[m] = env[n] => m = n
  BY DEF Named
<1>2. env[n] \in 0..Len(s.code) /\ Len(s.code) <= Len(t.code)
  BY DEF Named, Extends
<1>3. ASSUME env[n] # NoReg
      PROVE  /\ t.code[env[n]].op \in {"const", "stack"}
             /\ \A m \in Names : env[m] = env[n] => m = n
  <2>1. env[n] \in 1..Len(s.code)
    BY <1>1, <1>2, <1>3 DEF NoReg
  <2>2. t.code[env[n]] = s.code[env[n]]
    BY <2>1 DEF Extends
  <2> QED
    BY <1>3, <2>2 DEF Named
<1> QED
  BY <1>1, <1>2, <1>3

LEMMA NamePlain ==
  ASSUME NEW s, Good(s), Named(s), NEW n \in Names, env[n] # NoReg
  PROVE  IsPlain(s, env[n]) /\ env[n] \in 1..Len(s.code)
<1>1. Len(s.code) \in Nat
  BY GoodLen
<1> QED
  BY <1>1 DEF Named, IsPlain, NoReg

LEMMA DenotesStays ==
  ASSUME NEW s, NEW t, Good(s), Follows(Len(s.code), s, t), Named(s), Denotes(s)
  PROVE  Denotes(t)
<1>1. Len(s.code) \in Nat
  BY GoodLen
<1> SUFFICES ASSUME NEW n \in Names, env[n] # NoReg PROVE src[n] \in Words /\ Meaning(t, env[n]) = src[n]
  BY DEF Denotes
<1>2. IsPlain(s, env[n]) /\ env[n] \in 1..Len(s.code)
  BY NamePlain
<1>3. Meaning(t, env[n]) = Meaning(s, env[n])
  BY <1>1, <1>2, PlainStays
<1> QED
  BY <1>3 DEF Denotes

LEMMA ValueIsWord ==
  ASSUME NEW s, Denotes(s), NEW a, Declared(a)
  PROVE  Value(a) \in Words
BY AtomCases DEF Value, Denotes

LEMMA VisitAtomKeeps ==
  ASSUME NEW s, Good(s), Neat(s), Arm, Named(s), NEW a, Declared(a), NEW n, NEW size
  PROVE  LET v == VisitAtom(s, a)
         IN /\ Keeps(n, s, v.s, size) /\ IsPlain(v.s, v.h) /\ IsScalar(v.s, v.h)
            /\ Denotes(s) => Meaning(v.s, v.h) = Value(a)
<1> DEFINE v == VisitAtom(s, a)
<1>1. CASE a.kind = "int" /\ a.word \in Words
  <2> DEFINE w == a.word
             t == Put(s, "f", "const", w, NoReg, w)
  <2>1. Plus(s, t, "const", w, NoReg, w)
    BY <1>1, ConstPlus
  <2>2. Keeps(n, s, t, size)
    BY <2>1, PlusKeeps
  <2>3. /\ Len(t.code) \in 1..Len(t.code) /\ t.code[Len(t.code)].op = "const"
        /\ t.meant[Len(t.code)] = w
    BY <2>1, PlusFacts
  <2>4. v = With(t, Last(t)) /\ Value(a) = w
    BY <1>1 DEF VisitAtom, Value
  <2> HIDE DEF t, v, w
  <2>5. v.s = t /\ v.h = Len(t.code)
    BY <2>4 DEF With, Last
  <2>6. IsPlain(t, Len(t.code)) /\ IsScalar(t, Len(t.code)) /\ Meaning(t, Len(t.code)) = w
    BY <2>3 DEF IsPlain, IsScalar, ScalarOps, Meaning, Variable, Caching
  <2> QED
    BY <2>2, <2>4, <2>5, <2>6 DEF v
<1>2. CASE a.kind = "id" /\ a.name \in Names /\ env[a.name] # NoReg
  <2>1. v = With(s, env[a.name]) /\ Value(a) = src[a.name]
    BY <1>2 DEF VisitAtom, Value
  <2> HIDE DEF v
  <2>2. v.s = s /\ v.h = env[a.name]
    BY <2>1 DEF With
  <2>3. IsPlain(s, v.h)
    BY <1>2, <2>2, NamePlain
  <2>4. IsScalar(s, v.h)
    BY <2>3 DEF IsPlain, IsScalar, ScalarOps, Variable, Caching
  <2>5. Keeps(n, s, s, size)
    BY KeepsItself
  <2>6. Denotes(s) => Meaning(s, v.h) = Value(a)
    BY <1>2, <2>1, <2>2 DEF Denotes
  <2> QED
    BY <2>2, <2>3, <2>4, <2>5, <2>6 DEF v
<1> QED
  BY <1>1, <1>2, AtomCases

\* The handles of the first k elements, and their values.
Visited(s, x, es, k) ==
  /\ Keeps(Len(s.code), s, x.s, Len(es)) /\ x.hs \in Seq(Nat) /\ Len(x.hs) = k
  /\ \A j \in 1..k : /\ IsPlain(x.s, x.hs[j])
                     /\ Denotes(s) => Meaning(x.s, x.hs[j]) = Value(es[j])

LEMMA VisitNextVisits ==
  ASSUME NEW s, Good(s), Neat(s), Arm, Named(s), NEW es, NEW k \in Nat \ {0}, Declared(es[k]),
         NEW x, Visited(s, x, es, k - 1)
  PROVE  Visited(s, VisitNext(x, es[k]), es, k)
<1> DEFINE v == VisitAtom(x.s, es[k])
           y == VisitNext(x, es[k])
           n == Len(s.code)
<1>1. n \in Nat
  BY GoodLen
<1>2. Keeps(n, s, x.s, Len(es)) /\ Follows(n, s, x.s) /\ Good(x.s) /\ Neat(x.s) /\ Extends(s, x.s)
  BY DEF Visited, Keeps, Follows
<1>3. Len(x.s.code) \in Nat /\ Named(x.s)
  BY <1>2, GoodLen, NamedStays
<1>4. /\ Keeps(n, x.s, v.s, Len(es)) /\ Keeps(Len(x.s.code), x.s, v.s, Len(es)) /\ IsPlain(v.s, v.h)
      /\ Denotes(x.s) => Meaning(v.s, v.h) = Value(es[k])
  BY <1>2, <1>3, VisitAtomKeeps
<1>5. Denotes(s) => Denotes(x.s)
  BY <1>2, DenotesStays
<1>6. y.s = v.s /\ y.hs = Append(x.hs, v.h)
  BY DEF VisitNext
<1>7. x.hs \in Seq(Nat) /\ Len(x.hs) = k - 1
  BY DEF Visited
<1> HIDE DEF v, y, n
<1>8. Keeps(n, s, y.s, Len(es))
  BY <1>2, <1>4, <1>6, KeepsTransitive
<1>9. v.h \in Nat
  <2>1. Len(v.s.code) \in Nat
    BY <1>4, GoodLen DEF Keeps, Follows
  <2> QED
    BY <1>4, <2>1 DEF IsPlain
<1>10. /\ y.hs \in Seq(Nat) /\ Len(y.hs) = k /\ y.hs[k] = v.h
       /\ \A j \in 1..(k - 1) : y.hs[j] = x.hs[j]
  BY <1>6, <1>7, <1>9
<1>11. ASSUME NEW j \in 1..k
       PROVE  /\ IsPlain(y.s, y.hs[j])
              /\ Denotes(s) => Meaning(y.s, y.hs[j]) = Value(es[j])
  <2>1. CASE j = k
    BY <1>4, <1>5, <1>6, <1>10, <2>1
  <2>2. CASE j # k
    <3>1. j \in 1..(k - 1) /\ y.hs[j] = x.hs[j]
      BY <1>10, <2>2
    <3>2. IsPlain(x.s, x.hs[j]) /\ (Denotes(s) => Meaning(x.s, x.hs[j]) = Value(es[j]))
      BY <3>1 DEF Visited
    <3>3. x.hs[j] \in 1..Len(x.s.code) /\ Len(x.s.code) <= Len(x.s.code)
      BY <1>3, <3>2 DEF IsPlain
    <3>4. Follows(Len(x.s.code), x.s, v.s)
      BY <1>4 DEF Keeps
    <3>5. IsPlain(v.s, x.hs[j]) /\ Meaning(v.s, x.hs[j]) = Meaning(x.s, x.hs[j])
      BY <1>2, <1>3, <3>2, <3>3, <3>4, PlainStays
    <3> QED
      BY <1>6, <3>1, <3>2, <3>5
  <2> QED
    BY <2>1, <2>2
<1> QED
  BY <1>8, <1>10, <1>11 DEF Visited, y, n

LEMMA VisitArrayFacts ==
  ASSUME NEW s, Good(s), Neat(s), Arm, Named(s), NEW es, Len(es) \in Nat,
         \A k \in 1..Len(es) : Declared(es[k]) /\ Slot(k) \in Words
  PROVE  LET v == VisitArrayInitializer(s, es)
         IN /\ Keeps(Len(s.code), s, v.s, Len(es)) /\ IsArray(v.s, v.h) /\ v.h > Len(s.code)
            /\ v.s.code[v.h].y = Len(es) /\ Unindexed(v.s, v.h)
            /\ Denotes(s) /\ v.h \in Registers =>
                 \A k \in 1..Len(es) : v.s.content[Address(v.h, Slot(k))] = Value(es[k])
<1> DEFINE n == Len(s.code)
           N == Len(es)
           z == [s |-> s, hs |-> <<>>]
           v == VisitArrayInitializer(s, es)
<1>1. PICK f : Goes(f, "visited", es, 0, z, N) /\ v = Fill(f[N].s, f[N].hs)
  BY VisitedSteps
<1>2. f[0] = z /\ \A k \in 1..N : f[k] = VisitNext(f[k - 1], es[k])
  BY <1>1 DEF Goes, Onward
<1>3. n \in Nat
  BY GoodLen
<1>4. Visited(s, z, es, 0)
  <2>1. Keeps(n, s, s, Len(es))
    BY KeepsItself
  <2>2. <<>> \in Seq(Nat) /\ Len(<<>>) = 0
    OBVIOUS
  <2> QED
    BY <2>1, <2>2 DEF Visited
<1> HIDE DEF z, v, n
<1> DEFINE Bad == {k \in 0..N : ~Visited(s, f[k], es, k)}
<1>5. Bad = {}
  <2> SUFFICES ASSUME Bad # {} PROVE FALSE
    OBVIOUS
  <2>1. Bad \subseteq Nat
    OBVIOUS
  <2>2. PICK m \in Bad : \A k \in Bad : m <= k
    <3> HIDE DEF Bad
    <3> QED
      BY <2>1, Least
  <2>3. m \in 0..N /\ ~Visited(s, f[m], es, m)
    OBVIOUS
  <2>4. m # 0
    BY <1>2, <1>4, <2>3
  <2>5. m \in 1..N /\ m \in Nat \ {0} /\ m - 1 \in 0..N /\ ~(m <= m - 1)
    BY <2>3, <2>4
  <2>6. Visited(s, f[m - 1], es, m - 1)
    BY <2>2, <2>5
  <2>7. Visited(s, VisitNext(f[m - 1], es[m]), es, m)
    BY <2>5, <2>6, VisitNextVisits
  <2> QED
    BY <1>2, <2>3, <2>5, <2>7
<1>6. Visited(s, f[N], es, N)
  BY <1>5
<1> DEFINE t == f[N].s
           hs == f[N].hs
           m == Len(t.code)
<1>7. /\ Keeps(n, s, t, Len(es)) /\ Good(t) /\ Neat(t) /\ Len(hs) = N
      /\ \A k \in 1..N : /\ IsPlain(t, hs[k])
                         /\ Denotes(s) => Meaning(t, hs[k]) = Value(es[k])
  BY <1>6 DEF Visited, Keeps, Follows, n
<1>8. v = Fill(t, hs)
  BY <1>1
<1> HIDE DEF t, hs, N
<1>9. m \in Nat /\ n \in 0..m
  <2>1. m \in Nat
    BY <1>7, GoodLen
  <2>2. n <= m
    BY <1>7 DEF Keeps, Follows, Extends, n
  <2> QED
    BY <1>3, <2>1, <2>2
<1>10. /\ Keeps(m, t, v.s, Len(es)) /\ v.h = m + 1 /\ IsArray(v.s, v.h) /\ v.s.code[v.h].y = N
       /\ Unindexed(v.s, v.h) /\ FilledUpTo(v.s, v.h, t, hs, N)
  <2>1. Len(hs) \in Nat /\ \A k \in 1..Len(hs) : IsPlain(t, hs[k]) /\ Slot(k) \in Words
    BY <1>7 DEF N
  <2>2. LET u == Fill(t, hs)
        IN /\ Keeps(Len(t.code), t, u.s, Len(hs)) /\ u.h = Len(t.code) + 1
           /\ IsArray(u.s, u.h) /\ u.s.code[u.h].y = Len(hs) /\ Unindexed(u.s, u.h)
           /\ FilledUpTo(u.s, u.h, t, hs, Len(hs))
    BY ONLY Arm, <1>7, <2>1, FillFacts
  <2> QED
    BY <1>7, <1>8, <2>2 DEF N
<1>11. Keeps(n, t, v.s, Len(es))
  BY <1>9, <1>10, KeepsFewer
<1>12. Keeps(n, s, v.s, Len(es)) /\ v.h > n
  BY <1>3, <1>7, <1>9, <1>10, <1>11, KeepsTransitive
<1>13. Denotes(s) /\ v.h \in Registers =>
         \A k \in 1..N : v.s.content[Address(v.h, Slot(k))] = Value(es[k])
  BY <1>7, <1>10 DEF FilledUpTo
<1> QED
  BY <1>10, <1>12, <1>13 DEF v, n, N

-----------------------------------------------------------------------------
(* Visiting expressions. *)

\* One more instruction, of any kind.
LEMMA NextFollows ==
  ASSUME NEW s, NEW t, NEW n, Good(s), Neat(s), NEW op, NEW x, NEW y, NEW m, Plus(s, t, op, x, y, m),
         op = "element" => Unindexed(s, x)
  PROVE  Follows(n, s, t)
<1>1. /\ Good(t) /\ Extends(s, t) /\ t.staleRead = s.staleRead /\ t.content = s.content
      /\ t.overwritten = s.overwritten /\ Len(s.code) \in Nat /\ Len(t.code) = Len(s.code) + 1
      /\ t.code[Len(t.code)].builder = "f" /\ t.code[Len(t.code)].op = op
      /\ t.code[Len(t.code)].x = x
  BY PlusFacts
<1>2. \A i \in 1..Len(t.code) : i = Len(t.code) \/ i \in 1..Len(s.code)
  BY <1>1
<1>3. \A i \in 1..Len(s.code) : t.code[i] = s.code[i]
  BY <1>1 DEF Extends
<1>4. \A i \in 1..Len(t.code) : t.code[i].builder = "f"
  BY <1>1, <1>2, <1>3 DEF Neat
<1>5. \A c \in Elements(t) : (c \in Elements(s) /\ t.code[c] = s.code[c]) \/ (c = Len(t.code) /\ op = "element")
  <2> SUFFICES ASSUME NEW c \in 1..Len(t.code), t.code[c].op = "element"
               PROVE  (c \in Elements(s) /\ t.code[c] = s.code[c]) \/ (c = Len(t.code) /\ op = "element")
    BY DEF Elements
  <2>1. CASE c = Len(t.code)
    BY <1>1, <2>1
  <2>2. CASE c # Len(t.code)
    BY <1>2, <1>3, <2>2 DEF Elements
  <2> QED
    BY <2>1, <2>2
<1>6. \A c, d \in Elements(t) : t.code[c].x = t.code[d].x => c = d
  <2> SUFFICES ASSUME NEW c \in Elements(t), NEW d \in Elements(t), t.code[c].x = t.code[d].x
               PROVE  c = d
    OBVIOUS
  <2>1. CASE c \in Elements(s) /\ t.code[c] = s.code[c] /\ d \in Elements(s) /\ t.code[d] = s.code[d]
    BY <2>1 DEF Neat
  <2>2. CASE c = Len(t.code) /\ d = Len(t.code)
    BY <2>2
  <2>3. CASE c \in Elements(s) /\ t.code[c] = s.code[c] /\ d = Len(t.code) /\ op = "element"
    BY <1>1, <2>3 DEF Unindexed
  <2>4. CASE d \in Elements(s) /\ t.code[d] = s.code[d] /\ c = Len(t.code) /\ op = "element"
    BY <1>1, <2>4 DEF Unindexed
  <2> QED
    BY <1>5, <2>1, <2>2, <2>3, <2>4
<1>7. Neat(t)
  BY <1>1, <1>4, <1>6 DEF Neat
<1> QED
  BY <1>1, <1>7 DEF Follows

\* A call or a return says what its operand means.
Outcome(op, m) == IF op = "call" THEN Answer(m) ELSE m
Using(s, h, op) ==
  LET r == Read(s, h) IN Put(r, "f", op, Operand(r, h), NoReg, Outcome(op, Meaning(r, h)))
LEMMA UseFollows ==
  ASSUME NEW s, Good(s), Neat(s), Arm, NEW h, IsScalar(s, h), NEW op \in {"call", "ret"}
  PROVE  LET t == Using(s, h, op)
         IN /\ \A n : Follows(n, s, t)
            /\ t.content = s.content
            /\ Talked(t) = Talked(s) \o <<Says(op, Meaning(s, h))>>
            /\ Bounded(s) => Bounded(t)
            /\ Len(t.code) \in 1..Len(t.code) /\ t.code[Len(t.code)].op = op
            /\ t.meant[Len(t.code)] = Outcome(op, Meaning(s, h))
<1> DEFINE r == Read(s, h)
           m == Meaning(r, h)
           o == Operand(r, h)
           v == Outcome(op, m)
           t == Using(s, h, op)
<1>1. /\ (\A n : Keeps(n, s, r, 1)) /\ Good(r) /\ Neat(r) /\ OnlyReads(s, r) /\ m = Meaning(s, h)
      /\ StandsFor(r, o, m)
  <2>1. \A n : Keeps(n, s, r, 1)
    BY ReadKeeps
  <2> QED
    BY <2>1, ReadStands DEF Keeps, Follows
<1> HIDE DEF r, m, o
<1>2. Plus(r, t, op, o, NoReg, v)
  <2>1. LET w == IF op = "call" THEN Answer(m) ELSE m
        IN Plus(r, Put(r, "f", op, o, NoReg, w), op, o, NoReg, w)
    BY ONLY Arm, op \in {"call", "ret"}, <1>1, UsePlus
  <2>2. t = Put(r, "f", op, o, NoReg, v)
    BY DEF Using, r, o, m
  <2> QED
    BY <2>1, <2>2 DEF Outcome
<1> HIDE DEF v, t
<1>3. /\ Good(t) /\ Extends(r, t) /\ t.content = r.content /\ Len(r.code) \in Nat
      /\ Len(t.code) = Len(r.code) + 1 /\ Len(t.code) \in 1..Len(t.code)
      /\ t.code[Len(t.code)].op = op /\ t.code[Len(t.code)].x = o
      /\ t.meant[Len(t.code)] = v
  BY ONLY <1>1, <1>2, PlusFacts
<1>4. \A n : Follows(n, r, t)
  BY <1>1, <1>2, NextFollows
<1>5. \A n : Follows(n, s, t)
  BY <1>1, <1>4, FollowsTransitive DEF Keeps
<1>6. r.meant[o] = m /\ o \in 1..Len(r.code)
  BY <1>1 DEF StandsFor, Neat
<1>7. t.meant[o] = m
  BY <1>3, <1>6 DEF Extends
<1>8. Talk(t.code[Len(t.code)], t.meant) = <<Says(op, m)>>
  BY <1>3, <1>7 DEF Talk
<1>9. Talked(t) = Talked(r) \o <<Says(op, m)>>
  BY <1>1, <1>3, <1>8, TalkedNext
<1>10. Talked(r) = Talked(s) /\ (Bounded(s) => Bounded(r))
  BY <1>1, OneIsNarrow DEF Keeps
<1>11. Bounded(r) => Bounded(t)
  BY <1>1, <1>3, BoundedNext
<1> QED
  BY <1>1, <1>3, <1>5, <1>9, <1>10, <1>11 DEF OnlyReads, v, t

LEMMA BinaryFollows ==
  ASSUME NEW s, Good(s), Neat(s), Arm, NEW op \in Arithmetic, NEW a, IsScalar(s, a), NEW b, IsScalar(s, b), NEW n
  PROVE  LET t == Binary(s, op, a, b)
         IN /\ Keeps(n, s, t, 1)
            /\ Len(t.code) \in 1..Len(t.code) /\ t.code[Len(t.code)].op = op
            /\ t.meant[Len(t.code)] = Apply(op, Meaning(s, a), Meaning(s, b))
<1> DEFINE p == Read(s, a)
           q == Read(p, b)
           k == Meaning(s, a)
           m == Meaning(s, b)
           o == Operand(p, a)
           r == Operand(q, b)
           t == Binary(s, op, a, b)
<1>1. /\ Keeps(n, s, p, 1) /\ Good(p) /\ Neat(p) /\ IsScalar(p, b) /\ Meaning(p, b) = m
      /\ \A u : Good(u) /\ Extends(p, u) => StandsFor(u, o, k)
  <2>1. Keeps(n, s, p, 1)
    BY ReadKeeps
  <2> QED
    BY <2>1, ReadStands DEF Keeps, Follows
<1>2. /\ Keeps(n, p, q, 1) /\ Good(q) /\ Neat(q) /\ Extends(p, q) /\ StandsFor(q, r, m)
  <2> HIDE DEF p, m
  <2>1. Keeps(n, p, q, 1)
    BY <1>1, ReadKeeps
  <2> QED
    BY <1>1, <2>1, ReadStands DEF Keeps, Follows
<1>3. t = Put(q, "f", op, o, r, Apply(op, k, m))
  <2>1. Home(s, a) = "f"
    BY DEF Home, Neat, IsScalar
  <2> QED
    BY <2>1 DEF Binary
<1> HIDE DEF p, q, k, m, o, r, t
<1>4. StandsFor(q, o, k)
  BY <1>1, <1>2
<1>5. Plus(q, t, op, o, r, Apply(op, k, m))
  BY <1>2, <1>3, <1>4, BinaryPlus
<1>6. Keeps(n, q, t, 1)
  BY <1>2, <1>5, PlusKeeps
<1>7. Keeps(n, p, t, 1)
  BY <1>1, <1>2, <1>6, KeepsTransitive
<1>8. Keeps(n, s, t, 1)
  BY <1>1, <1>7, KeepsTransitive
<1>9. /\ Len(t.code) \in 1..Len(t.code) /\ t.code[Len(t.code)].op = op
      /\ t.meant[Len(t.code)] = Apply(op, k, m)
  BY <1>2, <1>5, PlusFacts
<1> QED
  BY <1>8, <1>9 DEF t, k, m

\* The value read from an array is one of its own.
LEMMA ElementFollows ==
  ASSUME NEW s, Good(s), Neat(s), Arm, NEW h, IsArray(s, h), Unindexed(s, h),
         NEW x, IsScalar(s, x), NEW n
  PROVE  LET t == Element(s, h, x)
             k == Meaning(s, x)
         IN /\ Follows(n, s, t) /\ t.content = s.content /\ Talked(t) = Talked(s)
            /\ Narrow(s.code[h].y) /\ Bounded(s) /\ k \in Nat /\ k < s.code[h].y => Bounded(t)
            /\ Len(t.code) \in 1..Len(t.code) /\ t.code[Len(t.code)].op = "element"
            /\ t.meant[Len(t.code)] = Address(h, At("element", k))
<1> DEFINE r == Read(s, x)
           k == Meaning(s, x)
           o == Operand(r, x)
           m == Address(h, At("element", k))
           t == Element(s, h, x)
<1>1. /\ Keeps(n, s, r, 1) /\ Good(r) /\ Neat(r) /\ OnlyReads(s, r) /\ Meaning(r, x) = k
      /\ StandsFor(r, o, k)
  <2>1. Keeps(n, s, r, 1)
    BY ReadKeeps
  <2> QED
    BY <2>1, ReadStands DEF Keeps, Follows
<1>2. IsArray(r, h) /\ r.code[h] = s.code[h] /\ Unindexed(r, h)
  BY <1>1, ArrayStays, UnindexedStays DEF Keeps
<1>3. t = Put(r, "f", "element", h, o, m)
  <2>1. Home(s, h) = "f"
    BY DEF Home, Neat, IsArray
  <2> QED
    BY <1>1, <2>1 DEF Element, At
<1> HIDE DEF r, k, o, t
<1>4. Plus(r, t, "element", h, o, m)
  BY <1>1, <1>2, <1>3, PointerPlus
<1>5. m.at = At("element", k)
  BY DEF Address
<1> HIDE DEF m
<1>6. /\ Good(t) /\ Extends(r, t) /\ t.content = r.content /\ Len(r.code) \in Nat
      /\ Len(t.code) = Len(r.code) + 1 /\ Len(t.code) \in 1..Len(t.code)
      /\ t.code[Len(t.code)].op = "element" /\ t.code[Len(t.code)].x = h
      /\ t.meant[Len(t.code)] = m
  BY <1>1, <1>4, PlusFacts
<1>7. Follows(n, r, t)
  BY <1>1, <1>2, <1>4, NextFollows
<1>8. Follows(n, s, t)
  BY <1>1, <1>7, FollowsTransitive DEF Keeps
<1>9. Talked(t) = Talked(r) /\ Talked(r) = Talked(s)
  BY <1>1, <1>6, TalkedNext DEF Keeps
<1>10. ASSUME Narrow(s.code[h].y), Bounded(s), k \in Nat, k < s.code[h].y PROVE Bounded(t)
  <2>1. Bounded(r)
    BY <1>1, <1>10, OneIsNarrow DEF Keeps
  <2>2. m.at < s.code[h].y /\ m.at # NoWord
    <3>1. m.at = ElemSize * k /\ ElemSize \in Nat /\ ElemSize * k \in Nat
      BY <1>5, <1>10, ValuesAssumption DEF At
    <3>2. CASE ElemSize = 1
      BY <1>10, <3>1, <3>2, ValuesAssumption
    <3>3. CASE ~(s.code[h].y > 1)
      <4>0. s.code[h].y \in Nat
        <5>1. s.code \in Seq(Instructions) /\ h \in 1..Len(s.code)
          BY DEF Good, Typed, IsArray
        <5>2. s.code[h] \in Instructions
          BY <5>1
        <5> QED
          BY <5>2 DEF Instructions
      <4>1. k = 0 /\ ElemSize * 0 = 0
        BY <1>10, <3>1, <3>3, <4>0
      <4> QED
        BY <1>10, <3>1, <4>1, ValuesAssumption
    <3> QED
      BY <1>10, <3>1, <3>2, <3>3, ValuesAssumption DEF Narrow
  <2>3. h \in 1..Len(r.code)
    BY <1>2 DEF IsArray
  <2> QED
    BY <1>1, <1>2, <1>6, <1>10, <2>1, <2>2, <2>3, BoundedNext
<1> QED
  BY <1>1, <1>6, <1>8, <1>9, <1>10 DEF OnlyReads, t, k, m

\* The shape of an expression whose visit throws nothing.
Sound(e) ==
  /\ e.kind \in {"int", "id", "op", "call", "element"}
  /\ e.kind \in {"int", "id"} => Declared(e)
  /\ e.kind = "op" => Declared(e.lhs) /\ Declared(e.rhs) /\ e.op \in Operators
  /\ e.kind = "call" => Declared(e.arg)
  /\ e.kind = "element" =>
       /\ Declared(e.index) /\ Len(e.elements) \in Nat
       /\ \A k \in 1..Len(e.elements) : Declared(e.elements[k]) /\ Slot(k) \in Words

LEMMA FaultlessIsSound ==
  ASSUME NEW e \in Expressions, Faults(e) = {}
  PROVE  Sound(e)
<1>1. \A a \in Atoms(e) : a.kind = "id" => env[a.name] # NoReg
  <2> SUFFICES ASSUME NEW a \in Atoms(e), a.kind = "id", env[a.name] = NoReg PROVE FALSE
    OBVIOUS
  <2>1. a \in {x \in Atoms(e) : x.kind = "id" /\ env[x.name] = NoReg}
    OBVIOUS
  <2>2. "not declared" \in {"not declared" : b \in {x \in Atoms(e) : x.kind = "id" /\ env[x.name] = NoReg}}
    BY <2>1
  <2>3. "not declared" \in Faults(e)
    BY <2>2 DEF Faults
  <2> QED
    BY <2>3
<1>2. e.kind # "other"
  BY DEF Faults
<1>3. e \in Shapes
  BY ToyAssumption
<1>4. CASE e \in AtomShapes
  <2>1. e.kind \in {"int", "id"}
    BY <1>4 DEF AtomShapes
  <2>2. Declared(e)
    BY <1>1, <1>4, <2>1 DEF Atoms, Declared
  <2> QED
    BY <2>1, <2>2 DEF Sound
<1>5. CASE e \in [kind : {"op"}, op : Operators, lhs : AtomShapes, rhs : AtomShapes]
  <2>1. Declared(e.lhs) /\ Declared(e.rhs) /\ e.kind = "op" /\ e.op \in Operators
    BY <1>1, <1>5 DEF Atoms, Declared
  <2> QED
    BY <2>1 DEF Sound
<1>6. CASE e \in [kind : {"call"}, function : Functions, arg : AtomShapes]
  <2>1. Declared(e.arg) /\ e.kind = "call"
    BY <1>1, <1>6 DEF Atoms, Declared
  <2> QED
    BY <2>1 DEF Sound
<1>7. CASE e \in [kind : {"element"}, elements : Seq(AtomShapes), index : AtomShapes]
  <2>1. e.kind = "element" /\ e.elements \in Seq(AtomShapes) /\ e.index \in AtomShapes
    BY <1>7
  <2>2. DOMAIN e.elements = 1..Len(e.elements) /\ Len(e.elements) \in Nat
    BY <2>1
  <2>3. Atoms(e) = {e.index} \cup {e.elements[k] : k \in DOMAIN e.elements}
    BY <2>1 DEF Atoms
  <2>4. Declared(e.index)
    BY <1>1, <2>1, <2>3 DEF Declared
  <2>5. \A k \in 1..Len(e.elements) : Declared(e.elements[k])
    BY <1>1, <2>1, <2>2, <2>3 DEF Declared
  <2>6. \A k \in 1..Len(e.elements) : Slot(k) \in Words
    BY <2>1, <2>2, ToyAssumption DEF Slot
  <2> QED
    BY <2>1, <2>2, <2>4, <2>5, <2>6 DEF Sound
<1> QED
  BY <1>2, <1>3, <1>4, <1>5, <1>6, <1>7 DEF Shapes, Other

\* An expression that has a meaning and is not known to be compiled wrongly.
Fine(e) == ~Unfaithful(e) /\ (e.kind = "element" => Within(e))

\* v is what visiting e makes of s.
Computes(s, e, v) ==
  /\ Follows(Len(s.code), s, v.s) /\ IsScalar(v.s, v.h)
  /\ v.s.code[v.h].op \in Caching /\ e.kind # "element" => e.kind = "id"
  /\ e.kind = "id" => v.s = s /\ v.h = env[e.name] /\ e.name \in Names /\ env[e.name] # NoReg
  /\ e.kind = "element" => v.s.code[v.h].op = "element" /\ v.s.meant[v.h].base \notin 1..Len(s.code)
  /\ Denotes(s) => Talked(v.s) = Talked(s) \o Effects(e)
  /\ Denotes(s) /\ Fine(e) =>
       /\ Eval(e) \in Words
       /\ Len(v.s.code) <= MaxCode => Meaning(v.s, v.h) = Eval(e)
       /\ Bounded(s) => Bounded(v.s)

LEMMA SaysNothing ==
  ASSUME NEW s, Good(s)
  PROVE  Talked(s) = Talked(s) \o <<>>
<1>1. PICK S : Talked(s) \in Seq(S)
  BY GoodLen, SpokenIsSequence DEF Talked
<1> QED
  BY <1>1

LEMMA AtomComputes ==
  ASSUME NEW s, Good(s), Neat(s), Arm, Named(s), NEW a, Declared(a)
  PROVE  Computes(s, a, VisitAtom(s, a))
<1> DEFINE v == VisitAtom(s, a)
<1>1. /\ Keeps(Len(s.code), s, v.s, 1) /\ IsScalar(v.s, v.h)
      /\ Denotes(s) => Meaning(v.s, v.h) = Value(a)
  BY VisitAtomKeeps
<1>2. a.kind \in {"int", "id"} /\ a.kind # "element" /\ Effects(a) = <<>> /\ Eval(a) = Value(a)
  BY AtomCases DEF Effects, Eval
<1>3. v.s.code[v.h].op \in Caching => a.kind = "id"
  <2> SUFFICES ASSUME a.kind = "int" PROVE v.s.code[v.h].op = "const"
    BY <1>2 DEF Caching
  <2> DEFINE w == a.word
             t == Put(s, "f", "const", w, NoReg, w)
  <2>1. Plus(s, t, "const", w, NoReg, w)
    BY AtomCases, ConstPlus
  <2>2. v = With(t, Last(t))
    BY DEF VisitAtom
  <2> HIDE DEF t, v, w
  <2>3. t.code[Len(t.code)].op = "const"
    BY <2>1, PlusFacts
  <2> QED
    BY <2>2, <2>3 DEF With, Last
<1>4. a.kind = "id" => v.s = s /\ v.h = env[a.name] /\ a.name \in Names /\ env[a.name] # NoReg
  BY AtomCases DEF VisitAtom, With
<1> HIDE DEF v
<1>5. Denotes(s) => Value(a) \in Words
  BY ValueIsWord
<1>6. Talked(v.s) = Talked(s) \o <<>> /\ (Bounded(s) => Bounded(v.s))
  BY <1>1, SaysNothing, OneIsNarrow DEF Keeps
<1> QED
  BY <1>1, <1>2, <1>3, <1>4, <1>5, <1>6 DEF Computes, Keeps, v

\* Both operands are visited before either is read.
LEMMA OpComputes ==
  ASSUME NEW s, Good(s), Neat(s), Arm, Named(s), NEW e, e.kind = "op", Declared(e.lhs), Declared(e.rhs),
         e.op \in Operators
  PROVE  Computes(s, e, VisitOp(s, e))
<1> DEFINE n == Len(s.code)
           l == VisitAtom(s, e.lhs)
           r == VisitAtom(l.s, e.rhs)
           op == OpCode(e.op)
           t == Binary(r.s, op, l.h, r.h)
           v == VisitOp(s, e)
<1>1. /\ Keeps(n, s, l.s, 1) /\ Good(l.s) /\ Neat(l.s) /\ Extends(s, l.s) /\ IsPlain(l.s, l.h)
      /\ Follows(n, s, l.s) /\ (Denotes(s) => Meaning(l.s, l.h) = Value(e.lhs))
  BY VisitAtomKeeps DEF Keeps, Follows
<1>2. n \in Nat /\ Len(l.s.code) \in Nat /\ n <= Len(l.s.code)
  BY <1>1, GoodLen DEF Extends
<1>3. Named(l.s) /\ (Denotes(s) => Denotes(l.s))
  BY <1>1, NamedStays, DenotesStays
<1>4. v.s = t /\ v.h = Len(t.code)
  BY DEF VisitOp, With, Last
<1>4a. op \in Arithmetic /\ op \notin Caching /\ op \notin Variable /\ op \notin {"element", "call", "ret", "item"}
  BY DEF OpCode, Caching, Variable
<1> HIDE DEF l, n, v, op
<1>5. /\ Keeps(n, l.s, r.s, 1) /\ Keeps(Len(l.s.code), l.s, r.s, 1) /\ Good(r.s) /\ Neat(r.s)
      /\ IsScalar(r.s, r.h) /\ (Denotes(s) => Meaning(r.s, r.h) = Value(e.rhs))
  BY <1>1, <1>3, VisitAtomKeeps DEF Keeps, Follows
<1> HIDE DEF r
<1>6. IsScalar(r.s, l.h) /\ Meaning(r.s, l.h) = Meaning(l.s, l.h)
  <2>1. l.h \in 1..Len(l.s.code) /\ Len(l.s.code) <= Len(l.s.code)
    BY <1>1, <1>2 DEF IsPlain
  <2> QED
    BY <1>1, <1>2, <1>5, <2>1, PlainStays DEF Keeps
<1>7. /\ Keeps(n, r.s, t, 1) /\ Len(t.code) \in 1..Len(t.code) /\ t.code[Len(t.code)].op = op
      /\ t.meant[Len(t.code)] = Apply(op, Meaning(r.s, l.h), Meaning(r.s, r.h))
  BY <1>5, <1>6, <1>4a, BinaryFollows
<1> HIDE DEF t
<1>8. Keeps(n, s, t, 1)
  BY <1>1, <1>5, <1>7, KeepsTransitive
<1>9. IsScalar(t, Len(t.code)) /\ Meaning(t, Len(t.code)) = t.meant[Len(t.code)] /\ op \notin Caching
  BY <1>7, <1>4a DEF IsScalar, ScalarOps, Meaning
<1>10. Eval(e) = Calculate(e.op, Value(e.lhs), Value(e.rhs)) /\ Effects(e) = <<>>
  BY DEF Eval, Effects
<1>11. Denotes(s) /\ Fine(e) => Eval(e) \in Words /\ Meaning(t, Len(t.code)) = Eval(e)
  <2>1. Denotes(s) => Value(e.lhs) \in Words /\ Value(e.rhs) \in Words
    BY ValueIsWord
  <2>2. ASSUME Fine(e), NEW j \in Words, NEW k \in Words
        PROVE  Calculate(e.op, j, k) \in Words /\ Apply(op, j, k) = Calculate(e.op, j, k)
    <3>1. j # NoWord /\ k # NoWord /\ j + k \in Nat /\ j * k \in Nat
      BY WordFacts
    <3>2. \A m \in Nat : m % Base \in Words
      BY ValuesAssumption DEF Words
    <3>3. CASE e.op = "plus"
      <4>1. Apply(op, j, k) = (j + k) % Base /\ Calculate(e.op, j, k) = (j + k) % Base
        BY <3>1, <3>3 DEF Apply, Calculate, OpCode, op
      <4> QED
        BY <3>1, <3>2, <4>1
    <3>4. CASE e.op = "multiply"
      <4>1. Apply(op, j, k) = (j * k) % Base /\ Calculate(e.op, j, k) = (j * k) % Base
        BY <3>1, <3>4 DEF Apply, Calculate, OpCode, op
      <4> QED
        BY <3>1, <3>2, <4>1
    <3> QED
      BY <2>2, <3>3, <3>4 DEF Fine, Unfaithful, Operators
  <2> QED
    BY <1>1, <1>5, <1>6, <1>7, <1>9, <1>10, <2>1, <2>2
<1>12. Talked(t) = Talked(s) \o <<>> /\ Follows(n, s, t) /\ (Bounded(s) => Bounded(t))
  BY <1>8, SaysNothing, OneIsNarrow DEF Keeps
<1> QED
  BY <1>4, <1>7, <1>9, <1>10, <1>11, <1>12 DEF Computes, v, n

LEMMA CallComputes ==
  ASSUME NEW s, Good(s), Neat(s), Arm, Named(s), NEW e, e.kind = "call", Declared(e.arg)
  PROVE  Computes(s, e, Visit(s, e))
<1> DEFINE n == Len(s.code)
           a == VisitAtom(s, e.arg)
           t == CallWith(a.s, "f", a.h)
           v == Visit(s, e)
           m == Meaning(a.s, a.h)
<1>1. /\ Keeps(n, s, a.s, 1) /\ Good(a.s) /\ Neat(a.s) /\ IsScalar(a.s, a.h)
      /\ Denotes(s) => m = Value(e.arg)
  BY VisitAtomKeeps DEF Keeps, Follows
<1>2. v.s = t /\ v.h = Len(t.code)
  BY DEF Visit, With, Last
<1> HIDE DEF a, n, v, m
<1>3. /\ Follows(n, a.s, t) /\ Talked(t) = Talked(a.s) \o <<Says("call", m)>>
      /\ Bounded(a.s) => Bounded(t)
      /\ Len(t.code) \in 1..Len(t.code) /\ t.code[Len(t.code)].op = "call"
      /\ t.meant[Len(t.code)] = Answer(m)
  <2> DEFINE x == a.s
             h == a.h
  <2>1. Good(x) /\ Neat(x) /\ IsScalar(x, h) /\ m = Meaning(x, h)
    BY <1>1 DEF m
  <2>2. PICK op \in {"call", "ret"} : op = "call"
    OBVIOUS
  <2>3. t = Using(x, h, op)
    BY <2>2 DEF CallWith, Using, Outcome
  <2> HIDE DEF t, x, h
  <2>4. LET u == Using(x, h, op)
        IN /\ \A k : Follows(k, x, u)
           /\ Talked(u) = Talked(x) \o <<Says(op, Meaning(x, h))>>
           /\ Bounded(x) => Bounded(u)
           /\ Len(u.code) \in 1..Len(u.code) /\ u.code[Len(u.code)].op = op
           /\ u.meant[Len(u.code)] = Outcome(op, Meaning(x, h))
    BY ONLY Arm, op \in {"call", "ret"}, <2>1, UseFollows
  <2>5. Outcome(op, m) = Answer(m)
    BY <2>2 DEF Outcome
  <2> QED
    BY <2>1, <2>2, <2>3, <2>4, <2>5 DEF x
<1> HIDE DEF t
<1>4. Follows(n, s, t) /\ Talked(a.s) = Talked(s) /\ (Bounded(s) => Bounded(t))
  BY <1>1, <1>3, FollowsTransitive, OneIsNarrow DEF Keeps
<1>5. IsScalar(t, Len(t.code)) /\ Meaning(t, Len(t.code)) = t.meant[Len(t.code)] /\ "call" \notin Caching
  BY <1>3 DEF IsScalar, ScalarOps, Meaning, Variable, Caching
<1>6. Eval(e) = Answer(Value(e.arg)) /\ Effects(e) = <<Says("call", Value(e.arg))>>
  BY DEF Eval, Effects
<1>7. Denotes(s) => Eval(e) \in Words
  <2>1. Denotes(s) => Value(e.arg) \in Words
    BY ValueIsWord
  <2>2. \A k \in Words : Answer(k) \in Words
    <3>1. \A k \in Words : 1 # NoWord /\ k # NoWord /\ k + 1 \in Nat /\ Base \in Nat \ {0}
      BY WordFacts, ValuesAssumption
    <3>2. \A k \in Nat : k % Base \in Words
      BY ValuesAssumption DEF Words
    <3> QED
      BY <3>1, <3>2 DEF Apply, Answer
  <2> QED
    BY <1>6, <2>1, <2>2
<1> QED
  BY <1>1, <1>2, <1>3, <1>4, <1>5, <1>6, <1>7 DEF Computes, v, n

\* An element inside the array is the one that was stored there.
LEMMA ElementComputes ==
  ASSUME NEW s, Good(s), Neat(s), Arm, Named(s), NEW e, e.kind = "element", Sound(e)
  PROVE  Computes(s, e, Visit(s, e))
<1> DEFINE n == Len(s.code)
           es == e.elements
           i == VisitAtom(s, e.index)
           p == i.s
           x == i.h
           a == VisitArrayInitializer(p, es)
           q == a.s
           h == a.h
           t == Element(q, h, x)
           v == Visit(s, e)
           k == Value(e.index)
<1>1. /\ Declared(e.index) /\ Len(es) \in Nat
      /\ \A j \in 1..Len(es) : Declared(es[j]) /\ Slot(j) \in Words
  BY DEF Sound
<1>2. /\ Keeps(n, s, p, 1) /\ Good(p) /\ Neat(p) /\ Extends(s, p) /\ IsPlain(p, x)
      /\ Follows(n, s, p) /\ (Denotes(s) => Meaning(p, x) = k)
  BY <1>1, VisitAtomKeeps DEF Keeps, Follows
<1>3. v.s = t /\ v.h = Len(t.code)
  BY DEF Visit, With, Last
<1> HIDE DEF p, x, v, n
<1>4. n \in Nat /\ Len(p.code) \in Nat /\ n \in 0..Len(p.code)
  BY <1>2, GoodLen DEF Extends, n
<1>5. Named(p) /\ (Denotes(s) => Denotes(p))
  BY <1>2, NamedStays, DenotesStays DEF n
<1>6. /\ Keeps(Len(p.code), p, q, Len(es)) /\ IsArray(q, h) /\ h > Len(p.code)
      /\ q.code[h].y = Len(es) /\ Unindexed(q, h)
      /\ Denotes(p) /\ h \in Registers =>
           \A j \in 1..Len(es) : q.content[Address(h, Slot(j))] = Value(es[j])
  BY <1>1, <1>2, <1>5, VisitArrayFacts
<1> HIDE DEF q, h, es
<1>7. Keeps(n, p, q, Len(es)) /\ Good(q) /\ Neat(q) /\ Follows(Len(p.code), p, q) /\ Len(q.code) \in Nat
  <2>1. Keeps(n, p, q, Len(es))
    BY <1>4, <1>6, KeepsFewer
  <2>2. Good(q)
    BY <1>6 DEF Keeps, Follows
  <2> QED
    BY <1>6, <2>1, <2>2, GoodLen DEF Keeps, Follows
<1>8. IsScalar(q, x) /\ Meaning(q, x) = Meaning(p, x)
  <2>1. x \in 1..Len(p.code) /\ Len(p.code) <= Len(p.code)
    BY <1>2, <1>4 DEF IsPlain
  <2> QED
    BY <1>2, <1>4, <1>7, <2>1, PlainStays
<1> DEFINE l == Meaning(q, x)
<1>9. /\ Follows(n, q, t) /\ t.content = q.content /\ Talked(t) = Talked(q)
      /\ Narrow(q.code[h].y) /\ Bounded(q) /\ l \in Nat /\ l < q.code[h].y => Bounded(t)
      /\ Len(t.code) \in 1..Len(t.code) /\ t.code[Len(t.code)].op = "element"
      /\ t.meant[Len(t.code)] = Address(h, At("element", l))
  BY <1>6, <1>7, <1>8, ElementFollows
<1> HIDE DEF t, l
<1>10. Follows(n, s, t)
  <2>1. Follows(n, s, q)
    BY <1>2, <1>7, FollowsTransitive DEF Keeps
  <2> QED
    BY <1>9, <2>1, FollowsTransitive
<1>11. Talked(t) = Talked(s) \o Effects(e)
  <2>1. Talked(t) = Talked(s)
    BY <1>2, <1>7, <1>9 DEF Keeps
  <2>2. Effects(e) = <<>>
    BY DEF Effects
  <2> QED
    BY <2>1, <2>2, SaysNothing
<1>12. t.meant[Len(t.code)].base = h /\ h \notin 1..n
  <2>1. Address(h, At("element", l)).base = h
    BY DEF Address
  <2> QED
    BY <1>4, <1>6, <1>9, <2>1
<1>13. ASSUME Denotes(s), Fine(e)
       PROVE  /\ Eval(e) \in Words
              /\ Len(t.code) <= MaxCode => Meaning(t, Len(t.code)) = Eval(e)
              /\ Bounded(s) => Bounded(t)
  <2>1. k \in Words /\ k \in Nat /\ k < Len(es) /\ k # NoWord
    BY <1>1, <1>13, ValueIsWord, WordFacts DEF Fine, Within, es
  <2>2. k + 1 \in 1..Len(es) /\ Eval(e) = Value(es[k + 1])
    BY <1>1, <1>13, <2>1 DEF Fine, Eval, es
  <2>3. Eval(e) \in Words
    BY <1>1, <1>13, <2>2, ValueIsWord
  <2>4. l = k
    BY <1>2, <1>8, <1>13 DEF l
  <2>5. At("element", l) = Slot(k + 1) /\ Slot(k + 1) \in Words
    <3>1. k + 1 - 1 = k /\ ElemSize * k = k * ElemSize
      BY <2>1, ValuesAssumption
    <3>2. At("element", l) = ElemSize * k
      BY <2>1, <2>4 DEF At
    <3>3. Slot(k + 1) = k * ElemSize
      <4> DEFINE j == k + 1
      <4>1. j - 1 = k
        BY <2>1
      <4> HIDE DEF j
      <4>2. Slot(j) = k * ElemSize
        BY <4>1 DEF Slot
      <4> QED
        BY <4>2 DEF j
    <3> QED
      BY <1>1, <2>2, <3>1, <3>2, <3>3
  <2>6. ASSUME Len(t.code) <= MaxCode PROVE Meaning(t, Len(t.code)) = Eval(e)
    <3>1. h \in Registers
      <4>1. Extends(q, t) /\ h \in 1..Len(q.code)
        BY <1>6, <1>9 DEF Follows, IsArray
      <4>2. Len(q.code) <= Len(t.code) /\ MaxCode \in Nat
        BY <4>1, ValuesAssumption DEF Extends
      <4>3. Len(t.code) \in Nat
        BY <1>10, GoodLen DEF Follows
      <4> QED
        BY <1>7, <2>6, <4>1, <4>2, <4>3 DEF Registers
    <3>2. Address(h, Slot(k + 1)) \in Addresses
      BY <2>5, <3>1 DEF Address, Addresses
    <3>3. DOMAIN t.content = Addresses
      BY <1>10, CodeFacts, GoodLen DEF Follows
    <3>4. Meaning(t, Len(t.code)) = t.content[Address(h, Slot(k + 1))]
      BY <1>9, <2>5, <3>2, <3>3 DEF Meaning, Variable, Caching, Cell
    <3> QED
      BY <1>5, <1>6, <1>9, <1>13, <2>2, <3>1, <3>4
  <2>7. Bounded(s) => Bounded(t)
    <3>1. Narrow(Len(es))
      BY <1>13 DEF Fine, Unfaithful, Narrow, es
    <3>2. Bounded(s) => Bounded(p)
      BY <1>2, OneIsNarrow DEF Keeps
    <3>3. Bounded(p) => Bounded(q)
      BY <1>6, <3>1 DEF Keeps
    <3> QED
      BY <1>6, <1>9, <2>1, <2>4, <3>1, <3>2, <3>3
  <2> QED
    BY <2>3, <2>6, <2>7
<1>14. IsScalar(t, Len(t.code))
  BY <1>9 DEF IsScalar, ScalarOps, Variable, Caching
<1> QED
  BY <1>3, <1>9, <1>10, <1>11, <1>12, <1>13, <1>14 DEF Computes, v, n

LEMMA VisitComputes ==
  ASSUME NEW s, Good(s), Neat(s), Arm, Named(s), NEW e, Sound(e)
  PROVE  Computes(s, e, Visit(s, e))
<1>1. CASE e.kind \in {"int", "id"}
  <2>1. Declared(e) /\ Visit(s, e) = VisitAtom(s, e)
    BY <1>1 DEF Sound, Visit
  <2> QED
    BY <2>1, AtomComputes
<1>2. CASE e.kind = "op"
  <2>1. Declared(e.lhs) /\ Declared(e.rhs) /\ e.op \in Operators /\ Visit(s, e) = VisitOp(s, e)
    BY <1>2 DEF Sound, Visit
  <2> QED
    BY <1>2, <2>1, OpComputes
<1>3. CASE e.kind = "call"
  <2>1. Declared(e.arg)
    BY <1>3 DEF Sound
  <2> QED
    BY <1>3, <2>1, CallComputes
<1>4. CASE e.kind = "element"
  BY <1>4, ElementComputes
<1> QED
  BY <1>1, <1>2, <1>3, <1>4 DEF Sound

-----------------------------------------------------------------------------
(* Statements. *)

\* Reading fills no cache but the one of the variable read.
LEMMA ReadCache ==
  ASSUME NEW s, Good(s), Arm, NEW h, IsScalar(s, h), NEW i \in 1..Len(s.code), i # h
  PROVE  Read(s, h).cache[i] = s.cache[i]
<1> DEFINE t == Read(s, h)
           op == s.code[h].op
<1>1. h \in 1..Len(s.code)
  BY DEF IsScalar
<1>2. CASE op \in Variable /\ s.cache[h] = NoReg
  <2> DEFINE u == Load(s, h, "load")
  <2>1. op \in Cells
    BY <1>2 DEF Variable, Caching, Cells
  <2>2. Good(u) /\ \A j \in 1..Len(s.code) : u.cache[j] = s.cache[j]
    BY <1>1, <2>1, LoadKeepsGood
  <2>3. t = IF op \in Caching THEN [u EXCEPT !.cache[h] = Len(u.code)] ELSE u
    BY <1>2 DEF Read
  <2>4. u \in [code : Seq(Instructions), cache : Seq(Nat), meant : Seq(Meanings),
               content : [Addresses -> Contents], overwritten : SUBSET Nat, staleRead : BOOLEAN]
    BY <2>2 DEF Good, Typed
  <2> HIDE DEF t, u
  <2>5. t.cache[i] = u.cache[i]
    <3>1. CASE op \in Caching
      <4>1. t.cache = [u.cache EXCEPT ![h] = Len(u.code)]
        BY <2>3, <2>4, <3>1
      <4>2. i \in DOMAIN u.cache \/ i \notin DOMAIN u.cache
        OBVIOUS
      <4>3. Len(u.cache) = Len(u.code) /\ Len(s.code) <= Len(u.code) /\ Len(u.code) \in Nat
        <5>1. Len(u.code) = Len(s.code) + 1 /\ Len(s.code) \in Nat
          BY <1>1, <2>1, LoadKeepsGood, GoodLen DEF u
        <5> QED
          BY <2>2, <5>1 DEF Good, Typed
      <4>4. i \in DOMAIN u.cache
        BY <2>4, <4>3
      <4> QED
        BY <4>1, <4>4
    <3>2. CASE op \notin Caching
      BY <2>3, <3>2
    <3> QED
      BY <3>1, <3>2
  <2> QED
    BY <2>2, <2>5 DEF t
<1>3. CASE ~(op \in Variable /\ s.cache[h] = NoReg)
  <2>1. t = [s EXCEPT !.staleRead = @ \/ h \in s.overwritten] /\ (h \in s.overwritten) \in BOOLEAN
    BY <1>3 DEF Read
  <2> HIDE DEF t
  <2>2. t.cache = s.cache
    BY <2>1, FlagKeepsGood
  <2> QED
    BY <2>2 DEF t
<1> QED
  BY <1>2, <1>3

\* An assignment empties the only cache that it makes stale.
LEMMA AssignFollows ==
  ASSUME NEW s, Good(s), Neat(s), Arm, NEW h \in 1..Len(s.code), s.code[h].op \in Caching,
         NEW x, IsScalar(s, x)
  PROVE  LET t == Assign(s, h, x)
         IN /\ Keeps(0, s, t, 1)
            /\ t.content = [a \in Addresses |-> IF a = s.meant[h] THEN Meaning(s, x) ELSE s.content[a]]
<1> DEFINE r == Read(s, x)
           m == Meaning(s, x)
           o == Operand(r, x)
           u == Store(r, h, o, m)
           t == Assign(s, h, x)
<1>1. /\ Keeps(0, s, r, 1) /\ Good(r) /\ Neat(r) /\ OnlyReads(s, r) /\ Meaning(r, x) = m
      /\ StandsFor(r, o, m)
  <2>1. Keeps(0, s, r, 1)
    BY ReadKeeps
  <2> QED
    BY <2>1, ReadStands DEF Keeps, Follows
<1>2. t = [u EXCEPT !.cache[h] = NoReg, !.overwritten = @ \ {h}]
  BY <1>1 DEF Assign, SetValue
<1> HIDE DEF r, m, o
<1>3. h \in 1..Len(r.code) /\ r.code[h] = s.code[h] /\ r.meant[h] = s.meant[h]
  BY <1>1, GoodLen DEF OnlyReads, Extends
<1>4. r.code[h].op \in {"stack", "item", "element"} /\ r.code[h].op # "item"
  BY <1>3 DEF Caching
<1>5. /\ Good(u) /\ Extends(r, u) /\ ~u.staleRead /\ Len(u.code) = Len(r.code) + 1
      /\ u.code[Len(u.code)].op = "store" /\ u.code[Len(u.code)].builder = "f"
      /\ u.content = [a \in Addresses |-> IF a = r.meant[h] THEN m ELSE r.content[a]]
      /\ u.overwritten \subseteq {h}
  BY <1>1, <1>3, <1>4, StoreFacts
<1> HIDE DEF u, t
<1>6. /\ Good(t) /\ Extends(u, t) /\ t.code = u.code /\ t.meant = u.meant /\ t.content = u.content
      /\ t.overwritten = u.overwritten \ {h} /\ t.staleRead = u.staleRead
  <2>1. h \in 1..Len(u.code)
    BY <1>1, <1>3, <1>5, GoodLen
  <2> DEFINE v == [u EXCEPT !.cache[h] = NoReg, !.overwritten = @ \ {h}]
  <2>2. Good(u)
    BY <1>5
  <2>3. /\ Good(v) /\ Extends(u, v) /\ v.code = u.code /\ v.meant = u.meant
        /\ v.content = u.content /\ v.overwritten = u.overwritten \ {h}
        /\ v.staleRead = u.staleRead
    BY ONLY <2>1, <2>2, EmptyKeepsGood
  <2> HIDE DEF v
  <2> QED
    BY <1>2, <2>3 DEF v
<1>7. Extends(r, t)
  BY <1>5, <1>6 DEF Extends
<1>8. t.overwritten = {} /\ ~t.staleRead
  BY <1>5, <1>6
<1>9. Keeps(0, r, t, 1)
  <2>1. \A a \in Addresses : a.base \in 1..0 => t.content[a] = r.content[a]
    OBVIOUS
  <2> QED
    BY <1>1, <1>5, <1>6, <1>7, <1>8, <2>1, NextKeeps
<1>10. Keeps(0, s, t, 1)
  BY <1>1, <1>9, KeepsTransitive
<1> QED
  BY <1>1, <1>3, <1>5, <1>6, <1>10 DEF OnlyReads, t, m

\* A variable is allocated, set, and read although its cache is empty.
Declaring(s, h) ==
  LET x == Last(s) + 1
  IN SetThenRead(Put(s, "f", "stack", NoReg, 1, Address(x, 0)), x, h)
LEMMA DeclaringKeeps ==
  ASSUME NEW s, Good(s), Neat(s), Arm, NEW h, IsScalar(s, h)
  PROVE  LET t == Declaring(s, h)
             x == Len(s.code) + 1
         IN /\ Keeps(Len(s.code), s, t, 1) /\ x \in 1..Len(t.code) /\ t.code[x].op = "stack"
            /\ Len(t.code) <= MaxCode => Meaning(t, x) = Meaning(s, h)
<1> DEFINE n == Len(s.code)
           x == n + 1
           p == Put(s, "f", "stack", NoReg, 1, Address(x, 0))
           r == Read(p, h)
           m == Meaning(s, h)
           o == Operand(r, h)
           u == Store(r, x, o, m)
           t == Declaring(s, h)
<1>1. Plus(s, p, "stack", NoReg, 1, Address(x, 0))
  BY NewPlus
<1>2. t = Read(SetValue(p, x, h), x)
  BY DEF Declaring, SetThenRead, Last
<1> HIDE DEF p, t
<1>3. /\ Good(p) /\ OnlyReads(s, p) /\ Extends(s, p) /\ n \in Nat /\ Len(p.code) = x /\ x \in 1..Len(p.code)
      /\ p.code[x].op = "stack" /\ p.meant[x] = Address(x, 0) /\ p.cache[x] = NoReg
  BY <1>1, PlusFacts
<1>4. Keeps(n, s, p, 1) /\ Neat(p)
  <2> HIDE DEF n, x
  <2>1. "stack" \notin {"element", "call", "ret"} /\ "stack" # "item"
    OBVIOUS
  <2>2. Keeps(n, s, p, 1)
    BY <1>1, <2>1, PlusKeeps
  <2> QED
    BY <2>2 DEF Keeps, Follows
<1>5. IsScalar(p, h) /\ Meaning(p, h) = m /\ h \in 1..n
  <2>1. h \in 1..Len(s.code)
    BY DEF IsScalar
  <2>2. Len(p.code) \in Nat
    BY <1>3
  <2> QED
    BY <1>3, <2>1, <2>2, HandlesStay, MeaningStays
<1> HIDE DEF m
<1>6. /\ Keeps(n, p, r, 1) /\ Good(r) /\ Neat(r) /\ OnlyReads(p, r) /\ Meaning(r, h) = m
      /\ StandsFor(r, o, m)
  <2>1. Keeps(n, p, r, 1)
    BY <1>3, <1>4, <1>5, ReadKeeps
  <2> QED
    BY <1>3, <1>5, <2>1, ReadStands DEF Keeps, Follows
<1>7. r.cache[x] = NoReg
  <2>1. x # h
    BY <1>3, <1>5
  <2> QED
    BY <1>3, <1>5, <2>1, ReadCache
<1>8. SetValue(p, x, h) = u
  BY <1>6 DEF SetValue
<1> HIDE DEF r, o, u
<1>9. x \in 1..Len(r.code) /\ r.code[x].op = "stack" /\ r.meant[x] = Address(x, 0)
  <2>1. Extends(p, r) /\ Len(r.code) \in Nat /\ Len(p.code) \in Nat
    BY <1>3, <1>6, GoodLen DEF OnlyReads
  <2> QED
    BY <1>3, <2>1 DEF Extends
<1>10. r.meant[x].base \notin 1..n
  <2>1. Address(x, 0).base = x
    BY DEF Address
  <2> QED
    BY <1>3, <1>9, <2>1
<1>11. Keeps(n, r, u, 1)
  BY <1>6, <1>7, <1>9, <1>10, StoreKeeps DEF u
<1>12. u.content = [a \in Addresses |-> IF a = r.meant[x] THEN m ELSE r.content[a]]
  <2>1. x \in 1..Len(r.code) /\ r.code[x].op \in {"stack", "item", "element"} /\ r.code[x].op # "item"
    BY <1>9
  <2> HIDE DEF x
  <2> QED
    BY <1>6, <2>1, StoreFacts DEF u
<1>13. Good(u) /\ Neat(u) /\ x \in 1..Len(u.code) /\ u.code[x].op = "stack" /\ u.meant[x] = Address(x, 0)
  <2>1. Good(u) /\ Neat(u) /\ Extends(r, u)
    BY <1>11 DEF Keeps, Follows
  <2> QED
    BY <1>6, <1>9, <2>1, GoodLen DEF Extends
<1>14. IsScalar(u, x)
  BY <1>13 DEF IsScalar, ScalarOps, Variable, Caching
<1>15. t = Read(u, x)
  BY <1>2, <1>8
<1>16. Keeps(n, u, t, 1) /\ OnlyReads(u, t) /\ Good(t) /\ Extends(u, t)
  <2>1. Keeps(n, u, t, 1)
    BY <1>13, <1>14, <1>15, ReadKeeps
  <2> QED
    BY <1>13, <1>14, <1>15, <2>1, ReadKeepsGood DEF Keeps, Follows
<1>17. x \in 1..Len(t.code) /\ t.code[x].op = "stack" /\ t.meant[x] = Address(x, 0) /\ t.content = u.content
  BY <1>13, <1>16, GoodLen DEF OnlyReads, Extends
<1>18. Keeps(n, s, t, 1)
  <2>1. Keeps(n, s, r, 1)
    BY <1>4, <1>6, KeepsTransitive
  <2>2. Keeps(n, s, u, 1)
    BY <1>11, <2>1, KeepsTransitive
  <2> QED
    BY <1>16, <2>2, KeepsTransitive
<1>19. ASSUME Len(t.code) <= MaxCode PROVE Meaning(t, x) = m
  <2>1. x \in Registers
    BY <1>3, <1>16, <1>17, <1>19, GoodLen, ValuesAssumption DEF Registers
  <2>2. Address(x, 0) \in Addresses
    BY <2>1, WordFacts DEF Address, Addresses
  <2>3. DOMAIN t.content = Addresses
    BY <1>16, GoodLen, CodeFacts
  <2>4. Meaning(t, x) = t.content[Address(x, 0)]
    BY <1>17, <2>2, <2>3 DEF Meaning, Variable, Caching, Cell
  <2> QED
    BY <1>9, <1>12, <1>17, <2>2, <2>4
<1> QED
  BY <1>17, <1>18, <1>19 DEF t, m

-----------------------------------------------------------------------------
(* The steps keep the invariant. *)

\* The ghosts remember every expression that was not fine.
LEMMA JudgeFacts ==
  ASSUME undefined \in BOOLEAN, unfaithful \in BOOLEAN, NEW es, Judge(es)
  PROVE  /\ undefined' \in BOOLEAN /\ unfaithful' \in BOOLEAN
         /\ Clear' => Clear /\ \A e \in es : Fine(e)
<1>1. /\ undefined' = (undefined \/ \E e \in es : e.kind = "element" /\ ~Within(e))
      /\ unfaithful' = (unfaithful \/ \E e \in es : Unfaithful(e))
  BY DEF Judge
<1>2. undefined' \in BOOLEAN /\ unfaithful' \in BOOLEAN
  BY <1>1
<1>3. ASSUME Clear' PROVE Clear /\ \A e \in es : Fine(e)
  BY <1>1, <1>3 DEF Clear, Fine
<1> QED
  BY <1>2, <1>3

\* What visiting e in the state makes of it.
LEMMA VisitFacts ==
  ASSUME ToyInv, NEW e \in Expressions, Faults(e) = {}
  PROVE  /\ Good(state) /\ Neat(state) /\ Arm /\ Named(state) /\ Len(code) \in Nat
         /\ Sound(e) /\ Computes(state, e, Visit(state, e))
<1>1. Good(state) /\ Neat(state) /\ Arm /\ Named(state) /\ state.code = code
  BY DEF ToyInv, GoodState, state
<1>2. Sound(e)
  BY FaultlessIsSound
<1>3. Len(code) \in Nat
  BY <1>1, GoodLen
<1> QED
  BY <1>1, <1>2, <1>3, VisitComputes

\* A call of the builder, if names and ghosts change as they should.
LEMMA InvNext ==
  ASSUME ToyInv, NEW t, Good(t), Neat(t), Become(t), opened' = opened, ScopeTypes',
         \A n \in Names :
           /\ env'[n] \in 0..Len(t.code)
           /\ env'[n] # NoReg => /\ t.code[env'[n]].op \in {"const", "stack"}
                                 /\ \A m \in Names : env'[m] = env'[n] => m = n
           /\ Clear' /\ env'[n] # NoReg => src'[n] \in Words /\ Meaning(t, env'[n]) = src'[n],
         Clear' => said' = Talked(t),
         Clear' => Bounded(t)
  PROVE  ToyInv'
<1>1. opened = "none" /\ opened' = "none" /\ Typed(t)
  BY DEF ToyInv, Good
<1>2. GoodState'
  <2>1. Arm'
    BY <1>1 DEF Arm
  <2> QED
    BY <1>1, <2>1, BecomeGood
<1>3. state' = t
  BY <1>1, BecomeState
<1>4. Neat(state')
  BY <1>3
<1>5. Neat(state)'
  BY <1>4 DEF Neat, Elements
<1>6. Named(state)'
  BY <1>3 DEF Named
<1>7. Clear' => Denotes(state)'
  BY <1>3 DEF Denotes, Meaning, Cell
<1>8. Clear' => said' = Talked(state)'
  <2>1. Talked(state)' = Talked(t)
    BY <1>3 DEF Talked
  <2> QED
    BY <2>1
<1>9. Clear' => Bounded(state)'
  BY <1>3 DEF Bounded
<1> QED
  BY <1>1, <1>2, <1>5, <1>6, <1>7, <1>8, <1>9 DEF ToyInv

\* The same if no name is declared or written.
LEMMA InvFollows ==
  ASSUME ToyInv, NEW t, Follows(Len(code), state, t), Become(t), opened' = opened,
         UNCHANGED <<scope, failed, src>>,
         undefined' \in BOOLEAN, unfaithful' \in BOOLEAN, Clear' => Clear,
         Clear' => said' = Talked(t),
         Clear' => Bounded(t)
  PROVE  ToyInv'
<1>1. Good(t) /\ Neat(t) /\ Extends(state, t) /\ Good(state) /\ state.code = code
  BY DEF Follows, ToyInv, GoodState, state
<1>2. Named(t) /\ (Denotes(state) => Denotes(t))
  BY <1>1, NamedStays, DenotesStays DEF ToyInv
<1>3. env' = env /\ src' = src /\ current' = current /\ declared' = declared /\ bodies' = bodies
  BY DEF scope
<1>4. ScopeTypes'
  BY <1>3 DEF ToyInv, ScopeTypes
<1>5. Clear' => Denotes(t)
  BY <1>2 DEF ToyInv
<1>6. \A n \in Names :
        /\ env'[n] \in 0..Len(t.code)
        /\ env'[n] # NoReg => /\ t.code[env'[n]].op \in {"const", "stack"}
                              /\ \A m \in Names : env'[m] = env'[n] => m = n
        /\ Clear' /\ env'[n] # NoReg => src'[n] \in Words /\ Meaning(t, env'[n]) = src'[n]
  BY ONLY <1>2, <1>3, <1>5 DEF Named, Denotes
<1> QED
  BY <1>1, <1>4, <1>6, InvNext

\* Nothing is emitted.
LEMMA InvStays ==
  ASSUME ToyInv, UNCHANGED <<vars, env, src, said>>, ScopeTypes', Clear' => Clear
  PROVE  ToyInv'
<1>1. /\ code' = code /\ cache' = cache /\ opened' = opened /\ meant' = meant /\ content' = content
      /\ overwritten' = overwritten /\ staleRead' = staleRead /\ env' = env /\ src' = src /\ said' = said
  BY DEF vars
<1>2. state' = state
  BY <1>1 DEF state
<1>3. GoodState'
  <2>1. Good(state)'
    BY <1>1, <1>2, GoodNext DEF ToyInv, GoodState
  <2> QED
    BY <1>1, <2>1 DEF ToyInv, GoodState, Arm
<1>4. Neat(state)'
  <2>1. Neat(state')
    BY <1>2 DEF ToyInv
  <2> QED
    BY <2>1 DEF Neat, Elements
<1>5. Named(state)'
  BY <1>1, <1>2 DEF ToyInv, Named
<1>6. Clear' => Denotes(state)'
  BY <1>1, <1>2 DEF ToyInv, Denotes, Meaning, Cell
<1>7. Talked(state)' = Talked(state)
  BY <1>2 DEF Talked
<1>8. Bounded(state) => Bounded(state)'
  BY <1>2 DEF Bounded
<1> QED
  BY <1>1, <1>3, <1>4, <1>5, <1>6, <1>7, <1>8 DEF ToyInv

LEMMA StatementKeepsInv ==
  ASSUME ToyInv, NEW e \in Expressions, VisitStatement(e)
  PROVE  ToyInv'
<1> DEFINE v == Visit(state, e)
           t == v.s
<1>1. /\ Good(state) /\ Neat(state) /\ Arm /\ Named(state) /\ Len(code) \in Nat
      /\ Sound(e) /\ Computes(state, e, v)
  BY VisitFacts DEF VisitStatement
<1>2. /\ Become(t) /\ opened' = opened /\ failed' = failed /\ UNCHANGED <<scope, src>>
      /\ said' = said \o Effects(e) \o <<>>
      /\ Judge({e})
  BY DEF VisitStatement, Emits, Evaluated
<1> HIDE DEF v
<1>3. Follows(Len(code), state, t)
  BY <1>1 DEF Computes, state
<1>4. undefined' \in BOOLEAN /\ unfaithful' \in BOOLEAN /\ (Clear' => Clear /\ Fine(e))
  BY <1>2, JudgeFacts DEF ToyInv, ScopeTypes
<1>5. Clear' => Clear /\ Denotes(state) /\ Fine(e)
  BY <1>4 DEF ToyInv
<1>6. Clear' => said' = Talked(t)
  <2> SUFFICES ASSUME Clear' PROVE said' = Talked(t)
    OBVIOUS
  <2>1. said = Talked(state) /\ Talked(t) = Talked(state) \o Effects(e)
    BY <1>1, <1>5 DEF ToyInv, Computes
  <2>2. Talked(t) = Talked(t) \o <<>>
    BY <1>3, SaysNothing DEF Follows
  <2> QED
    BY <1>2, <2>1, <2>2
<1>7. Clear' => Bounded(t)
  BY <1>1, <1>5 DEF ToyInv, Computes
<1> HIDE DEF t
<1> QED
  BY <1>2, <1>3, <1>4, <1>5, <1>6, <1>7, InvFollows

LEMMA ReturnKeepsInv ==
  ASSUME ToyInv, NEW e \in Expressions, VisitReturn(e)
  PROVE  ToyInv'
<1> DEFINE v == Visit(state, e)
           s == v.s
           h == v.h
<1>1. /\ Good(state) /\ Neat(state) /\ Arm /\ Named(state) /\ Len(code) \in Nat
      /\ Sound(e) /\ Computes(state, e, v)
  BY VisitFacts DEF VisitReturn
<1>2. PICK op \in {"call", "ret"} : op = "ret"
  OBVIOUS
<1> DEFINE t == Using(s, h, op)
<1>3. /\ Become(t) /\ opened' = opened /\ failed' = failed /\ UNCHANGED <<scope, src>>
      /\ said' = said \o Effects(e) \o <<Says(op, Eval(e))>>
      /\ Judge({e})
  <2>1. t = Put(Read(s, h), "f", "ret", Operand(Read(s, h), h), NoReg, Meaning(Read(s, h), h))
    BY <1>2 DEF Using, Outcome
  <2> HIDE DEF s, h, t, v
  <2>2. Become(t) /\ opened' = opened /\ failed' = failed
    BY <2>1 DEF VisitReturn, Emits, v, s, h
  <2> QED
    BY <1>2, <2>2 DEF VisitReturn, Evaluated
<1> HIDE DEF v
<1>4. Follows(Len(code), state, s) /\ Good(s) /\ Neat(s) /\ IsScalar(s, h)
  BY <1>1 DEF Computes, state, Follows
<1>10. undefined' \in BOOLEAN /\ unfaithful' \in BOOLEAN /\ (Clear' => Clear /\ Fine(e))
  BY <1>3, JudgeFacts DEF ToyInv, ScopeTypes
<1>5. Clear' => Clear /\ Denotes(state) /\ Fine(e) /\ said = Talked(state) /\ Bounded(state)
  BY <1>10 DEF ToyInv
<1>6. Clear' => /\ Talked(s) = Talked(state) \o Effects(e)
                /\ Len(s.code) <= MaxCode => Meaning(s, h) = Eval(e)
                /\ Bounded(s)
  BY <1>1, <1>5 DEF Computes
<1> HIDE DEF s, h
<1>7. /\ \A n : Follows(n, s, t)
      /\ Talked(t) = Talked(s) \o <<Says(op, Meaning(s, h))>>
      /\ Bounded(s) => Bounded(t)
  <2>1. Arm
    BY <1>1
  <2> QED
    BY ONLY <1>4, <2>1, op \in {"call", "ret"}, UseFollows
<1> HIDE DEF t
<1>8. Follows(Len(code), state, t)
  BY <1>1, <1>4, <1>7, FollowsTransitive
<1>9. Len(s.code) <= MaxCode
  <2>1. Len(t.code) <= MaxCode
    BY <1>3 DEF Become
  <2>2. Good(t) /\ Len(s.code) <= Len(t.code)
    BY <1>7 DEF Follows, Extends
  <2> QED
    BY <1>4, <2>1, <2>2, GoodLen, ValuesAssumption
<1>11. Clear' => said' = Talked(t)
  BY <1>3, <1>5, <1>6, <1>7, <1>9 DEF Clear
<1>12. Clear' => Bounded(t)
  BY <1>6, <1>7 DEF Clear
<1>13. Become(t) /\ opened' = opened /\ UNCHANGED <<scope, failed, src>>
  BY <1>3
<1>14. Clear' => Clear
  BY <1>5
<1> QED
  BY ONLY ToyInv, <1>8, <1>10, <1>11, <1>12, <1>13, <1>14, InvFollows

Failures == {"not declared", "function not declared", "not implemented", "redeclared", "let",
             "crash", "read only"}
LEMMA ThrowKeepsInv ==
  ASSUME ToyInv, NEW R, R \subseteq Failures, Throw(R)
  PROVE  ToyInv'
<1>1. /\ failed' \in Failures /\ UNCHANGED <<vars, env, src, said, undefined, unfaithful>>
      /\ current' = current /\ declared' = declared /\ bodies' = bodies /\ env' = env /\ src' = src
  BY DEF Throw, scope, ghosts
<1>2. ScopeTypes'
  BY <1>1 DEF ToyInv, ScopeTypes, Failures
<1> QED
  BY <1>1, <1>2, InvStays DEF Clear

\* The assigned name is the only one whose cell is written.
LEMMA AssignmentDenotes ==
  ASSUME NEW s, Good(s), Named(s), Denotes(s), NEW t, Good(t), Extends(s, t), Len(t.code) <= MaxCode,
         NEW h \in 1..Len(s.code), s.code[h].op \in Caching, NEW w \in Words,
         t.content = [a \in Addresses |-> IF a = s.meant[h] THEN w ELSE s.content[a]],
         NEW n \in Names, env[n] # NoReg
  PROVE  Meaning(t, env[n]) = IF env[n] = h THEN w ELSE src[n]
<1> DEFINE x == env[n]
<1>1. IsPlain(s, x) /\ x \in 1..Len(s.code) /\ Meaning(s, x) = src[n]
  BY NamePlain DEF Denotes
<1> HIDE DEF x
<1>2. Len(s.code) \in Nat /\ Len(t.code) \in Nat /\ Ordered(s) /\ DOMAIN s.content = Addresses
  BY GoodLen, CodeFacts
<1>3. t.code[x] = s.code[x] /\ t.meant[x] = s.meant[x]
  BY <1>1 DEF Extends
<1>4. CASE s.code[x].op = "const"
  <2>1. x # h /\ s.code[x].op \notin Variable
    BY <1>4 DEF Caching, Variable
  <2> QED
    BY <1>1, <1>3, <2>1 DEF Meaning, x
<1>5. CASE s.code[x].op = "stack"
  <2>1. s.meant[x] = Address(x, 0)
    BY <1>1, <1>2, <1>5 DEF Ordered, Fits
  <2>2. x \in Registers
    BY <1>1, <1>2, ValuesAssumption DEF Extends, Registers
  <2>3. Address(x, 0) \in Addresses
    BY <2>2, WordFacts DEF Address, Addresses
  <2>4. Meaning(t, x) = t.content[Address(x, 0)] /\ Meaning(s, x) = s.content[Address(x, 0)]
    BY <1>2, <1>3, <1>5, <2>1, <2>3 DEF Meaning, Variable, Caching, Cell
  <2>5. s.meant[h] = Address(x, 0) <=> h = x
    <3>1. CASE s.code[h].op = "stack"
      <4>1. s.meant[h] = Address(h, 0)
        BY <1>2, <3>1 DEF Ordered, Fits
      <4>2. Address(h, 0).base = h /\ Address(x, 0).base = x
        BY DEF Address
      <4> QED
        BY <4>1, <4>2
    <3>2. CASE s.code[h].op = "element"
      <4>1. s.meant[h] = Address(s.code[h].x, s.meant[h].at) /\ s.code[s.code[h].x].op = "array"
        BY <1>2, <3>2 DEF Ordered, Fits
      <4>2. Address(s.code[h].x, s.meant[h].at).base = s.code[h].x /\ Address(x, 0).base = x
        BY DEF Address
      <4>3. s.code[h].x # x /\ h # x
        BY <1>5, <3>2, <4>1
      <4> QED
        BY <4>1, <4>2, <4>3
    <3> QED
      BY <3>1, <3>2 DEF Caching
  <2> QED
    BY <1>1, <2>3, <2>4, <2>5 DEF x
<1> QED
  BY <1>1, <1>4, <1>5 DEF IsPlain

LEMMA AssignmentKeepsInv ==
  ASSUME ToyInv, NEW l \in Expressions, NEW e \in Expressions, VisitAssignment(l, e)
  PROVE  ToyInv'
<1> DEFINE v == Visit(state, l)
           s == v.s
           h == v.h
           u == Visit(s, e)
           p == u.s
           x == u.h
           t == Assign(p, h, x)
           n == Len(code)
<1>1. Faults(l) = {} /\ Faults(e) = {}
  BY DEF VisitAssignment
<1>2. /\ Good(state) /\ Neat(state) /\ Arm /\ Named(state) /\ n \in Nat
      /\ Computes(state, l, v) /\ Sound(e) /\ state.code = code
  BY <1>1, VisitFacts DEF state
<1>3. \/ Throw({"read only"})
      \/ /\ s.code[h].op \in Caching
         /\ Become(t) /\ opened' = opened /\ failed' = failed /\ scope' = scope
         /\ src' = IF l.kind = "id" THEN [src EXCEPT ![l.name] = Eval(e)] ELSE src
         /\ said' = said \o Effects(e)
         /\ Judge({l, e})
  <2> HIDE DEF t, v, u
  <2>1. \E k \in {v} : \E r \in {Visit(k.s, e)} :
          IF k.s.code[k.h].op \notin Caching THEN Throw({"read only"})
          ELSE /\ Emits(Assign(r.s, k.h, r.h))
               /\ src' = IF l.kind = "id" THEN [src EXCEPT ![l.name] = Eval(e)] ELSE src
               /\ said' = said \o Effects(e)
               /\ Judge({l, e})
               /\ UNCHANGED scope
    BY DEF VisitAssignment, v
  <2>2. IF s.code[h].op \notin Caching THEN Throw({"read only"})
          ELSE /\ Emits(t)
               /\ src' = IF l.kind = "id" THEN [src EXCEPT ![l.name] = Eval(e)] ELSE src
               /\ said' = said \o Effects(e)
               /\ Judge({l, e})
               /\ UNCHANGED scope
    BY <2>1 DEF t, u
  <2> QED
    BY <2>2 DEF Emits
<1>4. CASE Throw({"read only"})
  <2>1. {"read only"} \subseteq Failures
    BY DEF Failures
  <2> QED
    BY <1>4, <2>1, ThrowKeepsInv
<1> SUFFICES ASSUME /\ s.code[h].op \in Caching
                    /\ Become(t) /\ opened' = opened /\ failed' = failed /\ scope' = scope
                    /\ src' = IF l.kind = "id" THEN [src EXCEPT ![l.name] = Eval(e)] ELSE src
                    /\ said' = said \o Effects(e)
                    /\ Judge({l, e})
             PROVE  ToyInv'
  BY <1>3, <1>4
<1> HIDE DEF v
<1>5. /\ Follows(n, state, s) /\ Good(s) /\ Neat(s) /\ Extends(state, s) /\ h \in 1..Len(s.code)
      /\ l.kind \in {"id", "element"} /\ Effects(l) = <<>>
      /\ l.kind = "id" => h = env[l.name] /\ l.name \in Names /\ env[l.name] # NoReg
      /\ l.kind = "element" => s.code[h].op = "element"
  BY <1>2 DEF Computes, Follows, IsScalar, Effects
<1>6. Named(s) /\ (Denotes(state) => Denotes(s))
  BY <1>2, <1>5, NamedStays, DenotesStays
<1>7. Clear' => /\ Clear /\ Denotes(state) /\ Denotes(s) /\ said = Talked(state)
                /\ Fine(l) /\ Fine(e) /\ Bounded(state)
  <2>1. Clear' => Clear /\ Fine(l) /\ Fine(e)
    BY JudgeFacts DEF ToyInv, ScopeTypes
  <2> QED
    BY <1>6, <2>1 DEF ToyInv
<1>8. Clear' => Talked(s) = Talked(state) /\ Bounded(s)
  <2> SUFFICES ASSUME Clear' PROVE Talked(s) = Talked(state) /\ Bounded(s)
    OBVIOUS
  <2>1. Talked(s) = Talked(state) \o Effects(l) /\ Bounded(s)
    BY <1>2, <1>7 DEF Computes
  <2> QED
    BY <1>2, <1>5, <2>1, SaysNothing
<1> HIDE DEF s, h
<1>9. Computes(s, e, u)
  BY <1>2, <1>5, <1>6, VisitComputes
<1> HIDE DEF u
<1>10. /\ Follows(Len(s.code), s, p) /\ Good(p) /\ Neat(p) /\ Extends(s, p) /\ IsScalar(p, x)
       /\ Clear' => /\ Talked(p) = Talked(s) \o Effects(e) /\ Eval(e) \in Words
                    /\ Len(p.code) <= MaxCode => Meaning(p, x) = Eval(e)
                    /\ Bounded(p)
  BY <1>7, <1>8, <1>9 DEF Computes, Follows
<1>11. Named(p) /\ (Clear' => Denotes(p))
  BY <1>5, <1>6, <1>7, <1>10, NamedStays, DenotesStays
<1> HIDE DEF p, x
<1>12. h \in 1..Len(p.code) /\ p.code[h] = s.code[h] /\ p.code[h].op \in Caching
  BY <1>5, <1>10, GoodLen DEF Extends
<1>13. /\ Keeps(0, p, t, 1)
       /\ t.content = [a \in Addresses |-> IF a = p.meant[h] THEN Meaning(p, x) ELSE p.content[a]]
  <2>1. Arm
    BY <1>2
  <2> QED
    BY ONLY <1>10, <1>12, <2>1, AssignFollows
<1> HIDE DEF t
<1>14. Good(t) /\ Neat(t) /\ Extends(p, t) /\ Len(t.code) <= MaxCode
  BY <1>13 DEF Keeps, Follows, Become
<1>15. Len(p.code) <= MaxCode
  BY <1>10, <1>14, GoodLen, ValuesAssumption DEF Extends
<1>16. Named(t)
  BY <1>10, <1>11, <1>14, NamedStays
<1>17. /\ env' = env /\ current' = current /\ declared' = declared /\ bodies' = bodies
       /\ DOMAIN src' = DOMAIN src /\ undefined' \in BOOLEAN /\ unfaithful' \in BOOLEAN
  BY JudgeFacts DEF scope, ToyInv, ScopeTypes
<1>18. ScopeTypes'
  BY <1>17 DEF ToyInv, ScopeTypes
<1>19. ASSUME Clear', NEW m \in Names, env[m] # NoReg
       PROVE  src'[m] \in Words /\ Meaning(t, env[m]) = src'[m]
  <2>1. Eval(e) \in Words /\ Meaning(p, x) = Eval(e) /\ Denotes(p) /\ src[m] \in Words
    BY <1>10, <1>11, <1>15, <1>19 DEF Clear, Denotes
  <2>2. Meaning(t, env[m]) = IF env[m] = h THEN Eval(e) ELSE src[m]
    <3> DEFINE w == Eval(e)
    <3>1. t.content = [a \in Addresses |-> IF a = p.meant[h] THEN w ELSE p.content[a]]
      BY <1>13, <2>1
    <3>2. w \in Words
      BY <2>1
    <3>3. /\ Good(p) /\ Named(p) /\ Denotes(p) /\ Good(t) /\ Extends(p, t) /\ Len(t.code) <= MaxCode
          /\ h \in 1..Len(p.code) /\ p.code[h].op \in Caching
      BY <1>10, <1>11, <1>12, <1>14, <2>1
    <3>4. m \in Names /\ env[m] # NoReg
      BY <1>19
    <3> HIDE DEF w
    <3>5. Meaning(t, env[m]) = IF env[m] = h THEN w ELSE src[m]
      BY ONLY <3>1, <3>2, <3>3, <3>4, AssignmentDenotes
    <3> QED
      BY <3>5 DEF w
  <2>3. DOMAIN src = Names
    BY DEF ToyInv, ScopeTypes
  <2>4. CASE l.kind = "id"
    <3>1. env[m] = h <=> m = l.name
      BY <1>5, <1>16, <1>19, <2>4 DEF Named
    <3>2. src'[m] = IF m = l.name THEN Eval(e) ELSE src[m]
      BY <1>5, <2>3, <2>4
    <3> QED
      BY <2>1, <2>2, <3>1, <3>2
  <2>5. CASE l.kind = "element"
    <3>1. src'[m] = src[m]
      BY <2>5
    <3>2. env[m] # h
      BY <1>5, <1>6, <1>19, <2>5 DEF Named
    <3> QED
      BY <2>1, <2>2, <3>1, <3>2
  <2> QED
    BY <1>5, <2>4, <2>5
<1>20. Clear' => said' = Talked(t) /\ Bounded(t)
  BY <1>7, <1>8, <1>10, <1>13, <1>14, <1>15, OneIsNarrow DEF Clear, Keeps
<1>21. \A m \in Names :
         /\ env'[m] \in 0..Len(t.code)
         /\ env'[m] # NoReg => /\ t.code[env'[m]].op \in {"const", "stack"}
                               /\ \A k \in Names : env'[k] = env'[m] => k = m
         /\ Clear' /\ env'[m] # NoReg => src'[m] \in Words /\ Meaning(t, env'[m]) = src'[m]
  BY ONLY <1>16, <1>17, <1>19 DEF Named
<1>22. Become(t) /\ opened' = opened
  OBVIOUS
<1>23. (Clear' => said' = Talked(t)) /\ (Clear' => Bounded(t))
  BY <1>20
<1> QED
  BY ONLY ToyInv, <1>14, <1>18, <1>21, <1>22, <1>23, InvNext

LEMMA DeclarationKeepsInv ==
  ASSUME ToyInv, NEW n \in Names, NEW e \in Expressions, VisitDeclaration(n, e)
  PROVE  ToyInv'
<1> DEFINE v == Visit(state, e)
           s == v.s
           h == v.h
           t == Declaring(s, h)
           x == Len(s.code) + 1
           k == Len(code)
<1>1. Faults(e) = {}
  BY DEF VisitDeclaration
<1>2. /\ Good(state) /\ Neat(state) /\ Arm /\ Named(state) /\ k \in Nat
      /\ Computes(state, e, v) /\ state.code = code
  BY <1>1, VisitFacts DEF state
<1>3. \/ Throw({"redeclared"})
      \/ /\ env[n] = NoReg
         /\ Become(t) /\ opened' = opened /\ failed' = failed
         /\ env' = [env EXCEPT ![n] = x] /\ src' = [src EXCEPT ![n] = Eval(e)]
         /\ said' = said \o Effects(e) \o <<>>
         /\ Judge({e})
         /\ UNCHANGED <<current, declared, bodies>>
  <2> HIDE DEF v
  <2>1. IF env[n] # NoReg THEN Throw({"redeclared"})
        ELSE \E r \in {v} :
             LET y == Last(r.s) + 1
             IN /\ Emits(SetThenRead(Put(r.s, "f", "stack", NoReg, 1, Address(y, 0)), y, r.h))
                /\ env' = [env EXCEPT ![n] = y]
                /\ src' = [src EXCEPT ![n] = Eval(e)]
                /\ Evaluated(e, <<>>)
                /\ UNCHANGED <<current, declared, bodies>>
    BY DEF VisitDeclaration, v
  <2>2. IF env[n] # NoReg THEN Throw({"redeclared"})
        ELSE /\ Emits(t)
             /\ env' = [env EXCEPT ![n] = x]
             /\ src' = [src EXCEPT ![n] = Eval(e)]
             /\ Evaluated(e, <<>>)
             /\ UNCHANGED <<current, declared, bodies>>
    BY <2>1 DEF Declaring, Last
  <2> QED
    BY <2>2 DEF Emits, Evaluated
<1>4. CASE Throw({"redeclared"})
  <2>1. {"redeclared"} \subseteq Failures
    BY DEF Failures
  <2> QED
    BY <1>4, <2>1, ThrowKeepsInv
<1> SUFFICES ASSUME /\ env[n] = NoReg
                    /\ Become(t) /\ opened' = opened /\ failed' = failed
                    /\ env' = [env EXCEPT ![n] = x] /\ src' = [src EXCEPT ![n] = Eval(e)]
                    /\ said' = said \o Effects(e) \o <<>>
                    /\ Judge({e})
                    /\ UNCHANGED <<current, declared, bodies>>
             PROVE  ToyInv'
  BY <1>3, <1>4
<1> HIDE DEF v
<1>5. /\ Follows(k, state, s) /\ Good(s) /\ Neat(s) /\ Extends(state, s) /\ IsScalar(s, h)
      /\ Len(s.code) \in Nat /\ k \in 0..Len(s.code)
  <2>1. Follows(k, state, s) /\ Good(s) /\ Neat(s) /\ Extends(state, s) /\ IsScalar(s, h)
    BY <1>2 DEF Computes, Follows
  <2> HIDE DEF s
  <2>2. Len(s.code) \in Nat
    BY <2>1, GoodLen
  <2>3. Len(state.code) <= Len(s.code)
    BY <2>1 DEF Extends
  <2>4. k <= Len(s.code)
    BY <1>2, <2>3
  <2>5. k \in 0..Len(s.code)
    BY <1>2, <2>2, <2>4
  <2> QED
    BY <2>1, <2>2, <2>5
<1>6. /\ undefined' \in BOOLEAN /\ unfaithful' \in BOOLEAN
      /\ Clear' => Clear /\ Denotes(state) /\ Fine(e) /\ said = Talked(state) /\ Bounded(state)
  <2>1. undefined' \in BOOLEAN /\ unfaithful' \in BOOLEAN /\ (Clear' => Clear /\ Fine(e))
    BY JudgeFacts DEF ToyInv, ScopeTypes
  <2> QED
    BY <2>1 DEF ToyInv
<1>7. Clear' => /\ Talked(s) = Talked(state) \o Effects(e) /\ Eval(e) \in Words
                /\ Len(s.code) <= MaxCode => Meaning(s, h) = Eval(e)
                /\ Bounded(s)
  BY <1>2, <1>6 DEF Computes
<1> HIDE DEF s, h
<1>8. /\ Keeps(Len(s.code), s, t, 1) /\ x \in 1..Len(t.code) /\ t.code[x].op = "stack"
      /\ Len(t.code) <= MaxCode => Meaning(t, x) = Meaning(s, h)
  <2>1. Arm
    BY <1>2
  <2> QED
    BY ONLY <1>5, <2>1, DeclaringKeeps
<1> HIDE DEF t
<1>9. /\ Good(t) /\ Neat(t) /\ Extends(s, t) /\ Len(t.code) <= MaxCode /\ Len(t.code) \in Nat
      /\ Len(s.code) <= MaxCode /\ Talked(t) = Talked(s)
  <2>1. Good(t) /\ Neat(t) /\ Extends(s, t) /\ Len(t.code) <= MaxCode /\ Talked(t) = Talked(s)
    BY <1>8 DEF Keeps, Follows, Become
  <2> QED
    BY <1>5, <2>1, GoodLen, ValuesAssumption DEF Extends
<1>10. Follows(k, state, t)
  <2>1. Keeps(k, s, t, 1)
    BY <1>5, <1>8, KeepsFewer
  <2> QED
    BY <1>2, <1>5, <2>1, FollowsTransitive DEF Keeps
<1>11. Named(t) /\ (Clear' => Denotes(t))
  BY <1>2, <1>6, <1>9, <1>10, NamedStays, DenotesStays DEF Follows
<1>12. DOMAIN env = Names /\ DOMAIN src = Names /\ \A m \in Names : env[m] # x /\ env[m] \in Nat
  <2>1. \A m \in Names : env[m] \in 0..k
    BY <1>2 DEF Named
  <2>2. \A m \in Names : env[m] # x /\ env[m] \in Nat
    BY <1>2, <1>5, <2>1
  <2> QED
    BY <2>2 DEF ToyInv, ScopeTypes
<1>13. \A m \in Names : /\ env'[m] = IF m = n THEN x ELSE env[m]
                        /\ src'[m] = IF m = n THEN Eval(e) ELSE src[m]
  BY <1>12
<1>14. ScopeTypes'
  <2>1. env' \in [Names -> Nat] /\ DOMAIN src' = Names
    <3>1. x \in Nat
      BY <1>5
    <3> QED
      BY <3>1 DEF ToyInv, ScopeTypes
  <2> QED
    BY <1>6, <2>1 DEF ToyInv, ScopeTypes
<1>15. ASSUME NEW m \in Names
       PROVE  /\ env'[m] \in 0..Len(t.code)
              /\ env'[m] # NoReg => /\ t.code[env'[m]].op \in {"const", "stack"}
                                    /\ \A j \in Names : env'[j] = env'[m] => j = m
              /\ Clear' /\ env'[m] # NoReg => src'[m] \in Words /\ Meaning(t, env'[m]) = src'[m]
  <2> HIDE DEF x
  <2>1. CASE m = n
    <3>1. env'[m] = x /\ src'[m] = Eval(e) /\ \A j \in Names : j # n => env'[j] = env[j]
      BY <1>13, <2>1
    <3>2. x \in 0..Len(t.code) /\ t.code[x].op \in {"const", "stack"}
      BY <1>8, <1>9
    <3>3. Clear' => Meaning(t, x) = Eval(e) /\ Eval(e) \in Words
      BY <1>7, <1>8, <1>9 DEF Clear
    <3> QED
      BY <1>12, <2>1, <3>1, <3>2, <3>3
  <2>2. CASE m # n
    <3>1. env'[m] = env[m] /\ src'[m] = src[m]
      BY <1>13, <2>2
    <3>2. env[m] # NoReg => \A j \in Names : env'[j] = env'[m] => j = m
      BY <1>11, <1>12, <1>13, <3>1 DEF Named
    <3> QED
      BY <1>11, <3>1, <3>2 DEF Named, Denotes
  <2> QED
    BY <2>1, <2>2
<1>16. Clear' => said' = Talked(t)
  <2>1. Talked(t) = Talked(t) \o <<>>
    BY <1>9, SaysNothing
  <2> QED
    BY <1>6, <1>7, <1>9, <2>1 DEF Clear
<1>17. Clear' => Bounded(t)
  BY <1>7, <1>8, <1>9, OneIsNarrow DEF Clear, Keeps
<1>18. Become(t) /\ opened' = opened
  OBVIOUS
<1> QED
  BY ONLY ToyInv, <1>9, <1>14, <1>15, <1>16, <1>17, <1>18, InvNext

\* Nothing was said before the first instruction.
LEMMA SilentAtFirst == Spoken(<<>>, <<>>) = <<>>
<1>1. Len(<<>>) = 0
  OBVIOUS
<1>2. PICK f : Goes(f, "spoken", <<>>, <<>>, <<>>, Len(<<>>)) /\ f[Len(<<>>)] = Spoken(<<>>, <<>>)
  BY <1>1, SpokenSteps
<1> QED
  BY <1>1, <1>2 DEF Goes

LEMMA FreshFacts ==
  ASSUME opened = "none"
  PROVE  Good(Fresh) /\ Neat(Fresh) /\ Bounded(Fresh) /\ Talked(Fresh) = <<>> /\ Len(Fresh.code) = 0
<1>1. /\ Fresh.code = <<>> /\ Fresh.cache = <<>> /\ Fresh.meant = <<>>
      /\ Fresh.content = [a \in Addresses |-> NoWord]
      /\ Fresh.overwritten = {} /\ Fresh.staleRead = FALSE
  BY DEF Fresh
<1>2. Len(Fresh.code) = 0 /\ 1..0 = {} /\ 1..(1 - 1) = {}
  BY <1>1
<1>3. Typed(Fresh)
  <2>1. [a \in Addresses |-> NoWord] \in [Addresses -> Contents]
    BY DEF Contents
  <2> QED
    BY <2>1 DEF Fresh, Typed
<1>4. Stored(Fresh)
  <2>1. \A a \in Addresses : Holds(Fresh, 1, a, NoWord)
    BY <1>2 DEF Holds
  <2> QED
    BY <1>1, <1>2, <2>1 DEF Stored
<1>5. Ordered(Fresh) /\ Cached(Fresh) /\ Faithful(Fresh)
  BY <1>2 DEF Ordered, Cached, Faithful
<1>6. Neat(Fresh) /\ Bounded(Fresh)
  <2>1. Elements(Fresh) = {}
    BY <1>2 DEF Elements
  <2> QED
    BY <1>1, <1>2, <2>1 DEF Neat, Bounded
<1>7. Talked(Fresh) = <<>>
  BY <1>1, SilentAtFirst DEF Talked
<1> QED
  BY <1>2, <1>3, <1>4, <1>5, <1>6, <1>7 DEF Good

LEMMA FunctionKeepsInv ==
  ASSUME ToyInv, NEW f \in Functions, NEW n \in Names, NEW w \in Literals,
         VisitFunctionDeclaration(f, n, w)
  PROVE  ToyInv'
<1> DEFINE t == Put(Fresh, "f", "const", w, NoReg, w)
<1>1. /\ Become(t) /\ opened' = opened /\ failed' = failed /\ bodies' = bodies
      /\ current' = f /\ declared' = declared \cup {f} /\ env' = ScopeOf(n)
      /\ src' = [m \in Names |-> IF m = n THEN w ELSE NoWord]
      /\ said' = <<>> /\ undefined' = (f \in bodies) /\ unfaithful' = FALSE
  BY DEF VisitFunctionDeclaration, Emits
<1>2. opened = "none" /\ Arm /\ w \in Words
  BY ValuesAssumption DEF ToyInv, Arm, Words
<1>3. Good(Fresh) /\ Neat(Fresh) /\ Bounded(Fresh) /\ Talked(Fresh) = <<>> /\ Len(Fresh.code) = 0
  BY <1>2, FreshFacts
<1>4. Plus(Fresh, t, "const", w, NoReg, w)
  BY <1>2, <1>3, ConstPlus
<1> HIDE DEF t
<1> DEFINE s == Fresh
<1>5. Good(s) /\ Neat(s) /\ Plus(s, t, "const", w, NoReg, w) /\ Bounded(s) /\ Talked(s) = <<>> /\ Len(s.code) = 0
  BY <1>3, <1>4
<1> HIDE DEF s
<1>6. /\ Good(t) /\ Len(t.code) = 1 /\ t.code[1].op = "const" /\ t.meant[1] = w
  <2>1. /\ Good(t) /\ Len(t.code) = Len(s.code) + 1 /\ t.code[Len(t.code)].op = "const"
        /\ t.meant[Len(t.code)] = w
    <3>1. Good(s) /\ Plus(s, t, "const", w, NoReg, w)
      BY <1>5
    <3> QED
      BY ONLY <3>1, PlusFacts
  <2>2. Len(t.code) = 1
    BY <1>5, <2>1
  <2> QED
    BY <2>1, <2>2
<1>7. Keeps(0, s, t, 1)
  BY <1>5, PlusKeeps
<1>8. Neat(t) /\ Talked(t) = <<>> /\ Bounded(t)
  BY <1>5, <1>7, OneIsNarrow DEF Keeps, Follows
<1>9. Meaning(t, 1) = w
  BY <1>6 DEF Meaning, Variable, Caching
<1>10. \A m \in Names : /\ env'[m] = IF m = n THEN 1 ELSE NoReg
                        /\ src'[m] = IF m = n THEN w ELSE NoWord
  BY <1>1 DEF ScopeOf
<1>11. \A m \in Names :
         /\ env'[m] \in 0..Len(t.code)
         /\ env'[m] # NoReg => /\ t.code[env'[m]].op \in {"const", "stack"}
                               /\ \A j \in Names : env'[j] = env'[m] => j = m
         /\ Clear' /\ env'[m] # NoReg => src'[m] \in Words /\ Meaning(t, env'[m]) = src'[m]
  <2> SUFFICES ASSUME NEW m \in Names
               PROVE  /\ env'[m] \in 0..Len(t.code)
                      /\ env'[m] # NoReg => /\ t.code[env'[m]].op \in {"const", "stack"}
                                            /\ \A j \in Names : env'[j] = env'[m] => j = m
                      /\ env'[m] # NoReg => src'[m] \in Words /\ Meaning(t, env'[m]) = src'[m]
    OBVIOUS
  <2>1. CASE m = n
    BY <1>2, <1>6, <1>9, <1>10, <2>1 DEF NoReg
  <2>2. CASE m # n
    BY <1>6, <1>10, <2>2 DEF NoReg
  <2> QED
    BY <2>1, <2>2
<1>12. ScopeTypes'
  <2>1. env' \in [Names -> Nat] /\ DOMAIN src' = Names
    BY <1>1 DEF ScopeOf, NoReg
  <2>2. undefined' \in BOOLEAN /\ unfaithful' \in BOOLEAN
    <3>1. undefined' \in BOOLEAN
      BY <1>1
    <3>2. unfaithful' \in BOOLEAN
      BY <1>1
    <3> QED
      BY <3>1, <3>2
  <2>3. current' \in declared' /\ Imported \subseteq declared' /\ bodies' \subseteq declared'
    BY <1>1 DEF ToyInv, ScopeTypes
  <2>4. declared' \subseteq Functions
    BY <1>1 DEF ToyInv, ScopeTypes
  <2>5. failed' = failed
    BY <1>1
  <2> QED
    BY <2>1, <2>2, <2>3, <2>4, <2>5 DEF ToyInv, ScopeTypes
<1>13. (Clear' => said' = Talked(t)) /\ (Clear' => Bounded(t))
  BY <1>1, <1>8
<1>14. Become(t) /\ opened' = opened
  BY <1>1
<1> QED
  BY ONLY ToyInv, <1>6, <1>8, <1>11, <1>12, <1>13, <1>14, InvNext

LEMMA PopKeepsInv == ToyInv /\ PopFunctionBuilder => ToyInv'
<1> SUFFICES ASSUME ToyInv, PopFunctionBuilder PROVE ToyInv'
  OBVIOUS
<1>1. UNCHANGED <<vars, env, src, said, undefined, unfaithful>>
  BY DEF PopFunctionBuilder, ghosts
<1>2. ScopeTypes'
  BY DEF PopFunctionBuilder, ghosts, ToyInv, ScopeTypes
<1> QED
  BY <1>1, <1>2, InvStays DEF Clear

LEMMA ReturnNothingKeepsInv == ToyInv /\ VisitReturnNothing => ToyInv'
<1> SUFFICES ASSUME ToyInv, VisitReturnNothing PROVE ToyInv'
  OBVIOUS
<1>1. UNCHANGED <<vars, env, src, said, unfaithful>> /\ undefined'
  BY DEF VisitReturnNothing, scope
<1>2. ScopeTypes'
  BY DEF VisitReturnNothing, scope, ToyInv, ScopeTypes
<1> QED
  BY <1>1, <1>2, InvStays DEF Clear

LEMMA InitToy == ToyInit => ToyInv
<1> SUFFICES ASSUME ToyInit PROVE ToyInv
  OBVIOUS
<1>1. Init /\ opened = "none"
  BY DEF ToyInit, Init
<1>2. state = Fresh
  BY <1>1 DEF Init, state, Fresh
<1>3. GoodState
  BY <1>1, InitGood
<1>4. ScopeTypes
  BY ToyAssumption DEF ToyInit, ScopeTypes, NoReg
<1>5. Neat(state) /\ Bounded(state) /\ Talked(state) = <<>> /\ Len(state.code) = 0
  BY <1>1, <1>2, FreshFacts
<1>6. \A n \in Names : env[n] = NoReg
  BY DEF ToyInit
<1>7. Named(state) /\ Denotes(state)
  BY <1>5, <1>6 DEF Named, Denotes, NoReg
<1> QED
  BY <1>1, <1>3, <1>4, <1>5, <1>7 DEF ToyInv, ToyInit

LEMMA ToyInductive == ToyInv /\ [ToyNext]_toyVars => ToyInv'
<1> SUFFICES ASSUME ToyInv, [ToyNext]_toyVars PROVE ToyInv'
  OBVIOUS
<1>1. ASSUME NEW f \in Functions, NEW n \in Names, NEW w \in Literals, VisitFunctionDeclaration(f, n, w)
      PROVE  ToyInv'
  BY <1>1, FunctionKeepsInv
<1>2. CASE PopFunctionBuilder
  BY <1>2, PopKeepsInv
<1>3. ASSUME NEW n \in Names, NEW e \in Expressions, VisitDeclaration(n, e) PROVE ToyInv'
  BY <1>3, DeclarationKeepsInv
<1>4. CASE VisitOtherDeclaration
  <2>1. {"let", "not implemented", "crash"} \subseteq Failures
    BY DEF Failures
  <2> QED
    BY <1>4, <2>1, ThrowKeepsInv DEF VisitOtherDeclaration
<1>5. ASSUME NEW l \in Expressions, NEW e \in Expressions, VisitAssignment(l, e) PROVE ToyInv'
  BY <1>5, AssignmentKeepsInv
<1>6. ASSUME NEW e \in Expressions, VisitStatement(e) PROVE ToyInv'
  BY <1>6, StatementKeepsInv
<1>7. ASSUME NEW e \in Expressions, VisitReturn(e) PROVE ToyInv'
  BY <1>7, ReturnKeepsInv
<1>8. CASE VisitReturnNothing
  BY <1>8, ReturnNothingKeepsInv
<1>9. CASE VisitContinue
  <2>1. {"not implemented"} \subseteq Failures
    BY DEF Failures
  <2> QED
    BY <1>9, <2>1, ThrowKeepsInv DEF VisitContinue
<1>10. ASSUME NEW e \in Expressions, VisitFaulty(e) PROVE ToyInv'
  <2>1. Faults(e) \subseteq Failures
    BY DEF Faults, Failures
  <2> QED
    BY <1>10, <2>1, ThrowKeepsInv DEF VisitFaulty
<1>11. CASE UNCHANGED toyVars
  <2>1. UNCHANGED <<vars, env, src, said, undefined, unfaithful>>
    BY <1>11 DEF toyVars, scope, ghosts
  <2>2. ScopeTypes'
    BY <1>11 DEF toyVars, scope, ghosts, ToyInv, ScopeTypes
  <2> QED
    BY <2>1, <2>2, InvStays DEF Clear
<1>12. CASE VisitBareFunctionDeclaration
  <2>1. {"crash"} \subseteq Failures
    BY DEF Failures
  <2> QED
    BY <1>12, <2>1, ThrowKeepsInv DEF VisitBareFunctionDeclaration
<1> QED
  BY <1>1, <1>2, <1>3, <1>4, <1>5, <1>6, <1>7, <1>8, <1>9, <1>10, <1>11, <1>12 DEF ToyNext

LEMMA AlwaysToyInv == ToySpec => []ToyInv
BY InitToy, ToyInductive, PTL DEF ToySpec

-----------------------------------------------------------------------------
(* What follows. *)

\* Names denote arguments and variables of the operation being compiled, and
\* only declared operations have a body.
THEOREM ToyTypes == ToySpec => []ToyTypeOK
<1>1. ToyInv => ToyTypeOK
  <2> SUFFICES ASSUME ToyInv PROVE ToyTypeOK
    OBVIOUS
  <2>1. ScopeTypes /\ Named(state) /\ state.code = code
    BY DEF ToyInv, state
  <2>2. env \in [Names -> 0..Len(code)] /\ \A n \in Names : env[n] # NoReg => code[env[n]].op \in {"const", "stack"}
    BY <2>1 DEF ScopeTypes, Named
  <2> QED
    BY <2>1, <2>2 DEF ScopeTypes, ToyTypeOK
<1> QED
  BY <1>1, AlwaysToyInv, PTL

\* Whatever program is compiled, no value is read through a cache that a store
\* has made stale: the compiler reads between set() and the next store, and
\* assigns with writeValue, which empties the only cache of the cell.
THEOREM CompilerNeverStale == ToySpec => []NeverStale
<1>1. ToyInv => NeverStale
  BY DEF ToyInv, Neat, NeverStale, state
<1> QED
  BY <1>1, AlwaysToyInv, PTL

\* An operation that stays inside its arrays is compiled to code that does,
\* unless it has an array of several wide elements, or a value that was
\* computed with the wrong operator.  (For such arrays the run elements refutes
\* the property.)
THEOREM AddressesStayInBounds == ToySpec => []AddressesInBounds
<1>1. ToyInv => AddressesInBounds
  <2> SUFFICES ASSUME ToyInv, Clear PROVE StaysInside
    BY DEF AddressesInBounds, Clear
  <2>1. Bounded(state) /\ state.code = code /\ state.meant = meant
    BY DEF ToyInv, state
  <2>2. DOMAIN code = 1..Len(code)
    BY StateFacts DEF ToyInv
  <2> QED
    BY <2>1, <2>2 DEF Bounded, StaysInside, Inside
<1> QED
  BY <1>1, AlwaysToyInv, PTL

\* The verifier accepts what the compiler emits: all of it is straight code.
LEMMA StraightIsAccepted ==
  ASSUME ToyInv
  PROVE  Accepted /\ \A i \in DOMAIN code : code[i].block \in {"const", "entry"}
<1>1. /\ GoodState /\ opened = "none" /\ Neat(state) /\ state.code = code
  BY DEF ToyInv, state
<1>2. /\ DOMAIN code = 1..Len(code) /\ Len(code) \in Nat
      /\ \A i \in DOMAIN code : Fits(state, i) /\ Lies(code[i]) /\ code[i].op \in Ops
  BY <1>1, StateFacts
<1>3. \A i \in DOMAIN code : code[i].block \in {"const", "entry"}
  BY <1>1, <1>2 DEF Neat, Lies
<1>4. ASSUME NEW i \in DOMAIN code, NEW r \in Uses(i) PROVE r \in DOMAIN code
  <2>1. r \in 1..(i - 1)
    BY <1>1, <1>2, <1>4 DEF Uses, Fits, Ops
  <2> QED
    BY <1>2, <2>1
<1>5. Accepted
  BY <1>3, <1>4 DEF Accepted, Dominates
<1> QED
  BY <1>3, <1>5

\* A compiled operation passes to functions, in order, and returns what its
\* source says, for every program of any expressions: names are read lazily,
\* caches outlive statements, and the operands of an operation are visited
\* before any of them is read.  What is excused can be seen in the source:
\* minus, divide, and arrays of several wide elements.
THEOREM CompilerMeansSource == ToySpec => []CompiledMeansSource
<1>1. ToyInv => CompiledMeansSource
  <2> SUFFICES ASSUME ToyInv, Clear PROVE Heard = said
    BY DEF CompiledMeansSource, Clear
  <2>1. /\ GoodState /\ ~staleRead /\ opened = "none" /\ said = Talked(state)
        /\ state.code = code /\ state.meant = meant
    BY DEF ToyInv, Neat, state
  <2>2. /\ DOMAIN code = 1..Len(code) /\ Len(code) \in Nat
        /\ \A i \in DOMAIN code : Fits(state, i)
    BY <2>1, StateFacts
  <2>3. Accepted /\ \A i \in DOMAIN code : code[i].block \in {"const", "entry"}
    BY StraightIsAccepted
  <2> DEFINE reg == Run("no arm")
  <2>4. \A i \in DOMAIN code : reg[i] = meant[i]
    <3>1. RunAgrees
      BY <2>1, GoodRunsAgree
    <3>2. "no arm" \in Ways
      BY <2>1 DEF Ways
    <3> QED
      BY <2>1, <2>3, <3>1, <3>2 DEF RunAgrees
  <2> HIDE DEF reg
  <2>5. ASSUME NEW k \in 1..Len(code) PROVE Talk(code[k], reg) = Talk(code[k], meant)
    <3>1. CASE code[k].op \in {"call", "ret"}
      <4>1. code[k].x \in 1..(k - 1)
        BY <2>1, <2>2, <3>1 DEF Fits
      <4>2. reg[code[k].x] = meant[code[k].x]
        BY <2>2, <2>4, <4>1
      <4> QED
        BY <4>2 DEF Talk
    <3>2. CASE code[k].op \notin {"call", "ret"}
      BY <3>2 DEF Talk
    <3> QED
      BY <3>1, <3>2
  <2>6. Spoken(code, reg) = Spoken(code, meant)
    BY <2>2, <2>5, SpokenSame
  <2> QED
    BY <2>1, <2>6 DEF Heard, Talked, reg
<1> QED
  BY <1>1, AlwaysToyInv, PTL
=============================================================================
