----------------------- MODULE StructuredProgramProofs -----------------------
(* Theorems about StructuredProgram, for every set of segments. *)
EXTENDS StructuredProgram, Naturals, TLAPS

\* Only segments that were made are named, and those to come are blank.
Shape ==
  /\ ended \subseteq made /\ made \subseteq Segments
  /\ next \in [Segments -> SUBSET made]
  /\ cont \in [Segments -> made \cup {Caller}]
  /\ \A s \in New : cont[s] = Caller
  /\ \A s \in Segments \ ended : next[s] = {}

\* An arm is entered from its condition; no region continues there.
Continued == {cont[x] : x \in Segments}
Meets(s, join) ==
  /\ cont[join] = cont[s]
  /\ \A t \in next[s] : t = join \/ (cont[t] = join /\ t \notin Continued)

StrongMeet ==
  \A s \in ended : next[s] \subseteq {cont[s]} \/ \E join \in made : Meets(s, join)

MeetInv == Shape /\ StrongMeet

LEMMA MeetInit == Init => MeetInv
BY DEF Init, MeetInv, Shape, StrongMeet, New

LEMMA MeetBegin ==
  ASSUME MeetInv, NEW s \in New, Begin(s)
  PROVE  MeetInv'
BY DEF MeetInv, Shape, StrongMeet, Begin, New, Meets, Continued

LEMMA MeetCondition ==
  ASSUME MeetInv, NEW s \in Open, NEW arm \in New, NEW join \in New,
         Caller \notin Segments, Condition(s, arm, join)
  PROVE  MeetInv'
<1> USE DEF MeetInv, New, Open
<1>1. /\ s \in made /\ s \in Segments /\ s # arm /\ s # join
      /\ arm \in Segments /\ join \in Segments /\ arm # join
      /\ cont[arm] = Caller /\ cont[join] = Caller
  BY DEF Shape, Condition
<1>2. /\ made' = made \cup {arm, join} /\ ended' = ended \cup {s}
      /\ next' = [next EXCEPT ![s] = {arm, join}]
      /\ cont' = [cont EXCEPT ![arm] = join, ![join] = cont[s]]
  BY DEF Condition
<1>3. \A x \in Segments : cont'[x] = IF x = join THEN cont[s] ELSE IF x = arm THEN join ELSE cont[x]
  BY <1>1, <1>2 DEF Shape
<1>4. Shape'
  BY <1>1, <1>2, <1>3 DEF Shape
<1>5. Continued' \subseteq Continued \cup {join}
  BY <1>1, <1>3 DEF Continued
<1>6. arm \notin Continued' /\ Continued \subseteq made \cup {Caller}
  BY <1>1, <1>5 DEF Shape, Continued
<1>7. ASSUME NEW r \in ended'
      PROVE  next'[r] \subseteq {cont'[r]} \/ \E j \in made' : Meets(r, j)'
  <2>1. CASE r = s
    <3>1. next'[s] = {arm, join} /\ cont'[s] = cont[s] /\ cont'[join] = cont[s] /\ cont'[arm] = join
      BY <1>1, <1>2, <1>3 DEF Shape
    <3> QED
      BY <2>1, <3>1, <1>2, <1>6 DEF Meets
  <2>2. CASE r # s
    <3>1. r \in ended /\ r \in made /\ next'[r] = next[r] /\ cont'[r] = cont[r] /\ next[r] \subseteq made
      BY <2>2, <1>1, <1>2, <1>3 DEF Shape
    <3>2. ASSUME NEW j \in made, Meets(r, j)
          PROVE  Meets(r, j)'
      BY <3>1, <3>2, <1>1, <1>3, <1>5 DEF Meets, Shape
    <3> QED
      BY <3>1, <3>2, <1>2 DEF StrongMeet
  <2> QED
    BY <2>1, <2>2
<1> QED
  BY <1>4, <1>7 DEF StrongMeet

LEMMA MeetAlternative ==
  ASSUME MeetInv, NEW s \in ended, NEW arm \in Open, NEW other \in New,
         Caller \notin Segments, Alternative(s, arm, other)
  PROVE  MeetInv'
<1> DEFINE join == cont[arm]
<1> USE DEF MeetInv, New, Open
<1>1. /\ s \in made /\ s \in Segments /\ arm \in made /\ arm \in Segments /\ s # arm
      /\ other \in Segments /\ other # s /\ other # arm /\ cont[other] = Caller
  BY DEF Shape
<1>2. /\ join \in next[s] /\ cont[s] # join
      /\ \A r \in Segments : join \in next[r] => r = s
  BY <1>1 DEF Alternative
<1>3. join \in made /\ join # other /\ join \in Continued /\ join \in Segments
  BY <1>1, <1>2 DEF Shape, Continued
<1>4. /\ made' = made \cup {other} /\ ended' = ended \cup {arm}
      /\ next' = [next EXCEPT ![s] = (@ \ {join}) \cup {other}, ![arm] = {join}]
      /\ cont' = [cont EXCEPT ![other] = join]
  BY DEF Alternative
<1>5. \A x \in Segments : cont'[x] = IF x = other THEN join ELSE cont[x]
  BY <1>1, <1>4 DEF Shape
<1>6. \A x \in Segments : next'[x] = IF x = arm THEN {join}
                                     ELSE IF x = s THEN (next[s] \ {join}) \cup {other} ELSE next[x]
  BY <1>1, <1>4 DEF Shape
<1>7. Shape'
  BY <1>1, <1>3, <1>4, <1>5, <1>6 DEF Shape
<1>8. Continued' \subseteq Continued
  BY <1>1, <1>3, <1>5 DEF Continued
<1>9. Continued \subseteq made \cup {Caller}
  BY DEF Shape, Continued
<1>10. ASSUME NEW r \in ended'
       PROVE  next'[r] \subseteq {cont'[r]} \/ \E j \in made' : Meets(r, j)'
  <2>1. CASE r = arm
    BY <2>1, <1>1, <1>5, <1>6
  <2>2. CASE r = s
    <3>1. PICK j \in made : Meets(s, j)
      BY <1>2 DEF StrongMeet
    <3>2. join = j
      BY <3>1, <1>2, <1>3 DEF Meets
    <3>3. other \notin Continued' /\ cont'[other] = join /\ cont'[s] = cont[s] /\ cont'[join] = cont[join]
      BY <1>1, <1>3, <1>5, <1>8, <1>9
    <3>4. \A t \in next[s] : t \in made /\ t # other /\ cont'[t] = cont[t]
      BY <1>1, <1>5 DEF Shape
    <3>5. Meets(s, j)'
      BY <3>1, <3>2, <3>3, <3>4, <1>1, <1>6, <1>8 DEF Meets
    <3> QED
      BY <2>2, <3>5, <1>4
  <2>3. CASE r # arm /\ r # s
    <3>1. r \in ended /\ r \in made /\ next'[r] = next[r] /\ cont'[r] = cont[r] /\ next[r] \subseteq made
      BY <2>3, <1>1, <1>4, <1>5, <1>6 DEF Shape
    <3>2. ASSUME NEW j \in made, Meets(r, j)
          PROVE  Meets(r, j)'
      BY <3>1, <3>2, <1>1, <1>5, <1>8 DEF Meets, Shape
    <3> QED
      BY <3>1, <3>2, <1>4 DEF StrongMeet
  <2> QED
    BY <2>1, <2>2, <2>3
<1> QED
  BY <1>7, <1>10 DEF StrongMeet

LEMMA MeetComplete ==
  ASSUME MeetInv, NEW S \in SUBSET Open, Complete(S)
  PROVE  MeetInv'
<1> USE DEF MeetInv, New, Open
<1>1. Shape'
  BY DEF Shape, Complete
<1>2. Continued' = Continued /\ made' = made /\ cont' = cont
  BY DEF Complete, Continued
<1>3. ASSUME NEW r \in ended'
      PROVE  next'[r] \subseteq {cont'[r]} \/ \E j \in made' : Meets(r, j)'
  <2>1. CASE r \in S
    BY <2>1 DEF Complete, Shape
  <2>2. CASE r \notin S
    <3>1. r \in ended /\ next'[r] = next[r]
      BY <2>2 DEF Complete, Shape
    <3>2. ASSUME NEW j \in made, Meets(r, j)
          PROVE  Meets(r, j)'
      BY <3>1, <3>2, <1>2 DEF Meets
    <3> QED
      BY <3>1, <3>2, <1>2 DEF StrongMeet
  <2> QED
    BY <2>1, <2>2
<1> QED
  BY <1>1, <1>3 DEF StrongMeet

LEMMA MeetReturn ==
  ASSUME MeetInv, NEW s \in Open, Return(s)
  PROVE  MeetInv'
BY DEF MeetInv, Shape, StrongMeet, Return, New, Open, Meets, Continued

LEMMA MeetBreak == ASSUME Break PROVE MeetInv'
BY DEF Break, Blank, MeetInv, Shape, StrongMeet, New

LEMMA MeetInductive ==
  ASSUME Caller \notin Segments
  PROVE  Spec => []MeetInv
<1>1. Init => MeetInv
  BY MeetInit
<1>2. MeetInv /\ [Next]_vars => MeetInv'
  <2> SUFFICES ASSUME MeetInv, [Next]_vars PROVE MeetInv'
    OBVIOUS
  <2>1. CASE UNCHANGED vars
    BY <2>1 DEF vars, MeetInv, Shape, StrongMeet, Meets, Continued, New
  <2>2. CASE Next
    BY <2>2, MeetBegin, MeetCondition, MeetAlternative, MeetComplete, MeetReturn, MeetBreak DEF Next
  <2> QED
    BY <2>1, <2>2
<1> QED
  BY <1>1, <1>2, PTL DEF Spec

\* In a structured program all ways out of a condition meet again, at a segment
\* of the same region (scope-builder.cpp:16-116 builds no other programs).
THEOREM WaysAlwaysMeet ==
  ASSUME Caller \notin Segments
  PROVE  Spec => []WaysMeet
<1>1. MeetInv => WaysMeet
  BY DEF MeetInv, StrongMeet, Meets, WaysMeet
<1> QED
  BY <1>1, MeetInductive, PTL

-----------------------------------------------------------------------------
(* Control only goes forward.                                                *)

\* rank orders the segments: control goes up, and so does the way from a region
\* to its continuation.
Ordered(rank) ==
  \A s \in made : \A t \in next[s] \cup ({cont[s]} \ {Caller}) : rank[s] < rank[t]

Acyclic == \E rank \in [Segments -> Nat] : Ordered(rank)

\* The ranks are spread to make room for an arm and its join above s, and below
\* what s continues at.
LEMMA OrderCondition ==
  ASSUME MeetInv, Acyclic, NEW s \in Open, NEW arm \in New, NEW join \in New,
         Caller \notin Segments, Condition(s, arm, join)
  PROVE  Acyclic'
<1>1. PICK rank \in [Segments -> Nat] : Ordered(rank)
  BY DEF Acyclic
<1> DEFINE spread == [x \in Segments |-> IF x = arm THEN 3 * rank[s] + 1 ELSE
                                         IF x = join THEN 3 * rank[s] + 2 ELSE 3 * rank[x]]
<1>2. /\ s \in made /\ s \in Segments /\ s # arm /\ s # join
      /\ arm \in Segments /\ join \in Segments /\ arm # join
      /\ arm \notin made /\ join \notin made
      /\ next[s] = {} /\ next[arm] = {} /\ next[join] = {}
  BY DEF MeetInv, Shape, Condition, New, Open
<1>3. /\ made' = made \cup {arm, join}
      /\ \A x \in Segments : next'[x] = IF x = s THEN {arm, join} ELSE next[x]
      /\ \A x \in Segments : cont'[x] = IF x = join THEN cont[s] ELSE IF x = arm THEN join ELSE cont[x]
  BY <1>2 DEF MeetInv, Shape, Condition
<1>4. \A x \in made : next[x] \subseteq made /\ cont[x] \in made \cup {Caller} /\ x \in Segments
  BY DEF MeetInv, Shape
<1>5. \A x \in made : spread[x] = 3 * rank[x] /\ rank[x] \in Nat
  BY <1>2, <1>4
<1>6. spread[arm] = 3 * rank[s] + 1 /\ spread[join] = 3 * rank[s] + 2
  BY <1>2
<1>7. spread \in [Segments -> Nat]
  BY <1>2
<1> HIDE DEF spread
<1>8. ASSUME NEW x \in made', NEW t \in next'[x] \cup ({cont'[x]} \ {Caller})
      PROVE  spread[x] < spread[t]
  <2>1. CASE x = arm
    BY <2>1, <1>2, <1>3, <1>5, <1>6
  <2>2. CASE x = join
    <3>1. t = cont[s] /\ t \in made
      BY <2>2, <1>2, <1>3, <1>4
    <3>2. rank[s] < rank[t]
      BY <3>1, <1>1, <1>2, <1>4, <2>2, <1>3 DEF Ordered
    <3> QED
      BY <2>2, <3>1, <3>2, <1>2, <1>5, <1>6
  <2>3. CASE x = s
    <3>1. t \in {arm, join} \/ (t = cont[s] /\ t # Caller)
      BY <2>3, <1>2, <1>3
    <3>2. CASE t = cont[s] /\ t # Caller
      <4>1. rank[s] < rank[t] /\ t \in made
        BY <3>2, <1>1, <1>2, <1>4 DEF Ordered
      <4> QED
        BY <2>3, <4>1, <1>2, <1>5
    <3> QED
      BY <2>3, <3>1, <3>2, <1>2, <1>5, <1>6
  <2>4. CASE x \in made /\ x # s
    <3>1. x # arm /\ x # join /\ t \in next[x] \cup ({cont[x]} \ {Caller}) /\ t \in made
      BY <2>4, <1>2, <1>3, <1>4
    <3>2. rank[x] < rank[t]
      BY <2>4, <3>1, <1>1 DEF Ordered
    <3> QED
      BY <2>4, <3>1, <3>2, <1>5
  <2> QED
    BY <2>1, <2>2, <2>3, <2>4, <1>3
<1> QED
  BY <1>7, <1>8 DEF Acyclic, Ordered

\* The other arm is placed between the condition and the join.
LEMMA OrderAlternative ==
  ASSUME MeetInv, Acyclic, NEW s \in ended, NEW arm \in Open, NEW other \in New,
         Caller \notin Segments, Alternative(s, arm, other)
  PROVE  Acyclic'
<1> DEFINE join == cont[arm]
<1>1. PICK rank \in [Segments -> Nat] : Ordered(rank)
  BY DEF Acyclic
<1> DEFINE spread == [x \in Segments |-> IF x = other THEN 2 * rank[s] + 1 ELSE 2 * rank[x]]
<1>2. /\ s \in made /\ s \in Segments /\ arm \in made /\ arm \in Segments /\ s # arm
      /\ other \in Segments /\ other \notin made /\ next[other] = {}
  BY DEF MeetInv, Shape, New, Open
<1>3. join \in next[s] /\ join \in made /\ join # Caller
  BY <1>2 DEF MeetInv, Shape, Alternative
<1>4. /\ made' = made \cup {other}
      /\ \A x \in Segments : next'[x] = IF x = arm THEN {join}
                                        ELSE IF x = s THEN (next[s] \ {join}) \cup {other} ELSE next[x]
      /\ \A x \in Segments : cont'[x] = IF x = other THEN join ELSE cont[x]
  BY <1>2 DEF MeetInv, Shape, Alternative
<1>5. \A x \in made : next[x] \subseteq made /\ cont[x] \in made \cup {Caller} /\ x \in Segments
  BY DEF MeetInv, Shape
<1>6. \A x \in made : spread[x] = 2 * rank[x] /\ rank[x] \in Nat
  BY <1>2, <1>5
<1>7. spread[other] = 2 * rank[s] + 1 /\ spread \in [Segments -> Nat]
  BY <1>2
<1> HIDE DEF spread, join
<1>8. rank[s] < rank[join] /\ rank[arm] < rank[join]
  BY <1>1, <1>2, <1>3 DEF Ordered, join
<1>9. ASSUME NEW x \in made', NEW t \in next'[x] \cup ({cont'[x]} \ {Caller})
      PROVE  spread[x] < spread[t]
  <2>1. CASE x = other
    <3>1. t = join
      BY <2>1, <1>2, <1>4
    <3> QED
      BY <2>1, <3>1, <1>2, <1>3, <1>6, <1>7, <1>8
  <2>2. CASE t = other
    <3>1. x = s
      BY <2>2, <1>2, <1>3, <1>4, <1>5
    <3> QED
      BY <2>2, <3>1, <1>2, <1>6, <1>7
  <2>3. CASE x \in made /\ t # other
    <3>1. (x = arm /\ t = join) \/ t \in next[x] \cup ({cont[x]} \ {Caller})
      BY <2>3, <1>2, <1>4, <1>5
    <3>2. rank[x] < rank[t] /\ t \in made
      BY <2>3, <3>1, <1>1, <1>3, <1>5, <1>8 DEF Ordered
    <3> QED
      BY <2>3, <3>2, <1>6
  <2> QED
    BY <2>1, <2>2, <2>3, <1>4
<1> QED
  BY <1>7, <1>9 DEF Acyclic, Ordered

\* The other steps add no way that was not one to a continuation.
LEMMA OrderOthers ==
  ASSUME MeetInv, Acyclic,
         \/ \E s \in New : Begin(s)
         \/ \E s \in Open : Return(s)
         \/ \E S \in SUBSET Open : Complete(S)
         \/ UNCHANGED vars
  PROVE  Acyclic'
<1>1. PICK rank \in [Segments -> Nat] : Ordered(rank)
  BY DEF Acyclic
<1>2. cont' = cont
  BY DEF Begin, Return, Complete, vars
<1>3. ASSUME NEW x \in made'
      PROVE  next'[x] \subseteq next[x] \cup ({cont[x]} \ {Caller})
  BY <1>3 DEF Begin, Return, Complete, vars, MeetInv, Shape, New, Open
<1>4. ASSUME NEW x \in made', x \notin made
      PROVE  next[x] = {} /\ cont[x] = Caller
  BY <1>4 DEF Begin, Return, Complete, vars, MeetInv, Shape, New, Open
<1>5. Ordered(rank)'
  BY <1>1, <1>2, <1>3, <1>4 DEF Ordered
<1> QED
  BY <1>5 DEF Acyclic

\* No sequence of calls builds a loop: there is an order of the segments in
\* which control only goes up.
THEOREM NoLoops ==
  ASSUME Caller \notin Segments
  PROVE  Spec => []Acyclic
<1>1. Init => Acyclic
  <2> SUFFICES ASSUME Init PROVE Ordered([s \in Segments |-> 0])
    BY DEF Acyclic
  <2> QED
    BY DEF Init, Ordered
<1>2. MeetInv /\ Acyclic /\ [Next]_vars => Acyclic'
  <2> SUFFICES ASSUME MeetInv, Acyclic, [Next]_vars PROVE Acyclic'
    OBVIOUS
  <2>1. CASE Break
    <3>1. Ordered([s \in Segments |-> 0])'
      BY <2>1 DEF Break, Blank, Ordered
    <3> QED
      BY <3>1 DEF Acyclic
  <2> QED
    BY <2>1, OrderCondition, OrderAlternative, OrderOthers DEF Next
<1> QED
  BY <1>1, <1>2, MeetInductive, PTL DEF Spec

\* The two arms of a condition, which go on at the same join, are not joins
\* themselves: no region of the program continues in one of them.
ArmsApart ==
  \A s \in made : \A b, c \in next[s] :
    b # c /\ cont[b] = cont[c] => \A x \in Segments : cont[x] # b

\* So they are only entered from the condition.
THEOREM ArmsStayApart ==
  ASSUME Caller \notin Segments
  PROVE  Spec => []ArmsApart
<1>1. MeetInv /\ Acyclic => ArmsApart
  <2> SUFFICES ASSUME MeetInv, Acyclic, NEW s \in made, NEW b \in next[s], NEW c \in next[s],
                      b # c, cont[b] = cont[c], NEW x \in Segments, cont[x] = b
               PROVE  FALSE
    BY DEF ArmsApart
  <2>1. s \in ended /\ s \in Segments /\ b \in made /\ b # Caller
    BY DEF MeetInv, Shape
  <2>2. ~(next[s] \subseteq {cont[s]})
    OBVIOUS
  <2>3. PICK join \in made : Meets(s, join)
    BY <2>1, <2>2 DEF MeetInv, StrongMeet
  <2>4. b \in Continued
    BY DEF Continued
  <2>5. b = join /\ cont[c] = join
    BY <2>3, <2>4 DEF Meets
  <2>6. PICK rank \in [Segments -> Nat] : Ordered(rank)
    BY DEF Acyclic
  <2>7. rank[b] < rank[b] /\ rank[b] \in Nat
    BY <2>1, <2>5, <2>6 DEF Ordered, MeetInv, Shape
  <2> QED
    BY <2>7
<1> QED
  BY <1>1, MeetInductive, NoLoops, PTL
=============================================================================
