----------------------------- MODULE TsortProofs -----------------------------
(***************************************************************************)
(* Theorems about tsort(), for every grammar: it throws only where there   *)
(* is a cycle, and else the new deque has each non-terminal once, each     *)
(* before those it uses when the axiom leads to all of them.               *)
(*                                                                         *)
(* The argument is that of depth-first search.  The vertices on the stack  *)
(* are a path; an edge already followed leads from one of them to the next *)
(* one or to a finished vertex; a finished vertex uses only vertices that  *)
(* finished before.  Hence an edge back into the stack closes a cycle, and *)
(* in the reverse of the order of finishing all edges lead forward.        *)
(***************************************************************************)
EXTENDS Tsort, SequenceTheorems, FiniteSetTheorems, WellFoundedInduction, TLAPS

Fixed == /\ IsGrammar(g)
         /\ NTs(g) = Range(ByName)
         /\ Len(g.order) = Len(ByName)

VarTypes ==
    /\ colour \in [NTs(g) -> {"white", "gray", "black"}]
    /\ stack \in Seq(NTs(g))
    /\ left \in [NTs(g) -> SUBSET Refs(g)]
    /\ ordering \in Seq(NTs(g))
    /\ mode \in {"search", "done", "thrown"}

\* The stack holds each gray vertex once.
GrayOnStack ==
    /\ \A k \in 1..Len(stack) : colour[stack[k]] = "gray"
    /\ \A n \in NTs(g) : colour[n] = "gray" => \E k \in 1..Len(stack) : stack[k] = n
    /\ \A j, k \in 1..Len(stack) : stack[j] = stack[k] => j = k

\* The ordering holds each black vertex once.
BlackInOrder ==
    /\ \A k \in 1..Len(ordering) : colour[ordering[k]] = "black"
    /\ \A n \in NTs(g) : colour[n] = "black" =>
          \E k \in 1..Len(ordering) : ordering[k] = n
    /\ \A j, k \in 1..Len(ordering) : ordering[j] = ordering[k] => j = k

\* What is left to follow are edges, and all of them where no search was.
WhiteUntouched ==
    \A n \in NTs(g) :
        /\ left[n] \subseteq Edges(g, n)
        /\ colour[n] = "white" => left[n] = Edges(g, n)

\* The stack is a path.
OnPath == \A k \in 1..Len(stack) - 1 :
             \E r \in Edges(g, stack[k]) : g.to[r] = stack[k + 1]

\* Where the edges already followed lead.
Followed == mode # "thrown" =>
    \A k \in 1..Len(stack) : \A r \in Edges(g, stack[k]) \ left[stack[k]] :
        \/ colour[g.to[r]] = "black"
        \/ k < Len(stack) /\ g.to[r] = stack[k + 1]

\* A finished vertex uses vertices that finished before it.
UsesFinished ==
    \A k \in 1..Len(ordering) : \A r \in Edges(g, ordering[k]) :
        \E j \in 1..k - 1 : ordering[j] = g.to[r]

IInv == /\ Fixed /\ VarTypes
        /\ GrayOnStack /\ BlackInOrder /\ WhiteUntouched
        /\ OnPath /\ Followed /\ UsesFinished
        /\ ThrowsOnCycle /\ SortedFromAxiom

-----------------------------------------------------------------------------
LEMMA EdgeFacts ==
    ASSUME NEW h, NEW n, NEW r \in Edges(h, n)
    PROVE  h.to[r] \in NTs(h) /\ r \in Refs(h)
  BY DEF Edges, RefsIn

LEMMA InitInv == Init => IInv
  <1> SUFFICES ASSUME Init PROVE IInv
    OBVIOUS
  <1>1. Fixed
    BY GrammarsAssumption, ByNameAssumption DEF Init, Fixed
  <1>2. \A n : Edges(g, n) \subseteq Refs(g)
    BY DEF Edges, RefsIn
  <1>3. VarTypes
    BY <1>2, EmptySeq DEF Init, VarTypes
  <1>4. stack = <<>> /\ ordering = <<>> /\ Len(stack) = 0 /\ Len(ordering) = 0
    BY EmptySeq DEF Init
  <1>5. GrayOnStack /\ BlackInOrder
    BY <1>4 DEF Init, GrayOnStack, BlackInOrder
  <1>6. WhiteUntouched
    BY DEF Init, WhiteUntouched
  <1>7. OnPath /\ Followed /\ UsesFinished
    BY <1>4 DEF OnPath, Followed, UsesFinished
  <1>8. ThrowsOnCycle /\ SortedFromAxiom
    BY DEF Init, ThrowsOnCycle, SortedFromAxiom
  <1> QED BY <1>1, <1>3, <1>5, <1>6, <1>7, <1>8 DEF IInv

\* Before the result is there, what is said of it holds.
LEMMA SearchOnly ==
    ASSUME mode' = "search"
    PROVE  ThrowsOnCycle' /\ SortedFromAxiom'
  BY DEF ThrowsOnCycle, SortedFromAxiom

LEMMA RootInv ==
    ASSUME IInv, NEW k \in DOMAIN ByName, Root(k)
    PROVE  IInv'
  <1> DEFINE n == ByName[k]
  <1>1. n \in NTs(g)
    BY DEF IInv, Fixed, Range
  <1>2. Fixed'
    BY DEF IInv, Fixed, Root
  <1>3. /\ stack' = <<n>> /\ Len(stack') = 1 /\ stack'[1] = n
        /\ Len(stack) = 0
        /\ colour' = [colour EXCEPT ![n] = "gray"]
        /\ UNCHANGED <<g, left, ordering, mode>>
        /\ colour[n] = "white" /\ mode = "search"
    BY DEF Root
  <1>4. VarTypes'
    BY <1>1, <1>3 DEF IInv, VarTypes
  <1>5. GrayOnStack'
    BY <1>1, <1>3 DEF IInv, VarTypes, GrayOnStack
  <1>6. BlackInOrder'
    BY <1>1, <1>3 DEF IInv, VarTypes, BlackInOrder
  <1>7. WhiteUntouched'
    BY <1>1, <1>3 DEF IInv, VarTypes, WhiteUntouched
  <1>8. OnPath'
    BY <1>3 DEF OnPath
  <1>9. Followed'
    BY <1>1, <1>3 DEF IInv, VarTypes, Followed, WhiteUntouched
  <1>10. UsesFinished'
    BY <1>3 DEF IInv, UsesFinished
  <1> QED BY <1>2, <1>3, <1>4, <1>5, <1>6, <1>7, <1>8, <1>9, <1>10, SearchOnly
          DEF IInv

\* The last vertex of the stack, with an edge r left to follow.
LEMMA FollowInv ==
    ASSUME IInv, NEW r \in left[Last(stack)], Follow(Last(stack), r),
           mode = "search", stack # <<>>, UNCHANGED <<g, ordering>>
    PROVE  IInv'
  <1> DEFINE top == Len(stack)
             n == Last(stack)
             m == g.to[r]
  <1>1. /\ top \in Nat /\ top >= 1 /\ n = stack[top] /\ n \in NTs(g)
        /\ \A k \in 1..top : stack[k] \in NTs(g)
    BY DEF IInv, VarTypes, Last
  <1>2. colour[n] = "gray" /\ r \in Edges(g, n)
    BY <1>1 DEF IInv, VarTypes, GrayOnStack, WhiteUntouched
  <1>3. m \in NTs(g)
    BY <1>2, EdgeFacts
  <1>4. left' = [left EXCEPT ![n] = @ \ {r}]
    BY DEF Follow
  <1>5. Fixed'
    BY DEF IInv, Fixed
  <1>6. CASE colour[m] = "white"
    <2>1. /\ colour' = [colour EXCEPT ![m] = "gray"]
          /\ stack' = Append(stack, m) /\ mode' = "search"
      BY <1>6 DEF Follow
    <2>2. /\ stack' \in Seq(NTs(g)) /\ Len(stack') = top + 1
          /\ stack'[top + 1] = m /\ \A k \in 1..top : stack'[k] = stack[k]
      BY <1>1, <1>3, <2>1 DEF IInv, VarTypes
    <2>3. VarTypes'
      BY <1>1, <1>3, <1>4, <2>1, <2>2 DEF IInv, VarTypes
    <2>4. GrayOnStack'
      BY <1>1, <1>3, <1>6, <2>1, <2>2 DEF IInv, VarTypes, GrayOnStack
    <2>5. BlackInOrder'
      BY <1>3, <1>6, <2>1 DEF IInv, VarTypes, BlackInOrder
    <2>6. WhiteUntouched'
      BY <1>2, <1>3, <1>4, <2>1 DEF IInv, VarTypes, WhiteUntouched
    <2>7. OnPath'
      BY <1>1, <1>2, <2>2 DEF IInv, OnPath
    <2>8. Followed'
      <3> SUFFICES ASSUME NEW k \in 1..top + 1,
                          NEW q \in Edges(g, stack'[k]) \ left'[stack'[k]]
                   PROVE  \/ colour'[g.to[q]] = "black"
                          \/ k < top + 1 /\ g.to[q] = stack'[k + 1]
        BY <2>2 DEF Followed
      <3>1. CASE k = top + 1
        BY <1>1, <1>2, <1>3, <1>4, <1>6, <2>2, <3>1 DEF IInv, VarTypes, WhiteUntouched
      <3>2. CASE k = top
        BY <1>1, <1>2, <1>3, <1>4, <1>6, <2>1, <2>2, <3>2, EdgeFacts
           DEF IInv, VarTypes, Followed
      <3>3. CASE k \in 1..top - 1
        <4>1. stack[k] # n /\ stack'[k] = stack[k] /\ stack'[k + 1] = stack[k + 1]
          BY <1>1, <2>2, <3>3 DEF IInv, GrayOnStack
        <4>2. q \in Edges(g, stack[k]) \ left[stack[k]]
          BY <1>4, <4>1, <1>1, <3>3 DEF IInv, VarTypes
        <4>3. \/ colour[g.to[q]] = "black"
              \/ g.to[q] = stack[k + 1]
          BY <1>1, <3>3, <4>2 DEF IInv, Followed
        <4> QED BY <1>1, <1>6, <2>1, <3>3, <4>1, <4>2, <4>3, EdgeFacts
                DEF IInv, VarTypes
      <3> QED BY <1>1, <3>1, <3>2, <3>3
    <2>9. UsesFinished'
      BY DEF IInv, UsesFinished
    <2> QED BY <1>5, <2>1, <2>3, <2>4, <2>5, <2>6, <2>7, <2>8, <2>9, SearchOnly
            DEF IInv
  <1>7. CASE colour[m] # "white"
    <2>1. UNCHANGED <<colour, stack, g, ordering>>
      BY <1>7 DEF Follow
    <2>2. mode' \in {"search", "thrown"} /\ (mode' = "thrown" <=> colour[m] = "gray")
      BY DEF Follow
    <2>3. VarTypes'
      BY <1>1, <1>4, <2>1, <2>2 DEF IInv, VarTypes
    <2>4. GrayOnStack' /\ BlackInOrder' /\ OnPath' /\ UsesFinished'
      <3>1. GrayOnStack'
        BY <2>1 DEF IInv, GrayOnStack
      <3>2. BlackInOrder'
        BY <2>1 DEF IInv, BlackInOrder
      <3>3. OnPath'
        BY <2>1 DEF IInv, OnPath
      <3>4. UsesFinished'
        BY <2>1 DEF IInv, UsesFinished
      <3> QED BY <3>1, <3>2, <3>3, <3>4
    <2>5. WhiteUntouched'
      BY <1>2, <1>4, <2>1 DEF IInv, VarTypes, WhiteUntouched
    <2>6. Followed'
      <3> SUFFICES ASSUME mode' # "thrown", NEW k \in 1..top,
                          NEW q \in Edges(g, stack[k]) \ left'[stack[k]]
                   PROVE  \/ colour[g.to[q]] = "black"
                          \/ k < top /\ g.to[q] = stack[k + 1]
        BY <2>1 DEF Followed
      <3>1. colour[m] = "black"
        BY <1>3, <1>7, <2>2 DEF IInv, VarTypes
      <3>2. CASE q = r
        BY <3>1, <3>2
      <3>3. CASE q # r
        <4>1. q \notin left[stack[k]]
          BY <1>1, <1>4, <3>3 DEF IInv, VarTypes
        <4> QED BY <4>1 DEF IInv, Followed
      <3> QED BY <3>2, <3>3
    <2>7. ThrowsOnCycle'
      <3>1. CASE mode' = "search"
        BY <3>1 DEF ThrowsOnCycle
      <3>2. CASE colour[m] = "gray"
        <4>1. PICK i \in 1..top : stack[i] = m
          BY <1>3, <3>2 DEF IInv, GrayOnStack
        <4> DEFINE S == {stack[k] : k \in i..top}
        <4>2. S \in SUBSET NTs(g) /\ S # {}
          BY <1>1, <4>1
        <4>3. ASSUME NEW k \in i..top
              PROVE  \E q \in Edges(g, stack[k]) : g.to[q] \in S
          <5>1. CASE k = top
            BY <1>1, <1>2, <4>1, <5>1
          <5>2. CASE k # top
            <6>1. k \in 1..top - 1 /\ k + 1 \in i..top
              BY <1>1, <4>1, <5>2
            <6> QED BY <6>1 DEF IInv, OnPath
          <5> QED BY <5>1, <5>2
        <4>4. \A s \in S : \E q \in Edges(g, s) : g.to[q] \in S
          BY <4>3
        <4>5. Cyclic
          BY <4>2, <4>4 DEF Cyclic
        <4>6. Cyclic'
          BY <2>1, <4>5 DEF Cyclic
        <4> QED BY <2>2, <3>2, <4>6 DEF ThrowsOnCycle
      <3> QED BY <2>2, <3>1, <3>2
    <2>8. SortedFromAxiom'
      BY <2>2 DEF SortedFromAxiom
    <2> QED BY <1>5, <2>3, <2>4, <2>5, <2>6, <2>7, <2>8 DEF IInv
  <1> QED BY <1>6, <1>7

LEMMA FinishInv ==
    ASSUME IInv, Finish
    PROVE  IInv'
  <1> DEFINE top == Len(stack)
             n == Last(stack)
             len == Len(ordering)
  <1>1. /\ top \in Nat /\ top >= 1 /\ n = stack[top] /\ n \in NTs(g)
        /\ \A k \in 1..top : stack[k] \in NTs(g)
    BY DEF IInv, VarTypes, Last, Finish
  <1>2. /\ colour[n] = "gray" /\ left[n] = {} /\ mode = "search"
        /\ colour' = [colour EXCEPT ![n] = "black"]
        /\ UNCHANGED <<g, left, mode>>
    BY <1>1 DEF IInv, GrayOnStack, Finish
  <1>3. /\ stack' \in Seq(NTs(g)) /\ Len(stack') = top - 1
        /\ \A k \in 1..top - 1 : stack'[k] = stack[k]
    <2>1. stack' = SubSeq(stack, 1, top - 1)
      BY DEF Finish, Front
    <2>2. /\ stack \in Seq(NTs(g)) /\ 1 \in 1..top + 1 /\ top - 1 \in 0..top
          /\ \A i \in 1..top - 1 : stack[i] \in NTs(g)
      BY <1>1 DEF IInv, VarTypes
    <2>3. /\ SubSeq(stack, 1, top - 1) \in Seq(NTs(g))
          /\ Len(SubSeq(stack, 1, top - 1)) = IF 1 <= top - 1 THEN top - 1 - 1 + 1 ELSE 0
          /\ \A i \in 1..(top - 1 - 1 + 1) :
                SubSeq(stack, 1, top - 1)[i] = stack[1 + i - 1]
      <3>1. 1 \in Int /\ top - 1 \in Int
        BY <1>1
      <3> HIDE DEF top
      <3> QED BY <2>2, <3>1, SubSeqProperties
    <2>4. Len(stack') = top - 1
      <3>1. CASE top = 1
        BY <2>1, <2>3, <3>1
      <3>2. CASE top > 1
        BY <1>1, <2>1, <2>3, <3>2
      <3> QED BY SMTT(20), <1>1, <3>1, <3>2
    <2>5. ASSUME NEW k \in 1..top - 1 PROVE stack'[k] = stack[k]
      <3>1. k \in 1..(top - 1 - 1 + 1) /\ 1 + k - 1 = k
        BY <1>1
      <3> QED BY <2>1, <2>3, <3>1
    <2> QED BY <2>1, <2>3, <2>4, <2>5
  <1>4. /\ len \in Nat /\ ordering' \in Seq(NTs(g)) /\ Len(ordering') = len + 1
        /\ ordering'[len + 1] = n /\ \A k \in 1..len : ordering'[k] = ordering[k]
        /\ \A k \in 1..len : ordering[k] \in NTs(g)
    BY <1>1 DEF Finish, IInv, VarTypes
  <1>5. Fixed'
    BY <1>2 DEF IInv, Fixed
  <1>6. VarTypes'
    BY <1>1, <1>2, <1>3, <1>4 DEF IInv, VarTypes
  <1>7. GrayOnStack'
    <2>1. \A k \in 1..top - 1 : k \in 1..top /\ stack'[k] = stack[k] /\ stack[k] # n
      BY <1>1, <1>3 DEF IInv, GrayOnStack
    <2>2. \A k \in 1..top - 1 : colour'[stack'[k]] = "gray"
      BY <1>1, <1>2, <2>1 DEF IInv, VarTypes, GrayOnStack
    <2>3. ASSUME NEW v \in NTs(g), colour'[v] = "gray"
          PROVE  \E k \in 1..top - 1 : stack'[k] = v
      <3>1. v # n /\ colour[v] = "gray"
        BY <1>1, <1>2, <2>3 DEF IInv, VarTypes
      <3>2. PICK k \in 1..top : stack[k] = v
        BY <3>1 DEF IInv, GrayOnStack
      <3>3. k \in 1..top - 1
        BY <1>1, <3>1, <3>2
      <3> QED BY <2>1, <3>2, <3>3
    <2>4. \A j, k \in 1..top - 1 : stack'[j] = stack'[k] => j = k
      BY <2>1 DEF IInv, GrayOnStack
    <2> QED BY <1>2, <1>3, <2>2, <2>3, <2>4 DEF GrayOnStack
  <1>8. BlackInOrder'
    <2>1. \A k \in 1..len : colour[ordering[k]] = "black" /\ ordering[k] # n
      BY <1>2 DEF IInv, BlackInOrder
    <2>2. \A k \in 1..len + 1 : colour'[ordering'[k]] = "black"
      BY <1>1, <1>2, <1>4, <2>1 DEF IInv, VarTypes
    <2>3. ASSUME NEW v \in NTs(g), colour'[v] = "black"
          PROVE  \E k \in 1..len + 1 : ordering'[k] = v
      <3>1. CASE v = n
        BY <1>4, <3>1
      <3>2. CASE v # n
        <4>1. colour[v] = "black"
          BY <1>1, <1>2, <2>3, <3>2 DEF IInv, VarTypes
        <4>2. PICK k \in 1..len : ordering[k] = v
          BY <4>1 DEF IInv, BlackInOrder
        <4> QED BY <1>4, <4>2
      <3> QED BY <3>1, <3>2
    <2>4. ASSUME NEW j \in 1..len + 1, NEW k \in 1..len + 1,
                 ordering'[j] = ordering'[k]
          PROVE  j = k
      <3>1. CASE j \in 1..len /\ k \in 1..len
        BY <1>4, <2>4, <3>1 DEF IInv, BlackInOrder
      <3>2. CASE j = len + 1 \/ k = len + 1
        BY <1>4, <2>1, <2>4, <3>2
      <3> QED BY <1>4, <3>1, <3>2
    <2> QED BY <1>2, <1>4, <2>2, <2>3, <2>4 DEF BlackInOrder
  <1>9. WhiteUntouched'
    BY <1>1, <1>2 DEF IInv, VarTypes, WhiteUntouched
  <1>10. OnPath'
    <2>1. ASSUME NEW k \in 1..top - 2
          PROVE  \E r \in Edges(g, stack'[k]) : g.to[r] = stack'[k + 1]
      <3>1. /\ k \in 1..top - 1 /\ k + 1 \in 1..top - 1
            /\ stack'[k] = stack[k] /\ stack'[k + 1] = stack[k + 1]
        BY <1>1, <1>3
      <3> QED BY <1>1, <3>1 DEF IInv, OnPath
    <2>2. g' = g /\ 1..Len(stack') - 1 = 1..top - 2
      BY <1>1, <1>2, <1>3
    <2> QED BY <2>1, <2>2 DEF OnPath
  <1>11. Followed'
    <2> SUFFICES ASSUME NEW k \in 1..top - 1,
                        NEW q \in Edges(g, stack[k]) \ left[stack[k]]
                 PROVE  \/ colour'[g.to[q]] = "black"
                        \/ k < top - 1 /\ g.to[q] = stack'[k + 1]
      BY <1>1, <1>2, <1>3 DEF Followed
    <2>1. \/ colour[g.to[q]] = "black"
          \/ k < top /\ g.to[q] = stack[k + 1]
      BY <1>1, <1>2 DEF IInv, Followed
    <2>2. g.to[q] \in NTs(g)
      BY EdgeFacts
    <2>3. CASE k = top - 1
      BY <1>1, <1>2, <2>1, <2>2, <2>3 DEF IInv, VarTypes
    <2>4. CASE k < top - 1
      <3>1. colour[g.to[q]] = "black" => colour'[g.to[q]] = "black"
        BY <1>1, <1>2, <2>2 DEF IInv, VarTypes
      <3>2. k + 1 \in 1..top - 1 /\ stack'[k + 1] = stack[k + 1]
        BY <1>1, <1>3, <2>4
      <3> QED BY <2>1, <2>4, <3>1, <3>2
    <2> QED BY <1>1, <2>3, <2>4
  <1>12. UsesFinished'
    <2> SUFFICES ASSUME NEW k \in 1..len + 1, NEW q \in Edges(g, ordering'[k])
                 PROVE  \E j \in 1..k - 1 : ordering'[j] = g.to[q]
      BY <1>2, <1>4 DEF UsesFinished
    <2>1. CASE k = len + 1
      <3>1. q \in Edges(g, n) \ left[n]
        BY <1>2, <1>4, <2>1
      <3>2. colour[g.to[q]] = "black"
        BY <1>1, <1>2, <3>1 DEF IInv, Followed
      <3>3. g.to[q] \in NTs(g)
        BY <3>1, EdgeFacts
      <3>4. PICK j \in 1..len : ordering[j] = g.to[q]
        BY <3>2, <3>3 DEF IInv, BlackInOrder
      <3> QED BY <1>4, <2>1, <3>4
    <2>2. CASE k \in 1..len
      <3>1. PICK j \in 1..k - 1 : ordering[j] = g.to[q]
        BY <1>4, <2>2 DEF IInv, UsesFinished
      <3> QED BY <1>4, <2>2, <3>1
    <2> QED BY <1>4, <2>1, <2>2
  <1> QED BY <1>2, <1>5, <1>6, <1>7, <1>8, <1>9, <1>10, <1>11, <1>12, SearchOnly
          DEF IInv

-----------------------------------------------------------------------------
LEMMA Minimum ==
    ASSUME NEW P, P \subseteq Nat, P # {}
    PROVE  \E m \in P : \A k \in P : m <= k
  <1>1. PICK m \in P : \A k \in P : <<k, m>> \notin OpToRel(<, Nat)
    BY NatLessThanWellFounded, WFMin
  <1>2. \A k \in P : ~(k < m)
    BY <1>1 DEF OpToRel
  <1> QED BY <1>2

\* Two sequences with the same elements, each of them once, are as long.
LEMMA SameLength ==
    ASSUME NEW S, NEW s \in Seq(S), NEW t \in Seq(S),
           \A v \in S : \E k \in 1..Len(s) : s[k] = v,
           \A v \in S : \E k \in 1..Len(t) : t[k] = v,
           \A j, k \in 1..Len(s) : s[j] = s[k] => j = k,
           \A j, k \in 1..Len(t) : t[j] = t[k] => j = k
    PROVE  Len(s) = Len(t)
  <1>1. /\ Len(s) \in Nat /\ s \in [1..Len(s) -> S]
        /\ Len(t) \in Nat /\ t \in [1..Len(t) -> S]
    BY LenProperties
  <1>2. s \in Bijection(1..Len(s), S) /\ t \in Bijection(1..Len(t), S)
    BY <1>1 DEF Bijection, Injection, Surjection, IsInjective
  <1>3. Cardinality(S) = Len(s) /\ Cardinality(S) = Len(t)
    BY <1>1, <1>2, FS_CountingElements DEF ExistsBijection
  <1> QED BY <1>3

\* At the end of the search every vertex is in the ordering.
LEMMA AllFinished ==
    ASSUME IInv, stack = <<>>, AllSeen
    PROVE  \A n \in NTs(g) : \E k \in 1..Len(ordering) : ordering[k] = n
  <1>1. \A n \in NTs(g) : colour[n] = "black"
    BY DEF IInv, VarTypes, GrayOnStack, AllSeen
  <1> QED BY <1>1 DEF IInv, BlackInOrder

\* ... and there is no cycle, since one of its vertices finished first.
LEMMA FinishedAcyclic ==
    ASSUME IInv, stack = <<>>, AllSeen
    PROVE  ~Cyclic
  <1> SUFFICES ASSUME NEW S \in SUBSET NTs(g), S # {},
                      \A n \in S : \E r \in Edges(g, n) : g.to[r] \in S
               PROVE  FALSE
    BY DEF Cyclic
  <1> DEFINE P == {k \in 1..Len(ordering) : ordering[k] \in S}
  <1>1. P \subseteq Nat /\ P # {}
    BY AllFinished
  <1>2. PICK m \in P : \A k \in P : m <= k
    BY <1>1, Minimum
  <1>3. PICK r \in Edges(g, ordering[m]) : g.to[r] \in S
    OBVIOUS
  <1>4. PICK j \in 1..m - 1 : ordering[j] = g.to[r]
    BY DEF IInv, UsesFinished
  <1>5. j \in P /\ j < m
    BY <1>3, <1>4
  <1> QED BY <1>1, <1>2, <1>5

\* The new deque, as a sequence: the reverse of the ordering but for two.
LEMMA NewNTsFacts ==
    ASSUME IInv, NEW a \in 1..Len(ordering), ordering[a] = g.axiom
    PROVE  LET len == Len(ordering) IN
           /\ NewNTs \in Seq(NTs(g)) /\ Len(NewNTs) = len
           /\ NewNTs[1] = g.axiom
           /\ a # len => NewNTs[len - a + 1] = ordering[len]
           /\ \A k \in 2..len : k # len - a + 1 => NewNTs[k] = ordering[len - k + 1]
  <1> DEFINE len == Len(ordering)
             s == Reverse(ordering)
  <1>1. /\ len \in Nat /\ len >= 1
        /\ \A k \in 1..len : ordering[k] \in NTs(g)
        /\ \A j, k \in 1..len : ordering[j] = ordering[k] => j = k
    BY DEF IInv, VarTypes, BlackInOrder
  <1>2. s = [k \in 1..len |-> ordering[len - k + 1]]
    BY DEF Reverse
  <1>3. NewNTs = [k \in 1..len |-> IF k = 1 THEN g.axiom
                                  ELSE IF s[k] = g.axiom THEN s[1] ELSE s[k]]
    BY <1>2 DEF NewNTs, AxiomFirst
  <1>4. \A k \in 1..len : s[k] = ordering[len - k + 1] /\ len - k + 1 \in 1..len
    BY <1>1, <1>2
  <1>5. \A k \in 1..len : s[k] = g.axiom <=> k = len - a + 1
    BY <1>1, <1>4
  <1>6. \A k \in 1..len : NewNTs[k] \in NTs(g)
    BY <1>1, <1>3, <1>4
  <1>7. NewNTs \in Seq(NTs(g)) /\ Len(NewNTs) = len
    BY <1>1, <1>3, <1>6, IsASeq
  <1>8. NewNTs[1] = g.axiom
    BY <1>1, <1>3
  <1>9. s[1] = ordering[len] /\ len - a + 1 \in 1..len
    BY <1>1, <1>4
  <1>10. a # len => NewNTs[len - a + 1] = ordering[len]
    BY <1>1, <1>3, <1>5, <1>9
  <1>11. \A k \in 2..len : k # len - a + 1 => NewNTs[k] = ordering[len - k + 1]
    BY <1>1, <1>3, <1>4, <1>5
  <1> QED BY <1>7, <1>8, <1>10, <1>11

\* ... it has each non-terminal once.
LEMMA NewNTsPermute ==
    ASSUME IInv, stack = <<>>, AllSeen
    PROVE  /\ NewNTs \in Seq(NTs(g))
           /\ Len(NewNTs) = Len(ordering)
           /\ Len(NewNTs) = Len(g.order)
           /\ Range(NewNTs) = NTs(g)
           /\ \A j, k \in 1..Len(NewNTs) : NewNTs[j] = NewNTs[k] => j = k
  <1> DEFINE len == Len(ordering)
             NTS == NTs(g)
  <1>1. g.axiom \in NTs(g)
    BY DEF IInv, Fixed, IsGrammar
  <1>2. PICK a \in 1..len : ordering[a] = g.axiom
    BY <1>1, AllFinished
  <1> DEFINE from(k) == IF k = 1 THEN a ELSE IF k = len - a + 1 THEN len ELSE len - k + 1
  <1>3. /\ len \in Nat
        /\ \A k \in 1..len : ordering[k] \in NTs(g)
        /\ \A j, k \in 1..len : ordering[j] = ordering[k] => j = k
    BY DEF IInv, VarTypes, BlackInOrder
  <1>4. NewNTs \in Seq(NTs(g)) /\ Len(NewNTs) = len
    BY <1>2, NewNTsFacts
  <1>5. \A k \in 1..len : from(k) \in 1..len
    BY <1>3, <1>2
  <1>6. \A k \in 1..len : NewNTs[k] = ordering[from(k)]
    <2> SUFFICES ASSUME NEW k \in 1..len PROVE NewNTs[k] = ordering[from(k)]
      OBVIOUS
    <2>1. CASE k = 1
      BY <1>2, <2>1, NewNTsFacts
    <2>2. CASE k # 1 /\ k = len - a + 1
      BY <1>2, <1>3, <2>2, NewNTsFacts
    <2>3. CASE k # 1 /\ k # len - a + 1
      <3>1. k \in 2..len
        BY <1>3, <2>3
      <3> QED BY <1>2, <2>3, <3>1, NewNTsFacts
    <2> QED BY <2>1, <2>2, <2>3
  <1>7. \A j, k \in 1..len : from(j) = from(k) => j = k
    BY <1>2, <1>3
  <1>8. \A j \in 1..len : \E k \in 1..len : from(k) = j
    <2> SUFFICES ASSUME NEW j \in 1..len PROVE \E k \in 1..len : from(k) = j
      OBVIOUS
    <2>1. CASE j = a
      BY <1>3, <2>1
    <2>2. CASE j # a /\ j = len
      <3>1. len - a + 1 \in 2..len
        BY <1>2, <1>3, <2>2
      <3> QED BY <2>2, <3>1
    <2>3. CASE j # a /\ j # len
      <3>1. len - j + 1 \in 2..len /\ len - j + 1 # len - a + 1
        BY <1>2, <1>3, <2>3
      <3>2. from(len - j + 1) = len - (len - j + 1) + 1
        BY <1>2, <1>3, <3>1
      <3>3. from(len - j + 1) = j /\ len - j + 1 \in 1..len
        BY <1>3, <3>1, <3>2
      <3> QED BY <3>3
    <2> QED BY <2>1, <2>2, <2>3
  <1> HIDE DEF from
  <1>9. \A j, k \in 1..len : NewNTs[j] = NewNTs[k] => j = k
    BY <1>3, <1>5, <1>6, <1>7
  <1>10. \A v \in NTS : \E k \in 1..len : NewNTs[k] = v
    <2> SUFFICES ASSUME NEW v \in NTS PROVE \E k \in 1..len : NewNTs[k] = v
      OBVIOUS
    <2>1. PICK j \in 1..len : ordering[j] = v
      BY AllFinished
    <2>2. PICK k \in 1..len : from(k) = j
      BY <1>8
    <2> QED BY <1>6, <2>1, <2>2
  <1>11. Range(NewNTs) = NTs(g)
    <2>1. \A k \in 1..len : NewNTs[k] \in NTs(g)
      BY <1>4
    <2>2. DOMAIN NewNTs = 1..len
      BY <1>4
    <2> QED BY <1>10, <2>1, <2>2 DEF Range
  <1>12. Len(NewNTs) = Len(ByName)
    <2>1. /\ ByName \in Seq(NTS)
          /\ \A j, k \in 1..Len(ByName) : ByName[j] = ByName[k] => j = k
          /\ \A v \in NTS : \E k \in 1..Len(ByName) : ByName[k] = v
      <3>1. ByName \in Seq(NTS) /\ DOMAIN ByName = 1..Len(ByName)
        BY ByNameAssumption DEF IInv, Fixed
      <3>2. \A v \in NTS : \E k \in 1..Len(ByName) : ByName[k] = v
        BY <3>1 DEF IInv, Fixed, Range
      <3>3. \A j, k \in 1..Len(ByName) : ByName[j] = ByName[k] => j = k
        BY <3>1, ByNameAssumption DEF IsInjective
      <3> QED BY <3>1, <3>2, <3>3
    <2>2. /\ NewNTs \in Seq(NTS)
          /\ \A j, k \in 1..Len(NewNTs) : NewNTs[j] = NewNTs[k] => j = k
          /\ \A v \in NTS : \E k \in 1..Len(NewNTs) : NewNTs[k] = v
      BY <1>4, <1>9, <1>10
    <2> HIDE DEF NTS, len
    <2> QED BY <2>1, <2>2, SameLength
  <1> QED BY <1>4, <1>9, <1>11, <1>12 DEF IInv, Fixed

\* In a grammar without unreachable non-terminals the axiom finishes last.
LEMMA AxiomLast ==
    ASSUME IInv, stack = <<>>, AllSeen, AxiomReachesAll
    PROVE  ordering # <<>> /\ ordering[Len(ordering)] = g.axiom
  <1> DEFINE len == Len(ordering)
  <1>1. g.axiom \in NTs(g)
    BY DEF IInv, Fixed, IsGrammar
  <1>2. PICK a \in 1..len : ordering[a] = g.axiom
    BY <1>1, AllFinished
  <1> DEFINE S == {ordering[j] : j \in 1..a}
  <1>3. len \in Nat /\ \A k \in 1..len : ordering[k] \in NTs(g)
    BY DEF IInv, VarTypes
  <1>4. S \in SUBSET NTs(g) /\ g.axiom \in S
    BY <1>2, <1>3
  <1>5. \A k \in 1..a : \A r \in Edges(g, ordering[k]) : g.to[r] \in S
    <2> SUFFICES ASSUME NEW k \in 1..a, NEW r \in Edges(g, ordering[k])
                 PROVE  g.to[r] \in S
      OBVIOUS
    <2>1. PICK j \in 1..k - 1 : ordering[j] = g.to[r]
      BY <1>3 DEF IInv, UsesFinished
    <2> QED BY <1>3, <2>1
  <1>6. S = NTs(g)
    <2>1. \A n \in S : \A r \in Edges(g, n) : g.to[r] \in S
      BY <1>5
    <2> HIDE DEF S
    <2> QED BY <1>4, <2>1 DEF AxiomReachesAll
  <1>7. PICK j \in 1..a : ordering[j] = ordering[len]
    BY <1>2, <1>3, <1>6
  <1>8. j = len
    BY <1>2, <1>3, <1>7 DEF IInv, BlackInOrder
  <1> QED BY <1>2, <1>3, <1>8

\* A grammar with its non-terminals in another order is the same graph.
LEMMA SameGraph ==
    ASSUME IsGrammar(g), NEW t \in Seq(NTs(g)), Range(t) = NTs(g),
           g' = [g EXCEPT !.order = t]
    PROVE  /\ IsGrammar(g') /\ NTs(g') = NTs(g) /\ Refs(g') = Refs(g)
           /\ g'.order = t /\ g'.to = g.to /\ g'.axiom = g.axiom
           /\ \A n : Edges(g', n) = Edges(g, n)
  <1>1. /\ g'.order = t /\ DOMAIN g' = DOMAIN g
        /\ g'.terminals = g.terminals /\ g'.axiom = g.axiom
        /\ g'.type = g.type /\ g'.to = g.to /\ g'.tag = g.tag
    BY DEF IsGrammar
  <1>2. NTs(g') = NTs(g)
    BY <1>1 DEF NTs, Range
  <1>3. /\ Symbols(g') = Symbols(g) /\ Refs(g') = Refs(g) /\ Items(g') = Items(g)
        /\ LinkNTs(g') = LinkNTs(g) /\ \A n : RefsIn(g', n) = RefsIn(g, n)
    BY <1>1, <1>2 DEF Symbols, Refs, Items, LinkNTs, RefsIn
  <1>4. IsGrammar(g')
    BY <1>1, <1>2, <1>3 DEF IsGrammar
  <1>5. \A n : Edges(g', n) = Edges(g, n)
    BY <1>1, <1>2, <1>3 DEF Edges
  <1> QED BY <1>1, <1>2, <1>3, <1>4, <1>5

LEMMA SetNTsInv ==
    ASSUME IInv, SetNTs
    PROVE  IInv'
  <1>1. /\ stack = <<>> /\ AllSeen /\ g' = [g EXCEPT !.order = NewNTs]
        /\ mode' = "done" /\ UNCHANGED <<colour, stack, left, ordering>>
    BY DEF SetNTs
  <1>2. /\ NewNTs \in Seq(NTs(g)) /\ Len(NewNTs) = Len(ordering)
        /\ Len(NewNTs) = Len(g.order) /\ Range(NewNTs) = NTs(g)
        /\ \A j, k \in 1..Len(NewNTs) : NewNTs[j] = NewNTs[k] => j = k
    BY <1>1, NewNTsPermute
  <1>3. /\ IsGrammar(g') /\ NTs(g') = NTs(g) /\ Refs(g') = Refs(g)
        /\ g'.order = NewNTs /\ g'.to = g.to /\ g'.axiom = g.axiom
        /\ \A n : Edges(g', n) = Edges(g, n)
    BY <1>1, <1>2, SameGraph DEF IInv, Fixed
  <1>4. Fixed'
    BY <1>2, <1>3 DEF IInv, Fixed
  <1>5. VarTypes'
    BY <1>1, <1>3 DEF IInv, VarTypes
  <1>6. GrayOnStack' /\ BlackInOrder' /\ WhiteUntouched'
    BY <1>1, <1>3 DEF IInv, GrayOnStack, BlackInOrder, WhiteUntouched
  <1>7. OnPath' /\ Followed' /\ UsesFinished'
    <2>1. Len(stack) = 0 /\ Len(stack') = 0
      BY <1>1
    <2>2. OnPath' /\ Followed'
      BY <2>1 DEF OnPath, Followed
    <2>3. UsesFinished'
      BY <1>1, <1>3 DEF IInv, UsesFinished
    <2> QED BY <2>2, <2>3
  <1>8. ThrowsOnCycle'
    <2>1. ~Cyclic
      BY <1>1, FinishedAcyclic
    <2>2. ~Cyclic'
      BY <1>3, <2>1 DEF Cyclic
    <2> QED BY <1>1, <2>2 DEF ThrowsOnCycle
  <1>9. Permuted'
    BY <1>2, <1>3 DEF IInv, Fixed, Permuted
  <1>10. SortedFromAxiom'
    <2> SUFFICES ASSUME AxiomReachesAll' PROVE Sorted' /\ g'.order[1] = g'.axiom
      BY <1>9 DEF SortedFromAxiom
    <2> DEFINE len == Len(ordering)
    <2>1. AxiomReachesAll
      BY <1>3 DEF AxiomReachesAll
    <2>2. ordering # <<>> /\ ordering[len] = g.axiom
      BY <1>1, <2>1, AxiomLast
    <2>3. /\ len \in Nat /\ len \in 1..len
          /\ \A k \in 1..len : ordering[k] \in NTs(g)
          /\ \A j, k \in 1..len : ordering[j] = ordering[k] => j = k
      <3>1. ordering \in Seq(NTs(g))
        BY DEF IInv, VarTypes
      <3>2. Len(ordering) # 0
        BY <2>2, <3>1, EmptySeq
      <3> QED BY <3>1, <3>2 DEF IInv, BlackInOrder
    <2>4. \A k \in 1..len : NewNTs[k] = ordering[len - k + 1]
      <3>1. NewNTs[1] = ordering[len]
        BY <2>2, <2>3, NewNTsFacts
      <3>2. \A k \in 2..len : k # len - len + 1
        BY <2>3
      <3>3. \A k \in 2..len : NewNTs[k] = ordering[len - k + 1]
        BY <2>2, <2>3, <3>2, NewNTsFacts
      <3> QED BY <2>3, <3>1, <3>3
    <2>5. ASSUME NEW j \in 1..len, NEW k \in 1..len,
                 NEW r \in Edges(g, NewNTs[j]), g.to[r] = NewNTs[k]
          PROVE  j < k
      <3>1. /\ len - j + 1 \in 1..len /\ len - k + 1 \in 1..len
            /\ r \in Edges(g, ordering[len - j + 1])
            /\ g.to[r] = ordering[len - k + 1]
        BY <2>3, <2>4, <2>5
      <3>2. PICK i \in 1..(len - j + 1) - 1 : ordering[i] = g.to[r]
        BY <3>1 DEF IInv, UsesFinished
      <3>3. i = len - k + 1
        BY <2>3, <3>1, <3>2
      <3> QED BY <2>3, <3>2, <3>3
    <2>6. DOMAIN NewNTs = 1..len
      BY <1>2
    <2>7. Sorted'
      BY <1>3, <2>5, <2>6 DEF Sorted
    <2>8. g'.order[1] = g'.axiom
      BY <1>3, <2>2, <2>3, NewNTsFacts
    <2> QED BY <2>7, <2>8
  <1> QED BY <1>4, <1>5, <1>6, <1>7, <1>8, <1>10 DEF IInv

LEMMA NextInv == IInv /\ [Next]_vars => IInv'
  <1> SUFFICES ASSUME IInv, [Next]_vars PROVE IInv'
    OBVIOUS
  <1>1. ASSUME NEW k \in DOMAIN ByName, Root(k) PROVE IInv'
    BY <1>1, RootInv
  <1>2. CASE FollowEdge
    BY <1>2, FollowInv DEF FollowEdge
  <1>3. CASE Finish
    BY <1>3, FinishInv
  <1>4. CASE SetNTs
    BY <1>4, SetNTsInv
  <1>5. CASE UNCHANGED vars
    <2>1. UNCHANGED g /\ UNCHANGED colour /\ UNCHANGED stack /\ UNCHANGED left
          /\ UNCHANGED ordering /\ UNCHANGED mode
      BY <1>5 DEF vars
    <2>2. Fixed' /\ VarTypes' /\ GrayOnStack' /\ BlackInOrder' /\ WhiteUntouched'
      BY <2>1 DEF IInv, Fixed, VarTypes, GrayOnStack, BlackInOrder, WhiteUntouched
    <2>3. OnPath' /\ Followed' /\ UsesFinished'
      BY <2>1 DEF IInv, OnPath, Followed, UsesFinished
    <2>4. (Cyclic' <=> Cyclic) /\ (AxiomReachesAll' <=> AxiomReachesAll)
      BY <2>1 DEF Cyclic, AxiomReachesAll
    <2>5. ThrowsOnCycle' /\ SortedFromAxiom'
      BY <2>1, <2>4 DEF IInv, ThrowsOnCycle, SortedFromAxiom, Sorted, Permuted
    <2> QED BY <2>2, <2>3, <2>5 DEF IInv
  <1> QED BY <1>1, <1>2, <1>3, <1>4, <1>5 DEF Next

LEMMA IInvAlways == Spec => []IInv
  BY InitInv, NextInv, PTL DEF Spec

LEMMA IInvTypes == IInv => TypeOK
  <1> SUFFICES ASSUME IInv PROVE TypeOK
    OBVIOUS
  <1>1. stack \in Seq({n \in NTs(g) : colour[n] = "gray"})
    <2>1. \A k \in 1..Len(stack) : stack[k] \in {n \in NTs(g) : colour[n] = "gray"}
      BY DEF IInv, VarTypes, GrayOnStack
    <2> QED BY <2>1 DEF IInv, VarTypes
  <1>2. ordering \in Seq({n \in NTs(g) : colour[n] = "black"})
    <2>1. \A k \in 1..Len(ordering) :
             ordering[k] \in {n \in NTs(g) : colour[n] = "black"}
      BY DEF IInv, VarTypes, BlackInOrder
    <2> QED BY <2>1 DEF IInv, VarTypes
  <1> QED BY <1>1, <1>2 DEF IInv, Fixed, VarTypes, TypeOK

-----------------------------------------------------------------------------
\* The variables of the search and of its result keep their types.
THEOREM TypeCorrect == Spec => []TypeOK
  BY IInvAlways, IInvTypes, PTL

\* tsort() throws only for a grammar with a cycle, and for each of them.
THEOREM ThrowsJustOnCycles == Spec => []ThrowsOnCycle
  <1>1. IInv => ThrowsOnCycle
    BY DEF IInv
  <1> QED BY <1>1, IInvAlways, PTL

\* The new deque has the non-terminals of the old one, each of them once; where
\* the axiom leads to every non-terminal it is sorted and has the axiom in front.
THEOREM SortedResult == Spec => []SortedFromAxiom
  <1>1. IInv => SortedFromAxiom
    BY DEF IInv
  <1> QED BY <1>1, IInvAlways, PTL
=============================================================================
