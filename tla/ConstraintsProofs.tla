-------------------------- MODULE ConstraintsProofs --------------------------
(***************************************************************************)
(* Proofs about constraints, for any file, grammar and order of the hash   *)
(* tables: a Variant destroys what it has constructed; the rules get the   *)
(* constraints of the file after their own, kind by kind; these are what   *)
(* the lines of the file say, links included; and the facets and the text  *)
(* that are printed for them allow the same values.                        *)
(***************************************************************************)
EXTENDS Facets, SequenceTheorems, FiniteSetTheorems, WellFoundedInduction, TLAPS

Fields == {n \in Name : g[n].type \in {"link", "record"}}

Types ==
    /\ g \in Grammars /\ moves \in Nat
    /\ refs = [n \in Fields |-> refs[n]]
    /\ r = [n \in Name |-> r[n]]
    /\ \A n \in Name : /\ r[n] = [var |-> r[n].var, value |-> r[n].value]
                       /\ r[n].var \in Variants

\* The loops over the maps.
Loops ==
    /\ pc \in {"add", "map", "name", "undefined"} => kind \in Kinds
    /\ pc \in {"add", "map"} => left \subseteq {n \in Name : v[kind][n] # None}

\* A Variant has constructed what its tag says.
OneMember == \A n \in Name : r[n].var.alive = {r[n].var.tag} \ {0}

\* The Variant of n is what the last map has for n, of those that were visited.
Mapped(n, there) ==
    IF there = {} THEN r[n].var.tag = 0
    ELSE /\ r[n].var.tag \in there
         /\ \A k \in there : k <= r[n].var.tag
         /\ r[n].value = v[r[n].var.tag][n]

Visited(n) == {k \in Kinds : /\ v[k][n] # None
                             /\ k < kind \/ (k = kind /\ n \notin left)}

MapSoFar ==
    /\ pc \in {"read", "link"} => \A n \in Name : r[n].var.tag = 0
    /\ pc = "map" => \A n \in Name : Mapped(n, Visited(n))
    /\ pc = "mapped" /\ moves = 0 =>
          \A n \in Name : Mapped(n, {k \in Kinds : v[k][n] # None})

RefsSoFar ==
    /\ pc \in {"read", "link"} => \A n \in Fields : refs[n] = Own(n)
    /\ pc \in {"add", "name", "undefined"} =>
          \A n \in Fields :
             refs[n] = Own(n) \o Expected(n, IF n \in left THEN kind - 1 ELSE kind)
    /\ pc = "added" => \A n \in Fields : refs[n] = Own(n) \o Expected(n, 4)

Inv == Types /\ Loops /\ OneMember /\ MapSoFar /\ RefsSoFar

-----------------------------------------------------------------------------
\* What the map of kind k has for n, as a constraint.
Item(n, k) == [kind |-> k, value |-> v[k][n], source |-> Source(k)]

LEMMA OwnTyped ==
    ASSUME NEW n PROVE \E S : Own(n) \in Seq(S)
<1> DEFINE c == [kind |-> Size, value |-> g[n].size, source |-> "ASN1"]
<1>1. <<>> \in Seq({c}) /\ <<c>> \in Seq({c})
  OBVIOUS
<1> QED BY <1>1 DEF Own

LEMMA Concat ==
    ASSUME NEW S, NEW s \in Seq(S), NEW t \in Seq(S), NEW x \in S
    PROVE  /\ s \o <<>> = s /\ <<>> \o s = s
           /\ s \o <<x>> = Append(s, x)
           /\ s \o Append(t, x) = Append(s \o t, x)
<1>1. <<x>> \in Seq(S) /\ s \o t \in Seq(S)
  BY ConcatProperties
<1>2. \A u \in Seq(S) : u \o <<x>> = Append(u, x)
  BY AppendIsConcat
<1>3. s \o (t \o <<x>>) = (s \o t) \o <<x>>
  BY <1>1, ConcatAssociative
<1> QED BY <1>1, <1>2, <1>3, ConcatEmptySeq

LEMMA NoneExpected ==
    ASSUME NEW n PROVE Expected(n, 0) = <<>>
BY DEF Expected

LEMMA NextExpected ==
    ASSUME NEW n, NEW k \in Kinds
    PROVE  \E S : /\ Expected(n, k - 1) \in Seq(S) /\ Item(n, k) \in S
                  /\ Expected(n, k) = IF v[k][n] = None THEN Expected(n, k - 1)
                                      ELSE Append(Expected(n, k - 1), Item(n, k))
<1> DEFINE S == {Item(n, j) : j \in Kinds}
           got(K, j) == IF j > K \/ v[j][n] = None THEN <<>> ELSE <<Item(n, j)>>
<1>1. \A K : Expected(n, K) = got(K, 1) \o got(K, 2) \o got(K, 3) \o got(K, 4)
  BY DEF Expected, Item, Source
<1>2. ASSUME NEW K, NEW j \in Kinds PROVE got(K, j) \in Seq(S)
  <2>1. <<Item(n, j)>> \in Seq(S) /\ <<>> \in Seq(S)
    OBVIOUS
  <2> QED BY <2>1
<1>3. Item(n, k) \in S
  OBVIOUS
<1>4. ASSUME NEW s \in Seq(S)
      PROVE  s \o got(k, k) = IF v[k][n] = None THEN s ELSE Append(s, Item(n, k))
  BY <1>3, <1>4, Concat DEF Kinds
<1>5. /\ <<>> \in Seq(S) /\ \A s \in Seq(S) : s \o <<>> = s /\ <<>> \o s = s
      /\ \A s, t \in Seq(S) : s \o t \in Seq(S)
  BY ConcatEmptySeq, ConcatProperties
<1> DEFINE a == got(k, 1)  b == got(k, 2)  c == got(k, 3)  d == got(k, 4)
           a0 == got(k - 1, 1)  b0 == got(k - 1, 2)  c0 == got(k - 1, 3)  d0 == got(k - 1, 4)
<1>6. a \in Seq(S) /\ b \in Seq(S) /\ c \in Seq(S) /\ d \in Seq(S)
  <2>1. 1 \in Kinds /\ 2 \in Kinds /\ 3 \in Kinds /\ 4 \in Kinds
    BY DEF Kinds
  <2> QED BY <1>2, <2>1
<1>7. /\ Expected(n, k - 1) = a0 \o b0 \o c0 \o d0
      /\ Expected(n, k) = a \o b \o c \o d
  BY <1>1
<1>8. ASSUME k = 1
      PROVE  /\ Expected(n, k - 1) \in Seq(S)
             /\ Expected(n, k) = IF v[k][n] = None THEN Expected(n, k - 1)
                                 ELSE Append(Expected(n, k - 1), Item(n, k))
  <2>1. a0 = <<>> /\ b0 = <<>> /\ c0 = <<>> /\ d0 = <<>> /\ b = <<>> /\ c = <<>> /\ d = <<>>
    BY <1>8 DEF Kinds
  <2> HIDE DEF a, b, c, d, a0, b0, c0, d0
  <2>2. Expected(n, k - 1) = <<>> /\ Expected(n, k) = <<>> \o a
    BY <1>5, <1>6, <1>7, <2>1
  <2>3. <<>> \in Seq(S)
    BY <1>5, <1>6
  <2>4. a = got(k, k)
    BY <1>8 DEF a
  <2> HIDE DEF got, S
  <2> QED BY <1>4, <2>2, <2>3, <2>4
<1>9. ASSUME k = 2
      PROVE  /\ Expected(n, k - 1) \in Seq(S)
             /\ Expected(n, k) = IF v[k][n] = None THEN Expected(n, k - 1)
                                 ELSE Append(Expected(n, k - 1), Item(n, k))
  <2>1. a0 = a /\ b0 = <<>> /\ c0 = <<>> /\ d0 = <<>> /\ c = <<>> /\ d = <<>>
    BY <1>9 DEF Kinds
  <2> HIDE DEF a, b, c, d, a0, b0, c0, d0
  <2>2. Expected(n, k - 1) = a /\ Expected(n, k) = a \o b
    BY <1>5, <1>6, <1>7, <2>1
  <2>3. a \in Seq(S)
    BY <1>5, <1>6
  <2>4. b = got(k, k)
    BY <1>9 DEF b
  <2> HIDE DEF got, S
  <2> QED BY <1>4, <2>2, <2>3, <2>4
<1>10. ASSUME k = 3
       PROVE  /\ Expected(n, k - 1) \in Seq(S)
              /\ Expected(n, k) = IF v[k][n] = None THEN Expected(n, k - 1)
                                  ELSE Append(Expected(n, k - 1), Item(n, k))
  <2>1. a0 = a /\ b0 = b /\ c0 = <<>> /\ d0 = <<>> /\ d = <<>>
    BY <1>10 DEF Kinds
  <2> HIDE DEF a, b, c, d, a0, b0, c0, d0
  <2>2. Expected(n, k - 1) = a \o b /\ Expected(n, k) = (a \o b) \o c
    BY <1>5, <1>6, <1>7, <2>1
  <2>3. a \o b \in Seq(S)
    BY <1>5, <1>6
  <2>4. c = got(k, k)
    BY <1>10 DEF c
  <2> HIDE DEF got, S
  <2> QED BY <1>4, <2>2, <2>3, <2>4
<1>11. ASSUME k = 4
       PROVE  /\ Expected(n, k - 1) \in Seq(S)
              /\ Expected(n, k) = IF v[k][n] = None THEN Expected(n, k - 1)
                                  ELSE Append(Expected(n, k - 1), Item(n, k))
  <2>1. a0 = a /\ b0 = b /\ c0 = c /\ d0 = <<>>
    BY <1>11 DEF Kinds
  <2> HIDE DEF a, b, c, d, a0, b0, c0, d0
  <2>2. Expected(n, k - 1) = a \o b \o c /\ Expected(n, k) = (a \o b \o c) \o d
    BY <1>5, <1>6, <1>7, <2>1
  <2>3. a \o b \o c \in Seq(S)
    BY <1>5, <1>6
  <2>4. d = got(k, k)
    BY <1>11 DEF d
  <2> HIDE DEF got, S
  <2> QED BY <1>4, <2>2, <2>3, <2>4
<1>12. /\ Expected(n, k - 1) \in Seq(S)
       /\ Expected(n, k) = IF v[k][n] = None THEN Expected(n, k - 1)
                           ELSE Append(Expected(n, k - 1), Item(n, k))
  BY <1>8, <1>9, <1>10, <1>11 DEF Kinds
<1> QED BY <1>3, <1>12

LEMMA NextRefs ==
    ASSUME NEW n, NEW k \in Kinds
    PROVE  Own(n) \o Expected(n, k) =
             IF v[k][n] = None THEN Own(n) \o Expected(n, k - 1)
             ELSE Append(Own(n) \o Expected(n, k - 1), Item(n, k))
<1>1. PICK S : Own(n) \in Seq(S)
  BY OwnTyped
<1>2. PICK T : /\ Expected(n, k - 1) \in Seq(T) /\ Item(n, k) \in T
               /\ Expected(n, k) = IF v[k][n] = None THEN Expected(n, k - 1)
                                   ELSE Append(Expected(n, k - 1), Item(n, k))
  BY NextExpected
<1>3. Own(n) \in Seq(S \cup T) /\ Expected(n, k - 1) \in Seq(S \cup T)
  BY <1>1, <1>2
<1>4. Own(n) \o Append(Expected(n, k - 1), Item(n, k))
        = Append(Own(n) \o Expected(n, k - 1), Item(n, k))
  BY <1>2, <1>3, Concat
<1> QED BY <1>2, <1>4

LEMMA NoRefs == ASSUME NEW n PROVE Own(n) \o Expected(n, 0) = Own(n)
BY OwnTyped, NoneExpected, ConcatEmptySeq

-----------------------------------------------------------------------------
LEMMA InitInv == ASSUME Init PROVE Inv
<1>1. \A n \in Name : r[n] = [var |-> EmptyVariant, value |-> None]
  BY DEF Init
<1>2. Types
  BY <1>1 DEF Init, Types, Fields, EmptyVariant, Variants
<1>3. Loops /\ OneMember /\ MapSoFar /\ RefsSoFar
  BY <1>1 DEF Init, Loops, OneMember, MapSoFar, RefsSoFar, EmptyVariant, Fields
<1> QED BY <1>2, <1>3 DEF Inv

LEMMA AssignedHolds ==
    ASSUME NEW x \in Variants, x.alive = {x.tag} \ {0}, NEW k \in Kinds
    PROVE  /\ Assigned(x, k) = [tag |-> k, alive |-> {k}]
           /\ AssignedHalf(x, k) \in {[tag |-> k, alive |-> {k}], EmptyVariant}
<1>1. x = [tag |-> x.tag, alive |-> x.alive]
  BY DEF Variants
<1>2. Destruct(x) = EmptyVariant
  BY DEF Destruct, EmptyVariant
<1>3. x.tag = k => x.alive = {k}
  BY DEF Kinds
<1>4. x.tag = k => x = [tag |-> k, alive |-> {k}]
  BY <1>1, <1>3
<1>5. x.tag # k => Assigned(x, k) = [tag |-> k, alive |-> {k}]
  BY <1>2 DEF Assigned, EmptyVariant
<1> QED BY <1>2, <1>4, <1>5 DEF Assigned, AssignedHalf

\* The reader of files changes no rule and no Variant.
LEMMA ReadInv ==
    ASSUME Inv, UNCHANGED <<g, refs, r, moves>>, pc \in {"read", "link"},
           pc' \in {"read", "link", "type"}
    PROVE  Inv'
BY DEF Inv, Types, Fields, Loops, OneMember, MapSoFar, RefsSoFar, Own

LEMMA ReturnInv ==
    ASSUME Inv, NEW caller \in {"add", "map"}, Return(caller) PROVE Inv'
<1>1. /\ pc = "link" /\ pc' = caller /\ kind' = 1
      /\ left' = {n \in Name : v[1][n] # None}
      /\ UNCHANGED <<g, v, refs, r, moves>>
  BY DEF Return, Keep
<1>2. Types' /\ Loops' /\ OneMember'
  BY <1>1 DEF Inv, Types, Fields, Loops, OneMember, Kinds
<1>3. ASSUME NEW n \in Name PROVE Visited(n)' = {} /\ r[n].var.tag = 0
  BY <1>1 DEF Visited, Kinds, Inv, MapSoFar
<1>4. MapSoFar'
  BY <1>1, <1>3 DEF MapSoFar, Mapped
<1>5. ASSUME NEW n \in Fields
      PROVE  refs[n] = Own(n) \o Expected(n, IF n \in left' THEN 0 ELSE 1)
  <2>1. refs[n] = Own(n) \o Expected(n, 0)
    BY <1>1, NoRefs DEF Inv, RefsSoFar
  <2>2. n \notin left' => v[1][n] = None
    BY <1>1 DEF Fields
  <2>3. Own(n) \o Expected(n, 1) = IF v[1][n] = None THEN Own(n) \o Expected(n, 1 - 1)
                                   ELSE Append(Own(n) \o Expected(n, 1 - 1), Item(n, 1))
    BY NextRefs DEF Kinds
  <2> QED BY <2>1, <2>2, <2>3
<1>6. RefsSoFar'
  BY <1>1, <1>5 DEF RefsSoFar, Fields, Own, Expected
<1> QED BY <1>2, <1>4, <1>6 DEF Inv

LEMMA NextKindInv == ASSUME Inv, NextKind PROVE Inv'
<1>1. /\ pc \in {"add", "map"} /\ left = {} /\ kind \in Kinds
      /\ UNCHANGED <<g, v, refs, r, moves>>
  BY DEF NextKind, Keep, Inv, Loops
<1>2. Types' /\ OneMember'
  BY <1>1 DEF Inv, Types, Fields, OneMember
<1>3. \A n, K : Expected(n, K)' = Expected(n, K') /\ Own(n)' = Own(n) /\ Fields' = Fields
  BY <1>1 DEF Expected, Own, Fields
<1>4. CASE kind = 4
  <2>1. pc' = (IF pc = "add" THEN "added" ELSE "mapped") /\ UNCHANGED <<kind, left>>
    BY <1>4 DEF NextKind
  <2>2. \A n : Visited(n) = {k \in Kinds : v[k][n] # None}
    BY <1>1, <1>4 DEF Visited, Kinds
  <2>3. MapSoFar' /\ Loops'
    BY <1>1, <2>1, <2>2 DEF Inv, MapSoFar, Mapped, Loops
  <2>4. RefsSoFar'
    BY <1>1, <1>3, <1>4, <2>1 DEF Inv, RefsSoFar
  <2> QED BY <1>2, <2>3, <2>4 DEF Inv
<1>5. CASE kind # 4
  <2>1. /\ kind' = kind + 1 /\ UNCHANGED pc /\ kind + 1 \in Kinds
        /\ left' = {n \in Name : v[kind + 1][n] # None}
    BY <1>1, <1>5 DEF NextKind, Kinds
  <2>2. Loops'
    BY <1>1, <2>1 DEF Loops
  <2>3. \A n \in Name : Visited(n)' = Visited(n)
    BY <1>1, <2>1 DEF Visited, Kinds
  <2>4. MapSoFar'
    BY <1>1, <2>1, <2>3 DEF Inv, MapSoFar, Mapped
  <2>5. ASSUME NEW n \in Fields, pc = "add"
        PROVE  refs[n] = Own(n) \o Expected(n, IF n \in left' THEN kind ELSE kind + 1)
    <3>1. refs[n] = Own(n) \o Expected(n, kind)
      BY <1>1, <2>5 DEF Inv, RefsSoFar
    <3>2. n \notin left' => v[kind + 1][n] = None
      BY <2>1 DEF Fields
    <3> DEFINE k == kind + 1
    <3>3. k \in Kinds /\ k - 1 = kind
      BY <1>1, <2>1 DEF Kinds
    <3> HIDE DEF k
    <3>4. v[k][n] = None => Own(n) \o Expected(n, k) = Own(n) \o Expected(n, kind)
      BY <3>3, NextRefs
    <3> QED BY <3>1, <3>2, <3>4 DEF k
  <2>6. kind' - 1 = kind
    BY <1>1, <2>1 DEF Kinds
  <2>7. RefsSoFar'
    BY <1>1, <1>3, <2>1, <2>5, <2>6 DEF RefsSoFar
  <2> QED BY <1>2, <2>2, <2>4, <2>7 DEF Inv
<1> QED BY <1>4, <1>5

LEMMA AddInv == ASSUME Inv, NEW n \in Name, Add(n) PROVE Inv'
<1>1. /\ pc = "add" /\ n \in left /\ kind \in Kinds /\ v[kind][n] # None
      /\ UNCHANGED <<g, v, kind, r, moves>>
  BY DEF Add, Keep, Inv, Loops
<1>2. OneMember' /\ MapSoFar' /\ Fields' = Fields
  BY <1>1 DEF Add, Inv, OneMember, MapSoFar, Fields
<1>3. \A m, K : Expected(m, K)' = Expected(m, K') /\ Own(m)' = Own(m)
  BY <1>1 DEF Expected, Own
<1>4. CASE pc' \in {"name", "undefined"} /\ UNCHANGED <<left, refs>>
  <2>1. Types' /\ Loops' /\ RefsSoFar'
    BY <1>1, <1>2, <1>3, <1>4 DEF Inv, Types, Loops, RefsSoFar
  <2> QED BY <1>2, <2>1 DEF Inv
<1>5. CASE /\ g[n].type \notin {"unknown", "bare"}
           /\ refs' = [refs EXCEPT ![n] = Append(@, Item(n, kind))]
           /\ left' = left \ {n} /\ UNCHANGED pc
  <2>1. n \in Fields
    BY <1>5, ConstraintsAssumption DEF Inv, Types, Fields, Rule
  <2>2. Types' /\ Loops'
    BY <1>1, <1>2, <1>5 DEF Inv, Types, Loops
  <2>3. refs'[n] = Own(n) \o Expected(n, kind)
    BY <1>1, <1>5, <2>1, NextRefs DEF Inv, Types, RefsSoFar
  <2>4. \A m \in Fields : m # n => refs'[m] = refs[m]
    BY <1>5 DEF Inv, Types
  <2>5. RefsSoFar'
    BY <1>1, <1>2, <1>3, <1>5, <2>3, <2>4 DEF Inv, RefsSoFar
  <2> QED BY <1>2, <2>2, <2>5 DEF Inv
<1> QED BY <1>1, <1>4, <1>5 DEF Add, Item

LEMMA AssignInv ==
    ASSUME Inv, NEW n \in Name, Assign(n) \/ AssignThrows(n) PROVE Inv'
<1>1. /\ pc = "map" /\ n \in left /\ kind \in Kinds /\ v[kind][n] # None
      /\ UNCHANGED <<g, v, kind, refs, moves>>
  BY DEF Assign, AssignThrows, Keep, Inv, Loops
<1>2. RefsSoFar' /\ Fields' = Fields
  BY <1>1 DEF Assign, AssignThrows, RefsSoFar, Fields
<1>3. CASE Assign(n)
  <2>1. /\ r' = [r EXCEPT ![n] = [var |-> Assigned(r[n].var, kind), value |-> v[kind][n]]]
        /\ left' = left \ {n} /\ UNCHANGED pc
    BY <1>3 DEF Assign
  <2>2. /\ Assigned(r[n].var, kind) \in Variants
        /\ Assigned(r[n].var, kind).tag = kind
        /\ Assigned(r[n].var, kind).alive = {kind}
    BY <1>1, AssignedHolds DEF Inv, Types, OneMember, Variants, Kinds
  <2>3. r'[n] = [var |-> Assigned(r[n].var, kind), value |-> v[kind][n]]
    BY <2>1 DEF Inv, Types
  <2>4. \A m \in Name : m # n => r'[m] = r[m]
    BY <2>1 DEF Inv, Types
  <2>5. Types' /\ Loops'
    BY <1>1, <1>2, <2>1, <2>2, <2>3, <2>4 DEF Inv, Types, Loops
  <2>6. OneMember'
    BY <1>1, <2>2, <2>3, <2>4 DEF Inv, OneMember, Kinds
  <2>7. ASSUME NEW m \in Name PROVE Mapped(m, Visited(m))'
    <3>1. CASE m = n
      <4>1. kind \in Visited(n)' /\ \A k \in Visited(n)' : k <= kind
        BY <1>1, <2>1 DEF Visited, Kinds
      <4>2. r'[n].var.tag = kind /\ r'[n].value = v'[kind][n]
        BY <1>1, <2>2, <2>3
      <4> QED BY <3>1, <4>1, <4>2 DEF Mapped
    <3>2. CASE m # n
      <4>1. Visited(m)' = Visited(m)
        BY <1>1, <2>1, <3>2 DEF Visited
      <4> QED BY <1>1, <2>4, <3>2, <4>1 DEF Mapped, Inv, MapSoFar
    <3> QED BY <3>1, <3>2
  <2>8. MapSoFar'
    BY <1>1, <2>1, <2>7 DEF MapSoFar
  <2> QED BY <1>2, <2>5, <2>6, <2>8 DEF Inv
<1>4. CASE AssignThrows(n)
  <2>1. /\ r' = [r EXCEPT ![n] = [var |-> AssignedHalf(r[n].var, kind), value |-> None]]
        /\ pc' = "memory" /\ UNCHANGED left
    BY <1>4 DEF AssignThrows
  <2>2. /\ AssignedHalf(r[n].var, kind) \in Variants
        /\ AssignedHalf(r[n].var, kind).alive = {AssignedHalf(r[n].var, kind).tag} \ {0}
    BY <1>1, AssignedHolds DEF Inv, Types, OneMember, EmptyVariant, Variants, Kinds
  <2>3. r'[n] = [var |-> AssignedHalf(r[n].var, kind), value |-> None]
    BY <2>1 DEF Inv, Types
  <2>4. \A m \in Name : m # n => r'[m] = r[m]
    BY <2>1 DEF Inv, Types
  <2>5. Types' /\ Loops' /\ OneMember' /\ MapSoFar'
    BY <1>1, <1>2, <2>1, <2>2, <2>3, <2>4 DEF Inv, Types, Loops, OneMember, MapSoFar
  <2> QED BY <1>2, <2>5 DEF Inv
<1> QED BY <1>3, <1>4

LEMMA MoveInv ==
    ASSUME Inv, NEW n \in Name, NEW m \in Name, MoveVariant(n, m) PROVE Inv'
<1> DEFINE tag == r[m].var.tag
<1>1. /\ pc = "mapped" /\ moves' = moves + 1
      /\ UNCHANGED <<g, v, pc, kind, left, refs>>
  BY DEF MoveVariant, Keep
<1>2. RefsSoFar' /\ Loops' /\ Fields' = Fields
  BY <1>1 DEF RefsSoFar, Loops, Fields
<1>3. MapSoFar'
  BY <1>1 DEF Inv, Types, MapSoFar
<1>4. moves' \in Nat
  BY <1>1 DEF Inv, Types
<1>5. CASE UNCHANGED r
  BY <1>1, <1>2, <1>3, <1>4, <1>5 DEF Inv, Types, OneMember
<1>6. ASSUME NEW x, NEW y, x.alive = {x.tag} \ {0}, x \in Variants,
             \/ r' = [r EXCEPT ![m].value = None, ![n] = [var |-> x, value |-> y]]
             \/ r' = [r EXCEPT ![n] = [var |-> x, value |-> y]]
      PROVE  Inv'
  <2>1. r'[n] = [var |-> x, value |-> y]
    BY <1>6 DEF Inv, Types
  <2>2. \A k \in Name \ {n} :
           /\ r'[k].var = r[k].var
           /\ r'[k] = [var |-> r'[k].var, value |-> r'[k].value]
    BY <1>6 DEF Inv, Types
  <2>3. Types' /\ OneMember'
    BY <1>1, <1>2, <1>4, <1>6, <2>1, <2>2 DEF Inv, Types, OneMember
  <2> QED BY <1>2, <1>3, <2>3 DEF Inv
<1>7. CASE /\ tag # 0
           /\ r' = [r EXCEPT ![m].value = None,
                            ![n] = [var   |-> Assigned(@.var, tag),
                                    value |-> IF n = m THEN None ELSE r[m].value]]
  <2> DEFINE x == Assigned(r[n].var, tag)
  <2>1. x.alive = {x.tag} \ {0} /\ x \in Variants
    BY <1>7, AssignedHolds DEF Inv, Types, OneMember, Variants, Kinds
  <2>2. r' = [r EXCEPT ![m].value = None,
                      ![n] = [var |-> x, value |-> IF n = m THEN None ELSE r[m].value]]
    BY <1>7 DEF Inv, Types
  <2> QED BY <1>6, <2>1, <2>2
<1>8. CASE /\ tag \notin {0, r[n].var.tag}
           /\ r' = [r EXCEPT ![n] = [var |-> AssignedHalf(@.var, tag), value |-> None]]
  <2> DEFINE x == AssignedHalf(r[n].var, tag)
  <2>1. x.alive = {x.tag} \ {0} /\ x \in Variants
    BY <1>8, AssignedHolds DEF Inv, Types, OneMember, EmptyVariant, Variants, Kinds
  <2> QED BY <1>6, <1>8, <2>1
<1> QED BY <1>5, <1>7, <1>8 DEF MoveVariant

LEMMA NextInv == ASSUME Inv, [Next]_vars PROVE Inv'
<1>1. CASE ReadLine \/ ReadOther \/ StartLinks \/ \E n \in Name : ApplyLink(n)
  BY <1>1, ReadInv DEF ReadLine, ReadOther, StartLinks, ApplyLink, Keep
<1>2. CASE UNCHANGED vars
  <2>1. Types' /\ Loops' /\ OneMember'
    BY <1>2 DEF vars, Inv, Types, Fields, Loops, OneMember
  <2>2. MapSoFar'
    <3>1. \A n : Visited(n)' = Visited(n)
      BY <1>2 DEF vars, Visited
    <3> QED BY <1>2, <3>1 DEF vars, Inv, MapSoFar, Mapped
  <2>3. RefsSoFar'
    <3>1. \A n, K : Expected(n, K)' = Expected(n, K') /\ Own(n)' = Own(n)
      BY <1>2 DEF vars, Expected, Own
    <3> QED BY <1>2, <3>1 DEF vars, Inv, RefsSoFar, Fields
  <2> QED BY <2>1, <2>2, <2>3 DEF Inv
<1> QED BY <1>1, <1>2, ReturnInv, NextKindInv, AddInv, AssignInv, MoveInv DEF Next

\* The types of the state, and what the loops over the hash tables have done so
\* far, in any order (add_constraints(), make_constraint_map()).
THEOREM Invariance == Spec => []Inv
BY InitInv, NextInv, PTL DEF Spec

\* A Variant has just the member its tag says, whatever constructor throws, and
\* make_constraint_map() leaves in it what the last of the maps has.
THEOREM VariantsSound == Spec => []VariantsHold
<1>1. Inv => VariantsHold
  BY DEF Inv, OneMember, MapSoFar, Mapped, VariantsHold
<1> QED BY <1>1, Invariance, PTL

\* add_constraints() appends all, or when it stops, all of the kinds before.
THEOREM ConstraintsArrive == Spec => []ConstraintsAdded
<1>1. Inv => ConstraintsAdded
  BY DEF Inv, Types, RefsSoFar, ConstraintsAdded
<1> QED BY <1>1, Invariance, PTL

-----------------------------------------------------------------------------
\* A set of numbers has a least one.
LEMMA Least ==
    ASSUME NEW T, T \subseteq Nat, T # {}
    PROVE  Min(T) \in T /\ \A k \in T : Min(T) <= k
<1>1. PICK m \in T : \A k \in T : ~(<<k, m>> \in OpToRel(<, Nat))
  BY NatLessThanWellFounded, WFMin
<1>2. \A k \in T : ~(k < m)
  BY <1>1 DEF OpToRel
<1>3. \A k \in T : m <= k
  BY <1>2
<1> QED BY <1>3 DEF Min

LEMMA Greatest ==
    ASSUME NEW p \in Nat, NEW T, T \subseteq 1..p, T # {}
    PROVE  Max(T) \in T /\ \A k \in T : k <= Max(T)
<1> DEFINE D == {p - k : k \in T}
<1>1. D \subseteq Nat /\ D # {}
  <2>1. \A k \in T : p - k \in Nat
    OBVIOUS
  <2> QED BY <2>1
<1>2. \A k \in T : p - k \in D
  OBVIOUS
<1>3. PICK m \in T : Min(D) = p - m
  <2>1. Min(D) \in D
    <3> HIDE DEF D
    <3> QED BY <1>1, Least
  <2> QED BY <2>1
<1>4. \A k \in T : p - m <= p - k
  <2> HIDE DEF D
  <2> QED BY <1>1, <1>2, <1>3, Least
<1>5. \A k \in T : m >= k
  BY <1>4
<1>6. Max(T) \in T /\ \A k \in T : Max(T) >= k
  BY <1>5 DEF Max
<1> QED BY <1>6

LEMMA NewLine ==
    ASSUME NEW p \in Nat, NEW n, NEW types
    PROVE  LET yes == file[p + 1].nt = n /\ file[p + 1].type \in types IN
           /\ LinesOf(p, n, types) \subseteq 1..p
           /\ yes => LinesOf(p + 1, n, types) = LinesOf(p, n, types) \cup {p + 1}
           /\ ~yes => LinesOf(p + 1, n, types) = LinesOf(p, n, types)
<1>1. 1..(p + 1) = 1..p \cup {p + 1}
  OBVIOUS
<1> QED BY <1>1 DEF LinesOf

\* How the members of a set of lines are counted when the next line comes in.
LEMMA NextLine ==
    ASSUME NEW p \in Nat, NEW S, S \subseteq 1..p
    PROVE  /\ Max(S \cup {p + 1}) = p + 1
           /\ S # {} => Min(S \cup {p + 1}) = Min(S)
           /\ Cardinality(S) \in Nat
           /\ Cardinality(S \cup {p + 1}) = Cardinality(S) + 1
           /\ \A k \in 1..Cardinality(S) : Nth(S \cup {p + 1}, k) = Nth(S, k)
           /\ Nth(S \cup {p + 1}, Cardinality(S) + 1) = p + 1
<1> DEFINE U == S \cup {p + 1}
           upto(A, j) == {m \in A : m <= j}
           of(A, k) == {j \in A : Cardinality(upto(A, j)) = k}
<1>1. Max(U) = p + 1
  <2>1. p + 1 \in U /\ \A y \in U : p + 1 >= y
    OBVIOUS
  <2>2. \A x \in U : (\A y \in U : x >= y) => x = p + 1
    OBVIOUS
  <2> HIDE DEF U
  <2> QED BY <2>1, <2>2 DEF Max
<1>2. ASSUME S # {} PROVE Min(U) = Min(S)
  <2>1. S \subseteq Nat /\ U \subseteq Nat /\ U # {}
    OBVIOUS
  <2>2. Min(S) \in S /\ \A k \in S : Min(S) <= k
    BY <1>2, <2>1, Least
  <2> HIDE DEF U
  <2>3. Min(U) \in U /\ \A k \in U : Min(U) <= k
    BY <2>1, Least
  <2>4. \A x : x \in U <=> x \in S \/ x = p + 1
    BY DEF U
  <2>5. \A x \in S : x <= p
    OBVIOUS
  <2> DEFINE a == Min(U)  b == Min(S)
  <2>6. b \in S /\ a \in U /\ b <= p /\ a <= b /\ a \in Nat /\ b \in Nat
    BY <2>1, <2>2, <2>3, <2>4, <2>5
  <2>7. a # p + 1 /\ (a \in S => b <= a)
    <3>1. a \in S => b <= a
      BY <2>2
    <3> HIDE DEF a, b
    <3> QED BY <2>6, <3>1
  <2> HIDE DEF a, b
  <2>8. a = b
    BY <2>4, <2>6, <2>7
  <2> QED BY <2>8 DEF a, b
<1>3. IsFiniteSet(S) /\ p + 1 \notin S /\ Cardinality(S) \in Nat
  <2>1. IsFiniteSet(1..p)
    BY FS_Interval
  <2>2. IsFiniteSet(S)
    BY <2>1, FS_Subset
  <2> QED BY <2>2, FS_CardinalityType
<1>4. Cardinality(U) = Cardinality(S) + 1
  BY <1>3, FS_AddElement
<1>5. \A j \in S : upto(U, j) = upto(S, j)
  OBVIOUS
<1>6. upto(U, p + 1) = U
  <2>1. \A m \in U : m <= p + 1
    OBVIOUS
  <2> HIDE DEF U
  <2> QED BY <2>1
<1>7. \A j \in S : Cardinality(upto(S, j)) \in Nat /\ Cardinality(upto(S, j)) <= Cardinality(S)
  <2> TAKE j \in S
  <2>1. upto(S, j) \in SUBSET S
    OBVIOUS
  <2> HIDE DEF upto
  <2>2. IsFiniteSet(upto(S, j)) /\ Cardinality(upto(S, j)) <= Cardinality(S)
    BY <1>3, <2>1, FS_Subset
  <2> QED BY <2>2, FS_CardinalityType
<1>8. ASSUME NEW k \in 1..Cardinality(S) PROVE Nth(U, k) = Nth(S, k)
  <2>1. p + 1 \notin of(U, k)
    <3> HIDE DEF U, upto
    <3> QED BY <1>3, <1>4, <1>6
  <2>2. \A j \in S : j \in of(U, k) <=> j \in of(S, k)
    <3>1. \A j \in S : Cardinality(upto(U, j)) = Cardinality(upto(S, j))
      BY <1>5
    <3> HIDE DEF upto
    <3> QED BY <3>1
  <2>3. of(U, k) \subseteq U /\ of(S, k) \subseteq S
    OBVIOUS
  <2>4. of(U, k) = of(S, k)
    <3> HIDE DEF of
    <3> QED BY <2>1, <2>2, <2>3
  <2>5. Nth(U, k) = CHOOSE i \in of(U, k) : TRUE
    BY DEF Nth
  <2>6. Nth(S, k) = CHOOSE i \in of(S, k) : TRUE
    BY DEF Nth
  <2> HIDE DEF of
  <2> QED BY <2>4, <2>5, <2>6
<1>9. Nth(U, Cardinality(S) + 1) = p + 1
  <2> DEFINE k == Cardinality(S) + 1
  <2>1. p + 1 \in of(U, k)
    <3>1. p + 1 \in U /\ Cardinality(upto(U, p + 1)) = k
      BY <1>4, <1>6
    <3> HIDE DEF U, upto, k
    <3> QED BY <3>1
  <2>2. \A j \in S : j \notin of(U, k)
    <3>1. \A j \in S : Cardinality(upto(U, j)) = Cardinality(upto(S, j))
      BY <1>5
    <3> HIDE DEF upto
    <3> QED BY <1>3, <1>7, <3>1
  <2>3. of(U, k) \subseteq U
    OBVIOUS
  <2>4. of(U, k) = {p + 1}
    <3> HIDE DEF of
    <3> QED BY <2>1, <2>2, <2>3
  <2>5. Nth(U, k) = CHOOSE i \in of(U, k) : TRUE
    BY DEF Nth
  <2> HIDE DEF of, k
  <2>6. Nth(U, k) = p + 1
    BY <2>4, <2>5
  <2> QED BY <2>6 DEF k
<1> QED BY <1>1, <1>2, <1>3, <1>4, <1>8, <1>9

\* Each place in a set of numbers up to p is taken.
LEMMA NthMember ==
    ASSUME NEW p \in Nat, NEW S, S \subseteq 1..p, NEW k \in 1..Cardinality(S)
    PROVE  Nth(S, k) \in S
<1> DEFINE Fine(q) == \A A \in SUBSET (1..q) : \A j \in 1..Cardinality(A) : Nth(A, j) \in A
           Bad == {q \in Nat : ~Fine(q)}
<1>1. SUFFICES ASSUME Bad # {} PROVE FALSE
  <2>1. Bad = {} => Fine(p)
    OBVIOUS
  <2> QED BY <2>1
<1>2. Min(Bad) \in Bad /\ \A q \in Bad : Min(Bad) <= q
  <2>1. Bad \subseteq Nat
    OBVIOUS
  <2> HIDE DEF Bad
  <2> QED BY <1>1, <2>1, Least
<1> DEFINE q == Min(Bad)
<1>3. PICK A \in SUBSET (1..q) : \E j \in 1..Cardinality(A) : Nth(A, j) \notin A
  <2>1. q \in Bad
    BY <1>2
  <2> HIDE DEF q
  <2> QED BY <2>1
<1>4. q \in Nat /\ \A o \in Nat : o < q => Fine(o)
  <2> HIDE DEF Fine
  <2> QED BY <1>2
<1> HIDE DEF Bad, q
<1>5. A # {} 
  BY <1>3, FS_EmptySet
<1>6. q # 0
  <2>1. q = 0 => 1..q = {}
    BY <1>4
  <2> QED BY <1>3, <1>5, <2>1
<1> DEFINE o == q - 1  B == A \ {q}
<1>7. o \in Nat /\ o < q /\ q = o + 1 /\ B \subseteq 1..o
  BY <1>4, <1>6
<1>8. \A j \in 1..Cardinality(B) : Nth(B, j) \in B
  BY <1>4, <1>7
<1>9. A = B \/ A = B \cup {q}
  BY DEF B
<1>10. CASE A = B
  BY <1>3, <1>8, <1>10
<1>11. CASE A = B \cup {q}
  <2> HIDE DEF o, B
  <2>1. /\ Cardinality(B) \in Nat /\ Cardinality(B \cup {o + 1}) = Cardinality(B) + 1
        /\ \A j \in 1..Cardinality(B) : Nth(B \cup {o + 1}, j) = Nth(B, j)
        /\ Nth(B \cup {o + 1}, Cardinality(B) + 1) = o + 1
    BY <1>7, NextLine
  <2>2. A = B \cup {o + 1}
    BY <1>7, <1>11
  <2>3. /\ Cardinality(B) \in Nat /\ Cardinality(A) = Cardinality(B) + 1
        /\ \A j \in 1..Cardinality(B) : Nth(A, j) = Nth(B, j)
        /\ Nth(A, Cardinality(B) + 1) = o + 1
    BY <2>1, <2>2
  <2>4. PICK j \in 1..Cardinality(A) : Nth(A, j) \notin A
    BY <1>3
  <2>5. j \in 1..Cardinality(B) \/ j = Cardinality(B) + 1
    BY <2>3
  <2>6. o + 1 \in A /\ B \subseteq A
    BY <2>2
  <2> QED BY <1>8, <2>3, <2>4, <2>5, <2>6
<1> QED BY <1>9, <1>10, <1>11

LEMMA NewLast ==
    ASSUME NEW p \in Nat, NEW n, NEW type, NEW default
    PROVE  LastOf(p + 1, n, type, default) =
             IF file[p + 1].nt = n /\ file[p + 1].type = type THEN file[p + 1].value
             ELSE LastOf(p, n, type, default)
<1> DEFINE S == LinesOf(p, n, {type})
<1>1. /\ S \subseteq 1..p
      /\ LinesOf(p + 1, n, {type}) =
           IF file[p + 1].nt = n /\ file[p + 1].type = type THEN S \cup {p + 1} ELSE S
  BY NewLine
<1> HIDE DEF S
<1>2. Max(S \cup {p + 1}) = p + 1
  BY <1>1, NextLine
<1> QED BY <1>1, <1>2 DEF LastOf, S

\* The values of lines.
LEMMA LineValues ==
    ASSUME file \in Files, NEW i \in 1..Len(file)
    PROVE  /\ file[i] \in Line /\ file[i].nt \in Name
           /\ file[i].type \in {"pattern", "enumeration"} => file[i].value \in Str
           /\ file[i].type \in {"minInclusive", "maxInclusive", "minLength", "maxLength"}
                => file[i].value \in Number
           /\ file[i].type = "link" => file[i].value \in Name
<1>1. file \in Seq(Line)
  BY ConstraintsAssumption
<1>2. file[i] \in Line
  BY <1>1
<1> DEFINE l == file[i]
<1> HIDE DEF l
<1>3. ASSUME l \in Line
      PROVE  /\ l.nt \in Name
             /\ l.type \in {"pattern", "enumeration"} => l.value \in Str
             /\ l.type \in {"minInclusive", "maxInclusive", "minLength", "maxLength"}
                  => l.value \in Number
             /\ l.type = "link" => l.value \in Name
  BY <1>3 DEF Line
<1> QED BY <1>2, <1>3 DEF l

\* The last line of a type has a value of that type.
LEMMA LastTyped ==
    ASSUME file \in Files, NEW p \in 0..Len(file), NEW n, NEW type, NEW default
    PROVE  /\ type \in {"minInclusive", "maxInclusive", "minLength", "maxLength"}
                => LastOf(p, n, type, default) \in Number \cup {default}
           /\ type = "link" => LastOf(p, n, type, default) \in Name \cup {default}
<1> DEFINE S == LinesOf(p, n, {type})
<1>1. S \subseteq 1..p /\ \A i \in S : file[i].type = type
  BY DEF LinesOf
<1>2. p \in Nat /\ 1..p \subseteq 1..Len(file)
  <2>1. Len(file) \in Nat
    BY ConstraintsAssumption
  <2> QED BY <2>1
<1>3. LastOf(p, n, type, default) = IF S = {} THEN default ELSE file[Max(S)].value
  BY DEF LastOf
<1> HIDE DEF S
<1>4. S # {} => Max(S) \in S
  BY <1>1, <1>2, Greatest
<1>5. S # {} => Max(S) \in 1..Len(file) /\ file[Max(S)].type = type
  BY <1>1, <1>2, <1>4
<1> QED BY <1>3, <1>5, LineValues

LEMMA SaidTyped ==
    ASSUME file \in Files, NEW p \in 0..Len(file), NEW n
    PROVE  /\ \A k \in Kinds : Said(p, k, n) = None <=> LinesOf(p, n, TypesOf(k)) = {}
           /\ LinesOf(p, n, TypesOf(Enum)) # {} =>
                 /\ Said(p, Enum, n) \in Seq(Str)
                 /\ Len(Said(p, Enum, n)) = Cardinality(LinesOf(p, n, TypesOf(Enum)))
           /\ Said(p, Domain, n) \in {None} \cup [min : Number \cup {None},
                                                 max : Number \cup {None}]
           /\ Said(p, Size, n) \in {None} \cup Bounds
           /\ Said(p, Pattern, n) \in {None} \cup Str
<1> DEFINE S(k) == LinesOf(p, n, TypesOf(k))
<1>1. p \in Nat /\ 1..p \subseteq 1..Len(file)
  <2>1. Len(file) \in Nat
    BY ConstraintsAssumption
  <2> QED BY <2>1
<1>2. \A k : S(k) \subseteq 1..p /\ \A i \in S(k) : file[i].type \in TypesOf(k)
  BY DEF LinesOf
<1>a. TypesOf(Enum) = {"enumeration"} /\ TypesOf(Pattern) = {"pattern"}
  BY DEF TypesOf, Pattern, Enum, Domain, Size
<1>3. ASSUME S(Pattern) # {} PROVE Said(p, Pattern, n) \in Str
  <2>1. Min(S(Pattern)) \in S(Pattern)
    BY <1>2, <1>3, Least
  <2>2. Min(S(Pattern)) \in 1..Len(file) /\ file[Min(S(Pattern))].type = "pattern"
    BY <1>a, <1>1, <1>2, <2>1
  <2>3. Said(p, Pattern, n) = file[Min(S(Pattern))].value
    BY <1>3 DEF Said, Pattern, Enum, Domain, Size
  <2> QED BY <2>2, <2>3, LineValues
<1>4. ASSUME S(Enum) # {}
      PROVE  Said(p, Enum, n) \in Seq(Str) /\ Len(Said(p, Enum, n)) = Cardinality(S(Enum))
  <2> DEFINE N == Cardinality(S(Enum))
  <2>1. N \in Nat
    BY <1>1, <1>2, NextLine
  <2>2. Said(p, Enum, n) = [i \in 1..N |-> file[Nth(S(Enum), i)].value]
    BY <1>4 DEF Said, Pattern, Enum, Domain, Size
  <2>3. ASSUME NEW i \in 1..N PROVE file[Nth(S(Enum), i)].value \in Str
    <3>1. Nth(S(Enum), i) \in S(Enum)
      BY <1>1, <1>2, NthMember
    <3>2. Nth(S(Enum), i) \in 1..Len(file) /\ file[Nth(S(Enum), i)].type = "enumeration"
      BY <1>a, <1>1, <1>2, <3>1
    <3> QED BY <3>2, LineValues
  <2> HIDE DEF N
  <2> QED BY <2>1, <2>2, <2>3 DEF N
<1>5. S(Domain) # {} => Said(p, Domain, n) \in [min : Number \cup {None}, max : Number \cup {None}]
  <2>1. S(Domain) # {} => Said(p, Domain, n) = [min |-> LastOf(p, n, "minInclusive", None),
                                                max |-> LastOf(p, n, "maxInclusive", None)]
    BY DEF Said, Pattern, Enum, Domain, Size
  <2> QED BY <2>1, LastTyped
<1>6. S(Size) # {} => Said(p, Size, n) \in Bounds
  <2>1. S(Size) # {} => Said(p, Size, n) = [min |-> LastOf(p, n, "minLength", 0),
                                            max |-> LastOf(p, n, "maxLength", 0)]
    BY DEF Said, Pattern, Enum, Domain, Size
  <2> QED BY <2>1, LastTyped DEF Bounds
<1>7. \A k \in Kinds : S(k) = {} => Said(p, k, n) = None
  BY DEF Said
<1> HIDE DEF S
<1>8. \A k \in Kinds : Said(p, k, n) = None <=> S(k) = {}
  BY <1>3, <1>4, <1>5, <1>6, <1>7, ConstraintsAssumption DEF Kinds, Enum, Domain, Size, Pattern
<1>9. Enum \in Kinds /\ Domain \in Kinds /\ Size \in Kinds /\ Pattern \in Kinds
  BY DEF Kinds, Enum, Domain, Size, Pattern
<1> QED BY <1>3, <1>4, <1>5, <1>6, <1>7, <1>8, <1>9 DEF S

\* What the next line changes.
LEMMA NewSaid ==
    ASSUME file \in Files, NEW p \in 0..Len(file), p < Len(file), NEW n
    PROVE  LET l == file[p + 1]  old(k) == Said(p, k, n)  new(k) == Said(p + 1, k, n) IN
           /\ \A k \in Kinds : l.nt # n \/ l.type \notin TypesOf(k) => new(k) = old(k)
           /\ l.nt = n /\ l.type = "enumeration" =>
                 new(Enum) = Append(IF old(Enum) = None THEN <<>> ELSE old(Enum), l.value)
           /\ l.nt = n /\ l.type = "pattern" =>
                 new(Pattern) = IF old(Pattern) = None THEN l.value ELSE old(Pattern)
           /\ l.nt = n /\ l.type = "minInclusive" =>
                 new(Domain) = [(IF old(Domain) = None THEN NewDomain ELSE old(Domain))
                                  EXCEPT !["min"] = l.value]
           /\ l.nt = n /\ l.type = "maxInclusive" =>
                 new(Domain) = [(IF old(Domain) = None THEN NewDomain ELSE old(Domain))
                                  EXCEPT !["max"] = l.value]
           /\ l.nt = n /\ l.type = "minLength" =>
                 new(Size) = [(IF old(Size) = None THEN NewSize ELSE old(Size))
                                EXCEPT !["min"] = l.value]
           /\ l.nt = n /\ l.type = "maxLength" =>
                 new(Size) = [(IF old(Size) = None THEN NewSize ELSE old(Size))
                                EXCEPT !["max"] = l.value]
<1> DEFINE l == file[p + 1]  old(k) == Said(p, k, n)  new(k) == Said(p + 1, k, n)
           S(k) == LinesOf(p, n, TypesOf(k))
           T(k) == LinesOf(p + 1, n, TypesOf(k))
<1>1. p \in Nat /\ p + 1 \in 0..Len(file) /\ Len(file) \in Nat
  <2>1. Len(file) \in Nat
    BY ConstraintsAssumption
  <2> QED BY <2>1
<1>2. /\ TypesOf(Enum) = {"enumeration"} /\ TypesOf(Pattern) = {"pattern"}
      /\ TypesOf(Domain) = {"minInclusive", "maxInclusive"}
      /\ TypesOf(Size) = {"minLength", "maxLength"}
  BY DEF TypesOf, Pattern, Enum, Domain, Size
<1>3. \A k \in Kinds : (old(k) = None <=> S(k) = {}) /\ (new(k) = None <=> T(k) = {})
  BY <1>1, SaidTyped
<1>4. \A k : /\ S(k) \subseteq 1..p
             /\ l.nt = n /\ l.type \in TypesOf(k) => T(k) = S(k) \cup {p + 1}
             /\ ~(l.nt = n /\ l.type \in TypesOf(k)) => T(k) = S(k)
  BY <1>1, NewLine
<1>5. \A type, default :
         LastOf(p + 1, n, type, default) = IF l.nt = n /\ l.type = type THEN l.value
                                           ELSE LastOf(p, n, type, default)
  BY <1>1, NewLast
<1>6. \A q, type, default : LinesOf(q, n, {type}) = {} => LastOf(q, n, type, default) = default
  BY DEF LastOf
<1>7. /\ old(Domain) = IF S(Domain) = {} THEN None
                       ELSE [min |-> LastOf(p, n, "minInclusive", None),
                             max |-> LastOf(p, n, "maxInclusive", None)]
      /\ new(Domain) = IF T(Domain) = {} THEN None
                       ELSE [min |-> LastOf(p + 1, n, "minInclusive", None),
                             max |-> LastOf(p + 1, n, "maxInclusive", None)]
      /\ old(Size) = IF S(Size) = {} THEN None
                     ELSE [min |-> LastOf(p, n, "minLength", 0),
                           max |-> LastOf(p, n, "maxLength", 0)]
      /\ new(Size) = IF T(Size) = {} THEN None
                     ELSE [min |-> LastOf(p + 1, n, "minLength", 0),
                           max |-> LastOf(p + 1, n, "maxLength", 0)]
      /\ old(Pattern) = IF S(Pattern) = {} THEN None ELSE file[Min(S(Pattern))].value
      /\ new(Pattern) = IF T(Pattern) = {} THEN None ELSE file[Min(T(Pattern))].value
      /\ old(Enum) = IF S(Enum) = {} THEN None
                     ELSE [i \in 1..Cardinality(S(Enum)) |-> file[Nth(S(Enum), i)].value]
      /\ new(Enum) = IF T(Enum) = {} THEN None
                     ELSE [i \in 1..Cardinality(T(Enum)) |-> file[Nth(T(Enum), i)].value]
  BY DEF Said, Pattern, Enum, Domain, Size
<1>8. S(Domain) = {} => /\ LastOf(p, n, "minInclusive", None) = None
                        /\ LastOf(p, n, "maxInclusive", None) = None
  <2>1. S(Domain) = {} => LinesOf(p, n, {"minInclusive"}) = {} /\ LinesOf(p, n, {"maxInclusive"}) = {}
    BY <1>2 DEF LinesOf
  <2> QED BY <2>1, <1>6
<1>9. S(Size) = {} => /\ LastOf(p, n, "minLength", 0) = 0
                      /\ LastOf(p, n, "maxLength", 0) = 0
  <2>1. S(Size) = {} => LinesOf(p, n, {"minLength"}) = {} /\ LinesOf(p, n, {"maxLength"}) = {}
    BY <1>2 DEF LinesOf
  <2> QED BY <2>1, <1>6
<1>a. Enum \in Kinds /\ Domain \in Kinds /\ Size \in Kinds /\ Pattern \in Kinds
  BY DEF Kinds, Pattern, Enum, Domain, Size
<1> HIDE DEF l, old, new, S, T
<1>10. ASSUME NEW k \in Kinds, l.nt # n \/ l.type \notin TypesOf(k)
       PROVE  new(k) = old(k)
  <2>1. T(k) = S(k)
    BY <1>4, <1>10
  <2>2. CASE k = Enum \/ k = Pattern
    BY <1>7, <2>1, <2>2
  <2>3. CASE k = Domain
    BY <1>2, <1>5, <1>7, <1>10, <2>1, <2>3
  <2>4. CASE k = Size
    BY <1>2, <1>5, <1>7, <1>10, <2>1, <2>4
  <2> QED BY <2>2, <2>3, <2>4 DEF Kinds, Pattern, Enum, Domain, Size
<1>11. ASSUME l.nt = n, l.type = "enumeration"
       PROVE  new(Enum) = Append(IF old(Enum) = None THEN <<>> ELSE old(Enum), l.value)
  <2> DEFINE A == S(Enum)  N == Cardinality(A)
             s == IF old(Enum) = None THEN <<>> ELSE old(Enum)
  <2>1. T(Enum) = A \cup {p + 1}
    BY <1>2, <1>4, <1>11
  <2>2. A \subseteq 1..p
    BY <1>4
  <2> HIDE DEF A
  <2>3. /\ N \in Nat /\ Cardinality(A \cup {p + 1}) = N + 1
        /\ \A k \in 1..N : Nth(A \cup {p + 1}, k) = Nth(A, k)
        /\ Nth(A \cup {p + 1}, N + 1) = p + 1
    BY <1>1, <2>2, NextLine
  <2>4. s \in Seq(Str) /\ Len(s) = N
    <3>1. A # {} => old(Enum) \in Seq(Str) /\ Len(old(Enum)) = N
      BY SaidTyped DEF A, S, old
    <3>2. A = {} => N = 0
      BY FS_EmptySet
    <3>3. old(Enum) = None <=> A = {}
      BY <1>3, <1>a DEF A
    <3> QED BY <3>1, <3>2, <3>3
  <2>5. l.value \in Str
    BY <1>1, <1>11, LineValues DEF l
  <2>6. \A i \in 1..N : s[i] = file[Nth(A, i)].value
    <3>1. A # {} => old(Enum) = [i \in 1..N |-> file[Nth(A, i)].value]
      BY <1>7 DEF A
    <3>2. A = {} => N = 0
      BY FS_EmptySet
    <3>3. old(Enum) = None <=> A = {}
      BY <1>3, <1>a DEF A
    <3>4. A # {} => s = [i \in 1..N |-> file[Nth(A, i)].value]
      BY <3>1, <3>3
    <3>5. A = {} => 1..N = {}
      BY <3>2
    <3> HIDE DEF s, N
    <3> QED BY <3>4, <3>5
  <2>7. new(Enum) = [i \in 1..(N + 1) |-> file[Nth(A \cup {p + 1}, i)].value]
    BY <1>7, <2>1, <2>3
  <2> HIDE DEF N, s
  <2>8. Append(s, l.value) = [i \in 1..(N + 1) |-> IF i \in 1..N THEN s[i] ELSE l.value]
    BY <2>3, <2>4, <2>5
  <2>9. \A i \in 1..(N + 1) :
           file[Nth(A \cup {p + 1}, i)].value = IF i \in 1..N THEN s[i] ELSE l.value
    <3> TAKE i \in 1..(N + 1)
    <3>1. CASE i \in 1..N
      BY <2>3, <2>6, <3>1
    <3>2. CASE i \notin 1..N
      <4>1. i = N + 1
        BY <2>3, <3>2
      <4> QED BY <2>3, <3>2, <4>1 DEF l
    <3> QED BY <3>1, <3>2
  <2>10. new(Enum) = Append(s, l.value)
    BY <2>7, <2>8, <2>9
  <2> QED BY <2>10 DEF s
<1>12. ASSUME l.nt = n, l.type = "pattern"
       PROVE  new(Pattern) = IF old(Pattern) = None THEN l.value ELSE old(Pattern)
  <2> DEFINE A == S(Pattern)
  <2>1. T(Pattern) = A \cup {p + 1} /\ A \subseteq 1..p
    BY <1>2, <1>4, <1>12
  <2> HIDE DEF A
  <2>2. A # {} => Min(A \cup {p + 1}) = Min(A)
    BY <1>1, <2>1, NextLine
  <2>3. A = {} => Min(A \cup {p + 1}) = p + 1
    <3>1. A = {} => A \cup {p + 1} = {p + 1}
      OBVIOUS
    <3>2. Min({p + 1}) \in {p + 1}
      BY <1>1, Least
    <3> QED BY <3>1, <3>2
  <2>4. old(Pattern) = None <=> A = {}
    BY <1>3, <1>a DEF A
  <2>5. new(Pattern) = file[Min(A \cup {p + 1})].value
    BY <1>7, <2>1
  <2>6. A # {} => old(Pattern) = file[Min(A)].value
    BY <1>7 DEF A
  <2> QED BY <2>2, <2>3, <2>4, <2>5, <2>6 DEF l
<1>13. l.nt = n /\ l.type \in TypesOf(Domain) => T(Domain) # {}
  BY <1>4
<1>14. l.nt = n /\ l.type \in TypesOf(Size) => T(Size) # {}
  BY <1>4
<1>15. (IF old(Domain) = None THEN NewDomain ELSE old(Domain))
         = [min |-> LastOf(p, n, "minInclusive", None), max |-> LastOf(p, n, "maxInclusive", None)]
  BY <1>3, <1>7, <1>8, <1>a DEF NewDomain
<1>16. (IF old(Size) = None THEN NewSize ELSE old(Size))
         = [min |-> LastOf(p, n, "minLength", 0), max |-> LastOf(p, n, "maxLength", 0)]
  BY <1>3, <1>7, <1>9, <1>a DEF NewSize
<1>17. /\ l.nt = n /\ l.type = "minInclusive" =>
             new(Domain) = [(IF old(Domain) = None THEN NewDomain ELSE old(Domain))
                              EXCEPT !["min"] = l.value]
       /\ l.nt = n /\ l.type = "maxInclusive" =>
             new(Domain) = [(IF old(Domain) = None THEN NewDomain ELSE old(Domain))
                              EXCEPT !["max"] = l.value]
  BY <1>2, <1>5, <1>7, <1>13, <1>15
<1>18. /\ l.nt = n /\ l.type = "minLength" =>
             new(Size) = [(IF old(Size) = None THEN NewSize ELSE old(Size))
                            EXCEPT !["min"] = l.value]
       /\ l.nt = n /\ l.type = "maxLength" =>
             new(Size) = [(IF old(Size) = None THEN NewSize ELSE old(Size))
                            EXCEPT !["max"] = l.value]
  BY <1>2, <1>5, <1>7, <1>14, <1>16
<1> QED BY <1>10, <1>11, <1>12, <1>17, <1>18 DEF l, old, new

-----------------------------------------------------------------------------
\* The file was read up to pos; the loop over the links goes on for the names in
\* left.
Shapes ==
    /\ file \in Files /\ pos \in 0..Len(file)
    /\ v = [k \in Kinds |-> [n \in Name |-> v[k][n]]]
    /\ links = [n \in Name |-> links[n]]

ReadSoFar ==
    pc = "read" => \A n \in Name :
        /\ links[n] = LastOf(pos, n, "link", None)
        /\ \A k \in Kinds : v[k][n] = Said(pos, k, n)

\* n has what a name of its chain has, and what the name it is linked to has.
OfChain(k, n) == \E m \in Chain(n) : v[k][n] = Says(k, m)
TakenOver(k, n) ==
    LET to == LinkedTo(n) IN
    to # None /\ LinkedTo(to) \in {None, to} =>
        v[k][n] = IF Says(k, to) # None THEN Says(k, to) ELSE Says(k, n)

LinkedSoFar ==
    pc = "link" =>
        /\ \A n \in Name : links[n] = LinkedTo(n)
        /\ left \subseteq {n \in Name : links[n] # None}
        /\ \A k \in Kinds, n \in Name :
              /\ OfChain(k, n)
              /\ n \in left \/ LinkedTo(n) \in {None, n} => v[k][n] = Says(k, n)
              /\ n \notin left => TakenOver(k, n)

Learned == Shapes /\ ReadSoFar /\ LinkedSoFar /\ LinksFollowed

LEMMA InitLearned == ASSUME Init PROVE Learned
<1>1. /\ file \in Files /\ pos = 0 /\ pc = "read"
      /\ v = [k \in Kinds |-> [n \in Name |-> None]]
      /\ links = [n \in Name |-> None]
  BY DEF Init
<1>2. Len(file) \in Nat
  BY <1>1, ConstraintsAssumption
<1>3. \A n, types : LinesOf(0, n, types) = {}
  BY DEF LinesOf
<1>4. ReadSoFar
  BY <1>1, <1>3 DEF ReadSoFar, LastOf, Said
<1>5. Shapes
  BY <1>1, <1>2 DEF Shapes
<1> QED BY <1>1, <1>4, <1>5 DEF Learned, LinkedSoFar, LinksFollowed

LEMMA ReadLineLearned == ASSUME Learned, ReadLine PROVE Learned'
<1> DEFINE l == file[pos + 1]
<1>1. /\ pc = "read" /\ pos < Len(file) /\ pos' = pos + 1 /\ UNCHANGED <<file, pc>>
      /\ \/ ReadPattern(l) \/ ReadEnum(l) \/ ReadLink(l)
         \/ ReadBound(l, "minInclusive", Domain, "min", NewDomain)
         \/ ReadBound(l, "maxInclusive", Domain, "max", NewDomain)
         \/ ReadBound(l, "minLength", Size, "min", NewSize)
         \/ ReadBound(l, "maxLength", Size, "max", NewSize)
  BY DEF ReadLine, Keep
<1>2. /\ file \in Files /\ pos \in 0..Len(file) /\ Len(file) \in Nat
      /\ pos + 1 \in 1..Len(file) /\ pos \in Nat /\ pos + 1 \in 0..Len(file)
  <2>1. file \in Files /\ pos \in 0..Len(file) /\ Len(file) \in Nat
    BY ConstraintsAssumption DEF Learned, Shapes
  <2> QED BY <1>1, <2>1
<1>3. l \in Line /\ l.nt \in Name
  BY <1>2, LineValues
<1>4. \A n \in Name : links[n] = LastOf(pos, n, "link", None)
  BY <1>1 DEF Learned, ReadSoFar
<1>5. \A k \in Kinds, n \in Name : v[k][n] = Said(pos, k, n)
  BY <1>1 DEF Learned, ReadSoFar
<1>6. /\ v = [k \in Kinds |-> [n \in Name |-> v[k][n]]]
      /\ links = [n \in Name |-> links[n]]
  BY DEF Learned, Shapes
<1>7. \A n : LastOf(pos + 1, n, "link", None) =
                IF l.nt = n /\ l.type = "link" THEN l.value ELSE LastOf(pos, n, "link", None)
  <2>1. \A n, type, default :
           LastOf(pos + 1, n, type, default) = IF l.nt = n /\ l.type = type THEN l.value
                                               ELSE LastOf(pos, n, type, default)
    BY <1>2, NewLast
  <2> HIDE DEF l
  <2> QED BY <2>1
<1>8. /\ TypesOf(Enum) = {"enumeration"} /\ TypesOf(Pattern) = {"pattern"}
      /\ TypesOf(Domain) = {"minInclusive", "maxInclusive"}
      /\ TypesOf(Size) = {"minLength", "maxLength"}
  BY DEF TypesOf, Pattern, Enum, Domain, Size
<1>9. /\ Enum \in Kinds /\ Domain \in Kinds /\ Size \in Kinds /\ Pattern \in Kinds
      /\ Kinds = {Enum, Domain, Size, Pattern}
      /\ Enum # Domain /\ Enum # Size /\ Enum # Pattern
      /\ Domain # Size /\ Domain # Pattern /\ Size # Pattern
  BY DEF Kinds, Pattern, Enum, Domain, Size
<1> DEFINE old(k, n) == Said(pos, k, n)  new(k, n) == Said(pos + 1, k, n)
<1>10. \A n : /\ \A k \in Kinds : l.nt # n \/ l.type \notin TypesOf(k) => new(k, n) = old(k, n)
              /\ l.nt = n /\ l.type = "enumeration" => new(Enum, n)
                    = Append(IF old(Enum, n) = None THEN <<>> ELSE old(Enum, n), l.value)
              /\ l.nt = n /\ l.type = "pattern" => new(Pattern, n)
                    = IF old(Pattern, n) = None THEN l.value ELSE old(Pattern, n)
              /\ l.nt = n /\ l.type = "minInclusive" => new(Domain, n)
                    = [(IF old(Domain, n) = None THEN NewDomain ELSE old(Domain, n))
                         EXCEPT !["min"] = l.value]
              /\ l.nt = n /\ l.type = "maxInclusive" => new(Domain, n)
                    = [(IF old(Domain, n) = None THEN NewDomain ELSE old(Domain, n))
                         EXCEPT !["max"] = l.value]
              /\ l.nt = n /\ l.type = "minLength" => new(Size, n)
                    = [(IF old(Size, n) = None THEN NewSize ELSE old(Size, n))
                         EXCEPT !["min"] = l.value]
              /\ l.nt = n /\ l.type = "maxLength" => new(Size, n)
                    = [(IF old(Size, n) = None THEN NewSize ELSE old(Size, n))
                         EXCEPT !["max"] = l.value]
  BY <1>1, <1>2, NewSaid
<1> DEFINE Goal == /\ v' = [k \in Kinds |-> [n \in Name |-> v'[k][n]]]
                   /\ links' = [n \in Name |-> links'[n]]
                   /\ \A n \in Name : links'[n] = LastOf(pos + 1, n, "link", None)
                   /\ \A k \in Kinds, n \in Name : v'[k][n] = new(k, n)
<1>11. ASSUME Goal PROVE Learned'
  <2>1. /\ \A n : LastOf(pos, n, "link", None)' = LastOf(pos + 1, n, "link", None)
        /\ \A k, n : Said(pos, k, n)' = new(k, n)
    BY <1>1 DEF LastOf, LinesOf, Said
  <2>2. Shapes'
    BY <1>1, <1>2, <1>11 DEF Shapes
  <2>3. ReadSoFar'
    BY <1>11, <2>1 DEF ReadSoFar
  <2> QED BY <1>1, <2>2, <2>3 DEF Learned, LinkedSoFar, LinksFollowed
<1> DEFINE x == l.nt
\* A line of one kind changes the entry of one name in one map.
<1>12. ASSUME NEW K \in Kinds, NEW e, l.type # "link", l.type \in TypesOf(K),
              \A k \in Kinds : k # K => l.type \notin TypesOf(k),
              v' = [v EXCEPT ![K][x] = e], e = new(K, x), UNCHANGED links
       PROVE  Goal
  <2>1. \A k \in Kinds, n \in Name : v'[k][n] = IF k = K /\ n = x THEN e ELSE v[k][n]
    BY <1>3, <1>6, <1>12
  <2>2. v' = [k \in Kinds |-> [n \in Name |-> v'[k][n]]]
    BY <1>3, <1>6, <1>12
  <2>3. \A k \in Kinds, n \in Name : v'[k][n] = new(k, n)
    <3> TAKE k \in Kinds, n \in Name
    <3>1. CASE k = K /\ n = x
      BY <1>12, <2>1, <3>1
    <3>2. CASE ~(k = K /\ n = x)
      <4>1. new(k, n) = old(k, n)
        BY <1>10, <1>12, <3>2
      <4> QED BY <1>5, <2>1, <3>2, <4>1
    <3> QED BY <3>1, <3>2
  <2>4. \A n \in Name : links'[n] = LastOf(pos + 1, n, "link", None)
    BY <1>4, <1>7, <1>12
  <2> QED BY <1>6, <1>12, <2>2, <2>3, <2>4
<1>13. CASE ReadPattern(l)
  <2> DEFINE e == IF v[Pattern][x] = None THEN l.value ELSE v[Pattern][x]
  <2>1. l.type = "pattern" /\ v' = [v EXCEPT ![Pattern][x] = e] /\ UNCHANGED links
    BY <1>13 DEF ReadPattern
  <2>2. e = new(Pattern, x)
    BY <1>3, <1>5, <1>9, <1>10, <2>1
  <2> HIDE DEF e, Goal, new
  <2>3. Goal
    BY <1>8, <1>9, <1>12, <2>1, <2>2
  <2> QED BY <1>11, <2>3
<1>14. CASE ReadEnum(l)
  <2> DEFINE e == Append(IF v[Enum][x] = None THEN <<>> ELSE v[Enum][x], l.value)
  <2>1. l.type = "enumeration" /\ v' = [v EXCEPT ![Enum][x] = e] /\ UNCHANGED links
    BY <1>14 DEF ReadEnum
  <2>2. e = new(Enum, x)
    BY <1>3, <1>5, <1>9, <1>10, <2>1
  <2> HIDE DEF e, Goal, new
  <2>3. Goal
    BY <1>8, <1>9, <1>12, <2>1, <2>2
  <2> QED BY <1>11, <2>3
<1>15. ASSUME NEW type, NEW K \in {Domain, Size}, NEW bound, NEW first,
              ReadBound(l, type, K, bound, first),
              \/ type = "minInclusive" /\ K = Domain /\ bound = "min" /\ first = NewDomain
              \/ type = "maxInclusive" /\ K = Domain /\ bound = "max" /\ first = NewDomain
              \/ type = "minLength" /\ K = Size /\ bound = "min" /\ first = NewSize
              \/ type = "maxLength" /\ K = Size /\ bound = "max" /\ first = NewSize
       PROVE  Learned'
  <2> DEFINE e == [(IF v[K][x] = None THEN first ELSE v[K][x]) EXCEPT ![bound] = l.value]
  <2>1. l.type = type /\ v' = [v EXCEPT ![K][x] = e] /\ UNCHANGED links
    BY <1>15 DEF ReadBound
  <2>2. v[K][x] = old(K, x)
    BY <1>3, <1>5, <1>9
  <2>3. e = new(K, x)
    <3> HIDE DEF l, new, old
    <3>1. /\ l.type = "minInclusive" => new(Domain, x)
                 = [(IF old(Domain, x) = None THEN NewDomain ELSE old(Domain, x))
                      EXCEPT !["min"] = l.value]
          /\ l.type = "maxInclusive" => new(Domain, x)
                 = [(IF old(Domain, x) = None THEN NewDomain ELSE old(Domain, x))
                      EXCEPT !["max"] = l.value]
          /\ l.type = "minLength" => new(Size, x)
                 = [(IF old(Size, x) = None THEN NewSize ELSE old(Size, x))
                      EXCEPT !["min"] = l.value]
          /\ l.type = "maxLength" => new(Size, x)
                 = [(IF old(Size, x) = None THEN NewSize ELSE old(Size, x))
                      EXCEPT !["max"] = l.value]
      BY <1>10
    <3>2. e = [(IF old(K, x) = None THEN first ELSE old(K, x)) EXCEPT ![bound] = l.value]
      BY <2>2
    <3> HIDE DEF e, x
    <3>3. CASE type = "minInclusive" /\ K = Domain /\ bound = "min" /\ first = NewDomain
      BY <2>1, <3>1, <3>2, <3>3
    <3>4. CASE type = "maxInclusive" /\ K = Domain /\ bound = "max" /\ first = NewDomain
      BY <2>1, <3>1, <3>2, <3>4
    <3>5. CASE type = "minLength" /\ K = Size /\ bound = "min" /\ first = NewSize
      BY <2>1, <3>1, <3>2, <3>5
    <3>6. CASE type = "maxLength" /\ K = Size /\ bound = "max" /\ first = NewSize
      BY <2>1, <3>1, <3>2, <3>6
    <3> QED BY <1>15, <3>3, <3>4, <3>5, <3>6
  <2> HIDE DEF e, Goal, new
  <2>4. /\ K \in Kinds /\ l.type # "link" /\ l.type \in TypesOf(K)
        /\ \A k \in Kinds : k # K => l.type \notin TypesOf(k)
    BY <1>8, <1>9, <1>15, <2>1
  <2>5. Goal
    BY <1>12, <2>1, <2>3, <2>4
  <2> QED BY <1>11, <2>5
<1>16. CASE ReadLink(l)
  <2>1. l.type = "link" /\ links' = [links EXCEPT ![x] = l.value] /\ UNCHANGED v
    BY <1>16 DEF ReadLink
  <2>2. \A k \in Kinds : l.type \notin TypesOf(k)
    BY <1>8, <1>9, <2>1
  <2>3. \A k \in Kinds, n \in Name : v'[k][n] = new(k, n)
    BY <1>5, <1>10, <2>1, <2>2
  <2>4. \A n \in Name : links'[n] = LastOf(pos + 1, n, "link", None)
    BY <1>3, <1>4, <1>6, <1>7, <2>1
  <2>5. Goal
    BY <1>6, <2>1, <2>3, <2>4
  <2> HIDE DEF Goal
  <2> QED BY <1>11, <2>5
<1> QED BY <1>1, <1>13, <1>14, <1>15, <1>16

LEMMA ChainBegins == ASSUME NEW n \in Name PROVE n \in Chain(n)
BY DEF Chain

LEMMA ChainGoesOn ==
    ASSUME NEW n \in Name, LinkedTo(n) # None
    PROVE  Chain(LinkedTo(n)) \subseteq Chain(n)
<1> DEFINE Closed(S) == \A x \in S : LinkedTo(x) \in S \cup {None}
<1>1. \A a \in Name \cup {LinkedTo(n)} :
         Chain(a) = {m \in Name : \A S \in SUBSET Name : a \in S /\ Closed(S) => m \in S}
  BY DEF Chain
<1>2. \A S : n \in S /\ Closed(S) => LinkedTo(n) \in S
  OBVIOUS
<1> HIDE DEF Closed
<1> QED BY <1>1, <1>2

LEMMA LinkedToTyped ==
    ASSUME Shapes, NEW n PROVE LinkedTo(n) \in Name \cup {None}
<1>1. file \in Files /\ Len(file) \in 0..Len(file)
  BY ConstraintsAssumption DEF Shapes
<1> QED BY <1>1, LastTyped DEF LinkedTo

\* What the file says stays.
LEMMA SameFile ==
    ASSUME UNCHANGED file
    PROVE  /\ \A k, n : Says(k, n)' = Says(k, n)
           /\ \A n : LinkedTo(n)' = LinkedTo(n) /\ Chain(n)' = Chain(n)
<1>1. \A n, types : LinesOf(Len(file), n, types)' = LinesOf(Len(file), n, types)
  BY DEF LinesOf
<1>2. \A n, type, default :
         LastOf(Len(file), n, type, default)' = LastOf(Len(file), n, type, default)
  BY <1>1 DEF LastOf
<1>3. \A n : LinkedTo(n)' = LinkedTo(n)
  BY <1>2 DEF LinkedTo
<1>4. \A n : Chain(n)' = Chain(n)
  BY <1>3 DEF Chain
<1>5. \A k, n : Says(k, n)' = Says(k, n)
  <2>1. \A k, n : Said(Len(file), k, n)' = Said(Len(file), k, n)
    BY DEF Said, LastOf, LinesOf
  <2> QED BY <2>1 DEF Says
<1> QED BY <1>3, <1>4, <1>5

LEMMA StartLinksLearned == ASSUME Learned, StartLinks PROVE Learned'
<1>1. /\ pc = "read" /\ pos = Len(file) /\ pc' = "link"
      /\ left' = {n \in Name : links[n] # None}
      /\ UNCHANGED <<file, pos, v, links>>
  BY DEF StartLinks, Keep
<1>2. Shapes'
  BY <1>1 DEF Learned, Shapes
<1>3. \A n \in Name : links[n] = LinkedTo(n) /\ \A k \in Kinds : v[k][n] = Says(k, n)
  BY <1>1 DEF Learned, ReadSoFar, LinkedTo, Says
<1>4. /\ \A k, n : Says(k, n)' = Says(k, n)
      /\ \A n : LinkedTo(n)' = LinkedTo(n) /\ Chain(n)' = Chain(n)
  BY <1>1, SameFile
<1>5. LinkedSoFar'
  <2>1. \A k \in Kinds, n \in Name :
           OfChain(k, n)' /\ (n \notin left' => TakenOver(k, n)')
    BY <1>1, <1>3, <1>4, ChainBegins DEF OfChain, TakenOver
  <2> QED BY <1>1, <1>3, <1>4, <2>1 DEF LinkedSoFar
<1> QED BY <1>1, <1>2, <1>5 DEF Learned, ReadSoFar, LinksFollowed

LEMMA ApplyLinkLearned == ASSUME Learned, NEW n \in Name, ApplyLink(n) PROVE Learned'
<1> DEFINE to == LinkedTo(n)
<1>1. /\ pc = "link" /\ n \in left /\ left' = left \ {n}
      /\ v' = [k \in Kinds |-> Applied(v[k], n)]
      /\ UNCHANGED <<file, pos, links, pc>>
  BY DEF ApplyLink, Keep
<1>2. /\ \A m \in Name : links[m] = LinkedTo(m)
      /\ left \subseteq {m \in Name : links[m] # None}
      /\ \A k \in Kinds, m \in Name :
            /\ OfChain(k, m)
            /\ m \in left \/ LinkedTo(m) \in {None, m} => v[k][m] = Says(k, m)
            /\ m \notin left => TakenOver(k, m)
  BY <1>1 DEF Learned, LinkedSoFar
<1>3. to = links[n] /\ to \in Name
  BY <1>1, <1>2, LinkedToTyped DEF Learned
<1>4. v = [k \in Kinds |-> [m \in Name |-> v[k][m]]]
  BY DEF Learned, Shapes
<1> HIDE DEF to
<1>5. /\ \A k \in Kinds : v'[k] = [v[k] EXCEPT ![n] = IF v[k][to] # None THEN v[k][to] ELSE v[k][n]]
      /\ \A k \in Kinds, m \in Name :
            v'[k][m] = IF m = n /\ v[k][to] # None THEN v[k][to] ELSE v[k][m]
      /\ v' = [k \in Kinds |-> [m \in Name |-> v'[k][m]]]
  <2>1. \A k \in Kinds : v'[k] = [v[k] EXCEPT ![n] = IF v[k][to] # None THEN v[k][to] ELSE @]
    BY <1>1, <1>3 DEF Applied
  <2>2. \A k \in Kinds : v[k] = [m \in Name |-> v[k][m]]
    BY <1>4
  <2>3. \A k \in Kinds : v'[k] = [m \in Name |-> v'[k][m]]
    BY <2>1, <2>2
  <2>4. v' = [k \in Kinds |-> v'[k]]
    BY <1>1
  <2> QED BY <2>1, <2>2, <2>3, <2>4
<1>6. Shapes'
  BY <1>1, <1>5 DEF Learned, Shapes
<1>7. /\ \A k, m : Says(k, m)' = Says(k, m)
      /\ \A m : LinkedTo(m)' = LinkedTo(m) /\ Chain(m)' = Chain(m)
  BY <1>1, SameFile
<1>8. ASSUME NEW k \in Kinds, NEW m \in Name
      PROVE  /\ OfChain(k, m)'
             /\ m \in left' \/ LinkedTo(m) \in {None, m} => v'[k][m] = Says(k, m)
             /\ m \notin left' => TakenOver(k, m)'
  <2>1. CASE m # n
    <3>1. v'[k][m] = v[k][m] /\ (m \in left' <=> m \in left)
      BY <1>1, <1>5, <2>1
    <3>2. OfChain(k, m)' /\ (m \notin left' => TakenOver(k, m)')
      BY <1>2, <1>7, <3>1 DEF OfChain, TakenOver
    <3> QED BY <1>2, <3>1, <3>2
  <2>2. CASE m = n
    <3>1. v'[k][n] = IF v[k][to] # None THEN v[k][to] ELSE v[k][n]
      BY <1>5
    <3>2. OfChain(k, n)'
      <4>1. \E c \in Chain(to) : v[k][to] = Says(k, c)
        BY <1>2, <1>3 DEF OfChain
      <4>2. \E c \in Chain(n) : v[k][n] = Says(k, c)
        BY <1>2 DEF OfChain
      <4>3. Chain(to) \subseteq Chain(n)
        <5>1. LinkedTo(n) # None
          BY <1>1, <1>2
        <5> QED BY <5>1, ChainGoesOn DEF to
      <4> QED BY <1>7, <3>1, <4>1, <4>2, <4>3 DEF OfChain
    <3>3. v[k][n] = Says(k, n)
      BY <1>1, <1>2
    <3>4. LinkedTo(to) \in {None, to} => v[k][to] = Says(k, to)
      BY <1>2, <1>3
    <3>5. TakenOver(k, n)'
      BY <1>7, <3>1, <3>3, <3>4 DEF TakenOver, to
    <3>6. LinkedTo(n) \in {None, n} => v'[k][n] = Says(k, n)
      <4>1. LinkedTo(n) # None
        BY <1>1, <1>2
      <4> QED BY <3>1, <3>3, <4>1 DEF to
    <3> QED BY <1>1, <2>2, <3>2, <3>5, <3>6
  <2> QED BY <2>1, <2>2
<1>9. LinkedSoFar'
  BY <1>1, <1>2, <1>7, <1>8 DEF LinkedSoFar
<1> QED BY <1>1, <1>6, <1>9 DEF Learned, ReadSoFar, LinksFollowed

\* When the loop over the links has ended, the maps stay as they are.
LEMMA LaterLearned ==
    ASSUME Learned, UNCHANGED <<file, pos, v, links>>,
           \/ pc = "read" /\ pc' = "type"
           \/ pc = "link" /\ left = {} /\ pc' \notin {"read", "link", "type"}
           \/ pc \notin {"read", "link", "type"} /\ pc' \notin {"read", "link", "type"}
           \/ UNCHANGED <<pc, left>>
    PROVE  Learned'
<1>1. Shapes'
  BY DEF Learned, Shapes
<1>2. /\ \A k, n : Says(k, n)' = Says(k, n)
      /\ \A n : LinkedTo(n)' = LinkedTo(n) /\ Chain(n)' = Chain(n)
  BY SameFile
<1>3. LinksFollowed => LinksFollowed' \/ pc \in {"read", "link", "type"}
  BY <1>2 DEF LinksFollowed
<1>4. CASE pc = "read" /\ pc' = "type"
  BY <1>1, <1>4 DEF Learned, ReadSoFar, LinkedSoFar, LinksFollowed
<1>5. CASE pc = "link" /\ left = {} /\ pc' \notin {"read", "link", "type"}
  <2>1. \A k \in Kinds, n \in Name :
           /\ OfChain(k, n) /\ TakenOver(k, n)
           /\ LinkedTo(n) = None => v[k][n] = Says(k, n)
    BY <1>5 DEF Learned, LinkedSoFar
  <2>2. LinksFollowed'
    BY <1>2, <2>1 DEF LinksFollowed, OfChain, TakenOver
  <2> QED BY <1>1, <1>5, <2>2 DEF Learned, ReadSoFar, LinkedSoFar
<1>6. CASE pc \notin {"read", "link", "type"} /\ pc' \notin {"read", "link", "type"}
  BY <1>1, <1>3, <1>6 DEF Learned, ReadSoFar, LinkedSoFar
<1>7. CASE UNCHANGED <<pc, left>>
  <2>1. ReadSoFar'
    <3>1. \A n : LastOf(pos, n, "link", None)' = LastOf(pos, n, "link", None)
      BY DEF LastOf, LinesOf
    <3>2. \A k, n : Said(pos, k, n)' = Said(pos, k, n)
      BY DEF Said, LastOf, LinesOf
    <3> QED BY <1>7, <3>1, <3>2 DEF Learned, ReadSoFar
  <2>2. \A k, n : OfChain(k, n)' = OfChain(k, n) /\ TakenOver(k, n)' = TakenOver(k, n)
    BY <1>2 DEF OfChain, TakenOver
  <2>3. LinkedSoFar'
    BY <1>2, <1>7, <2>2 DEF Learned, LinkedSoFar
  <2>4. LinksFollowed'
    BY <1>2, <1>7 DEF Learned, LinksFollowed
  <2> QED BY <1>1, <2>1, <2>3, <2>4 DEF Learned
<1> QED BY <1>4, <1>5, <1>6, <1>7

LEMMA NextLearned == ASSUME Learned, [Next]_vars PROVE Learned'
<1>1. CASE ReadOther
  BY <1>1, LaterLearned DEF ReadOther, Keep
<1>2. ASSUME NEW caller \in {"add", "map"}, Return(caller) PROVE Learned'
  BY <1>2, LaterLearned DEF Return, Keep
<1>3. CASE NextKind
  BY <1>3, LaterLearned DEF NextKind, Keep
<1>4. ASSUME NEW n \in Name, Add(n) PROVE Learned'
  <2>1. pc = "add" /\ pc' \in {"add", "name", "undefined"} /\ UNCHANGED <<file, pos, v, links>>
    BY <1>4 DEF Add, Keep
  <2> QED BY <2>1, LaterLearned
<1>5. ASSUME NEW n \in Name, Assign(n) \/ AssignThrows(n) PROVE Learned'
  BY <1>5, LaterLearned DEF Assign, AssignThrows, Keep
<1>6. ASSUME NEW n \in Name, NEW m \in Name, MoveVariant(n, m) PROVE Learned'
  BY <1>6, LaterLearned DEF MoveVariant, Keep
<1>7. CASE UNCHANGED vars
  BY <1>7, LaterLearned DEF vars
<1> QED
  BY <1>1, <1>2, <1>3, <1>4, <1>5, <1>6, <1>7, ReadLineLearned, StartLinksLearned,
     ApplyLinkLearned DEF Next

\* read_constraints() has for each name what the lines say of it: its own, or that
\* of the name it is linked to, in every order in which the links are followed.
THEOREM LinksExact == Spec => []LinksFollowed
<1>1. Learned => LinksFollowed
  BY DEF Learned
<1> QED BY <1>1, InitLearned, NextLearned, PTL DEF Spec
-----------------------------------------------------------------------------
\* The constraints of a rule when all are added, its own and those of the file.
OwnItem(n) == [kind |-> Size, value |-> g[n].size, source |-> "ASN1"]
OwnItems(n) == IF g[n].size = None THEN {} ELSE {OwnItem(n)}
FileItems(n, K) == {Item(n, k) : k \in {j \in Kinds : j <= K /\ v[j][n] # None}}

\* A sequence has each element of a set once.
Lists(s, E) ==
    /\ s \in Seq(E)
    /\ \A x \in E : \E i \in DOMAIN s : s[i] = x
    /\ \A i, j \in DOMAIN s : s[i] = s[j] => i = j

LEMMA ListsAppend ==
    ASSUME NEW s, NEW E, Lists(s, E), NEW x, x \notin E
    PROVE  Lists(Append(s, x), E \cup {x})
<1> DEFINE t == Append(s, x)  N == Len(s)
<1>1. /\ s \in Seq(E) /\ s \in Seq(E \cup {x}) /\ N \in Nat
      /\ DOMAIN s = 1..N /\ \A i \in 1..N : s[i] \in E
  BY DEF Lists
<1>2. /\ t \in Seq(E \cup {x}) /\ DOMAIN t = 1..(N + 1)
      /\ \A i \in 1..N : t[i] = s[i]
      /\ t[N + 1] = x
  BY <1>1
<1>3. \A i \in 1..(N + 1) : i \in 1..N \/ i = N + 1
  BY <1>1
<1>4. N + 1 \in 1..(N + 1) /\ 1..N \subseteq 1..(N + 1)
  BY <1>1
<1> HIDE DEF t, N
<1>5. \A y \in E \cup {x} : \E i \in DOMAIN t : t[i] = y
  BY <1>1, <1>2, <1>4 DEF Lists
<1>6. \A i, j \in DOMAIN t : t[i] = t[j] => i = j
  BY <1>1, <1>2, <1>3 DEF Lists
<1> QED BY <1>2, <1>5, <1>6 DEF Lists, t

LEMMA Listed ==
    ASSUME NEW n
    PROVE  Lists(Own(n) \o Expected(n, 4), OwnItems(n) \cup FileItems(n, 4))
<1> DEFINE s(k) == Own(n) \o Expected(n, k)
           E(k) == OwnItems(n) \cup FileItems(n, k)
<1>1. Lists(s(0), E(0))
  <2>1. s(0) = Own(n) /\ E(0) = OwnItems(n)
    BY NoRefs DEF FileItems, Kinds
  <2>2. CASE g[n].size = None
    <3>1. Own(n) = <<>> /\ OwnItems(n) = {}
      BY <2>2 DEF Own, OwnItems
    <3>2. Lists(<<>>, {})
      BY DEF Lists
    <3> QED BY <2>1, <3>1, <3>2
  <2>3. CASE g[n].size # None
    <3>1. Own(n) = <<OwnItem(n)>> /\ OwnItems(n) = {OwnItem(n)}
      BY <2>3 DEF Own, OwnItems, OwnItem
    <3>2. Lists(<<OwnItem(n)>>, {OwnItem(n)})
      BY DEF Lists
    <3> QED BY <2>1, <3>1, <3>2
  <2> QED BY <2>2, <2>3
<1>2. ASSUME NEW k \in Kinds, Lists(s(k - 1), E(k - 1)) PROVE Lists(s(k), E(k))
  <2>1. s(k) = IF v[k][n] = None THEN s(k - 1) ELSE Append(s(k - 1), Item(n, k))
    BY NextRefs
  <2>2. E(k) = IF v[k][n] = None THEN E(k - 1) ELSE E(k - 1) \cup {Item(n, k)}
    <3>1. \A j \in Kinds : j <= k <=> j <= k - 1 \/ j = k
      BY DEF Kinds
    <3> QED BY <3>1 DEF FileItems
  <2>3. Item(n, k) \notin E(k - 1)
    <3>1. Item(n, k) # OwnItem(n)
      BY DEF Item, OwnItem, Source
    <3>2. \A j \in Kinds : j <= k - 1 => Item(n, j) # Item(n, k)
      BY DEF Item, Kinds
    <3> QED BY <3>1, <3>2 DEF OwnItems, FileItems
  <2> HIDE DEF s, E
  <2> QED BY <1>2, <2>1, <2>2, <2>3, ListsAppend
<1> HIDE DEF s, E
<1>3. Lists(s(1), E(1)) /\ Lists(s(2), E(2)) /\ Lists(s(3), E(3)) /\ Lists(s(4), E(4))
  <2>1. Lists(s(1), E(1))
    BY <1>1, <1>2 DEF Kinds
  <2>2. Lists(s(2), E(2))
    BY <1>2, <2>1 DEF Kinds
  <2>3. Lists(s(3), E(3))
    BY <1>2, <2>2 DEF Kinds
  <2> QED BY <1>2, <2>1, <2>2, <2>3 DEF Kinds
<1> QED BY <1>3 DEF s, E

\* The values in the map have the types of their kind.
LEMMA ValuesTyped ==
    ASSUME Learned, pc = "added", NEW n \in Name
    PROVE  /\ v[Enum][n] # None =>
                v[Enum][n] \in Seq(Str) /\ \E i \in DOMAIN v[Enum][n] : TRUE
           /\ v[Domain][n] \in {None} \cup [min : Number \cup {None}, max : Number \cup {None}]
           /\ v[Size][n] \in {None} \cup Bounds
           /\ v[Pattern][n] \in {None} \cup Str
<1>1. \A k \in Kinds : \E m : v[k][n] = Says(k, m)
  BY DEF Learned, LinksFollowed
<1>2. file \in Files /\ Len(file) \in 0..Len(file)
  BY ConstraintsAssumption DEF Learned, Shapes
<1>3. Enum \in Kinds /\ Domain \in Kinds /\ Size \in Kinds /\ Pattern \in Kinds
  BY DEF Kinds, Enum, Domain, Size, Pattern
<1>4. ASSUME NEW m, Says(Enum, m) # None
      PROVE  Says(Enum, m) \in Seq(Str) /\ \E i \in DOMAIN Says(Enum, m) : TRUE
  <2> DEFINE S == LinesOf(Len(file), m, TypesOf(Enum))
  <2>1. /\ S # {} /\ Says(Enum, m) \in Seq(Str)
        /\ Len(Says(Enum, m)) = Cardinality(S)
    BY <1>2, <1>3, <1>4, SaidTyped DEF Says
  <2>2. S \subseteq 1..Len(file)
    BY DEF LinesOf
  <2> HIDE DEF S
  <2>3. IsFiniteSet(S)
    <3>1. IsFiniteSet(1..Len(file))
      BY <1>2, FS_Interval
    <3> QED BY <2>2, <3>1, FS_Subset
  <2>4. Cardinality(S) \in Nat \ {0}
    BY <2>1, <2>3, FS_EmptySet, FS_CardinalityType
  <2>5. 1 \in DOMAIN Says(Enum, m)
    BY <2>1, <2>4
  <2> QED BY <2>1, <2>5
<1> QED BY <1>1, <1>2, <1>3, <1>4, SaidTyped DEF Says

-----------------------------------------------------------------------------
LEMMA KindsApart ==
    /\ Kinds = {Enum, Domain, Size, Pattern}
    /\ Enum # Domain /\ Enum # Size /\ Enum # Pattern
    /\ Domain # Size /\ Domain # Pattern /\ Size # Pattern
BY DEF Kinds, Enum, Domain, Size, Pattern

LEMMA OneAndOne ==
    ASSUME NEW a, NEW b
    PROVE  <<a>> \o <<b>> = <<a, b>> /\ <<a>> \o <<>> = <<a>> /\ <<>> \o <<b>> = <<b>>
<1>1. <<a>> \in Seq({a, b}) /\ <<b>> \in Seq({a, b})
  OBVIOUS
<1>2. <<a>> \o <<b>> = Append(<<a>>, b)
  BY <1>1, Concat
<1>3. Append(<<a>>, b) = <<a, b>>
  <2> DEFINE t == Append(<<a>>, b)  u == <<a, b>>
  <2>1. t \in Seq({a, b}) /\ Len(t) = 2 /\ t[1] = a /\ t[2] = b
    BY <1>1, AppendProperties
  <2>2. u \in Seq({a, b}) /\ Len(u) = 2 /\ u[1] = a /\ u[2] = b
    OBVIOUS
  <2> HIDE DEF t, u
  <2>3. t = u
    BY <2>1, <2>2, SeqEqual
  <2> QED BY <2>3 DEF t, u
<1>4. \A s \in Seq({a, b}) : s \o <<>> = s /\ <<>> \o s = s
  BY ConcatEmptySeq
<1>5. <<a>> \o <<b>> = <<a, b>>
  BY <1>2, <1>3
<1>6. <<a>> \o <<>> = <<a>> /\ <<>> \o <<b>> = <<b>>
  BY <1>1, <1>4
<1> QED BY <1>5, <1>6

\* The facet of one name among those of a constraint.
Named(c, symbol_name, name) ==
    {j \in DOMAIN FacetsOf(c, symbol_name) : FacetsOf(c, symbol_name)[j].facet = name}
ValuesIn(c, symbol_name, name) ==
    {FacetsOf(c, symbol_name)[j].value : j \in Named(c, symbol_name, name)}

LEMMA FacetsBySort ==
    ASSUME NEW c, NEW t
    PROVE  LET fs == FacetsOf(c, t) IN
           /\ c.kind = Size =>
                fs = <<[facet |-> "minLength", value |-> Factor(c, t) * c.value.min],
                       [facet |-> "maxLength", value |-> Factor(c, t) * c.value.max]>>
           /\ c.kind = Enum =>
                fs = [i \in DOMAIN c.value |-> [facet |-> "enumeration", value |-> c.value[i]]]
           /\ c.kind = Pattern => fs = <<[facet |-> "pattern", value |-> c.value]>>
           /\ c.kind = Domain =>
                fs = IF c.value.min = None
                       THEN IF c.value.max = None THEN <<>>
                            ELSE <<[facet |-> "maxInclusive", value |-> c.value.max]>>
                     ELSE IF c.value.max = None
                       THEN <<[facet |-> "minInclusive", value |-> c.value.min]>>
                     ELSE <<[facet |-> "minInclusive", value |-> c.value.min],
                            [facet |-> "maxInclusive", value |-> c.value.max]>>
<1>1. <<>> \o <<>> = <<>>
  BY ConcatEmptySeq
<1> QED BY <1>1, OneAndOne, KindsApart DEF FacetsOf, Facet

LEMMA FacetValues ==
    ASSUME NEW c, c.kind \in Kinds, NEW t
    PROVE  LET of(name) == ValuesIn(c, t, name) IN
           /\ of("minLength") = IF c.kind = Size THEN {Factor(c, t) * c.value.min} ELSE {}
           /\ of("maxLength") = IF c.kind = Size THEN {Factor(c, t) * c.value.max} ELSE {}
           /\ of("minInclusive") =
                IF c.kind = Domain /\ c.value.min # None THEN {c.value.min} ELSE {}
           /\ of("maxInclusive") =
                IF c.kind = Domain /\ c.value.max # None THEN {c.value.max} ELSE {}
           /\ of("enumeration") =
                IF c.kind = Enum THEN {c.value[i] : i \in DOMAIN c.value} ELSE {}
           /\ of("pattern") = IF c.kind = Pattern THEN {c.value} ELSE {}
<1>1. CASE c.kind = Size
  <2>1. FacetsOf(c, t) = <<[facet |-> "minLength", value |-> Factor(c, t) * c.value.min],
                           [facet |-> "maxLength", value |-> Factor(c, t) * c.value.max]>>
    BY <1>1, FacetsBySort
  <2> QED BY <1>1, <2>1, KindsApart DEF ValuesIn, Named
<1>2. CASE c.kind = Enum
  <2>1. FacetsOf(c, t)
          = [i \in DOMAIN c.value |-> [facet |-> "enumeration", value |-> c.value[i]]]
    BY <1>2, FacetsBySort
  <2> QED BY <1>2, <2>1, KindsApart DEF ValuesIn, Named
<1>3. CASE c.kind = Pattern
  <2>1. FacetsOf(c, t) = <<[facet |-> "pattern", value |-> c.value]>>
    BY <1>3, FacetsBySort
  <2> QED BY <1>3, <2>1, KindsApart DEF ValuesIn, Named
<1>4. CASE c.kind = Domain
  <2> DEFINE min == c.value.min  max == c.value.max
  <2>1. FacetsOf(c, t) =
          IF min = None
            THEN IF max = None THEN <<>> ELSE <<[facet |-> "maxInclusive", value |-> max]>>
            ELSE IF max = None THEN <<[facet |-> "minInclusive", value |-> min]>>
            ELSE <<[facet |-> "minInclusive", value |-> min],
                   [facet |-> "maxInclusive", value |-> max]>>
    BY <1>4, FacetsBySort
  <2> HIDE DEF min, max
  <2>2. /\ ValuesIn(c, t, "minInclusive") = IF min # None THEN {min} ELSE {}
        /\ ValuesIn(c, t, "maxInclusive") = IF max # None THEN {max} ELSE {}
        /\ \A name \in {"minLength", "maxLength", "enumeration", "pattern"} :
              ValuesIn(c, t, name) = {}
    <3>1. CASE min = None /\ max = None
      <4>1. FacetsOf(c, t) = <<>>
        BY <2>1, <3>1
      <4> QED BY <3>1, <4>1 DEF ValuesIn, Named
    <3>2. CASE min = None /\ max # None
      <4>1. FacetsOf(c, t) = <<[facet |-> "maxInclusive", value |-> max]>>
        BY <2>1, <3>2
      <4> QED BY <3>2, <4>1 DEF ValuesIn, Named
    <3>3. CASE min # None /\ max = None
      <4>1. FacetsOf(c, t) = <<[facet |-> "minInclusive", value |-> min]>>
        BY <2>1, <3>3
      <4> QED BY <3>3, <4>1 DEF ValuesIn, Named
    <3>4. CASE min # None /\ max # None
      <4>1. FacetsOf(c, t) = <<[facet |-> "minInclusive", value |-> min],
                               [facet |-> "maxInclusive", value |-> max]>>
        BY <2>1, <3>4
      <4> QED BY <3>4, <4>1 DEF ValuesIn, Named
    <3> QED BY <3>1, <3>2, <3>3, <3>4
  <2> QED BY <1>4, <2>2, KindsApart DEF min, max
<1> QED BY <1>1, <1>2, <1>3, <1>4, KindsApart

\* The facets of one name of all constraints, which the validator looks at.
OfName(facets, name) ==
    {facets[p].value : p \in {q \in DOMAIN facets : facets[q].facet = name}}

LEMMA ValidBy ==
    ASSUME NEW x, NEW facets
    PROVE  LET of(name) == OfName(facets, name) IN
           Valid(x, facets) <=>
              /\ \A b \in of("minLength") : b <= x.len
              /\ \A b \in of("maxLength") : x.len <= b
              /\ \A b \in of("minInclusive") : b <= x.num
              /\ \A b \in of("maxInclusive") : x.num <= b
              /\ of("enumeration") # {} => x.str \in of("enumeration")
              /\ of("pattern") # {} => of("pattern") \cap x.matches # {}
BY DEF Valid, OfName

LEMMA AllFacetValues ==
    ASSUME NEW cs, NEW E, Lists(cs, E), NEW t, NEW name
    PROVE  OfName(AllFacets(cs, t), name) = UNION {ValuesIn(c, t, name) : c \in E}
<1> DEFINE facets == AllFacets(cs, t)
           D == UNION {{i} \X DOMAIN FacetsOf(cs[i], t) : i \in DOMAIN cs}
           L == {facets[p].value : p \in {q \in DOMAIN facets : facets[q].facet = name}}
           R == UNION {ValuesIn(c, t, name) : c \in E}
<1>1. DOMAIN facets = D /\ \A p \in D : facets[p] = FacetsOf(cs[p[1]], t)[p[2]]
  BY DEF AllFacets
<1>2. \A i \in DOMAIN cs : cs[i] \in E
  BY DEF Lists
<1>3. \A p : p \in D <=> /\ p = <<p[1], p[2]>> /\ p[1] \in DOMAIN cs
                         /\ p[2] \in DOMAIN FacetsOf(cs[p[1]], t)
  <2> TAKE p
  <2>1. p \in D <=> \E i \in DOMAIN cs : p \in {i} \X DOMAIN FacetsOf(cs[i], t)
    OBVIOUS
  <2> QED BY <2>1
<1> HIDE DEF facets, D
<1>4. ASSUME NEW y \in L PROVE y \in R
  <2>1. PICK p \in D : facets[p].facet = name /\ y = facets[p].value
    BY <1>1, <1>4
  <2>2. /\ p[1] \in DOMAIN cs /\ cs[p[1]] \in E
        /\ p[2] \in Named(cs[p[1]], t, name)
        /\ y = FacetsOf(cs[p[1]], t)[p[2]].value
    BY <1>1, <1>2, <1>3, <2>1 DEF Named
  <2>3. y \in ValuesIn(cs[p[1]], t, name)
    BY <2>2 DEF ValuesIn
  <2> QED BY <2>2, <2>3
<1>5. ASSUME NEW y \in R PROVE y \in L
  <2>1. PICK c \in E : y \in ValuesIn(c, t, name)
    BY <1>5
  <2>2. PICK j \in Named(c, t, name) : y = FacetsOf(c, t)[j].value
    BY <2>1 DEF ValuesIn
  <2>3. PICK i \in DOMAIN cs : cs[i] = c
    BY DEF Lists
  <2>4. j \in DOMAIN FacetsOf(cs[i], t) /\ FacetsOf(cs[i], t)[j].facet = name
    BY <2>2, <2>3 DEF Named
  <2> DEFINE p == <<i, j>>
  <2>5. p \in D
    BY <1>3, <2>4
  <2>6. facets[p].facet = name /\ facets[p].value = y
    BY <1>1, <2>2, <2>3, <2>4, <2>5
  <2> QED BY <1>1, <2>5, <2>6
<1> HIDE DEF L, R
<1>6. L = R
  BY <1>4, <1>5
<1> QED BY <1>6 DEF L, R, facets, OfName

\* What the validator finds when these are the constraints of n.
LEMMA Found ==
    ASSUME NEW cs, NEW n, Lists(cs, OwnItems(n) \cup FileItems(n, 4)), NEW t
    PROVE  LET of(name) == OfName(AllFacets(cs, t), name)
               size == g[n].size
               k == IF t = BCDString THEN 2 ELSE 1
           IN  /\ of("minLength") = (IF size = None THEN {} ELSE {k * size.min})
                     \cup (IF v[Size][n] = None THEN {} ELSE {1 * v[Size][n].min})
               /\ of("maxLength") = (IF size = None THEN {} ELSE {k * size.max})
                     \cup (IF v[Size][n] = None THEN {} ELSE {1 * v[Size][n].max})
               /\ of("minInclusive") = IF v[Domain][n] = None \/ v[Domain][n].min = None
                                         THEN {} ELSE {v[Domain][n].min}
               /\ of("maxInclusive") = IF v[Domain][n] = None \/ v[Domain][n].max = None
                                         THEN {} ELSE {v[Domain][n].max}
               /\ of("enumeration") = IF v[Enum][n] = None THEN {}
                                      ELSE {v[Enum][n][i] : i \in DOMAIN v[Enum][n]}
               /\ of("pattern") = IF v[Pattern][n] = None THEN {} ELSE {v[Pattern][n]}
<1> DEFINE of(name) == OfName(AllFacets(cs, t), name)
           size == g[n].size
           k == IF t = BCDString THEN 2 ELSE 1
           E == OwnItems(n) \cup FileItems(n, 4)
           in(c, name) == ValuesIn(c, t, name)
           own(name) == IF size = None THEN {} ELSE in(OwnItem(n), name)
           file_(K, name) == IF v[K][n] = None THEN {} ELSE in(Item(n, K), name)
<1>1. \A name : of(name) = UNION {in(c, name) : c \in E}
  BY AllFacetValues
<1>2. \A name : of(name) = own(name) \cup file_(Enum, name) \cup file_(Domain, name)
                                     \cup file_(Size, name) \cup file_(Pattern, name)
  <2>1. \A c : c \in E <=> \/ size # None /\ c = OwnItem(n)
                           \/ v[Enum][n] # None /\ c = Item(n, Enum)
                           \/ v[Domain][n] # None /\ c = Item(n, Domain)
                           \/ v[Size][n] # None /\ c = Item(n, Size)
                           \/ v[Pattern][n] # None /\ c = Item(n, Pattern)
    BY DEF OwnItems, FileItems, Kinds, Enum, Domain, Size, Pattern
  <2> HIDE DEF of, in, E
  <2> QED BY <1>1, <2>1
<1>3. /\ OwnItem(n).kind = Size /\ OwnItem(n).value = size
      /\ Factor(OwnItem(n), t) = k
  BY DEF OwnItem, Factor
<1>4. \A K \in Kinds : Item(n, K).kind = K /\ Item(n, K).value = v[K][n]
  BY DEF Item
<1>5. Factor(Item(n, Size), t) = 1
  BY DEF Item, Source, Factor
<1>6. \A c : c.kind \in Kinds =>
           /\ in(c, "minLength") = IF c.kind = Size THEN {Factor(c, t) * c.value.min} ELSE {}
           /\ in(c, "maxLength") = IF c.kind = Size THEN {Factor(c, t) * c.value.max} ELSE {}
           /\ in(c, "minInclusive") =
                IF c.kind = Domain /\ c.value.min # None THEN {c.value.min} ELSE {}
           /\ in(c, "maxInclusive") =
                IF c.kind = Domain /\ c.value.max # None THEN {c.value.max} ELSE {}
           /\ in(c, "enumeration") =
                IF c.kind = Enum THEN {c.value[i] : i \in DOMAIN c.value} ELSE {}
           /\ in(c, "pattern") = IF c.kind = Pattern THEN {c.value} ELSE {}
  BY FacetValues
<1> HIDE DEF of, in, size, k
<1>7. /\ own("minLength") = IF size = None THEN {} ELSE {k * size.min}
      /\ own("maxLength") = IF size = None THEN {} ELSE {k * size.max}
      /\ \A name \in {"minInclusive", "maxInclusive", "enumeration", "pattern"} : own(name) = {}
  BY <1>3, <1>6, KindsApart
<1>8. /\ file_(Size, "minLength") = IF v[Size][n] = None THEN {} ELSE {1 * v[Size][n].min}
      /\ file_(Size, "maxLength") = IF v[Size][n] = None THEN {} ELSE {1 * v[Size][n].max}
      /\ \A name \in {"minInclusive", "maxInclusive", "enumeration", "pattern"} :
            file_(Size, name) = {}
  BY <1>4, <1>5, <1>6, KindsApart
<1>9. /\ file_(Domain, "minInclusive") = IF v[Domain][n] = None \/ v[Domain][n].min = None
                                         THEN {} ELSE {v[Domain][n].min}
      /\ file_(Domain, "maxInclusive") = IF v[Domain][n] = None \/ v[Domain][n].max = None
                                         THEN {} ELSE {v[Domain][n].max}
      /\ \A name \in {"minLength", "maxLength", "enumeration", "pattern"} :
            file_(Domain, name) = {}
  <2> DEFINE c == Item(n, Domain)
  <2>1. c.kind = Domain /\ c.kind \in Kinds /\ c.value = v[Domain][n]
    BY <1>4, KindsApart
  <2> HIDE DEF c
  <2>2. /\ in(c, "minInclusive") = IF c.value.min # None THEN {c.value.min} ELSE {}
        /\ in(c, "maxInclusive") = IF c.value.max # None THEN {c.value.max} ELSE {}
        /\ in(c, "minLength") = {} /\ in(c, "maxLength") = {}
        /\ in(c, "enumeration") = {} /\ in(c, "pattern") = {}
    BY <1>6, <2>1, KindsApart
  <2> QED BY <2>1, <2>2 DEF c
<1>10. /\ file_(Enum, "enumeration") = IF v[Enum][n] = None THEN {}
                                       ELSE {v[Enum][n][i] : i \in DOMAIN v[Enum][n]}
       /\ \A name \in {"minLength", "maxLength", "minInclusive", "maxInclusive", "pattern"} :
             file_(Enum, name) = {}
  <2> DEFINE c == Item(n, Enum)
  <2>1. c.kind = Enum /\ c.kind \in Kinds /\ c.value = v[Enum][n]
    BY <1>4, KindsApart
  <2> HIDE DEF c
  <2>2. in(c, "enumeration") = {c.value[i] : i \in DOMAIN c.value}
    BY <1>6, <2>1, KindsApart
  <2>3. /\ in(c, "minInclusive") = {} /\ in(c, "maxInclusive") = {}
        /\ in(c, "minLength") = {} /\ in(c, "maxLength") = {} /\ in(c, "pattern") = {}
    BY <1>6, <2>1, KindsApart
  <2> QED BY <2>1, <2>2, <2>3 DEF c
<1>11. /\ file_(Pattern, "pattern") = IF v[Pattern][n] = None THEN {} ELSE {v[Pattern][n]}
       /\ \A name \in {"minLength", "maxLength", "minInclusive", "maxInclusive", "enumeration"} :
             file_(Pattern, name) = {}
  BY <1>4, <1>6, KindsApart
<1> HIDE DEF own, file_
<1>12. /\ of("minLength") = own("minLength") \cup file_(Size, "minLength")
       /\ of("maxLength") = own("maxLength") \cup file_(Size, "maxLength")
       /\ of("minInclusive") = file_(Domain, "minInclusive")
       /\ of("maxInclusive") = file_(Domain, "maxInclusive")
       /\ of("enumeration") = file_(Enum, "enumeration")
       /\ of("pattern") = file_(Pattern, "pattern")
  BY <1>2, <1>7, <1>8, <1>9, <1>10, <1>11
<1> QED
  BY <1>7, <1>8, <1>9, <1>10, <1>11, <1>12 DEF of, size, k

LEMMA ItemsOf ==
    ASSUME NEW n, NEW c
    PROVE  c \in OwnItems(n) \cup FileItems(n, 4) <=>
              \/ g[n].size # None /\ c = OwnItem(n)
              \/ \E k \in Kinds : v[k][n] # None /\ c = Item(n, k)
<1>1. \A k \in Kinds : k <= 4
  BY DEF Kinds
<1> QED BY <1>1 DEF OwnItems, FileItems

LEMMA SizeTyped ==
    ASSUME Types, NEW n \in Fields
    PROVE  g[n].size \in {None} \cup Bounds /\ n \in Name /\ g[n].to \in Name \cup Terminal
<1>1. g \in [Name -> Rule]
  BY ConstraintsAssumption DEF Types
<1> QED BY <1>1 DEF Fields, Rule

LEMMA BoundsAreNumbers ==
    ASSUME NEW b \in Bounds PROVE b.min \in Nat /\ b.max \in Nat /\ b.min # None /\ b.max # None
<1>1. Number \cup {0} \subseteq Nat /\ None \notin Nat
  BY ConstraintsAssumption
<1>2. b.min \in Nat /\ b.max \in Nat
  BY <1>1 DEF Bounds
<1> QED BY <1>1, <1>2

\* What the map and the first reference of n say of its values.
MapAllows(n, x) ==
    /\ v[Size][n] = None \/ Within(x.len, v[Size][n])
    /\ v[Domain][n] = None \/ Within(x.num, v[Domain][n])
    /\ v[Enum][n] = None \/ \E i \in DOMAIN v[Enum][n] : x.str = v[Enum][n][i]
    /\ v[Pattern][n] = None \/ v[Pattern][n] \in x.matches
OwnAllows(n, x) ==
    LET s == g[n].size IN
    s = None \/ Within(x.len, IF g[n].to = BCDString
                                THEN [min |-> 2 * s.min, max |-> 2 * s.max] ELSE s)

LEMMA ValidExact ==
    ASSUME Learned, Types, pc = "added", NEW n \in Fields, NEW x \in Values,
           NEW cs, Lists(cs, OwnItems(n) \cup FileItems(n, 4))
    PROVE  Valid(x, AllFacets(cs, g[n].to)) <=> MapAllows(n, x) /\ OwnAllows(n, x)
<1>0. PICK t : t = g[n].to
  OBVIOUS
<1> DEFINE size == g[n].size
           k == IF t = BCDString THEN 2 ELSE 1
           facets == AllFacets(cs, t)
           of(name) == OfName(facets, name)
<1>1. /\ of("minLength") = (IF size = None THEN {} ELSE {k * size.min})
                     \cup (IF v[Size][n] = None THEN {} ELSE {1 * v[Size][n].min})
      /\ of("maxLength") = (IF size = None THEN {} ELSE {k * size.max})
                     \cup (IF v[Size][n] = None THEN {} ELSE {1 * v[Size][n].max})
      /\ of("minInclusive") = IF v[Domain][n] = None \/ v[Domain][n].min = None
                                THEN {} ELSE {v[Domain][n].min}
      /\ of("maxInclusive") = IF v[Domain][n] = None \/ v[Domain][n].max = None
                                THEN {} ELSE {v[Domain][n].max}
      /\ of("enumeration") = IF v[Enum][n] = None THEN {}
                             ELSE {v[Enum][n][i] : i \in DOMAIN v[Enum][n]}
      /\ of("pattern") = IF v[Pattern][n] = None THEN {} ELSE {v[Pattern][n]}
  BY Found
<1> DEFINE long == \A b \in of("minLength") : b <= x.len
           short == \A b \in of("maxLength") : x.len <= b
           large == \A b \in of("minInclusive") : b <= x.num
           small == \A b \in of("maxInclusive") : x.num <= b
           listed == of("enumeration") # {} => x.str \in of("enumeration")
           matched == of("pattern") # {} => of("pattern") \cap x.matches # {}
<1>2. Valid(x, facets) <=> long /\ short /\ large /\ small /\ listed /\ matched
  BY ValidBy
<1>3. n \in Name /\ size \in {None} \cup Bounds
  BY SizeTyped
<1>4. /\ v[Size][n] \in {None} \cup Bounds
      /\ v[Enum][n] # None => \E i \in DOMAIN v[Enum][n] : TRUE
  BY <1>3, ValuesTyped
<1>5. x.len \in Nat
  BY LengthsAssumption DEF Values
<1>6. OwnAllows(n, x) <=>
         (size # None => k * size.min <= x.len /\ x.len <= k * size.max)
  <2>1. CASE size = None
    BY <2>1 DEF OwnAllows
  <2>2. CASE size # None
    <3>1. size.min \in Nat /\ size.max \in Nat /\ size.min # None /\ size.max # None
      BY <1>3, <2>2, BoundsAreNumbers
    <3>2. 2 * size.min # None /\ 2 * size.max # None
      BY <3>1, ConstraintsAssumption
    <3> QED BY <1>0, <2>2, <3>1, <3>2 DEF OwnAllows, Within
  <2> QED BY <2>1, <2>2
<1>7. v[Size][n] # None =>
         /\ 1 * v[Size][n].min = v[Size][n].min /\ 1 * v[Size][n].max = v[Size][n].max
         /\ v[Size][n].min # None /\ v[Size][n].max # None
  BY <1>4, BoundsAreNumbers
<1> HIDE DEF of, facets, size, k
<1>8. /\ long <=>
            /\ size # None => k * size.min <= x.len
            /\ v[Size][n] # None => v[Size][n].min <= x.len
      /\ short <=>
            /\ size # None => x.len <= k * size.max
            /\ v[Size][n] # None => x.len <= v[Size][n].max
  BY <1>1, <1>7
<1>9. /\ large <=>
            (v[Domain][n] # None /\ v[Domain][n].min # None => v[Domain][n].min <= x.num)
      /\ small <=>
            (v[Domain][n] # None /\ v[Domain][n].max # None => x.num <= v[Domain][n].max)
  BY <1>1
<1>10. listed <=>
          (v[Enum][n] = None \/ \E i \in DOMAIN v[Enum][n] : x.str = v[Enum][n][i])
  BY <1>1, <1>4
<1>11. matched <=>
          (v[Pattern][n] = None \/ v[Pattern][n] \in x.matches)
  BY <1>1
<1>12. MapAllows(n, x) <=>
          /\ v[Size][n] # None => v[Size][n].min <= x.len /\ x.len <= v[Size][n].max
          /\ v[Domain][n] # None /\ v[Domain][n].min # None => v[Domain][n].min <= x.num
          /\ v[Domain][n] # None /\ v[Domain][n].max # None => x.num <= v[Domain][n].max
          /\ v[Enum][n] = None \/ \E i \in DOMAIN v[Enum][n] : x.str = v[Enum][n][i]
          /\ v[Pattern][n] = None \/ v[Pattern][n] \in x.matches
  BY <1>7 DEF MapAllows, Within
<1> HIDE DEF long, short, large, small, listed, matched
<1>13. Valid(x, facets) <=> MapAllows(n, x) /\ OwnAllows(n, x)
  BY <1>2, <1>6, <1>8, <1>9, <1>10, <1>11, <1>12
<1>14. facets = AllFacets(cs, g[n].to)
  BY <1>0 DEF facets
<1> QED BY <1>13, <1>14

\* An enumeration alone.
LEMMA ValidChoice ==
    ASSUME NEW c, c.kind = Enum, \E i \in DOMAIN c.value : TRUE, NEW t, NEW x
    PROVE  Valid(x, AllFacets(<<c>>, t)) <=> \E i \in DOMAIN c.value : x.str = c.value[i]
<1>0. PICK cs : cs = <<c>>
  OBVIOUS
<1> DEFINE facets == AllFacets(cs, t)
           of(name) == OfName(facets, name)
<1>1. Lists(cs, {c})
  BY <1>0 DEF Lists
<1>2. \A name : of(name) = ValuesIn(c, t, name)
  <2> TAKE name
  <2>1. PICK E : E = {c}
    OBVIOUS
  <2>2. of(name) = UNION {ValuesIn(d, t, name) : d \in E}
    BY <1>1, <2>1, AllFacetValues
  <2> HIDE DEF of
  <2>3. UNION {ValuesIn(d, t, name) : d \in {c}} = ValuesIn(c, t, name)
    OBVIOUS
  <2> QED BY <2>1, <2>2, <2>3
<1>3. /\ ValuesIn(c, t, "minLength") = {} /\ ValuesIn(c, t, "maxLength") = {}
      /\ ValuesIn(c, t, "minInclusive") = {} /\ ValuesIn(c, t, "maxInclusive") = {}
      /\ ValuesIn(c, t, "pattern") = {}
      /\ ValuesIn(c, t, "enumeration") = {c.value[i] : i \in DOMAIN c.value}
  BY FacetValues, KindsApart
<1>4. Valid(x, facets) <=>
        /\ \A b \in of("minLength") : b <= x.len
        /\ \A b \in of("maxLength") : x.len <= b
        /\ \A b \in of("minInclusive") : b <= x.num
        /\ \A b \in of("maxInclusive") : x.num <= b
        /\ of("enumeration") # {} => x.str \in of("enumeration")
        /\ of("pattern") # {} => of("pattern") \cap x.matches # {}
  BY ValidBy
<1> HIDE DEF of, facets
<1>5. Valid(x, facets) <=> (of("enumeration") # {} => x.str \in of("enumeration"))
  BY <1>2, <1>3, <1>4
<1>6. of("enumeration") # {} /\ of("enumeration") = {c.value[i] : i \in DOMAIN c.value}
  BY <1>2, <1>3
<1>7. Valid(x, facets) <=> \E i \in DOMAIN c.value : x.str = c.value[i]
  BY <1>5, <1>6
<1> QED BY <1>0, <1>7 DEF facets

\* The name of a facet tells the kind of its constraint, which has it once.
LEMMA FacetNames ==
    ASSUME NEW c, c.kind \in Kinds, NEW t
    PROVE  LET fs == FacetsOf(c, t) IN
           /\ \A j \in DOMAIN fs :
                 /\ fs[j].facet \in {"minLength", "maxLength"} => c.kind = Size
                 /\ fs[j].facet \in {"minInclusive", "maxInclusive"} => c.kind = Domain
           /\ \A i, j \in DOMAIN fs :
                 i # j /\ fs[i].facet = fs[j].facet => fs[i].facet = "enumeration"
           /\ c.kind = Size => 1 \in DOMAIN fs /\ fs[1].facet = "minLength"
<1>1. CASE c.kind = Size
  <2>1. FacetsOf(c, t) = <<[facet |-> "minLength", value |-> Factor(c, t) * c.value.min],
                           [facet |-> "maxLength", value |-> Factor(c, t) * c.value.max]>>
    BY <1>1, FacetsBySort
  <2> QED BY <1>1, <2>1
<1>2. CASE c.kind = Enum
  <2>1. FacetsOf(c, t)
          = [i \in DOMAIN c.value |-> [facet |-> "enumeration", value |-> c.value[i]]]
    BY <1>2, FacetsBySort
  <2> QED BY <1>2, <2>1, KindsApart
<1>3. CASE c.kind = Pattern
  <2>1. FacetsOf(c, t) = <<[facet |-> "pattern", value |-> c.value]>>
    BY <1>3, FacetsBySort
  <2> QED BY <1>3, <2>1, KindsApart
<1>4. CASE c.kind = Domain
  <2> DEFINE min == c.value.min  max == c.value.max
  <2>1. FacetsOf(c, t) =
          IF min = None
            THEN IF max = None THEN <<>> ELSE <<[facet |-> "maxInclusive", value |-> max]>>
            ELSE IF max = None THEN <<[facet |-> "minInclusive", value |-> min]>>
            ELSE <<[facet |-> "minInclusive", value |-> min],
                   [facet |-> "maxInclusive", value |-> max]>>
    BY <1>4, FacetsBySort
  <2> HIDE DEF min, max
  <2>2. CASE min = None /\ max = None
    <3>1. FacetsOf(c, t) = <<>>
      BY <2>1, <2>2
    <3> QED BY <1>4, <3>1, KindsApart
  <2>3. CASE min = None /\ max # None
    <3>1. FacetsOf(c, t) = <<[facet |-> "maxInclusive", value |-> max]>>
      BY <2>1, <2>3
    <3> QED BY <1>4, <3>1, KindsApart
  <2>4. CASE min # None /\ max = None
    <3>1. FacetsOf(c, t) = <<[facet |-> "minInclusive", value |-> min]>>
      BY <2>1, <2>4
    <3> QED BY <1>4, <3>1, KindsApart
  <2>5. CASE min # None /\ max # None
    <3>1. FacetsOf(c, t) = <<[facet |-> "minInclusive", value |-> min],
                             [facet |-> "maxInclusive", value |-> max]>>
      BY <2>1, <2>5
    <3> QED BY <1>4, <3>1, KindsApart
  <2> QED BY <2>2, <2>3, <2>4, <2>5
<1> QED BY <1>1, <1>2, <1>3, <1>4, KindsApart

\* Two facets of one bound: the lengths of the grammar and those of the file.
LEMMA BoundsTwice ==
    ASSUME NEW n, NEW cs, Lists(cs, OwnItems(n) \cup FileItems(n, 4)), NEW t
    PROVE  LET facets == AllFacets(cs, t)
               names == {"minLength", "maxLength", "minInclusive", "maxInclusive"}
           IN  (\E p, q \in DOMAIN facets : p # q /\ facets[p].facet = facets[q].facet
                                            /\ facets[p].facet \in names)
                 <=> g[n].size # None /\ v[Size][n] # None
<1> DEFINE facets == AllFacets(cs, t)
           names == {"minLength", "maxLength", "minInclusive", "maxInclusive"}
           E == OwnItems(n) \cup FileItems(n, 4)
<1>1. \A p : p \in DOMAIN facets <=> /\ p = <<p[1], p[2]>> /\ p[1] \in DOMAIN cs
                                     /\ p[2] \in DOMAIN FacetsOf(cs[p[1]], t)
  <2> TAKE p
  <2>1. p \in DOMAIN facets
          <=> \E i \in DOMAIN cs : p \in {i} \X DOMAIN FacetsOf(cs[i], t)
    BY DEF AllFacets
  <2> HIDE DEF facets
  <2> QED BY <2>1
<1>2. \A p \in DOMAIN facets : facets[p] = FacetsOf(cs[p[1]], t)[p[2]]
  BY DEF AllFacets
<1>3. \A i \in DOMAIN cs : cs[i] \in E /\ cs[i].kind \in Kinds
  <2> TAKE i \in DOMAIN cs
  <2>1. cs[i] \in E
    BY DEF Lists
  <2>2. cs[i].kind \in Kinds
    BY <2>1, ItemsOf, KindsApart DEF OwnItem, Item
  <2> QED BY <2>1, <2>2
<1>4. \A i, j \in DOMAIN cs : cs[i] = cs[j] => i = j
  BY DEF Lists
<1>5. \A c \in E : \E i \in DOMAIN cs : cs[i] = c
  BY DEF Lists
<1> HIDE DEF facets, E
<1>6. ASSUME NEW p \in DOMAIN facets, NEW q \in DOMAIN facets, p # q,
             facets[p].facet = facets[q].facet, facets[p].facet \in names
      PROVE  g[n].size # None /\ v[Size][n] # None
  <2> DEFINE c == cs[p[1]]  d == cs[q[1]]
  <2>1. /\ c \in E /\ d \in E /\ c.kind \in Kinds /\ d.kind \in Kinds
        /\ p[2] \in DOMAIN FacetsOf(c, t) /\ q[2] \in DOMAIN FacetsOf(d, t)
        /\ FacetsOf(c, t)[p[2]].facet = FacetsOf(d, t)[q[2]].facet
        /\ FacetsOf(c, t)[p[2]].facet \in names
    BY <1>1, <1>2, <1>3, <1>6
  <2>2. p = <<p[1], p[2]>> /\ q = <<q[1], q[2]>> /\ p[1] \in DOMAIN cs /\ q[1] \in DOMAIN cs
    BY <1>1, <1>6
  <2>3. c = d => p[1] = q[1]
    BY <1>4, <2>2
  <2> HIDE DEF c, d
  <2>4. c # d
    <3> SUFFICES ASSUME c = d PROVE FALSE
      OBVIOUS
    <3>1. p[1] = q[1] /\ p[2] # q[2]
      BY <1>6, <2>2, <2>3
    <3>2. FacetsOf(c, t)[p[2]].facet = "enumeration"
      BY <2>1, <3>1, FacetNames
    <3> QED BY <2>1, <3>2
  <2>5. \/ c.kind = Size /\ d.kind = Size
        \/ c.kind = Domain /\ d.kind = Domain
    <3>1. FacetsOf(c, t)[p[2]].facet \in {"minLength", "maxLength"}
            => c.kind = Size /\ d.kind = Size
      BY <2>1, FacetNames
    <3>2. FacetsOf(c, t)[p[2]].facet \in {"minInclusive", "maxInclusive"}
            => c.kind = Domain /\ d.kind = Domain
      BY <2>1, FacetNames
    <3> QED BY <2>1, <3>1, <3>2
  <2>6. \A e \in E : \/ g[n].size # None /\ e = OwnItem(n) /\ e.kind = Size
                     \/ v[e.kind][n] # None /\ e = Item(n, e.kind)
    BY ItemsOf DEF E, OwnItem, Item
  <2>7. ~(c.kind = Domain /\ d.kind = Domain)
    BY <2>1, <2>4, <2>6, KindsApart
  <2> QED BY <2>1, <2>4, <2>5, <2>6, <2>7
<1>7. ASSUME g[n].size # None, v[Size][n] # None
      PROVE  \E p, q \in DOMAIN facets : p # q /\ facets[p].facet = facets[q].facet
                                         /\ facets[p].facet \in names
  <2>1. OwnItem(n) \in E /\ Item(n, Size) \in E
    BY <1>7, ItemsOf, KindsApart DEF E
  <2>2. PICK i \in DOMAIN cs : cs[i] = OwnItem(n)
    BY <1>5, <2>1
  <2>3. PICK j \in DOMAIN cs : cs[j] = Item(n, Size)
    BY <1>5, <2>1
  <2>4. OwnItem(n).kind = Size /\ Item(n, Size).kind = Size /\ OwnItem(n) # Item(n, Size)
    BY DEF OwnItem, Item, Source
  <2>5. \A k \in {i, j} : 1 \in DOMAIN FacetsOf(cs[k], t)
                          /\ FacetsOf(cs[k], t)[1].facet = "minLength"
    BY <2>2, <2>3, <2>4, FacetNames, KindsApart
  <2>6. i # j
    BY <2>2, <2>3, <2>4
  <2> DEFINE p == <<i, 1>>  q == <<j, 1>>
  <2>7. p \in DOMAIN facets /\ q \in DOMAIN facets /\ p # q
    BY <1>1, <2>5, <2>6
  <2>8. facets[p].facet = "minLength" /\ facets[q].facet = "minLength"
    BY <1>2, <2>5, <2>7
  <2> HIDE DEF p, q
  <2> QED BY <2>7, <2>8
<1>8. (\E p, q \in DOMAIN facets : p # q /\ facets[p].facet = facets[q].facet
                                   /\ facets[p].facet \in names)
        <=> g[n].size # None /\ v[Size][n] # None
  BY <1>6, <1>7
<1> QED BY <1>8 DEF facets

-----------------------------------------------------------------------------
\* What was read of lengths and ranges, by the lines of each bound.
LEMMA BoundOf ==
    ASSUME file \in Files, NEW m,
           NEW type \in {"minInclusive", "maxInclusive", "minLength", "maxLength"}
    PROVE  LET none == LinesOf(Len(file), m, {type}) = {} IN
           /\ Bound(m, type) = None <=> none
           /\ Bound(m, type) \in Number \cup {None}
           /\ LastOf(Len(file), m, type, 0) = IF none THEN 0 ELSE Bound(m, type)
<1>1. Len(file) \in 0..Len(file)
  BY ConstraintsAssumption
<1>2. \A default \in {0, None} : LastOf(Len(file), m, type, default) \in Number \cup {default}
  BY <1>1, LastTyped
<1>3. None \notin Nat /\ Number \subseteq Nat
  BY ConstraintsAssumption
<1> DEFINE S == LinesOf(Len(file), m, {type})
           last(default) == LastOf(Len(file), m, type, default)
<1>4. \A default : last(default) = IF S = {} THEN default ELSE file[Max(S)].value
  BY DEF LastOf
<1>5. Bound(m, type) = last(None)
  BY DEF Bound
<1>6. last(0) \in Nat /\ last(None) \in Number \cup {None}
  <2>1. last(0) \in Number \cup {0} /\ last(None) \in Number \cup {None}
    BY <1>2
  <2>2. Number \cup {0} \subseteq Nat
    BY <1>3
  <2> HIDE DEF last
  <2> QED BY <2>1, <2>2
<1> HIDE DEF S, last
<1>7. last(None) = None <=> S = {}
  <2>1. S # {} => last(None) = last(0)
    BY <1>4
  <2>2. last(0) # None
    BY <1>3, <1>6
  <2>3. S = {} => last(None) = None
    BY <1>4
  <2> QED BY <2>1, <2>2, <2>3
<1>8. last(0) = IF S = {} THEN 0 ELSE last(None)
  BY <1>4
<1> QED BY <1>5, <1>6, <1>7, <1>8 DEF S, last

LEMMA BoundsSaid ==
    ASSUME file \in Files, NEW m
    PROVE  LET least == Bound(m, "minLength")     most == Bound(m, "maxLength")
               from  == Bound(m, "minInclusive")  to   == Bound(m, "maxInclusive")
           IN  /\ Says(Size, m) = IF least = None /\ most = None THEN None
                                  ELSE [min |-> IF least = None THEN 0 ELSE least,
                                        max |-> IF most = None THEN 0 ELSE most]
               /\ Says(Domain, m) = IF from = None /\ to = None THEN None
                                    ELSE [min |-> from, max |-> to]
<1> DEFINE lines(types) == LinesOf(Len(file), m, types)
<1>1. /\ lines(TypesOf(Size)) = lines({"minLength"}) \cup lines({"maxLength"})
      /\ lines(TypesOf(Domain)) = lines({"minInclusive"}) \cup lines({"maxInclusive"})
  BY KindsApart DEF TypesOf, LinesOf
<1>2. Says(Size, m) = IF lines(TypesOf(Size)) = {} THEN None
                      ELSE [min |-> LastOf(Len(file), m, "minLength", 0),
                            max |-> LastOf(Len(file), m, "maxLength", 0)]
  BY KindsApart DEF Says, Said
<1>3. Says(Domain, m) = IF lines(TypesOf(Domain)) = {} THEN None
                        ELSE [min |-> Bound(m, "minInclusive"), max |-> Bound(m, "maxInclusive")]
  BY KindsApart DEF Says, Said, Bound
<1>4. \A type \in {"minInclusive", "maxInclusive", "minLength", "maxLength"} :
         /\ Bound(m, type) = None <=> lines({type}) = {}
         /\ LastOf(Len(file), m, type, 0) = IF lines({type}) = {} THEN 0 ELSE Bound(m, type)
  BY BoundOf
<1> HIDE DEF lines
<1> QED BY <1>1, <1>2, <1>3, <1>4

LEMMA BehindSays ==
    ASSUME Learned, pc = "added", NEW n \in Name, NEW k \in Kinds
    PROVE  Says(k, Behind(k, n)) = v[k][n]
<1>1. \E m \in Chain(n) : Says(k, m) = v[k][n]
  BY DEF Learned, LinksFollowed
<1> QED BY <1>1 DEF Behind

\* The map against the lines.
LEMMA LengthsTold ==
    ASSUME Learned, pc = "added", NEW n \in Name, NEW y \in Nat
    PROVE  LET len == Told(n).len IN
           /\ v[Size][n] = None <=> len = [min |-> None, max |-> None]
           /\ v[Size][n] = None \/ Within(y, v[Size][n]) <=>
                Within(y, len) /\ (len.min # None /\ len.max = None => y = 0)
<1> DEFINE m == Behind(Size, n)
           least == Bound(m, "minLength")
           most == Bound(m, "maxLength")
<1>1. file \in Files
  BY DEF Learned, Shapes
<1>2. v[Size][n] = IF least = None /\ most = None THEN None
                   ELSE [min |-> IF least = None THEN 0 ELSE least,
                         max |-> IF most = None THEN 0 ELSE most]
  BY <1>1, BehindSays, BoundsSaid, KindsApart
<1>3. /\ least \in Number \cup {None} /\ most \in Number \cup {None}
      /\ None \notin Nat /\ Number \subseteq Nat /\ None \notin Bounds
  BY <1>1, BoundOf, ConstraintsAssumption
<1>4. [min |-> IF least = None THEN 0 ELSE least, max |-> IF most = None THEN 0 ELSE most]
        # None
  BY <1>3 DEF Bounds
<1>5. Told(n).len = [min |-> least, max |-> most]
  BY DEF Told
<1> HIDE DEF m, least, most
<1>6. CASE least = None /\ most = None
  BY <1>2, <1>5, <1>6 DEF Within
<1>7. CASE least # None \/ most # None
  <2> DEFINE min == IF least = None THEN 0 ELSE least
             max == IF most = None THEN 0 ELSE most
             len == [min |-> least, max |-> most]
             none == [min |-> None, max |-> None]
  <2>1. v[Size][n] = [min |-> min, max |-> max] /\ v[Size][n] # None
    BY <1>2, <1>4, <1>7
  <2>2. min \in Nat /\ max \in Nat /\ min # None /\ max # None
    BY <1>3
  <2>3. Within(y, v[Size][n]) <=> min <= y /\ y <= max
    BY <2>1, <2>2 DEF Within
  <2>4. Within(y, len) <=> (least = None \/ least <= y) /\ (most = None \/ y <= most)
    BY DEF Within
  <2>5. len # none /\ len.min = least /\ len.max = most
    BY <1>7
  <2>6. min <= y /\ y <= max <=>
          /\ (least = None \/ least <= y) /\ (most = None \/ y <= most)
          /\ (least # None /\ most = None => y = 0)
    BY <1>3, <1>7
  <2> HIDE DEF min, max, len, none
  <2>7. Told(n).len = len
    BY <1>5 DEF len
  <2> QED BY <2>1, <2>3, <2>4, <2>5, <2>6, <2>7 DEF none
<1> QED BY <1>6, <1>7

LEMMA RangeTold ==
    ASSUME Learned, pc = "added", NEW n \in Name, NEW y
    PROVE  v[Domain][n] = None \/ Within(y, v[Domain][n]) <=> Within(y, Told(n).num)
<1> DEFINE m == Behind(Domain, n)
           from == Bound(m, "minInclusive")
           to == Bound(m, "maxInclusive")
<1>1. file \in Files
  BY DEF Learned, Shapes
<1>2. v[Domain][n] = IF from = None /\ to = None THEN None ELSE [min |-> from, max |-> to]
  BY <1>1, BehindSays, BoundsSaid, KindsApart
<1>3. Told(n).num = [min |-> from, max |-> to]
  BY DEF Told
<1> HIDE DEF m, from, to
<1>4. CASE from = None /\ to = None
  BY <1>2, <1>3, <1>4 DEF Within
<1>5. CASE from # None \/ to # None
  <2>1. v[Domain][n] = Told(n).num
    BY <1>2, <1>3, <1>5
  <2>2. v[Domain][n] # None
    <3>1. [min |-> from, max |-> to] # None
      <4>1. from \in Number \cup {None} /\ to \in Number \cup {None}
        BY <1>1, BoundOf DEF from, to
      <4>2. None \notin [min : Number \cup {None}, max : Number \cup {None}]
        BY ConstraintsAssumption
      <4> QED BY <4>1, <4>2
    <3> QED BY <1>3, <2>1, <3>1
  <2> QED BY <2>1, <2>2
<1> QED BY <1>4, <1>5

LEMMA AllTold ==
    ASSUME Learned, pc = "added", NEW n \in Name, NEW x \in Values
    PROVE  LET told == Told(n) IN
           /\ MapAllows(n, x) <=>
                FileAllows(told, x)
                  /\ (told.len.min # None /\ told.len.max = None => x.len = 0)
           /\ told.enum = v[Enum][n]
<1> DEFINE told == Told(n)
<1>1. x.len \in Nat
  BY LengthsAssumption DEF Values
<1>2. told.enum = v[Enum][n] /\ told.pattern = v[Pattern][n]
  BY BehindSays, KindsApart DEF Told
<1>3. v[Size][n] = None \/ Within(x.len, v[Size][n]) <=>
        Within(x.len, told.len) /\ (told.len.min # None /\ told.len.max = None => x.len = 0)
  BY <1>1, LengthsTold
<1>4. v[Domain][n] = None \/ Within(x.num, v[Domain][n]) <=> Within(x.num, told.num)
  BY RangeTold
<1> HIDE DEF told
<1>5. /\ MapAllows(n, x) <=> FileAllows(told, x)
           /\ (told.len.min # None /\ told.len.max = None => x.len = 0)
      /\ told.enum = v[Enum][n]
  BY <1>2, <1>3, <1>4 DEF MapAllows, FileAllows
<1> QED BY <1>5 DEF told

\* The SIZE of the first reference against the rules behind it.
LEMMA OwnRule ==
    ASSUME Types, NEW n \in Fields, g[n].type = "link", NEW x \in Values
    PROVE  LET alias == g[n].size # None /\ Digits(n) /\ g[n].to # BCDString IN
           OwnAllows(n, x) <=>
             RuleAllows(n, n, IF alias THEN [x EXCEPT !.len = 2 * @] ELSE x)
<1> DEFINE s == g[n].size
           twice == [x EXCEPT !.len = 2 * @]
<1>1. n \in Name /\ s \in {None} \cup Bounds
  BY SizeTyped
<1>2. CASE s = None
  BY <1>2 DEF OwnAllows, RuleAllows
<1>3. CASE s # None
  <2>1. s.min \in Nat /\ s.max \in Nat
    BY <1>1, <1>3, BoundsAreNumbers
  <2>2. x.len \in Nat /\ twice.len = 2 * x.len
    BY LengthsAssumption DEF Values
  <2>3. \A y, i, j \in Nat : Within(y, [min |-> i, max |-> j]) <=> i <= y /\ y <= j
    BY ConstraintsAssumption DEF Within
  <2>4. Within(x.len, s) <=> s.min <= x.len /\ x.len <= s.max
    BY <1>3, <2>1, ConstraintsAssumption DEF Within
  <2>5. g[n].to = BCDString => Digits(n)
    <3>1. n \in Rules(n)
      BY <1>1 DEF Rules
    <3> QED BY <3>1 DEF Digits
  <2>6. CASE g[n].to = BCDString
    <3>1. RuleAllows(n, n, x) <=> Within(x.len, [min |-> 2 * s.min, max |-> 2 * s.max])
      BY <1>3, <2>5, <2>6 DEF RuleAllows
    <3> QED BY <1>3, <2>6, <3>1 DEF OwnAllows
  <2>7. CASE g[n].to # BCDString /\ Digits(n)
    <3>1. RuleAllows(n, n, twice)
            <=> Within(2 * x.len, [min |-> 2 * s.min, max |-> 2 * s.max])
      BY <1>3, <2>2, <2>7 DEF RuleAllows
    <3>2. RuleAllows(n, n, twice) <=> 2 * s.min <= 2 * x.len /\ 2 * x.len <= 2 * s.max
      <4>1. 2 * s.min \in Nat /\ 2 * s.max \in Nat /\ 2 * x.len \in Nat
        BY <2>1, <2>2
      <4> QED BY <2>3, <3>1, <4>1
    <3>3. OwnAllows(n, x) <=> Within(x.len, s)
      BY <1>3, <2>7 DEF OwnAllows
    <3>4. OwnAllows(n, x) <=> RuleAllows(n, n, twice)
      BY <2>1, <2>2, <2>4, <3>2, <3>3
    <3> QED BY <1>3, <2>7, <3>4
  <2>8. CASE g[n].to # BCDString /\ ~Digits(n)
    <3>1. RuleAllows(n, n, x) <=> Within(x.len, [min |-> 1 * s.min, max |-> 1 * s.max])
      BY <1>3, <2>8 DEF RuleAllows
    <3>2. RuleAllows(n, n, x) <=> 1 * s.min <= x.len /\ x.len <= 1 * s.max
      BY <2>1, <2>2, <2>3, <3>1
    <3>3. OwnAllows(n, x) <=> Within(x.len, s)
      BY <1>3, <2>8 DEF OwnAllows
    <3> QED BY <2>1, <2>2, <2>4, <2>8, <3>2, <3>3
  <2> QED BY <2>6, <2>7, <2>8
<1> QED BY <1>2, <1>3

\* With no SIZE behind it, the rule of n is all the grammar says.
LEMMA RuleAlone ==
    ASSUME NEW n \in Name, ~\E m \in Rules(n) \ {n} : g[m].size # None, NEW x
    PROVE  GrammarAllows(n, x) <=> RuleAllows(n, n, x)
<1>1. n \in Rules(n)
  BY DEF Rules
<1>2. \A m \in Rules(n) \ {n} : RuleAllows(m, n, x)
  BY DEF RuleAllows
<1> QED BY <1>1, <1>2 DEF GrammarAllows

LEMMA Faithful == ASSUME Inv, Learned PROVE FacetsFaithful
<1> SUFFICES ASSUME pc = "added", NEW n \in DOMAIN refs, Simple(n)
    PROVE
      LET xsd == XsdFacets(n, refs[n])
          rng == RngFacets(n, refs[n])
          told == Told(n)
          lone == told.len.min # None /\ told.len.max = None
          lost == \E m \in Rules(n) \ {n} : g[m].size # None
          alias == g[n].size # None /\ Digits(n) /\ g[n].to # BCDString
          names == {"minLength", "maxLength", "minInclusive", "maxInclusive"}
      IN  /\ ~lone /\ ~lost /\ ~alias => \A x \in Values :
                Valid(x, xsd) <=> FileAllows(told, x) /\ GrammarAllows(n, x)
          /\ \A x \in Values : Valid(x, xsd) <=>
                /\ FileAllows(told, x)
                /\ lone => x.len = 0
                /\ RuleAllows(n, n, IF alias THEN [x EXCEPT !.len = 2 * @] ELSE x)
          /\ rng # xsd =>
                /\ EndOfLinks(n) = INTEGER /\ told.enum # None
                /\ \A x \in Values :
                      Valid(x, rng) <=> \E i \in DOMAIN told.enum : x.str = told.enum[i]
          /\ (\E i, j \in DOMAIN xsd : i # j /\ xsd[i].facet = xsd[j].facet
                                       /\ xsd[i].facet \in names)
                <=> g[n].size # None /\ told.len # [min |-> None, max |-> None]
  BY DEF FacetsFaithful
<1>1. Types /\ n \in Fields /\ n \in Name
  BY DEF Inv, Types, Fields
<1>2. PICK cs : cs = refs[n]
  OBVIOUS
<1>3. Lists(cs, OwnItems(n) \cup FileItems(n, 4))
  <2>1. cs = Own(n) \o Expected(n, 4)
    BY <1>1, <1>2 DEF Inv, RefsSoFar
  <2> QED BY <2>1, Listed
<1>4. PICK t : t = g[n].to
  OBVIOUS
<1>5. PICK xsd : xsd = AllFacets(cs, t)
  OBVIOUS
<1>6. XsdFacets(n, refs[n]) = xsd
  BY <1>2, <1>4, <1>5 DEF XsdFacets
<1>7. ASSUME NEW x \in Values PROVE Valid(x, xsd) <=> MapAllows(n, x) /\ OwnAllows(n, x)
  BY <1>1, <1>3, <1>4, <1>5, ValidExact
<1>8. ASSUME RngFacets(n, refs[n]) # xsd
      PROVE  /\ EndOfLinks(n) = INTEGER /\ v[Enum][n] # None
             /\ \A x \in Values : Valid(x, RngFacets(n, refs[n]))
                   <=> \E i \in DOMAIN v[Enum][n] : x.str = v[Enum][n][i]
  <2>1. /\ EndOfLinks(n) = INTEGER /\ cs # <<>> /\ cs[1].kind = Enum
        /\ RngFacets(n, refs[n]) = AllFacets(<<cs[1]>>, INTEGER)
    BY <1>2, <1>6, <1>8 DEF RngFacets
  <2>2. 1 \in DOMAIN cs
    BY <1>3, <2>1 DEF Lists
  <2>3. cs[1] \in OwnItems(n) \cup FileItems(n, 4)
    BY <1>3, <2>2 DEF Lists
  <2>4. v[Enum][n] # None /\ cs[1] = Item(n, Enum)
    BY <2>1, <2>3, ItemsOf, KindsApart DEF OwnItem, Item
  <2>5. cs[1].value = v[Enum][n]
    BY <2>4 DEF Item
  <2>6. \E i \in DOMAIN cs[1].value : TRUE
    BY <1>1, <2>4, <2>5, ValuesTyped
  <2>7. ASSUME NEW x \in Values
        PROVE  Valid(x, AllFacets(<<cs[1]>>, INTEGER))
                 <=> \E i \in DOMAIN cs[1].value : x.str = cs[1].value[i]
    <3>1. PICK c : c = cs[1]
      OBVIOUS
    <3>2. Valid(x, AllFacets(<<c>>, INTEGER)) <=> \E i \in DOMAIN c.value : x.str = c.value[i]
      BY <2>1, <2>6, <3>1, ValidChoice
    <3> QED BY <3>1, <3>2
  <2> QED BY <2>1, <2>4, <2>5, <2>7
<1>9. (\E i, j \in DOMAIN xsd : i # j /\ xsd[i].facet = xsd[j].facet
         /\ xsd[i].facet \in {"minLength", "maxLength", "minInclusive", "maxInclusive"})
        <=> g[n].size # None /\ v[Size][n] # None
  BY <1>3, <1>5, BoundsTwice
<1> DEFINE told == Told(n)
           lone == told.len.min # None /\ told.len.max = None
           lost == \E m \in Rules(n) \ {n} : g[m].size # None
           alias == g[n].size # None /\ Digits(n) /\ g[n].to # BCDString
<1>10. told.enum = v[Enum][n]
  <2>1. Says(Enum, Behind(Enum, n)) = v[Enum][n]
    BY <1>1, BehindSays, KindsApart
  <2> QED BY <2>1 DEF Told
<1>11. v[Size][n] # None <=> told.len # [min |-> None, max |-> None]
  BY <1>1, LengthsTold
<1>12. ASSUME NEW x \in Values
       PROVE  Valid(x, xsd) <=>
                /\ FileAllows(told, x)
                /\ lone => x.len = 0
                /\ RuleAllows(n, n, IF alias THEN [x EXCEPT !.len = 2 * @] ELSE x)
  <2>1. MapAllows(n, x) <=> FileAllows(told, x) /\ (lone => x.len = 0)
    BY <1>1, AllTold
  <2>2. OwnAllows(n, x) <=> RuleAllows(n, n, IF alias THEN [x EXCEPT !.len = 2 * @] ELSE x)
    BY <1>1, OwnRule DEF Simple
  <2> HIDE DEF told, lone, alias
  <2> QED BY <1>7, <2>1, <2>2
<1>13. ASSUME ~lone, ~lost, ~alias, NEW x \in Values
       PROVE  Valid(x, xsd) <=> FileAllows(told, x) /\ GrammarAllows(n, x)
  <2>1. GrammarAllows(n, x) <=> RuleAllows(n, n, x)
    BY <1>1, <1>13, RuleAlone
  <2> HIDE DEF told, lone, lost, alias
  <2> QED BY <1>12, <1>13, <2>1
<1> QED BY <1>6, <1>8, <1>9, <1>10, <1>11, <1>12, <1>13

LEMMA Always == Spec => [](Inv /\ Learned)
<1>1. Init => Inv /\ Learned
  BY InitInv, InitLearned
<1>2. Inv /\ Learned /\ [Next]_vars => Inv' /\ Learned'
  BY NextInv, NextLearned
<1> QED BY <1>1, <1>2, PTL DEF Spec

\* For any file and grammar the facets in XSD and RelaxNG allow just the values
\* which the lines of the constraint file and all rules on the way to the terminal
\* allow, but for the three exceptions, of which the exact effect is given.
THEOREM FacetsExact == Spec => []FacetsFaithful
<1>1. Inv /\ Learned => FacetsFaithful
  BY Faithful
<1> QED BY <1>1, Always, PTL

\* A constraint as it is read from the text.
Marked(c) == [kind |-> c.kind, value |-> c.value, source |-> "ASN1"]

LEMMA PrintedBySort ==
    ASSUME NEW n, NEW c \in OwnItems(n) \cup FileItems(n, 4)
    PROVE  /\ Printed(c) = IF c.kind \in {Size, Domain} THEN <<Marked(c)>> ELSE <<>>
           /\ c.kind \in Kinds
<1>1. c = [kind |-> c.kind, value |-> c.value, source |-> c.source] /\ c.kind \in Kinds
  BY ItemsOf, KindsApart DEF OwnItem, Item
<1>2. [c EXCEPT !.source = "ASN1"] = Marked(c)
  BY <1>1 DEF Marked
<1> QED BY <1>1, <1>2 DEF Printed

\* One constraint, of a length or a range, is not a rejection.
LEMMA OneRead ==
    ASSUME NEW c, c.kind \in {Size, Domain}
    PROVE  LET b == <<Marked(c)>> IN
           /\ b # Rejected /\ Len(b) = 1
           /\ {<<b[i].kind, b[i].value>> : i \in DOMAIN b} = {<<c.kind, c.value>>}
<1> DEFINE b == <<Marked(c)>>
<1>1. b[1].kind = c.kind /\ b[1].value = c.value /\ DOMAIN b = {1} /\ Len(b) = 1
  BY DEF Marked
<1>2. Rejected[1].kind = 0
  BY DEF Rejected
<1>3. c.kind # 0
  BY DEF Size, Domain
<1> HIDE DEF b
<1>4. b # Rejected
  BY <1>1, <1>2, <1>3
<1>5. {<<b[i].kind, b[i].value>> : i \in DOMAIN b} = {<<c.kind, c.value>>}
  BY <1>1
<1> QED BY <1>1, <1>4, <1>5 DEF b

\* The facets of a length do not depend on its source but for BCDString.
LEMMA SameFacets ==
    ASSUME NEW c, c.kind = Size, NEW t, c.source = "ASN1" \/ t # BCDString
    PROVE  AllFacets(<<Marked(c)>>, t) = AllFacets(<<c>>, t)
<1> DEFINE d == Marked(c)
<1>1. d.kind = Size /\ d.value = c.value /\ Factor(d, t) = Factor(c, t)
  BY DEF Marked, Factor
<1> HIDE DEF d
<1>2. FacetsOf(d, t) = FacetsOf(c, t)
  BY <1>1, FacetsBySort
<1>3. DOMAIN <<d>> = {1} /\ DOMAIN <<c>> = {1} /\ <<d>>[1] = d /\ <<c>>[1] = c
  OBVIOUS
<1>4. PICK s : s = <<d>>
  OBVIOUS
<1>5. PICK u : u = <<c>>
  OBVIOUS
<1>6. DOMAIN s = DOMAIN u /\ \A i \in DOMAIN s : FacetsOf(s[i], t) = FacetsOf(u[i], t)
  BY <1>2, <1>3, <1>4, <1>5
<1>7. AllFacets(s, t) = AllFacets(u, t)
  <2> DEFINE D(w) == UNION {{i} \X DOMAIN FacetsOf(w[i], t) : i \in DOMAIN w}
  <2>1. D(s) = D(u)
    BY <1>6
  <2>2. \A p \in D(s) : p[1] \in DOMAIN s
    OBVIOUS
  <2>3. AllFacets(s, t) = [p \in D(s) |-> FacetsOf(s[p[1]], t)[p[2]]]
    BY DEF AllFacets
  <2>4. AllFacets(u, t) = [p \in D(u) |-> FacetsOf(u[p[1]], t)[p[2]]]
    BY DEF AllFacets
  <2> HIDE DEF D
  <2> QED BY <1>6, <2>1, <2>2, <2>3, <2>4
<1> QED BY <1>4, <1>5, <1>7 DEF d

\* Without constraints of the file there is one at most, of the grammar.
LEMMA OwnAlone ==
    ASSUME NEW n, NEW cs, Lists(cs, OwnItems(n) \cup FileItems(n, 4)),
           \A k \in Kinds : v[k][n] = None
    PROVE  /\ \A i \in DOMAIN cs : cs[i] = OwnItem(n) /\ g[n].size # None
           /\ \A i, j \in DOMAIN cs : i = j
<1>1. \A i \in DOMAIN cs : cs[i] \in OwnItems(n) \cup FileItems(n, 4)
  BY DEF Lists
<1>2. \A i \in DOMAIN cs : cs[i] = OwnItem(n) /\ g[n].size # None
  BY <1>1, ItemsOf
<1> QED BY <1>2 DEF Lists

LEMMA KeepsLengths == ASSUME Inv, Learned PROVE AsnKeepsLengths
<1> DEFINE pairs(cs, I) == {<<cs[i].kind, cs[i].value>> : i \in I}
           kept(cs) == {i \in DOMAIN cs : cs[i].kind \in {Size, Domain}}
           same(n, b, cs) ==
               Simple(n) =>
                 (\A x \in Values : Valid(x, XsdFacets(n, b)) <=> Valid(x, XsdFacets(n, cs)))
                   \/ (g[n].to = BCDString /\ v[Size][n] # None)
           goal(n, b, cs) ==
               IF b = Rejected THEN \E k \in Kinds : v[k][n] # None
               ELSE /\ pairs(b, DOMAIN b) = pairs(cs, kept(cs))
                    /\ Len(b) = Cardinality(kept(cs))
                    /\ g[n].type = "link" => kept(cs) = DOMAIN cs
                    /\ same(n, b, cs)
<1>1. SUFFICES ASSUME pc = "added", NEW n \in DOMAIN refs
               PROVE  goal(n, ReadBack(n), refs[n])
  BY DEF AsnKeepsLengths
<1>2. Types /\ n \in Fields /\ n \in Name
  BY DEF Inv, Types, Fields
<1>3. PICK cs : cs = refs[n]
  OBVIOUS
<1>4. Lists(cs, OwnItems(n) \cup FileItems(n, 4))
  <2>1. cs = Own(n) \o Expected(n, 4)
    BY <1>1, <1>2, <1>3 DEF Inv, RefsSoFar
  <2> QED BY <2>1, Listed
<1>5. /\ \A i \in DOMAIN cs : cs[i] \in OwnItems(n) \cup FileItems(n, 4)
      /\ cs \in Seq(OwnItems(n) \cup FileItems(n, 4))
      /\ DOMAIN cs = 1..Len(cs) /\ Len(cs) \in Nat
  BY <1>4 DEF Lists
<1>6. \A i \in DOMAIN cs : /\ Printed(cs[i]) = IF cs[i].kind \in {Size, Domain}
                                                 THEN <<Marked(cs[i])>> ELSE <<>>
                           /\ cs[i].kind \in Kinds
  BY <1>5, PrintedBySort
<1>7. <<>> # Rejected /\ Len(<<>>) = 0 /\ DOMAIN <<>> = {}
  BY DEF Rejected
<1>8. Cardinality({}) = 0 /\ \A i : Cardinality({i}) = 1
  BY FS_EmptySet, FS_Singleton
<1>9. n \in Name /\ g[n].size \in {None} \cup Bounds
  BY <1>2, SizeTyped
<1> HIDE DEF same
<1>10. CASE g[n].type = "link"
  <2>1. ReadBack(n) = ReadLinkBack(cs)
    BY <1>3, <1>10 DEF ReadBack
  <2>2. CASE cs = <<>>
    <3>1. ReadLinkBack(cs) = <<>>
      BY <2>2 DEF ReadLinkBack
    <3>2. kept(cs) = {} /\ DOMAIN cs = {}
      BY <1>7, <2>2
    <3>3. pairs(<<>>, DOMAIN <<>>) = {} /\ pairs(cs, kept(cs)) = {}
      BY <1>7, <3>2
    <3>4. same(n, <<>>, cs)
      BY <2>2 DEF same
    <3> HIDE DEF pairs, kept
    <3> QED BY <1>3, <1>7, <1>8, <2>1, <3>1, <3>2, <3>3, <3>4
  <2>3. CASE Len(cs) = 1 /\ cs[1].kind = Size
    <3>1. PICK c : c = cs[1]
      OBVIOUS
    <3>2. DOMAIN cs = {1} /\ cs = <<c>>
      BY <1>5, <2>3, <3>1
    <3>3. ReadLinkBack(cs) = <<Marked(c)>>
      BY <1>6, <1>7, <2>3, <3>1, <3>2 DEF ReadLinkBack
    <3>4. kept(cs) = {1} /\ pairs(cs, kept(cs)) = {<<c.kind, c.value>>}
      BY <2>3, <3>1, <3>2
    <3>5. PICK b : b = <<Marked(c)>>
      OBVIOUS
    <3>6. b # Rejected /\ Len(b) = 1 /\ pairs(b, DOMAIN b) = {<<c.kind, c.value>>}
      BY <2>3, <3>1, <3>5, OneRead
    <3>7. same(n, b, cs)
      <4>1. c = OwnItem(n) \/ (v[Size][n] # None /\ c = Item(n, Size))
        BY <1>5, <2>3, <3>1, <3>2, ItemsOf, KindsApart DEF OwnItem, Item
      <4>2. CASE c = OwnItem(n) \/ g[n].to # BCDString
        <5>1. PICK t : t = g[n].to
          OBVIOUS
        <5>2. AllFacets(<<Marked(c)>>, t) = AllFacets(<<c>>, t)
          <6>1. c.kind = Size /\ (c.source = "ASN1" \/ t # BCDString)
            BY <2>3, <3>1, <4>2, <5>1 DEF OwnItem
          <6> QED BY <6>1, SameFacets
        <5>3. XsdFacets(n, b) = XsdFacets(n, cs)
          BY <3>2, <3>5, <5>1, <5>2 DEF XsdFacets
        <5> QED BY <5>3 DEF same
      <4> QED BY <4>1, <4>2 DEF same
    <3>8. ReadBack(n) = b
      BY <2>1, <3>3, <3>5
    <3> HIDE DEF pairs, kept
    <3> QED BY <1>3, <1>8, <3>2, <3>4, <3>6, <3>7, <3>8
  <2>4. CASE cs # <<>> /\ ~(Len(cs) = 1 /\ cs[1].kind = Size)
    <3>1. ReadLinkBack(cs) = Rejected
      BY <2>4 DEF ReadLinkBack
    <3>2. \E k \in Kinds : v[k][n] # None
      <4> SUFFICES ASSUME \A k \in Kinds : v[k][n] = None PROVE FALSE
        OBVIOUS
      <4>1. 1 \in DOMAIN cs
        BY <1>5, <2>4
      <4>2. cs[1].kind = Size /\ \A i \in DOMAIN cs : i = 1
        BY <1>4, <4>1, OwnAlone DEF OwnItem
      <4>3. Len(cs) \in DOMAIN cs
        BY <1>5, <4>1
      <4> QED BY <2>4, <4>2, <4>3
    <3> QED BY <2>1, <3>1, <3>2
  <2> QED BY <2>2, <2>3, <2>4
<1>11. CASE g[n].type # "link"
  <2>1. ReadBack(n) = ReadFieldBack(cs)
    BY <1>3, <1>11 DEF ReadBack
  <2>2. \A b : same(n, b, cs)
    BY <1>11 DEF same, Simple
  <2> DEFINE shown == {i \in DOMAIN cs : Printed(cs[i]) # <<>>}
  <2>3. shown = kept(cs)
    <3>1. \A c : <<Marked(c)>> # <<>>
      OBVIOUS
    <3> QED BY <1>6, <3>1
  <2>4. ReadFieldBack(cs) =
          IF shown = {} THEN <<>>
          ELSE LET i == Min(shown) IN
               IF shown = {i} /\ None \notin {cs[i].value.min, cs[i].value.max}
                 THEN Printed(cs[i]) ELSE Rejected
    BY DEF ReadFieldBack
  <2> HIDE DEF shown
  <2>5. CASE shown = {}
    <3>1. ReadBack(n) = <<>>
      BY <2>1, <2>4, <2>5
    <3>2. kept(cs) = {}
      BY <2>3, <2>5
    <3>3. pairs(<<>>, DOMAIN <<>>) = {} /\ pairs(cs, kept(cs)) = {}
      BY <1>7, <3>2
    <3> HIDE DEF pairs, kept
    <3> QED BY <1>3, <1>7, <1>8, <1>11, <2>2, <3>1, <3>2, <3>3
  <2>6. CASE shown # {}
    <3>1. PICK i \in shown : i = Min(shown)
      <4>1. shown \subseteq Nat
        BY <1>5, <2>3
      <4>2. Min(shown) \in shown
        BY <2>6, <4>1, Least
      <4> QED BY <4>2
    <3>2. i \in DOMAIN cs /\ cs[i].kind \in {Size, Domain}
      BY <2>3
    <3>3. CASE shown = {i} /\ None \notin {cs[i].value.min, cs[i].value.max}
      <4>1. PICK c : c = cs[i]
        OBVIOUS
      <4>2. PICK b : b = <<Marked(c)>>
        OBVIOUS
      <4>3. ReadBack(n) = b
        BY <1>6, <2>1, <2>4, <2>6, <3>1, <3>2, <3>3, <4>1, <4>2
      <4>4. kept(cs) = {i} /\ pairs(cs, kept(cs)) = {<<c.kind, c.value>>}
        BY <2>3, <3>3, <4>1
      <4>5. b # Rejected /\ Len(b) = 1 /\ pairs(b, DOMAIN b) = {<<c.kind, c.value>>}
        BY <3>2, <4>1, <4>2, OneRead
      <4> HIDE DEF pairs, kept
      <4> QED BY <1>3, <1>8, <1>11, <2>2, <4>3, <4>4, <4>5
    <3>4. CASE ~(shown = {i} /\ None \notin {cs[i].value.min, cs[i].value.max})
      <4>1. ReadBack(n) = Rejected
        BY <2>1, <2>4, <2>6, <3>1, <3>4
      <4>2. \E k \in Kinds : v[k][n] # None
        <5> SUFFICES ASSUME \A k \in Kinds : v[k][n] = None PROVE FALSE
          OBVIOUS
        <5>1. cs[i] = OwnItem(n) /\ g[n].size # None /\ \A j \in DOMAIN cs : i = j
          BY <1>4, <3>2, OwnAlone
        <5>2. shown = {i}
          BY <2>3, <3>1, <5>1
        <5>3. cs[i].value \in Bounds
          BY <1>9, <5>1 DEF OwnItem
        <5>4. None \notin {cs[i].value.min, cs[i].value.max}
          BY <5>3, BoundsAreNumbers
        <5> QED BY <3>4, <5>2, <5>4
      <4> QED BY <4>1, <4>2
    <3> QED BY <3>3, <3>4
  <2> QED BY <2>5, <2>6
<1> QED BY <1>10, <1>11

\* Lengths and ranges that are printed as ASN.1 are read again as they were, or
\* rejected by the parser.
THEOREM AsnExact == Spec => []AsnKeepsLengths
<1>1. Inv /\ Learned => AsnKeepsLengths
  BY KeepsLengths
<1> QED BY <1>1, Always, PTL
=============================================================================
