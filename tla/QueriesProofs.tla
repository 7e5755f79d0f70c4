---------------------------- MODULE QueriesProofs ----------------------------
(***************************************************************************)
(* Theorems about derive_tags() and about the queries, for every grammar.  *)
(*                                                                         *)
(* When derive_tags() comes to its regular end the coordinates are a       *)
(* solution of the rules of implicit tagging, and at any time each of them *)
(* is the one every solution has.  Hence the result is the least solution, *)
(* and does not depend on the order of the declarations.                   *)
(*                                                                         *)
(* For any number of queries and whether or not derive_tags() has run,     *)
(* what the walks return, backward from a symbol to its users or forward   *)
(* along LINKs, is what the forward definitions say.                       *)
(***************************************************************************)
EXTENDS Queries, FiniteSetTheorems, TLAPS

Coord == Coords \cup {None}

\* Own coordinates are kept.
Own == \A x \in Items(g) : g.tag[x] # None => coord[x] = g.tag[x]

\* Coordinates that were taken over are still those of their source.
Justified == \A x \in Items(g) : coord[x] # None /\ g.tag[x] = None
                                    => coord[x] = Derive(g, coord, x)

\* A visit of n would change nothing.
Stable(n) == \A x \in {n} \cup RefsIn(g, n) :
                coord[x] = None => Derive(g, coord, x) = None

\* A pass that has changed nothing so far leaves no work behind it.
Quiet ==
    /\ pc = "loop" /\ ~has_changed => \A k \in 1..(pos - 1) : Stable(g.order[k])
    /\ pc = "done" => \A k \in DOMAIN g.order : Stable(g.order[k])

IInv == TypeOK /\ Own /\ Justified /\ Quiet

-----------------------------------------------------------------------------
LEMMA Least ==
    ASSUME NEW T, T \subseteq Nat, T # {}
    PROVE  \E m \in T : \A k \in T : ~(k < m)
<1>1. PICK m \in T : \A k \in T : ~(<<k, m>> \in OpToRel(<, Nat))
  BY NatLessThanWellFounded, WFMin
<1>2. \A k \in T : ~(k < m)
  BY <1>1 DEF OpToRel
<1> QED BY <1>2

\* Induction on the numbers up to n, for a set of numbers.
LEMMA Induction ==
    ASSUME NEW n \in Nat, NEW T, 0 \in T, \A k \in 1..n : k - 1 \in T => k \in T
    PROVE  \A k \in 0..n : k \in T
<1> DEFINE Bad == {k \in 0..n : k \notin T}
<1>1. SUFFICES ASSUME Bad # {} PROVE FALSE
  OBVIOUS
<1>2. PICK m \in Bad : \A k \in Bad : ~(k < m)
  <2>1. Bad \subseteq Nat
    OBVIOUS
  <2> HIDE DEF Bad
  <2> QED BY <1>1, <2>1, Least
<1>3. m \in 1..n /\ m - 1 \in 0..n
  BY <1>2
<1>4. m - 1 \in T
  BY <1>2, <1>3
<1> QED BY <1>2, <1>3, <1>4

\* f is defined by recursion on the numbers up to n: from x, by F.
Iterates(f, S, F, x, n) ==
    /\ f \in [0..n -> S]
    /\ f[0] = x
    /\ \A k \in 1..n : f[k] = F[f[k - 1]]

\* Such a function exists.
LEMMA Recursion ==
    ASSUME NEW S, NEW F \in [S -> S], NEW x \in S, NEW n \in Nat
    PROVE  \E f : Iterates(f, S, F, x, n)
<1> DEFINE Upto(m, f) == f[0] = x /\ \A k \in 1..m : f[k] = F[f[k - 1]]
           T == {m \in Nat : \E f \in [0..m -> S] : Upto(m, f)}
<1>1. 0 \in T
  <2> DEFINE e == [k \in 0..0 |-> x]
  <2>1. e \in [0..0 -> S] /\ Upto(0, e)
    OBVIOUS
  <2> QED BY <2>1
<1>2. ASSUME NEW m \in 1..n, m - 1 \in T
      PROVE  m \in T
  <2>1. PICK f \in [0..(m - 1) -> S] : Upto(m - 1, f)
    BY <1>2
  <2> DEFINE h == [k \in 0..m |-> IF k = m THEN F[f[m - 1]] ELSE f[k]]
  <2>2. f[m - 1] \in S /\ F[f[m - 1]] \in S
    BY <2>1
  <2>3. h \in [0..m -> S] /\ h[0] = x
    BY <2>1, <2>2
  <2>4. ASSUME NEW k \in 1..m PROVE h[k] = F[h[k - 1]]
    <3>1. k - 1 \in 0..(m - 1) /\ k - 1 # m /\ h[k - 1] = f[k - 1]
      BY <2>2
    <3>2. CASE k = m
      BY <3>1, <3>2
    <3>3. CASE k # m
      BY <2>1, <3>1, <3>3
    <3> QED BY <3>2, <3>3
  <2>5. Upto(m, h)
    BY <2>3, <2>4
  <2> HIDE DEF h, Upto
  <2> QED BY <2>3, <2>5
<1>3. n \in T
  <2> HIDE DEF T
  <2> QED BY <1>1, <1>2, Induction
<1> QED BY <1>3 DEF Iterates

\* A function that satisfies the equations of the recursion is one.
LEMMA Recurs ==
    ASSUME NEW S, NEW F \in [S -> S], NEW x \in S, NEW n \in Nat,
           NEW A, NEW f \in [0..n -> A], f[0] = x,
           \A k \in 1..n : f[k - 1] \in S => f[k] = F[f[k - 1]]
    PROVE  Iterates(f, S, F, x, n)
<1> DEFINE T == {k \in 0..n : f[k] \in S}
<1>1. 0 \in T /\ \A k \in 1..n : k - 1 \in T => k \in T
  OBVIOUS
<1>2. \A k \in 0..n : k \in T
  <2> HIDE DEF T
  <2> QED BY <1>1, Induction
<1>3. \A k \in 0..n : f[k] \in S
  BY <1>2
<1>4. \A k \in 1..n : f[k - 1] \in S
  BY <1>3
<1> QED BY <1>3, <1>4 DEF Iterates

\* A recursion that goes on until it changes nothing, and each time gains an
\* element of a finite set, has come to its end after as many rounds as the set
\* has elements.
LEMMA FixedPoint ==
    ASSUME NEW S, NEW F \in [S -> S], NEW x \in S, NEW U, IsFiniteSet(U),
           NEW D \in [S -> SUBSET U], NEW f, Iterates(f, S, F, x, Cardinality(U)),
           \A k \in 0..Cardinality(U) : /\ D[f[k]] \subseteq D[F[f[k]]]
                                        /\ D[f[k]] = D[F[f[k]]] => F[f[k]] = f[k]
    PROVE  F[f[Cardinality(U)]] = f[Cardinality(U)]
<1> DEFINE N == Cardinality(U)
           T == {k \in 0..N : F[f[k]] = f[k] \/ Cardinality(D[f[k]]) >= k}
<1>1. N \in Nat
  BY FS_CardinalityType
<1>2. \A k \in 0..N : /\ f[k] \in S /\ F[f[k]] \in S
                      /\ D[f[k]] \subseteq U /\ D[F[f[k]]] \subseteq U
                      /\ Cardinality(D[f[k]]) \in Nat /\ Cardinality(D[F[f[k]]]) \in Nat
  <2> TAKE k \in 0..N
  <2>1. f[k] \in S /\ F[f[k]] \in S
    BY DEF Iterates
  <2>2. D[f[k]] \in SUBSET U /\ D[F[f[k]]] \in SUBSET U
    BY <2>1
  <2> QED BY <2>1, <2>2, FS_Subset, FS_CardinalityType
<1>3. 0 \in T
  BY <1>1, <1>2
<1>4. ASSUME NEW k \in 1..N, k - 1 \in T
      PROVE  k \in T
  <2>1. k - 1 \in 0..N /\ k \in 0..N /\ f[k] = F[f[k - 1]]
    BY <1>1 DEF Iterates
  <2>2. CASE F[f[k - 1]] = f[k - 1]
    BY <2>1, <2>2
  <2>3. CASE F[f[k - 1]] # f[k - 1]
    <3>1. D[f[k - 1]] \subseteq D[f[k]] /\ D[f[k - 1]] # D[f[k]]
      BY <2>1, <2>3
    <3>2. IsFiniteSet(D[f[k]])
      BY <1>2, <2>1, FS_Subset
    <3>3. /\ Cardinality(D[f[k - 1]]) <= Cardinality(D[f[k]])
          /\ Cardinality(D[f[k - 1]]) # Cardinality(D[f[k]])
      BY <3>1, <3>2, FS_Subset
    <3> QED BY <1>2, <1>4, <2>1, <2>3, <3>3
  <2> QED BY <2>2, <2>3
<1>5. N \in T
  <2> HIDE DEF T
  <2> QED BY <1>1, <1>3, <1>4, Induction
<1>6. CASE Cardinality(D[f[N]]) >= N
  <2>1. N \in 0..N
    BY <1>1
  <2>2. Cardinality(D[f[N]]) <= N /\ (Cardinality(D[f[N]]) = N => D[f[N]] = U)
    BY <1>2, <2>1, FS_Subset
  <2>3. D[f[N]] = U
    BY <1>1, <1>2, <1>6, <2>1, <2>2
  <2> QED BY <1>2, <2>1, <2>3
<1> QED BY <1>5, <1>6

-----------------------------------------------------------------------------
LEMMA DeriveType ==
    ASSUME NEW h, IsGrammar(h), NEW c \in [Items(h) -> Coord],
           NEW x \in Items(h)
    PROVE  Derive(h, c, x) \in Coord
  <1>1. CASE x \in Refs(h)
    BY <1>1 DEF Derive, IsGrammar, Items
  <1>2. CASE x \notin Refs(h) /\ x \in h.terminals
    BY <1>2 DEF Derive, Coord
  <1>3. CASE x \notin Refs(h) /\ x \notin h.terminals
    <2>1. x \in NTs(h) /\ h.type[x] \in Types
      BY <1>3 DEF IsGrammar, Items, Symbols
    <2>2. h.type[x] = "LINK" => FrontRef(x) \in Refs(h)
      BY <2>1 DEF IsGrammar, LinkNTs, RefsIn
    <2>3. SeqCoord \in Coord /\ SetCoord \in Coord
      BY DEF SeqCoord, SetCoord, Coord, Coords
    <2>4. h.type[x] = "LINK" => c[FrontRef(x)] \in Coord
      BY <2>2 DEF Items
    <2> QED BY <1>3, <2>1, <2>3, <2>4 DEF Derive, Types, Coord
  <1> QED BY <1>1, <1>2, <1>3

\* Coordinates that could be taken over stay the same when more are known.
LEMMA DeriveMonotone ==
    ASSUME NEW h, IsGrammar(h), NEW c, NEW d, NEW x \in Items(h),
           \A y \in Items(h) : d[y] # None => c[y] = d[y],
           Derive(h, d, x) # None
    PROVE  Derive(h, c, x) = Derive(h, d, x)
  <1>1. CASE x \in Refs(h)
    BY <1>1 DEF Derive, IsGrammar, Items
  <1>2. CASE x \notin Refs(h) /\ x \in h.terminals
    BY <1>2 DEF Derive
  <1>3. CASE x \notin Refs(h) /\ x \notin h.terminals
    <2>1. x \in NTs(h) /\ h.type[x] \in Types
      BY <1>3 DEF IsGrammar, Items, Symbols
    <2>2. h.type[x] = "LINK" => FrontRef(x) \in Items(h)
      BY <2>1 DEF IsGrammar, LinkNTs, RefsIn, Items
    <2> QED BY <1>3, <2>1, <2>2 DEF Derive, Types
  <1> QED BY <1>1, <1>2, <1>3

-----------------------------------------------------------------------------
\* What one visit does to the coordinates.
LEMMA VisitEffect ==
    ASSUME IsGrammar(g), coord \in [Items(g) -> Coord], NEW n \in NTs(g)
    PROVE  LET c == TagRefs(TagSymbol(coord, n), n) IN
           /\ c \in [Items(g) -> Coord]
           /\ \A x \in Items(g) : coord[x] # None => c[x] = coord[x]
           /\ \A x \in Items(g) : coord[x] = None /\ c[x] # None
                                    => c[x] = Derive(g, c, x)
           /\ c = coord => Stable(n)
  <1> DEFINE b == TagSymbol(coord, n)
             c == TagRefs(b, n)
  <1>1. /\ n \in Items(g) /\ n \in Symbols(g)
        /\ \A r \in RefsIn(g, n) : r \in Items(g) /\ r \in Refs(g) /\ r # n
        /\ \A r \in Refs(g) : g.to[r] \in Symbols(g) /\ g.to[r] \in Items(g)
        /\ \A t \in Symbols(g) : t \notin RefsIn(g, n)
    BY DEF IsGrammar, Items, Symbols, RefsIn
  <1>2. Derive(g, coord, n) \in Coord
    BY <1>1, DeriveType
  <1>3. /\ b \in [Items(g) -> Coord]
        /\ \A x \in Items(g) : x # n => b[x] = coord[x]
        /\ b[n] = IF coord[n] = None THEN Derive(g, coord, n) ELSE coord[n]
    BY <1>1, <1>2 DEF TagSymbol
  <1> HIDE DEF b
  <1>4. \A r \in RefsIn(g, n) : Derive(g, b, r) = b[g.to[r]]
    BY <1>1 DEF Derive
  <1>5. \A x \in Items(g) : c[x] = IF x \in RefsIn(g, n) /\ b[x] = None
                                     THEN Derive(g, b, x) ELSE b[x]
    BY DEF TagRefs
  <1>6. c \in [Items(g) -> Coord]
    <2>1. \A x \in Items(g) : Derive(g, b, x) \in Coord
      BY <1>3, DeriveType
    <2> QED BY <1>3, <2>1 DEF TagRefs
  <1> HIDE DEF c
  <1>7. \A x \in Items(g) : coord[x] # None => c[x] = coord[x]
    BY <1>3, <1>5
  <1>8. \A x \in Items(g) : b[x] # None => c[x] = b[x]
    BY <1>5
  <1>9. ASSUME NEW x \in Items(g), coord[x] = None, c[x] # None
        PROVE  c[x] = Derive(g, c, x)
    <2>1. CASE x = n
      <3>1. c[x] = Derive(g, coord, n)
        BY <1>1, <1>3, <1>5, <1>9, <2>1
      <3> QED BY <1>7, <1>9, <2>1, <3>1, DeriveMonotone
    <2>2. CASE x # n
      <3>1. x \in RefsIn(g, n) /\ c[x] = Derive(g, b, x)
        BY <1>3, <1>5, <1>9, <2>2
      <3> QED BY <1>8, <1>9, <3>1, DeriveMonotone
    <2> QED BY <2>1, <2>2
  <1>10. ASSUME c = coord
         PROVE  Stable(n)
    <2>1. b = coord
      <3>1. b[n] = coord[n]
        BY <1>1, <1>3, <1>5, <1>10
      <3> QED BY <1>3, <3>1
    <2>2. coord[n] = None => Derive(g, coord, n) = None
      BY <1>1, <1>3, <2>1
    <2>3. \A r \in RefsIn(g, n) : coord[r] = None => Derive(g, coord, r) = None
      BY <1>1, <1>5, <1>10, <2>1
    <2> QED BY <2>2, <2>3 DEF Stable
  <1> QED BY <1>6, <1>7, <1>9, <1>10 DEF b, c

LEMMA IInvInit == Init => IInv
  <1> SUFFICES ASSUME Init PROVE IInv
    OBVIOUS
  <1>1. IsGrammar(g)
    BY GrammarsAssumption DEF Init
  <1>2. g.tag \in [Items(g) -> Coord] /\ Len(g.order) \in Nat
    BY <1>1 DEF IsGrammar, Coord
  <1>3. TypeOK
    <2>1. coord \in [Items(g) -> Coord] /\ pos \in 1..Len(g.order) + 1
      BY <1>2 DEF Init
    <2> QED BY <1>1, <2>1 DEF Init, TypeOK, Coord
  <1> QED BY <1>3 DEF Init, IInv, Own, Justified, Quiet

LEMMA VisitKeeps == ASSUME IInv, Visit PROVE IInv'
  <1> DEFINE n == g.order[pos]
             c == TagRefs(TagSymbol(coord, n), n)
  <1>1. /\ IsGrammar(g)
        /\ coord \in [Items(g) -> Coord]
        /\ pos \in 1..Len(g.order) + 1
        /\ Len(g.order) \in Nat
        /\ DOMAIN g.order = 1..Len(g.order)
    BY DEF IInv, TypeOK, Coord, IsGrammar
  <1>2. /\ pc = "loop"
        /\ pos \in DOMAIN g.order
        /\ coord' = c
        /\ has_changed' = (has_changed \/ c # coord)
        /\ pos' = pos + 1
        /\ UNCHANGED <<g, limit, i, pc>>
    BY DEF Visit
  <1>3. n \in NTs(g)
    BY <1>2 DEF NTs
  <1>4. /\ coord' \in [Items(g) -> Coord]
        /\ \A x \in Items(g) : coord[x] # None => coord'[x] = coord[x]
        /\ \A x \in Items(g) : coord[x] = None /\ coord'[x] # None
                                 => coord'[x] = Derive(g, coord', x)
        /\ c = coord => Stable(n)
    BY <1>1, <1>2, <1>3, VisitEffect
  <1> HIDE DEF c, n
  <1>5. TypeOK'
    BY <1>1, <1>2, <1>4 DEF IInv, TypeOK, Coord
  <1>6. Own'
    BY <1>2, <1>4 DEF IInv, Own
  <1>7. Justified'
    <2> SUFFICES ASSUME NEW x \in Items(g), coord'[x] # None, g.tag[x] = None
                 PROVE  coord'[x] = Derive(g, coord', x)
      BY <1>2 DEF Justified
    <2>1. CASE coord[x] = None
      BY <1>4, <2>1
    <2>2. CASE coord[x] # None
      <3>1. coord'[x] = Derive(g, coord, x) /\ Derive(g, coord, x) # None
        BY <1>4, <2>2 DEF IInv, Justified
      <3> QED BY <1>1, <1>4, <3>1, DeriveMonotone
    <2> QED BY <2>1, <2>2
  <1>8. Quiet'
    <2> SUFFICES ASSUME ~has_changed', NEW k \in 1..(pos' - 1)
                 PROVE  Stable(g.order[k])'
      BY <1>2 DEF Quiet
    <2>1. ~has_changed /\ coord' = coord /\ c = coord
      BY <1>2
    <2>2. Stable(g.order[k])
      <3>1. CASE k = pos
        BY <1>4, <2>1, <3>1 DEF n
      <3>2. CASE k # pos
        BY <1>1, <1>2, <2>1, <3>2 DEF IInv, Quiet
      <3> QED BY <3>1, <3>2
    <2> QED BY <1>2, <2>1, <2>2 DEF Stable
  <1> QED BY <1>5, <1>6, <1>7, <1>8 DEF IInv

LEMMA EndPassKeeps == ASSUME IInv, EndPass PROVE IInv'
  <1>1. /\ pc = "loop"
        /\ pos = Len(g.order) + 1
        /\ i' = i + 1
        /\ pc' \in {"loop", "done", "thrown"}
        /\ pc' = "done" => ~has_changed
        /\ pos' = 1
        /\ has_changed' = FALSE
        /\ UNCHANGED <<g, limit, coord>>
    BY DEF EndPass
  <1>2. Len(g.order) \in Nat /\ DOMAIN g.order = 1..Len(g.order)
    BY DEF IInv, TypeOK, IsGrammar
  <1>3. TypeOK'
    <2>1. has_changed' \in BOOLEAN
      BY <1>1
    <2>2. i' \in Nat
      BY <1>1 DEF IInv, TypeOK
    <2>3. pos' \in 1..Len(g'.order) + 1
      BY <1>1, <1>2
    <2> QED BY <1>1, <2>1, <2>2, <2>3 DEF IInv, TypeOK
  <1>4. Quiet'
    BY <1>1, <1>2 DEF IInv, Quiet, Stable
  <1> QED BY <1>1, <1>3, <1>4 DEF IInv, Own, Justified

LEMMA IInvNext == IInv /\ [Next]_vars => IInv'
  <1> SUFFICES ASSUME IInv, [Next]_vars PROVE IInv'
    OBVIOUS
  <1>1. CASE Visit
    BY <1>1, VisitKeeps
  <1>2. CASE EndPass
    BY <1>2, EndPassKeeps
  <1>3. CASE UNCHANGED vars
    BY <1>3 DEF vars, IInv, TypeOK, Own, Justified, Quiet, Stable
  <1> QED BY <1>1, <1>2, <1>3 DEF Next

LEMMA IInvAlways == Spec => []IInv
  BY IInvInit, IInvNext, PTL DEF Spec

-----------------------------------------------------------------------------
\* Type correctness of derive_tags().
THEOREM TypeCorrect == Spec => []TypeOK
  <1>1. IInv => TypeOK
    BY DEF IInv
  <1> QED BY <1>1, IInvAlways, PTL

LEMMA IInvSettles == IInv => Settled
<1> SUFFICES ASSUME IInv, pc = "done", NEW x \in Items(g)
             PROVE  coord[x] = IF g.tag[x] # None THEN g.tag[x]
                               ELSE Derive(g, coord, x)
  BY DEF Settled, Solution, IInv, TypeOK
<1>1. CASE g.tag[x] # None
  BY <1>1 DEF IInv, Own
<1>2. CASE g.tag[x] = None /\ coord[x] # None
  BY <1>2 DEF IInv, Justified
<1>3. CASE g.tag[x] = None /\ coord[x] = None
  <2>1. CASE x \in Refs(g)
    <3>1. x[1] \in NTs(g) /\ x \in RefsIn(g, x[1])
      BY <2>1 DEF IInv, TypeOK, IsGrammar, RefsIn
    <3>2. PICK k \in DOMAIN g.order : x[1] = g.order[k]
      BY <3>1 DEF NTs
    <3> QED BY <1>3, <3>1, <3>2 DEF IInv, Quiet, Stable
  <2>2. CASE x \notin Refs(g) /\ x \in g.terminals
    BY <1>3, <2>2 DEF Derive
  <2>3. CASE x \notin Refs(g) /\ x \notin g.terminals
    <3>1. PICK k \in DOMAIN g.order : x = g.order[k]
      BY <2>3 DEF Items, Symbols, NTs
    <3> QED BY <1>3, <3>1 DEF IInv, Quiet, Stable
  <2> QED BY <2>1, <2>2, <2>3
<1> QED BY <1>1, <1>2, <1>3

\* The loop ends only when the coordinates are a solution of the tagging
\* rules: the test for a change misses nothing.
THEOREM EndsSettled == Spec => []Settled
  BY IInvSettles, IInvAlways, PTL

\* The coordinates that are set agree with every solution.
Forced == \A S : Solution(g, S) =>
             \A x \in Items(g) : coord[x] # None => coord[x] = S[x]

\* At every moment, of every run and order of declarations, coordinates that
\* were derived are those any solution of the tagging rules has.
THEOREM OnlyForcedTags == Spec => []Forced
  <1>1. Init => Forced
    BY DEF Init, Forced, Solution
  <1>2. IInv /\ Forced /\ [Next]_vars => Forced'
    <2> SUFFICES ASSUME IInv, Forced, [Next]_vars PROVE Forced'
      OBVIOUS
    <2>1. CASE Visit
      <3>1. g' = g
        BY <2>1 DEF Visit
      <3> SUFFICES ASSUME NEW S, Solution(g, S),
                          NEW x \in Items(g), coord'[x] # None
                   PROVE  coord'[x] = S[x]
        BY <3>1 DEF Forced
      <3> DEFINE n == g.order[pos]
                 b == TagSymbol(coord, n)
      <3>2. /\ IsGrammar(g)
            /\ coord \in [Items(g) -> Coord]
            /\ n \in NTs(g) /\ n \in Items(g)
            /\ coord' = TagRefs(b, n)
        BY <2>1 DEF Visit, IInv, TypeOK, Coord, NTs, Items, Symbols
      <3>3. Derive(g, coord, n) \in Coord
        BY <3>2, DeriveType
      <3>4. \A y \in Items(g) : coord[y] # None => S[y] = coord[y]
        BY DEF Forced
      <3>5. \A y \in Items(g) : b[y] # None => S[y] = b[y]
        <4> SUFFICES ASSUME NEW y \in Items(g), b[y] # None PROVE S[y] = b[y]
          OBVIOUS
        <4>1. CASE coord[y] # None \/ y # n
          BY <3>2, <3>3, <3>4, <4>1 DEF TagSymbol
        <4>2. CASE coord[y] = None /\ y = n
          <5>1. b[y] = Derive(g, coord, n) /\ g.tag[n] = None
            BY <3>2, <3>3, <4>2 DEF TagSymbol, IInv, Own
          <5>2. Derive(g, S, n) = Derive(g, coord, n)
            BY <3>2, <3>4, <4>2, <5>1, DeriveMonotone
          <5> QED BY <4>2, <5>1, <5>2 DEF Solution
        <4> QED BY <4>1, <4>2
      <3>6. coord'[x] = IF x \in RefsIn(g, n) /\ b[x] = None
                          THEN Derive(g, b, x) ELSE b[x]
        BY <3>2 DEF TagRefs
      <3> HIDE DEF b, n
      <3>7. CASE b[x] # None
        BY <3>5, <3>6, <3>7
      <3>8. CASE b[x] = None
        <4>1. coord'[x] = Derive(g, b, x) /\ Derive(g, b, x) # None
          BY <3>6, <3>8
        <4>2. Derive(g, S, x) = Derive(g, b, x)
          BY <3>2, <3>5, <4>1, DeriveMonotone
        <4>3. g.tag[x] = None
          <5>1. coord[x] = None
            BY <3>2, <3>3, <3>8 DEF b, TagSymbol
          <5> QED BY <5>1 DEF IInv, Own
        <4> QED BY <4>1, <4>2, <4>3 DEF Solution
      <3> QED BY <3>7, <3>8
    <2>2. CASE EndPass
      BY <2>2 DEF EndPass, Forced
    <2>3. CASE UNCHANGED vars
      BY <2>3 DEF vars, Forced
    <2> QED BY <2>1, <2>2, <2>3 DEF Next
  <1> QED BY <1>1, <1>2, IInvAlways, PTL DEF Spec
-----------------------------------------------------------------------------
LEMMA FiniteGrammar ==
    ASSUME NEW h, IsGrammar(h)
    PROVE  /\ IsFiniteSet(NTs(h)) /\ IsFiniteSet(LinkNTs(h)) /\ IsFiniteSet(Items(h))
           /\ Cardinality(LinkNTs(h)) \in Nat /\ Cardinality(Items(h)) \in Nat
<1>1. h.order \in Surjection(1..Len(h.order), NTs(h)) /\ Len(h.order) \in Nat
  BY DEF IsGrammar, NTs, Surjection
<1>2. IsFiniteSet(1..Len(h.order))
  BY <1>1, FS_Interval
<1>3. IsFiniteSet(NTs(h))
  BY <1>1, <1>2, FS_Surjection
<1>4. IsFiniteSet(LinkNTs(h))
  BY <1>3, FS_Subset DEF LinkNTs
<1>5. IsFiniteSet(Items(h))
  BY <1>3, FS_Union DEF Items, Symbols, IsGrammar
<1> QED BY <1>3, <1>4, <1>5, FS_CardinalityType

\* Resolving is what its definition says, round by round.
AllCoords(h) == [Items(h) -> Coord]
Round(h) == [c \in AllCoords(h) |-> TakeOver(h, c)]

LEMMA RoundType ==
    ASSUME NEW h, IsGrammar(h)
    PROVE  /\ Round(h) \in [AllCoords(h) -> AllCoords(h)]
           /\ \A c \in AllCoords(h) : Round(h)[c] = TakeOver(h, c)
           /\ h.tag \in AllCoords(h)
<1>1. h.tag \in [Items(h) -> Coord]
  BY DEF IsGrammar, Coord
<1>2. \A c \in AllCoords(h) : TakeOver(h, c) \in AllCoords(h)
  <2> TAKE c \in AllCoords(h)
  <2>1. \A x \in Items(h) : Derive(h, c, x) \in Coord /\ h.tag[x] \in Coord
    BY <1>1, DeriveType DEF AllCoords
  <2> QED BY <2>1 DEF TakeOver, AllCoords
<1> QED BY <1>1, <1>2 DEF Round, AllCoords

LEMMA ResolvingRounds ==
    ASSUME NEW h, IsGrammar(h)
    PROVE  Iterates(Resolving(h), AllCoords(h), Round(h), h.tag, Cardinality(Items(h)))
<1> DEFINE N == Cardinality(Items(h))
           S == AllCoords(h)
           F == Round(h)
           t == h.tag
           Eq(f) == f = [k \in 0..N |-> IF k = 0 THEN h.tag ELSE TakeOver(h, f[k - 1])]
           c == Resolving(h)
<1>1. N \in Nat /\ t \in S /\ F \in [S -> S] /\ \A e \in S : F[e] = TakeOver(h, e)
  BY FiniteGrammar, RoundType
<1> HIDE DEF N, S, F, t, c
<1>2. PICK f : Iterates(f, S, F, t, N)
  BY <1>1, Recursion
<1>3. \A k \in 1..N : f[k - 1] \in S /\ f[k] = TakeOver(h, f[k - 1])
  BY <1>1, <1>2 DEF Iterates
<1>4. Eq(f)
  BY <1>1, <1>2, <1>3 DEF t, Iterates
<1>5. Eq(c)
  BY <1>4 DEF Resolving, N, c
<1>6. /\ c[0] = t
      /\ \A k \in 1..N : c[k - 1] \in S => c[k] = F[c[k - 1]]
  BY <1>1, <1>5 DEF t
<1>7. c \in [0..N -> {c[k] : k \in 0..N}]
  BY <1>5
<1>8. Iterates(c, S, F, t, N)
  BY <1>1, <1>6, <1>7, Recurs
<1> QED BY <1>8 DEF N, S, F, t, c

\* What has been taken over stays.
LEMMA ResolvingKeeps ==
    ASSUME NEW h, IsGrammar(h), NEW k \in 0..Cardinality(Items(h)), NEW x \in Items(h),
           Resolving(h)[k][x] # None
    PROVE  TakeOver(h, Resolving(h)[k])[x] = Resolving(h)[k][x]
<1> DEFINE N == Cardinality(Items(h))
           c == Resolving(h)
           Kept(d) == \A y \in Items(h) : d[y] # None => TakeOver(h, d)[y] = d[y]
           T == {m \in 0..N : Kept(c[m])}
<1>1. N \in Nat /\ c[0] = h.tag /\ \A m \in 1..N : c[m] = TakeOver(h, c[m - 1])
  BY FiniteGrammar, ResolvingRounds, RoundType DEF Iterates
<1>2. \A d : \A y \in Items(h) : TakeOver(h, d)[y] =
                IF h.tag[y] # None THEN h.tag[y] ELSE Derive(h, d, y)
  BY DEF TakeOver
<1> HIDE DEF N, c
<1>3. 0 \in T
  BY <1>1, <1>2
<1>4. ASSUME NEW m \in 1..N, m - 1 \in T PROVE m \in T
  <2>1. Kept(c[m - 1]) /\ c[m] = TakeOver(h, c[m - 1])
    BY <1>1, <1>4
  <2>2. ASSUME NEW y \in Items(h), c[m][y] # None
        PROVE  TakeOver(h, c[m])[y] = c[m][y]
    <3>1. CASE h.tag[y] # None
      BY <1>2, <2>1, <3>1
    <3>2. CASE h.tag[y] = None
      <4>1. c[m][y] = Derive(h, c[m - 1], y) /\ TakeOver(h, c[m])[y] = Derive(h, c[m], y)
        BY <1>2, <2>1, <3>2
      <4>2. \A z \in Items(h) : c[m - 1][z] # None => c[m][z] = c[m - 1][z]
        BY <2>1
      <4> QED BY <2>2, <4>1, <4>2, DeriveMonotone
    <3> QED BY <3>1, <3>2
  <2> QED BY <2>2
<1>5. k \in T
  <2>1. k \in 0..N
    BY DEF N
  <2> HIDE DEF T
  <2> QED BY <1>1, <1>3, <1>4, <2>1, Induction
<1> QED BY <1>5 DEF c

\* The reference definition satisfies the rules of tagging: after as many rounds
\* as there are items nothing more is taken over.
LEMMA ResolveSolves ==
    ASSUME NEW h, IsGrammar(h)
    PROVE  Solution(h, Resolve(h))
<1> DEFINE U == Items(h)
           S == AllCoords(h)
           c == Resolving(h)
           D == [d \in S |-> {x \in U : d[x] # None}]
           N == Cardinality(U)
<1>1. /\ IsFiniteSet(U) /\ N \in Nat
      /\ Round(h) \in [S -> S] /\ h.tag \in S
      /\ Iterates(c, S, Round(h), h.tag, N)
  BY FiniteGrammar, RoundType, ResolvingRounds
<1>2. D \in [S -> SUBSET U]
  OBVIOUS
<1>3. ASSUME NEW k \in 0..N
      PROVE  /\ D[c[k]] \subseteq D[Round(h)[c[k]]]
             /\ D[c[k]] = D[Round(h)[c[k]]] => Round(h)[c[k]] = c[k]
  <2> DEFINE e == TakeOver(h, c[k])
  <2>1. c[k] \in S /\ e \in S /\ Round(h)[c[k]] = e
    BY <1>1, RoundType DEF Iterates
  <2>2. \A x \in U : c[k][x] # None => e[x] = c[k][x]
    BY ResolvingKeeps
  <2> HIDE DEF e, c
  <2>3. D[c[k]] = {x \in U : c[k][x] # None} /\ D[e] = {x \in U : e[x] # None}
    BY <2>1
  <2>4. ASSUME D[c[k]] = D[e] PROVE e = c[k]
    <3>1. \A x \in U : e[x] = c[k][x]
      BY <2>2, <2>3, <2>4
    <3> QED BY <2>1, <3>1 DEF AllCoords
  <2> QED BY <2>1, <2>2, <2>3, <2>4
<1>4. Round(h)[c[N]] = c[N]
  <2> HIDE DEF D, S, U, c
  <2> QED BY <1>1, <1>2, <1>3, FixedPoint DEF N
<1>5. c[N] \in S /\ TakeOver(h, c[N]) = c[N]
  BY <1>1, <1>4, RoundType DEF Iterates
<1> QED BY <1>5 DEF Resolve, Solution, TakeOver, AllCoords, Coord

\* It has nothing that another solution has not.
LEMMA ResolveLeast ==
    ASSUME NEW h, IsGrammar(h), NEW S, Solution(h, S), NEW x \in Items(h),
           Resolve(h)[x] # None
    PROVE  S[x] = Resolve(h)[x]
<1> DEFINE N == Cardinality(Items(h))
           c == Resolving(h)
           Less(d) == \A y \in Items(h) : d[y] # None => S[y] = d[y]
           T == {m \in 0..N : Less(c[m])}
<1>1. N \in Nat /\ c[0] = h.tag /\ \A m \in 1..N : c[m] = TakeOver(h, c[m - 1])
  BY FiniteGrammar, ResolvingRounds, RoundType DEF Iterates
<1> HIDE DEF N, c
<1>2. 0 \in T
  BY <1>1 DEF Solution
<1>3. ASSUME NEW m \in 1..N, m - 1 \in T PROVE m \in T
  <2>1. Less(c[m - 1]) /\ c[m] = TakeOver(h, c[m - 1])
    BY <1>1, <1>3
  <2>2. ASSUME NEW y \in Items(h), c[m][y] # None PROVE S[y] = c[m][y]
    <3>1. CASE h.tag[y] # None
      BY <2>1, <3>1 DEF TakeOver, Solution
    <3>2. CASE h.tag[y] = None
      <4>1. c[m][y] = Derive(h, c[m - 1], y) /\ S[y] = Derive(h, S, y)
        BY <2>1, <3>2 DEF TakeOver, Solution
      <4> QED BY <2>1, <2>2, <4>1, DeriveMonotone
    <3> QED BY <3>1, <3>2
  <2> QED BY <2>2
<1>4. N \in T
  <2> HIDE DEF T
  <2> QED BY <1>1, <1>2, <1>3, Induction
<1> QED BY <1>4 DEF c, N, Resolve

\* Whatever the order of the declarations, derive_tags() ends with what the
\* reference definition gives: both are the least solution of the rules.
THEOREM Deterministic == Spec => []OrderIndependent
<1>1. IInv /\ Settled /\ Forced => OrderIndependent
  <2> SUFFICES ASSUME IInv, Settled, Forced, pc = "done"
               PROVE  coord = Resolve(g)
    BY DEF OrderIndependent
  <2>1. IsGrammar(g)
    BY DEF IInv, TypeOK
  <2>2. Solution(g, Resolve(g)) /\ Solution(g, coord)
    BY <2>1, ResolveSolves DEF Settled
  <2>3. \A x \in Items(g) : coord[x] = Resolve(g)[x]
    BY <2>1, <2>2, ResolveLeast DEF Forced
  <2> QED BY <2>2, <2>3 DEF Solution
<1> QED BY <1>1, IInvAlways, EndsSettled, OnlyForcedTags, PTL


-----------------------------------------------------------------------------
LEMMA FiniteSymbols ==
    ASSUME NEW h, IsGrammar(h)
    PROVE  /\ IsFiniteSet(Symbols(h)) /\ Cardinality(Symbols(h)) \in Nat
           /\ LinkNTs(h) \subseteq Symbols(h)
           /\ \A n \in LinkNTs(h) : FrontRef(n) \in Refs(h) /\ h.to[FrontRef(n)] \in Symbols(h)
           /\ None \notin Symbols(h)
<1>1. IsFiniteSet(Items(h)) /\ Symbols(h) \in SUBSET Items(h)
  BY FiniteGrammar DEF Items
<1>2. IsFiniteSet(Symbols(h))
  BY <1>1, FS_Subset
<1>3. \A n \in LinkNTs(h) : FrontRef(n) \in Refs(h)
  BY DEF IsGrammar, RefsIn
<1>4. \A n \in LinkNTs(h) : h.to[FrontRef(n)] \in Symbols(h)
  BY <1>3 DEF IsGrammar
<1> QED BY <1>2, <1>3, <1>4, FS_CardinalityType DEF LinkNTs, Symbols, IsGrammar, Items

-----------------------------------------------------------------------------
\* Following is what its definition says, round by round.
Reached(h)    == SUBSET Symbols(h)
GoOnRound(h)  == [X \in Reached(h) |-> GoOn(h, X)]

LEMMA GoOnType ==
    ASSUME NEW h, IsGrammar(h)
    PROVE  /\ GoOnRound(h) \in [Reached(h) -> Reached(h)]
           /\ \A X \in Reached(h) : GoOnRound(h)[X] = GoOn(h, X)
<1>1. \A X \in Reached(h) : GoOn(h, X) \in Reached(h)
  BY FiniteSymbols DEF Reached, GoOn
<1> QED BY <1>1 DEF GoOnRound

LEMMA FollowingRounds ==
    ASSUME NEW h, IsGrammar(h), NEW t \in Symbols(h)
    PROVE  Iterates(Following(h, t), Reached(h), GoOnRound(h), {t}, Cardinality(Symbols(h)))
<1> DEFINE N == Cardinality(Symbols(h))
           S == Reached(h)
           F == GoOnRound(h)
           c0 == {t}
           Eq(f) == f = [k \in 0..N |-> IF k = 0 THEN c0 ELSE GoOn(h, f[k - 1])]
           c == Following(h, t)
<1>1. N \in Nat /\ c0 \in S /\ F \in [S -> S] /\ \A X \in S : F[X] = GoOn(h, X)
  BY FiniteSymbols, GoOnType DEF Reached
<1> HIDE DEF N, S, F, c0, c
<1>2. PICK f : Iterates(f, S, F, c0, N)
  BY <1>1, Recursion
<1>3. \A k \in 1..N : f[k - 1] \in S /\ f[k] = GoOn(h, f[k - 1])
  BY <1>1, <1>2 DEF Iterates
<1>4. Eq(f)
  BY <1>1, <1>2, <1>3 DEF Iterates
<1>5. Eq(c)
  BY <1>4 DEF Following, N, c, c0
<1>6. /\ c[0] = c0
      /\ \A k \in 1..N : c[k - 1] \in S => c[k] = F[c[k - 1]]
  BY <1>1, <1>5
<1>7. c \in [0..N -> {c[k] : k \in 0..N}]
  BY <1>5
<1>8. Iterates(c, S, F, c0, N)
  BY <1>1, <1>6, <1>7, Recurs
<1> QED BY <1>8 DEF N, S, F, c0, c

\* The chain from t has t and, with a LINK, what that refers to.
LEMMA ChainCloses ==
    ASSUME NEW h, IsGrammar(h), NEW t \in Symbols(h)
    PROVE  /\ ChainOfLinks(h, t) \subseteq Symbols(h)
           /\ t \in ChainOfLinks(h, t)
           /\ \A n \in LinkNTs(h) \cap ChainOfLinks(h, t) :
                 h.to[FrontRef(n)] \in ChainOfLinks(h, t)
<1> DEFINE U == Symbols(h)
           S == Reached(h)
           F == GoOnRound(h)
           c == Following(h, t)
           D == [X \in S |-> X]
           N == Cardinality(U)
           x == {t}
<1>1. /\ IsFiniteSet(U) /\ N \in Nat
      /\ F \in [S -> S] /\ x \in S
      /\ Iterates(c, S, F, x, N)
  BY FiniteSymbols, GoOnType, FollowingRounds DEF Reached
<1>2. D \in [S -> SUBSET U]
  BY DEF Reached
<1>3. ASSUME NEW k \in 0..N
      PROVE  /\ D[c[k]] \subseteq D[F[c[k]]]
             /\ D[c[k]] = D[F[c[k]]] => F[c[k]] = c[k]
  <2>1. c[k] \in S /\ F[c[k]] \in S /\ F[c[k]] = GoOn(h, c[k])
    BY <1>1, GoOnType DEF Iterates
  <2> HIDE DEF S, c, F
  <2> QED BY <2>1 DEF GoOn
<1>4. F[c[N]] = c[N]
  <2> HIDE DEF D, S, U, c, F, x
  <2> QED BY <1>1, <1>2, <1>3, FixedPoint DEF N
<1>5. c[N] \in S /\ GoOn(h, c[N]) = c[N]
  BY <1>1, <1>4, GoOnType DEF Iterates
<1>6. t \in c[N]
  <2> DEFINE T == {k \in 0..N : t \in c[k]}
  <2>1. 0 \in T
    BY <1>1 DEF Iterates
  <2>2. ASSUME NEW k \in 1..N, k - 1 \in T PROVE k \in T
    <3>1. c[k - 1] \in S /\ c[k] = F[c[k - 1]]
      BY <1>1 DEF Iterates
    <3> QED BY <2>2, <3>1, GoOnType DEF GoOn
  <2>3. N \in T
    <3> HIDE DEF T, N
    <3> QED BY <1>1, <2>1, <2>2, Induction
  <2> QED BY <2>3
<1> QED BY <1>5, <1>6 DEF ChainOfLinks, GoOn, Reached

\* And nothing else.
LEMMA ChainLeast ==
    ASSUME NEW h, IsGrammar(h), NEW t \in Symbols(h), NEW X, t \in X,
           \A n \in LinkNTs(h) \cap X : h.to[FrontRef(n)] \in X
    PROVE  ChainOfLinks(h, t) \subseteq X
<1> DEFINE N == Cardinality(Symbols(h))
           c == Following(h, t)
           T == {m \in 0..N : c[m] \subseteq X}
<1>0. N \in Nat /\ Iterates(c, Reached(h), GoOnRound(h), {t}, N)
  BY FiniteSymbols, FollowingRounds
<1> HIDE DEF N, c
<1>1. N \in Nat /\ c[0] = {t} /\ \A m \in 1..N : c[m] = GoOn(h, c[m - 1])
  BY <1>0, GoOnType DEF Iterates
<1>2. 0 \in T
  BY <1>1
<1>3. ASSUME NEW m \in 1..N, m - 1 \in T PROVE m \in T
  BY <1>1, <1>3 DEF GoOn
<1>4. N \in T
  <2> HIDE DEF T
  <2> QED BY <1>1, <1>2, <1>3, Induction
<1> QED BY <1>4 DEF c, N, ChainOfLinks

\* The chain of a LINK is that of the symbol it refers to and the LINK.
LEMMA ChainStep ==
    ASSUME NEW h, IsGrammar(h), NEW n \in LinkNTs(h)
    PROVE  ChainOfLinks(h, n) = {n} \cup ChainOfLinks(h, h.to[FrontRef(n)])
<1> DEFINE t == h.to[FrontRef(n)]
           C == ChainOfLinks(h, t)
           X == {n} \cup C
<1>1. n \in Symbols(h) /\ t \in Symbols(h)
  BY FiniteSymbols
<1>2. t \in C /\ \A x \in LinkNTs(h) \cap C : h.to[FrontRef(x)] \in C
  BY <1>1, ChainCloses
<1>3. ChainOfLinks(h, n) \subseteq X
  <2>1. n \in X /\ \A x \in LinkNTs(h) \cap X : h.to[FrontRef(x)] \in X
    BY <1>2
  <2> HIDE DEF X, t
  <2> QED BY <1>1, <2>1, ChainLeast
<1>4. n \in ChainOfLinks(h, n) /\ t \in ChainOfLinks(h, n)
      /\ \A x \in LinkNTs(h) \cap ChainOfLinks(h, n) : h.to[FrontRef(x)] \in ChainOfLinks(h, n)
  BY <1>1, ChainCloses
<1>5. C \subseteq ChainOfLinks(h, n)
  <2> HIDE DEF t
  <2> QED BY <1>1, <1>4, ChainLeast
<1> QED BY <1>3, <1>4, <1>5

\* That of any other symbol is the symbol.
LEMMA ChainEnds ==
    ASSUME NEW h, IsGrammar(h), NEW t \in Symbols(h) \ LinkNTs(h)
    PROVE  ChainOfLinks(h, t) = {t}
<1>1. t \in ChainOfLinks(h, t)
  BY ChainCloses
<1>2. ChainOfLinks(h, t) \subseteq {t}
  <2> DEFINE X == {t}
  <2>1. t \in X /\ \A n \in LinkNTs(h) \cap X : h.to[FrontRef(n)] \in X
    OBVIOUS
  <2> HIDE DEF X
  <2>2. ChainOfLinks(h, t) \subseteq X
    BY <2>1, ChainLeast
  <2> QED BY <2>2 DEF X
<1> QED BY <1>1, <1>2

\* The chain of a LINK ends where that of the symbol it refers to does.
LEMMA EndSolves ==
    ASSUME NEW h, IsGrammar(h), NEW t \in Symbols(h)
    PROVE  /\ EndOfLinks(h, t) \in Symbols(h) \cup {None}
           /\ EndOfLinks(h, t) = IF t \in LinkNTs(h) THEN EndOfLinks(h, h.to[FrontRef(t)]) ELSE t
<1> DEFINE Ends(y) == {x \in Symbols(h) \ LinkNTs(h) : x \in ChainOfLinks(h, y)}
           One(E) == IF E = {} THEN None ELSE CHOOSE x \in E : TRUE
<1>1. \A y : EndOfLinks(h, y) = IF y \notin LinkNTs(h) THEN y ELSE One(Ends(y))
  BY DEF EndOfLinks
<1>2. /\ \A y : One(Ends(y)) \in Symbols(h) \cup {None}
      /\ \A y : One({y}) = y
  OBVIOUS
<1>3. ASSUME t \in LinkNTs(h)
      PROVE  EndOfLinks(h, t) = EndOfLinks(h, h.to[FrontRef(t)])
  <2> DEFINE u == h.to[FrontRef(t)]
  <2>1. u \in Symbols(h)
    BY <1>3, FiniteSymbols
  <2>2. ChainOfLinks(h, t) = {t} \cup ChainOfLinks(h, u)
    BY <1>3, ChainStep
  <2> HIDE DEF u
  <2>3. Ends(t) = Ends(u)
    BY <1>3, <2>2
  <2>4. u \notin LinkNTs(h) => Ends(u) = {u}
    BY <2>1, ChainEnds
  <2> HIDE DEF Ends, One
  <2>5. EndOfLinks(h, t) = EndOfLinks(h, u)
    BY <1>1, <1>2, <1>3, <2>3, <2>4
  <2> QED BY <2>5 DEF u
<1> HIDE DEF Ends, One
<1> QED BY <1>1, <1>2, <1>3

\* Every chain that ends in Y is within a set that has Y and, with the symbol a
\* LINK refers to, the LINK.
LEMMA EndLeast ==
    ASSUME NEW h, IsGrammar(h), NEW t \in Symbols(h), NEW X, NEW Y \in SUBSET X,
           None \notin Y,
           \A n \in LinkNTs(h) : h.to[FrontRef(n)] \in X => n \in X,
           EndOfLinks(h, t) \in Y
    PROVE  t \in X
<1> DEFINE Z == {x \in Symbols(h) : x \notin X}
<1>1. SUFFICES ASSUME t \notin X PROVE FALSE
  OBVIOUS
<1>2. t \in Z /\ \A n \in LinkNTs(h) \cap Z : h.to[FrontRef(n)] \in Z
  BY <1>1, FiniteSymbols
<1>3. ChainOfLinks(h, t) \subseteq Z
  <2> HIDE DEF Z
  <2> QED BY <1>2, ChainLeast
<1>4. EndOfLinks(h, t) \in X /\ EndOfLinks(h, t) # None
  OBVIOUS
<1>5. EndOfLinks(h, t) = t \/ EndOfLinks(h, t) \in ChainOfLinks(h, t)
  BY <1>4 DEF EndOfLinks
<1> QED BY <1>1, <1>3, <1>4, <1>5

-----------------------------------------------------------------------------
\* A set without circles of R has a maximal element.
LEMMA Maximal ==
    ASSUME NEW S, IsFiniteSet(S), S # {}, NEW R,
           \A x \in S : <<x, x>> \notin R,
           \A x, y, z \in S : <<x, y>> \in R /\ <<y, z>> \in R => <<x, z>> \in R
    PROVE  \E x \in S : \A y \in S : <<x, y>> \notin R
<1>0. PICK n \in Nat : Surjection(1..n, S) # {}
  BY FS_NatSurjection DEF ExistsSurjection
<1>1. PICK f \in [1..n -> S] : \A x \in S : \E k \in 1..n : f[k] = x
  BY <1>0 DEF Surjection
<1> DEFINE Top(m) == \E x \in S : \A k \in 1..m : <<x, f[k]>> \notin R
           T == {m \in 0..n : Top(m)}
<1>2. 0 \in T
  OBVIOUS
<1>3. ASSUME NEW m \in 1..n, m - 1 \in T PROVE m \in T
  <2>1. PICK x \in S : \A k \in 1..(m - 1) : <<x, f[k]>> \notin R
    BY <1>3
  <2>2. \A k \in 1..m : f[k] \in S /\ (k \in 1..(m - 1) \/ k = m)
    OBVIOUS
  <2>3. CASE <<x, f[m]>> \notin R
    <3>1. \A k \in 1..m : <<x, f[k]>> \notin R
      BY <2>1, <2>2, <2>3
    <3> QED BY <3>1
  <2>4. CASE <<x, f[m]>> \in R
    <3>1. \A k \in 1..m : <<f[m], f[k]>> \notin R
      BY <2>1, <2>2, <2>4
    <3> QED BY SMTT(20), <2>2, <3>1
  <2> QED BY <2>3, <2>4
<1>4. n \in T
  <2> HIDE DEF T
  <2> QED BY <1>2, <1>3, Induction
<1> QED BY <1>1, <1>4

\* The elements of the sequence u.
Elements(u) == {u[k] : k \in DOMAIN u}

LEMMA SetToSeqElements ==
    ASSUME NEW S, IsFiniteSet(S)
    PROVE  SetToSeq(S) \in Seq(S) /\ Elements(SetToSeq(S)) = S
<1> DEFINE n == Cardinality(S)
           q == SetToSeq(S)
<1>1. n \in Nat /\ Bijection(1..n, S) # {}
  BY FS_CardinalityType DEF ExistsBijection
<1>2. \E f \in [1..n -> S] : IsInjective(f)
  BY <1>1 DEF Bijection, Injection
<1>3. q \in [1..n -> S] /\ IsInjective(q)
  BY <1>2 DEF SetToSeq
<1>4. IsFiniteSet(1..n) /\ Cardinality(1..n) = n
  BY <1>1, FS_Interval
<1>5. q \in Surjection(1..n, S)
  <2>1. q \in Injection(1..n, S)
    BY <1>3 DEF Injection
  <2> QED BY <1>4, <2>1, FS_Injection
<1> HIDE DEF q, n
<1>6. q \in Seq(S) /\ DOMAIN q = 1..n
  BY <1>1, <1>3
<1>7. Elements(q) = S
  BY <1>3, <1>5, <1>6 DEF Elements, Surjection
<1> QED BY <1>6, <1>7 DEF q

LEMMA ElementsOfConcat ==
    ASSUME NEW S, NEW u \in Seq(S), NEW w \in Seq(S)
    PROVE  u \o w \in Seq(S) /\ Elements(u \o w) = Elements(u) \cup Elements(w)
<1>1. /\ u \o w \in Seq(S) /\ Len(u \o w) = Len(u) + Len(w)
      /\ \A k \in 1..Len(u) : (u \o w)[k] = u[k]
      /\ \A k \in 1..Len(w) : (u \o w)[Len(u) + k] = w[k]
  OBVIOUS
<1>2. DOMAIN u = 1..Len(u) /\ DOMAIN w = 1..Len(w) /\ DOMAIN (u \o w) = 1..Len(u \o w)
      /\ Len(u) \in Nat /\ Len(w) \in Nat
  OBVIOUS
<1> DEFINE c == u \o w
<1> HIDE DEF c
<1>3. Elements(c) \subseteq Elements(u) \cup Elements(w)
  <2> SUFFICES ASSUME NEW k \in DOMAIN c PROVE c[k] \in Elements(u) \cup Elements(w)
    BY DEF Elements
  <2>1. k \in 1..Len(u) \/ (k - Len(u) \in 1..Len(w) /\ k = Len(u) + (k - Len(u)))
    BY <1>1, <1>2 DEF c
  <2> QED BY <1>1, <1>2, <2>1 DEF c, Elements
<1>4. Elements(u) \subseteq Elements(c)
  BY <1>1, <1>2 DEF c, Elements
<1>5. Elements(w) \subseteq Elements(c)
  <2> SUFFICES ASSUME NEW k \in DOMAIN w PROVE w[k] \in Elements(c)
    BY DEF Elements
  <2>1. Len(u) + k \in DOMAIN c /\ c[Len(u) + k] = w[k]
    BY <1>1, <1>2 DEF c
  <2> QED BY <2>1 DEF Elements
<1> QED BY <1>1, <1>3, <1>4, <1>5 DEF c

LEMMA LastAndRest ==
    ASSUME NEW S, NEW u \in Seq(S), u # <<>>
    PROVE  /\ u[Len(u)] \in S /\ SubSeq(u, 1, Len(u) - 1) \in Seq(S)
           /\ Elements(u) = {u[Len(u)]} \cup Elements(SubSeq(u, 1, Len(u) - 1))
<1> DEFINE n == Len(u)
           w == SubSeq(u, 1, n - 1)
<1>1. n \in Nat \ {0} /\ DOMAIN u = 1..n /\ \A k \in 1..n : u[k] \in S
  OBVIOUS
<1>2. w \in Seq(S) /\ DOMAIN w = 1..(n - 1) /\ \A k \in 1..(n - 1) : w[k] = u[k]
  OBVIOUS
<1> HIDE DEF n, w
<1>3. n \in 1..n /\ \A k \in 1..n : k = n \/ k \in 1..(n - 1)
  BY <1>1
<1>4. \A k \in 1..(n - 1) : k \in 1..n
  BY <1>1
<1>5. Elements(u) = {u[n]} \cup Elements(w)
  BY <1>1, <1>2, <1>3, <1>4 DEF Elements
<1> QED BY <1>1, <1>2, <1>3, <1>5 DEF n, w

-----------------------------------------------------------------------------
\* One query after the other; derive_tags() before the first.
Turns ==
    /\ asked \in Nat
    /\ asked = 0 => mode = "idle" /\ answer = None
    /\ answer # None => mode = "idle"

OnStack == Elements(stack)

\* tag_closure(): what is on the stack and in the result is right; the users of
\* what was seen are on the stack, or in the result and, LINKs, seen.
Closing ==
    /\ root \in Symbols(g) /\ root \in seen
    /\ stack \in Seq(Refs(g))
    /\ OnStack \subseteq RefersTo(root)
    /\ seen \subseteq {n \in Symbols(g) : root \in ChainOfLinks(g, n)}
    /\ found \subseteq Closure(root)
    /\ TagsOf({root}, klasse) \subseteq found
    /\ \A r \in Refs(g) : g.to[r] \in seen =>
          \/ r \in OnStack
          \/ TagsOf({r}, klasse) \subseteq found /\ (r[1] \in LinkNTs(g) => r[1] \in seen)

Closes ==
    /\ mode = "closure" => Closing
    /\ Answered("closure") => Closing /\ stack = <<>> /\ answer.value = found

\* primitive_tags(): those that were found are right, and their own aliases found
\* but for the last round.
Climbing ==
    /\ all_parents \subseteq AliasesOfTerminals
    /\ parents \subseteq all_parents
    /\ Aliases(g.terminals) \subseteq all_parents
    /\ Aliases(all_parents \ parents) \subseteq all_parents

Complete == Climbing /\ Aliases(parents) \subseteq all_parents

\* The map of names, as of now.
NameMap ==
    [t \in {x \in Symbols(g) : coord[x] # None} |->
        [shape |-> coord[t][1] # 2 /\ coord[t][2] \in PrimitiveTags(coord[t][1]),
         klasse |-> coord[t][1], tag |-> coord[t][2]]]

Climbs ==
    /\ WalksAliases => Climbing
    /\ Answered("primitive") => Complete /\ answer.value = PrimitiveTags(klasse)
    /\ Answered("map") => Complete /\ answer.value = NameMap

\* The names of the tags, as of now.
Translates ==
    Answered("translations") =>
        answer.value = [t \in TagsOf(Items(g), klasse) |-> Named(LastTagged(t))]

\* effective_symbol(): the rest of the chain is what its end and the symbol of the
\* reference depend on.
Follows ==
    mode = "effective" \/ ref # None =>
        /\ ref \in Refs(g) /\ s \in Symbols(g)
        /\ EndOfLinks(g, s) = EndOfLinks(g, g.to[ref])
        /\ ref[1] \in ChainOfLinks(g, s) <=> ref[1] \in ChainOfLinks(g, g.to[ref])
        /\ mode # "effective" => W!EndsWalk

\* unreachable_symbols(): what is met is no more than a closed set has; all that the
\* rules of met symbols use is met, but for those still to be read.
Met == Symbols(g) \ unreachable

Walked ==
    /\ unreachable \subseteq Symbols(g)
    /\ todo \subseteq Met
    /\ g.axiom \in Met
    /\ \A S \in SUBSET Symbols(g) : W!ClosedUnderUse(S) => Met \subseteq S
    /\ \A r \in Refs(g) : r[1] \in Met \ todo => g.to[r] \in Met
    /\ mode # "unreachable" => todo = {}

Walks == mode = "unreachable" \/ unreachable # None => Walked

QInv == IInv /\ Turns /\ Closes /\ Climbs /\ Translates /\ Follows /\ Walks

-----------------------------------------------------------------------------
\* What a chain of LINKs is made of, in the grammar that is asked about.
LEMMA LinkRefs ==
    ASSUME IsGrammar(g), NEW r \in Refs(g)
    PROVE  /\ g.to[r] \in Symbols(g) /\ r[1] \in Symbols(g)
           /\ r[1] \in LinkNTs(g) => r = FrontRef(r[1])
BY DEF IsGrammar, LinkNTs, RefsIn, Symbols

LEMMA ParentsFinite ==
    ASSUME IsGrammar(g), NEW t
    PROVE  IsFiniteSet(Parents(g, t)) /\ Parents(g, t) \subseteq Refs(g)
<1>1. Parents(g, t) \in SUBSET Refs(g)
  BY DEF Parents
<1> QED BY <1>1, FS_Subset DEF IsGrammar

\* A LINK that refers to a symbol from whose chain x can be reached, reaches x.
LEMMA ReachesUp ==
    ASSUME IsGrammar(g), NEW r \in Refs(g), r[1] \in LinkNTs(g),
           NEW x \in ChainOfLinks(g, g.to[r])
    PROVE  x \in ChainOfLinks(g, r[1])
<1>1. r = FrontRef(r[1])
  BY LinkRefs
<1>2. ChainOfLinks(g, r[1]) = {r[1]} \cup ChainOfLinks(g, g.to[FrontRef(r[1])])
  BY ChainStep
<1> QED BY <1>1, <1>2

LEMMA SameGraph ==
    ASSUME UNCHANGED <<g, coord>>
    PROVE  /\ Symbols(g)' = Symbols(g) /\ Refs(g)' = Refs(g) /\ LinkNTs(g)' = LinkNTs(g)
           /\ Items(g)' = Items(g)
           /\ \A t : RefersTo(t)' = RefersTo(t)
           /\ \A X, k : TagsOf(X, k)' = TagsOf(X, k)
           /\ \A X : Aliases(X)' = Aliases(X)
           /\ AliasesOfTerminals' = AliasesOfTerminals
BY DEF RefersTo, TagsOf, Aliases, AliasesOfTerminals

\* tag_closure() begins.
LEMMA AskClosureCloses ==
    ASSUME IsGrammar(g), NEW t \in Symbols(g), NEW k, NEW lim, AskClosure(t, k, lim)
    PROVE  Closing'
<1> USE DEF vars
<1>1. /\ root' = t /\ seen' = {t} /\ klasse' = k
      /\ found' = TagsOf({t}, k) /\ stack' = SetToSeq(Parents(g, t))
      /\ UNCHANGED <<g, coord>>
  BY DEF AskClosure, Ask
<1>2. stack' \in Seq(Parents(g, t)) /\ OnStack' = Parents(g, t)
  BY <1>1, ParentsFinite, SetToSeqElements DEF OnStack
<1>3. stack' \in Seq(Refs(g))
  BY <1>2, ParentsFinite
<1>4. t \in ChainOfLinks(g, t)
  BY ChainCloses
<1>5. OnStack' \subseteq RefersTo(t)
  BY <1>2, <1>4 DEF Parents, RefersTo
<1>6. TagsOf({t}, k) \subseteq TagsOf({t} \cup RefersTo(t), k)
  BY DEF TagsOf
<1>7. \A r \in Refs(g) : g.to[r] = t => r \in OnStack'
  BY <1>2 DEF Parents
<1> QED BY <1>1, <1>3, <1>4, <1>5, <1>6, <1>7, SameGraph DEF Closing, Closure

\* And goes on.
LEMMA PopReferenceCloses ==
    ASSUME IsGrammar(g), Closing, PopReference
    PROVE  Closing'
<1> DEFINE q == stack[Len(stack)]
           nt == q[1]
           up == nt \in LinkNTs(g) \ seen
           rest == SubSeq(stack, 1, Len(stack) - 1)
           more == IF up THEN SetToSeq(Parents(g, nt)) ELSE <<>>
<1> USE DEF vars
<1>1. /\ stack # <<>> /\ UNCHANGED <<g, coord, root, klasse>>
      /\ found' = found \cup TagsOf({q}, klasse)
      /\ stack' = rest \o more
      /\ seen' = IF up THEN seen \cup {nt} ELSE seen
  BY DEF PopReference
<1>2. q \in Refs(g) /\ q \in OnStack /\ rest \in Seq(Refs(g))
      /\ OnStack = {q} \cup Elements(rest)
  BY <1>1, LastAndRest DEF Closing, OnStack
<1>3. more \in Seq(Refs(g)) /\ Elements(more) = IF up THEN Parents(g, nt) ELSE {}
  BY ParentsFinite, SetToSeqElements DEF Elements
<1>4. stack' \in Seq(Refs(g)) /\ OnStack' = Elements(rest) \cup Elements(more)
  <2> HIDE DEF rest, more, up, q, nt
  <2>1. rest \o more \in Seq(Refs(g))
        /\ Elements(rest \o more) = Elements(rest) \cup Elements(more)
    BY <1>2, <1>3, ElementsOfConcat
  <2> QED BY <1>1, <2>1 DEF OnStack
<1>5. q \in RefersTo(root) /\ (nt \in LinkNTs(g) => root \in ChainOfLinks(g, nt))
  BY <1>2, ReachesUp DEF Closing, RefersTo
<1>6. up => Parents(g, nt) \subseteq RefersTo(root)
  BY <1>5, ParentsFinite DEF Parents, RefersTo
<1>7. OnStack' \subseteq RefersTo(root)
  BY <1>2, <1>3, <1>4, <1>6 DEF Closing
<1>8. seen' \subseteq {n \in Symbols(g) : root \in ChainOfLinks(g, n)}
  BY <1>1, <1>5, FiniteSymbols DEF Closing
<1>9. found' \subseteq Closure(root)
  BY <1>1, <1>5 DEF Closing, Closure, TagsOf
<1>10. ASSUME NEW r \in Refs(g), g.to[r] \in seen'
       PROVE  \/ r \in OnStack'
              \/ TagsOf({r}, klasse) \subseteq found' /\ (r[1] \in LinkNTs(g) => r[1] \in seen')
  <2>1. CASE g.to[r] \in seen
    <3>1. CASE r = q
      BY <1>1, <3>1
    <3>2. CASE r # q
      BY <1>1, <1>2, <1>4, <2>1, <3>2 DEF Closing
    <3> QED BY <3>1, <3>2
  <2>2. CASE g.to[r] \notin seen
    BY <1>1, <1>3, <1>4, <1>10, <2>2 DEF Parents
  <2> QED BY <2>1, <2>2
<1> HIDE DEF q, nt, up, rest, more
<1>11. /\ root \in Symbols(g) /\ root \in seen' /\ TagsOf({root}, klasse) \subseteq found'
  BY <1>1 DEF Closing
<1> QED BY <1>1, <1>4, <1>7, <1>8, <1>9, <1>10, <1>11, SameGraph DEF Closing, Closure

\* The steps of the other queries: none of them is in the middle of this one, or
\* answers it.
Others(query) ==
    /\ mode' # query /\ (Answered(query))' = FALSE
    /\ UNCHANGED vars

\* The steps, but for those of derive_tags(), by the query they belong to.
ClosureStep ==
    \/ \E t \in Symbols(g), k \in Klasses, lim \in ClosureLimits : AskClosure(t, k, lim)
    \/ PopReference
    \/ AnswerClosure
PrimitiveStep ==
    \/ \E k \in Klasses : AskPrimitive("primitive", k)
    \/ AskPrimitive("map", None)
    \/ NextRound
    \/ AnswerPrimitive \/ AnswerMap
TranslationStep ==
    \/ \E k \in Klasses : AskTranslations(k)
    \/ AnswerTranslations
WalkQuery ==
    \/ AskWalk(W!AskUnreachable)
    \/ \E r \in Refs(g) : AskWalk(W!AskEffective(r))
    \/ WalkStep

LEMMA Steps ==
    QNext <=> \/ (DeriveStep \/ ClosureStep \/ PrimitiveStep \/ TranslationStep)
                    /\ UNCHANGED walkVars
              \/ WalkQuery
BY DEF QNext, TagNext, ClosureStep, PrimitiveStep, TranslationStep, WalkQuery

LEMMA ClosureMode ==
    ASSUME Turns, ClosureStep
    PROVE  /\ Others("primitive") /\ Others("map") /\ Others("translations")
           /\ mode \notin {"effective", "unreachable"} /\ mode' \notin {"effective", "unreachable"}
           /\ Turns'
<1>1. CASE \E t \in Symbols(g), k \in Klasses, lim \in ClosureLimits : AskClosure(t, k, lim)
  BY <1>1 DEF Turns, AskClosure, Ask, Others, Answered
<1>2. CASE PopReference
  BY <1>2 DEF Turns, PopReference, Others, Answered
<1>3. CASE AnswerClosure
  BY <1>3 DEF Turns, AnswerClosure, Return, Others, Answered
<1> QED BY <1>1, <1>2, <1>3 DEF ClosureStep

LEMMA PrimitiveMode ==
    ASSUME Turns, PrimitiveStep
    PROVE  /\ Others("closure") /\ Others("translations")
           /\ mode \notin {"effective", "unreachable"} /\ mode' \notin {"effective", "unreachable"}
           /\ Turns'
BY DEF Turns, PrimitiveStep, AskPrimitive, NextRound, AnswerPrimitive, AnswerMap, Ask,
       Return, WalksAliases, Others, Answered

LEMMA TranslationMode ==
    ASSUME Turns, TranslationStep
    PROVE  /\ Others("closure") /\ Others("primitive") /\ Others("map")
           /\ mode \notin {"effective", "unreachable"} /\ mode' \notin {"effective", "unreachable"}
           /\ Turns'
BY DEF Turns, TranslationStep, AskTranslations, AnswerTranslations, Ask, Return, Others,
       Answered

LEMMA WalkMode ==
    ASSUME Turns, WalkQuery
    PROVE  /\ Others("closure") /\ Others("primitive") /\ Others("map")
           /\ Others("translations")
           /\ Turns'
<1>1. CASE AskWalk(W!AskUnreachable) \/ \E r \in Refs(g) : AskWalk(W!AskEffective(r))
  BY <1>1 DEF Turns, AskWalk, W!AskUnreachable, W!AskEffective, Others, Answered
<1>2. CASE WalkStep
  BY <1>2 DEF Turns, WalkStep, StepWalk, W!Pop, W!ReturnUnreachable, W!Follow,
       W!ReturnEffective, W!walkVars, Others, Answered
<1> QED BY <1>1, <1>2 DEF WalkQuery

LEMMA DeriveMode ==
    ASSUME Turns, DeriveStep
    PROVE  /\ mode = "idle" /\ answer = None /\ UNCHANGED tagVars /\ g' = g
           /\ Turns'
BY DEF Turns, DeriveStep, Next, Visit, EndPass, tagVars

-----------------------------------------------------------------------------
LEMMA ClosesNext ==
    ASSUME QInv, [QNext]_queryVars
    PROVE  Closes'
<1>1. IsGrammar(g) /\ Turns /\ Closes
  BY DEF QInv, IInv, TypeOK
<1>2. CASE DeriveStep
  BY <1>1, <1>2, DeriveMode DEF Closes, tagVars, Answered
<1>3. CASE PrimitiveStep \/ TranslationStep \/ WalkQuery
  BY <1>1, <1>3, PrimitiveMode, TranslationMode, WalkMode DEF Closes, Others
<1>4. CASE ClosureStep
  <2>1. CASE \E t \in Symbols(g), k \in Klasses, lim \in ClosureLimits :
                AskClosure(t, k, lim)
    <3>1. Closing' /\ (Answered("closure"))' = FALSE
      BY <1>1, <2>1, AskClosureCloses DEF AskClosure, Ask, Answered
    <3> QED BY <3>1 DEF Closes
  <2>2. CASE PopReference
    <3>1. Closing' /\ (Answered("closure"))' = FALSE
      BY <1>1, <2>2, PopReferenceCloses DEF PopReference, Closes, Turns, Answered
    <3> QED BY <3>1 DEF Closes
  <2>3. CASE AnswerClosure
    <3>1. /\ Closing /\ stack = <<>> /\ UNCHANGED <<vars, closureVars, klasse>>
          /\ mode' = "idle" /\ answer' = [query |-> "closure", value |-> found]
      BY <1>1, <2>3 DEF AnswerClosure, Return, Closes
    <3>2. UNCHANGED <<g, coord, root, stack, seen, found, klasse>>
      BY <3>1 DEF vars, closureVars
    <3>3. Closing'
      BY ZenonT(40), <3>1, <3>2, SameGraph DEF Closing, Closure, OnStack
    <3> QED BY <3>1, <3>2, <3>3 DEF Closes
  <2> QED BY <1>4, <2>1, <2>2, <2>3 DEF ClosureStep
<1>5. CASE UNCHANGED queryVars
  <2>1. UNCHANGED <<g, coord, root, stack, seen, found, klasse, mode, answer>>
    BY <1>5 DEF queryVars, vars, tagVars, closureVars
  <2>2. Closing => Closing'
    BY <2>1, SameGraph DEF Closing, Closure, OnStack
  <2> QED BY <1>1, <2>1, <2>2 DEF Closes, Answered
<1> QED BY <1>2, <1>3, <1>4, <1>5, Steps

LEMMA ClosureRight == QInv => ClosureCorrect
<1> SUFFICES ASSUME QInv, Answered("closure") PROVE answer.value = Closure(root)
  BY DEF ClosureCorrect
<1>1. IsGrammar(g) /\ Closing /\ stack = <<>> /\ answer.value = found
  BY DEF QInv, IInv, TypeOK, Closes
<1>2. ASSUME NEW r \in RefersTo(root) PROVE TagsOf({r}, klasse) \subseteq found
  <2> DEFINE X == Symbols(g) \ seen
  <2>1. OnStack = {}
    BY <1>1 DEF OnStack, Elements
  <2>2. \A n \in LinkNTs(g) \cap X : g.to[FrontRef(n)] \in X
    <3> TAKE n \in LinkNTs(g) \cap X
    <3>1. FrontRef(n) \in Refs(g) /\ FrontRef(n)[1] = n /\ g.to[FrontRef(n)] \in Symbols(g)
      BY <1>1, FiniteSymbols DEF FrontRef
    <3> QED BY <1>1, <2>1, <3>1 DEF Closing
  <2>3. g.to[r] \in Symbols(g) /\ root \in ChainOfLinks(g, g.to[r]) /\ r \in Refs(g)
    BY <1>1, LinkRefs DEF RefersTo
  <2>4. g.to[r] \in seen
    <3> SUFFICES ASSUME g.to[r] \in X PROVE FALSE
      BY <2>3
    <3>1. root \notin X
      BY <1>1 DEF Closing
    <3> HIDE DEF X
    <3>2. ChainOfLinks(g, g.to[r]) \subseteq X
      BY <1>1, <2>2, <2>3, ChainLeast
    <3> QED BY <2>3, <3>1, <3>2
  <2> QED BY <1>1, <2>1, <2>3, <2>4 DEF Closing
<1>3. Closure(root) \subseteq found
  <2> SUFFICES ASSUME NEW t \in Closure(root) PROVE t \in found
    OBVIOUS
  <2>1. PICK x \in {root} \cup RefersTo(root) : t \in TagsOf({x}, klasse)
    BY DEF Closure, TagsOf
  <2> QED BY <1>1, <1>2, <2>1 DEF Closing
<1> QED BY <1>1, <1>3 DEF Closing

-----------------------------------------------------------------------------
LEMMA AliasesOfUnion ==
    ASSUME NEW X, NEW Y
    PROVE  Aliases(X \cup Y) = Aliases(X) \cup Aliases(Y) /\ Aliases({}) = {}
BY DEF Aliases

\* The aliases of terminals and of their aliases are aliases of terminals.
LEMMA AliasesRight ==
    ASSUME IsGrammar(g), NEW X, X \subseteq g.terminals \cup AliasesOfTerminals
    PROVE  Aliases(X) \subseteq AliasesOfTerminals
<1> SUFFICES ASSUME NEW r \in Refs(g), g.to[r] \in X, r[1] \in LinkNTs(g)
             PROVE  r[1] \in AliasesOfTerminals
  BY DEF Aliases
<1>1. r = FrontRef(r[1]) /\ g.to[r] \in Symbols(g) /\ r[1] \in Symbols(g)
  BY LinkRefs
<1>2. EndOfLinks(g, g.to[r]) \in g.terminals
  <2>1. CASE g.to[r] \in g.terminals
    <3>1. g.to[r] \notin LinkNTs(g)
      BY <2>1 DEF IsGrammar, LinkNTs
    <3> QED BY <1>1, <2>1, <3>1, EndSolves
  <2>2. CASE g.to[r] \in AliasesOfTerminals
    BY <2>2 DEF AliasesOfTerminals
  <2> QED BY <2>1, <2>2
<1>3. EndOfLinks(g, r[1]) = EndOfLinks(g, g.to[FrontRef(r[1])])
  BY <1>1, EndSolves
<1>4. EndOfLinks(g, r[1]) = EndOfLinks(g, g.to[r])
  BY <1>1, <1>3
<1> QED BY <1>2, <1>4 DEF AliasesOfTerminals

LEMMA ClimbsNext ==
    ASSUME QInv, [QNext]_queryVars
    PROVE  Climbs'
<1>1. IsGrammar(g) /\ Turns /\ Climbs
  BY DEF QInv, IInv, TypeOK
<1>2. CASE DeriveStep
  BY <1>1, <1>2, DeriveMode DEF Climbs, WalksAliases, tagVars, Answered
<1>3. CASE ClosureStep \/ TranslationStep \/ WalkQuery
  BY <1>1, <1>3, ClosureMode, TranslationMode, WalkMode DEF Climbs, WalksAliases, Others
<1>4. CASE PrimitiveStep
  <2>0. UNCHANGED <<g, coord>>
    BY <1>1, <1>4, PrimitiveMode DEF Others, vars
  <2>1. CASE (\E k \in Klasses : AskPrimitive("primitive", k)) \/ AskPrimitive("map", None)
    <3>1. /\ parents' = Aliases(g.terminals) /\ all_parents' = parents' /\ answer' = None
      BY <2>1 DEF AskPrimitive, Ask
    <3>2. all_parents' \subseteq AliasesOfTerminals
      BY <1>1, <3>1, AliasesRight
    <3>3. Aliases(all_parents' \ parents') = {}
      BY <3>1, AliasesOfUnion
    <3>4. Climbing'
      BY <2>0, <3>1, <3>2, <3>3, SameGraph DEF Climbing
    <3> QED BY <3>1, <3>4 DEF Climbs, Answered
  <2>2. CASE NextRound
    <3> DEFINE new == Aliases(parents) \ all_parents
    <3>1. /\ Climbing /\ answer' = None
          /\ parents' = new /\ all_parents' = all_parents \cup new
      BY <1>1, <2>2 DEF NextRound, WalksAliases, Climbs, Turns
    <3>2. Aliases(parents) \subseteq AliasesOfTerminals
      BY <1>1, <3>1, AliasesRight DEF Climbing
    <3>3. Aliases(all_parents) = Aliases(all_parents \ parents) \cup Aliases(parents)
      <4>1. all_parents = (all_parents \ parents) \cup parents
        BY <3>1 DEF Climbing
      <4> QED BY <4>1, AliasesOfUnion
    <3>4. all_parents' \ parents' = all_parents /\ Aliases(all_parents) \subseteq all_parents'
      BY <3>1, <3>3 DEF Climbing
    <3>5. Climbing'
      BY <2>0, <3>1, <3>2, <3>4, SameGraph DEF Climbing
    <3> QED BY <3>1, <3>5 DEF Climbs, Answered
  <2>3. CASE AnswerPrimitive \/ AnswerMap
    <3>1. /\ Climbing /\ UNCHANGED <<parents, all_parents, klasse>> /\ mode' = "idle"
          /\ Aliases(parents) \subseteq all_parents
      BY <1>1, <2>3 DEF AnswerPrimitive, AnswerMap, Return, WalksAliases, Climbs, primVars
    <3>2. Complete'
      BY <2>0, <3>1, SameGraph DEF Climbing, Complete
    <3>3. \A k : PrimitiveTags(k)' = PrimitiveTags(k)
      BY <2>0, <3>1 DEF PrimitiveTags
    <3>4. CASE AnswerPrimitive
      <4>1. answer' = [query |-> "primitive", value |-> PrimitiveTags(klasse)]
        BY <3>4 DEF AnswerPrimitive, Return
      <4> QED BY <3>1, <3>2, <3>3, <4>1 DEF Climbs, Answered, WalksAliases
    <3>5. CASE AnswerMap
      <4>1. answer' = [query |-> "map", value |-> NameMap]
        BY <3>5 DEF AnswerMap, Return, NameMap
      <4>2. NameMap' = NameMap
        BY <2>0, <3>3, SameGraph DEF NameMap
      <4> QED BY <3>1, <3>2, <4>1, <4>2 DEF Climbs, Answered, WalksAliases
    <3> QED BY <2>3, <3>4, <3>5
  <2> QED BY <1>4, <2>1, <2>2, <2>3 DEF PrimitiveStep
<1>5. CASE UNCHANGED queryVars
  <2>1. UNCHANGED <<g, coord, parents, all_parents, klasse, mode, answer>>
    BY <1>5 DEF queryVars, vars, tagVars, primVars
  <2>2. (Climbing => Climbing') /\ (Complete => Complete')
    BY <2>1, SameGraph DEF Climbing, Complete
  <2>3. \A k : PrimitiveTags(k)' = PrimitiveTags(k)
    BY <2>1 DEF PrimitiveTags
  <2>4. NameMap' = NameMap
    BY <2>1, <2>3, SameGraph DEF NameMap
  <2> QED BY <1>1, <2>1, <2>2, <2>3, <2>4 DEF Climbs, Answered, WalksAliases
<1> QED BY <1>2, <1>3, <1>4, <1>5, Steps

\* Who was found when the rounds end.
LEMMA CompleteExact ==
    ASSUME IsGrammar(g), Complete
    PROVE  all_parents = AliasesOfTerminals
<1> DEFINE X == g.terminals \cup all_parents
<1>1. Aliases(all_parents) \subseteq all_parents
  <2>1. all_parents = (all_parents \ parents) \cup parents
    BY DEF Complete, Climbing
  <2> QED BY <2>1, AliasesOfUnion DEF Complete, Climbing
<1>2. \A n \in LinkNTs(g) : g.to[FrontRef(n)] \in X => n \in X
  <2> SUFFICES ASSUME NEW n \in LinkNTs(g), g.to[FrontRef(n)] \in X PROVE n \in X
    OBVIOUS
  <2>1. FrontRef(n) \in Refs(g) /\ FrontRef(n)[1] = n
    BY FiniteSymbols DEF FrontRef
  <2>2. n \in Aliases(X)
    BY <2>1 DEF Aliases
  <2>3. Aliases(X) \subseteq all_parents
    BY <1>1, AliasesOfUnion DEF Complete, Climbing
  <2> QED BY <2>2, <2>3
<1>3. ASSUME NEW n \in AliasesOfTerminals PROVE n \in all_parents
  <2>1. n \in Symbols(g) /\ n \notin g.terminals /\ EndOfLinks(g, n) \in g.terminals
    BY DEF AliasesOfTerminals, LinkNTs, IsGrammar, Symbols
  <2>2. g.terminals \subseteq X /\ None \notin g.terminals
    BY FiniteSymbols DEF Symbols
  <2> HIDE DEF X
  <2>3. n \in X
    BY <1>2, <2>1, <2>2, EndLeast
  <2> QED BY <2>1, <2>3 DEF X
<1> QED BY <1>3 DEF Complete, Climbing

\* After derive_tags() the aliases of terminals with tags have tags.
LEMMA AliasesTagged ==
    ASSUME IsGrammar(g), Solution(g, coord), \A t \in g.terminals : g.tag[t] # None,
           NEW n \in AliasesOfTerminals
    PROVE  coord[n] # None
<1> DEFINE X == {t \in Symbols(g) : coord[t] # None}
<1>1. g.terminals \subseteq X
  BY DEF Solution, Symbols, Items
<1>2. ASSUME NEW m \in LinkNTs(g), g.to[FrontRef(m)] \in X PROVE m \in X
  <2>1. /\ FrontRef(m) \in Refs(g) /\ FrontRef(m) \in Items(g)
        /\ m \in Symbols(g) /\ m \in Items(g) /\ m \notin Refs(g) /\ m \notin g.terminals
        /\ g.type[m] = "LINK"
    BY FiniteSymbols DEF Items, LinkNTs, IsGrammar
  <2>2. coord[FrontRef(m)] # None
    BY <1>2, <2>1 DEF Solution, Derive
  <2>3. coord[m] # None
    BY <2>1, <2>2 DEF Solution, Derive
  <2> QED BY <2>1, <2>3
<1>3. n \in Symbols(g) /\ EndOfLinks(g, n) \in g.terminals /\ None \notin g.terminals
  BY FiniteSymbols DEF AliasesOfTerminals, LinkNTs, Symbols
<1>4. n \in X
  <2> HIDE DEF X
  <2> QED BY <1>1, <1>2, <1>3, EndLeast
<1> QED BY <1>4

LEMMA PrimitivesRight == QInv => PrimitivesFound
<1> SUFFICES ASSUME QInv, Answered("primitive") PROVE
             /\ all_parents = AliasesOfTerminals
             /\ pc = "done" /\ (\A t \in g.terminals : g.tag[t] # None) =>
                   answer.value = TagsOf(all_parents, klasse)
  BY DEF PrimitivesFound
<1>1. IsGrammar(g) /\ IInv /\ Complete /\ answer.value = PrimitiveTags(klasse)
  BY DEF QInv, IInv, TypeOK, Climbs
<1>2. all_parents = AliasesOfTerminals
  BY <1>1, CompleteExact
<1>3. ASSUME pc = "done", \A t \in g.terminals : g.tag[t] # None
      PROVE  answer.value = TagsOf(all_parents, klasse)
  <2>1. \A n \in all_parents : coord[n] # None
    BY <1>1, <1>2, <1>3, IInvSettles, AliasesTagged DEF Settled
  <2> QED BY <1>1, <2>1 DEF PrimitiveTags, TagsOf
<1> QED BY <1>2, <1>3

LEMMA NameMapRight == QInv => NameMapCorrect
<1> SUFFICES ASSUME QInv, Answered("map") PROVE NameMapCorrect
  BY DEF NameMapCorrect
<1> DEFINE v == answer.value
<1>1. /\ IsGrammar(g) /\ IInv /\ all_parents = AliasesOfTerminals /\ v = NameMap
      /\ coord \in [Items(g) -> Coord]
  BY CompleteExact DEF QInv, IInv, TypeOK, Climbs, Coord
<1> HIDE DEF v
<1>2. DOMAIN v = {x \in Symbols(g) : coord[x] # None}
  BY <1>1 DEF NameMap
<1>3. ASSUME NEW x \in DOMAIN v
      PROVE  /\ <<v[x].klasse, v[x].tag>> = coord[x]
             /\ v[x].shape <=> v[x].klasse # 2 /\ v[x].tag \in PrimitiveTags(v[x].klasse)
  <2>1. /\ v[x].klasse = coord[x][1] /\ v[x].tag = coord[x][2]
        /\ v[x].shape <=> coord[x][1] # 2 /\ coord[x][2] \in PrimitiveTags(coord[x][1])
    BY <1>1, <1>2, <1>3 DEF NameMap
  <2>2. coord[x] \in {0, 1, 2, 3} \X Nat
    BY <1>1, <1>2, <1>3 DEF Coord, Coords, Items
  <2> QED BY <2>1, <2>2
<1>4. ASSUME NEW n \in DOMAIN v \cap AliasesOfTerminals
      PROVE  v[n].shape = (v[n].klasse # 2)
  <2>1. coord[n] # None /\ n \in all_parents /\ coord[n] = <<v[n].klasse, v[n].tag>>
    BY <1>1, <1>2, <1>3, <1>4
  <2>2. v[n].tag \in PrimitiveTags(v[n].klasse)
    BY <2>1 DEF PrimitiveTags
  <2>3. v[n].shape \in BOOLEAN
    BY <1>1, <1>2, <1>4 DEF NameMap
  <2> QED BY <1>3, <1>4, <2>2, <2>3
<1>5. ASSUME pc = "done", \A t \in g.terminals : g.tag[t] # None,
             NEW x \in DOMAIN v, v[x].shape
      PROVE  \E n \in DOMAIN v \cap AliasesOfTerminals :
                v[n].klasse = v[x].klasse /\ v[n].tag = v[x].tag
  <2>1. PICK n \in all_parents : LET at == IF coord[n] = None THEN <<0, 0>> ELSE coord[n]
                                 IN  at[1] = v[x].klasse /\ at[2] = v[x].tag
    BY <1>3, <1>5 DEF PrimitiveTags
  <2>2. coord[n] # None /\ n \in Symbols(g)
    BY <1>1, <1>5, IInvSettles, AliasesTagged DEF Settled, AliasesOfTerminals, LinkNTs,
       Symbols
  <2>3. n \in DOMAIN v \cap AliasesOfTerminals
    BY <1>1, <1>2, <2>2
  <2> QED BY <1>3, <2>1, <2>2, <2>3
<1> QED BY <1>2, <1>3, <1>4, <1>5 DEF NameMapCorrect, v

-----------------------------------------------------------------------------
LEMMA TranslatesNext ==
    ASSUME QInv, [QNext]_queryVars
    PROVE  Translates'
<1>1. Turns /\ Translates
  BY DEF QInv
<1>2. CASE DeriveStep
  BY <1>1, <1>2, DeriveMode DEF Translates, tagVars, Answered
<1>3. CASE ClosureStep \/ PrimitiveStep \/ WalkQuery
  <2>1. (Answered("translations"))' = FALSE
    BY <1>1, <1>3, ClosureMode, PrimitiveMode, WalkMode DEF Others
  <2> QED BY <2>1 DEF Translates
<1>4. ASSUME UNCHANGED <<g, coord, klasse>>
      PROVE  [t \in TagsOf(Items(g), klasse) |-> Named(LastTagged(t))]'
                = [t \in TagsOf(Items(g), klasse) |-> Named(LastTagged(t))]
  BY <1>4 DEF TagsOf, Named, LastTagged, Tagged, Before
<1>5. CASE TranslationStep
  <2>1. CASE \E k \in Klasses : AskTranslations(k)
    BY <2>1 DEF AskTranslations, Ask, Translates, Answered
  <2>2. CASE AnswerTranslations
    <3>1. /\ UNCHANGED <<g, coord, klasse>>
          /\ answer'.value = [t \in TagsOf(Items(g), klasse) |-> Named(LastTagged(t))]
      BY <2>2 DEF AnswerTranslations, Return, vars
    <3> QED BY <1>4, <3>1 DEF Translates
  <2> QED BY <1>5, <2>1, <2>2 DEF TranslationStep
<1>6. CASE UNCHANGED queryVars
  <2>1. UNCHANGED <<g, coord, klasse, answer>>
    BY <1>6 DEF queryVars, vars, tagVars
  <2> QED BY <1>1, <1>4, <2>1 DEF Translates, Answered
<1> QED BY <1>2, <1>3, <1>5, <1>6, Steps

\* Where for_each_tag_translation() comes to x.
Place(x) == IF x \in g.terminals THEN Len(g.order) + 1
            ELSE CHOOSE k \in DOMAIN g.order :
                    g.order[k] = IF x \in Refs(g) THEN x[1] ELSE x
Within(x) == IF x \in Refs(g) THEN x[2] ELSE 0

LEMMA Places ==
    ASSUME IsGrammar(g)
    PROVE  /\ Len(g.order) \in Nat
           /\ \A x \in Items(g) :
                 /\ Place(x) \in 1..(Len(g.order) + 1) /\ Within(x) \in Nat
                 /\ Place(x) = Len(g.order) + 1 <=> x \in g.terminals
           /\ \A x, y : Before(x, y) <=> \/ Place(x) < Place(y)
                                         \/ Place(x) = Place(y) /\ Within(x) < Within(y)
<1>1. Len(g.order) \in Nat /\ DOMAIN g.order = 1..Len(g.order)
  BY DEF IsGrammar
<1>2. ASSUME NEW x \in Items(g)
      PROVE  /\ Place(x) \in 1..(Len(g.order) + 1) /\ Within(x) \in Nat
             /\ Place(x) = Len(g.order) + 1 <=> x \in g.terminals
  <2> DEFINE n == IF x \in Refs(g) THEN x[1] ELSE x
  <2>1. Within(x) \in Nat
    BY DEF Within, IsGrammar
  <2>2. CASE x \in g.terminals
    BY <1>1, <2>1, <2>2 DEF Place
  <2>3. CASE x \notin g.terminals
    <3>1. n \in NTs(g)
      BY <2>3 DEF IsGrammar, Items, Symbols
    <3>2. \E k \in DOMAIN g.order : g.order[k] = n
      BY <3>1 DEF NTs
    <3>3. Place(x) \in DOMAIN g.order
      BY <2>3, <3>2 DEF Place
    <3> QED BY <1>1, <2>1, <2>3, <3>3
  <2> QED BY <2>2, <2>3
<1>3. \A x, y : Before(x, y) <=> \/ Place(x) < Place(y)
                                 \/ Place(x) = Place(y) /\ Within(x) < Within(y)
  BY DEF Before, Place, Within
<1> QED BY <1>1, <1>2, <1>3

\* Each tag in use was found last somewhere.
LEMMA LastTaggedExists ==
    ASSUME IsGrammar(g), NEW t \in TagsOf(Items(g), klasse)
    PROVE  /\ LastTagged(t) \in Tagged(t)
           /\ \A y \in Tagged(t) : ~Before(LastTagged(t), y)
<1> DEFINE S == Tagged(t)
           R == {p \in Items(g) \X Items(g) : Before(p[1], p[2])}
<1>1. S \in SUBSET Items(g) /\ S # {}
  BY DEF Tagged, TagsOf
<1>2. IsFiniteSet(S)
  BY <1>1, FiniteGrammar, FS_Subset
<1>3. \A x, y \in S : <<x, y>> \in R <=> Before(x, y)
  BY <1>1
<1>4. /\ \A x \in S : ~Before(x, x)
      /\ \A x, y, z \in S : Before(x, y) /\ Before(y, z) => Before(x, z)
  <2>1. \A x \in S : Place(x) \in Int /\ Within(x) \in Int
    BY <1>1, Places
  <2> HIDE DEF S
  <2> QED BY <2>1, Places
<1>5. \E x \in S : \A y \in S : <<x, y>> \notin R
  <2> HIDE DEF S, R
  <2> QED BY <1>1, <1>2, <1>3, <1>4, Maximal
<1>6. \E x \in S : \A y \in S : ~Before(x, y)
  BY <1>3, <1>5
<1> QED BY <1>6 DEF LastTagged

LEMMA TranslationsRight == QInv => TranslationsInClosure
<1> SUFFICES ASSUME QInv, Answered("translations") PROVE TranslationsInClosure
  BY DEF TranslationsInClosure
<1> DEFINE v == answer.value
<1>1. /\ IsGrammar(g)
      /\ v = [t \in TagsOf(Items(g), klasse) |-> Named(LastTagged(t))]
  BY DEF QInv, IInv, TypeOK, Translates
<1> HIDE DEF v
<1>2. ASSUME NEW t \in TagsOf(Items(g), klasse) PROVE t \in Closure(v[t])
  <2> DEFINE x == LastTagged(t)
  <2>1. x \in Items(g) /\ t \in TagsOf({x}, klasse) /\ v[t] = Named(x)
    BY <1>1, <1>2, LastTaggedExists DEF Tagged
  <2> HIDE DEF x
  <2>2. x \in {Named(x)} \cup RefersTo(Named(x))
    <3>1. CASE x \in Refs(g)
      <4>1. g.to[x] \in ChainOfLinks(g, g.to[x])
        BY <1>1, <3>1, LinkRefs, ChainCloses
      <4> QED BY <3>1, <4>1 DEF Named, RefersTo
    <3>2. CASE x \notin Refs(g)
      BY <3>2 DEF Named
    <3> QED BY <3>1, <3>2
  <2> QED BY <2>1, <2>2 DEF Closure, TagsOf
<1>3. ASSUME NEW t \in TagsOf(g.terminals, klasse) PROVE v[t] \in g.terminals
  <2> DEFINE x == LastTagged(t)
  <2>1. PICK y \in g.terminals : t \in TagsOf({y}, klasse)
    BY <1>3 DEF TagsOf
  <2>2. y \in Items(g) /\ y \in Tagged(t) /\ t \in TagsOf(Items(g), klasse)
    BY <2>1 DEF Tagged, Items, Symbols, TagsOf
  <2>3. x \in Items(g) /\ ~Before(x, y) /\ v[t] = Named(x)
    BY <1>1, <2>2, LastTaggedExists DEF Tagged
  <2> HIDE DEF x
  <2>4. x \in g.terminals
    BY <1>1, <2>1, <2>2, <2>3, Places
  <2>5. x \notin Refs(g)
    BY <1>1, <2>4 DEF IsGrammar, Symbols
  <2> QED BY <2>3, <2>4, <2>5 DEF Named
<1>4. DOMAIN v = TagsOf(Items(g), klasse)
  BY <1>1
<1> QED BY <1>2, <1>3, <1>4 DEF TranslationsInClosure, v

-----------------------------------------------------------------------------
LEMMA SameLinks ==
    /\ W!LinkNTs(g) = LinkNTs(g)
    /\ \A n : W!FrontRef(n) = FrontRef(n)
BY DEF W!LinkNTs, LinkNTs, W!NTs, NTs, W!FrontRef, FrontRef

LEMMA FollowsNext ==
    ASSUME QInv, [QNext]_queryVars
    PROVE  Follows'
<1>1. IsGrammar(g) /\ Turns /\ Follows
  BY DEF QInv, IInv, TypeOK
<1>2. ASSUME UNCHANGED <<g, ref, s>>, mode # "effective" => mode' # "effective",
             mode = "effective" /\ mode' # "effective" => W!EndsWalk
      PROVE  Follows'
  <2>1. W!EndsWalk' = W!EndsWalk
    BY <1>2 DEF W!EndsWalk, W!LinkNTs, W!NTs
  <2> QED BY <1>1, <1>2, <2>1 DEF Follows
<1>3. CASE (DeriveStep \/ ClosureStep \/ PrimitiveStep \/ TranslationStep) /\ UNCHANGED walkVars
  <2>1. UNCHANGED <<g, ref, s>> /\ mode' # "effective" /\ mode # "effective"
    BY <1>1, <1>3, DeriveMode, ClosureMode, PrimitiveMode, TranslationMode
       DEF walkVars, tagVars, Others, vars
  <2> QED BY <1>2, <2>1
<1>4. CASE AskWalk(W!AskUnreachable)
  <2>1. UNCHANGED <<g, ref, s>> /\ mode' # "effective" /\ mode # "effective"
    BY <1>4 DEF AskWalk, W!AskUnreachable, vars
  <2> QED BY <1>2, <2>1
<1>5. CASE \E r \in Refs(g) : AskWalk(W!AskEffective(r))
  <2>1. PICK r \in Refs(g) : AskWalk(W!AskEffective(r))
    BY <1>5
  <2>2. g' = g /\ mode' = "effective" /\ ref' = r /\ s' = g.to[r]
    BY <2>1 DEF AskWalk, W!AskEffective, vars
  <2>3. g.to[r] \in Symbols(g)
    BY <1>1, LinkRefs
  <2> QED BY <2>2, <2>3 DEF Follows
<1>6. CASE WalkStep
  <2>0. g' = g
    BY <1>6 DEF WalkStep, StepWalk, vars
  <2>1. CASE \/ \E t \in Symbols(g) : StepWalk(W!Pop(t))
             \/ StepWalk(W!ReturnUnreachable) \/ StepWalk(W!ReturnEffective)
    <3>1. /\ UNCHANGED <<ref, s>> /\ (mode # "effective" => mode' # "effective")
          /\ mode = "effective" /\ mode' # "effective" => W!EndsWalk
      BY <2>1 DEF StepWalk, W!Pop, W!ReturnUnreachable, W!ReturnEffective, W!walkVars
    <3> QED BY <1>2, <2>0, <3>1
  <2>2. CASE StepWalk(W!Follow)
    <3>1. /\ mode = "effective" /\ mode' = mode /\ ref' = ref
          /\ s \in LinkNTs(g) /\ s # ref[1] /\ s' = g.to[FrontRef(s)]
      BY <2>2, SameLinks DEF StepWalk, W!Follow, W!EndsWalk
    <3>2. s \in Symbols(g) /\ s' \in Symbols(g)
      BY <1>1, <3>1, FiniteSymbols
    <3>3. EndOfLinks(g, s) = EndOfLinks(g, s')
      BY <1>1, <3>1, <3>2, EndSolves
    <3>4. ChainOfLinks(g, s) = {s} \cup ChainOfLinks(g, s')
      BY <1>1, <3>1, ChainStep
    <3> QED BY <1>1, <2>0, <3>1, <3>2, <3>3, <3>4 DEF Follows
  <2> QED BY <1>6, <2>1, <2>2 DEF WalkStep
<1>7. CASE UNCHANGED queryVars
  <2>1. UNCHANGED <<g, ref, s, mode>>
    BY <1>7 DEF queryVars, vars, tagVars, walkVars
  <2> QED BY <1>2, <2>1
<1> QED BY <1>3, <1>4, <1>5, <1>6, <1>7, Steps DEF WalkQuery

LEMMA EffectiveRight == QInv => EffectiveCorrect
<1> SUFFICES ASSUME QInv, mode # "effective", ref # None PROVE s = Effective(g, ref)
  BY DEF EffectiveCorrect
<1>1. /\ IsGrammar(g) /\ Follows /\ ref \in Refs(g) /\ s \in Symbols(g)
      /\ s = ref[1] \/ s \notin LinkNTs(g)
  BY SameLinks DEF QInv, IInv, TypeOK, Follows, W!EndsWalk
<1>2. CASE s = ref[1]
  <2>1. s \in ChainOfLinks(g, s)
    BY <1>1, ChainCloses
  <2> QED BY <1>1, <1>2, <2>1 DEF Follows, Effective
<1>3. CASE s # ref[1] /\ s \notin LinkNTs(g)
  <2>1. ChainOfLinks(g, s) = {s} /\ EndOfLinks(g, s) = s
    BY <1>1, <1>3, ChainEnds, EndSolves
  <2> QED BY <1>1, <1>3, <2>1 DEF Follows, Effective
<1> QED BY <1>1, <1>2, <1>3

-----------------------------------------------------------------------------
\* W takes its grammar from LinkedGrammar, too.
LEMMA SameGrammar ==
    /\ W!Symbols(g) = Symbols(g) /\ W!Refs(g) = Refs(g)
    /\ \A t : W!RefsIn(g, t) = RefsIn(g, t)
BY DEF W!Symbols, W!NTs, W!Refs, W!RefsIn, Symbols, NTs, Refs, RefsIn

LEMMA AskWalks ==
    ASSUME IsGrammar(g), W!AskUnreachable, UNCHANGED g
    PROVE  Walks'
<1>1. Symbols(g)' = Symbols(g) /\ Refs(g)' = Refs(g) /\ g.axiom \in Symbols(g)
  BY DEF IsGrammar, Symbols
<1>2. Met' = {g.axiom} /\ todo' = {g.axiom}
  BY <1>1, SameGrammar DEF Met, W!AskUnreachable
<1>3. \A S \in SUBSET Symbols(g) : W!ClosedUnderUse(S)' => g.axiom \in S
  BY DEF W!ClosedUnderUse
<1>4. Walked'
  BY <1>1, <1>2, <1>3, SameGrammar DEF Walked, W!AskUnreachable
<1> QED BY <1>4 DEF Walks

LEMMA PopWalks ==
    ASSUME IsGrammar(g), Walks, NEW t \in Symbols(g), W!Pop(t), UNCHANGED g
    PROVE  Walks'
<1> DEFINE met == {g.to[r] : r \in RefsIn(g, t)} \cap unreachable
<1>1. Symbols(g)' = Symbols(g) /\ Refs(g)' = Refs(g) /\ UNCHANGED mode
  BY DEF W!Pop
<1>2. /\ Walked /\ mode = "unreachable" /\ t \in todo
      /\ todo' = (todo \ {t}) \cup met
      /\ unreachable' = unreachable \ met
  BY SameGrammar DEF Walks, W!Pop
<1>3. met \subseteq Symbols(g) /\ Met' = Met \cup met
  BY <1>1, <1>2 DEF Met, Walked
<1>4. todo' \subseteq Met' /\ g.axiom \in Met' /\ unreachable' \subseteq Symbols(g)
  BY <1>2, <1>3 DEF Walked
<1>5. ASSUME NEW S \in SUBSET Symbols(g), W!ClosedUnderUse(S)'
      PROVE  Met' \subseteq S
  <2>1. W!ClosedUnderUse(S)
    BY <1>5, <1>1 DEF W!ClosedUnderUse
  <2>2. Met \subseteq S /\ t \in S
    BY <1>2, <2>1 DEF Walked
  <2>3. met \subseteq S
    BY <2>1, <2>2, SameGrammar DEF W!ClosedUnderUse, RefsIn
  <2> QED BY <1>3, <2>2, <2>3
<1>6. ASSUME NEW r \in Refs(g), r[1] \in Met' \ todo'
      PROVE  g.to[r] \in Met'
  <2>1. CASE r[1] = t
    <3>1. g.to[r] \in {g.to[q] : q \in RefsIn(g, t)} /\ g.to[r] \in Symbols(g)
      BY <2>1, LinkRefs DEF RefsIn
    <3> QED BY <1>3, <3>1 DEF Met
  <2>2. CASE r[1] # t
    <3>1. r[1] \in Met \ todo
      BY <1>2, <1>3, <1>6, <2>2
    <3> QED BY <1>2, <1>3, <3>1 DEF Walked
  <2> QED BY <2>1, <2>2
<1>7. Walked'
  BY <1>1, <1>2, <1>4, <1>5, <1>6 DEF Walked
<1> QED BY <1>7 DEF Walks

LEMMA WalksNext ==
    ASSUME QInv, [QNext]_queryVars
    PROVE  Walks'
<1>1. IsGrammar(g) /\ Turns /\ Walks
  BY DEF QInv, IInv, TypeOK
<1>2. ASSUME UNCHANGED <<g, unreachable, todo>>,
             mode = "unreachable" => todo = {} \/ mode' = "unreachable",
             mode' = "unreachable" => mode = "unreachable"
      PROVE  Walks'
  <2>1. Symbols(g)' = Symbols(g) /\ Refs(g)' = Refs(g) /\ Met' = Met
    BY <1>2 DEF Met
  <2>2. \A S : W!ClosedUnderUse(S)' <=> W!ClosedUnderUse(S)
    BY <1>2, <2>1 DEF W!ClosedUnderUse
  <2>3. Walked => Walked'
    BY <1>2, <2>1, <2>2 DEF Walked
  <2> QED BY <1>1, <1>2, <2>3 DEF Walks
<1>3. CASE (DeriveStep \/ ClosureStep \/ PrimitiveStep \/ TranslationStep) /\ UNCHANGED walkVars
  <2>1. UNCHANGED <<g, unreachable, todo>> /\ mode # "unreachable" /\ mode' # "unreachable"
    BY <1>1, <1>3, DeriveMode, ClosureMode, PrimitiveMode, TranslationMode
       DEF walkVars, tagVars, Others, vars
  <2> QED BY <1>2, <2>1
<1>4. CASE AskWalk(W!AskUnreachable)
  BY <1>1, <1>4, AskWalks DEF AskWalk, vars
<1>5. CASE \E r \in Refs(g) : AskWalk(W!AskEffective(r))
  BY <1>2, <1>5 DEF AskWalk, W!AskEffective, vars
<1>6. CASE WalkStep
  <2>1. CASE \E t \in Symbols(g) : StepWalk(W!Pop(t))
    BY <1>1, <2>1, PopWalks DEF StepWalk, vars
  <2>2. CASE StepWalk(W!ReturnUnreachable)
    BY <1>2, <2>2 DEF StepWalk, W!ReturnUnreachable, W!walkVars, vars
  <2>3. CASE StepWalk(W!Follow) \/ StepWalk(W!ReturnEffective)
    BY <1>2, <2>3 DEF StepWalk, W!Follow, W!ReturnEffective, W!walkVars, vars
  <2> QED BY <1>6, <2>1, <2>2, <2>3 DEF WalkStep
<1>7. CASE UNCHANGED queryVars
  BY <1>2, <1>7 DEF queryVars, vars, tagVars, walkVars
<1> QED BY <1>3, <1>4, <1>5, <1>6, <1>7, Steps DEF WalkQuery

LEMMA UnreachableRight == QInv => RestExact
<1> SUFFICES ASSUME QInv, unreachable # None
             PROVE  /\ \A S \in SUBSET Symbols(g) : W!ClosedUnderUse(S) => Met \subseteq S
                    /\ mode # "unreachable" => W!ClosedUnderUse(Met)
  BY SameGrammar DEF RestExact, W!RestExact, Met
<1> QED BY SameGrammar DEF QInv, Walks, Walked, W!ClosedUnderUse

-----------------------------------------------------------------------------
LEMMA QInvInit == QInit => QInv
<1> SUFFICES ASSUME QInit PROVE QInv
  OBVIOUS
<1>1. IInv
  BY IInvInit DEF QInit, TagInit
<1>2. Turns /\ ~WalksAliases /\ mode = "idle" /\ ~Answered("closure") /\ ~Answered("map")
      /\ ~Answered("primitive") /\ ~Answered("translations")
  BY DEF QInit, TagInit, Turns, WalksAliases, Answered
<1> QED BY <1>1, <1>2 DEF QInv, Closes, Climbs, Translates, Follows, Walks, QInit, W!Init

LEMMA QInvNext == QInv /\ [QNext]_queryVars => QInv'
<1> SUFFICES ASSUME QInv, [QNext]_queryVars PROVE QInv'
  OBVIOUS
<1>1. Turns /\ IInv
  BY DEF QInv
<1>2. IInv' /\ Turns'
  <2>1. CASE DeriveStep
    BY <1>1, <2>1, DeriveMode, IInvNext DEF DeriveStep
  <2>2. CASE ClosureStep \/ PrimitiveStep \/ TranslationStep \/ WalkQuery
    <3>1. UNCHANGED vars /\ Turns'
      BY <1>1, <2>2, ClosureMode, PrimitiveMode, TranslationMode, WalkMode DEF Others
    <3> QED BY <1>1, <3>1, IInvNext
  <2>3. CASE UNCHANGED queryVars
    <3>1. UNCHANGED <<vars, mode, asked, answer>>
      BY <2>3 DEF queryVars, tagVars
    <3> QED BY <1>1, <3>1, IInvNext DEF Turns
  <2> QED BY <2>1, <2>2, <2>3, Steps
<1> QED BY <1>2, ClosesNext, ClimbsNext, TranslatesNext, FollowsNext, WalksNext DEF QInv

LEMMA QInvAlways == QSpec => []QInv
  BY QInvInit, QInvNext, PTL DEF QSpec

\* tag_closure() returns the tags under which a value of the symbol may appear.
THEOREM ClosureExact == QSpec => []ClosureCorrect
  BY ClosureRight, QInvAlways, PTL

\* primitive_tags() returns the tags of the LINKs whose chain ends in a terminal,
\* and after derive_tags() no tag that nobody declared.
THEOREM PrimitivesExact == QSpec => []PrimitivesFound
  BY PrimitivesRight, QInvAlways, PTL

\* The map of names has the names with coordinates; it tells an alias of a terminal
\* and whatever shares its coordinates.
THEOREM NameMapExact == QSpec => []NameMapCorrect
  BY NameMapRight, QInvAlways, PTL

\* tag_translations() has a name for each tag in use, and a value of that name may
\* have it; the tags of terminals are named after terminals.
THEOREM TranslationsExact == QSpec => []TranslationsInClosure
  BY TranslationsRight, QInvAlways, PTL

\* effective_symbol() returns the end of the chain of LINKs, or the symbol of the
\* reference where the chain comes back to it.
THEOREM EffectiveExact == QSpec => []EffectiveCorrect
  BY EffectiveRight, QInvAlways, PTL

\* unreachable_symbols() leaves out what every closed set with the axiom has and
\* nothing else, so that the rules that stay use no symbol that is erased.
THEOREM UnreachableExact == QSpec => []RestExact
  BY UnreachableRight, QInvAlways, PTL
=============================================================================
