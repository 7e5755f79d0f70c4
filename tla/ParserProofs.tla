---------------------------- MODULE ParserProofs -----------------------------
(***************************************************************************)
(* Proofs about the parser and the printer, for all texts.                 *)
(*                                                                         *)
(* Whatever is read: no null pointer is used (Inv), and what is pushed is  *)
(* formed (MInv).  A text in order is read as what it declares (RInv): in  *)
(* each state, At says what is still to be read of the definition in the   *)
(* making given what the registers have of it, Stage what of the text given*)
(* what was pushed.  What the printer writes is a text in order that       *)
(* declares what was printed (PrintedText).                                *)
(***************************************************************************)
EXTENDS RoundTrip, SequenceTheorems, WellFoundedInduction, TLAPS

-----------------------------------------------------------------------------
(* Numbers and sequences.                                                   *)
LEMMA Least ==
    ASSUME NEW T, T \subseteq Nat, T # {}
    PROVE  \E m \in T : \A k \in T : ~(k < m)
<1>1. PICK m \in T : \A k \in T : ~(<<k, m>> \in OpToRel(<, Nat))
  BY NatLessThanWellFounded, WFMin
<1>2. \A k \in T : ~(k < m)
  BY <1>1 DEF OpToRel
<1> QED BY <1>2

\* A set of numbers that has 0, and with each number up to n the next.
LEMMA Counting ==
    ASSUME NEW n \in Nat, NEW T, 0 \in T, \A k \in 1..n : k - 1 \in T => k \in T
    PROVE  \A k \in 0..n : k \in T
<1> DEFINE Bad == {k \in 0..n : k \notin T}
<1>1. SUFFICES ASSUME Bad # {} PROVE FALSE
  OBVIOUS
<1>2. PICK m \in Bad : \A k \in Bad : ~(k < m)
  <2>1. Bad \subseteq Nat
    OBVIOUS
  <2> HIDE DEF Bad
  <2> QED BY <1>1, <2>1, Least
<1>3. m \in 1..n /\ m - 1 \in 0..n
  BY <1>2
<1>4. m - 1 \in T
  BY <1>2, <1>3
<1> QED BY <1>2, <1>3, <1>4

\* The same from the end.
LEMMA CountingDown ==
    ASSUME NEW n \in Nat, NEW T, n + 1 \in T, \A k \in 1..n : k + 1 \in T => k \in T
    PROVE  \A k \in 1..n + 1 : k \in T
<1> DEFINE U == {k \in 0..n : n + 1 - k \in T}
<1>1. 0 \in U
  OBVIOUS
<1>2. ASSUME NEW k \in 1..n, k - 1 \in U PROVE k \in U
  <2>1. n + 1 - k \in 1..n /\ (n + 1 - k) + 1 = n + 1 - (k - 1)
    OBVIOUS
  <2> QED BY <1>2, <2>1
<1>3. \A k \in 0..n : k \in U
  <2> HIDE DEF U
  <2> QED BY <1>1, <1>2, Counting
<1>4. ASSUME NEW k \in 1..n + 1 PROVE k \in T
  <2>1. n + 1 - k \in 0..n /\ n + 1 - (n + 1 - k) = k
    OBVIOUS
  <2>2. n + 1 - k \in U
    BY <1>3, <2>1
  <2> QED BY <2>1, <2>2
<1> QED BY <1>4

-----------------------------------------------------------------------------
\* What is the same behind the same beginning is the same.
LEMMA CancelLeft ==
    ASSUME NEW S, NEW s \in Seq(S), NEW t \in Seq(S), NEW u \in Seq(S), s \o t = s \o u
    PROVE  t = u
<1>1. Len(s) \in Nat /\ Len(t) \in Nat /\ Len(u) \in Nat
  BY LenProperties
<1>2. Len(s \o t) = Len(s) + Len(t) /\ Len(s \o u) = Len(s) + Len(u)
  BY ConcatProperties
<1>3. Len(t) = Len(u)
  BY <1>1, <1>2
<1>4. ASSUME NEW i \in 1..Len(t) PROVE t[i] = u[i]
  <2>1. Len(s) + i \in 1..Len(s) + Len(t) /\ ~(Len(s) + i <= Len(s)) /\ Len(s) + i - Len(s) = i
    BY <1>1
  <2>2. (s \o t)[Len(s) + i] = t[i] /\ (s \o u)[Len(s) + i] = u[i]
    BY <1>3, <2>1, ConcatProperties
  <2> QED BY <2>2
<1> QED BY <1>3, <1>4, SeqEqual

\* Sequences joined.
LEMMA Assoc ==
    ASSUME NEW S
    PROVE  /\ \A a, b \in Seq(S) : a \o b \in Seq(S)
           /\ \A a, b, c \in Seq(S) : (a \o b) \o c = a \o (b \o c)
           /\ \A a \in Seq(S) : a \o <<>> = a /\ <<>> \o a = a
BY ConcatProperties, ConcatAssociative, ConcatEmptySeq

\* What FlattenSeq() has joined after each sequence.
Joined(f, S, ss) ==
    /\ f \in [0..Len(ss) -> Seq(S)]
    /\ f[0] = <<>>
    /\ \A k \in 1..Len(ss) : f[k] = f[k - 1] \o ss[k]

\* There is such a function for all sequences of sequences.
LEMMA JoinedExists ==
    ASSUME NEW S, NEW ss \in Seq(Seq(S)) PROVE \E f : Joined(f, S, ss)
<1> DEFINE n == Len(ss)
           J(a, k) == a \o ss[k]
           Upto(m, f) == f[0] = <<>> /\ \A k \in 1..m : f[k] = J(f[k - 1], k)
           T == {m \in 0..n : \E f \in [0..m -> Seq(S)] : Upto(m, f)}
<1>1. n \in Nat /\ <<>> \in Seq(S) /\ \A k \in 1..n : \A a \in Seq(S) : J(a, k) \in Seq(S)
  BY LenProperties, ElementOfSeq, EmptySeq, ConcatProperties
<1> HIDE DEF n, J
<1>2. 0 \in T
  <2> DEFINE e == [k \in 0..0 |-> <<>>]
  <2>1. e \in [0..0 -> Seq(S)] /\ Upto(0, e)
    BY <1>1
  <2> HIDE DEF e, Upto
  <2> QED BY <1>1, <2>1
<1>3. ASSUME NEW m \in 1..n, m - 1 \in T PROVE m \in T
  <2>1. PICK f \in [0..(m - 1) -> Seq(S)] : Upto(m - 1, f)
    BY <1>3
  <2> DEFINE h == [k \in 0..m |-> IF k = m THEN J(f[m - 1], m) ELSE f[k]]
  <2>2. f[m - 1] \in Seq(S) /\ J(f[m - 1], m) \in Seq(S)
    BY <1>1, <2>1
  <2>3. h \in [0..m -> Seq(S)] /\ h[0] = <<>>
    BY <2>1, <2>2
  <2>4. ASSUME NEW k \in 1..m PROVE h[k] = J(h[k - 1], k)
    <3>1. k - 1 \in 0..(m - 1) /\ k - 1 # m /\ h[k - 1] = f[k - 1]
      BY <2>2
    <3>2. CASE k = m
      BY <3>1, <3>2
    <3>3. CASE k # m
      BY <2>1, <3>1, <3>3
    <3> QED BY <3>2, <3>3
  <2>5. Upto(m, h)
    BY <2>3, <2>4
  <2> HIDE DEF h, Upto
  <2> QED BY <2>3, <2>5
<1>4. n \in T
  <2>1. \A k \in 0..n : k \in T
    <3> HIDE DEF T
    <3> QED BY <1>1, <1>2, <1>3, Counting
  <2> HIDE DEF T
  <2> QED BY <1>1, <2>1
<1>5. PICK f \in [0..n -> Seq(S)] : Upto(n, f)
  BY <1>4
<1> QED BY <1>5 DEF Joined, n, J

\* Its last value is what FlattenSeq is.
LEMMA Flattened ==
    ASSUME NEW S, NEW ss \in Seq(Seq(S)), NEW f, Joined(f, S, ss)
    PROVE  FlattenSeq(ss) = f[Len(ss)]
<1> DEFINE n == Len(ss)
           J(a, k) == a \o ss[k]
           Eq(g) == g = [i \in 1..n |-> IF i = 1 THEN ss[i] ELSE J(g[i - 1], i)]
           c == CHOOSE g : Eq(g)
           g0 == [i \in 1..n |-> f[i]]
<1>1. n \in Nat /\ \A k \in 1..n : ss[k] \in Seq(S) /\ J(<<>>, k) = ss[k]
  BY LenProperties, ElementOfSeq, ConcatEmptySeq
<1>2. CASE n = 0
  <2>1. ss = <<>>
    BY <1>2, EmptySeq
  <2> QED BY <1>2, <2>1 DEF FlattenSeq, Joined
<1>3. CASE n # 0
  <2>1. FlattenSeq(ss) = c[n]
    BY <1>3 DEF FlattenSeq
  <2>2. /\ f \in [0..n -> Seq(S)] /\ f[0] = <<>>
        /\ \A k \in 1..n : f[k] = J(f[k - 1], k)
    BY DEF Joined
  <2> HIDE DEF n, J
  <2>3. 1 \in 1..n /\ f[1] = ss[1]
    <3>1. 1 \in 1..n /\ 1 - 1 = 0
      BY <1>1, <1>3
    <3>2. f[1] = J(f[0], 1)
      BY <2>2, <3>1
    <3> QED BY <1>1, <2>2, <3>1, <3>2
  <2>4. ASSUME NEW i \in 1..n
        PROVE  g0[i] = IF i = 1 THEN ss[i] ELSE J(g0[i - 1], i)
    <3>1. i # 1 => i - 1 \in 1..n
      BY <1>1
    <3> QED BY <2>2, <2>3, <3>1
  <2>5. Eq(g0)
    BY <2>4
  <2>6. Eq(c)
    <3> HIDE DEF Eq, g0
    <3> QED BY <2>5
  <2>7. \A i \in 1..n : c[i] = IF i = 1 THEN ss[i] ELSE J(c[i - 1], i)
    BY <2>6
  <2> HIDE DEF c, Eq, g0
  <2> DEFINE T == {k \in 0..n : k # 0 => c[k] = f[k]}
  <2>8. 0 \in T
    BY <1>1
  <2>9. ASSUME NEW k \in 1..n, k - 1 \in T PROVE k \in T
    <3>1. k # 1 => c[k - 1] = f[k - 1]
      BY <1>1, <2>9
    <3> QED BY <2>2, <2>3, <2>7, <3>1
  <2>10. n \in T
    <3>1. \A k \in 0..n : k \in T
      <4> HIDE DEF T
      <4> QED BY <1>1, <2>8, <2>9, Counting
    <3> HIDE DEF T
    <3> QED BY <1>1, <3>1
  <2> QED BY <1>1, <1>3, <2>1, <2>10 DEF n
<1> QED BY <1>2, <1>3

\* A flattened sequence has its elements one behind the other ...
LEMMA FlattenAppend ==
    ASSUME NEW S, NEW ss \in Seq(Seq(S)), NEW s \in Seq(S)
    PROVE  /\ FlattenSeq(ss) \in Seq(S)
           /\ FlattenSeq(Append(ss, s)) = FlattenSeq(ss) \o s
<1> DEFINE n == Len(ss)
           tt == Append(ss, s)
           J(a, b) == a \o b
<1>1. /\ n \in Nat /\ tt \in Seq(Seq(S)) /\ Len(tt) = n + 1
      /\ (\A k \in 1..n : tt[k] = ss[k]) /\ tt[n + 1] = s
  BY LenProperties, AppendProperties
<1>2. PICK f : Joined(f, S, tt)
  BY <1>1, JoinedExists
<1> HIDE DEF tt
<1>3. /\ f \in [0..n + 1 -> Seq(S)] /\ f[0] = <<>>
      /\ \A k \in 1..n + 1 : f[k] = J(f[k - 1], tt[k])
  BY <1>1, <1>2 DEF Joined
<1> HIDE DEF J
<1>4. FlattenSeq(tt) = f[n + 1] /\ f[n + 1] = J(f[n], s)
  <2>1. FlattenSeq(tt) = f[n + 1]
    BY <1>1, <1>2, Flattened
  <2>2. n + 1 \in 1..n + 1 /\ (n + 1) - 1 = n
    BY <1>1
  <2> QED BY <1>1, <1>3, <2>1, <2>2
<1> DEFINE g == [k \in 0..n |-> f[k]]
<1>5. Joined(g, S, ss) /\ g[n] = f[n]
  <2> HIDE DEF n
  <2>1. g \in [0..n -> Seq(S)] /\ g[0] = <<>> /\ g[n] = f[n]
    BY <1>1, <1>3
  <2>2. \A k \in 1..n : g[k] = J(g[k - 1], ss[k])
    BY <1>1, <1>3
  <2> HIDE DEF g
  <2> QED BY <2>1, <2>2 DEF Joined, n, J
<1> HIDE DEF g
<1>6. FlattenSeq(ss) = g[n]
  BY <1>5, Flattened
<1>7. g[n] \in Seq(S)
  <2>1. g \in [0..Len(ss) -> Seq(S)]
    BY <1>5 DEF Joined
  <2>2. n \in 0..Len(ss)
    BY <1>1
  <2> HIDE DEF n
  <2> QED BY <2>1, <2>2
<1> QED BY <1>4, <1>5, <1>6, <1>7 DEF tt, J

\* Nothing joined is nothing.
LEMMA FlattenEmpty == FlattenSeq(<<>>) = <<>>
BY DEF FlattenSeq

\* ... so that each suffix begins with an element.
Remainders(X, S, ss, end) ==
    /\ X \in [1..Len(ss) + 1 -> Seq(S)]
    /\ X[1] = FlattenSeq(ss) \o end
    /\ \A k \in 1..Len(ss) : X[k] = ss[k] \o X[k + 1]
    /\ X[Len(ss) + 1] = end

\* There is such a function, built from the end.
LEMMA RemaindersExist ==
    ASSUME NEW S, NEW ss \in Seq(Seq(S)), NEW end \in Seq(S)
    PROVE  \E X : Remainders(X, S, ss, end)
<1> DEFINE n == Len(ss)
           J(a, b) == a \o b
           F == J(FlattenSeq(ss), end)
<1>1. n \in Nat /\ \A k \in 1..n : ss[k] \in Seq(S)
  BY LenProperties, ElementOfSeq
<1>2. PICK f : Joined(f, S, ss)
  BY JoinedExists
<1>3. /\ f \in [0..n -> Seq(S)] /\ f[0] = <<>>
      /\ \A k \in 1..n : f[k] = J(f[k - 1], ss[k])
  BY <1>2 DEF Joined
<1>4. F = J(f[n], end)
  BY <1>2, Flattened
<1>5. \A a \in Seq(S) : J(<<>>, a) = a /\ J(a, <<>>) = a
  BY ConcatEmptySeq
<1>6. \A a, b \in Seq(S) : J(a, b) \in Seq(S)
  BY ConcatProperties
<1>7. \A a, b, c \in Seq(S) : J(J(a, b), c) = J(a, J(b, c))
  BY ConcatAssociative
<1>8. \A a, b, c \in Seq(S) : J(a, b) = J(a, c) => b = c
  BY CancelLeft
<1> HIDE DEF n, J, F
<1> DEFINE T == {k \in 1..n + 1 : \E w \in Seq(S) : F = J(f[k - 1], w)}
<1>9. n + 1 \in T
  <2>1. n + 1 \in 1..n + 1 /\ (n + 1) - 1 = n
    BY <1>1
  <2> QED BY <1>4, <2>1
<1>10. ASSUME NEW k \in 1..n, k + 1 \in T PROVE k \in T
  <2>1. k \in 0..n /\ k - 1 \in 0..n /\ (k + 1) - 1 = k /\ k \in 1..n + 1
    BY <1>1
  <2>2. PICK w \in Seq(S) : F = J(f[k], w)
    BY <1>10, <2>1
  <2>3. f[k] = J(f[k - 1], ss[k]) /\ f[k - 1] \in Seq(S) /\ ss[k] \in Seq(S)
    BY <1>1, <1>3, <2>1
  <2>4. F = J(f[k - 1], J(ss[k], w)) /\ J(ss[k], w) \in Seq(S)
    <3>1. /\ J(J(f[k - 1], ss[k]), w) = J(f[k - 1], J(ss[k], w))
          /\ J(ss[k], w) \in Seq(S)
      BY ZenonT(40), <1>6, <1>7, <2>3
    <3> QED BY <2>2, <2>3, <3>1
  <2> QED BY <2>1, <2>4
<1>11. \A k \in 1..n + 1 : \E w \in Seq(S) : F = J(f[k - 1], w)
  <2>1. \A k \in 1..n + 1 : k \in T
    <3> HIDE DEF T
    <3> QED BY <1>1, <1>9, <1>10, CountingDown
  <2> QED BY <2>1
<1> DEFINE X == [k \in 1..n + 1 |-> CHOOSE w \in Seq(S) : F = J(f[k - 1], w)]
<1>12. \A k \in 1..n + 1 : X[k] \in Seq(S) /\ F = J(f[k - 1], X[k])
  BY <1>11
<1>13. X \in [1..n + 1 -> Seq(S)]
  BY <1>12
<1> HIDE DEF X
<1>14. X[1] = F
  <2>1. 1 \in 1..n + 1 /\ 1 - 1 = 0
    BY <1>1
  <2>2. X[1] \in Seq(S) /\ F = J(f[1 - 1], X[1])
    BY <1>12, <2>1
  <2> QED BY <1>3, <1>5, <2>1, <2>2
<1>15. X[n + 1] = end
  <2>1. n + 1 \in 1..n + 1 /\ (n + 1) - 1 = n /\ n \in 0..n
    BY <1>1
  <2>2. X[n + 1] \in Seq(S) /\ F = J(f[(n + 1) - 1], X[n + 1])
    BY <1>12, <2>1
  <2>3. f[n] \in Seq(S) /\ J(f[n], X[n + 1]) = J(f[n], end)
    BY <1>3, <1>4, <2>1, <2>2
  <2> QED BY <1>8, <2>2, <2>3
<1>16. ASSUME NEW k \in 1..n PROVE X[k] = J(ss[k], X[k + 1])
  <2>1. k \in 1..n + 1 /\ k + 1 \in 1..n + 1 /\ (k + 1) - 1 = k /\ k - 1 \in 0..n
    BY <1>1
  <2>2. /\ f[k] = J(f[k - 1], ss[k]) /\ f[k - 1] \in Seq(S) /\ ss[k] \in Seq(S)
        /\ X[k] \in Seq(S) /\ F = J(f[k - 1], X[k])
    BY <1>1, <1>3, <1>12, <2>1
  <2>3. X[k + 1] \in Seq(S) /\ F = J(f[(k + 1) - 1], X[k + 1])
    BY <1>12, <2>1
  <2>4. J(f[k - 1], X[k]) = J(f[k - 1], J(ss[k], X[k + 1])) /\ J(ss[k], X[k + 1]) \in Seq(S)
    <3>1. J(J(f[k - 1], ss[k]), X[k + 1]) = J(f[k - 1], J(ss[k], X[k + 1]))
      BY <1>7, <2>2, <2>3
    <3>2. J(ss[k], X[k + 1]) \in Seq(S)
      BY <1>6, <2>2, <2>3
    <3> QED BY <2>1, <2>2, <2>3, <3>1, <3>2
  <2> QED BY <1>8, <2>2, <2>4
<1> QED BY <1>13, <1>14, <1>15, <1>16 DEF Remainders, n, J, F

-----------------------------------------------------------------------------
(* FirstOfName: definitions whose name is new.                              *)
\* A prefix grows by one element.
LEMMA PrefixGrows ==
    ASSUME NEW S, NEW s \in Seq(S), NEW k \in 1..Len(s)
    PROVE  /\ s[k] \in S
           /\ SubSeq(s, 1, k - 1) \in Seq(S) /\ Len(SubSeq(s, 1, k - 1)) = k - 1
           /\ \A j \in 1..k - 1 : SubSeq(s, 1, k - 1)[j] = s[j]
           /\ SubSeq(s, 1, k) = Append(SubSeq(s, 1, k - 1), s[k])
<1>1. Len(s) \in Nat /\ s[k] \in S /\ \A i \in 1..Len(s) : s[i] \in S
  BY LenProperties, ElementOfSeq
<1>2. \A i \in 1..k - 1 : s[i] \in S
  BY <1>1
<1>3. k - 1 \in Int /\ 1 \in Int
  BY <1>1
<1>4. /\ SubSeq(s, 1, k - 1) \in Seq(S)
      /\ Len(SubSeq(s, 1, k - 1)) = IF 1 <= k - 1 THEN k - 1 - 1 + 1 ELSE 0
      /\ \A j \in 1..k - 1 - 1 + 1 : SubSeq(s, 1, k - 1)[j] = s[1 + j - 1]
  BY <1>2, <1>3, SubSeqProperties
<1>5. SubSeq(s, 1, k) = SubSeq(s, 1, k - 1) \o <<s[k]>>
  <2>1. 1 \in 1..Len(s) /\ k \in 1..Len(s)
    BY <1>1
  <2> QED BY <2>1, SubSeqRecursiveSecond
<1>6. SubSeq(s, 1, k) = Append(SubSeq(s, 1, k - 1), s[k])
  BY <1>1, <1>4, <1>5, AppendIsConcat
<1> QED BY <1>1, <1>4, <1>6

\* The empty prefix.
LEMMA NoPrefix ==
    ASSUME NEW S, NEW s \in Seq(S)
    PROVE  SubSeq(s, 1, 0) = <<>>
BY SubSeqEmpty

\* Without definitions there is none.
LEMMA FirstOfNone == FirstOfName(<<>>) = <<>>
<1> DEFINE f == [i \in DOMAIN <<>> |-> IF \E j \in 1..i - 1 : <<>>[j].name = <<>>[i].name
                                       THEN <<>> ELSE <<<<>>[i]>>]
<1>1. <<>> \in Seq({}) /\ DOMAIN <<>> = 1..0
  BY EmptySeq, LenProperties
<1>2. f \in [1..0 -> {}]
  BY <1>1
<1> HIDE DEF f
<1>3. f \in Seq({})
  BY <1>2, SeqDef
<1>4. Len(f) = 0
  BY <1>2, <1>3, LenProperties
<1>5. f = <<>>
  BY <1>3, <1>4, EmptySeq
<1> QED BY <1>5, FlattenEmpty DEF FirstOfName, f

\* FirstOfName of one definition more: it is kept if its name is new.
LEMMA FirstOfOneMore ==
    ASSUME NEW S, NEW s \in Seq(S), NEW d \in S
    PROVE  /\ FirstOfName(s) \in Seq(S)
           /\ FirstOfName(Append(s, d)) = IF \E j \in 1..Len(s) : s[j].name = d.name
                                          THEN FirstOfName(s)
                                          ELSE Append(FirstOfName(s), d)
<1> DEFINE n == Len(s)
           t == Append(s, d)
           Old(u, i) == \E j \in 1..i - 1 : u[j].name = u[i].name
           Part(u, i) == IF Old(u, i) THEN <<>> ELSE <<u[i]>>
           f == [i \in DOMAIN s |-> Part(s, i)]
           h == [i \in DOMAIN t |-> Part(t, i)]
<1>1. /\ n \in Nat /\ t \in Seq(S) /\ Len(t) = n + 1
      /\ (\A i \in 1..n : t[i] = s[i]) /\ t[n + 1] = d
      /\ DOMAIN s = 1..n /\ DOMAIN t = 1..n + 1
  BY LenProperties, AppendProperties
<1>2. (\A i \in 1..n : s[i] \in S) /\ \A i \in 1..n + 1 : t[i] \in S
  BY <1>1, ElementOfSeq
<1>3. FirstOfName(s) = FlattenSeq(f) /\ FirstOfName(t) = FlattenSeq(h)
  BY DEF FirstOfName
<1> HIDE DEF n, t
<1>4. \A x \in S : <<x>> \in Seq(S)
  OBVIOUS
<1>5. \A i \in 1..n : Part(t, i) = Part(s, i)
  <2> TAKE i \in 1..n
  <2>1. \A j \in 1..i : t[j] = s[j]
    BY <1>1
  <2>2. Old(t, i) <=> Old(s, i)
    BY <2>1
  <2>3. t[i] = s[i]
    BY <1>1
  <2> HIDE DEF Old
  <2> QED BY <2>2, <2>3
<1>6. Part(t, n + 1) = IF \E j \in 1..n : s[j].name = d.name THEN <<>> ELSE <<d>>
  <2>1. Old(t, n + 1) <=> \E j \in 1..n : s[j].name = d.name
    <3>1. (n + 1) - 1 = n
      BY <1>1
    <3> QED BY <1>1, <3>1
  <2> HIDE DEF Old
  <2> QED BY <1>1, <2>1
<1> HIDE DEF Old
<1>7. (\A i \in 1..n : Part(s, i) \in Seq(S)) /\ Part(t, n + 1) \in Seq(S)
  <2>1. ASSUME NEW i \in 1..n PROVE Part(s, i) \in Seq(S)
    BY <1>2, <1>4, EmptySeq
  <2>2. Part(t, n + 1) \in Seq(S)
    <3>1. t[n + 1] \in S
      BY <1>1, <1>2
    <3> QED BY <1>4, <3>1, EmptySeq
  <2> QED BY <2>1, <2>2
<1> HIDE DEF Part
<1>8. f \in Seq(Seq(S)) /\ Len(f) = n /\ h \in Seq(Seq(S)) /\ Len(h) = n + 1
  <2>1. f \in [1..n -> Seq(S)] /\ h \in [1..n + 1 -> Seq(S)]
    BY <1>1, <1>5, <1>7
  <2>2. f \in Seq(Seq(S)) /\ h \in Seq(Seq(S))
    BY <1>1, <2>1, SeqDef
  <2> HIDE DEF f, h
  <2>3. Len(f) \in Nat /\ DOMAIN f = 1..Len(f) /\ Len(h) \in Nat /\ DOMAIN h = 1..Len(h)
    BY <2>2, LenProperties
  <2>4. 1..Len(f) = 1..n /\ 1..Len(h) = 1..n + 1
    BY <2>1, <2>3
  <2>5. ASSUME NEW a \in Nat, NEW b \in Nat, 1..a = 1..b PROVE a = b
    BY <2>5
  <2>6. Len(f) = n
    BY <1>1, <2>3, <2>4, <2>5
  <2>7. Len(h) = n + 1
    <3>1. n + 1 \in Nat
      BY <1>1
    <3> HIDE DEF n
    <3> QED BY <2>3, <2>4, <2>5, <3>1
  <2> QED BY <2>2, <2>6, <2>7
<1>9. \A i \in 1..n : f[i] = Part(s, i) /\ h[i] = Part(s, i)
  BY <1>1, <1>5
<1>10. h[n + 1] = Part(t, n + 1)
  BY <1>1
<1> HIDE DEF f, h
<1>11. h = Append(f, Part(t, n + 1))
  <2> DEFINE g == Append(f, Part(t, n + 1))
  <2>1. /\ g \in Seq(Seq(S)) /\ Len(g) = n + 1 /\ g[n + 1] = Part(t, n + 1)
        /\ \A i \in 1..n : g[i] = f[i]
    BY <1>7, <1>8, AppendProperties
  <2> HIDE DEF g
  <2>2. \A i \in 1..Len(h) : h[i] = g[i]
    BY <1>1, <1>8, <1>9, <1>10, <2>1
  <2>3. h = g
    BY <1>8, <2>1, <2>2, SeqEqual
  <2> QED BY <2>3 DEF g
<1>12. FlattenSeq(f) \in Seq(S) /\ FlattenSeq(h) = FlattenSeq(f) \o Part(t, n + 1)
  BY <1>7, <1>8, <1>11, FlattenAppend
<1>13. CASE \E j \in 1..n : s[j].name = d.name
  BY <1>3, <1>6, <1>12, <1>13, ConcatEmptySeq DEF n, t
<1>14. CASE ~\E j \in 1..n : s[j].name = d.name
  <2>1. FlattenSeq(h) = Append(FlattenSeq(f), d)
    BY <1>6, <1>12, <1>14, AppendIsConcat
  <2> QED BY <1>3, <1>12, <1>14, <2>1 DEF n, t
<1> QED BY <1>13, <1>14

\* No name is lost.
LEMMA FirstHasNames ==
    ASSUME NEW S, NEW s \in Seq(S), NEW a
    PROVE  (\E i \in 1..Len(FirstOfName(s)) : FirstOfName(s)[i].name = a)
           <=> \E j \in 1..Len(s) : s[j].name = a
<1> DEFINE n == Len(s)
           P(k) == SubSeq(s, 1, k)
           Has(u) == \E i \in 1..Len(u) : u[i].name = a
           T == {k \in 0..n : Has(FirstOfName(P(k))) <=> Has(P(k))}
<1>1. n \in Nat
  BY LenProperties
<1>2. 0 \in T
  <2>1. P(0) = <<>> /\ FirstOfName(P(0)) = <<>>
    BY NoPrefix, FirstOfNone
  <2>2. Has(FirstOfName(P(0))) <=> Has(P(0))
    BY <2>1
  <2> HIDE DEF n, P, Has
  <2> QED BY <1>1, <2>2
<1>3. ASSUME NEW k \in 1..n, k - 1 \in T PROVE k \in T
  <2> DEFINE u == P(k - 1)
             d == s[k]
             v == FirstOfName(u)
  <2>1. /\ d \in S /\ u \in Seq(S) /\ P(k) = Append(u, d)
    BY PrefixGrows
  <2>2. Has(v) <=> Has(u)
    BY <1>3
  <2> HIDE DEF u, d, n, P
  <2>3. /\ v \in Seq(S)
        /\ FirstOfName(Append(u, d)) = IF \E j \in 1..Len(u) : u[j].name = d.name
                                       THEN v ELSE Append(v, d)
    BY <2>1, FirstOfOneMore
  <2> HIDE DEF v
  <2>4. ASSUME NEW w \in Seq(S) PROVE Has(Append(w, d)) <=> Has(w) \/ d.name = a
    <3>1. /\ Len(w) \in Nat /\ Len(Append(w, d)) = Len(w) + 1
          /\ (\A i \in 1..Len(w) : Append(w, d)[i] = w[i]) /\ Append(w, d)[Len(w) + 1] = d
      BY <2>1, LenProperties, AppendProperties
    <3> QED BY <3>1
  <2>5. Has(u) <=> \E j \in 1..Len(u) : u[j].name = a
    OBVIOUS
  <2> HIDE DEF Has
  <2>6. Has(FirstOfName(P(k))) <=> Has(P(k))
    BY <2>1, <2>2, <2>3, <2>4, <2>5
  <2> QED BY <1>1, <2>6
<1>4. \A k \in 0..n : k \in T
  <2> HIDE DEF T
  <2> QED BY <1>1, <1>2, <1>3, Counting
<1>5. Has(FirstOfName(P(n))) <=> Has(P(n))
  <2> HIDE DEF Has, P
  <2> QED BY <1>1, <1>4
<1>6. P(n) = s
  BY SubSeqFull
<1> QED BY <1>5, <1>6

\* Where all names differ all definitions stay.
LEMMA FirstOfDistinct ==
    ASSUME NEW S, NEW s \in Seq(S),
           \A k \in 1..Len(s) : \A j \in 1..k - 1 : s[j].name # s[k].name
    PROVE  FirstOfName(s) = s
<1> DEFINE n == Len(s)
           P(k) == SubSeq(s, 1, k)
           T == {k \in 0..n : FirstOfName(P(k)) = P(k)}
<1>1. n \in Nat
  BY LenProperties
<1>2. 0 \in T
  <2>1. P(0) = <<>> /\ FirstOfName(P(0)) = <<>>
    BY NoPrefix, FirstOfNone
  <2> HIDE DEF n, P
  <2> QED BY <1>1, <2>1
<1>3. ASSUME NEW k \in 1..n, k - 1 \in T PROVE k \in T
  <2> DEFINE u == P(k - 1)
             d == s[k]
  <2>1. /\ d \in S /\ u \in Seq(S) /\ P(k) = Append(u, d) /\ Len(u) = k - 1
        /\ \A j \in 1..k - 1 : u[j] = s[j]
    BY PrefixGrows
  <2>2. \A j \in 1..Len(u) : u[j].name # d.name
    BY <2>1
  <2>3. FirstOfName(u) = u
    BY <1>3
  <2> HIDE DEF u, d, P
  <2>4. FirstOfName(Append(u, d)) = Append(u, d)
    BY <2>1, <2>2, <2>3, FirstOfOneMore
  <2>5. FirstOfName(P(k)) = P(k) /\ k \in 0..n
    BY <1>1, <2>1, <2>4
  <2> QED BY <2>5
<1>4. \A k \in 0..n : k \in T
  <2> HIDE DEF T
  <2> QED BY <1>1, <1>2, <1>3, Counting
<1>5. FirstOfName(P(n)) = P(n)
  <2> HIDE DEF P
  <2> QED BY <1>1, <1>4
<1>6. P(n) = s
  BY SubSeqFull
<1> QED BY <1>5, <1>6

\* What was read before adds nothing.
LEMMA FirstOfAgain ==
    ASSUME NEW S, NEW s \in Seq(S), NEW k \in 0..Len(s)
    PROVE  FirstOfName(s \o SubSeq(s, 1, k)) = FirstOfName(s)
<1> DEFINE n == Len(s)
           P(i) == SubSeq(s, 1, i)
           T == {i \in 0..n : FirstOfName(s \o P(i)) = FirstOfName(s)}
<1>1. n \in Nat
  BY LenProperties
<1>2. 0 \in T
  <2>1. P(0) = <<>>
    BY NoPrefix
  <2>2. s \o P(0) = s
    BY <2>1, ConcatEmptySeq
  <2>3. 0 \in 0..n
    BY <1>1
  <2> HIDE DEF n, P
  <2> QED BY <2>2, <2>3
<1>3. ASSUME NEW i \in 1..n, i - 1 \in T PROVE i \in T
  <2> DEFINE u == P(i - 1)
             d == s[i]
             v == s \o u
  <2>1. /\ d \in S /\ u \in Seq(S) /\ P(i) = Append(u, d)
    BY PrefixGrows
  <2>2. FirstOfName(v) = FirstOfName(s)
    BY <1>3
  <2>3. s \o Append(u, d) = Append(v, d) /\ v \in Seq(S)
    <3>1. Append(u, d) = u \o <<d>> /\ <<d>> \in Seq(S) /\ v \in Seq(S)
      BY <2>1, AppendIsConcat, ConcatProperties
    <3>2. \A a, b, c \in Seq(S) : (a \o b) \o c = a \o (b \o c)
      BY Assoc
    <3>3. s \o (u \o <<d>>) = (s \o u) \o <<d>>
      BY <2>1, <3>1, <3>2
    <3>4. (s \o u) \o <<d>> = Append(v, d)
      BY <2>1, <3>1, AppendIsConcat
    <3> QED BY <3>1, <3>3, <3>4
  <2>4. Len(s) \in Nat /\ i \in 1..Len(s) /\ Len(v) = Len(s) + Len(u) /\ Len(u) \in Nat
    BY <2>1, ConcatProperties, LenProperties
  <2>5. v[i] = d
    <3>1. i \in 1..Len(s) + Len(u) /\ i <= Len(s)
      BY <2>4
    <3> QED BY <2>1, <3>1, ConcatProperties
  <2>6. \E j \in 1..Len(v) : v[j].name = d.name
    <3>1. i \in 1..Len(v)
      BY <2>4
    <3> QED BY <2>5, <3>1
  <2> HIDE DEF u, d, v, P
  <2>7. FirstOfName(Append(v, d)) = FirstOfName(v)
    BY <2>1, <2>3, <2>6, FirstOfOneMore
  <2>8. FirstOfName(s \o P(i)) = FirstOfName(s) /\ i \in 0..n
    BY <1>1, <2>1, <2>2, <2>3, <2>7
  <2> QED BY <2>8
<1>4. \A i \in 0..n : i \in T
  <2> HIDE DEF T
  <2> QED BY <1>1, <1>2, <1>3, Counting
<1> QED BY <1>4

-----------------------------------------------------------------------------
(* Pointers.                                                                *)
\* States in which the symbol, the rule and the reference are there.
InRecord == {"field", "fname", "fname_ws", "ftag", "ftype", "ftype_ws", "fsize",
             "fsize_ws", "fopt", "fend", "fext", "comma"}
RefStates == InRecord \cup {"link_ws", "link_size", "close"}
RuleStates == RefStates \cup {"done", "record", "choice", "brace", "OF", "of", "oftype"}
NTStates == RuleStates \cup {"rhs", "rhs_tag", "link", "SEQUENCE", "SET", "CHOICE"}

\* From the state c with registers x: what there is.
Pointers(c, x) ==
    /\ x.ident = Half => c \in {"defname_ws", "assign"}
    /\ c \in NTStates   => x.nt # Null
    /\ c \in RuleStates => x.rule # Null
    /\ c \in RefStates  => x.ref # Null

\* What there is when the actions on leaving c have run.
PointersLeft(c, x) ==
    /\ x.ident = Half => c \in {"defname", "defname_ws"}
    /\ c \in NTStates \cup {"assign"} => x.nt # Null
    /\ c \in RuleStates \cup {"link", "SEQUENCE", "SET", "CHOICE"} => x.rule # Null
    /\ c \in {"link", "brace"} \cup (RefStates \ {"close"}) => x.ref # Null

Inv == /\ TypeOK
       /\ input.texts # <<>>
       /\ Pointers(cs, reg)

-----------------------------------------------------------------------------
\* The edges keep to the order in which the pointers are made.
LEMMA EdgeOrder ==
    ASSUME NEW c, NEW k, NEW s, <<c, k, s>> \in Edges
    PROVE  /\ s \in NTStates => c \in NTStates \cup {"assign"}
           /\ s \in RuleStates => c \in RuleStates \cup {"link", "SEQUENCE", "SET", "CHOICE"}
           /\ s \in RefStates => c \in {"link", "brace"} \cup (RefStates \ {"close"})
           /\ k = "size" => c \in {"link", "link_ws", "ftype", "ftype_ws"}
           /\ c \in {"defname", "defname_ws"} => s \in {"defname_ws", "assign"}
           /\ c \in Complete /\ k \notin {"ws", "size"} => s \in {"defname", "END"}
<1>1. s \in NTStates => c \in NTStates \cup {"assign"}
  BY SMTT(60) DEF Edges, NTStates, RuleStates, RefStates, InRecord
<1>2. s \in RuleStates => c \in RuleStates \cup {"link", "SEQUENCE", "SET", "CHOICE"}
  BY SMTT(60) DEF Edges, RuleStates, RefStates, InRecord
<1>3. s \in RefStates => c \in {"link", "brace"} \cup (RefStates \ {"close"})
  BY SMTT(60) DEF Edges, RefStates, InRecord
<1>4. k = "size" => c \in {"link", "link_ws", "ftype", "ftype_ws"}
  BY SMTT(60) DEF Edges
<1>5. c \in {"defname", "defname_ws"} => s \in {"defname_ws", "assign"}
  BY SMTT(60) DEF Edges
<1>6. c \in Complete /\ k \notin {"ws", "size"} => s \in {"defname", "END"}
  BY SMTT(60) DEF Edges, Complete
<1> QED BY <1>1, <1>2, <1>3, <1>4, <1>5, <1>6

\* The automaton begins in one of its states.
LEMMA TopState == "top" \in States
<1>1. <<"top", "ws", "top">> \in Edges
  BY DEF Edges
<1> QED BY <1>1 DEF States

\* A register that is set to a value of its type.
LEMMA SetRegister ==
    ASSUME NEW x \in Registers
    PROVE  /\ \A i \in Ident \cup Builtin \cup {Null, Half} : [x EXCEPT !.ident = i] \in Registers
           /\ \A l \in Field \cup {Null} : [x EXCEPT !.last = l] \in Registers
           /\ \A n \in NT \cup {Null} : [x EXCEPT !.nt = n] \in Registers
           /\ \A u \in Rule \cup {Null} : [x EXCEPT !.rule = u] \in Registers
           /\ \A f \in Reference \cup {Null} : [x EXCEPT !.ref = f] \in Registers
           /\ \A c \in Tag \cup {Null} : [x EXCEPT !.coord = c] \in Registers
BY DEF Registers

\* A member of a reference that is set.
LEMMA SetReference ==
    ASSUME NEW f \in Reference
    PROVE  /\ [f EXCEPT !.opt = TRUE] \in Reference
           /\ \A c \in Constraint \cup {Null} : [f EXCEPT !.cons = c] \in Reference
BY DEF Reference

\* What is done to the references of a rule.
LEMMA SetRefs ==
    ASSUME NEW u \in Rule
    PROVE  /\ \A f \in Reference : [u EXCEPT !.refs = Append(@, f)] \in Rule
           /\ \A c \in Constraint \cup {Null} : [u EXCEPT !.refs[1].cons = c] \in Rule
<1>1. ASSUME NEW f \in Reference PROVE [u EXCEPT !.refs = Append(@, f)] \in Rule
  <2>1. Append(u.refs, f) \in Seq(Reference)
    BY AppendProperties DEF Rule
  <2> QED BY <2>1 DEF Rule
<1>2. ASSUME NEW c \in Constraint \cup {Null}
      PROVE  [u EXCEPT !.refs[1].cons = c] \in Rule
  <2> DEFINE s == [u.refs EXCEPT ![1].cons = c]
  <2>1. s \in Seq(Reference)
    <3>1. u.refs \in [1..Len(u.refs) -> Reference] /\ Len(u.refs) \in Nat
      BY LenProperties DEF Rule
    <3>2. \A k \in 1..Len(u.refs) : s[k] \in Reference
      BY <3>1, SetReference
    <3>3. s \in [1..Len(u.refs) -> Reference]
      BY <3>1, <3>2
    <3> QED BY <3>1, <3>3, SeqDef
  <2> QED BY <2>1 DEF Rule
<1> QED BY <1>1, <1>2

\* What is created has its type, and is not null.
LEMMA NewTyped ==
    /\ \A n \in Ident \cup Builtin \cup {Empty} : NewReference(n) \in Reference
    /\ \A t \in RuleTypes : [type |-> t, refs |-> <<>>, ext |-> FALSE] \in Rule
    /\ NoRegisters \in Registers
    /\ Null \notin NT \cup Rule \cup Reference
BY ParserAssumption DEF NewReference, Reference, Rule, NoRegisters, Registers

-----------------------------------------------------------------------------
\* What is put off until a state is left finds what it needs.
LEMMA LeaveTyped ==
    ASSUME NEW c, NEW x \in Registers, Pointers(c, x), ~Broken(c, x)
    PROVE  Leave(c, x) \in Registers /\ PointersLeft(c, Leave(c, x))
<1> DEFINE y == Leave(c, x)
<1> USE DEF NTStates, RuleStates, RefStates, InRecord
<1>1. CASE c = "defname"
  BY <1>1, SetRegister DEF Leave, EndIdent, Pointers, PointersLeft, Registers
<1>2. CASE c = "assign"
  <2>1. [name |-> Text(x.ident), coord |-> Null] \in NT
    BY <1>2 DEF Text, Broken, NT, Registers
  <2>2. y = NewSymbol(x)
    BY <1>2 DEF Leave
  <2>3. x.ident # Half
    BY <1>2 DEF Broken
  <2> QED BY <1>2, <2>1, <2>2, <2>3, NewTyped DEF NewSymbol, Pointers, PointersLeft, Registers
<1>3. CASE c = "rhs_tag"
  BY <1>3, NewTyped DEF Leave, TagSymbol, NT, Pointers, PointersLeft, Registers
<1>4. CASE c = "link"
  <2>1. x.ident \in Ident \cup Builtin
    BY <1>4 DEF Broken, Pointers, Registers
  <2>2. [type |-> "LINK", refs |-> <<NewReference(x.ident)>>, ext |-> FALSE] \in Rule
    BY <2>1, NewTyped DEF Rule, RuleTypes
  <2>3. NewReference(Empty) \in Reference
    BY NewTyped
  <2>4. y = NewLink(x)
    BY <1>4 DEF Leave
  <2> QED BY ZenonT(40), <1>4, <2>2, <2>3, <2>4, NewTyped DEF NewLink, Pointers, PointersLeft, Registers
<1>5. CASE c = "link_size"
  <2> DEFINE u == [x.rule EXCEPT !.refs[1].cons = x.ref.cons]
             f == [x.ref EXCEPT !.cons = Null]
  <2>1. x.rule \in Rule /\ x.ref \in Reference
    BY <1>5 DEF Pointers, Registers
  <2>2. u \in Rule
    BY <2>1, SetRefs DEF Reference
  <2>3. f \in Reference
    BY <2>1, SetReference
  <2>4. y = [[x EXCEPT !.rule = u] EXCEPT !.ref = f]
    BY <1>5 DEF Leave, MoveConstraint, Registers
  <2> HIDE DEF u, f
  <2>5. [x EXCEPT !.rule = u] \in Registers
    BY <2>2, SetRegister
  <2>6. y \in Registers
    BY <2>3, <2>4, <2>5, SetRegister
  <2>7. y.rule = u /\ y.ref = f /\ y.ident = x.ident /\ y.nt = x.nt
    BY <2>4 DEF Registers
  <2> QED BY <1>5, <2>2, <2>3, <2>6, <2>7, NewTyped DEF Pointers, PointersLeft
<1>6. CASE c \in {"SEQUENCE", "SET", "CHOICE"}
  BY ZenonT(40), <1>6, NewTyped DEF Leave, NewRule, RuleTypes, Pointers, PointersLeft, Registers
<1>7. CASE c = "brace"
  BY <1>7, NewTyped DEF Leave, OpenRecord, Pointers, PointersLeft, Registers
<1>8. CASE c = "fname"
  BY <1>8, NewTyped DEF Leave, Pointers, PointersLeft, Broken, Registers, Reference
<1>9. CASE c = "ftag"
  BY <1>9, NewTyped DEF Leave, Pointers, PointersLeft, Registers, Reference
<1>10. CASE c = "ftype"
  BY <1>10, NewTyped DEF Leave, Pointers, PointersLeft, Broken, Registers, Reference
<1>11. CASE c = "fopt"
  <2>1. [x.ref EXCEPT !.opt = TRUE] \in Reference
    BY <1>11, SetReference DEF Pointers, Registers
  <2>2. y = [x EXCEPT !.ref = [x.ref EXCEPT !.opt = TRUE]]
    BY <1>11 DEF Leave, Registers
  <2> QED BY <1>11, <2>1, <2>2, NewTyped DEF Pointers, PointersLeft, Registers
<1>12. CASE c = "fext"
  BY ZenonT(40), <1>12, NewTyped DEF Leave, Pointers, PointersLeft, Registers, Rule
<1>13. CASE c = "comma"
  <2>1. [x.rule EXCEPT !.refs = Append(@, x.ref)] \in Rule
    BY <1>13, SetRefs DEF Pointers, Registers
  <2>2. NewReference(Empty) \in Reference
    BY NewTyped
  <2>3. y = PushReference(x)
    BY <1>13 DEF Leave
  <2> QED BY ZenonT(40), <1>13, <2>1, <2>2, <2>3, NewTyped DEF PushReference, Pointers, PointersLeft, Registers
<1>14. CASE c = "close"
  <2>1. [x.rule EXCEPT !.refs = Append(@, x.ref)] \in Rule
    BY <1>14, SetRefs DEF Pointers, Registers
  <2>2. y = CloseRecord(x)
    BY <1>14 DEF Leave
  <2> QED BY <1>14, <2>1, <2>2, NewTyped DEF CloseRecord, Pointers, PointersLeft, Registers
<1>15. CASE c = "OF"
  BY <1>15, NewTyped DEF Leave, NewList, NewRule, RuleTypes, Pointers, PointersLeft, Registers
<1>16. CASE c = "oftype"
  <2>1. NewReference(x.ident) \in Reference
    BY <1>16, NewTyped DEF Broken, Pointers, Registers
  <2>2. [x.rule EXCEPT !.refs = Append(@, NewReference(x.ident))] \in Rule
    BY <1>16, <2>1, SetRefs DEF Pointers, Registers
  <2>3. y = PushElement(x)
    BY <1>16 DEF Leave
  <2> QED BY <1>16, <2>2, <2>3, NewTyped DEF PushElement, Pointers, PointersLeft, Registers
<1>17. CASE c \notin {"defname", "assign", "rhs_tag", "link", "link_size", "SEQUENCE",
                     "SET", "CHOICE", "brace", "fname", "ftag", "ftype", "fopt", "fext",
                     "comma", "close", "OF", "oftype"}
  BY <1>17 DEF Leave, Pointers, PointersLeft
<1> QED BY <1>1, <1>2, <1>3, <1>4, <1>5, <1>6, <1>7, <1>8, <1>9, <1>10, <1>11, <1>12,
           <1>13, <1>14, <1>15, <1>16, <1>17

\* What a lexeme does as it is read keeps types and pointers.
LEMMA EnterTyped ==
    ASSUME NEW x \in Registers, NEW l \in Lexeme, l.k = "size" => x.ref # Null
    PROVE  LET y == Enter(l, x) IN
           /\ y \in Registers
           /\ y.nt = x.nt /\ y.rule = x.rule
           /\ x.ref # Null => y.ref # Null
           /\ y.ident = Half => x.ident = Half
<1>1. CASE l.k \in {"type", "builtin"}
  <2>1. l.v \in Ident \cup Builtin
    BY <1>1 DEF Lexeme
  <2> QED BY <1>1, <2>1, SetRegister, ParserAssumption DEF Enter, Registers
<1>2. CASE l.k = "name"
  <2>1. l.v \in Field
    BY <1>2 DEF Lexeme
  <2> QED BY <1>2, <2>1, SetRegister DEF Enter, Registers
<1>3. CASE l.k = "tag"
  <2>1. l.v \in Tag
    BY <1>3 DEF Lexeme
  <2> QED BY <1>3, <2>1, SetRegister DEF Enter, Registers
<1>4. CASE l.k = "size"
  <2>1. l.v \in Constraint /\ x.ref \in Reference
    BY <1>4 DEF Lexeme, Registers
  <2> DEFINE f == [x.ref EXCEPT !.cons = l.v]
  <2>2. f \in Reference
    BY <2>1, SetReference
  <2>3. Enter(l, x) = [x EXCEPT !.ref = f]
    BY <1>4 DEF Enter
  <2> HIDE DEF f
  <2> QED BY <2>2, <2>3, SetRegister, NewTyped DEF Registers
<1>5. CASE l.k \notin {"type", "builtin", "name", "tag", "size"}
  BY <1>5 DEF Enter
<1> QED BY <1>1, <1>2, <1>3, <1>4, <1>5

-----------------------------------------------------------------------------
\* The text that is read, and the next lexeme.
LEMMA SourceTyped ==
    ASSUME Inv
    PROVE  /\ Source \in Seq(Lexeme) /\ Len(Source) \in Nat
           /\ Reading => Next1 \in Lexeme /\ pos + 1 \in 0..Len(Source)
<1>1. Source \in Seq(Lexeme)
  <2>1. input.texts # <<>> /\ input.texts \in Seq(Seq(Lexeme))
    BY DEF Inv, TypeOK
  <2>2. Len(input.texts) \in Nat /\ Len(input.texts) # 0
    BY <2>1, EmptySeq, LenProperties
  <2>3. (IF file = 0 THEN 1 ELSE file) \in 1..Len(input.texts)
    BY <2>2 DEF Inv, TypeOK
  <2> QED BY <2>1, <2>3, ElementOfSeq DEF Source
<1>2. Len(Source) \in Nat
  BY <1>1, LenProperties
<1>3. Reading => pos + 1 \in 1..Len(Source)
  BY <1>2 DEF Reading, Inv, TypeOK
<1>4. \A n \in 1..Len(Source) : Source[n] \in Lexeme
  BY <1>1, ElementOfSeq
<1> QED BY <1>1, <1>2, <1>3, <1>4 DEF Next1

\* The invariant at first.
LEMMA InitInv == ASSUME Init PROVE Inv
<1>1. /\ input.texts \in Seq(Seq(Lexeme)) /\ input.texts # <<>>
      /\ input.says \in Seq(Seq(Definition)) /\ Len(input.says) = Len(input.texts)
  BY ParserAssumption DEF Init
<1>2. Len(input.texts) \in Nat /\ Len(input.texts) # 0
  BY <1>1, EmptySeq, LenProperties
<1>3. 1 \in 1..Len(input.texts)
  BY <1>2
<1>4. input.texts[1] \in Seq(Lexeme)
  BY <1>1, <1>3, ElementOfSeq
<1>5. Source = input.texts[1] /\ 0 \in 0..Len(Source)
  BY <1>4, LenProperties DEF Init, Source
<1>6. TypeOK
  BY <1>1, <1>2, <1>5, TopState, NewTyped DEF Init, TypeOK
<1>7. Pointers(cs, reg)
  BY ParserAssumption DEF Init, Pointers, NoRegisters, NTStates, RuleStates, RefStates, InRecord
<1> QED BY <1>1, <1>6, <1>7 DEF Inv

\* An exception changes nothing else.
LEMMA ThrowInv ==
    ASSUME Inv, NEW how \in {"error", "duplicate", "null"}, Throw(how) PROVE Inv'
BY DEF Throw, Inv, TypeOK, Source

\* A comment: type_ident and last are null again.
LEMMA CommentInv == ASSUME Inv, Comment PROVE Inv'
<1>1. reg' \in Registers /\ reg'.ident # Half
  BY ParserAssumption DEF Comment, NextSection, Inv, TypeOK, Registers
<1>2. reg'.nt = reg.nt /\ reg'.rule = reg.rule /\ reg'.ref = reg.ref
  BY DEF Comment, NextSection, Inv, TypeOK, Registers
<1>3. TypeOK'
  BY <1>1, SourceTyped DEF Comment, Inv, TypeOK, Source
<1>4. Pointers(cs, reg)'
  BY <1>1, <1>2 DEF Comment, Inv, Pointers
<1> QED BY <1>3, <1>4 DEF Comment, Inv

\* A lexeme within a definition.
LEMMA ReadInv == ASSUME Inv, NEW s \in States, Read(s) PROVE Inv'
<1> DEFINE x == Leave(cs, reg)
<1>1. x \in Registers /\ PointersLeft(cs, x)
  BY LeaveTyped DEF Read, Inv, TypeOK
<1>2. Next1 \in Lexeme /\ <<cs, Next1.k, s>> \in Edges
  BY SourceTyped DEF Read, Leads
<1>3. Next1.k = "size" => x.ref # Null
  BY <1>1, <1>2, EdgeOrder DEF PointersLeft, RefStates, InRecord
<1>4. reg' = Enter(Next1, x) /\ cs' = s /\ pos' = pos + 1
  BY DEF Read
<1> HIDE DEF x
<1>5. /\ reg' \in Registers
      /\ reg'.nt = x.nt /\ reg'.rule = x.rule
      /\ x.ref # Null => reg'.ref # Null
      /\ reg'.ident = Half => x.ident = Half
  BY <1>1, <1>2, <1>3, <1>4, EnterTyped
<1>6. Pointers(s, reg')
  BY <1>1, <1>2, <1>5, EdgeOrder DEF Pointers, PointersLeft
<1>7. TypeOK'
  BY <1>4, <1>5, SourceTyped DEF Read, Inv, TypeOK, Source
<1> QED BY <1>4, <1>6, <1>7 DEF Read, Inv

\* What is pushed is a definition.
LEMMA PushTyped ==
    ASSUME Inv, cs \in Complete
    PROVE  Pushed \in Definition /\ (Push => defs' \in Seq(Definition))
<1>1. reg.nt \in NT /\ reg.rule \in Rule
  BY DEF Inv, TypeOK, Registers, Pointers, Complete, NTStates, RuleStates, RefStates
<1>2. Pushed \in Definition
  BY <1>1 DEF Pushed, Definition, NT
<1>3. Append(defs, Pushed) \in Seq(Definition)
  BY <1>2, AppendProperties DEF Inv, TypeOK
<1> QED BY <1>2, <1>3 DEF Push, Inv, TypeOK

\* The first lexeme behind a definition.
LEMMA ReadNextInv == ASSUME Inv, NEW s \in States, ReadNextDefinition(s) PROVE Inv'
<1>1. CASE Throw("duplicate")
  BY <1>1, ThrowInv
<1>2. CASE ~Throw("duplicate")
  <2> DEFINE x == [reg EXCEPT !.nt = Null, !.rule = Null]
  <2>1. /\ reg' = Enter(Next1, x) /\ cs' = s /\ pos' = pos + 1 /\ Push
        /\ cs \in Complete /\ Next1.k \notin {"ws", "size"}
        /\ UNCHANGED <<input, file, mode>>
    BY <1>2 DEF ReadNextDefinition, EndsDefinition
  <2>2. Next1 \in Lexeme /\ <<cs, Next1.k, s>> \in Edges
    BY SourceTyped DEF ReadNextDefinition, Leads
  <2>3. x \in Registers /\ x.ident = reg.ident
    BY DEF Inv, TypeOK, Registers
  <2> HIDE DEF x
  <2>4. reg' \in Registers /\ (reg'.ident = Half => reg.ident = Half)
    BY <2>1, <2>2, <2>3, EnterTyped
  <2>5. s \in {"defname", "END"} /\ reg.ident # Half
    BY <2>1, <2>2, EdgeOrder DEF Inv, Pointers, Complete
  <2>6. Pointers(s, reg')
    BY <2>4, <2>5 DEF Pointers, NTStates, RuleStates, RefStates, InRecord
  <2>7. pos + 1 \in 0..Len(Source) /\ Source' = Source
    BY <2>1, SourceTyped DEF ReadNextDefinition, Source
  <2>8. TypeOK'
    BY <2>1, <2>4, <2>7, PushTyped DEF Inv, TypeOK
  <2> QED BY <2>1, <2>6, <2>8 DEF Inv
<1> QED BY <1>1, <1>2

\* The end of a file: the next one has a parser of its own.
LEMMA EndOfFileInv == ASSUME Inv, EndOfFile PROVE Inv'
<1>1. CASE Throw("duplicate")
  BY <1>1, ThrowInv
<1>2. CASE ~Throw("duplicate")
  <2>1. UNCHANGED input /\ defs' \in Seq(Definition)
    BY <1>2, PushTyped DEF EndOfFile, Inv, TypeOK
  <2>2. CASE /\ file < Len(input.texts)
             /\ file' = file + 1 /\ pos' = 0 /\ cs' = "top" /\ reg' = NoRegisters
             /\ UNCHANGED mode
    <3>1. input.texts \in Seq(Seq(Lexeme)) /\ Len(input.texts) \in Nat
      BY LenProperties DEF Inv, TypeOK
    <3>2. file + 1 \in 1..Len(input.texts)
      BY <2>2, <3>1 DEF Inv, TypeOK
    <3>3. input.texts[file + 1] \in Seq(Lexeme)
      BY <3>1, <3>2, ElementOfSeq
    <3>4. Source' = input.texts[file + 1]
      BY <2>1, <2>2, <3>2 DEF Source
    <3>5. 0 \in 0..Len(Source')
      BY <3>3, <3>4, LenProperties
    <3>6. TypeOK'
      BY <2>1, <2>2, <3>2, <3>5, TopState, NewTyped DEF Inv, TypeOK
    <3>7. Pointers("top", NoRegisters)
      BY ParserAssumption DEF Pointers, NoRegisters, NTStates, RuleStates, RefStates, InRecord
    <3> QED BY <2>1, <2>2, <3>6, <3>7 DEF Inv
  <2>3. CASE mode' = "done" /\ UNCHANGED <<file, pos, cs, reg>>
    BY <2>1, <2>3 DEF Inv, TypeOK, Source
  <2> QED BY <1>2, <2>2, <2>3 DEF EndOfFile
<1> QED BY <1>1, <1>2

\* Every step of the parser keeps the pointers valid.
LEMMA NextInv == ASSUME Inv, [Next]_vars PROVE Inv'
<1>1. CASE ReadBlank
  BY <1>1, SourceTyped DEF ReadBlank, Inv, TypeOK, Source
<1>2. CASE Reject \/ \E s \in States : ReadBroken(s)
  BY <1>2, ThrowInv DEF Reject, ReadBroken
<1>3. CASE UNCHANGED vars
  BY <1>3 DEF vars, Inv, TypeOK, Source
<1> QED BY <1>1, <1>2, <1>3, CommentInv, ReadInv, ReadNextInv, EndOfFileInv DEF Next

-----------------------------------------------------------------------------
(* The automaton.                                                           *)
\* The state that a blank leads to.
AfterBlank(c) ==
    CASE c = "header"                       -> "list"
      [] c = "defname"                      -> "defname_ws"
      [] c = "assign"                       -> "rhs"
      [] c = "link"                         -> "link_ws"
      [] c \in {"SEQUENCE", "SET"}          -> "record"
      [] c = "CHOICE"                       -> "choice"
      [] c \in {"brace", "comma"}           -> "field"
      [] c = "fname"                        -> "fname_ws"
      [] c = "ftype"                        -> "ftype_ws"
      [] c = "fsize"                        -> "fsize_ws"
      [] c \in {"fopt", "fext"}             -> "fend"
      [] c = "OF"                           -> "of"
      [] c \in {"link_size", "close", "oftype"} -> "done"
      [] c = "END"                          -> "end"
      [] OTHER                              -> c

\* States that only a lexeme other than a blank leads to.
Tight == {"header", "defname", "assign", "link", "link_size", "SEQUENCE", "SET",
          "CHOICE", "brace", "comma", "fname", "ftype", "fsize", "fopt", "fext",
          "close", "OF", "oftype", "END"}

Types == {"type", "builtin"}

\* The states: those in which blanks may follow blanks, and the others.
LEMMA StateList ==
    States = {"top", "list", "defname_ws", "rhs", "rhs_tag", "link_ws", "done", "record",
              "choice", "field", "fname_ws", "ftag", "ftype_ws", "fsize_ws", "fend",
              "of", "end"} \cup Tight
<1> DEFINE All == {"top", "list", "defname_ws", "rhs", "rhs_tag", "link_ws", "done", "record",
                   "choice", "field", "fname_ws", "ftag", "ftype_ws", "fsize_ws", "fend",
                   "of", "end"} \cup Tight
<1>1. ASSUME NEW e \in Edges PROVE e[1] \in All /\ e[3] \in All
  BY SMTT(60) DEF Edges, Tight
<1>2. ASSUME NEW c \in All PROVE <<c, "ws", AfterBlank(c)>> \in Edges
  BY SMTT(60) DEF Edges, AfterBlank, Tight
<1>3. States \subseteq All
  BY <1>1 DEF States
<1>4. ASSUME NEW c \in All PROVE c \in States
  <2>1. c = <<c, "ws", AfterBlank(c)>>[1]
    OBVIOUS
  <2> HIDE DEF All
  <2> QED BY <1>2, <2>1 DEF States
<1> QED BY <1>3, <1>4

\* Blanks can be read in each state and lead to just one.
LEMMA BlankEdges ==
    /\ \A c \in States : /\ <<c, "ws", AfterBlank(c)>> \in Edges
                         /\ AfterBlank(c) \in States \ Tight
                         /\ c \notin Tight => AfterBlank(c) = c
    /\ \A c, s : <<c, "ws", s>> \in Edges => s = AfterBlank(c) /\ c \in States
<1>1. ASSUME NEW c \in States
      PROVE  /\ <<c, "ws", AfterBlank(c)>> \in Edges
             /\ AfterBlank(c) \in States \ Tight
             /\ c \notin Tight => AfterBlank(c) = c
  <2>1. <<c, "ws", AfterBlank(c)>> \in Edges
    BY StateList, SMTT(60) DEF Edges, AfterBlank, Tight
  <2>2. AfterBlank(c) \in States \ Tight
    BY StateList, SMTT(60) DEF AfterBlank, Tight
  <2>3. c \notin Tight => AfterBlank(c) = c
    BY StateList, SMTT(60) DEF AfterBlank, Tight
  <2> QED BY <2>1, <2>2, <2>3
<1>2. ASSUME NEW c, NEW s, <<c, "ws", s>> \in Edges PROVE s = AfterBlank(c) /\ c \in States
  <2>1. s = AfterBlank(c)
    BY <1>2, SMTT(60) DEF Edges, AfterBlank
  <2>2. c = <<c, "ws", s>>[1]
    OBVIOUS
  <2> QED BY <1>2, <2>1, <2>2 DEF States
<1> QED BY <1>1, <1>2

\* The edges, listed.
LEMMA EdgeForms ==
    ASSUME NEW c, NEW k, NEW s
    PROVE  <<c, k, s>> \in Edges =>
    \/ k = "ws"
    \/ c = "top" /\ k = "header" /\ s = "header"
    \/ c \in {"top", "list", "done", "link_ws"} /\ k \in {"type", "builtin"} /\ s = "defname"
    \/ c \in {"done", "link_ws"} /\ k = "END" /\ s = "END"
    \/ c \in {"defname", "defname_ws"} /\ k = "::=" /\ s = "assign"
    \/ c \in {"assign", "rhs"} /\ k = "tag" /\ s = "rhs_tag"
    \/ c \in {"assign", "rhs", "rhs_tag"} /\ k \in {"type", "builtin"} /\ s = "link"
    \/ c \in {"assign", "rhs", "rhs_tag"} /\ k \in {"SEQUENCE", "SET", "CHOICE"} /\ s = k
    \/ c \in {"link", "link_ws"} /\ k = "size" /\ s = "link_size"
    \/ c \in {"SEQUENCE", "SET", "CHOICE", "record", "choice"} /\ k = "brace" /\ s = "brace"
    \/ c \in {"brace", "field", "comma"} /\ k = "name" /\ s = "fname"
    \/ c \in {"brace", "field", "comma"} /\ k = "..." /\ s = "fext"
    \/ c = "fname_ws" /\ k = "tag" /\ s = "ftag"
    \/ c \in {"fname_ws", "ftag"} /\ k \in {"type", "builtin"} /\ s = "ftype"
    \/ c \in {"ftype", "ftype_ws"} /\ k = "size" /\ s = "fsize"
    \/ c \in {"ftype_ws", "fsize", "fsize_ws"} /\ k = "OPTIONAL" /\ s = "fopt"
    \/ /\ c \in {"ftype", "ftype_ws", "fsize", "fsize_ws", "fopt", "fend", "fext"}
       /\ k \in {"comma", "close"} /\ s = k
    \/ c \in {"record", "SEQUENCE", "SET"} /\ k = "OF" /\ s = "OF"
    \/ c = "of" /\ k \in {"type", "builtin"} /\ s = "oftype"
BY SMTT(60) DEF Edges

\* The lexemes that can come next, and where they lead.
LEMMA EdgeTargets ==
    ASSUME NEW c, NEW k, NEW s, <<c, k, s>> \in Edges, k # "ws"
    PROVE  /\ k # "comment" /\ s \in States /\ s # c
           /\ s \in Tight \cup {"rhs_tag", "ftag"}
           /\ s = "END" <=> k = "END"
           /\ c \in {"top", "header", "list"} =>
                  \/ c = "top" /\ k = "header" /\ s = "header"
                  \/ k \in Types /\ s = "defname"
           /\ c \in {"defname", "defname_ws"} => k = "::=" /\ s = "assign"
           /\ c \in {"assign", "rhs"} =>
                  \/ k = "tag" /\ s = "rhs_tag"
                  \/ k \in Types /\ s = "link"
                  \/ k \in {"SEQUENCE", "SET", "CHOICE"} /\ s = k
           /\ c = "rhs_tag" =>
                  \/ k \in Types /\ s = "link"
                  \/ k \in {"SEQUENCE", "SET", "CHOICE"} /\ s = k
           /\ c \in {"link", "link_ws"} =>
                  \/ k = "size" /\ s = "link_size"
                  \/ c = "link_ws" /\ k \in Types /\ s = "defname"
                  \/ c = "link_ws" /\ k = "END" /\ s = "END"
           /\ c \in {"SEQUENCE", "SET", "record"} =>
                  \/ k = "brace" /\ s = "brace"
                  \/ k = "OF" /\ s = "OF"
           /\ c \in {"CHOICE", "choice"} => k = "brace" /\ s = "brace"
           /\ c \in {"brace", "comma", "field"} =>
                  \/ k = "name" /\ s = "fname"
                  \/ k = "..." /\ s = "fext"
           /\ c \in {"fname", "fname_ws"} =>
                  \/ k = "tag" /\ s = "ftag"
                  \/ k \in Types /\ s = "ftype"
           /\ c = "ftag" => k \in Types /\ s = "ftype"
           /\ c \in {"ftype", "ftype_ws"} =>
                  \/ k = "size" /\ s = "fsize"
                  \/ k = "OPTIONAL" /\ s = "fopt"
                  \/ k \in {"comma", "close"} /\ s = k
           /\ c \in {"fsize", "fsize_ws"} =>
                  \/ k = "OPTIONAL" /\ s = "fopt"
                  \/ k \in {"comma", "close"} /\ s = k
           /\ c \in {"fopt", "fext", "fend"} => k \in {"comma", "close"} /\ s = k
           /\ c \in {"OF", "of"} => k \in Types /\ s = "oftype"
           /\ c \in {"oftype", "link_size", "close", "done"} =>
                  \/ c = "done" /\ k \in Types /\ s = "defname"
                  \/ c = "done" /\ k = "END" /\ s = "END"
           /\ c \notin {"END", "end"}
<1> USE EdgeForms DEF Types
<1>1. k # "comment" /\ s \in States /\ s # c
  <2>1. s = <<c, k, s>>[3]
    OBVIOUS
  <2>2. s \in States
    BY <2>1 DEF States
  <2> QED BY <2>2
<1>2. s \in Tight \cup {"rhs_tag", "ftag"}
  BY DEF Tight
<1>3. s = "END" <=> k = "END"
  OBVIOUS
<1>4. c \in {"top", "header", "list"} =>
        \/ c = "top" /\ k = "header" /\ s = "header"
        \/ k \in Types /\ s = "defname"
  OBVIOUS
<1>5. c \in {"defname", "defname_ws"} => k = "::=" /\ s = "assign"
  OBVIOUS
<1>6. c \in {"assign", "rhs"} =>
        \/ k = "tag" /\ s = "rhs_tag"
        \/ k \in Types /\ s = "link"
        \/ k \in {"SEQUENCE", "SET", "CHOICE"} /\ s = k
  OBVIOUS
<1>7. c = "rhs_tag" =>
        \/ k \in Types /\ s = "link"
        \/ k \in {"SEQUENCE", "SET", "CHOICE"} /\ s = k
  OBVIOUS
<1>8. c \in {"link", "link_ws"} =>
        \/ k = "size" /\ s = "link_size"
        \/ c = "link_ws" /\ k \in Types /\ s = "defname"
        \/ c = "link_ws" /\ k = "END" /\ s = "END"
  OBVIOUS
<1>9. c \in {"SEQUENCE", "SET", "record"} =>
        \/ k = "brace" /\ s = "brace"
        \/ k = "OF" /\ s = "OF"
  OBVIOUS
<1>10. c \in {"CHOICE", "choice"} => k = "brace" /\ s = "brace"
  OBVIOUS
<1>11. c \in {"brace", "comma", "field"} =>
        \/ k = "name" /\ s = "fname"
        \/ k = "..." /\ s = "fext"
  OBVIOUS
<1>12. c \in {"fname", "fname_ws"} =>
        \/ k = "tag" /\ s = "ftag"
        \/ k \in Types /\ s = "ftype"
  OBVIOUS
<1>13. c = "ftag" => k \in Types /\ s = "ftype"
  OBVIOUS
<1>14. c \in {"ftype", "ftype_ws"} =>
        \/ k = "size" /\ s = "fsize"
        \/ k = "OPTIONAL" /\ s = "fopt"
        \/ k \in {"comma", "close"} /\ s = k
  OBVIOUS
<1>15. c \in {"fsize", "fsize_ws"} =>
        \/ k = "OPTIONAL" /\ s = "fopt"
        \/ k \in {"comma", "close"} /\ s = k
  OBVIOUS
<1>16. c \in {"fopt", "fext", "fend"} => k \in {"comma", "close"} /\ s = k
  OBVIOUS
<1>17. c \in {"OF", "of"} => k \in Types /\ s = "oftype"
  OBVIOUS
<1>18. c \in {"oftype", "link_size", "close", "done"} =>
        \/ c = "done" /\ k \in Types /\ s = "defname"
        \/ c = "done" /\ k = "END" /\ s = "END"
  OBVIOUS
<1>19. c \notin {"END", "end"}
  OBVIOUS
<1> QED BY <1>1, <1>2, <1>3, <1>4, <1>5, <1>6, <1>7, <1>8, <1>9, <1>10, <1>11, <1>12, <1>13, <1>14, <1>15, <1>16, <1>17, <1>18, <1>19

\* What can be read where there are blanks between lexemes.
LEMMA EdgesThere ==
    /\ <<"top", "header", "header">> \in Edges
    /\ \A c \in {"top", "list", "done", "link_ws"} : \A k \in Types : <<c, k, "defname">> \in Edges
    /\ \A c \in {"done", "link_ws"} : <<c, "END", "END">> \in Edges
    /\ <<"defname_ws", "::=", "assign">> \in Edges
    /\ <<"rhs", "tag", "rhs_tag">> \in Edges
    /\ \A c \in {"rhs", "rhs_tag"} : /\ \A k \in Types : <<c, k, "link">> \in Edges
                                     /\ \A k \in {"SEQUENCE", "SET", "CHOICE"} : <<c, k, k>> \in Edges
    /\ <<"link_ws", "size", "link_size">> \in Edges
    /\ \A c \in {"record", "choice"} : <<c, "brace", "brace">> \in Edges
    /\ <<"record", "OF", "OF">> \in Edges
    /\ <<"field", "name", "fname">> \in Edges /\ <<"field", "...", "fext">> \in Edges
    /\ <<"fname_ws", "tag", "ftag">> \in Edges
    /\ \A c \in {"fname_ws", "ftag"} : \A k \in Types : <<c, k, "ftype">> \in Edges
    /\ <<"ftype_ws", "size", "fsize">> \in Edges
    /\ \A c \in {"ftype_ws", "fsize_ws"} : <<c, "OPTIONAL", "fopt">> \in Edges
    /\ \A c \in {"ftype", "ftype_ws", "fsize", "fsize_ws", "fopt", "fend", "fext"} :
          <<c, "comma", "comma">> \in Edges
    /\ \A c \in {"ftype_ws", "fsize_ws", "fend"} : <<c, "close", "close">> \in Edges
    /\ \A k \in Types : <<"of", k, "oftype">> \in Edges
<1>1. /\ <<"top", "header", "header">> \in Edges
      /\ \A c \in {"top", "list", "done", "link_ws"} : \A k \in Types : <<c, k, "defname">> \in Edges
      /\ \A c \in {"done", "link_ws"} : <<c, "END", "END">> \in Edges
      /\ <<"defname_ws", "::=", "assign">> \in Edges
  BY SMTT(60) DEF Edges, Types
<1>2. /\ <<"rhs", "tag", "rhs_tag">> \in Edges
      /\ \A c \in {"rhs", "rhs_tag"} : /\ \A k \in Types : <<c, k, "link">> \in Edges
                                       /\ \A k \in {"SEQUENCE", "SET", "CHOICE"} : <<c, k, k>> \in Edges
      /\ <<"link_ws", "size", "link_size">> \in Edges
      /\ \A c \in {"record", "choice"} : <<c, "brace", "brace">> \in Edges
  BY SMTT(60) DEF Edges, Types
<1>3. /\ <<"record", "OF", "OF">> \in Edges
      /\ <<"field", "name", "fname">> \in Edges /\ <<"field", "...", "fext">> \in Edges
      /\ <<"fname_ws", "tag", "ftag">> \in Edges
      /\ \A c \in {"fname_ws", "ftag"} : \A k \in Types : <<c, k, "ftype">> \in Edges
  BY SMTT(60) DEF Edges, Types
<1>4. /\ <<"ftype_ws", "size", "fsize">> \in Edges
      /\ \A c \in {"ftype_ws", "fsize_ws"} : <<c, "OPTIONAL", "fopt">> \in Edges
      /\ \A c \in {"ftype", "ftype_ws", "fsize", "fsize_ws", "fopt", "fend", "fext"} :
            <<c, "comma", "comma">> \in Edges
      /\ \A c \in {"ftype_ws", "fsize_ws", "fend"} : <<c, "close", "close">> \in Edges
  BY SMTT(60) DEF Edges, Types
<1>5. /\ \A k \in Types : <<"of", k, "oftype">> \in Edges
  BY SMTT(60) DEF Edges, Types
<1> QED BY <1>1, <1>2, <1>3, <1>4, <1>5

-----------------------------------------------------------------------------
(* The rule in the making.                                                  *)
\* What rules and references look like on the way.
RefMade(r) == IF r.name = Empty THEN r = NewReference(Empty) ELSE r.symbol # Empty

RecordTypes == {"SEQUENCE", "ALL", "CHOICE"}

Bare(u, types) == u.type \in types /\ u.refs = <<>> /\ ~u.ext

OpenRule(u) == u.type \in RecordTypes /\ \A k \in DOMAIN u.refs : RefMade(u.refs[k])

LinkTo(n) == [type |-> "LINK", refs |-> <<NewReference(n)>>, ext |-> FALSE]

LinkRule(u) == \E n \in Ident \cup Builtin : u = LinkTo(n)

RuleFormed(u) == Formed([rule |-> u])

\* In the state c with registers x ...
Making(c, x) ==
    /\ c \in {"link_ws", "link_size"} => LinkRule(x.rule)
    /\ c \in {"record", "OF"} => Bare(x.rule, {"SEQUENCE", "ALL"})
    /\ c = "choice" => Bare(x.rule, {"CHOICE"})
    /\ c = "brace" => Bare(x.rule, RecordTypes)
    /\ c \in {"of", "oftype"} => Bare(x.rule, {"LIST", "SET"})
    /\ c \in InRecord \cup {"close"} => OpenRule(x.rule)
    /\ c \in {"field", "fname", "fext"} => x.ref = NewReference(Empty)
    /\ c \in {"fname_ws", "ftag", "ftype"} => x.ref.name # Empty
    /\ c \in {"ftype_ws", "fsize", "fsize_ws", "fopt"} =>
          x.ref.name # Empty /\ x.ref.symbol # Empty
    /\ c \in {"fend", "comma", "close"} => RefMade(x.ref)
    /\ c = "done" => RuleFormed(x.rule)

\* ... and when the actions on leaving it have run.
MakingLeft(c, x) ==
    /\ c \in {"link", "link_ws"} => LinkRule(x.rule)
    /\ c \in {"SEQUENCE", "SET", "record"} => Bare(x.rule, {"SEQUENCE", "ALL"})
    /\ c \in {"CHOICE", "choice"} => Bare(x.rule, {"CHOICE"})
    /\ c \in {"OF", "of"} => Bare(x.rule, {"LIST", "SET"})
    /\ c \in InRecord \cup {"brace"} => OpenRule(x.rule)
    /\ c \in {"brace", "comma", "field", "fext"} => x.ref = NewReference(Empty)
    /\ c \in {"fname", "fname_ws", "ftag"} => x.ref.name # Empty
    /\ c \in {"ftype", "ftype_ws", "fsize", "fsize_ws", "fopt"} =>
          x.ref.name # Empty /\ x.ref.symbol # Empty
    /\ c = "fend" => RefMade(x.ref)
    /\ c \in {"link_size", "close", "oftype", "done"} => RuleFormed(x.rule)

\* Whether a definition is formed depends on its rule.
LEMMA FormedByRule == \A d : Formed(d) <=> RuleFormed(d.rule)
BY DEF Formed, RuleFormed

\* Links are formed, with a constraint or without.
LEMMA LinkFormed ==
    ASSUME NEW n \in Ident \cup Builtin, NEW c \in Constraint \cup {Null}
    PROVE  /\ RuleFormed([LinkTo(n) EXCEPT !.refs[1].cons = c])
           /\ RuleFormed(LinkTo(n))
<1> DEFINE u == [LinkTo(n) EXCEPT !.refs[1].cons = c]
<1>1. u.type = "LINK" /\ ~u.ext /\ u.refs = <<[NewReference(n) EXCEPT !.cons = c]>>
  <2>1. [<<NewReference(n)>> EXCEPT ![1].cons = c] = <<[NewReference(n) EXCEPT !.cons = c]>>
    OBVIOUS
  <2>2. u.refs = [<<NewReference(n)>> EXCEPT ![1].cons = c]
    BY DEF LinkTo
  <2>3. u.type = "LINK" /\ ~u.ext
    BY DEF LinkTo
  <2> QED BY <2>1, <2>2, <2>3
<1>2. NewReference(n) = [NewReference(n) EXCEPT !.cons = Null]
  <2>1. \A r \in Reference : r.cons = Null => r = [r EXCEPT !.cons = Null]
    BY DEF Reference
  <2>2. NewReference(n) \in Reference /\ NewReference(n).cons = Null
    BY NewTyped DEF NewReference
  <2> QED BY <2>1, <2>2
<1>3. RuleFormed(u)
  <2> HIDE DEF u
  <2> QED BY <1>1 DEF RuleFormed, Formed
<1>4. RuleFormed(LinkTo(n))
  BY <1>2 DEF RuleFormed, Formed, LinkTo
<1> QED BY <1>3, <1>4

\* A reference that is complete is pushed.
LEMMA OpenRuleGrows ==
    ASSUME NEW u \in Rule, OpenRule(u), NEW r \in Reference, RefMade(r)
    PROVE  OpenRule([u EXCEPT !.refs = Append(@, r)])
<1>1. u.refs \in Seq(Reference) /\ Len(u.refs) \in Nat
  BY LenProperties DEF Rule
<1> DEFINE v == Append(u.refs, r)
<1>2. /\ DOMAIN u.refs = 1..Len(u.refs) /\ DOMAIN v = 1..Len(u.refs) + 1
      /\ (\A k \in 1..Len(u.refs) : v[k] = u.refs[k]) /\ v[Len(u.refs) + 1] = r
  BY <1>1, AppendProperties, LenProperties
<1> HIDE DEF v
<1>3. \A k \in DOMAIN v : RefMade(v[k])
  BY <1>1, <1>2 DEF OpenRule
<1>4. /\ [u EXCEPT !.refs = v].refs = v /\ [u EXCEPT !.refs = v].type = u.type
  BY DEF Rule
<1> QED BY <1>3, <1>4 DEF OpenRule, v

\* A record all of whose references are complete is formed.
LEMMA OpenRuleFormed ==
    ASSUME NEW u \in Rule, OpenRule(u) PROVE RuleFormed(u)
BY DEF OpenRule, RecordTypes, RuleFormed, Formed, RefMade

\* The actions on leaving a state, on the rule in the making.
LEMMA MakingLeave ==
    ASSUME NEW c, NEW x \in Registers, Pointers(c, x), Making(c, x), ~Broken(c, x)
    PROVE  MakingLeft(c, Leave(c, x))
<1> DEFINE y == Leave(c, x)
<1> USE DEF NTStates, RuleStates, RefStates, InRecord
<1>1. CASE c \in {"defname", "assign", "rhs_tag"}
  BY <1>1 DEF MakingLeft
<1>2. CASE c = "link"
  <2>1. x.ident \in Ident \cup Builtin /\ y.rule = LinkTo(x.ident)
    BY <1>2 DEF Broken, Pointers, Registers, Leave, NewLink, LinkTo
  <2> QED BY <1>2, <2>1 DEF MakingLeft, LinkRule
<1>3. CASE c = "link_size"
  <2>1. x.rule \in Rule /\ x.ref \in Reference
    BY <1>3 DEF Pointers, Registers
  <2>2. y.rule = [x.rule EXCEPT !.refs[1].cons = x.ref.cons] /\ x.ref.cons \in Constraint \cup {Null}
    BY <1>3, <2>1 DEF Leave, MoveConstraint, Registers, Reference
  <2>3. PICK n \in Ident \cup Builtin : x.rule = LinkTo(n)
    BY <1>3 DEF Making, LinkRule
  <2>4. RuleFormed(y.rule)
    BY <2>2, <2>3, LinkFormed
  <2> QED BY <1>3, <2>4 DEF MakingLeft
<1>4. CASE c \in {"SEQUENCE", "SET", "CHOICE"}
  BY <1>4 DEF Leave, NewRule, Registers, MakingLeft, Bare
<1>5. CASE c = "brace"
  <2>1. x.rule \in Rule /\ Bare(x.rule, RecordTypes)
    BY <1>5 DEF Pointers, Registers, Making
  <2>2. y.rule = x.rule /\ y.ref = NewReference(Empty)
    BY <1>5 DEF Leave, OpenRecord, Registers
  <2>3. OpenRule(x.rule)
    BY <2>1 DEF Bare, OpenRule
  <2> QED BY <1>5, <2>2, <2>3 DEF MakingLeft
<1>6. CASE c = "fname"
  <2>1. y.rule = x.rule /\ y.ref.name = x.last
    BY <1>6, NewTyped DEF Leave, Registers, Pointers, Reference
  <2>2. x.last # Empty
    BY <1>6, ParserAssumption DEF Broken, Registers
  <2> QED BY <1>6, <2>1, <2>2 DEF MakingLeft, Making
<1>7. CASE c = "ftag"
  <2>1. y.rule = x.rule /\ y.ref.name = x.ref.name
    BY <1>7 DEF Leave, Registers, Pointers, Reference
  <2> QED BY <1>7, <2>1 DEF MakingLeft, Making
<1>8. CASE c = "ftype"
  <2>1. y.rule = x.rule /\ y.ref.name = x.ref.name /\ y.ref.symbol = x.ident
    BY <1>8 DEF Leave, Registers, Pointers, Reference
  <2>2. x.ident # Empty
    BY <1>8, ParserAssumption DEF Broken, Registers, Pointers
  <2> QED BY <1>8, <2>1, <2>2 DEF MakingLeft, Making
<1>9. CASE c = "fopt"
  <2>1. y.rule = x.rule /\ y.ref.name = x.ref.name /\ y.ref.symbol = x.ref.symbol
    BY <1>9 DEF Leave, Registers, Pointers, Reference
  <2> QED BY <1>9, <2>1 DEF MakingLeft, Making
<1>10. CASE c = "fext"
  <2>1. y.rule = [x.rule EXCEPT !.ext = TRUE] /\ y.ref = x.ref /\ x.rule \in Rule
    BY <1>10 DEF Leave, Registers, Pointers
  <2>2. y.rule.type = x.rule.type /\ y.rule.refs = x.rule.refs
    BY <2>1 DEF Rule
  <2> QED BY <1>10, <2>1, <2>2 DEF MakingLeft, Making, OpenRule
<1>11. CASE c = "comma"
  <2>1. x.rule \in Rule /\ x.ref \in Reference /\ OpenRule(x.rule) /\ RefMade(x.ref)
    BY <1>11 DEF Registers, Pointers, Making
  <2>2. y.rule = [x.rule EXCEPT !.refs = Append(@, x.ref)] /\ y.ref = NewReference(Empty)
    BY <1>11 DEF Leave, PushReference, Registers
  <2>3. OpenRule(y.rule)
    BY <2>1, <2>2, OpenRuleGrows
  <2> QED BY <1>11, <2>2, <2>3 DEF MakingLeft
<1>12. CASE c = "close"
  <2>1. x.rule \in Rule /\ x.ref \in Reference /\ OpenRule(x.rule) /\ RefMade(x.ref)
    BY <1>12 DEF Registers, Pointers, Making
  <2>2. y.rule = x.rule \/ y.rule = [x.rule EXCEPT !.refs = Append(@, x.ref)]
    BY <1>12 DEF Leave, CloseRecord, Registers
  <2>3. OpenRule(y.rule) /\ y.rule \in Rule
    BY <2>1, <2>2, OpenRuleGrows, SetRefs
  <2> QED BY <1>12, <2>3, OpenRuleFormed DEF MakingLeft
<1>13. CASE c = "OF"
  BY <1>13 DEF Leave, NewList, NewRule, Registers, MakingLeft, Bare
<1>14. CASE c = "oftype"
  <2>1. x.rule \in Rule /\ Bare(x.rule, {"LIST", "SET"}) /\ x.ident \in Ident \cup Builtin
    BY <1>14 DEF Registers, Pointers, Making, Broken
  <2>2. y.rule = [x.rule EXCEPT !.refs = Append(@, NewReference(x.ident))]
    BY <1>14 DEF Leave, PushElement, Registers
  <2>3. /\ y.rule.refs = <<NewReference(x.ident)>> /\ y.rule.type = x.rule.type
        /\ y.rule.ext = x.rule.ext
    BY <2>1, <2>2 DEF Rule, Bare
  <2>4. RuleFormed(y.rule)
    BY <2>1, <2>3 DEF RuleFormed, Formed, Bare
  <2> QED BY <1>14, <2>4 DEF MakingLeft
<1>15. CASE c \notin {"defname", "assign", "rhs_tag", "link", "link_size", "SEQUENCE",
                     "SET", "CHOICE", "brace", "fname", "ftag", "ftype", "fopt", "fext",
                     "comma", "close", "OF", "oftype"}
  <2>1. y = x
    BY <1>15 DEF Leave
  <2> QED BY <1>15, <2>1 DEF Making, MakingLeft
<1> QED BY <1>1, <1>2, <1>3, <1>4, <1>5, <1>6, <1>7, <1>8, <1>9, <1>10, <1>11, <1>12,
           <1>13, <1>14, <1>15

\* The edges, on the rule in the making.
LEMMA MakingEnter ==
    ASSUME NEW c, NEW s, NEW l \in Lexeme, <<c, l.k, s>> \in Edges,
           l.k # "ws" => c \notin {"link_ws", "done"} \/ l.k = "size",
           NEW y \in Registers, MakingLeft(c, y), PointersLeft(c, y)
    PROVE  Making(s, Enter(l, y))
<1> DEFINE x == Enter(l, y)
<1>1. x.rule = y.rule /\ (l.k # "size" => x.ref = y.ref)
  BY DEF Enter, Registers
<1>2. ASSUME l.k = "size", y.ref \in Reference
      PROVE  x.ref.name = y.ref.name /\ x.ref.symbol = y.ref.symbol
  BY <1>2 DEF Enter, Registers, Reference
<1> HIDE DEF x
<1> SUFFICES Making(s, x)
  BY DEF x
<1>3. CASE l.k = "ws"
  <2>1. s = AfterBlank(c) /\ c \in States /\ x.ref = y.ref
    BY <1>1, <1>3, BlankEdges
  <2>2. CASE c \in {"link", "link_size", "SEQUENCE", "SET", "CHOICE", "brace", "comma", "fname",
                    "ftype", "fsize", "close", "OF", "oftype"}
    BY ZenonT(40), <1>1, <2>1, <2>2 DEF AfterBlank, Making, MakingLeft, InRecord
  <2>5. CASE c \in {"fopt", "fext"}
    <3>1. s = "fend" /\ OpenRule(x.rule)
      BY <1>1, <2>1, <2>5 DEF AfterBlank, MakingLeft, InRecord
    <3>2. RefMade(x.ref)
      BY <2>1, <2>5, NewTyped DEF MakingLeft, RefMade, NewReference
    <3> QED BY <3>1, <3>2 DEF Making, InRecord
  <2>3. CASE c \in {"header", "defname", "assign", "END"}
    BY <2>1, <2>3 DEF AfterBlank, Making, InRecord
  <2>4. CASE c \notin {"link", "link_size", "SEQUENCE", "SET", "CHOICE", "brace", "comma", "fname",
                    "ftype", "fsize", "fopt", "fext", "close", "OF", "oftype",
                    "header", "defname", "assign", "END"}
    <3>1. s = c /\ c \notin Tight
      BY <2>1, <2>4, BlankEdges DEF Tight
    <3>2. c \in {"top", "list", "defname_ws", "rhs", "rhs_tag", "link_ws", "done", "record",
                 "choice", "field", "fname_ws", "ftag", "ftype_ws", "fsize_ws", "fend", "of", "end"}
      BY <2>1, <3>1, StateList
    <3> QED BY <1>1, <2>1, <3>1, <3>2 DEF Making, MakingLeft, InRecord
  <2> QED BY <2>2, <2>3, <2>4, <2>5
<1>4. CASE l.k = "size"
  <2>1. \/ c \in {"link", "link_ws"} /\ s = "link_size"
        \/ c \in {"ftype", "ftype_ws"} /\ s = "fsize"
    BY <1>4, EdgeForms
  <2>2. y.ref \in Reference
    BY <2>1 DEF PointersLeft, RefStates, InRecord, Registers
  <2> QED BY <1>1, <1>2, <1>4, <2>1, <2>2 DEF Making, MakingLeft, InRecord
<1>5. CASE l.k \notin {"ws", "size"}
  <2>1. x.ref = y.ref /\ x.rule = y.rule
    BY <1>1, <1>5
  <2>2. CASE s \in {"comma", "close"}
    <3>1. c \in {"ftype", "ftype_ws", "fsize", "fsize_ws", "fopt", "fend", "fext"}
      BY <1>5, <2>2, EdgeForms
    <3>2. OpenRule(x.rule)
      BY <2>1, <3>1 DEF MakingLeft, InRecord
    <3>3. RefMade(x.ref)
      BY <2>1, <3>1 DEF MakingLeft, RefMade, NewReference
    <3> QED BY <2>2, <3>2, <3>3 DEF Making, InRecord
  <2>3. CASE s \in {"fname", "fext"}
    <3>1. c \in {"brace", "field", "comma"}
      BY <1>5, <2>3, EdgeForms
    <3> QED BY <2>1, <2>3, <3>1 DEF Making, MakingLeft, InRecord
  <2>4. CASE s \in {"ftag", "ftype"}
    <3>1. c \in {"fname_ws", "ftag"}
      BY <1>5, <2>4, EdgeForms
    <3> QED BY <2>1, <2>4, <3>1 DEF Making, MakingLeft, InRecord
  <2>5. CASE s = "fopt"
    <3>1. c \in {"ftype_ws", "fsize", "fsize_ws"}
      BY <1>5, <2>5, EdgeForms
    <3> QED BY <2>1, <2>5, <3>1 DEF Making, MakingLeft, InRecord
  <2>6. CASE s \in {"brace", "OF"}
    <3>1. \/ c \in {"SEQUENCE", "SET", "record"}
          \/ c \in {"CHOICE", "choice"} /\ s = "brace"
      BY <1>5, <2>6, EdgeForms
    <3> QED BY <2>1, <2>6, <3>1 DEF Making, MakingLeft, InRecord, Bare, RecordTypes
  <2>7. CASE s = "oftype"
    <3>1. c = "of"
      BY <1>5, <2>7, EdgeForms
    <3> QED BY <2>1, <2>7, <3>1 DEF Making, MakingLeft, InRecord
  <2>8. CASE s \in {"header", "defname", "END", "assign", "rhs_tag", "link", "SEQUENCE", "SET", "CHOICE"}
    BY <2>8 DEF Making, InRecord
  <2>9. s \in Tight \cup {"rhs_tag", "ftag"} /\ s \notin {"link_size", "fsize"}
    BY <1>5, EdgeTargets, EdgeForms
  <2> QED BY <2>2, <2>3, <2>4, <2>5, <2>6, <2>7, <2>8, <2>9 DEF Tight
<1> QED BY <1>3, <1>4, <1>5

-----------------------------------------------------------------------------
(* Texts without blanks and comments.                                       *)
\* A sequence from its first element and the others.
Then(l, w) == <<l>> \o w

\* A sequence with an element put in front.
LEMMA ThenFacts ==
    ASSUME NEW S, NEW l \in S, NEW w \in Seq(S)
    PROVE  /\ Then(l, w) \in Seq(S) /\ Then(l, w) # <<>>
           /\ Len(Then(l, w)) = Len(w) + 1
           /\ Then(l, w)[1] = l
           /\ \A i \in 1..Len(w) : Then(l, w)[i + 1] = w[i]
<1>1. <<l>> \in Seq(S) /\ Len(<<l>>) = 1 /\ <<l>>[1] = l /\ Len(w) \in Nat
  BY LenProperties
<1>2. /\ Then(l, w) \in Seq(S) /\ Len(Then(l, w)) = 1 + Len(w)
      /\ \A i \in 1..1 + Len(w) : Then(l, w)[i] = IF i <= 1 THEN <<l>>[i] ELSE w[i - 1]
  BY <1>1, ConcatProperties DEF Then
<1>3. Len(Then(l, w)) # 0
  BY <1>1, <1>2
<1>4. Then(l, w) # <<>>
  BY <1>3, EmptySeq
<1>5. Then(l, w)[1] = l
  BY <1>1, <1>2
<1>6. \A i \in 1..Len(w) : Then(l, w)[i + 1] = w[i]
  <2> TAKE i \in 1..Len(w)
  <2>1. i + 1 \in 1..1 + Len(w) /\ ~(i + 1 <= 1) /\ (i + 1) - 1 = i
    BY <1>1
  <2> QED BY <1>2, <2>1
<1> QED BY <1>1, <1>2, <1>4, <1>5, <1>6

\* Its parts are determined.
LEMMA ThenEqual ==
    ASSUME NEW S, NEW l \in S, NEW w \in Seq(S), NEW k \in S, NEW u \in Seq(S),
           Then(l, w) = Then(k, u)
    PROVE  l = k /\ w = u
<1>1. l = k
  <2>1. Then(l, w)[1] = l
    BY ThenFacts
  <2>2. Then(k, u)[1] = k
    BY ThenFacts
  <2> QED BY <2>1, <2>2
<1>2. <<l>> \in Seq(S)
  OBVIOUS
<1>3. <<l>> \o w = <<l>> \o u
  BY <1>1 DEF Then
<1> QED BY <1>1, <1>2, <1>3, CancelLeft

\* Something behind it.
LEMMA ThenConcat ==
    ASSUME NEW S, NEW l \in S, NEW w \in Seq(S), NEW u \in Seq(S)
    PROVE  Then(l, w) \o u = Then(l, w \o u)
<1>1. <<l>> \in Seq(S)
  OBVIOUS
<1> QED BY <1>1, ConcatAssociative DEF Then

\* The remainders are determined by the sequences.
LEMMA RemaindersUnique ==
    ASSUME NEW S, NEW ss \in Seq(Seq(S)), NEW end \in Seq(S), NEW X,
           X[Len(ss) + 1] = end, \A k \in 1..Len(ss) : X[k] = ss[k] \o X[k + 1]
    PROVE  X[1] = FlattenSeq(ss) \o end
<1> DEFINE n == Len(ss)
<1>1. PICK Y : Remainders(Y, S, ss, end)
  BY RemaindersExist
<1> DEFINE T == {k \in 1..n + 1 : X[k] = Y[k]}
           J(k, a) == ss[k] \o a
<1>2. n \in Nat
  BY LenProperties
<1>3. n + 1 \in T
  BY <1>1, <1>2 DEF Remainders
<1>4. ASSUME NEW k \in 1..n, k + 1 \in T PROVE k \in T
  <2>1. X[k] = J(k, X[k + 1]) /\ Y[k] = J(k, Y[k + 1])
    BY <1>1 DEF Remainders
  <2>2. X[k + 1] = Y[k + 1]
    BY <1>4
  <2>3. X[k] = Y[k] /\ k \in 1..n + 1
    <3> HIDE DEF J, n
    <3> QED BY <1>2, <2>1, <2>2
  <2> QED BY <2>3
<1>5. \A k \in 1..n + 1 : k \in T
  <2> HIDE DEF T, n
  <2> QED BY <1>2, <1>3, <1>4, CountingDown
<1>6. 1 \in 1..n + 1
  BY <1>2
<1>7. X[1] = Y[1]
  <2>1. 1 \in T
    <3> HIDE DEF T
    <3> QED BY <1>5, <1>6
  <2> QED BY <2>1
<1> QED BY <1>1, <1>7 DEF Remainders

\* Sequences joined, the first one split off.
LEMMA FlattenThen ==
    ASSUME NEW S, NEW ss \in Seq(Seq(S)), NEW s \in Seq(S)
    PROVE  FlattenSeq(Then(s, ss)) = s \o FlattenSeq(ss)
<1> DEFINE n == Len(ss)
           tt == Then(s, ss)
<1>1. n \in Nat /\ tt \in Seq(Seq(S)) /\ Len(tt) = n + 1 /\ tt[1] = s
      /\ \A i \in 1..n : tt[i + 1] = ss[i]
  BY LenProperties, ThenFacts
<1> HIDE DEF tt
<1>2. <<>> \in Seq(S)
  BY EmptySeq
<1>3. PICK Y : Remainders(Y, S, tt, <<>>)
  BY <1>1, <1>2, RemaindersExist
<1> DEFINE X == [k \in 1..n + 1 |-> Y[k + 1]]
<1>4. X[n + 1] = <<>>
  BY <1>1, <1>3 DEF Remainders
<1>5. ASSUME NEW k \in 1..n PROVE X[k] = ss[k] \o X[k + 1]
  <2>1. k + 1 \in 1..n + 1 /\ k \in 1..n + 1
    BY <1>1
  <2>2. Y[k + 1] = tt[k + 1] \o Y[(k + 1) + 1] /\ tt[k + 1] = ss[k]
    BY <1>1, <1>3, <2>1 DEF Remainders
  <2> QED BY <2>1, <2>2
<1>6. X[1] = Y[2] /\ 1 \in 1..n + 1
  BY <1>1
<1> HIDE DEF X
<1>7. X[1] = FlattenSeq(ss) \o <<>>
  BY <1>2, <1>4, <1>5, RemaindersUnique
<1>8. FlattenSeq(ss) \in Seq(S) /\ FlattenSeq(tt) \in Seq(S)
  BY <1>1, <1>2, FlattenAppend
<1>9. Y[1] = s \o Y[2] /\ Y[1] = FlattenSeq(tt) \o <<>>
  <2>1. Y[1] = tt[1] \o Y[1 + 1] /\ Y[1] = FlattenSeq(tt) \o <<>>
    BY <1>1, <1>3, <1>6 DEF Remainders
  <2>2. 1 + 1 = 2 /\ tt[1] = s
    BY <1>1
  <2> QED BY <2>1, <2>2
<1>10. FlattenSeq(ss) \o <<>> = FlattenSeq(ss) /\ FlattenSeq(tt) \o <<>> = FlattenSeq(tt)
  BY <1>8, ConcatEmptySeq
<1> QED BY <1>6, <1>7, <1>9, <1>10 DEF tt

-----------------------------------------------------------------------------
\* What a text has but for blanks and comments.
Part(l) == IF Solid(l) THEN <<l>> ELSE <<>>

\* The empty text has no lexeme.
LEMMA SolidsEmpty == Solids(<<>>) = <<>>
<1> DEFINE f == [i \in DOMAIN <<>> |-> Part(<<>>[i])]
<1>1. <<>> \in Seq({}) /\ DOMAIN <<>> = 1..0
  BY EmptySeq, LenProperties
<1>2. f \in [1..0 -> {}]
  BY <1>1
<1> HIDE DEF f
<1>3. f \in Seq({})
  BY <1>2, SeqDef
<1>4. Len(f) = 0
  BY <1>2, <1>3, LenProperties
<1>5. f = <<>>
  BY <1>3, <1>4, EmptySeq
<1> QED BY <1>5, FlattenEmpty DEF Solids, f, Part

\* The solid lexemes of a text, the first lexeme split off.
LEMMA SolidsThen ==
    ASSUME NEW l \in Lexeme, NEW w \in Seq(Lexeme)
    PROVE  /\ Solids(w) \in Seq(Lexeme)
           /\ Solids(Then(l, w)) = IF Solid(l) THEN Then(l, Solids(w)) ELSE Solids(w)
<1> DEFINE n == Len(w)
           t == Then(l, w)
           f == [i \in DOMAIN w |-> Part(w[i])]
           h == [i \in DOMAIN t |-> Part(t[i])]
<1>1. n \in Nat /\ DOMAIN w = 1..n /\ \A i \in 1..n : w[i] \in Lexeme
  BY LenProperties, ElementOfSeq
<1>2. /\ t \in Seq(Lexeme) /\ Len(t) = n + 1 /\ t[1] = l
      /\ \A i \in 1..n : t[i + 1] = w[i]
  BY ThenFacts
<1> HIDE DEF t
<1>3. DOMAIN t = 1..n + 1 /\ \A i \in 1..n + 1 : t[i] \in Lexeme
  BY <1>2, LenProperties, ElementOfSeq
<1>4. \A x \in Lexeme : Part(x) \in Seq(Lexeme)
  BY EmptySeq DEF Part
<1>5. f \in [1..n -> Seq(Lexeme)] /\ h \in [1..n + 1 -> Seq(Lexeme)]
  BY <1>1, <1>3, <1>4
<1>6. f \in Seq(Seq(Lexeme)) /\ h \in Seq(Seq(Lexeme))
  BY <1>1, <1>5, SeqDef
<1>7. /\ \A i \in 1..n : f[i] = Part(w[i])
      /\ \A i \in 1..n + 1 : h[i] = Part(t[i])
  BY <1>1, <1>3
<1>8. Solids(w) = FlattenSeq(f) /\ Solids(t) = FlattenSeq(h)
  BY DEF Solids, Part
<1> HIDE DEF f, h, n
<1>9. ASSUME NEW a \in Nat, NEW b \in Nat, 1..a = 1..b PROVE a = b
  BY <1>9
<1>10. Len(f) = n
  BY <1>1, <1>5, <1>6, <1>9, LenProperties
<1>11. Len(h) = n + 1
  <2>1. Len(h) \in Nat /\ n + 1 \in Nat /\ 1..Len(h) = 1..n + 1
    BY <1>1, <1>5, <1>6, LenProperties
  <2> QED BY <1>9, <2>1
<1>12. h = Then(Part(l), f)
  <2> DEFINE g == Then(Part(l), f)
  <2>1. /\ g \in Seq(Seq(Lexeme)) /\ Len(g) = n + 1 /\ g[1] = Part(l)
        /\ \A i \in 1..n : g[i + 1] = f[i]
    <3>1. Part(l) \in Seq(Lexeme)
      BY <1>4
    <3>2. /\ g \in Seq(Seq(Lexeme)) /\ Len(g) = Len(f) + 1 /\ g[1] = Part(l)
          /\ \A i \in 1..Len(f) : g[i + 1] = f[i]
      BY <1>6, <3>1, ThenFacts
    <3> QED BY <1>10, <3>2
  <2> HIDE DEF g
  <2>2. ASSUME NEW i \in 1..n + 1 PROVE h[i] = g[i]
    <3>1. CASE i = 1
      BY <1>1, <1>2, <1>7, <2>1, <3>1
    <3>2. CASE i # 1
      <4>1. i - 1 \in 1..n /\ (i - 1) + 1 = i
        BY <1>1, <3>2
      <4> QED BY <1>2, <1>7, <2>1, <4>1
    <3> QED BY <3>1, <3>2
  <2>3. h = g
    BY <1>6, <1>11, <2>1, <2>2, SeqEqual
  <2> QED BY <2>3 DEF g
<1>13. FlattenSeq(h) = Part(l) \o FlattenSeq(f) /\ FlattenSeq(f) \in Seq(Lexeme)
  <2>1. <<>> \in Seq(Lexeme)
    BY EmptySeq
  <2> QED BY <1>4, <1>6, <1>12, <2>1, FlattenThen, FlattenAppend
<1>14. <<>> \o FlattenSeq(f) = FlattenSeq(f)
  BY <1>13, ConcatEmptySeq
<1> QED BY <1>8, <1>13, <1>14 DEF Part, Then, t

\* Nothing but blanks and comments.
LEMMA NoSolids ==
    ASSUME NEW w \in Seq(Lexeme), Solids(w) = <<>>
    PROVE  \A i \in 1..Len(w) : ~Solid(w[i])
<1> DEFINE n == Len(w)
           R(k) == SubSeq(w, k, n)
           T == {k \in 1..n + 1 : Solids(R(k)) = <<>> => \A i \in k..n : ~Solid(w[i])}
<1>1. n \in Nat /\ \A i \in 1..n : w[i] \in Lexeme
  BY LenProperties, ElementOfSeq
<1>2. n + 1 \in T
  BY <1>1
<1>3. ASSUME NEW k \in 1..n, k + 1 \in T PROVE k \in T
  <2>1. R(k) = Then(w[k], R(k + 1))
    <3>1. n \in k..Len(w)
      BY <1>1
    <3> QED BY <3>1, SubSeqRecursiveFirst DEF Then
  <2>2. R(k + 1) \in Seq(Lexeme) /\ w[k] \in Lexeme
    <3>1. \A i \in k + 1..n : w[i] \in Lexeme
      BY <1>1
    <3>2. k + 1 \in Int /\ n \in Int
      BY <1>1
    <3> QED BY <1>1, <3>1, <3>2, SubSeqProperties
  <2>3. Solids(R(k + 1)) = <<>> => \A i \in k + 1..n : ~Solid(w[i])
    BY <1>3
  <2> HIDE DEF R, n
  <2>4. Solids(R(k)) = IF Solid(w[k]) THEN Then(w[k], Solids(R(k + 1))) ELSE Solids(R(k + 1))
    BY <2>1, <2>2, SolidsThen
  <2>5. Then(w[k], Solids(R(k + 1))) # <<>>
    BY <2>2, SolidsThen, ThenFacts
  <2>6. Solids(R(k)) = <<>> => \A i \in k..n : ~Solid(w[i])
    BY <1>1, <2>3, <2>4, <2>5
  <2> QED BY <1>1, <2>6
<1>4. 1 \in T
  <2>1. \A k \in 1..n + 1 : k \in T
    <3> HIDE DEF T, n
    <3> QED BY <1>1, <1>2, <1>3, CountingDown
  <2>2. 1 \in 1..n + 1
    BY <1>1
  <2> HIDE DEF T, n
  <2> QED BY <2>1, <2>2
<1>5. R(1) = w
  BY SubSeqFull
<1> QED BY <1>4, <1>5

\* What is left of it behind the p-th lexeme.
Rest(t, p) == Solids(SubSeq(t, p + 1, Len(t)))

\* What is still to be read becomes shorter by one lexeme unless that is blank.
LEMMA RestFacts ==
    ASSUME NEW t \in Seq(Lexeme), NEW p \in 0..Len(t)
    PROVE  /\ Rest(t, p) \in Seq(Lexeme)
           /\ Rest(t, 0) = Solids(t)
           /\ p = Len(t) => Rest(t, p) = <<>>
           /\ p < Len(t) => /\ t[p + 1] \in Lexeme
                            /\ Rest(t, p + 1) \in Seq(Lexeme)
                            /\ Rest(t, p) = IF Solid(t[p + 1])
                                            THEN Then(t[p + 1], Rest(t, p + 1))
                                            ELSE Rest(t, p + 1)
<1>1. Len(t) \in Nat /\ \A i \in 1..Len(t) : t[i] \in Lexeme
  BY LenProperties, ElementOfSeq
<1>2. \A q \in 0..Len(t) : SubSeq(t, q + 1, Len(t)) \in Seq(Lexeme)
  <2> TAKE q \in 0..Len(t)
  <2>1. \A i \in q + 1..Len(t) : t[i] \in Lexeme
    BY <1>1
  <2>2. q + 1 \in Int /\ Len(t) \in Int
    BY <1>1
  <2> QED BY <2>1, <2>2, SubSeqProperties
<1>3. \A q \in 0..Len(t) : Rest(t, q) \in Seq(Lexeme)
  <2>1. \A w \in Seq(Lexeme) : Solids(w) \in Seq(Lexeme)
    <3>1. [k |-> "ws", v |-> Null] \in Lexeme
      BY DEF Lexeme, Kinds
    <3> QED BY <3>1, SolidsThen
  <2> QED BY <1>2, <2>1 DEF Rest
<1>4. Rest(t, 0) = Solids(t)
  <2>1. SubSeq(t, 0 + 1, Len(t)) = t
    BY SubSeqFull
  <2> QED BY <2>1 DEF Rest
<1>5. ASSUME p = Len(t) PROVE Rest(t, p) = <<>>
  <2>1. SubSeq(t, p + 1, Len(t)) = <<>>
    BY <1>1, <1>5, SubSeqEmpty
  <2> QED BY <2>1, SolidsEmpty DEF Rest
<1>6. ASSUME p < Len(t)
      PROVE  /\ t[p + 1] \in Lexeme
             /\ Rest(t, p + 1) \in Seq(Lexeme)
             /\ Rest(t, p) = IF Solid(t[p + 1])
                             THEN Then(t[p + 1], Rest(t, p + 1))
                             ELSE Rest(t, p + 1)
  <2>1. p + 1 \in 1..Len(t) /\ p + 1 \in 0..Len(t) /\ Len(t) \in p + 1..Len(t)
    BY <1>1, <1>6
  <2>2. SubSeq(t, p + 1, Len(t)) = Then(t[p + 1], SubSeq(t, (p + 1) + 1, Len(t)))
    BY <2>1, SubSeqRecursiveFirst DEF Then
  <2>3. t[p + 1] \in Lexeme /\ SubSeq(t, (p + 1) + 1, Len(t)) \in Seq(Lexeme)
    BY <1>1, <1>2, <2>1
  <2>4. Solids(SubSeq(t, p + 1, Len(t))) =
           IF Solid(t[p + 1]) THEN Then(t[p + 1], Solids(SubSeq(t, (p + 1) + 1, Len(t))))
           ELSE Solids(SubSeq(t, (p + 1) + 1, Len(t)))
    BY <2>2, <2>3, SolidsThen
  <2> QED BY <1>3, <2>1, <2>3, <2>4 DEF Rest
<1> QED BY <1>3, <1>4, <1>5, <1>6

-----------------------------------------------------------------------------
\* The lexemes of a piece of a text with what comes behind it, w.
Key(k) == [k |-> k, v |-> Null]
ValueThen(k, x, w) == IF x = Null THEN w ELSE Then([k |-> k, v |-> x], w)
NameThen(n, w) == IF n = Empty THEN w
                  ELSE Then([k |-> IF n \in Builtin THEN "builtin" ELSE "type", v |-> n], w)
FieldThen(n, w) == IF n = Empty THEN w ELSE Then([k |-> "name", v |-> n], w)
OptThen(b, w) == IF b THEN Then(Key("OPTIONAL"), w) ELSE w
SizeThen(r, w) == ValueThen("size", r.cons, OptThen(r.opt, w))
SymbolThen(r, w) == NameThen(r.symbol, SizeThen(r, w))
TagThen(r, w) == ValueThen("tag", r.coord, SymbolThen(r, w))
RefThen(r, w) == FieldThen(r.name, TagThen(r, w))

ExtThen(b, w) == IF b THEN Then(Key("comma"), Then(Key("..."), w)) ELSE w
EndThen(u, w) == ExtThen(u.ext, Then(Key("close"), w))

\* The items of a record from the j-th on.
Item(refs, k) == (IF k = 1 THEN <<>> ELSE Word("comma")) \o ReferenceLexemes(refs[k])
Items(refs, w, j) ==
    (CHOOSE X : Remainders(X, Lexeme, [k \in DOMAIN refs |-> Item(refs, k)], w))[j]

RecordWord(t) == IF t = "SEQUENCE" THEN "SEQUENCE" ELSE IF t = "ALL" THEN "SET" ELSE "CHOICE"
ListWord(t) == IF t = "LIST" THEN "SEQUENCE" ELSE "SET"

RuleThen(u, w) ==
    CASE u.type = "LINK" -> RefThen(u.refs[1], w)
      [] u.type \in {"LIST", "SET"} ->
           Then(Key(ListWord(u.type)), Then(Key("OF"), RefThen(u.refs[1], w)))
      [] OTHER ->
           Then(Key(RecordWord(u.type)), Then(Key("brace"), Items(u.refs, EndThen(u, w), 1)))

AssignThen(d, w) == ValueThen("tag", d.coord, RuleThen(d.rule, w))
DefThen(d, w) == NameThen(d.name, Then(Key("::="), AssignThen(d, w)))

\* The definitions of a text from the j-th on.
Body(ds, e, j) ==
    (CHOOSE X : Remainders(X, Lexeme, [k \in DOMAIN ds |-> Lexemes(ds[k])], e))[j]

Signs == {"::=", "SEQUENCE", "SET", "CHOICE", "OF", "brace", "close", "comma", "...",
          "OPTIONAL", "header", "END"}

\* Lexemes are lexemes.
LEMMA KeyTyped ==
    /\ \A k \in Signs : Key(k) \in Lexeme /\ Word(k) = <<Key(k)>> /\ Word(k) \in Seq(Lexeme)
    /\ \A x \in Tag : [k |-> "tag", v |-> x] \in Lexeme
    /\ \A x \in Constraint : [k |-> "size", v |-> x] \in Lexeme
    /\ \A x \in Field : [k |-> "name", v |-> x] \in Lexeme
    /\ \A x \in Ident \cup Builtin :
          [k |-> IF x \in Builtin THEN "builtin" ELSE "type", v |-> x] \in Lexeme
<1>1. ASSUME NEW k \in Signs PROVE Key(k) \in Lexeme /\ Word(k) = <<Key(k)>> /\ Word(k) \in Seq(Lexeme)
  <2>1. Key(k) \in Lexeme
    BY DEF Key, Lexeme, Kinds, Signs
  <2>2. Word(k) = <<Key(k)>>
    BY DEF Word, Key
  <2> QED BY <2>1, <2>2
<1>2. \A x \in Tag : [k |-> "tag", v |-> x] \in Lexeme
  BY DEF Lexeme
<1>3. \A x \in Constraint : [k |-> "size", v |-> x] \in Lexeme
  BY DEF Lexeme
<1>4. \A x \in Field : [k |-> "name", v |-> x] \in Lexeme
  BY DEF Lexeme
<1>5. \A x \in Ident \cup Builtin :
          [k |-> IF x \in Builtin THEN "builtin" ELSE "type", v |-> x] \in Lexeme
  BY DEF Lexeme
<1> QED BY <1>1, <1>2, <1>3, <1>4, <1>5

\* A keyword in front of a text.
LEMMA KeyThen ==
    ASSUME NEW k \in Signs, NEW w \in Seq(Lexeme)
    PROVE  Word(k) \o w = Then(Key(k), w) /\ Then(Key(k), w) \in Seq(Lexeme)
BY KeyTyped, ThenFacts DEF Then

\* The pieces of a definition are texts.
LEMMA ValueParts ==
    /\ \A x \in Tag \cup {Null} : Value("tag", x) \in Seq(Lexeme)
    /\ \A x \in Constraint \cup {Null} : Value("size", x) \in Seq(Lexeme)
    /\ \A n \in Field \cup {Empty} : FieldName(n) \in Seq(Lexeme)
    /\ \A n \in Ident \cup Builtin \cup {Empty} : Name(n) \in Seq(Lexeme)
<1>1. <<>> \in Seq(Lexeme) /\ \A x \in Lexeme : <<x>> \in Seq(Lexeme)
  BY EmptySeq
<1>2. \A x \in Tag \cup {Null} : Value("tag", x) \in Seq(Lexeme)
  BY <1>1, KeyTyped DEF Value
<1>3. \A x \in Constraint \cup {Null} : Value("size", x) \in Seq(Lexeme)
  BY <1>1, KeyTyped DEF Value
<1>4. \A n \in Field \cup {Empty} : FieldName(n) \in Seq(Lexeme)
  BY <1>1, KeyTyped DEF FieldName, Value
<1>5. \A n \in Ident \cup Builtin \cup {Empty} : Name(n) \in Seq(Lexeme)
  BY <1>1, KeyTyped DEF Name, Value
<1> QED BY <1>2, <1>3, <1>4, <1>5

\* The pieces of a definition in front of a text.
LEMMA PiecesThen ==
    ASSUME NEW w \in Seq(Lexeme)
    PROVE  /\ \A x \in Tag \cup {Null} : /\ Value("tag", x) \o w = ValueThen("tag", x, w)
                                         /\ ValueThen("tag", x, w) \in Seq(Lexeme)
           /\ \A x \in Constraint \cup {Null} : /\ Value("size", x) \o w = ValueThen("size", x, w)
                                                /\ ValueThen("size", x, w) \in Seq(Lexeme)
           /\ \A n \in Field \cup {Empty} : /\ FieldName(n) \o w = FieldThen(n, w)
                                            /\ FieldThen(n, w) \in Seq(Lexeme)
           /\ \A n \in Ident \cup Builtin \cup {Empty} : /\ Name(n) \o w = NameThen(n, w)
                                                         /\ NameThen(n, w) \in Seq(Lexeme)
           /\ \A b \in BOOLEAN : /\ (IF b THEN Word("OPTIONAL") ELSE <<>>) \o w = OptThen(b, w)
                                 /\ OptThen(b, w) \in Seq(Lexeme)
<1>1. <<>> \o w = w /\ \A l \in Lexeme : <<l>> \o w = Then(l, w) /\ Then(l, w) \in Seq(Lexeme)
  BY ConcatEmptySeq, ThenFacts DEF Then
<1>2. \A x \in Tag \cup {Null} : Value("tag", x) \o w = ValueThen("tag", x, w)
                                 /\ ValueThen("tag", x, w) \in Seq(Lexeme)
  BY <1>1, KeyTyped DEF Value, ValueThen
<1>3. \A x \in Constraint \cup {Null} : Value("size", x) \o w = ValueThen("size", x, w)
                                        /\ ValueThen("size", x, w) \in Seq(Lexeme)
  BY <1>1, KeyTyped DEF Value, ValueThen
<1>4. \A n \in Field \cup {Empty} : FieldName(n) \o w = FieldThen(n, w)
                                    /\ FieldThen(n, w) \in Seq(Lexeme)
  BY <1>1, KeyTyped, ParserAssumption DEF Value, FieldName, FieldThen
<1>5. ASSUME NEW n \in Ident \cup Builtin \cup {Empty}
      PROVE  Name(n) \o w = NameThen(n, w) /\ NameThen(n, w) \in Seq(Lexeme)
  <2>1. CASE n = Empty
    BY <1>1, <2>1, ParserAssumption DEF Name, NameThen
  <2>2. CASE n # Empty
    <3> DEFINE l == [k |-> IF n \in Builtin THEN "builtin" ELSE "type", v |-> n]
    <3>1. n \in Ident \cup Builtin /\ n # Null /\ l \in Lexeme
      BY <2>2, KeyTyped, ParserAssumption
    <3>2. Name(n) = <<l>>
      BY <2>2, <3>1 DEF Name, Value
    <3>3. NameThen(n, w) = Then(l, w)
      BY <2>2 DEF NameThen
    <3> HIDE DEF l
    <3> QED BY <1>1, <3>1, <3>2, <3>3
  <2> QED BY <2>1, <2>2
<1>6. \A b \in BOOLEAN : (IF b THEN Word("OPTIONAL") ELSE <<>>) \o w = OptThen(b, w)
                         /\ OptThen(b, w) \in Seq(Lexeme)
  BY <1>1, KeyTyped DEF OptThen, Signs
<1> QED BY <1>2, <1>3, <1>4, <1>5, <1>6

\* A reference in front of a text, from its end to its beginning.
LEMMA RefLexemesThen ==
    ASSUME NEW r \in Reference, NEW w \in Seq(Lexeme)
    PROVE  /\ ReferenceLexemes(r) \in Seq(Lexeme)
           /\ ReferenceLexemes(r) \o w = RefThen(r, w)
           /\ OptThen(r.opt, w) \in Seq(Lexeme)
           /\ SizeThen(r, w) \in Seq(Lexeme) /\ SymbolThen(r, w) \in Seq(Lexeme)
           /\ TagThen(r, w) \in Seq(Lexeme) /\ RefThen(r, w) \in Seq(Lexeme)
<1> DEFINE a == FieldName(r.name)
           b == Value("tag", r.coord)
           c == Name(r.symbol)
           d == Value("size", r.cons)
           o == IF r.opt THEN Word("OPTIONAL") ELSE <<>>
           J(x, y) == x \o y
<1>1. /\ r.name \in Field \cup {Empty} /\ r.symbol \in Ident \cup Builtin \cup {Empty}
      /\ r.coord \in Tag \cup {Null} /\ r.cons \in Constraint \cup {Null} /\ r.opt \in BOOLEAN
  BY DEF Reference
<1>2. /\ a \in Seq(Lexeme) /\ b \in Seq(Lexeme) /\ c \in Seq(Lexeme) /\ d \in Seq(Lexeme)
      /\ o \in Seq(Lexeme)
  <2>1. <<>> \in Seq(Lexeme) /\ Word("OPTIONAL") \in Seq(Lexeme)
    BY EmptySeq, KeyTyped DEF Signs
  <2> QED BY <1>1, <2>1, ValueParts
<1>3. J(o, w) = OptThen(r.opt, w) /\ OptThen(r.opt, w) \in Seq(Lexeme)
  BY <1>1, PiecesThen
<1>4. J(d, J(o, w)) = SizeThen(r, w) /\ SizeThen(r, w) \in Seq(Lexeme)
  BY ZenonT(40), <1>1, <1>3, PiecesThen DEF SizeThen
<1>5. J(c, J(d, J(o, w))) = SymbolThen(r, w) /\ SymbolThen(r, w) \in Seq(Lexeme)
  BY <1>1, <1>4, PiecesThen DEF SymbolThen
<1>6. J(b, J(c, J(d, J(o, w)))) = TagThen(r, w) /\ TagThen(r, w) \in Seq(Lexeme)
  BY <1>1, <1>5, PiecesThen DEF TagThen
<1>7. J(a, J(b, J(c, J(d, J(o, w))))) = RefThen(r, w) /\ RefThen(r, w) \in Seq(Lexeme)
  BY <1>1, <1>6, PiecesThen DEF RefThen
<1>8. ReferenceLexemes(r) = J(J(J(J(a, b), c), d), o)
  BY DEF ReferenceLexemes
<1>9. \A x, y \in Seq(Lexeme) : J(x, y) \in Seq(Lexeme)
  BY Assoc
<1>10. \A x, y, z \in Seq(Lexeme) : J(J(x, y), z) = J(x, J(y, z))
  BY Assoc
<1> HIDE DEF a, b, c, d, o, J
<1>11. /\ J(a, b) \in Seq(Lexeme) /\ J(J(a, b), c) \in Seq(Lexeme)
       /\ J(J(J(a, b), c), d) \in Seq(Lexeme) /\ J(J(J(J(a, b), c), d), o) \in Seq(Lexeme)
       /\ J(o, w) \in Seq(Lexeme) /\ J(d, J(o, w)) \in Seq(Lexeme)
       /\ J(c, J(d, J(o, w))) \in Seq(Lexeme)
  BY <1>2, <1>9
<1>12. J(J(J(J(J(a, b), c), d), o), w) = J(J(J(J(a, b), c), d), J(o, w))
  BY <1>2, <1>10, <1>11
<1>13. J(J(J(J(a, b), c), d), J(o, w)) = J(J(J(a, b), c), J(d, J(o, w)))
  BY <1>2, <1>10, <1>11
<1>14. J(J(J(a, b), c), J(d, J(o, w))) = J(J(a, b), J(c, J(d, J(o, w))))
  BY <1>2, <1>10, <1>11
<1>15. J(J(a, b), J(c, J(d, J(o, w)))) = J(a, J(b, J(c, J(d, J(o, w)))))
  BY <1>2, <1>10, <1>11
<1>16. J(ReferenceLexemes(r), w) = RefThen(r, w)
  BY <1>7, <1>8, <1>12, <1>13, <1>14, <1>15
<1> QED BY <1>3, <1>4, <1>5, <1>6, <1>7, <1>8, <1>11, <1>16 DEF J

\* The references of a record, one by one.
LEMMA ItemsFacts ==
    ASSUME NEW refs \in Seq(Reference), NEW w \in Seq(Lexeme)
    PROVE  /\ FlattenSeq([k \in DOMAIN refs |-> Item(refs, k)]) \o w = Items(refs, w, 1)
           /\ FlattenSeq([k \in DOMAIN refs |-> Item(refs, k)]) \in Seq(Lexeme)
           /\ \A j \in 1..Len(refs) + 1 : Items(refs, w, j) \in Seq(Lexeme)
           /\ Items(refs, w, Len(refs) + 1) = w
           /\ \A j \in 1..Len(refs) :
                 Items(refs, w, j) = IF j = 1 THEN RefThen(refs[j], Items(refs, w, j + 1))
                                     ELSE Then(Key("comma"), RefThen(refs[j], Items(refs, w, j + 1)))
<1> DEFINE n == Len(refs)
           ss == [k \in DOMAIN refs |-> Item(refs, k)]
           X == CHOOSE Z : Remainders(Z, Lexeme, ss, w)
<1>1. n \in Nat /\ DOMAIN refs = 1..n /\ \A k \in 1..n : refs[k] \in Reference
  BY LenProperties, ElementOfSeq
<1>2. <<>> \in Seq(Lexeme) /\ Word("comma") \in Seq(Lexeme)
  BY EmptySeq, KeyTyped DEF Signs
<1>3. ASSUME NEW k \in 1..n, NEW z \in Seq(Lexeme)
      PROVE  /\ Item(refs, k) \in Seq(Lexeme)
             /\ Item(refs, k) \o z = IF k = 1 THEN RefThen(refs[k], z)
                                     ELSE Then(Key("comma"), RefThen(refs[k], z))
  <2>1. /\ ReferenceLexemes(refs[k]) \in Seq(Lexeme)
        /\ ReferenceLexemes(refs[k]) \o z = RefThen(refs[k], z)
        /\ RefThen(refs[k], z) \in Seq(Lexeme)
    BY <1>1, <1>3, RefLexemesThen
  <2>2. CASE k = 1
    BY <2>1, <2>2, ConcatEmptySeq DEF Item
  <2>3. CASE k # 1
    <3>1. Item(refs, k) = Word("comma") \o ReferenceLexemes(refs[k])
      BY <2>3 DEF Item
    <3>2. Item(refs, k) \o z = Word("comma") \o RefThen(refs[k], z) /\ Item(refs, k) \in Seq(Lexeme)
      <4>1. \A x, y, v \in Seq(Lexeme) : (x \o y) \o v = x \o (y \o v)
        BY Assoc
      <4>2. (Word("comma") \o ReferenceLexemes(refs[k])) \o z
              = Word("comma") \o (ReferenceLexemes(refs[k]) \o z)
        BY <1>2, <2>1, <4>1
      <4> QED BY <1>2, <2>1, <3>1, <4>2, ConcatProperties
    <3>3. Word("comma") \o RefThen(refs[k], z) = Then(Key("comma"), RefThen(refs[k], z))
      BY <2>1, KeyThen DEF Signs
    <3> QED BY <2>3, <3>2, <3>3
  <2> QED BY <2>2, <2>3
<1>4. ss \in Seq(Seq(Lexeme)) /\ Len(ss) = n
  <2>1. ss \in [1..n -> Seq(Lexeme)]
    BY <1>1, <1>2, <1>3
  <2>2. ss \in Seq(Seq(Lexeme))
    BY <1>1, <2>1, SeqDef
  <2>3. Len(ss) \in Nat /\ 1..Len(ss) = 1..n
    BY <2>1, <2>2, LenProperties
  <2>4. ASSUME NEW a \in Nat, NEW b \in Nat, 1..a = 1..b PROVE a = b
    BY <2>4
  <2> HIDE DEF ss, n
  <2> QED BY <1>1, <2>2, <2>3, <2>4
<1>5. \A k \in 1..n : ss[k] = Item(refs, k)
  BY <1>1
<1> HIDE DEF ss
<1>6. Remainders(X, Lexeme, ss, w)
  BY <1>4, RemaindersExist
<1>7. \A j : Items(refs, w, j) = X[j]
  BY DEF Items, ss
<1> HIDE DEF X
<1>8. /\ X[1] = FlattenSeq(ss) \o w /\ X[n + 1] = w
      /\ \A k \in 1..n : X[k] = Item(refs, k) \o X[k + 1]
      /\ \A j \in 1..n + 1 : X[j] \in Seq(Lexeme)
  BY <1>4, <1>5, <1>6 DEF Remainders
<1>9. FlattenSeq(ss) \in Seq(Lexeme)
  BY <1>2, <1>4, FlattenAppend
<1>10. ASSUME NEW j \in 1..n
       PROVE  Items(refs, w, j) = IF j = 1 THEN RefThen(refs[j], Items(refs, w, j + 1))
                                  ELSE Then(Key("comma"), RefThen(refs[j], Items(refs, w, j + 1)))
  <2>1. j + 1 \in 1..n + 1
    BY <1>1
  <2>2. X[j + 1] \in Seq(Lexeme) /\ X[j] = Item(refs, j) \o X[j + 1]
    BY <1>8, <2>1
  <2>3. Items(refs, w, j) = X[j] /\ Items(refs, w, j + 1) = X[j + 1]
    BY <1>7
  <2>4. Item(refs, j) \o X[j + 1] = IF j = 1 THEN RefThen(refs[j], X[j + 1])
                                    ELSE Then(Key("comma"), RefThen(refs[j], X[j + 1]))
    BY <1>3, <2>2
  <2> QED BY <2>2, <2>3, <2>4
<1>11. \A j \in 1..n + 1 : Items(refs, w, j) \in Seq(Lexeme)
  BY <1>7, <1>8
<1>12. Items(refs, w, n + 1) = w /\ FlattenSeq(ss) \o w = Items(refs, w, 1)
  BY <1>7, <1>8
<1> QED BY <1>9, <1>10, <1>11, <1>12 DEF ss

\* The end of a record: the marker "..." if there is one, and the brace.
LEMMA EndTyped ==
    ASSUME NEW u \in Rule, NEW w \in Seq(Lexeme)
    PROVE  /\ EndThen(u, w) \in Seq(Lexeme) /\ Then(Key("close"), w) \in Seq(Lexeme)
           /\ u.ext => /\ EndThen(u, w) = Then(Key("comma"), Then(Key("..."), Then(Key("close"), w)))
                       /\ Then(Key("..."), Then(Key("close"), w)) \in Seq(Lexeme)
           /\ ~u.ext => EndThen(u, w) = Then(Key("close"), w)
           /\ \A j \in 1..Len(u.refs) + 1 : Items(u.refs, EndThen(u, w), j) \in Seq(Lexeme)
<1>1. Then(Key("close"), w) \in Seq(Lexeme)
  BY KeyThen DEF Signs
<1>2. Then(Key("..."), Then(Key("close"), w)) \in Seq(Lexeme)
  BY <1>1, KeyThen DEF Signs
<1>3. Then(Key("comma"), Then(Key("..."), Then(Key("close"), w))) \in Seq(Lexeme)
  BY <1>2, KeyThen DEF Signs
<1>4. EndThen(u, w) \in Seq(Lexeme)
  BY <1>1, <1>3 DEF EndThen, ExtThen
<1>5. u.refs \in Seq(Reference)
  BY DEF Rule
<1> QED BY <1>1, <1>2, <1>4, <1>5, ItemsFacts DEF EndThen, ExtThen

\* A rule in front of a text.
LEMMA RuleLexemesThen ==
    ASSUME NEW u \in Rule, u.type \in {"LINK", "LIST", "SET"} => Len(u.refs) = 1,
           NEW w \in Seq(Lexeme)
    PROVE  /\ RuleLexemes(u) \in Seq(Lexeme)
           /\ RuleLexemes(u) \o w = RuleThen(u, w)
           /\ RuleThen(u, w) \in Seq(Lexeme)
<1> DEFINE records == [SEQUENCE |-> "SEQUENCE", ALL |-> "SET", CHOICE |-> "CHOICE"]
           lists == [LIST |-> "SEQUENCE", SET |-> "SET"]
           F == FlattenSeq([k \in DOMAIN u.refs |-> Item(u.refs, k)])
           G == IF u.ext THEN Word("comma") \o Word("...") ELSE <<>>
<1>1. u.refs \in Seq(Reference) /\ u.type \in RuleTypes /\ u.ext \in BOOLEAN
  BY DEF Rule
<1>2. RuleLexemes(u) =
        CASE u.type = "LINK" -> ReferenceLexemes(u.refs[1])
          [] u.type \in {"LIST", "SET"} ->
               Word(lists[u.type]) \o Word("OF") \o ReferenceLexemes(u.refs[1])
          [] OTHER -> Word(records[u.type]) \o Word("brace") \o F \o G \o Word("close")
  BY DEF RuleLexemes, Item
<1>3. CASE u.type = "LINK"
  <2>1. u.refs[1] \in Reference
    BY <1>1, <1>3, ElementOfSeq
  <2>2. RuleLexemes(u) = ReferenceLexemes(u.refs[1]) /\ RuleThen(u, w) = RefThen(u.refs[1], w)
    BY <1>2, <1>3 DEF RuleThen
  <2> QED BY <2>1, <2>2, RefLexemesThen
<1>4. CASE u.type \in {"LIST", "SET"}
  <2> DEFINE k == ListWord(u.type)
             r == ReferenceLexemes(u.refs[1])
             z == RefThen(u.refs[1], w)
  <2>1. u.refs[1] \in Reference
    BY <1>1, <1>4, ElementOfSeq
  <2>2. r \in Seq(Lexeme) /\ r \o w = z /\ z \in Seq(Lexeme)
    BY <2>1, RefLexemesThen
  <2>3. lists[u.type] = k /\ k \in Signs
    BY <1>4 DEF ListWord, Signs
  <2>4. RuleLexemes(u) = Word(k) \o Word("OF") \o r
    BY <1>2, <1>4, <2>3
  <2>5. RuleThen(u, w) = Then(Key(k), Then(Key("OF"), z))
    BY <1>4 DEF RuleThen
  <2>6. Word(k) \in Seq(Lexeme) /\ Word("OF") \in Seq(Lexeme)
    BY <2>3, KeyTyped DEF Signs
  <2>7. Then(Key("OF"), z) = Word("OF") \o z /\ Then(Key("OF"), z) \in Seq(Lexeme)
    BY ZenonT(40), <2>2, KeyThen DEF Signs
  <2>8. Then(Key(k), Then(Key("OF"), z)) = Word(k) \o (Word("OF") \o z)
        /\ Then(Key(k), Then(Key("OF"), z)) \in Seq(Lexeme)
    BY <2>3, <2>7, KeyThen
  <2> HIDE DEF k, r, z
  <2>9. Word(k) \o Word("OF") \in Seq(Lexeme) /\ Word(k) \o Word("OF") \o r \in Seq(Lexeme)
    BY <2>2, <2>6, Assoc
  <2>10. (Word(k) \o Word("OF") \o r) \o w = (Word(k) \o Word("OF")) \o (r \o w)
    <3>1. \A x, y, v \in Seq(Lexeme) : (x \o y) \o v = x \o (y \o v)
      BY Assoc
    <3>2. w \in Seq(Lexeme)
      OBVIOUS
    <3> QED BY ZenonT(40), <2>2, <2>9, <3>1, <3>2
  <2>11. (Word(k) \o Word("OF")) \o z = Word(k) \o (Word("OF") \o z)
    BY SMTT(20), <2>2, <2>6, ConcatAssociative
  <2> QED BY <2>2, <2>4, <2>5, <2>8, <2>9, <2>10, <2>11
<1>5. CASE u.type \notin {"LINK", "LIST", "SET"}
  <2> DEFINE k == RecordWord(u.type)
             a == Word(k)
             b == Word("brace")
             c == Word("close")
             J(x, y) == x \o y
             z == EndThen(u, w)
  <2>1. records[u.type] = k /\ k \in Signs
    BY <1>1, <1>5 DEF RecordWord, Signs, RuleTypes
  <2>2. RuleLexemes(u) = J(J(J(J(a, b), F), G), c)
    BY <1>2, <1>5, <2>1
  <2>3. RuleThen(u, w) = Then(Key(k), Then(Key("brace"), Items(u.refs, z, 1)))
    BY <1>5 DEF RuleThen
  <2>4. /\ a \in Seq(Lexeme) /\ b \in Seq(Lexeme) /\ c \in Seq(Lexeme)
        /\ Word("comma") \in Seq(Lexeme) /\ Word("...") \in Seq(Lexeme)
    BY <2>1, KeyTyped DEF Signs
  <2>5. z \in Seq(Lexeme) /\ Items(u.refs, z, 1) \in Seq(Lexeme)
        /\ F \in Seq(Lexeme) /\ J(F, z) = Items(u.refs, z, 1)
    <3>1. z \in Seq(Lexeme)
      BY EndTyped
    <3>2. 1 \in 1..Len(u.refs) + 1
      BY <1>1, LenProperties
    <3> QED BY <1>1, <3>1, <3>2, ItemsFacts
  <2>6. G \in Seq(Lexeme) /\ J(G, J(c, w)) = z
    <3>1. J(c, w) = Then(Key("close"), w) /\ J(c, w) \in Seq(Lexeme)
      BY KeyThen DEF Signs
    <3>2. CASE ~u.ext
      BY <3>1, <3>2, ConcatEmptySeq, EmptySeq DEF EndThen, ExtThen
    <3>3. CASE u.ext
      <4>1. J(Word("..."), J(c, w)) = Then(Key("..."), J(c, w)) /\ J(Word("..."), J(c, w)) \in Seq(Lexeme)
        BY ZenonT(40), <3>1, KeyThen DEF Signs
      <4>2. J(Word("comma"), J(Word("..."), J(c, w))) = Then(Key("comma"), J(Word("..."), J(c, w)))
        BY <4>1, KeyThen DEF Signs
      <4>3. J(J(Word("comma"), Word("...")), J(c, w)) = J(Word("comma"), J(Word("..."), J(c, w)))
        <5>1. \A x, y, v \in Seq(Lexeme) : J(J(x, y), v) = J(x, J(y, v))
          BY Assoc
        <5> HIDE DEF J
        <5> QED BY <2>4, <3>1, <5>1
      <4>4. G = J(Word("comma"), Word("...")) /\ G \in Seq(Lexeme)
        BY <2>4, <3>3, ConcatProperties
      <4>5. z = Then(Key("comma"), Then(Key("..."), J(c, w)))
        BY <3>1, <3>3 DEF EndThen, ExtThen
      <4> HIDE DEF z, G, J
      <4> QED BY <4>1, <4>2, <4>3, <4>4, <4>5
    <3> QED BY <1>1, <3>2, <3>3
  <2>7. J(b, J(F, z)) = Then(Key("brace"), J(F, z)) /\ J(b, J(F, z)) \in Seq(Lexeme)
    <3>1. \A x \in Seq(Lexeme) : J(b, x) = Then(Key("brace"), x) /\ J(b, x) \in Seq(Lexeme)
      BY ZenonT(40), KeyThen DEF Signs
    <3>2. J(F, z) \in Seq(Lexeme)
      BY <2>5
    <3> HIDE DEF J, F, z, b
    <3> QED BY <3>1, <3>2
  <2>8. J(a, J(b, J(F, z))) = Then(Key(k), J(b, J(F, z))) /\ J(a, J(b, J(F, z))) \in Seq(Lexeme)
    BY <2>1, <2>7, KeyThen
  <2>9. \A x, y \in Seq(Lexeme) : J(x, y) \in Seq(Lexeme)
    BY Assoc
  <2>10. \A x, y, v \in Seq(Lexeme) : J(J(x, y), v) = J(x, J(y, v))
    BY Assoc
  <2> HIDE DEF k, a, b, c, F, G, J, z
  <2>11. J(a, b) \in Seq(Lexeme) /\ J(J(a, b), F) \in Seq(Lexeme)
         /\ J(J(J(a, b), F), G) \in Seq(Lexeme) /\ J(J(J(J(a, b), F), G), c) \in Seq(Lexeme)
         /\ J(c, w) \in Seq(Lexeme)
    BY <2>4, <2>5, <2>6, <2>9
  <2>12. J(J(J(J(J(a, b), F), G), c), w) = J(J(J(J(a, b), F), G), J(c, w))
    BY <2>4, <2>10, <2>11
  <2>13. J(J(J(J(a, b), F), G), J(c, w)) = J(J(J(a, b), F), z)
    BY <2>6, <2>10, <2>11
  <2>14. J(J(J(a, b), F), z) = J(J(a, b), J(F, z))
    BY <2>5, <2>10, <2>11
  <2>15. J(J(a, b), J(F, z)) = J(a, J(b, J(F, z)))
    BY <2>4, <2>5, <2>10, <2>11
  <2>16. J(RuleLexemes(u), w) = RuleThen(u, w) /\ RuleThen(u, w) \in Seq(Lexeme)
    BY <2>2, <2>3, <2>5, <2>7, <2>8, <2>12, <2>13, <2>14, <2>15
  <2> QED BY <2>2, <2>11, <2>16 DEF J
<1> QED BY <1>3, <1>4, <1>5

\* Rules of the types LINK, LIST and SET have one reference.
LEMMA FormedReference ==
    ASSUME NEW d \in Definition, Formed(d)
    PROVE  /\ d.rule.type = "LINK" =>
                /\ ~d.rule.ext /\ Len(d.rule.refs) = 1
                /\ \E n \in Ident \cup Builtin, c \in Constraint \cup {Null} :
                      d.rule.refs = <<[NewReference(n) EXCEPT !.cons = c]>>
           /\ d.rule.type \in {"LIST", "SET"} =>
                /\ ~d.rule.ext /\ Len(d.rule.refs) = 1
                /\ \E n \in Ident \cup Builtin : d.rule.refs = <<NewReference(n)>>
           /\ d.rule.type \in RecordTypes =>
                \A k \in DOMAIN d.rule.refs : IF d.rule.refs[k].name = Empty
                                              THEN d.rule.refs[k] = NewReference(Empty)
                                              ELSE d.rule.refs[k].symbol # Empty
           /\ d.rule \in Rule /\ d.rule.type \in {"LINK", "LIST", "SET"} \cup RecordTypes
<1>1. d.rule \in Rule /\ d.rule.type \in {"LINK", "LIST", "SET"} \cup RecordTypes
  BY DEF Definition, Rule, RuleTypes, RecordTypes
<1>2. CASE d.rule.type = "LINK"
  <2>1. /\ ~d.rule.ext
        /\ \E n \in Ident \cup Builtin, c \in Constraint \cup {Null} :
              d.rule.refs = <<[NewReference(n) EXCEPT !.cons = c]>>
    BY <1>2 DEF Formed
  <2>2. Len(d.rule.refs) = 1
    BY <2>1
  <2> QED BY <1>1, <1>2, <2>1, <2>2 DEF RecordTypes
<1>3. CASE d.rule.type \in {"LIST", "SET"}
  <2>1. ~d.rule.ext /\ \E n \in Ident \cup Builtin : d.rule.refs = <<NewReference(n)>>
    BY <1>3 DEF Formed
  <2>2. Len(d.rule.refs) = 1
    BY <2>1
  <2> QED BY <1>1, <1>3, <2>1, <2>2 DEF RecordTypes
<1>4. CASE d.rule.type \in RecordTypes
  BY <1>1, <1>4 DEF Formed, RecordTypes
<1> QED BY <1>1, <1>2, <1>3, <1>4

\* A definition in front of a text.
LEMMA DefLexemesThen ==
    ASSUME NEW d \in Definition, Formed(d), NEW w \in Seq(Lexeme)
    PROVE  /\ Lexemes(d) \in Seq(Lexeme)
           /\ Lexemes(d) \o w = DefThen(d, w)
           /\ RuleThen(d.rule, w) \in Seq(Lexeme) /\ AssignThen(d, w) \in Seq(Lexeme)
           /\ Then(Key("::="), AssignThen(d, w)) \in Seq(Lexeme)
           /\ DefThen(d, w) \in Seq(Lexeme)
<1> DEFINE a == Name(d.name)
           b == Word("::=")
           c == Value("tag", d.coord)
           u == RuleLexemes(d.rule)
           J(x, y) == x \o y
<1>1. /\ d.name \in Ident \cup Builtin \cup {Empty} /\ d.coord \in Tag \cup {Null}
      /\ d.rule \in Rule /\ (d.rule.type \in {"LINK", "LIST", "SET"} => Len(d.rule.refs) = 1)
  BY FormedReference DEF Definition
<1>2. u \in Seq(Lexeme) /\ J(u, w) = RuleThen(d.rule, w) /\ RuleThen(d.rule, w) \in Seq(Lexeme)
  BY <1>1, RuleLexemesThen
<1>3. J(c, J(u, w)) = AssignThen(d, w) /\ AssignThen(d, w) \in Seq(Lexeme)
  BY <1>1, <1>2, PiecesThen DEF AssignThen
<1>4. J(b, J(c, J(u, w))) = Then(Key("::="), AssignThen(d, w))
      /\ Then(Key("::="), AssignThen(d, w)) \in Seq(Lexeme)
  <2>1. J(b, AssignThen(d, w)) = Then(Key("::="), AssignThen(d, w))
        /\ Then(Key("::="), AssignThen(d, w)) \in Seq(Lexeme)
    BY <1>3, KeyThen DEF Signs
  <2> HIDE DEF J, b, c, u
  <2> QED BY <1>3, <2>1
<1>5. J(a, J(b, J(c, J(u, w)))) = DefThen(d, w) /\ DefThen(d, w) \in Seq(Lexeme)
  <2>1. J(a, Then(Key("::="), AssignThen(d, w))) = DefThen(d, w) /\ DefThen(d, w) \in Seq(Lexeme)
    BY <1>1, <1>4, PiecesThen DEF DefThen
  <2> HIDE DEF J, a, b, c, u
  <2> QED BY <1>4, <2>1
<1>6. a \in Seq(Lexeme) /\ b \in Seq(Lexeme) /\ c \in Seq(Lexeme)
  BY <1>1, KeyTyped, ValueParts DEF Signs
<1>7. Lexemes(d) = J(J(J(a, b), c), u)
  BY DEF Lexemes
<1>8. \A x, y \in Seq(Lexeme) : J(x, y) \in Seq(Lexeme)
  BY Assoc
<1>9. \A x, y, v \in Seq(Lexeme) : J(J(x, y), v) = J(x, J(y, v))
  BY Assoc
<1> HIDE DEF a, b, c, u, J
<1>10. /\ J(a, b) \in Seq(Lexeme) /\ J(J(a, b), c) \in Seq(Lexeme)
       /\ J(J(J(a, b), c), u) \in Seq(Lexeme)
       /\ J(u, w) \in Seq(Lexeme) /\ J(c, J(u, w)) \in Seq(Lexeme)
  BY <1>2, <1>6, <1>8
<1>11. J(J(J(J(a, b), c), u), w) = J(J(J(a, b), c), J(u, w))
  BY <1>2, <1>9, <1>10
<1>12. J(J(J(a, b), c), J(u, w)) = J(J(a, b), J(c, J(u, w)))
  BY <1>6, <1>9, <1>10
<1>13. J(J(a, b), J(c, J(u, w))) = J(a, J(b, J(c, J(u, w))))
  BY <1>6, <1>9, <1>10
<1>14. J(Lexemes(d), w) = DefThen(d, w)
  BY <1>5, <1>7, <1>11, <1>12, <1>13
<1> QED BY <1>2, <1>3, <1>4, <1>5, <1>7, <1>10, <1>14 DEF J

\* The definitions of a text, one by one.
LEMMA BodyFacts ==
    ASSUME NEW ds \in Seq(Definition), \A k \in DOMAIN ds : Formed(ds[k]),
           NEW e \in Seq(Lexeme)
    PROVE  /\ FlattenSeq([k \in DOMAIN ds |-> Lexemes(ds[k])]) \o e = Body(ds, e, 1)
           /\ FlattenSeq([k \in DOMAIN ds |-> Lexemes(ds[k])]) \in Seq(Lexeme)
           /\ \A j \in 1..Len(ds) + 1 : Body(ds, e, j) \in Seq(Lexeme)
           /\ Body(ds, e, Len(ds) + 1) = e
           /\ \A j \in 1..Len(ds) : Body(ds, e, j) = DefThen(ds[j], Body(ds, e, j + 1))
<1> DEFINE n == Len(ds)
           ss == [k \in DOMAIN ds |-> Lexemes(ds[k])]
           X == CHOOSE Z : Remainders(Z, Lexeme, ss, e)
<1>1. n \in Nat /\ DOMAIN ds = 1..n /\ \A k \in 1..n : ds[k] \in Definition /\ Formed(ds[k])
  BY LenProperties, ElementOfSeq
<1>2. <<>> \in Seq(Lexeme)
  BY EmptySeq
<1>3. \A k \in 1..n : Lexemes(ds[k]) \in Seq(Lexeme)
  BY <1>1, <1>2, DefLexemesThen
<1>4. ss \in Seq(Seq(Lexeme)) /\ Len(ss) = n
  <2>1. ss \in [1..n -> Seq(Lexeme)]
    BY <1>1, <1>3
  <2>2. ss \in Seq(Seq(Lexeme))
    BY <1>1, <2>1, SeqDef
  <2>3. Len(ss) \in Nat /\ 1..Len(ss) = 1..n
    BY <2>1, <2>2, LenProperties
  <2>4. ASSUME NEW a \in Nat, NEW b \in Nat, 1..a = 1..b PROVE a = b
    BY <2>4
  <2> HIDE DEF ss, n
  <2> QED BY <1>1, <2>2, <2>3, <2>4
<1>5. \A k \in 1..n : ss[k] = Lexemes(ds[k])
  BY <1>1
<1> HIDE DEF ss
<1>6. Remainders(X, Lexeme, ss, e)
  BY <1>4, RemaindersExist
<1>7. \A j : Body(ds, e, j) = X[j]
  BY DEF Body, ss
<1> HIDE DEF X
<1>8. /\ X[1] = FlattenSeq(ss) \o e /\ X[n + 1] = e
      /\ \A k \in 1..n : X[k] = Lexemes(ds[k]) \o X[k + 1]
      /\ \A j \in 1..n + 1 : X[j] \in Seq(Lexeme)
  BY <1>4, <1>5, <1>6 DEF Remainders
<1>9. FlattenSeq(ss) \in Seq(Lexeme)
  BY <1>2, <1>4, FlattenAppend
<1>10. ASSUME NEW j \in 1..n PROVE Body(ds, e, j) = DefThen(ds[j], Body(ds, e, j + 1))
  <2>1. j + 1 \in 1..n + 1
    BY <1>1
  <2>2. X[j + 1] \in Seq(Lexeme) /\ X[j] = Lexemes(ds[j]) \o X[j + 1]
    BY <1>8, <2>1
  <2>3. Body(ds, e, j) = X[j] /\ Body(ds, e, j + 1) = X[j + 1]
    BY <1>7
  <2>4. Lexemes(ds[j]) \o X[j + 1] = DefThen(ds[j], X[j + 1])
    BY <1>1, <2>2, DefLexemesThen
  <2> QED BY <2>2, <2>3, <2>4
<1>11. \A j \in 1..n + 1 : Body(ds, e, j) \in Seq(Lexeme)
  BY <1>7, <1>8
<1>12. Body(ds, e, n + 1) = e /\ FlattenSeq(ss) \o e = Body(ds, e, 1)
  BY <1>7, <1>8
<1> QED BY <1>9, <1>10, <1>11, <1>12 DEF ss

\* The solid lexemes of a text that declares ds.
LEMMA DeclaredSolids ==
    ASSUME NEW ds \in Seq(Definition), NEW t, Declares(t, ds)
    PROVE  /\ \A k \in DOMAIN ds : Formed(ds[k])
           /\ \/ Solids(t) \in {Body(ds, <<>>, 1), Then(Key("header"), Body(ds, <<>>, 1))}
              \/ ds # <<>> /\ Solids(t) = Then(Key("header"), Body(ds, Word("END"), 1))
<1> DEFINE body == FlattenSeq([k \in DOMAIN ds |-> Lexemes(ds[k])])
           h == Word("header")
           e == Word("END")
<1>1. /\ \A k \in DOMAIN ds : Formed(ds[k])
      /\ \/ Solids(t) \in {body, h \o body}
         \/ ds # <<>> /\ Solids(t) = h \o body \o e
  BY DEF Declares
<1>2. <<>> \in Seq(Lexeme) /\ h \in Seq(Lexeme) /\ e \in Seq(Lexeme)
  BY EmptySeq, KeyTyped DEF Signs
<1>3. body \in Seq(Lexeme) /\ body \o <<>> = Body(ds, <<>>, 1)
      /\ body \o e = Body(ds, e, 1)
  BY <1>1, <1>2, BodyFacts
<1> HIDE DEF body
<1>4. body \o <<>> = body /\ body \o e \in Seq(Lexeme)
  BY <1>2, <1>3, Assoc
<1>5. h \o body = Then(Key("header"), body) /\ h \o (body \o e) = Then(Key("header"), body \o e)
  BY <1>3, <1>4, KeyThen DEF Signs
<1>6. (h \o body) \o e = h \o (body \o e)
  <2>1. \A x, y, v \in Seq(Lexeme) : (x \o y) \o v = x \o (y \o v)
    BY Assoc
  <2> HIDE DEF h, e
  <2> QED BY <1>2, <1>3, <2>1
<1> HIDE DEF h, e
<1>7. Solids(t) = body \/ Solids(t) = h \o body \/ (ds # <<>> /\ Solids(t) = h \o (body \o e))
  BY <1>1, <1>6
<1> QED BY <1>1, <1>3, <1>4, <1>5, <1>7 DEF e

-----------------------------------------------------------------------------
(* The printer: what it writes is a text.                                   *)
\* What may come next to a lexeme without a blank: a comma.
May(k) == IF k \in {"type", "builtin", "size", "OPTIONAL"} THEN {"ws", "comma"} ELSE {"ws"}

\* A text in which the parser finds its way: as InOrder, with such commas.
Spaced(t) ==
    \A i \in 1..Len(t) : /\ Solid(t[i]) /\ i < Len(t) => t[i + 1].k \in May(t[i].k)
                         /\ t[i].k = "comment" => ~NextSolid(t, i, "::=")

\* A text without comments, and its solid lexemes.
Laid(u) == \A i \in 1..Len(u) : /\ u[i].k # "comment"
                                /\ Solid(u[i]) /\ i < Len(u) => u[i + 1].k \in May(u[i].k)
Sound(u, v) == u \in Seq(Lexeme) /\ v \in Seq(Lexeme) /\ Solids(u) = v /\ Laid(u)

Starts(u, K) == u = <<>> \/ u[1].k \in K

\* A lexeme in front of such a text.
LEMMA SoundThen ==
    ASSUME NEW u, NEW v, Sound(u, v), NEW l \in Lexeme, l.k # "comment",
           Solid(l) => Starts(u, May(l.k))
    PROVE  Sound(Then(l, u), IF Solid(l) THEN Then(l, v) ELSE v)
<1> DEFINE t == Then(l, u)
<1>1. u \in Seq(Lexeme) /\ v \in Seq(Lexeme) /\ Len(u) \in Nat
  BY LenProperties DEF Sound
<1>2. /\ t \in Seq(Lexeme) /\ Len(t) = Len(u) + 1 /\ t[1] = l
      /\ \A i \in 1..Len(u) : t[i + 1] = u[i]
  BY <1>1, ThenFacts
<1>3. Then(l, v) \in Seq(Lexeme)
  BY <1>1, ThenFacts
<1>4. Solids(t) = IF Solid(l) THEN Then(l, Solids(u)) ELSE Solids(u)
  BY <1>1, SolidsThen
<1> HIDE DEF t
<1>5. ASSUME NEW i \in 1..Len(t)
      PROVE  /\ t[i].k # "comment"
             /\ Solid(t[i]) /\ i < Len(t) => t[i + 1].k \in May(t[i].k)
  <2>1. CASE i = 1
    <3>1. i < Len(t) => u # <<>> /\ t[i + 1] = u[1]
      <4>1. CASE Len(u) = 0
        BY <1>2, <2>1, <4>1
      <4>2. CASE Len(u) # 0
        <5>1. 1 \in 1..Len(u) /\ u # <<>>
          BY <1>1, <4>2, EmptySeq
        <5> QED BY <1>2, <2>1, <5>1
      <4> QED BY <4>1, <4>2
    <3> QED BY <1>2, <2>1, <3>1 DEF Starts
  <2>2. CASE i # 1
    <3>1. i - 1 \in 1..Len(u) /\ (i - 1) + 1 = i
      BY <1>1, <1>2, <2>2
    <3>2. t[i] = u[i - 1]
      BY <1>2, <3>1
    <3>3. i < Len(t) => i - 1 < Len(u) /\ t[i + 1] = u[i] /\ i = (i - 1) + 1
      BY SMTT(20), <1>1, <1>2, <3>1
    <3>4. /\ u[i - 1].k # "comment"
          /\ Solid(u[i - 1]) /\ i - 1 < Len(u) => u[(i - 1) + 1].k \in May(u[i - 1].k)
      BY <3>1 DEF Sound, Laid
    <3> QED BY <3>1, <3>2, <3>3, <3>4
  <2> QED BY <2>1, <2>2
<1> QED BY <1>1, <1>2, <1>3, <1>4, <1>5 DEF Sound, Laid, t

\* The text p, which writes q, fits in front of texts that start with a lexeme of
\* the kinds K.
Piece(p, q, K) ==
    /\ p \in Seq(Lexeme) /\ q \in Seq(Lexeme)
    /\ \A u, v \in Seq(Lexeme) : Sound(u, v) /\ Starts(u, K) => Sound(p \o u, q \o v)

\* Nothing is printed for nothing.
LEMMA PieceEmpty == ASSUME NEW K PROVE Piece(<<>>, <<>>, K)
<1>1. <<>> \in Seq(Lexeme) /\ \A u \in Seq(Lexeme) : <<>> \o u = u
  BY EmptySeq, ConcatEmptySeq
<1> QED BY <1>1 DEF Piece

\* A lexeme is printed as it is.
LEMMA PieceSolid ==
    ASSUME NEW l \in Lexeme, Solid(l) PROVE Piece(<<l>>, <<l>>, May(l.k))
<1>1. <<l>> \in Seq(Lexeme)
  OBVIOUS
<1>2. ASSUME NEW u \in Seq(Lexeme), NEW v \in Seq(Lexeme), Sound(u, v), Starts(u, May(l.k))
      PROVE  Sound(<<l>> \o u, <<l>> \o v)
  <2>1. l.k # "comment"
    BY DEF Solid
  <2>2. Sound(Then(l, u), Then(l, v))
    BY <1>2, <2>1, SoundThen
  <2> QED BY <2>2 DEF Then
<1> QED BY <1>1, <1>2 DEF Piece

\* Blanks in front of such a text.
LEMMA BlankThen ==
    ASSUME NEW u, NEW v, Sound(u, v)
    PROVE  Sound(Blank \o u, v) /\ Blank \o u # <<>> /\ (Blank \o u)[1].k = "ws"
<1> DEFINE l == [k |-> "ws", v |-> Null]
<1>1. l \in Lexeme /\ ~Solid(l) /\ l.k = "ws" /\ Blank = <<l>>
  BY DEF Lexeme, Kinds, Solid, Blank, Word
<1> HIDE DEF l
<1>2. Sound(Then(l, u), v)
  BY <1>1, SoundThen
<1>3. u \in Seq(Lexeme)
  BY DEF Sound
<1>4. Then(l, u) # <<>> /\ Then(l, u)[1] = l
  BY <1>1, <1>3, ThenFacts
<1> QED BY <1>1, <1>2, <1>4 DEF Then

\* A blank.
LEMMA BlankTyped == Blank \in Seq(Lexeme) /\ Blank # <<>> /\ Blank[1].k = "ws"
<1>1. [k |-> "ws", v |-> Null] \in Lexeme
  BY DEF Lexeme, Kinds
<1> QED BY <1>1 DEF Blank, Word

\* Blanks behind a piece: anything may follow.
LEMMA PieceBlank ==
    ASSUME NEW p, NEW q, NEW K, Piece(p, q, K), "ws" \in K, NEW L
    PROVE  Piece(p \o Blank, q, L)
<1>1. p \in Seq(Lexeme) /\ q \in Seq(Lexeme)
  BY DEF Piece
<1>2. p \o Blank \in Seq(Lexeme)
  BY <1>1, BlankTyped, ConcatProperties
<1>3. ASSUME NEW u \in Seq(Lexeme), NEW v \in Seq(Lexeme), Sound(u, v)
      PROVE  Sound((p \o Blank) \o u, q \o v)
  <2>1. (p \o Blank) \o u = p \o (Blank \o u)
    BY SMTT(20), <1>1, BlankTyped, ConcatAssociative
  <2>2. Sound(Blank \o u, v) /\ Starts(Blank \o u, K) /\ Blank \o u \in Seq(Lexeme)
    BY <1>3, BlankThen DEF Starts, Sound
  <2>3. Sound(p \o (Blank \o u), q \o v)
    BY <2>2 DEF Piece
  <2> QED BY <2>1, <2>3
<1> QED BY <1>1, <1>2, <1>3 DEF Piece

\* One piece behind another: it starts with what the first one needs.
LEMMA PieceConcat ==
    ASSUME NEW p, NEW q, NEW K, Piece(p, q, K), NEW x, NEW y, NEW L, Piece(x, y, L),
           \/ K = Kinds
           \/ x # <<>> /\ x[1].k \in K
           \/ x = <<>> /\ L \subseteq K
    PROVE  Piece(p \o x, q \o y, L)
<1>1. /\ p \in Seq(Lexeme) /\ q \in Seq(Lexeme) /\ x \in Seq(Lexeme) /\ y \in Seq(Lexeme)
  BY DEF Piece
<1>2. p \o x \in Seq(Lexeme) /\ q \o y \in Seq(Lexeme)
  BY <1>1, ConcatProperties
<1>3. ASSUME NEW u \in Seq(Lexeme), NEW v \in Seq(Lexeme), Sound(u, v), Starts(u, L)
      PROVE  Sound((p \o x) \o u, (q \o y) \o v)
  <2> DEFINE z == x \o u
             a == y \o v
  <2>1. (p \o x) \o u = p \o z /\ (q \o y) \o v = q \o a
    <3>1. \A b, c, d \in Seq(Lexeme) : (b \o c) \o d = b \o (c \o d)
      BY Assoc
    <3>2. (p \o x) \o u = p \o (x \o u)
      BY ZenonT(40), <1>1, <3>1
    <3>3. (q \o y) \o v = q \o (y \o v)
      BY ZenonT(40), <1>1, <3>1
    <3> QED BY <3>2, <3>3
  <2>2. Sound(z, a) /\ z \in Seq(Lexeme) /\ a \in Seq(Lexeme)
    BY <1>1, <1>3, ConcatProperties DEF Piece
  <2>3. Starts(z, K)
    <3>1. CASE K = Kinds
      <4>1. \A l \in Lexeme : l.k \in Kinds
        BY DEF Lexeme, Kinds
      <4>2. z # <<>> => 1 \in 1..Len(z)
        BY <2>2, EmptySeq
      <4>3. z # <<>> => z[1] \in Lexeme
        BY <2>2, <4>2, ElementOfSeq
      <4> QED BY <3>1, <4>1, <4>3 DEF Starts
    <3>2. CASE x # <<>> /\ x[1].k \in K
      <4>1. Len(x) \in Nat \ {0} /\ Len(u) \in Nat
        BY <1>1, <3>2, EmptySeq, LenProperties
      <4>2. 1 \in 1..Len(x) + Len(u) /\ 1 <= Len(x)
        BY <4>1
      <4>3. (x \o u)[1] = x[1]
        BY <1>1, <4>2, ConcatProperties
      <4> QED BY <3>2, <4>3 DEF Starts
    <3>3. CASE x = <<>> /\ L \subseteq K
      <4>1. z = u
        BY <3>3, ConcatEmptySeq
      <4> QED BY <1>3, <3>3, <4>1 DEF Starts
    <3> QED BY <3>1, <3>2, <3>3
  <2> HIDE DEF z, a
  <2>4. Sound(p \o z, q \o a)
    BY <2>2, <2>3 DEF Piece
  <2> QED BY <2>1, <2>4
<1> QED BY <1>1, <1>2, <1>3 DEF Piece

\* Less may follow.
LEMMA PieceFewer ==
    ASSUME NEW p, NEW q, NEW K, Piece(p, q, K), NEW L, L \subseteq K PROVE Piece(p, q, L)
BY DEF Piece, Starts

\* Keywords and signs as pieces.
LEMMA PieceWord ==
    ASSUME NEW k \in Signs
    PROVE  /\ Piece(Word(k), Word(k), {"ws"})
           /\ k = "OPTIONAL" => Piece(Word(k), Word(k), {"ws", "comma"})
           /\ Word(k) # <<>> /\ Word(k)[1].k = k
<1>1. Key(k) \in Lexeme /\ Word(k) = <<Key(k)>> /\ Key(k).k = k /\ Solid(Key(k))
  BY KeyTyped DEF Key, Solid, Signs
<1>2. Piece(Word(k), Word(k), May(k))
  BY <1>1, PieceSolid
<1>3. {"ws"} \subseteq May(k) /\ (k = "OPTIONAL" => May(k) = {"ws", "comma"})
  BY DEF May
<1> QED BY <1>1, <1>2, <1>3, PieceFewer

\* Names, tags and constraints as pieces.
LEMMA PieceValues ==
    /\ \A x \in Tag : Piece(Value("tag", x), Value("tag", x), {"ws"})
    /\ \A x \in Constraint : Piece(Value("size", x), Value("size", x), {"ws", "comma"})
    /\ \A n \in Field : Piece(FieldName(n), FieldName(n), {"ws"})
    /\ \A n \in Ident \cup Builtin \cup {Empty} : Piece(Name(n), Name(n), {"ws", "comma"})
<1>1. ASSUME NEW x \in Tag PROVE Piece(Value("tag", x), Value("tag", x), {"ws"})
  <2> DEFINE l == [k |-> "tag", v |-> x]
  <2>1. x # Null /\ l \in Lexeme /\ Solid(l) /\ May(l.k) = {"ws"} /\ Value("tag", x) = <<l>>
    BY KeyTyped, ParserAssumption DEF Solid, May, Value
  <2> HIDE DEF l
  <2>2. Piece(<<l>>, <<l>>, May(l.k))
    BY <2>1, PieceSolid
  <2> QED BY <2>1, <2>2
<1>2. ASSUME NEW x \in Constraint PROVE Piece(Value("size", x), Value("size", x), {"ws", "comma"})
  <2> DEFINE l == [k |-> "size", v |-> x]
  <2>1. x # Null /\ l \in Lexeme /\ Solid(l) /\ May(l.k) = {"ws", "comma"} /\ Value("size", x) = <<l>>
    BY KeyTyped, ParserAssumption DEF Solid, May, Value
  <2> HIDE DEF l
  <2>2. Piece(<<l>>, <<l>>, May(l.k))
    BY <2>1, PieceSolid
  <2> QED BY <2>1, <2>2
<1>3. ASSUME NEW n \in Field PROVE Piece(FieldName(n), FieldName(n), {"ws"})
  <2> DEFINE l == [k |-> "name", v |-> n]
  <2>1. n # Null /\ n # Empty /\ l \in Lexeme /\ Solid(l) /\ May(l.k) = {"ws"}
    BY KeyTyped, ParserAssumption DEF Solid, May
  <2>2. FieldName(n) = <<l>>
    BY <2>1 DEF FieldName, Value
  <2> HIDE DEF l
  <2>3. Piece(<<l>>, <<l>>, May(l.k))
    BY <2>1, PieceSolid
  <2> QED BY <2>1, <2>2, <2>3
<1>4. ASSUME NEW n \in Ident \cup Builtin \cup {Empty}
      PROVE  Piece(Name(n), Name(n), {"ws", "comma"})
  <2>1. CASE n = Empty
    BY <2>1, PieceEmpty, ParserAssumption DEF Name
  <2>2. CASE n # Empty
    <3> DEFINE l == [k |-> IF n \in Builtin THEN "builtin" ELSE "type", v |-> n]
    <3>1. n # Null /\ l \in Lexeme /\ Solid(l) /\ May(l.k) = {"ws", "comma"}
      BY <2>2, KeyTyped, ParserAssumption DEF Solid, May
    <3>2. Name(n) = <<l>>
      BY <2>2, <3>1 DEF Name, Value
    <3> HIDE DEF l
    <3>3. Piece(<<l>>, <<l>>, May(l.k))
      BY <3>1, PieceSolid
    <3> QED BY <3>1, <3>2, <3>3
  <2> QED BY <2>1, <2>2
<1> QED BY <1>1, <1>2, <1>3, <1>4

\* The printer of coordinates.
LEMMA PieceCoordinates ==
    ASSUME NEW x \in Tag \cup {Null} PROVE Piece(Coordinates(x), Value("tag", x), Kinds)
<1>1. CASE x = Null
  BY <1>1, PieceEmpty DEF Coordinates, Value
<1>2. CASE x # Null
  BY <1>2, PieceValues, PieceBlank DEF Coordinates
<1> QED BY <1>1, <1>2

\* The constraint of a reference or a link.
SizeText(x) == IF x = Null THEN <<>> ELSE Blank \o Value("size", x)

\* The printer of a constraint, behind a type.
LEMMA PieceSize ==
    ASSUME NEW p, NEW q, Piece(p, q, {"ws", "comma"}), NEW x \in Constraint \cup {Null}
    PROVE  Piece(p \o SizeText(x), q \o Value("size", x), {"ws", "comma"})
<1>1. CASE x = Null
  BY <1>1, PieceConcat, PieceEmpty DEF SizeText, Value
<1>2. CASE x # Null
  <2> DEFINE s == Value("size", x)
  <2>1. Piece(s, s, {"ws", "comma"})
    BY <1>2, PieceValues
  <2>2. Piece(p \o Blank, q, Kinds)
    BY PieceBlank
  <2>3. Piece((p \o Blank) \o s, q \o s, {"ws", "comma"})
    BY <2>1, <2>2, PieceConcat
  <2>4. p \in Seq(Lexeme) /\ s \in Seq(Lexeme) /\ Blank \in Seq(Lexeme)
    BY <2>1, BlankTyped DEF Piece
  <2>5. SizeText(x) = Blank \o s
    BY <1>2 DEF SizeText
  <2> HIDE DEF s
  <2>6. p \o (Blank \o s) = (p \o Blank) \o s
    BY <2>4, ConcatAssociative
  <2> QED BY <2>3, <2>5, <2>6 DEF s
<1> QED BY <1>1, <1>2

\* The printer of a reference.
LEMMA PieceReference ==
    ASSUME NEW r \in Reference
    PROVE  Piece(PrintReference(r), ReferenceLexemes(r), {"ws", "comma"})
<1> DEFINE a == IF r.name = Empty THEN <<>> ELSE FieldName(r.name) \o Blank
           b == Coordinates(r.coord)
           c == Name(r.symbol)
           d == SizeText(r.cons)
           o == IF r.opt THEN Blank \o Word("OPTIONAL") ELSE <<>>
           u == IF r.opt THEN Word("OPTIONAL") ELSE <<>>
           K == {"ws", "comma"}
<1>1. /\ r.name \in Field \cup {Empty} /\ r.symbol \in Ident \cup Builtin \cup {Empty}
      /\ r.coord \in Tag \cup {Null} /\ r.cons \in Constraint \cup {Null} /\ r.opt \in BOOLEAN
  BY DEF Reference
<1>2. Piece(a, FieldName(r.name), Kinds)
  <2>1. CASE r.name = Empty
    BY <2>1, PieceEmpty DEF FieldName
  <2>2. CASE r.name # Empty
    BY <1>1, <2>2, PieceValues, PieceBlank
  <2> QED BY <2>1, <2>2
<1>3. Piece(a \o b, FieldName(r.name) \o Value("tag", r.coord), Kinds)
  <2> HIDE DEF a
  <2> QED BY <1>1, <1>2, PieceCoordinates, PieceConcat
<1>4. Piece((a \o b) \o c, (FieldName(r.name) \o Value("tag", r.coord)) \o c, K)
  <2>1. Piece(c, c, K)
    BY <1>1, PieceValues
  <2> HIDE DEF a, b, c, K
  <2> QED BY <1>3, <2>1, PieceConcat
<1> DEFINE p == ((a \o b) \o c) \o d
           q == ((FieldName(r.name) \o Value("tag", r.coord)) \o c) \o Value("size", r.cons)
<1>5. Piece(p, q, K)
  <2> HIDE DEF a, b, c
  <2> QED BY <1>1, <1>4, PieceSize
<1>6. PrintReference(r) = p \o o /\ ReferenceLexemes(r) = q \o u
  BY DEF PrintReference, ReferenceLexemes, SizeText
<1> HIDE DEF p, q
<1>7. CASE ~r.opt
  BY <1>5, <1>6, <1>7, PieceConcat, PieceEmpty
<1>8. CASE r.opt
  <2> DEFINE w == Word("OPTIONAL")
  <2>1. Piece(w, w, K)
    BY PieceWord DEF Signs
  <2>2. Piece(p \o Blank, q, Kinds)
    BY <1>5, PieceBlank
  <2>3. p \in Seq(Lexeme) /\ w \in Seq(Lexeme) /\ Blank \in Seq(Lexeme)
    BY <1>5, <2>1, BlankTyped DEF Piece
  <2>4. o = Blank \o w /\ u = w
    BY <1>8
  <2> HIDE DEF w, o, u
  <2>5. Piece((p \o Blank) \o w, q \o w, K)
    BY <2>1, <2>2, PieceConcat
  <2>6. p \o (Blank \o w) = (p \o Blank) \o w
    BY <2>3, ConcatAssociative
  <2> QED BY <1>6, <2>4, <2>5, <2>6
<1> QED BY <1>1, <1>7, <1>8

\* The printer of a link.
LEMMA PieceLink ==
    ASSUME NEW u \in Rule, NEW n \in Ident \cup Builtin, NEW c \in Constraint \cup {Null},
           u.refs = <<[NewReference(n) EXCEPT !.cons = c]>>, u.type = "LINK"
    PROVE  Piece(PrintRule(u), RuleLexemes(u), {"ws"})
<1> DEFINE r == [NewReference(n) EXCEPT !.cons = c]
           a == Name(n)
           s == Value("size", c)
<1>1. u.refs[1] = r /\ u.refs # <<>>
  BY EmptySeq
<1>2. r.name = Empty /\ r.symbol = n /\ r.coord = Null /\ r.cons = c /\ r.opt = FALSE
  BY DEF NewReference
<1> HIDE DEF r
<1>3. PrintRule(u) = a \o SizeText(c)
  BY <1>1, <1>2 DEF PrintRule, PrintLink, SizeText
<1>4. a \in Seq(Lexeme) /\ s \in Seq(Lexeme) /\ a \o s \in Seq(Lexeme)
  BY ValueParts, ConcatProperties
<1>5. ReferenceLexemes(r) = (((<<>> \o <<>>) \o a) \o s) \o <<>>
  BY <1>2 DEF ReferenceLexemes, FieldName, Value
<1>6. ReferenceLexemes(r) = a \o s
  <2>1. <<>> \in Seq(Lexeme) /\ \A x \in Seq(Lexeme) : x \o <<>> = x /\ <<>> \o x = x
    BY Assoc, EmptySeq
  <2> HIDE DEF a, s
  <2> QED BY <1>4, <1>5, <2>1
<1>7. RuleLexemes(u) = a \o s
  BY <1>1, <1>6 DEF RuleLexemes
<1>8. Piece(a, a, {"ws", "comma"})
  BY PieceValues
<1> HIDE DEF a
<1>9. Piece(a \o SizeText(c), a \o s, {"ws", "comma"})
  BY <1>8, PieceSize
<1> QED BY <1>3, <1>7, <1>9, PieceFewer

\* print_of()
LEMMA PieceOf ==
    ASSUME NEW u \in Rule, u.type \in {"LIST", "SET"}, Len(u.refs) = 1
    PROVE  Piece(PrintRule(u), RuleLexemes(u), {"ws"})
<1> DEFINE lists == [LIST |-> "SEQUENCE", SET |-> "SET"]
           k == ListWord(u.type)
           a == Word(k)
           o == Word("OF")
           p == PrintReference(u.refs[1])
           q == ReferenceLexemes(u.refs[1])
<1>1. u.refs \in Seq(Reference) /\ u.refs # <<>> /\ u.refs[1] \in Reference
  <2>1. u.refs \in Seq(Reference)
    BY DEF Rule
  <2>2. 1 \in 1..Len(u.refs) /\ u.refs # <<>>
    <3>1. Len(<<>>) = 0
      OBVIOUS
    <3>2. Len(u.refs) = 1
      OBVIOUS
    <3>3. u.refs # <<>>
      <4>1. ASSUME NEW s, s = <<>>
            PROVE  Len(s) = 0
        BY <3>1, <4>1
      <4>2. \A s : Len(s) = 1 => s # <<>>
        BY <4>1
      <4> QED BY <3>2, <4>2, Zenon
    <3>4. 1 \in 1..Len(u.refs)
      BY <3>2
    <3> QED BY <3>3, <3>4
  <2> QED BY <2>1, <2>2, ElementOfSeq
<1>2. lists[u.type] = k /\ k \in Signs
  BY DEF ListWord, Signs
<1>3. PrintRule(u) = (((a \o Blank) \o o) \o Blank) \o p
  BY <1>1 DEF PrintRule, PrintOf, ListWord
<1>4. RuleLexemes(u) = (a \o o) \o q
  BY <1>2 DEF RuleLexemes
<1>5. Piece(p, q, {"ws", "comma"})
  BY <1>1, PieceReference
<1>6. Piece(a, a, {"ws"}) /\ Piece(o, o, {"ws"})
  BY <1>2, PieceWord DEF Signs
<1> HIDE DEF a, o, p, q
<1>7. Piece(a \o Blank, a, Kinds)
  BY <1>6, PieceBlank
<1>8. Piece((a \o Blank) \o o, a \o o, {"ws"})
  BY <1>6, <1>7, PieceConcat
<1>9. Piece(((a \o Blank) \o o) \o Blank, a \o o, Kinds)
  BY <1>8, PieceBlank
<1>10. Piece((((a \o Blank) \o o) \o Blank) \o p, (a \o o) \o q, {"ws", "comma"})
  BY <1>5, <1>9, PieceConcat
<1> QED BY <1>3, <1>4, <1>10, PieceFewer

\* The items of a record, as they are printed.
PrintedItem(refs, k) ==
    (IF k = 1 THEN <<>> ELSE Word("comma") \o Blank) \o PrintReference(refs[k])

\* The references that print_record() prints.
LEMMA PieceItems ==
    ASSUME NEW refs \in Seq(Reference)
    PROVE  Piece(FlattenSeq([k \in DOMAIN refs |-> PrintedItem(refs, k)]),
                 FlattenSeq([k \in DOMAIN refs |-> Item(refs, k)]), {"ws", "comma"})
<1> DEFINE n == Len(refs)
           pp == [k \in DOMAIN refs |-> PrintedItem(refs, k)]
           qq == [k \in DOMAIN refs |-> Item(refs, k)]
           K == {"ws", "comma"}
<1>1. n \in Nat /\ DOMAIN refs = 1..n /\ \A k \in 1..n : refs[k] \in Reference
  BY LenProperties, ElementOfSeq
<1>2. Piece(Word("comma"), Word("comma"), {"ws"}) /\ Word("comma") # <<>>
      /\ Word("comma")[1].k = "comma" /\ Word("comma") \in Seq(Lexeme)
  BY PieceWord, KeyTyped DEF Signs
<1>3. ASSUME NEW k \in 1..n
      PROVE  /\ Piece(PrintedItem(refs, k), Item(refs, k), K)
             /\ k # 1 => PrintedItem(refs, k) # <<>> /\ PrintedItem(refs, k)[1].k = "comma"
  <2> DEFINE p == PrintReference(refs[k])
             q == ReferenceLexemes(refs[k])
             c == Word("comma")
  <2>1. Piece(p, q, K)
    BY <1>1, PieceReference
  <2>2. p \in Seq(Lexeme) /\ q \in Seq(Lexeme)
    BY <2>1 DEF Piece
  <2>3. CASE k = 1
    <3>1. PrintedItem(refs, k) = p /\ Item(refs, k) = q
      BY <2>2, <2>3, ConcatEmptySeq DEF PrintedItem, Item
    <3> QED BY <2>1, <2>3, <3>1
  <2>4. CASE k # 1
    <3>1. PrintedItem(refs, k) = (c \o Blank) \o p /\ Item(refs, k) = c \o q
      BY <2>4 DEF PrintedItem, Item
    <3> HIDE DEF p, q, c
    <3>2. Piece(c \o Blank, c, Kinds)
      BY <1>2, PieceBlank DEF c
    <3>3. Piece((c \o Blank) \o p, c \o q, K)
      BY <2>1, <3>2, PieceConcat
    <3>4. (c \o Blank) \o p = c \o (Blank \o p) /\ Blank \o p \in Seq(Lexeme)
      BY SMTT(20), <1>2, <2>2, BlankTyped, ConcatAssociative, ConcatProperties DEF c
    <3>5. c = <<Key("comma")>> /\ Key("comma") \in Lexeme /\ Key("comma").k = "comma"
      BY KeyTyped DEF Signs, Key, c
    <3>6. Then(Key("comma"), Blank \o p) # <<>>
          /\ Then(Key("comma"), Blank \o p)[1] = Key("comma")
      BY <3>4, <3>5, ThenFacts
    <3>7. (c \o Blank) \o p = Then(Key("comma"), Blank \o p)
      BY <3>4, <3>5 DEF Then
    <3> QED BY <3>1, <3>3, <3>5, <3>6, <3>7
  <2> QED BY <2>3, <2>4
<1>4. pp \in Seq(Seq(Lexeme)) /\ qq \in Seq(Seq(Lexeme)) /\ Len(pp) = n /\ Len(qq) = n
  <2>1. \A k \in 1..n : PrintedItem(refs, k) \in Seq(Lexeme) /\ Item(refs, k) \in Seq(Lexeme)
    BY <1>3 DEF Piece
  <2>2. pp \in [1..n -> Seq(Lexeme)] /\ qq \in [1..n -> Seq(Lexeme)]
    BY <1>1, <2>1
  <2>3. pp \in Seq(Seq(Lexeme)) /\ qq \in Seq(Seq(Lexeme))
    BY <1>1, <2>2, SeqDef
  <2>4. ASSUME NEW a \in Nat, NEW b \in Nat, 1..a = 1..b PROVE a = b
    BY <2>4
  <2>5. Len(pp) \in Nat /\ 1..Len(pp) = 1..n
    BY <2>2, <2>3, LenProperties
  <2>6. Len(qq) \in Nat /\ 1..Len(qq) = 1..n
    BY <2>2, <2>3, LenProperties
  <2> HIDE DEF pp, qq, n
  <2>7. Len(pp) = n
    BY <1>1, <2>4, <2>5
  <2>8. Len(qq) = n
    BY <1>1, <2>4, <2>6
  <2> QED BY <2>3, <2>7, <2>8
<1>5. \A k \in 1..n : pp[k] = PrintedItem(refs, k) /\ qq[k] = Item(refs, k)
  BY <1>1
<1> HIDE DEF pp, qq
<1>6. PICK f : Joined(f, Lexeme, pp)
  BY <1>4, JoinedExists
<1>7. PICK g : Joined(g, Lexeme, qq)
  BY <1>4, JoinedExists
<1>8. FlattenSeq(pp) = f[n] /\ FlattenSeq(qq) = g[n]
  BY <1>4, <1>6, <1>7, Flattened
<1>9. /\ f[0] = <<>> /\ g[0] = <<>>
      /\ \A k \in 1..n : f[k] = f[k - 1] \o PrintedItem(refs, k) /\ g[k] = g[k - 1] \o Item(refs, k)
  BY <1>4, <1>5, <1>6, <1>7 DEF Joined
<1> DEFINE T == {k \in 0..n : Piece(f[k], g[k], K) /\ (k = 0 => f[k] = <<>> /\ g[k] = <<>>)}
<1>10. 0 \in T
  <2>1. Piece(f[0], g[0], K)
    BY <1>9, PieceEmpty
  <2> HIDE DEF K, n
  <2> QED BY <1>1, <1>9, <2>1
<1>11. ASSUME NEW k \in 1..n, k - 1 \in T PROVE k \in T
  <2> DEFINE x == PrintedItem(refs, k)
             y == Item(refs, k)
  <2>1. Piece(f[k - 1], g[k - 1], K) /\ Piece(x, y, K)
    BY <1>3, <1>11
  <2>2. f[k] = f[k - 1] \o x /\ g[k] = g[k - 1] \o y
    BY <1>9
  <2>3. k # 1 => x # <<>> /\ x[1].k \in K
    BY <1>3
  <2>4. k = 1 => f[k] = x /\ g[k] = y
    <3>1. x \in Seq(Lexeme) /\ y \in Seq(Lexeme)
      BY <2>1 DEF Piece
    <3>2. <<>> \o x = x /\ <<>> \o y = y
      BY <3>1, ConcatEmptySeq
    <3>3. k = 1 => f[k - 1] = <<>> /\ g[k - 1] = <<>>
      BY <1>9
    <3> HIDE DEF x, y
    <3> QED BY <2>2, <3>2, <3>3
  <2> HIDE DEF x, y, K, n
  <2>5. Piece(f[k], g[k], K)
    <3>1. CASE k = 1
      BY <2>1, <2>4, <3>1
    <3>2. CASE k # 1
      BY <2>1, <2>2, <2>3, <3>2, PieceConcat
    <3> QED BY <3>1, <3>2
  <2> QED BY <1>1, <2>5
<1>12. n \in T
  <2>1. \A k \in 0..n : k \in T
    <3> HIDE DEF T, n
    <3> QED BY <1>1, <1>10, <1>11, Counting
  <2> HIDE DEF T, n
  <2> QED BY <1>1, <2>1
<1> QED BY <1>8, <1>12 DEF pp, qq

\* print_record()
LEMMA PieceRecord ==
    ASSUME NEW u \in Rule, u.type \in RecordTypes
    PROVE  Piece(PrintRule(u), RuleLexemes(u), {"ws"})
<1> DEFINE records == [SEQUENCE |-> "SEQUENCE", ALL |-> "SET", CHOICE |-> "CHOICE"]
           a == Word(RecordWord(u.type))
           b == Word("brace")
           c == Word("close")
           m == Word("comma")
           x == Word("...")
           F == FlattenSeq([k \in DOMAIN u.refs |-> PrintedItem(u.refs, k)])
           H == FlattenSeq([k \in DOMAIN u.refs |-> Item(u.refs, k)])
           G == IF u.ext THEN (m \o Blank) \o x ELSE <<>>
           E == IF u.ext THEN m \o x ELSE <<>>
<1>1. u.refs \in Seq(Reference) /\ u.ext \in BOOLEAN
  BY DEF Rule
<1>2. records[u.type] = RecordWord(u.type) /\ RecordWord(u.type) \in Signs
  BY DEF RecordWord, RecordTypes, Signs
<1>3. PrintRule(u) = (((((((a \o Blank) \o b) \o Blank) \o F) \o G) \o Blank) \o c)
  BY DEF PrintRule, PrintRecord, RecordWord, RecordTypes, PrintedItem
<1>4. RuleLexemes(u) = (((a \o b) \o H) \o E) \o c
  BY <1>2 DEF RuleLexemes, RecordTypes, Item
<1>5. Piece(F, H, {"ws", "comma"})
  BY <1>1, PieceItems
<1>6. /\ Piece(a, a, {"ws"}) /\ Piece(b, b, {"ws"}) /\ Piece(c, c, {"ws"})
      /\ Piece(m, m, {"ws"}) /\ Piece(x, x, {"ws"})
  BY <1>2, PieceWord DEF Signs
<1>7. m = <<Key("comma")>> /\ Key("comma") \in Lexeme /\ Key("comma").k = "comma"
  BY KeyTyped DEF Signs, Key
<1> HIDE DEF a, b, c, m, x, F, H
<1>8. Piece(a \o Blank, a, Kinds)
  BY <1>6, PieceBlank
<1>9. Piece((a \o Blank) \o b, a \o b, {"ws"})
  BY <1>6, <1>8, PieceConcat
<1>10. Piece(((a \o Blank) \o b) \o Blank, a \o b, Kinds)
  BY <1>9, PieceBlank
<1> DEFINE p == (((a \o Blank) \o b) \o Blank) \o F
           q == (a \o b) \o H
<1>11. Piece(p, q, {"ws", "comma"})
  BY <1>5, <1>10, PieceConcat
<1> HIDE DEF p, q
<1>12. Piece(p \o G, q \o E, {"ws"})
  <2>1. CASE ~u.ext
    <3>1. G = <<>> /\ E = <<>>
      BY <2>1
    <3>2. Piece(<<>>, <<>>, {"ws"})
      BY PieceEmpty
    <3> HIDE DEF G, E
    <3> QED BY <1>11, <3>1, <3>2, PieceConcat
  <2>2. CASE u.ext
    <3>1. Piece(m \o Blank, m, Kinds)
      BY <1>6, PieceBlank
    <3>2. Piece((m \o Blank) \o x, m \o x, {"ws"})
      BY <1>6, <3>1, PieceConcat
    <3>3. x \in Seq(Lexeme) /\ m \in Seq(Lexeme)
      BY <1>6 DEF Piece
    <3>4. (m \o Blank) \o x = m \o (Blank \o x) /\ Blank \o x \in Seq(Lexeme)
      BY <3>3, BlankTyped, ConcatAssociative, ConcatProperties
    <3>5. Then(Key("comma"), Blank \o x) # <<>>
          /\ Then(Key("comma"), Blank \o x)[1] = Key("comma")
      BY <1>7, <3>4, ThenFacts
    <3>6. (m \o Blank) \o x # <<>> /\ ((m \o Blank) \o x)[1].k = "comma"
      BY <1>7, <3>4, <3>5 DEF Then
    <3>7. G = (m \o Blank) \o x /\ E = m \o x
      BY <2>2
    <3> HIDE DEF G, E
    <3> QED BY <1>11, <3>2, <3>6, <3>7, PieceConcat
  <2> QED BY <1>1, <2>1, <2>2
<1> HIDE DEF G, E
<1>13. Piece((p \o G) \o Blank, q \o E, Kinds)
  BY <1>12, PieceBlank
<1>14. Piece(((p \o G) \o Blank) \o c, (q \o E) \o c, {"ws"})
  BY <1>6, <1>13, PieceConcat
<1> QED BY <1>3, <1>4, <1>14 DEF p, q

\* The printer of a rule.
LEMMA PieceRule ==
    ASSUME NEW d \in Definition, Formed(d)
    PROVE  Piece(PrintRule(d.rule), RuleLexemes(d.rule), {"ws"})
BY FormedReference, PieceLink, PieceOf, PieceRecord

\* The printer of a definition.
LEMMA PieceDefinition ==
    ASSUME NEW d \in Definition, Formed(d)
    PROVE  Piece(PrintNT(d) \o Blank, Lexemes(d), Kinds) /\ PrintNT(d) \in Seq(Lexeme)
<1> DEFINE a == Name(d.name)
           b == Word("::=")
           c == Coordinates(d.coord)
           e == Value("tag", d.coord)
           p == PrintRule(d.rule)
           q == RuleLexemes(d.rule)
<1>1. d.name \in Ident \cup Builtin \cup {Empty} /\ d.coord \in Tag \cup {Null}
  BY DEF Definition
<1>2. Piece(a, a, {"ws", "comma"}) /\ Piece(b, b, {"ws"}) /\ Piece(c, e, Kinds)
      /\ Piece(p, q, {"ws"})
  BY <1>1, PieceValues, PieceWord, PieceCoordinates, PieceRule DEF Signs
<1>3. PrintNT(d) = ((((a \o Blank) \o b) \o Blank) \o c) \o p
  BY DEF PrintNT
<1>4. Lexemes(d) = ((a \o b) \o e) \o q
  BY DEF Lexemes
<1> HIDE DEF a, b, c, e, p, q
<1>5. Piece(a \o Blank, a, Kinds)
  BY <1>2, PieceBlank
<1>6. Piece((a \o Blank) \o b, a \o b, {"ws"})
  BY <1>2, <1>5, PieceConcat
<1>7. Piece(((a \o Blank) \o b) \o Blank, a \o b, Kinds)
  BY <1>6, PieceBlank
<1>8. Piece((((a \o Blank) \o b) \o Blank) \o c, (a \o b) \o e, Kinds)
  BY <1>2, <1>7, PieceConcat
<1>9. Piece(((((a \o Blank) \o b) \o Blank) \o c) \o p, ((a \o b) \o e) \o q, {"ws"})
  BY <1>2, <1>8, PieceConcat
<1>10. PrintNT(d) \in Seq(Lexeme)
  BY <1>3, <1>9 DEF Piece
<1> QED BY <1>3, <1>4, <1>9, <1>10, PieceBlank

\* A grammar is printed as a text in which the parser finds its way, and which
\* declares the definitions; it ends with a blank.
LEMMA PrintedText ==
    ASSUME NEW s \in Seq(Definition), \A k \in DOMAIN s : Formed(s[k])
    PROVE  /\ PrintGrammar(s) \in Seq(Lexeme)
           /\ Spaced(PrintGrammar(s))
           /\ Declares(PrintGrammar(s), s)
           /\ Arriving(PrintGrammar(s), s) = s
<1> DEFINE n == Len(s)
           t == PrintGrammar(s)
           pp == [k \in DOMAIN s |-> PrintNT(s[k]) \o Blank]
           qq == [k \in DOMAIN s |-> Lexemes(s[k])]
<1>1. n \in Nat /\ DOMAIN s = 1..n /\ \A k \in 1..n : s[k] \in Definition /\ Formed(s[k])
  BY LenProperties, ElementOfSeq
<1>2. \A k \in 1..n : Piece(PrintNT(s[k]) \o Blank, Lexemes(s[k]), Kinds)
                      /\ PrintNT(s[k]) \in Seq(Lexeme)
  BY <1>1, PieceDefinition
<1>3. pp \in Seq(Seq(Lexeme)) /\ qq \in Seq(Seq(Lexeme)) /\ Len(pp) = n /\ Len(qq) = n
  <2>1. \A k \in 1..n : PrintNT(s[k]) \o Blank \in Seq(Lexeme) /\ Lexemes(s[k]) \in Seq(Lexeme)
    BY <1>2 DEF Piece
  <2>2. pp \in [1..n -> Seq(Lexeme)] /\ qq \in [1..n -> Seq(Lexeme)]
    BY <1>1, <2>1
  <2>3. pp \in Seq(Seq(Lexeme)) /\ qq \in Seq(Seq(Lexeme))
    BY <1>1, <2>2, SeqDef
  <2>4. ASSUME NEW a \in Nat, NEW b \in Nat, 1..a = 1..b PROVE a = b
    BY <2>4
  <2>5. Len(pp) \in Nat /\ 1..Len(pp) = 1..n
    BY <2>2, <2>3, LenProperties
  <2>6. Len(qq) \in Nat /\ 1..Len(qq) = 1..n
    BY <2>2, <2>3, LenProperties
  <2> HIDE DEF pp, qq, n
  <2>7. Len(pp) = n
    BY <1>1, <2>4, <2>5
  <2>8. Len(qq) = n
    BY <1>1, <2>4, <2>6
  <2> QED BY <2>3, <2>7, <2>8
<1>4. \A k \in 1..n : pp[k] = PrintNT(s[k]) \o Blank /\ qq[k] = Lexemes(s[k])
  BY <1>1
<1>5. t = FlattenSeq(pp)
  BY DEF PrintGrammar
<1> HIDE DEF pp, qq, t
<1>6. PICK f : Joined(f, Lexeme, pp)
  BY <1>3, JoinedExists
<1>7. PICK g : Joined(g, Lexeme, qq)
  BY <1>3, JoinedExists
<1>8. t = f[n] /\ FlattenSeq(qq) = g[n]
  BY <1>3, <1>5, <1>6, <1>7, Flattened
<1>9. /\ f[0] = <<>> /\ g[0] = <<>> /\ f \in [0..n -> Seq(Lexeme)]
      /\ \A k \in 1..n : f[k] = f[k - 1] \o (PrintNT(s[k]) \o Blank) /\ g[k] = g[k - 1] \o Lexemes(s[k])
  BY <1>3, <1>4, <1>6, <1>7 DEF Joined
<1> DEFINE T == {k \in 0..n : Piece(f[k], g[k], Kinds)}
<1>10. 0 \in T
  <2>1. Piece(f[0], g[0], Kinds)
    BY <1>9, PieceEmpty
  <2> HIDE DEF n
  <2> QED BY <1>1, <2>1
<1>11. ASSUME NEW k \in 1..n, k - 1 \in T PROVE k \in T
  <2> DEFINE x == PrintNT(s[k]) \o Blank
             y == Lexemes(s[k])
  <2>1. Piece(f[k - 1], g[k - 1], Kinds) /\ Piece(x, y, Kinds)
    BY <1>2, <1>11
  <2>2. f[k] = f[k - 1] \o x /\ g[k] = g[k - 1] \o y
    BY <1>9
  <2> HIDE DEF x, y, n
  <2>3. Piece(f[k], g[k], Kinds)
    BY <2>1, <2>2, PieceConcat
  <2> QED BY <1>1, <2>3
<1>12. Piece(t, FlattenSeq(qq), Kinds)
  <2>1. \A k \in 0..n : k \in T
    <3> HIDE DEF T, n
    <3> QED BY <1>1, <1>10, <1>11, Counting
  <2>2. n \in T
    <3> HIDE DEF T, n
    <3> QED BY <1>1, <2>1
  <2> QED BY <1>8, <2>2
<1>13. Sound(<<>>, <<>>)
  BY EmptySeq, SolidsEmpty DEF Sound, Laid
<1>14. Sound(t, FlattenSeq(qq))
  <2>1. t \in Seq(Lexeme) /\ FlattenSeq(qq) \in Seq(Lexeme) /\ <<>> \in Seq(Lexeme)
    BY <1>12, EmptySeq DEF Piece
  <2>2. Sound(t \o <<>>, FlattenSeq(qq) \o <<>>)
    BY <1>12, <1>13, <2>1 DEF Piece, Starts
  <2>3. t \o <<>> = t /\ FlattenSeq(qq) \o <<>> = FlattenSeq(qq)
    BY <2>1, ConcatEmptySeq
  <2> QED BY <2>2, <2>3
<1>15. t \in Seq(Lexeme) /\ Spaced(t)
  BY <1>14 DEF Sound, Laid, Spaced
<1>16. Declares(t, s)
  BY <1>14 DEF Sound, Declares, qq
<1>17. Arriving(t, s) = s
  <2>1. CASE n = 0
    BY <1>8, <1>9, <2>1 DEF Arriving
  <2>2. CASE n # 0
    <3> DEFINE x == f[n - 1]
               y == PrintNT(s[n])
               l == [k |-> "ws", v |-> Null]
    <3>1. n \in 1..n /\ n - 1 \in 0..n
      BY <1>1, <2>2
    <3>2. t = x \o (y \o Blank) /\ x \in Seq(Lexeme) /\ y \in Seq(Lexeme)
      BY <1>2, <1>8, <1>9, <3>1
    <3>3. Blank = <<l>> /\ l \in Lexeme /\ ~Solid(l)
      BY DEF Blank, Word, Lexeme, Kinds, Solid
    <3> HIDE DEF x, y, l, n
    <3>4. x \o y \in Seq(Lexeme) /\ (x \o y) \o Blank = x \o (y \o Blank)
      BY <3>2, BlankTyped, ConcatProperties, ConcatAssociative
    <3>5. t = Append(x \o y, l)
      BY <3>2, <3>3, <3>4, AppendIsConcat
    <3>6. Len(Append(x \o y, l)) = Len(x \o y) + 1 /\ Append(x \o y, l)[Len(x \o y) + 1] = l
      BY <3>3, <3>4, AppendProperties
    <3>7. Last(t) = l
      BY <3>5, <3>6 DEF Last
    <3> QED BY <3>3, <3>7 DEF Arriving
  <2> QED BY <2>1, <2>2
<1> QED BY <1>15, <1>16, <1>17 DEF t

-----------------------------------------------------------------------------
(* What is pushed.                                                          *)
\* Every definition that was pushed has what its type says.
Unique(s) == \A k \in DOMAIN s : /\ Formed(s[k])
                                 /\ \A j \in 1..k - 1 : s[j].name # s[k].name

MInv == Inv /\ Making(cs, reg) /\ DefinitionsFormed

\* What is pushed when the automaton is in a final state is formed.
LEMMA PushFormed ==
    ASSUME MInv, cs \in Complete, cs = "link_ws" \/ cs = "done", Push
    PROVE  Unique(defs')
<1>1. reg.rule \in Rule /\ Pushed \in Definition /\ defs \in Seq(Definition)
  BY PushTyped DEF MInv, Inv, TypeOK, Registers, Pointers, Complete, NTStates, RuleStates, RefStates
<1>2. RuleFormed(reg.rule)
  <2>1. CASE cs = "done"
    BY <2>1 DEF MInv, Making
  <2>2. CASE cs = "link_ws"
    <3>1. PICK n \in Ident \cup Builtin : reg.rule = LinkTo(n)
      BY <2>2 DEF MInv, Making, LinkRule
    <3> QED BY <3>1, LinkFormed
  <2> QED BY <2>1, <2>2
<1>3. Formed(Pushed)
  <2>1. Pushed.rule = reg.rule
    BY DEF Pushed
  <2> QED BY <1>2, <2>1, FormedByRule
<1>4. CASE Seen
  BY <1>4 DEF Push, MInv, DefinitionsFormed, Unique
<1>5. CASE ~Seen
  <2> DEFINE n == Len(defs)
             t == Append(defs, Pushed)
  <2>1. defs' = t
    BY <1>5 DEF Push
  <2>2. /\ n \in Nat /\ DOMAIN defs = 1..n /\ DOMAIN t = 1..n + 1
        /\ (\A k \in 1..n : t[k] = defs[k]) /\ t[n + 1] = Pushed
    BY <1>1, AppendProperties, LenProperties
  <2>3. \A k \in 1..n : defs[k].name # Pushed.name
    BY <1>5, <2>2 DEF Seen, Pushed
  <2>4. \A k \in 1..n : Formed(defs[k]) /\ \A j \in 1..k - 1 : defs[j].name # defs[k].name
    BY <2>2 DEF MInv, DefinitionsFormed
  <2> HIDE DEF t, n
  <2>5. ASSUME NEW k \in 1..n + 1
        PROVE  Formed(t[k]) /\ \A j \in 1..k - 1 : t[j].name # t[k].name
    <3>1. CASE k = n + 1
      <4>1. \A j \in 1..k - 1 : j \in 1..n
        BY <2>2, <3>1
      <4> QED BY <1>3, <2>2, <2>3, <3>1, <4>1
    <3>2. CASE k # n + 1
      <4>1. k \in 1..n /\ \A j \in 1..k - 1 : j \in 1..n
        BY <2>2, <3>2
      <4> QED BY <2>2, <2>4, <4>1
    <3> QED BY <3>1, <3>2
  <2> QED BY <2>1, <2>2, <2>5 DEF Unique
<1> QED BY <1>4, <1>5

\* A new parser has no rule in the making.
LEMMA MakingNew ==
    Making("top", NoRegisters)
BY DEF Making, InRecord

\* Every step of the parser keeps the rule in the making in shape.
LEMMA NextMaking == ASSUME MInv, Next PROVE MInv'
<1>1. Inv'
  BY NextInv DEF MInv, vars
<1>2. CASE Comment
  <2>1. reg'.rule = reg.rule /\ reg'.ref = reg.ref /\ cs' = cs /\ defs' = defs
    BY <1>2 DEF Comment, NextSection, MInv, Inv, TypeOK, Registers
  <2>2. Making(cs, reg)'
    BY <2>1 DEF MInv, Making
  <2> QED BY <1>1, <2>1, <2>2 DEF MInv, DefinitionsFormed
<1>3. CASE ReadBlank
  BY <1>1, <1>3 DEF ReadBlank, MInv, DefinitionsFormed
<1>4. CASE Reject \/ \E s \in States : ReadBroken(s)
  BY <1>1, <1>4 DEF Reject, ReadBroken, Throw, MInv, DefinitionsFormed
<1>5. ASSUME NEW s \in States, Read(s) PROVE MInv'
  <2> DEFINE y == Leave(cs, reg)
  <2>1. y \in Registers /\ PointersLeft(cs, y) /\ MakingLeft(cs, y)
    BY <1>5, LeaveTyped, MakingLeave DEF Read, MInv, Inv, TypeOK
  <2>2. Next1 \in Lexeme /\ <<cs, Next1.k, s>> \in Edges
    BY <1>5, SourceTyped DEF Read, Leads, MInv
  <2>3. Next1.k # "ws" => cs \notin {"link_ws", "done"} \/ Next1.k = "size"
    BY <1>5 DEF Read, EndsDefinition, Complete
  <2>4. reg' = Enter(Next1, y) /\ cs' = s /\ defs' = defs
    BY <1>5 DEF Read
  <2> HIDE DEF y
  <2>5. Making(s, Enter(Next1, y))
    BY <2>1, <2>2, <2>3, MakingEnter
  <2> QED BY <1>1, <2>4, <2>5 DEF MInv, DefinitionsFormed
<1>6. ASSUME NEW s \in States, ReadNextDefinition(s) PROVE MInv'
  <2>1. CASE Throw("duplicate")
    BY <1>1, <2>1 DEF Throw, MInv, DefinitionsFormed
  <2>2. CASE ~Throw("duplicate")
    <3>1. Next1 \in Lexeme /\ <<cs, Next1.k, s>> \in Edges
      BY <1>6, SourceTyped DEF ReadNextDefinition, Leads, MInv
    <3>2. cs \in Complete /\ Next1.k \notin {"ws", "size"} /\ Push /\ cs' = s
      BY <1>6, <2>2 DEF ReadNextDefinition, EndsDefinition
    <3>3. s \in {"defname", "END"}
      BY <3>1, <3>2, EdgeOrder
    <3>4. Making(cs, reg)'
      BY <3>2, <3>3 DEF Making, InRecord
    <3>5. Unique(defs')
      BY <3>2, PushFormed DEF Complete
    <3> QED BY <1>1, <3>4, <3>5 DEF MInv, DefinitionsFormed, Unique
  <2> QED BY <2>1, <2>2
<1>7. CASE EndOfFile
  <2>1. CASE Throw("duplicate")
    BY <1>1, <2>1 DEF Throw, MInv, DefinitionsFormed
  <2>2. CASE ~Throw("duplicate")
    <3>1. DefinitionsFormed'
      <4>1. CASE cs \in Complete
        <5>1. Push
          BY <1>7, <2>2, <4>1 DEF EndOfFile
        <5>2. Unique(defs')
          BY <4>1, <5>1, PushFormed DEF Complete
        <5> QED BY <5>2 DEF DefinitionsFormed, Unique
      <4>2. CASE cs \notin Complete
        BY <1>7, <2>2, <4>2 DEF EndOfFile, MInv, DefinitionsFormed
      <4> QED BY <4>1, <4>2
    <3>2. \/ cs' = "top" /\ reg' = NoRegisters
          \/ cs' = cs /\ reg' = reg
      BY <1>7, <2>2 DEF EndOfFile
    <3>3. Making(cs, reg)'
      BY <3>2, MakingNew DEF MInv
    <3> QED BY <1>1, <3>1, <3>3 DEF MInv
  <2> QED BY <2>1, <2>2
<1> QED BY <1>2, <1>3, <1>4, <1>5, <1>6, <1>7 DEF Next

\* The invariant at first.
LEMMA InitMaking == ASSUME Init PROVE MInv
<1>1. Making(cs, reg)
  BY MakingNew DEF Init
<1>2. defs = <<>> /\ DOMAIN <<>> = {}
  BY DEF Init
<1>3. DefinitionsFormed
  BY <1>2 DEF DefinitionsFormed
<1> QED BY <1>1, <1>3, InitInv DEF MInv

\* What is printed is a text again.
LEMMA PrintMaking == ASSUME MInv, PrintAndReadBack PROVE MInv'
<1>1. /\ input' = [texts |-> <<PrintGrammar(defs)>>, says |-> <<defs>>]
      /\ file' = 1 /\ pos' = 0 /\ cs' = "top" /\ reg' = NoRegisters /\ defs' = <<>>
      /\ mode' = "reading"
  BY DEF PrintAndReadBack
<1>2. defs \in Seq(Definition) /\ \A k \in DOMAIN defs : Formed(defs[k])
  BY DEF MInv, Inv, TypeOK, DefinitionsFormed
<1>3. PrintGrammar(defs) \in Seq(Lexeme)
  BY <1>2, PrintedText
<1> DEFINE t == PrintGrammar(defs)
<1>4. input'.texts = <<t>> /\ input'.says = <<defs>>
  BY <1>1
<1> HIDE DEF t
<1>5. /\ <<t>> \in Seq(Seq(Lexeme)) /\ <<t>> # <<>> /\ <<defs>> \in Seq(Seq(Definition))
      /\ Len(<<t>>) = 1 /\ Len(<<defs>>) = 1 /\ <<t>>[1] = t
  BY <1>2, <1>3 DEF t
<1>6. Source' = t
  BY <1>1, <1>4, <1>5 DEF Source
<1>7. 0 \in 0..Len(t)
  BY <1>3, LenProperties DEF t
<1>8. TypeOK'
  BY <1>1, <1>4, <1>5, <1>6, <1>7, TopState, NewTyped DEF TypeOK
<1>9. Pointers("top", NoRegisters)
  BY ParserAssumption DEF Pointers, NoRegisters, NTStates, RuleStates, RefStates, InRecord
<1>10. DefinitionsFormed'
  <2>1. DOMAIN <<>> = {}
    OBVIOUS
  <2> QED BY <1>1, <2>1 DEF DefinitionsFormed
<1> QED BY <1>1, <1>4, <1>5, <1>8, <1>9, <1>10, MakingNew DEF MInv, Inv

\* The invariant.
LEMMA MakingAlways == RoundTripSpec => []MInv
<1>1. RoundTripInit => MInv
  BY InitMaking DEF RoundTripInit
<1>2. MInv /\ [RoundTripNext]_<<vars, printed>> => MInv'
  <2> SUFFICES ASSUME MInv, [RoundTripNext]_<<vars, printed>> PROVE MInv'
    OBVIOUS
  <2>1. CASE Parse
    BY <2>1, NextMaking DEF Parse
  <2>2. CASE PrintAndReadBack
    BY <2>2, PrintMaking
  <2>3. CASE UNCHANGED <<vars, printed>>
    <3>1. Inv'
      BY <2>3, NextInv DEF MInv
    <3> QED BY <2>3, <3>1 DEF vars, MInv, DefinitionsFormed
  <2> QED BY <2>1, <2>2, <2>3 DEF RoundTripNext
<1> QED BY <1>1, <1>2, PTL DEF RoundTripSpec

\* nt_, rule_ and ref_ are there wherever the code uses them, on any texts, also
\* on what was printed.
THEOREM NoNullPointer == RoundTripSpec => []PointersValid
<1>1. MInv => PointersValid
  BY DEF MInv, Inv, Pointers, PointersValid, Complete, NTStates, RuleStates, RefStates, InRecord
<1> QED BY <1>1, MakingAlways, PTL

\* Whatever the texts are, what is pushed has what a rule of its type has, and
\* no name is defined twice in the grammar.
THEOREM DefinitionsInOrder == RoundTripSpec => []DefinitionsFormed
<1>1. MInv => DefinitionsFormed
  BY DEF MInv
<1> QED BY <1>1, MakingAlways, PTL

-----------------------------------------------------------------------------
\* What a text begins with tells what it is.
LEMMA HeadFacts ==
    ASSUME NEW l \in Lexeme, NEW v \in Seq(Lexeme), NEW w \in Seq(Lexeme)
    PROVE  /\ \A k \in Signs : Then(Key(k), w) = Then(l, v) => l.k = k /\ v = w
           /\ \A x \in Tag \cup {Null} : ValueThen("tag", x, w) = Then(l, v) =>
                 \/ x # Null /\ l.k = "tag" /\ l.v = x /\ v = w
                 \/ x = Null /\ w = Then(l, v)
           /\ \A x \in Constraint \cup {Null} : ValueThen("size", x, w) = Then(l, v) =>
                 \/ x # Null /\ l.k = "size" /\ l.v = x /\ v = w
                 \/ x = Null /\ w = Then(l, v)
           /\ \A n \in Field \cup {Empty} : FieldThen(n, w) = Then(l, v) =>
                 \/ n # Empty /\ l.k = "name" /\ l.v = n /\ v = w
                 \/ n = Empty /\ w = Then(l, v)
           /\ \A n \in Ident \cup Builtin \cup {Empty} : NameThen(n, w) = Then(l, v) =>
                 \/ n # Empty /\ l.k \in Types /\ l.v = n /\ v = w
                 \/ n = Empty /\ w = Then(l, v)
           /\ \A b \in BOOLEAN : OptThen(b, w) = Then(l, v) =>
                 \/ b /\ l.k = "OPTIONAL" /\ v = w
                 \/ ~b /\ w = Then(l, v)
<1>1. ASSUME NEW m \in Lexeme, Then(m, w) = Then(l, v) PROVE m = l /\ w = v
  BY <1>1, ThenEqual
<1>2. ASSUME NEW k \in Signs, Then(Key(k), w) = Then(l, v) PROVE l.k = k /\ v = w
  <2>1. Key(k) = l /\ w = v
    BY <1>1, <1>2, KeyTyped
  <2> QED BY <2>1 DEF Key
<1>3. ASSUME NEW x \in Tag \cup {Null}, ValueThen("tag", x, w) = Then(l, v)
      PROVE  \/ x # Null /\ l.k = "tag" /\ l.v = x /\ v = w
             \/ x = Null /\ w = Then(l, v)
  <2>1. CASE x = Null
    BY <1>3, <2>1 DEF ValueThen
  <2>2. CASE x # Null
    <3>1. [k |-> "tag", v |-> x] \in Lexeme /\ Then([k |-> "tag", v |-> x], w) = Then(l, v)
      BY <1>3, <2>2, KeyTyped DEF ValueThen
    <3>2. [k |-> "tag", v |-> x] = l /\ w = v
      BY <1>1, <3>1
    <3> QED BY <2>2, <3>2
  <2> QED BY <2>1, <2>2
<1>4. ASSUME NEW x \in Constraint \cup {Null}, ValueThen("size", x, w) = Then(l, v)
      PROVE  \/ x # Null /\ l.k = "size" /\ l.v = x /\ v = w
             \/ x = Null /\ w = Then(l, v)
  <2>1. CASE x = Null
    BY <1>4, <2>1 DEF ValueThen
  <2>2. CASE x # Null
    <3>1. [k |-> "size", v |-> x] \in Lexeme /\ Then([k |-> "size", v |-> x], w) = Then(l, v)
      BY <1>4, <2>2, KeyTyped DEF ValueThen
    <3>2. [k |-> "size", v |-> x] = l /\ w = v
      BY <1>1, <3>1
    <3> QED BY <2>2, <3>2
  <2> QED BY <2>1, <2>2
<1>5. ASSUME NEW n \in Field \cup {Empty}, FieldThen(n, w) = Then(l, v)
      PROVE  \/ n # Empty /\ l.k = "name" /\ l.v = n /\ v = w
             \/ n = Empty /\ w = Then(l, v)
  <2>1. CASE n = Empty
    BY <1>5, <2>1 DEF FieldThen
  <2>2. CASE n # Empty
    <3>1. [k |-> "name", v |-> n] \in Lexeme /\ Then([k |-> "name", v |-> n], w) = Then(l, v)
      BY <1>5, <2>2, KeyTyped DEF FieldThen
    <3>2. [k |-> "name", v |-> n] = l /\ w = v
      BY <1>1, <3>1
    <3> QED BY <2>2, <3>2
  <2> QED BY <2>1, <2>2
<1>6. ASSUME NEW n \in Ident \cup Builtin \cup {Empty}, NameThen(n, w) = Then(l, v)
      PROVE  \/ n # Empty /\ l.k \in Types /\ l.v = n /\ v = w
             \/ n = Empty /\ w = Then(l, v)
  <2>1. CASE n = Empty
    BY <1>6, <2>1 DEF NameThen
  <2>2. CASE n # Empty
    <3> DEFINE m == [k |-> IF n \in Builtin THEN "builtin" ELSE "type", v |-> n]
    <3>1. m \in Lexeme /\ Then(m, w) = Then(l, v)
      BY <1>6, <2>2, KeyTyped DEF NameThen
    <3>2. m.k \in Types /\ m.v = n
      BY DEF Types
    <3>3. m = l /\ w = v
      <4> HIDE DEF m
      <4> QED BY <1>1, <3>1
    <3> QED BY <2>2, <3>2, <3>3
  <2> QED BY <2>1, <2>2
<1>7. ASSUME NEW b \in BOOLEAN, OptThen(b, w) = Then(l, v)
      PROVE  \/ b /\ l.k = "OPTIONAL" /\ v = w
             \/ ~b /\ w = Then(l, v)
  BY <1>2, <1>7 DEF OptThen, Signs
<1> QED BY <1>2, <1>3, <1>4, <1>5, <1>6, <1>7

\* A text with an element is one with a first element.
LEMMA FirstLexeme ==
    ASSUME NEW v \in Seq(Lexeme), v # <<>>
    PROVE  \E l \in Lexeme, u \in Seq(Lexeme) : v = Then(l, u)
<1>1. Len(v) \in Nat \ {0}
  BY EmptySeq
<1>2. Head(v) \in Lexeme /\ Tail(v) \in Seq(Lexeme) /\ v = <<Head(v)>> \o Tail(v)
  BY <1>1, HeadTailProperties, ConcatProperties
<1> QED BY <1>2 DEF Then

\* References are the same if their members are.
LEMMA ReferenceEqual ==
    ASSUME NEW a \in Reference, NEW b \in Reference, a.name = b.name, a.symbol = b.symbol,
           a.coord = b.coord, a.cons = b.cons, a.opt = b.opt
    PROVE  a = b
BY DEF Reference

\* Rules are the same if their members are.
LEMMA RuleEqual ==
    ASSUME NEW a \in Rule, NEW b \in Rule, a.type = b.type, a.refs = b.refs, a.ext = b.ext
    PROVE  a = b
BY DEF Rule

\* A definition is made of its symbol and its rule.
LEMMA NTEqual ==
    ASSUME NEW n \in NT, NEW d \in Definition, n.name = d.name, n.coord = d.coord
    PROVE  [name |-> n.name, coord |-> n.coord, rule |-> d.rule] = d
BY DEF NT, Definition

\* The lexemes behind a reference of a record.
LEMMA BehindItem ==
    ASSUME NEW u \in Rule, NEW w \in Seq(Lexeme), NEW j \in 1..Len(u.refs),
           NEW l \in Lexeme, NEW v \in Seq(Lexeme),
           Items(u.refs, EndThen(u, w), j + 1) = Then(l, v)
    PROVE  \/ /\ j < Len(u.refs) /\ l.k = "comma"
              /\ v = RefThen(u.refs[j + 1], Items(u.refs, EndThen(u, w), (j + 1) + 1))
           \/ /\ j = Len(u.refs) /\ u.ext /\ l.k = "comma"
              /\ v = Then(Key("..."), Then(Key("close"), w))
           \/ j = Len(u.refs) /\ ~u.ext /\ l.k = "close" /\ v = w
<1> DEFINE z == EndThen(u, w)
<1>1. u.refs \in Seq(Reference) /\ z \in Seq(Lexeme) /\ Len(u.refs) \in Nat
  BY EndTyped, LenProperties DEF Rule
<1>2. CASE j < Len(u.refs)
  <2>1. j + 1 \in 1..Len(u.refs) /\ j + 1 # 1 /\ (j + 1) + 1 \in 1..Len(u.refs) + 1
    BY <1>1, <1>2
  <2>2. Items(u.refs, z, j + 1) = Then(Key("comma"), RefThen(u.refs[j + 1], Items(u.refs, z, (j + 1) + 1)))
    <3> HIDE DEF z
    <3> QED BY <1>1, <2>1, ItemsFacts
  <2>3. u.refs[j + 1] \in Reference /\ Items(u.refs, z, (j + 1) + 1) \in Seq(Lexeme)
    <3> HIDE DEF z
    <3> QED BY <1>1, <2>1, ItemsFacts, ElementOfSeq
  <2>4. RefThen(u.refs[j + 1], Items(u.refs, z, (j + 1) + 1)) \in Seq(Lexeme)
    <3> HIDE DEF z
    <3> QED BY <2>3, RefLexemesThen
  <2> HIDE DEF z
  <2>5. l.k = "comma" /\ v = RefThen(u.refs[j + 1], Items(u.refs, z, (j + 1) + 1))
    BY <2>2, <2>4, HeadFacts DEF Signs, z
  <2> QED BY <1>2, <2>5 DEF z
<1>3. CASE j = Len(u.refs)
  <2>1. Items(u.refs, z, j + 1) = z
    <3> HIDE DEF z
    <3> QED BY <1>1, <1>3, ItemsFacts
  <2>2. z = Then(l, v)
    BY <2>1
  <2>3. CASE u.ext
    <3>1. /\ z = Then(Key("comma"), Then(Key("..."), Then(Key("close"), w)))
          /\ Then(Key("..."), Then(Key("close"), w)) \in Seq(Lexeme)
      BY <2>3, EndTyped
    <3> HIDE DEF z
    <3>2. Then(Key("comma"), Then(Key("..."), Then(Key("close"), w))) = Then(l, v)
      BY <2>2, <3>1
    <3>3. "comma" \in Signs
      BY DEF Signs
    <3>4. l.k = "comma" /\ v = Then(Key("..."), Then(Key("close"), w))
      BY <3>1, <3>2, <3>3, HeadFacts
    <3> QED BY <1>3, <2>3, <3>4
  <2>4. CASE ~u.ext
    <3>1. z = Then(Key("close"), w)
      BY <2>4, EndTyped
    <3> HIDE DEF z
    <3>2. Then(Key("close"), w) = Then(l, v)
      BY <2>2, <3>1
    <3>3. "close" \in Signs
      BY DEF Signs
    <3>4. l.k = "close" /\ v = w
      BY <3>2, <3>3, HeadFacts
    <3> QED BY <1>3, <2>4, <3>4
  <2> QED BY <2>3, <2>4
<1> QED BY <1>1, <1>2, <1>3

-----------------------------------------------------------------------------
\* In state c, with registers y (the actions on leaving it done), R is what is
\* still to be read of the definition d and of w, which is behind d.
\* A reference of a record, f of it is known.
InItem(c, f, R, r, z) ==
    /\ f.name = r.name
    /\ \/ /\ c \in {"fname", "fname_ws"} /\ R = TagThen(r, z)
          /\ f.coord = Null /\ f.symbol = Empty /\ f.cons = Null /\ ~f.opt
       \/ /\ c = "ftag" /\ R = SymbolThen(r, z)
          /\ f.coord = r.coord /\ f.symbol = Empty /\ f.cons = Null /\ ~f.opt
       \/ /\ c \in {"ftype", "ftype_ws"} /\ R = SizeThen(r, z)
          /\ f.coord = r.coord /\ f.symbol = r.symbol /\ f.cons = Null /\ ~f.opt
       \/ /\ c \in {"fsize", "fsize_ws"} /\ R = OptThen(r.opt, z)
          /\ f.coord = r.coord /\ f.symbol = r.symbol /\ f.cons = r.cons /\ ~f.opt
       \/ c \in {"fopt", "fend"} /\ R = z /\ f = r

AllNamed(refs, m) == \A i \in 1..m : refs[i].name # Empty

AtItem(c, y, R, u, w, j) ==
    /\ AllNamed(u.refs, j - 1)
    /\ y.rule.type = u.type /\ y.rule.refs = SubSeq(u.refs, 1, j - 1) /\ ~y.rule.ext
    /\ \/ /\ c \in {"brace", "comma", "field"} /\ y.ref = NewReference(Empty)
          /\ R = RefThen(u.refs[j], Items(u.refs, EndThen(u, w), j + 1))
       \/ /\ u.refs[j].name # Empty
          /\ InItem(c, y.ref, R, u.refs[j], Items(u.refs, EndThen(u, w), j + 1))

\* In front of "..." and behind it.
AtMarker(c, y, R, u, w) ==
    /\ u.ext /\ u.refs # <<>> /\ AllNamed(u.refs, Len(u.refs))
    /\ y.rule.type = u.type /\ y.rule.refs = u.refs /\ y.ref = NewReference(Empty)
    /\ \/ /\ c \in {"comma", "field"} /\ ~y.rule.ext
          /\ R = Then(Key("..."), Then(Key("close"), w))
       \/ c \in {"fext", "fend"} /\ y.rule.ext /\ R = Then(Key("close"), w)

AtRecord(c, y, R, u, w) ==
    /\ u.type \in RecordTypes
    /\ \/ \E j \in 1..Len(u.refs) : AtItem(c, y, R, u, w, j)
       \/ AtMarker(c, y, R, u, w)
       \/ c \in {"brace", "field"} /\ u.refs = <<>> /\ R = EndThen(u, w)

AtHead(c, y, R, u, w) ==
    /\ y.rule.refs = <<>> /\ ~y.rule.ext
    /\ \/ /\ \/ u.type \in {"SEQUENCE", "ALL"} /\ c \in {"SEQUENCE", "SET", "record"}
             \/ u.type = "CHOICE" /\ c \in {"CHOICE", "choice"}
          /\ y.rule.type = u.type
          /\ R = Then(Key("brace"), Items(u.refs, EndThen(u, w), 1))
       \/ /\ u.type \in {"LIST", "SET"} /\ c \in {"SEQUENCE", "SET", "record"}
          /\ y.rule.type = IF u.type = "LIST" THEN "SEQUENCE" ELSE "ALL"
          /\ R = Then(Key("OF"), RefThen(u.refs[1], w))

AtList(y, R, u, w) ==
    /\ u.type \in {"LIST", "SET"} /\ R = RefThen(u.refs[1], w)
    /\ y.rule.type = u.type /\ y.rule.refs = <<>> /\ ~y.rule.ext

AtLink(y, R, u, w) ==
    /\ u.type = "LINK" /\ y.ref = NewReference(Empty)
    /\ \E n \in Ident \cup Builtin, a \in Constraint \cup {Null} :
          /\ u.refs = <<[NewReference(n) EXCEPT !.cons = a]>>
          /\ y.rule = LinkTo(n) /\ R = ValueThen("size", a, w)

Outside == {"top", "header", "list", "END", "end"}

At(c, y, R, d, w) ==
    /\ d.name # Empty /\ c \in States \ Outside
    /\ c \in {"defname", "defname_ws"} =>
          y.ident = d.name /\ R = Then(Key("::="), AssignThen(d, w))
    /\ c \in {"assign", "rhs"} =>
          y.nt.name = d.name /\ y.nt.coord = Null /\ R = AssignThen(d, w)
    /\ c \notin {"defname", "defname_ws", "assign", "rhs"} =>
          y.nt.name = d.name /\ y.nt.coord = d.coord
    /\ c = "rhs_tag" => R = RuleThen(d.rule, w)
    /\ c \in {"link", "link_ws"} => AtLink(y, R, d.rule, w)
    /\ c \in {"SEQUENCE", "SET", "CHOICE", "record", "choice"} => AtHead(c, y, R, d.rule, w)
    /\ c \in {"OF", "of"} => AtList(y, R, d.rule, w)
    /\ c \in {"brace"} \cup InRecord => AtRecord(c, y, R, d.rule, w)
    /\ c \in {"link_size", "close", "oftype", "done"} => y.rule = d.rule /\ R = w /\ Proper(d)

\* What a lexeme does to each register.
LEMMA EnterFacts ==
    ASSUME NEW l \in Lexeme, NEW y \in Registers
    PROVE  LET x == Enter(l, y) IN
           /\ x.nt = y.nt /\ x.rule = y.rule
           /\ l.k \in Types => x.ident = l.v /\ l.v \in Ident \cup Builtin
           /\ l.k \notin Types => x.ident = y.ident
           /\ l.k = "name" => x.last = l.v /\ l.v \in Field
           /\ l.k = "tag" => x.coord = l.v
           /\ l.k # "size" => x.ref = y.ref /\ x \in Registers
           /\ l.k = "size" /\ y.ref \in Reference =>
                /\ x \in Registers /\ x.ref \in Reference
                /\ x.ref.cons = l.v /\ x.ref.name = y.ref.name /\ x.ref.symbol = y.ref.symbol
                /\ x.ref.coord = y.ref.coord /\ x.ref.opt = y.ref.opt
<1> DEFINE x == Enter(l, y)
<1>1. x.nt = y.nt /\ x.rule = y.rule
  BY DEF Enter, Registers
<1>2. l.k \in Types => x.ident = l.v /\ l.v \in Ident \cup Builtin
  BY DEF Enter, Registers, Types, Lexeme
<1>3. l.k \notin Types => x.ident = y.ident
  BY DEF Enter, Registers, Types
<1>4. l.k = "name" => x.last = l.v /\ l.v \in Field
  BY DEF Enter, Registers, Lexeme
<1>5. l.k = "tag" => x.coord = l.v
  BY DEF Enter, Registers
<1>6. l.k # "size" => x.ref = y.ref /\ x \in Registers
  BY EnterTyped DEF Enter, Registers
<1>7. ASSUME l.k = "size", y.ref \in Reference
      PROVE  /\ x \in Registers /\ x.ref \in Reference
             /\ x.ref.cons = l.v /\ x.ref.name = y.ref.name /\ x.ref.symbol = y.ref.symbol
             /\ x.ref.coord = y.ref.coord /\ x.ref.opt = y.ref.opt
  <2>1. x = [y EXCEPT !.ref.cons = l.v] /\ l.v \in Constraint
    BY <1>7 DEF Enter, Lexeme
  <2>2. x.ref = [y.ref EXCEPT !.cons = l.v]
    BY <2>1 DEF Registers
  <2>3. x \in Registers
    BY <1>7, EnterTyped, NewTyped
  <2> HIDE DEF x
  <2> QED BY <1>7, <2>1, <2>2, <2>3, SetReference DEF Reference
<1> QED BY <1>1, <1>2, <1>3, <1>4, <1>5, <1>6, <1>7

\* The references of links and lists.
LEMMA PlainReference ==
    ASSUME NEW n \in Ident \cup Builtin, NEW a \in Constraint \cup {Null}, NEW w \in Seq(Lexeme)
    PROVE  /\ RefThen([NewReference(n) EXCEPT !.cons = a], w) = NameThen(n, ValueThen("size", a, w))
           /\ RefThen(NewReference(n), w) = NameThen(n, w)
<1>1. ASSUME NEW r \in Reference, r.name = Empty, r.coord = Null, r.symbol = n, ~r.opt
      PROVE  RefThen(r, w) = NameThen(n, ValueThen("size", r.cons, w))
  BY <1>1 DEF RefThen, FieldThen, TagThen, SymbolThen, SizeThen, OptThen, ValueThen
<1>2. /\ [NewReference(n) EXCEPT !.cons = a] \in Reference
      /\ [NewReference(n) EXCEPT !.cons = a].name = Empty
      /\ [NewReference(n) EXCEPT !.cons = a].coord = Null
      /\ [NewReference(n) EXCEPT !.cons = a].symbol = n
      /\ ~[NewReference(n) EXCEPT !.cons = a].opt
      /\ [NewReference(n) EXCEPT !.cons = a].cons = a
  BY NewTyped, SetReference DEF NewReference
<1>3. /\ NewReference(n) \in Reference /\ NewReference(n).name = Empty
      /\ NewReference(n).coord = Null /\ NewReference(n).symbol = n /\ ~NewReference(n).opt
      /\ NewReference(n).cons = Null
  BY NewTyped DEF NewReference
<1>4. RefThen([NewReference(n) EXCEPT !.cons = a], w) = NameThen(n, ValueThen("size", a, w))
  BY <1>1, <1>2
<1>5. RefThen(NewReference(n), w) = NameThen(n, ValueThen("size", Null, w))
  BY <1>1, <1>3
<1> QED BY <1>4, <1>5 DEF ValueThen

\* The first lexeme of a rule tells its type.
LEMMA RuleHead ==
    ASSUME NEW d \in Definition, Formed(d), NEW w \in Seq(Lexeme),
           NEW l \in Lexeme, NEW v \in Seq(Lexeme), RuleThen(d.rule, w) = Then(l, v)
    PROVE  \/ /\ d.rule.type = "LINK" /\ l.k \in Types
              /\ \E n \in Ident \cup Builtin, a \in Constraint \cup {Null} :
                    /\ d.rule.refs = <<[NewReference(n) EXCEPT !.cons = a]>>
                    /\ l.v = n /\ v = ValueThen("size", a, w)
           \/ /\ d.rule.type \in {"LIST", "SET"} /\ l.k = ListWord(d.rule.type)
              /\ v = Then(Key("OF"), RefThen(d.rule.refs[1], w))
           \/ /\ d.rule.type \in RecordTypes /\ l.k = RecordWord(d.rule.type)
              /\ v = Then(Key("brace"), Items(d.rule.refs, EndThen(d.rule, w), 1))
<1> DEFINE u == d.rule
<1>1. CASE u.type = "LINK"
  <2>1. PICK n \in Ident \cup Builtin, a \in Constraint \cup {Null} :
           u.refs = <<[NewReference(n) EXCEPT !.cons = a]>>
    BY <1>1, FormedReference
  <2>2. u.refs[1] = [NewReference(n) EXCEPT !.cons = a]
    BY <2>1
  <2>3. NameThen(n, ValueThen("size", a, w)) = Then(l, v)
    BY <1>1, <2>2, PlainReference DEF RuleThen
  <2>4. ValueThen("size", a, w) \in Seq(Lexeme)
    BY PiecesThen
  <2>5. n # Empty
    BY ParserAssumption
  <2>6. l.k \in Types /\ l.v = n /\ v = ValueThen("size", a, w)
    BY <2>3, <2>4, <2>5, HeadFacts
  <2> QED BY <1>1, <2>1, <2>6
<1>2. CASE u.type \in {"LIST", "SET"}
  <2>1. Then(Key(ListWord(u.type)), Then(Key("OF"), RefThen(u.refs[1], w))) = Then(l, v)
    BY <1>2 DEF RuleThen
  <2>2. Len(u.refs) = 1 /\ u.refs \in Seq(Reference)
    BY <1>2, FormedReference DEF Rule
  <2>3. u.refs[1] \in Reference
    BY <2>2, ElementOfSeq
  <2>4. RefThen(u.refs[1], w) \in Seq(Lexeme) /\ "OF" \in Signs /\ ListWord(u.type) \in Signs
    BY <2>3, RefLexemesThen DEF Signs, ListWord
  <2>5. Then(Key("OF"), RefThen(u.refs[1], w)) \in Seq(Lexeme)
    BY <2>4, KeyThen
  <2>6. l.k = ListWord(u.type) /\ v = Then(Key("OF"), RefThen(u.refs[1], w))
    BY <2>1, <2>4, <2>5, HeadFacts
  <2> QED BY <1>2, <2>6
<1>3. CASE u.type \in RecordTypes
  <2> DEFINE z == Items(u.refs, EndThen(u, w), 1)
  <2>1. Then(Key(RecordWord(u.type)), Then(Key("brace"), z)) = Then(l, v)
    BY <1>3 DEF RuleThen, RecordTypes
  <2>2. u \in Rule /\ Len(u.refs) \in Nat
    BY FormedReference, LenProperties DEF Rule
  <2>3. z \in Seq(Lexeme) /\ "brace" \in Signs /\ RecordWord(u.type) \in Signs
    <3>1. 1 \in 1..Len(u.refs) + 1
      BY <2>2
    <3> QED BY <2>2, <3>1, EndTyped DEF Signs, RecordWord
  <2> HIDE DEF z
  <2>4. Then(Key("brace"), z) \in Seq(Lexeme)
    BY <2>3, KeyThen
  <2>5. l.k = RecordWord(u.type) /\ v = Then(Key("brace"), z)
    BY <2>1, <2>3, <2>4, HeadFacts
  <2> QED BY <1>3, <2>5 DEF z
<1>4. u.type \in {"LINK", "LIST", "SET"} \cup RecordTypes
  BY FormedReference
<1> QED BY <1>1, <1>2, <1>3, <1>4

-----------------------------------------------------------------------------
\* A step into the rule of a definition.
LEMMA RuleStep ==
    ASSUME NEW d \in Definition, Formed(d), d.name # Empty, NEW w \in Seq(Lexeme),
           NEW y \in Registers, y.nt.name = d.name, y.nt.coord = d.coord,
           NEW l \in Lexeme, NEW v \in Seq(Lexeme), RuleThen(d.rule, w) = Then(l, v),
           NEW s, \/ l.k \in Types /\ s = "link"
                  \/ l.k \in {"SEQUENCE", "SET", "CHOICE"} /\ s = l.k
    PROVE  /\ ~Broken(s, Enter(l, y))
           /\ At(s, Leave(s, Enter(l, y)), v, d, w)
<1> DEFINE u == d.rule
           x == Enter(l, y)
           yy == Leave(s, x)
<1>1. x \in Registers /\ x.nt = y.nt
  BY EnterFacts DEF Types
<1>2. CASE l.k \in Types
  <2>1. PICK n \in Ident \cup Builtin, a \in Constraint \cup {Null} :
           /\ u.type = "LINK" /\ u.refs = <<[NewReference(n) EXCEPT !.cons = a]>>
           /\ l.v = n /\ v = ValueThen("size", a, w)
    BY <1>2, RuleHead DEF Types, ListWord, RecordWord
  <2>2. s = "link" /\ x.ident = n
    BY <1>2, <2>1, EnterFacts DEF Types
  <2>3. ~Broken(s, x)
    BY <2>2, ParserAssumption DEF Broken
  <2>4. yy.nt = x.nt /\ yy.rule = LinkTo(n) /\ yy.ref = NewReference(Empty)
    BY <1>1, <2>2 DEF Leave, NewLink, LinkTo, Registers
  <2> HIDE DEF yy, x
  <2>5. AtLink(yy, v, u, w)
    BY <2>1, <2>4 DEF AtLink
  <2>6. s \in States \ Outside
    BY <2>2, StateList DEF Tight, Outside
  <2>7. At(s, yy, v, d, w)
    BY <1>1, <2>2, <2>4, <2>5, <2>6 DEF At, InRecord
  <2> QED BY <2>3, <2>7 DEF yy, x
<1>3. CASE l.k \in {"SEQUENCE", "SET", "CHOICE"}
  <2>1. s = l.k /\ x = y
    BY <1>3 DEF Types, Enter
  <2>2. /\ yy.rule.refs = <<>> /\ ~yy.rule.ext /\ yy.nt = x.nt
        /\ yy.rule.type = IF s = "SEQUENCE" THEN "SEQUENCE" ELSE IF s = "SET" THEN "ALL" ELSE "CHOICE"
    BY <1>1, <1>3, <2>1 DEF Leave, NewRule, Registers
  <2>3. \/ /\ u.type \in {"LIST", "SET"} /\ l.k = ListWord(u.type)
           /\ v = Then(Key("OF"), RefThen(u.refs[1], w))
        \/ /\ u.type \in RecordTypes /\ l.k = RecordWord(u.type)
           /\ v = Then(Key("brace"), Items(u.refs, EndThen(u, w), 1))
    BY <1>3, RuleHead DEF Types
  <2> HIDE DEF yy, x, u
  <2>4. AtHead(s, yy, v, u, w)
    <3>1. CASE u.type \in {"LIST", "SET"} /\ l.k = ListWord(u.type) /\ v = Then(Key("OF"), RefThen(u.refs[1], w))
      BY <2>1, <2>2, <3>1 DEF AtHead, ListWord
    <3>2. CASE /\ u.type \in RecordTypes /\ l.k = RecordWord(u.type)
               /\ v = Then(Key("brace"), Items(u.refs, EndThen(u, w), 1))
      BY <2>1, <2>2, <3>2 DEF AtHead, RecordWord, RecordTypes
    <3> QED BY <2>3, <3>1, <3>2
  <2>5. s \in States \ Outside
    BY <1>3, <2>1, StateList DEF Tight, Outside
  <2>6. At(s, yy, v, d, w)
    BY <1>1, <1>3, <2>1, <2>2, <2>4, <2>5 DEF At, InRecord, u
  <2>7. ~Broken(s, x)
    BY <1>3, <2>1 DEF Broken
  <2> QED BY <2>6, <2>7 DEF yy, x
<1> QED BY <1>2, <1>3

\* What there is of a record in front of its j-th reference, which begins now.
LEMMA ItemBegins ==
    ASSUME NEW u \in Rule, u.type \in RecordTypes, NEW w \in Seq(Lexeme), NEW j \in 1..Len(u.refs),
           NEW c \in {"brace", "comma"}, NEW y, y.rule.type = u.type,
           y.rule.refs = SubSeq(u.refs, 1, j - 1), ~y.rule.ext, y.ref = NewReference(Empty),
           AllNamed(u.refs, j - 1)
    PROVE  AtRecord(c, y, RefThen(u.refs[j], Items(u.refs, EndThen(u, w), j + 1)), u, w)
BY DEF AtRecord, AtItem

\* A reference is complete in front of a comma or the end of a record.
LEMMA ItemEnds ==
    ASSUME NEW r \in Reference, NEW z \in Seq(Lexeme), NEW f \in Reference, NEW c,
           NEW l \in Lexeme, NEW v \in Seq(Lexeme), r.symbol # Empty,
           InItem(c, f, Then(l, v), r, z), l.k \in {"comma", "close"}
    PROVE  f = r /\ z = Then(l, v)
<1>1. /\ r.name \in Field \cup {Empty} /\ r.symbol \in Ident \cup Builtin \cup {Empty}
      /\ r.coord \in Tag \cup {Null} /\ r.cons \in Constraint \cup {Null} /\ r.opt \in BOOLEAN
      /\ f.opt \in BOOLEAN
  BY DEF Reference
<1>2. OptThen(r.opt, z) \in Seq(Lexeme) /\ SizeThen(r, z) \in Seq(Lexeme) /\ SymbolThen(r, z) \in Seq(Lexeme)
  BY RefLexemesThen
<1>3. SymbolThen(r, z) # Then(l, v)
  <2>1. SymbolThen(r, z) = Then(l, v) => l.k \in Types
    BY <1>1, <1>2, HeadFacts DEF SymbolThen
  <2> QED BY <2>1 DEF Types
<1>4. TagThen(r, z) # Then(l, v)
  BY <1>1, <1>2, <1>3, HeadFacts DEF TagThen
<1>5. OptThen(r.opt, z) = Then(l, v) => ~r.opt /\ z = Then(l, v)
  BY <1>1, HeadFacts
<1>6. SizeThen(r, z) = Then(l, v) => r.cons = Null /\ OptThen(r.opt, z) = Then(l, v)
  BY <1>1, <1>2, HeadFacts DEF SizeThen
<1>7. f.name = r.name
  BY DEF InItem
<1>8. \/ z = Then(l, v) /\ f = r
      \/ /\ f.coord = r.coord /\ f.symbol = r.symbol /\ ~f.opt
         /\ \/ f.cons = Null /\ SizeThen(r, z) = Then(l, v)
            \/ f.cons = r.cons /\ OptThen(r.opt, z) = Then(l, v)
  BY <1>3, <1>4 DEF InItem
<1>9. CASE ~(z = Then(l, v) /\ f = r)
  <2>1. z = Then(l, v) /\ ~r.opt /\ f.cons = r.cons
    BY <1>5, <1>6, <1>8, <1>9
  <2>2. f.opt = r.opt
    BY <1>1, <1>8, <1>9, <2>1
  <2>3. f.coord = r.coord /\ f.symbol = r.symbol
    BY <1>8, <1>9
  <2> QED BY <1>7, <2>1, <2>2, <2>3, ReferenceEqual
<1> QED BY <1>9

\* The states within a reference are states within a record.
LEMMA ItemStates ==
    ASSUME NEW c, NEW f, NEW R, NEW r, NEW z, InItem(c, f, R, r, z)
    PROVE  c \in {"fname", "fname_ws", "ftag", "ftype", "ftype_ws", "fsize", "fsize_ws", "fopt", "fend"}
BY DEF InItem

\* A step within a reference of a record.
ItemStepFrom(r, z, y, c, l, v, s) ==
    /\ r \in Reference /\ z \in Seq(Lexeme) /\ r.symbol # Empty
    /\ y \in Registers /\ y.ref \in Reference
    /\ l \in Lexeme /\ v \in Seq(Lexeme) /\ l.k \notin {"ws", "comma", "close"}
    /\ InItem(c, y.ref, Then(l, v), r, z)
    /\ <<c, l.k, s>> \in Edges
    /\ z = Then(l, v) => l.k \in {"comma", "close"}

ItemStepTo(r, z, y, l, v, s) ==
    /\ s \in {"ftag", "ftype", "fsize", "fopt"} /\ ~Broken(s, Enter(l, y))
    /\ InItem(s, Leave(s, Enter(l, y)).ref, v, r, z)
    /\ Leave(s, Enter(l, y)).nt = y.nt /\ Leave(s, Enter(l, y)).rule = y.rule

\* A lexeme of a reference of a record is read.
LEMMA ItemStep ==
    ASSUME NEW r, NEW z, NEW y, NEW c, NEW l, NEW v, NEW s, ItemStepFrom(r, z, y, c, l, v, s)
    PROVE  ItemStepTo(r, z, y, l, v, s)
<1> USE DEF ItemStepFrom
<1> DEFINE x == Enter(l, y)
           yy == Leave(s, x)
<1>1. /\ r.name \in Field \cup {Empty} /\ r.symbol \in Ident \cup Builtin \cup {Empty}
      /\ r.coord \in Tag \cup {Null} /\ r.cons \in Constraint \cup {Null} /\ r.opt \in BOOLEAN
      /\ y.ref.opt \in BOOLEAN
  BY DEF Reference
<1>2. OptThen(r.opt, z) \in Seq(Lexeme) /\ SizeThen(r, z) \in Seq(Lexeme) /\ SymbolThen(r, z) \in Seq(Lexeme)
  BY RefLexemesThen
<1>3. TagThen(r, z) = Then(l, v) =>
         \/ r.coord # Null /\ l.k = "tag" /\ l.v = r.coord /\ v = SymbolThen(r, z)
         \/ r.coord = Null /\ SymbolThen(r, z) = Then(l, v)
  BY <1>1, <1>2, HeadFacts DEF TagThen
<1>4. SymbolThen(r, z) = Then(l, v) => l.k \in Types /\ l.v = r.symbol /\ v = SizeThen(r, z)
  BY <1>1, <1>2, HeadFacts DEF SymbolThen
<1>5. SizeThen(r, z) = Then(l, v) =>
         \/ r.cons # Null /\ l.k = "size" /\ l.v = r.cons /\ v = OptThen(r.opt, z)
         \/ r.cons = Null /\ OptThen(r.opt, z) = Then(l, v)
  BY <1>1, <1>2, HeadFacts DEF SizeThen
<1>6. OptThen(r.opt, z) = Then(l, v) => r.opt /\ l.k = "OPTIONAL" /\ v = z
  BY <1>1, <1>2, HeadFacts
<1>7. x \in Registers /\ x.nt = y.nt /\ x.rule = y.rule /\ x.ref \in Reference
      /\ (l.k # "size" => x.ref = y.ref)
  BY EnterFacts
<1>8. y.ref.name = r.name
  BY DEF InItem
<1>9. CASE c \in {"fname", "fname_ws"} /\ l.k = "tag"
  <2>1. s = "ftag"
    BY <1>9, EdgeTargets DEF Types
  <2>2. /\ Then(l, v) = TagThen(r, z) /\ y.ref.symbol = Empty /\ y.ref.cons = Null /\ ~y.ref.opt
    BY <1>9 DEF InItem
  <2>3. l.v = r.coord /\ v = SymbolThen(r, z)
    BY <1>3, <1>4, <1>9, <2>2 DEF Types
  <2>4. x.ref = y.ref /\ x.coord = l.v
    BY <1>9, EnterFacts
  <2> HIDE DEF x
  <2>5. yy.nt = x.nt /\ yy.rule = x.rule /\ yy.ref = [x.ref EXCEPT !.coord = x.coord]
    BY <1>7, <2>1 DEF Leave, Registers
  <2>6. /\ yy.ref.name = x.ref.name /\ yy.ref.coord = l.v /\ yy.ref.symbol = x.ref.symbol
        /\ yy.ref.cons = x.ref.cons /\ yy.ref.opt = x.ref.opt
    BY <1>7, <2>4, <2>5 DEF Reference
  <2>7. ~Broken(s, x)
    BY <2>1 DEF Broken
  <2> HIDE DEF yy
  <2>8. InItem(s, yy.ref, v, r, z)
    BY <1>8, <2>1, <2>2, <2>3, <2>4, <2>6 DEF InItem
  <2> QED BY <1>7, <2>1, <2>5, <2>7, <2>8 DEF x, yy, ItemStepTo
<1>10. CASE c \in {"fname", "fname_ws", "ftag"} /\ l.k \in Types
  <2>1. s = "ftype"
    BY <1>10, EdgeTargets DEF Types
  <2>2. /\ Then(l, v) \in {TagThen(r, z), SymbolThen(r, z)}
        /\ y.ref.symbol = Empty /\ y.ref.cons = Null /\ ~y.ref.opt
        /\ \/ Then(l, v) = TagThen(r, z) /\ y.ref.coord = Null
           \/ Then(l, v) = SymbolThen(r, z) /\ y.ref.coord = r.coord
    BY <1>10 DEF InItem
  <2>3. l.v = r.symbol /\ v = SizeThen(r, z) /\ y.ref.coord = r.coord
    BY <1>3, <1>4, <1>10, <2>2 DEF Types
  <2>4. x.ref = y.ref /\ x.ident = l.v /\ l.v \in Ident \cup Builtin
    BY <1>10, EnterFacts DEF Types
  <2> HIDE DEF x
  <2>5. yy.nt = x.nt /\ yy.rule = x.rule /\ yy.ref = [x.ref EXCEPT !.symbol = x.ident]
    BY <1>7, <2>1 DEF Leave, Registers
  <2>6. /\ yy.ref.name = x.ref.name /\ yy.ref.coord = x.ref.coord /\ yy.ref.symbol = l.v
        /\ yy.ref.cons = x.ref.cons /\ yy.ref.opt = x.ref.opt
    BY <1>7, <2>4, <2>5 DEF Reference
  <2>7. ~Broken(s, x)
    BY <2>1, <2>4, ParserAssumption DEF Broken
  <2> HIDE DEF yy
  <2>8. InItem(s, yy.ref, v, r, z)
    BY <1>8, <2>1, <2>2, <2>3, <2>4, <2>6 DEF InItem
  <2> QED BY <1>7, <2>1, <2>5, <2>7, <2>8 DEF x, yy, ItemStepTo
<1>11. CASE c \in {"ftype", "ftype_ws"} /\ l.k = "size"
  <2>1. s = "fsize"
    BY <1>11, EdgeTargets DEF Types
  <2>2. /\ Then(l, v) = SizeThen(r, z) /\ y.ref.symbol = r.symbol /\ y.ref.coord = r.coord
        /\ y.ref.cons = Null /\ ~y.ref.opt
    BY <1>11 DEF InItem
  <2>3. l.v = r.cons /\ v = OptThen(r.opt, z)
    BY <1>5, <1>6, <1>11, <2>2
  <2>4. /\ x.ref.cons = l.v /\ x.ref.name = y.ref.name /\ x.ref.symbol = y.ref.symbol
        /\ x.ref.coord = y.ref.coord /\ x.ref.opt = y.ref.opt
    BY <1>11, EnterFacts
  <2> HIDE DEF x
  <2>5. yy = x
    BY <2>1 DEF Leave
  <2>7. ~Broken(s, x)
    BY <2>1 DEF Broken
  <2> HIDE DEF yy
  <2>8. InItem(s, yy.ref, v, r, z)
    BY <1>8, <2>1, <2>2, <2>3, <2>4, <2>5 DEF InItem
  <2> QED BY <1>7, <2>1, <2>5, <2>7, <2>8 DEF x, yy, ItemStepTo
<1>12. CASE c \in {"ftype", "ftype_ws", "fsize", "fsize_ws"} /\ l.k = "OPTIONAL"
  <2>1. s = "fopt"
    BY <1>12, EdgeTargets DEF Types
  <2>2. /\ y.ref.symbol = r.symbol /\ y.ref.coord = r.coord /\ ~y.ref.opt
        /\ \/ Then(l, v) = SizeThen(r, z) /\ y.ref.cons = Null
           \/ Then(l, v) = OptThen(r.opt, z) /\ y.ref.cons = r.cons
    BY <1>12 DEF InItem
  <2>3. y.ref.cons = r.cons /\ r.opt /\ v = z
    BY <1>5, <1>6, <1>12, <2>2
  <2>4. x.ref = y.ref
    BY <1>7, <1>12
  <2> HIDE DEF x
  <2>5. yy.nt = x.nt /\ yy.rule = x.rule /\ yy.ref = [x.ref EXCEPT !.opt = TRUE]
    BY <1>7, <2>1 DEF Leave, Registers
  <2>6. /\ yy.ref.name = x.ref.name /\ yy.ref.coord = x.ref.coord /\ yy.ref.symbol = x.ref.symbol
        /\ yy.ref.cons = x.ref.cons /\ yy.ref.opt = TRUE /\ yy.ref \in Reference
    BY <1>7, <2>5, SetReference DEF Reference
  <2>7. ~Broken(s, x)
    BY <2>1 DEF Broken
  <2> HIDE DEF yy
  <2>9. r.opt = TRUE
    BY <1>1, <2>3
  <2>10. yy.ref = r
    BY ZenonT(40), <1>8, <2>2, <2>3, <2>4, <2>6, <2>9, ReferenceEqual
  <2>8. InItem(s, yy.ref, v, r, z)
    BY <2>1, <2>3, <2>10 DEF InItem
  <2> QED BY <1>7, <2>1, <2>5, <2>7, <2>8 DEF x, yy, ItemStepTo
<1>13. \/ c \in {"fname", "fname_ws"} /\ l.k = "tag"
       \/ c \in {"fname", "fname_ws", "ftag"} /\ l.k \in Types
       \/ c \in {"ftype", "ftype_ws"} /\ l.k = "size"
       \/ c \in {"ftype", "ftype_ws", "fsize", "fsize_ws"} /\ l.k = "OPTIONAL"
  BY ItemStates, EdgeTargets
<1> QED BY <1>9, <1>10, <1>11, <1>12, <1>13

-----------------------------------------------------------------------------
\* The name of a reference, if it has one; else there is nothing of it.
LEMMA ItemHead ==
    ASSUME NEW d \in Definition, Formed(d), d.rule.type \in RecordTypes, NEW w \in Seq(Lexeme),
           NEW j \in 1..Len(d.rule.refs), NEW l \in Lexeme, NEW v \in Seq(Lexeme),
           RefThen(d.rule.refs[j], Items(d.rule.refs, EndThen(d.rule, w), j + 1)) = Then(l, v)
    PROVE  \/ /\ d.rule.refs[j].name # Empty /\ d.rule.refs[j].symbol # Empty
              /\ l.k = "name" /\ l.v = d.rule.refs[j].name
              /\ v = TagThen(d.rule.refs[j], Items(d.rule.refs, EndThen(d.rule, w), j + 1))
           \/ d.rule.refs[j].name = Empty /\ l.k \in {"comma", "close"}
<1> DEFINE u == d.rule
           r == u.refs[j]
           z == Items(u.refs, EndThen(u, w), j + 1)
<1>1. u \in Rule /\ u.refs \in Seq(Reference) /\ Len(u.refs) \in Nat /\ j \in DOMAIN u.refs
  <2>1. u \in Rule /\ u.refs \in Seq(Reference)
    BY FormedReference DEF Rule
  <2> QED BY <2>1, LenProperties
<1>2. r \in Reference /\ j + 1 \in 1..Len(u.refs) + 1
  BY <1>1, ElementOfSeq
<1>3. z \in Seq(Lexeme)
  BY <1>1, <1>2, EndTyped
<1>4. IF r.name = Empty THEN r = NewReference(Empty) ELSE r.symbol # Empty
  BY <1>1, FormedReference
<1>5. TagThen(r, z) \in Seq(Lexeme) /\ r.name \in Field \cup {Empty}
  BY <1>2, <1>3, RefLexemesThen DEF Reference
<1>6. z = Then(l, v) => l.k \in {"comma", "close"}
  BY <1>1, BehindItem
<1>7. RefThen(r, z) = Then(l, v)
  OBVIOUS
<1> HIDE DEF z, r
<1>8. FieldThen(r.name, TagThen(r, z)) = Then(l, v)
  BY <1>7 DEF RefThen
<1>9. CASE r.name = Empty
  <2>1. TagThen(r, z) = Then(l, v)
    BY <1>8, <1>9 DEF FieldThen
  <2>2. r.coord = Null /\ r.symbol = Empty /\ r.cons = Null /\ r.opt = FALSE
    BY <1>4, <1>9 DEF NewReference
  <2>3. TagThen(r, z) = z
    BY <2>2 DEF TagThen, SymbolThen, SizeThen, OptThen, ValueThen, NameThen
  <2> QED BY <1>6, <1>9, <2>1, <2>3 DEF r
<1>10. CASE r.name # Empty
  <2>1. l.k = "name" /\ l.v = r.name /\ v = TagThen(r, z)
    BY <1>5, <1>8, <1>10, HeadFacts
  <2> QED BY <1>4, <1>10, <2>1 DEF r, z
<1> QED BY <1>9, <1>10

\* What the end of a record begins with.
LEMMA EndHead ==
    ASSUME NEW u \in Rule, NEW w \in Seq(Lexeme), NEW l \in Lexeme, NEW v \in Seq(Lexeme),
           EndThen(u, w) = Then(l, v)
    PROVE  l.k \in {"comma", "close"}
<1>1. u.ext \in BOOLEAN /\ "comma" \in Signs /\ "close" \in Signs
  BY DEF Rule, Signs
<1>2. CASE u.ext
  <2>1. Then(Key("...") , Then(Key("close"), w)) \in Seq(Lexeme)
    BY <1>2, EndTyped
  <2>2. Then(Key("comma"), Then(Key("..."), Then(Key("close"), w))) = Then(l, v)
    BY <1>2, EndTyped
  <2>3. l.k = "comma"
    BY <1>1, <2>1, <2>2, HeadFacts
  <2> QED BY <2>3
<1>3. CASE ~u.ext
  <2>1. Then(Key("close"), w) = Then(l, v)
    BY <1>3, EndTyped
  <2>2. l.k = "close"
    BY <1>1, <2>1, HeadFacts
  <2> QED BY <2>2
<1> QED BY <1>2, <1>3

\* What is in front of the marker.
LEMMA MarkerHead ==
    ASSUME NEW w \in Seq(Lexeme), NEW l \in Lexeme, NEW v \in Seq(Lexeme)
    PROVE  /\ Then(Key("..."), Then(Key("close"), w)) = Then(l, v) =>
                 l.k = "..." /\ v = Then(Key("close"), w)
           /\ Then(Key("close"), w) = Then(l, v) => l.k = "close" /\ v = w
<1>1. "..." \in Signs /\ "close" \in Signs
  BY DEF Signs
<1>2. Then(Key("close"), w) \in Seq(Lexeme)
  BY <1>1, KeyThen
<1>3. Then(Key("..."), Then(Key("close"), w)) = Then(l, v) =>
         l.k = "..." /\ v = Then(Key("close"), w)
  BY <1>1, <1>2, HeadFacts
<1>4. Then(Key("close"), w) = Then(l, v) => l.k = "close" /\ v = w
  BY <1>1, HeadFacts
<1> QED BY <1>3, <1>4

\* A step within a record.
LEMMA RecordStep ==
    ASSUME NEW d \in Definition, Formed(d), d.name # Empty, NEW w \in Seq(Lexeme),
           NEW c \in {"brace"} \cup InRecord,
           NEW y \in Registers, y.nt.name = d.name, y.nt.coord = d.coord,
           y.ref \in Reference, y.rule \in Rule,
           NEW l \in Lexeme, NEW v \in Seq(Lexeme), AtRecord(c, y, Then(l, v), d.rule, w),
           NEW s, <<c, l.k, s>> \in Edges, l.k # "ws"
    PROVE  /\ ~Broken(s, Enter(l, y))
           /\ At(s, Leave(s, Enter(l, y)), v, d, w)
<1> DEFINE u == d.rule
           x == Enter(l, y)
           yy == Leave(s, x)
           Z(j) == Items(u.refs, EndThen(u, w), j + 1)
<1>1. u \in Rule /\ u.refs \in Seq(Reference) /\ Len(u.refs) \in Nat /\ u.type \in RecordTypes
      /\ DOMAIN u.refs = 1..Len(u.refs)
  <2>1. u \in Rule /\ u.refs \in Seq(Reference)
    BY FormedReference DEF Rule
  <2> QED BY <2>1, LenProperties DEF AtRecord
<1>2. ASSUME NEW j \in 1..Len(u.refs)
      PROVE  /\ u.refs[j] \in Reference /\ Z(j) \in Seq(Lexeme)
             /\ Z(j) = Then(l, v) => l.k \in {"comma", "close"}
             /\ u.refs[j].name # Empty => u.refs[j].symbol # Empty
  <2>1. u.refs[j] \in Reference /\ j + 1 \in 1..Len(u.refs) + 1
    BY <1>1, ElementOfSeq
  <2>2. Z(j) \in Seq(Lexeme)
    BY <1>1, <2>1, EndTyped
  <2>3. Z(j) = Then(l, v) => l.k \in {"comma", "close"}
    BY <1>1, BehindItem
  <2>4. u.refs[j].name # Empty => u.refs[j].symbol # Empty
    BY <1>1, FormedReference
  <2> QED BY <2>1, <2>2, <2>3, <2>4
<1>3. x.nt = y.nt /\ x.rule = y.rule /\ x \in Registers /\ (l.k # "size" => x.ref = y.ref)
  BY EnterFacts
<1>4. s \in States
  BY EdgeTargets
\* What there can be in front of l.
<1>5. \/ \E j \in 1..Len(u.refs) : AtItem(c, y, Then(l, v), u, w, j)
      \/ AtMarker(c, y, Then(l, v), u, w)
      \/ c \in {"brace", "field"} /\ l.k \in {"comma", "close"}
  BY <1>1, EndHead DEF AtRecord
<1>6. SUFFICES /\ ~Broken(s, x) /\ s \in {"brace"} \cup InRecord \cup {"close"}
               /\ yy.nt = y.nt
               /\ s # "close" => AtRecord(s, yy, v, u, w)
               /\ s = "close" => yy.rule = u /\ v = w /\ Proper(d)
  <2> SUFFICES At(s, yy, v, d, w)
    BY <1>6
  <2> HIDE DEF yy
  <2>1. s \in States \ Outside
    BY <1>4, <1>6 DEF Outside, InRecord
  <2> QED BY <1>6, <2>1 DEF At, InRecord
<1>7. CASE l.k = "name"
  <2>1. s = "fname" /\ c \in {"brace", "comma", "field"}
    BY <1>7, EdgeForms
  <2>2. PICK j \in 1..Len(u.refs) : AtItem(c, y, Then(l, v), u, w, j)
    BY <1>5, <1>7, <2>1, MarkerHead DEF AtMarker
  <2>3. /\ AllNamed(u.refs, j - 1) /\ y.rule.type = u.type
        /\ y.rule.refs = SubSeq(u.refs, 1, j - 1) /\ ~y.rule.ext
        /\ y.ref = NewReference(Empty) /\ RefThen(u.refs[j], Z(j)) = Then(l, v)
    BY <2>1, <2>2, ItemStates DEF AtItem
  <2>4. u.refs[j].name # Empty /\ l.v = u.refs[j].name /\ v = TagThen(u.refs[j], Z(j))
    BY <1>1, <1>7, <2>3, ItemHead
  <2>5. x.last = l.v /\ l.v \in Field /\ x.ref = y.ref
    BY <1>3, <1>7, EnterFacts
  <2>6. yy.nt = x.nt /\ yy.rule = x.rule /\ yy.ref = [x.ref EXCEPT !.name = x.last]
    BY <1>3, <2>1 DEF Leave, Registers
  <2>7. ~Broken(s, x)
    BY <2>1, <2>5, ParserAssumption DEF Broken
  <2>8. /\ yy.ref.name = u.refs[j].name /\ yy.ref.coord = Null /\ yy.ref.symbol = Empty
        /\ yy.ref.cons = Null /\ yy.ref.opt = FALSE
    BY <2>3, <2>4, <2>5, <2>6 DEF NewReference
  <2> HIDE DEF x, yy, Z, u
  <2>9. InItem(s, yy.ref, v, u.refs[j], Z(j))
    BY <2>1, <2>4, <2>8 DEF InItem
  <2>10. AtRecord(s, yy, v, u, w)
    BY <1>1, <1>3, <2>3, <2>4, <2>6, <2>9 DEF AtRecord, AtItem, Z
  <2> QED BY <1>3, <2>1, <2>6, <2>7, <2>10 DEF InRecord
<1>8. CASE l.k = "..."
  <2>1. s = "fext" /\ c \in {"brace", "comma", "field"}
    BY <1>8, EdgeForms
  <2>2. AtMarker(c, y, Then(l, v), u, w)
    <3>1. ASSUME NEW j \in 1..Len(u.refs), AtItem(c, y, Then(l, v), u, w, j) PROVE FALSE
      <4>1. RefThen(u.refs[j], Z(j)) = Then(l, v)
        BY <2>1, <3>1, ItemStates DEF AtItem
      <4> QED BY <1>1, <1>8, <4>1, ItemHead
    <3> QED BY <1>5, <1>8, <3>1
  <2>3. /\ u.ext /\ u.refs # <<>> /\ AllNamed(u.refs, Len(u.refs))
        /\ y.rule.type = u.type /\ y.rule.refs = u.refs /\ y.ref = NewReference(Empty)
        /\ v = Then(Key("close"), w)
    BY <2>1, <2>2, MarkerHead DEF AtMarker
  <2>4. x.ref = y.ref
    BY <1>3, <1>8
  <2>5. yy.nt = x.nt /\ yy.ref = x.ref /\ yy.rule = [x.rule EXCEPT !.ext = TRUE]
    BY <1>3, <2>1 DEF Leave, Registers
  <2>6. ~Broken(s, x)
    BY <2>1 DEF Broken
  <2>7. yy.rule.type = u.type /\ yy.rule.refs = u.refs /\ yy.rule.ext = TRUE
    BY <1>3, <2>3, <2>5 DEF Rule
  <2> HIDE DEF x, yy, u
  <2>8. AtMarker(s, yy, v, u, w)
    BY <2>1, <2>3, <2>4, <2>5, <2>7 DEF AtMarker
  <2> QED BY <1>1, <1>3, <2>1, <2>5, <2>6, <2>8 DEF AtRecord, InRecord
<1>9. CASE l.k \notin {"name", "...", "comma", "close"}
  <2>1. PICK j \in 1..Len(u.refs) : AtItem(c, y, Then(l, v), u, w, j)
    BY <1>5, <1>9, MarkerHead DEF AtMarker
  <2>2. /\ AllNamed(u.refs, j - 1) /\ y.rule.type = u.type
        /\ y.rule.refs = SubSeq(u.refs, 1, j - 1) /\ ~y.rule.ext
        /\ u.refs[j].name # Empty /\ InItem(c, y.ref, Then(l, v), u.refs[j], Z(j))
    BY <1>1, <1>9, <2>1, ItemHead DEF AtItem
  <2>3. /\ s \in {"ftag", "ftype", "fsize", "fopt"} /\ ~Broken(s, x)
        /\ InItem(s, yy.ref, v, u.refs[j], Z(j)) /\ yy.nt = y.nt /\ yy.rule = y.rule
    <3>1. ASSUME NEW r \in Reference, NEW z \in Seq(Lexeme), r.symbol # Empty,
                 InItem(c, y.ref, Then(l, v), r, z),
                 z = Then(l, v) => l.k \in {"comma", "close"}
          PROVE  /\ s \in {"ftag", "ftype", "fsize", "fopt"} /\ ~Broken(s, x)
                 /\ InItem(s, yy.ref, v, r, z) /\ yy.nt = y.nt /\ yy.rule = y.rule
      <4>1. ItemStepFrom(r, z, y, c, l, v, s)
        BY <1>9, <3>1 DEF ItemStepFrom
      <4>2. ItemStepTo(r, z, y, l, v, s)
        BY <4>1, ItemStep
      <4> QED BY <4>2 DEF ItemStepTo
    <3>2. u.refs[j] \in Reference /\ Z(j) \in Seq(Lexeme) /\ u.refs[j].symbol # Empty
      BY <1>2, <2>2
    <3>3. Z(j) = Then(l, v) => l.k \in {"comma", "close"}
      BY <1>2
    <3> HIDE DEF x, yy, Z, u
    <3> QED BY <2>2, <3>1, <3>2, <3>3
  <2> HIDE DEF x, yy, Z, u
  <2>4. AtRecord(s, yy, v, u, w)
    BY <1>1, <2>2, <2>3 DEF AtRecord, AtItem, Z
  <2> QED BY <2>3, <2>4 DEF InRecord
<1>10. CASE l.k \in {"comma", "close"}
  <2>1. s = l.k /\ c \notin {"brace", "comma", "field"}
    BY <1>10, EdgeForms
  <2>2. x = y /\ ~Broken(s, x)
    BY <1>10, <2>1 DEF Enter, Broken
  <2>3. ASSUME NEW j \in 1..Len(u.refs), AtItem(c, y, Then(l, v), u, w, j)
        PROVE  /\ y.rule.type = u.type /\ y.rule.refs = SubSeq(u.refs, 1, j - 1) /\ ~y.rule.ext
               /\ y.ref = u.refs[j] /\ u.refs[j].name # Empty /\ AllNamed(u.refs, j)
               /\ \/ /\ j < Len(u.refs) /\ l.k = "comma"
                     /\ v = RefThen(u.refs[j + 1], Items(u.refs, EndThen(u, w), (j + 1) + 1))
                  \/ /\ j = Len(u.refs) /\ u.ext /\ l.k = "comma"
                     /\ v = Then(Key("..."), Then(Key("close"), w))
                  \/ j = Len(u.refs) /\ ~u.ext /\ l.k = "close" /\ v = w
    <3>1. /\ AllNamed(u.refs, j - 1) /\ y.rule.type = u.type
          /\ y.rule.refs = SubSeq(u.refs, 1, j - 1) /\ ~y.rule.ext
          /\ u.refs[j].name # Empty /\ InItem(c, y.ref, Then(l, v), u.refs[j], Z(j))
      BY <2>1, <2>3 DEF AtItem
    <3>2. y.ref = u.refs[j] /\ Z(j) = Then(l, v)
      <4> HIDE DEF Z
      <4> QED BY SMTT(20), <1>2, <1>10, <3>1, ItemEnds
    <3>3. \/ /\ j < Len(u.refs) /\ l.k = "comma"
             /\ v = RefThen(u.refs[j + 1], Items(u.refs, EndThen(u, w), (j + 1) + 1))
          \/ /\ j = Len(u.refs) /\ u.ext /\ l.k = "comma"
             /\ v = Then(Key("..."), Then(Key("close"), w))
          \/ j = Len(u.refs) /\ ~u.ext /\ l.k = "close" /\ v = w
      BY <1>1, <3>2, BehindItem
    <3>4. AllNamed(u.refs, j)
      BY <1>1, <3>1 DEF AllNamed
    <3> QED BY <3>1, <3>2, <3>3, <3>4
  <2>4. ASSUME NEW j \in 1..Len(u.refs)
        PROVE  Append(SubSeq(u.refs, 1, j - 1), u.refs[j]) = SubSeq(u.refs, 1, j)
    BY <1>1, PrefixGrows
  <2>5. \A j \in 1..Len(u.refs) : j = Len(u.refs) => SubSeq(u.refs, 1, j) = u.refs
    BY <1>1, SubSeqFull
  <2>6. \A j \in 1..Len(u.refs) : j = Len(u.refs) => u.refs # <<>>
    BY <1>1
  <2>7. CASE l.k = "comma"
    <3>1. /\ yy.nt = y.nt /\ yy.ref = NewReference(Empty)
          /\ yy.rule = [y.rule EXCEPT !.refs = Append(@, y.ref)]
      BY <2>1, <2>2, <2>7 DEF Leave, PushReference, Registers
    <3>2. /\ yy.rule.type = y.rule.type /\ yy.rule.ext = y.rule.ext
          /\ yy.rule.refs = Append(y.rule.refs, y.ref)
      BY <3>1 DEF Rule
    <3>3. PICK j \in 1..Len(u.refs) : AtItem(c, y, Then(l, v), u, w, j)
      BY <1>5, <2>1, <2>7, MarkerHead DEF AtMarker
    <3>4. /\ yy.rule.type = u.type /\ ~yy.rule.ext /\ yy.rule.refs = SubSeq(u.refs, 1, j)
          /\ AllNamed(u.refs, j)
      <4>1. /\ y.rule.type = u.type /\ y.rule.refs = SubSeq(u.refs, 1, j - 1) /\ ~y.rule.ext
            /\ y.ref = u.refs[j] /\ AllNamed(u.refs, j)
        BY <2>3, <3>3
      <4> HIDE DEF yy
      <4> QED BY <2>4, <3>2, <4>1
    <3> HIDE DEF yy, x, u
    <3>5. CASE j < Len(u.refs)
      <4>1. v = RefThen(u.refs[j + 1], Items(u.refs, EndThen(u, w), (j + 1) + 1))
        BY <2>3, <3>3, <3>5
      <4>2. j + 1 \in 1..Len(u.refs) /\ (j + 1) - 1 = j
        BY <1>1, <3>5
      <4>3. AtRecord("comma", yy, RefThen(u.refs[j + 1], Items(u.refs, EndThen(u, w), (j + 1) + 1)), u, w)
        BY <1>1, <3>1, <3>4, <4>2, ItemBegins
      <4> QED BY <2>1, <2>2, <2>7, <3>1, <4>1, <4>3 DEF InRecord
    <3>6. CASE ~(j < Len(u.refs))
      <4>1. j = Len(u.refs) /\ u.ext /\ v = Then(Key("..."), Then(Key("close"), w))
        BY <2>3, <2>7, <3>3, <3>6
      <4>2. yy.rule.refs = u.refs /\ u.refs # <<>> /\ AllNamed(u.refs, Len(u.refs))
        BY <2>5, <2>6, <3>4, <4>1
      <4>3. AtMarker("comma", yy, v, u, w)
        BY <3>1, <3>4, <4>1, <4>2 DEF AtMarker
      <4> QED BY <1>1, <2>1, <2>2, <2>7, <3>1, <4>3 DEF AtRecord, InRecord
    <3> QED BY <3>5, <3>6
  <2>8. CASE l.k = "close"
    <3>1. /\ yy.nt = y.nt
          /\ yy.rule = IF y.ref.name = Empty THEN y.rule ELSE [y.rule EXCEPT !.refs = Append(@, y.ref)]
      BY <2>1, <2>2, <2>8 DEF Leave, CloseRecord, Registers
    <3>2. u.ext \in BOOLEAN /\ y.rule.ext \in BOOLEAN
      BY <1>1 DEF Rule
    <3>3. yy.rule = u /\ v = w /\ u.refs # <<>> /\ AllNamed(u.refs, Len(u.refs))
      <4>1. CASE \E j \in 1..Len(u.refs) : AtItem(c, y, Then(l, v), u, w, j)
        <5>1. PICK j \in 1..Len(u.refs) : AtItem(c, y, Then(l, v), u, w, j)
          BY <4>1
        <5>2. /\ y.rule.type = u.type /\ y.rule.refs = SubSeq(u.refs, 1, j - 1) /\ ~y.rule.ext
              /\ y.ref = u.refs[j] /\ u.refs[j].name # Empty /\ AllNamed(u.refs, j)
              /\ j = Len(u.refs) /\ ~u.ext /\ v = w
          BY <2>3, <2>8, <5>1
        <5>3. yy.rule = [y.rule EXCEPT !.refs = Append(@, y.ref)]
          BY <3>1, <5>2
        <5>4. /\ yy.rule.type = y.rule.type /\ yy.rule.ext = y.rule.ext
              /\ yy.rule.refs = Append(y.rule.refs, y.ref)
          BY <5>3 DEF Rule
        <5>5. yy.rule \in Rule
          BY <5>3, SetRefs
        <5> HIDE DEF yy, u
        <5>6. yy.rule.refs = u.refs /\ yy.rule.ext = u.ext
          BY <2>4, <2>5, <3>2, <5>2, <5>4
        <5> QED BY <1>1, <2>6, <5>2, <5>4, <5>5, <5>6, RuleEqual
      <4>2. CASE AtMarker(c, y, Then(l, v), u, w)
        <5>1. /\ y.ref = NewReference(Empty) /\ y.rule.type = u.type /\ y.rule.refs = u.refs
              /\ y.rule.ext /\ u.ext /\ u.refs # <<>> /\ AllNamed(u.refs, Len(u.refs)) /\ v = w
          BY <2>8, <4>2, MarkerHead DEF AtMarker
        <5>2. yy.rule = y.rule
          BY <3>1, <5>1 DEF NewReference
        <5>3. y.rule.ext = u.ext
          BY <3>2, <5>1
        <5> HIDE DEF yy, u
        <5> QED BY <1>1, <5>1, <5>2, <5>3, RuleEqual
      <4> QED BY <1>5, <2>1, <4>1, <4>2
    <3>4. Proper(d)
      BY <1>1, <3>3 DEF Proper, AllNamed
    <3> QED BY <2>1, <2>2, <2>8, <3>1, <3>3, <3>4 DEF InRecord
  <2> QED BY <1>10, <2>7, <2>8
<1> QED BY <1>7, <1>8, <1>9, <1>10

-----------------------------------------------------------------------------
\* w is how a definition, or END, begins.
Follows(w) ==
    /\ w \in Seq(Lexeme)
    /\ \A l \in Lexeme, v \in Seq(Lexeme) :
          w = Then(l, v) => l.k \in Types \cup {"::=", "END"}

\* A step within a definition.
StepFrom(c, y, l, v, d, w, s) ==
    /\ d \in Definition /\ Formed(d) /\ Follows(w)
    /\ y \in Registers /\ PointersLeft(c, y)
    /\ l \in Lexeme /\ v \in Seq(Lexeme)
    /\ At(c, y, Then(l, v), d, w)
    /\ <<c, l.k, s>> \in Edges /\ l.k # "ws"
    /\ c \in Complete => l.k = "size"

StepTo(y, l, v, d, w, s) ==
    ~Broken(s, Enter(l, y)) /\ At(s, Leave(s, Enter(l, y)), v, d, w)

\* The constraint of a link is read.
LEMMA LinkStep ==
    ASSUME NEW y, NEW l, NEW v, NEW d, NEW w, NEW s, NEW c \in {"link", "link_ws"},
           StepFrom(c, y, l, v, d, w, s)
    PROVE  StepTo(y, l, v, d, w, s)
<1> USE DEF StepFrom
<1>0. w \in Seq(Lexeme)
  BY DEF Follows
<1> DEFINE u == d.rule
           x == Enter(l, y)
           yy == Leave(s, x)
<1>1. s = "link_size" /\ l.k = "size"
  BY EdgeTargets DEF Complete, Types
<1>2. y.ref \in Reference /\ y.rule \in Rule
  BY DEF PointersLeft, RefStates, RuleStates, InRecord, Registers
<1>3. AtLink(y, Then(l, v), u, w) /\ y.nt.name = d.name /\ y.nt.coord = d.coord /\ d.name # Empty
  BY DEF At
<1>4. PICK n \in Ident \cup Builtin, a \in Constraint \cup {Null} :
         /\ u.refs = <<[NewReference(n) EXCEPT !.cons = a]>>
         /\ y.rule = LinkTo(n) /\ Then(l, v) = ValueThen("size", a, w)
  BY <1>3 DEF AtLink
<1>5. u \in Rule /\ u.type = "LINK" /\ u.ext = FALSE
  BY <1>3, FormedReference DEF AtLink, Rule
<1>6. x \in Registers /\ x.ref \in Reference /\ x.ref.cons = l.v /\ x.nt = y.nt /\ x.rule = y.rule
  BY <1>1, <1>2, EnterFacts
<1>7. yy.nt = x.nt /\ yy.rule = [x.rule EXCEPT !.refs[1].cons = x.ref.cons]
  BY <1>1, <1>6 DEF Leave, MoveConstraint, Registers
<1>8. ~Broken(s, x)
  BY <1>1 DEF Broken
<1>9. CASE a # Null
  <2>1. l.v = a /\ v = w
    <3>1. a = Null \/ (l.v = a /\ v = w)
      BY <1>0, <1>4, HeadFacts
    <3> QED BY <1>9, <3>1
  <2>2. yy.rule = [LinkTo(n) EXCEPT !.refs[1].cons = a]
    BY <1>4, <1>6, <1>7, <2>1
  <2>3. [<<NewReference(n)>> EXCEPT ![1].cons = a] = <<[NewReference(n) EXCEPT !.cons = a]>>
    OBVIOUS
  <2>4. yy.rule.type = "LINK" /\ yy.rule.ext = FALSE /\ yy.rule.refs = u.refs
    BY <1>4, <2>2, <2>3 DEF LinkTo
  <2>5. yy.rule \in Rule
    <3>1. l.v \in Constraint
      BY <1>1 DEF Lexeme
    <3>2. x.rule \in Rule /\ x.ref.cons \in Constraint \cup {Null}
      BY <1>2, <1>6, <3>1
    <3> HIDE DEF x, yy
    <3> QED BY <1>7, <3>2, SetRefs
  <2> HIDE DEF yy, x
  <2>6. yy.rule = u
    BY <1>5, <2>4, <2>5, RuleEqual
  <2>7. Proper(d)
    BY <1>3, <1>5 DEF Proper
  <2>8. s \in States \ Outside
    BY <1>1, StateList DEF Tight, Outside
  <2>9. At(s, yy, v, d, w)
    BY <1>1, <1>3, <1>6, <1>7, <2>1, <2>6, <2>7, <2>8 DEF At, InRecord
  <2> QED BY <1>8, <2>9 DEF StepTo, yy, x
<1>10. CASE a = Null
  <2>2. w = Then(l, v)
    BY <1>4, <1>10 DEF ValueThen
  <2>3. l.k \in Types \cup {"::=", "END"}
    BY <2>2 DEF Follows
  <2> QED BY <1>1, <2>3 DEF Types
<1> QED BY <1>9, <1>10

\* A lexeme of a definition is read: what is still to be read is what is left
\* of it.
LEMMA DefStep ==
    ASSUME NEW y, NEW l, NEW v, NEW d, NEW w, NEW s, NEW c, StepFrom(c, y, l, v, d, w, s)
    PROVE  StepTo(y, l, v, d, w, s)
<1> USE DEF StepFrom
<1>0. w \in Seq(Lexeme) /\ c \in States \ Outside /\ d.name # Empty
  BY DEF Follows, At
<1> DEFINE u == d.rule
           x == Enter(l, y)
           yy == Leave(s, x)
<1>1. d.name \in Ident \cup Builtin /\ d.coord \in Tag \cup {Null} /\ d.name \notin {Null, Half}
  BY <1>0, ParserAssumption DEF Definition
<1>2. RuleThen(u, w) \in Seq(Lexeme) /\ AssignThen(d, w) \in Seq(Lexeme)
  BY <1>0, DefLexemesThen
<1>3. x.nt = y.nt /\ x.rule = y.rule /\ (l.k # "size" => x \in Registers)
  BY EnterFacts
<1>4. CASE c \in {"defname", "defname_ws"}
  <2>1. y.ident = d.name /\ Then(Key("::="), AssignThen(d, w)) = Then(l, v)
    BY <1>4 DEF At
  <2>2. s = "assign" /\ l.k = "::="
    BY <1>4, EdgeTargets
  <2>3. v = AssignThen(d, w)
    <3>1. "::=" \in Signs
      BY DEF Signs
    <3> QED BY <1>2, <2>1, <3>1, HeadFacts
  <2>4. x = y
    BY <2>2 DEF Enter
  <2>5. yy.nt = [name |-> d.name, coord |-> Null]
    BY <1>1, <2>1, <2>2, <2>4 DEF Leave, NewSymbol, Text, Registers
  <2>6. ~Broken(s, x)
    BY <1>1, <2>1, <2>2, <2>4 DEF Broken
  <2> HIDE DEF yy, x
  <2>7. s \in States \ Outside
    BY <2>2, StateList DEF Tight, Outside
  <2>8. At(s, yy, v, d, w)
    BY <1>0, <2>2, <2>3, <2>5, <2>7 DEF At, InRecord
  <2> QED BY <2>6, <2>8 DEF StepTo, yy, x
<1>5. CASE c \in {"assign", "rhs", "rhs_tag"}
  <2>1. /\ y.nt.name = d.name
        /\ \/ c # "rhs_tag" /\ y.nt.coord = Null /\ AssignThen(d, w) = Then(l, v)
           \/ c = "rhs_tag" /\ y.nt.coord = d.coord /\ RuleThen(u, w) = Then(l, v)
    BY <1>5 DEF At
  <2>2. AssignThen(d, w) = Then(l, v) =>
          \/ d.coord # Null /\ l.k = "tag" /\ l.v = d.coord /\ v = RuleThen(u, w)
          \/ d.coord = Null /\ RuleThen(u, w) = Then(l, v)
    BY <1>1, <1>2, HeadFacts DEF AssignThen
  <2>3. \/ l.k = "tag" /\ s = "rhs_tag" /\ c # "rhs_tag"
        \/ l.k \in Types /\ s = "link"
        \/ l.k \in {"SEQUENCE", "SET", "CHOICE"} /\ s = l.k
    BY <1>5, EdgeTargets
  <2>4. CASE l.k = "tag"
    <3>1. s = "rhs_tag" /\ c # "rhs_tag"
      BY <2>3, <2>4 DEF Types
    <3>2. d.coord # Null /\ l.v = d.coord /\ v = RuleThen(u, w)
      <4>1. RuleThen(u, w) # Then(l, v)
        BY <1>0, <2>4, RuleHead DEF Types, ListWord, RecordWord
      <4> QED BY <2>1, <2>2, <3>1, <4>1
    <3>3. x.coord = l.v /\ x \in Registers
      BY <1>3, <2>4, EnterFacts
    <3>4. x.nt \in NT
      BY <1>3, <1>5 DEF PointersLeft, NTStates, Registers
    <3>5. yy.nt.name = x.nt.name /\ yy.nt.coord = x.coord
      BY <3>1, <3>3, <3>4 DEF Leave, TagSymbol, Registers, NT
    <3>6. ~Broken(s, x) /\ s \in States \ Outside
      BY <3>1, StateList DEF Broken, Outside
    <3> HIDE DEF yy, x
    <3>7. At(s, yy, v, d, w)
      BY <1>0, <1>3, <2>1, <3>1, <3>2, <3>3, <3>5, <3>6 DEF At, InRecord
    <3> QED BY <3>6, <3>7 DEF StepTo, yy, x
  <2>5. CASE l.k # "tag"
    <3>1. y.nt.coord = d.coord /\ RuleThen(u, w) = Then(l, v)
      BY <2>1, <2>2, <2>5
    <3>2. ~Broken(s, x) /\ At(s, yy, v, d, w)
      BY <1>0, <2>1, <2>3, <2>5, <3>1, RuleStep
    <3> QED BY <3>2 DEF StepTo
  <2> QED BY <2>4, <2>5
<1>6. CASE c \in {"link", "link_ws"}
  BY <1>6, LinkStep
<1>7. CASE c \in {"SEQUENCE", "SET", "CHOICE", "record", "choice"}
  <2>1. AtHead(c, y, Then(l, v), u, w) /\ y.nt.name = d.name /\ y.nt.coord = d.coord
    BY <1>7 DEF At
  <2>2. u \in Rule /\ u.refs \in Seq(Reference) /\ Len(u.refs) \in Nat
    <3>1. u \in Rule /\ u.refs \in Seq(Reference)
      BY FormedReference DEF Rule
    <3> QED BY <3>1, LenProperties
  <2>3. x = y /\ ((l.k = "brace" /\ s = "brace") \/ (l.k = "OF" /\ s = "OF"))
    <3>1. (l.k = "brace" /\ s = "brace") \/ (l.k = "OF" /\ s = "OF")
      <4>1. CASE c \in {"SEQUENCE", "SET", "record"}
        BY <4>1, EdgeTargets
      <4>2. CASE c \in {"CHOICE", "choice"}
        BY <4>2, EdgeTargets
      <4> QED BY <1>7, <4>1, <4>2
    <3> QED BY <3>1 DEF Enter
  <2>4. ~Broken(s, x) /\ s \in States \ Outside
    BY <2>3, StateList DEF Broken, Tight, Outside
  <2>5. CASE s = "brace"
    <3> DEFINE z == Items(u.refs, EndThen(u, w), 1)
    <3>1. l.k = "brace"
      BY <2>3, <2>5
    <3>2. z \in Seq(Lexeme) /\ "brace" \in Signs /\ "OF" \in Signs
      <4>1. 1 \in 1..Len(u.refs) + 1
        BY <2>2
      <4> QED BY <1>0, <2>2, <4>1, EndTyped DEF Signs
    <3>3. u.type \in RecordTypes /\ y.rule.type = u.type /\ Then(Key("brace"), z) = Then(l, v)
          /\ y.rule.refs = <<>> /\ ~y.rule.ext
      <4>1. ASSUME u.type \in {"LIST", "SET"}, Then(l, v) = Then(Key("OF"), RefThen(u.refs[1], w))
            PROVE  FALSE
        <5>1. Len(u.refs) = 1
          BY <4>1, FormedReference
        <5>2. u.refs[1] \in Reference
          BY <2>2, <5>1, ElementOfSeq
        <5>3. RefThen(u.refs[1], w) \in Seq(Lexeme)
          BY <1>0, <5>2, RefLexemesThen
        <5>4. l.k = "OF"
          BY <3>2, <4>1, <5>3, HeadFacts
        <5> QED BY <3>1, <5>4
      <4> QED BY <2>1, <4>1 DEF AtHead, RecordTypes
    <3>4. v = z
      <4> HIDE DEF z
      <4> QED BY <3>2, <3>3, HeadFacts
    <3>5. yy.nt = y.nt /\ yy.rule = y.rule /\ yy.ref = NewReference(Empty)
      BY <2>3, <2>5 DEF Leave, OpenRecord, Registers
    <3> HIDE DEF x, yy
    <3>6. AtRecord(s, yy, v, u, w)
      <4>1. CASE u.refs = <<>>
        <5>1. z = EndThen(u, w)
          <6>1. Len(u.refs) = 0 /\ EndThen(u, w) \in Seq(Lexeme)
            BY <1>0, <2>2, <4>1, EndTyped, EmptySeq
          <6>2. Len(u.refs) + 1 = 1
            BY <6>1
          <6> QED BY <2>2, <6>1, <6>2, ItemsFacts
        <5> QED BY <2>5, <3>3, <3>4, <4>1, <5>1 DEF AtRecord
      <4>2. CASE u.refs # <<>>
        <5>1. 1 \in 1..Len(u.refs) /\ EndThen(u, w) \in Seq(Lexeme)
          BY <1>0, <2>2, <4>2, EndTyped, EmptySeq
        <5>2. z = RefThen(u.refs[1], Items(u.refs, EndThen(u, w), 1 + 1))
          BY <2>2, <5>1, ItemsFacts
        <5>3. SubSeq(u.refs, 1, 1 - 1) = <<>> /\ AllNamed(u.refs, 1 - 1)
          BY <2>2, NoPrefix DEF AllNamed
        <5>4. AtRecord("brace", yy, RefThen(u.refs[1], Items(u.refs, EndThen(u, w), 1 + 1)), u, w)
          BY <1>0, <2>2, <3>3, <3>5, <5>1, <5>3, ItemBegins
        <5> QED BY <2>5, <3>4, <5>2, <5>4
      <4> QED BY <4>1, <4>2
    <3>7. At(s, yy, v, d, w)
      BY <1>0, <2>1, <2>4, <2>5, <3>5, <3>6 DEF At
    <3> QED BY <2>4, <3>7 DEF StepTo, yy, x
  <2>6. CASE s = "OF"
    <3> DEFINE z == Items(u.refs, EndThen(u, w), 1)
    <3>1. l.k = "OF"
      BY <2>3, <2>6
    <3>2. z \in Seq(Lexeme) /\ "brace" \in Signs /\ "OF" \in Signs
      <4>1. 1 \in 1..Len(u.refs) + 1
        BY <2>2
      <4> QED BY <1>0, <2>2, <4>1, EndTyped DEF Signs
    <3>3. Then(l, v) # Then(Key("brace"), z)
      <4> HIDE DEF z
      <4> QED BY <3>1, <3>2, HeadFacts
    <3>4. /\ u.type \in {"LIST", "SET"} /\ Then(Key("OF"), RefThen(u.refs[1], w)) = Then(l, v)
          /\ y.rule.type = IF u.type = "LIST" THEN "SEQUENCE" ELSE "ALL"
      BY <2>1, <3>3 DEF AtHead
    <3>5. v = RefThen(u.refs[1], w)
      <4>1. Len(u.refs) = 1
        BY <3>4, FormedReference
      <4>2. u.refs[1] \in Reference
        BY <2>2, <4>1, ElementOfSeq
      <4>3. RefThen(u.refs[1], w) \in Seq(Lexeme)
        BY <1>0, <4>2, RefLexemesThen
      <4> QED BY <3>2, <3>4, <4>3, HeadFacts
    <3>6. /\ yy.nt = y.nt /\ yy.rule.refs = <<>> /\ yy.rule.ext = FALSE /\ yy.rule.type = u.type
      BY <2>3, <2>6, <3>4 DEF Leave, NewList, NewRule, Registers
    <3> HIDE DEF x, yy
    <3>7. AtList(yy, v, u, w)
      BY <3>4, <3>5, <3>6 DEF AtList
    <3>8. At(s, yy, v, d, w)
      BY <1>0, <2>1, <2>4, <2>6, <3>6, <3>7 DEF At, InRecord
    <3> QED BY <2>4, <3>8 DEF StepTo, yy, x
  <2> QED BY <2>3, <2>5, <2>6
<1>8. CASE c \in {"OF", "of"}
  <2>1. s = "oftype" /\ l.k \in Types
    BY <1>8, EdgeTargets
  <2>2. AtList(y, Then(l, v), u, w) /\ y.nt.name = d.name /\ y.nt.coord = d.coord
    BY <1>8 DEF At
  <2>3. PICK n \in Ident \cup Builtin : u.refs = <<NewReference(n)>>
    BY <2>2, FormedReference DEF AtList
  <2>4. u.refs[1] = NewReference(n)
    BY <2>3
  <2>5. NameThen(n, w) = Then(l, v)
    BY <1>0, <2>2, <2>4, PlainReference DEF AtList
  <2>6. l.v = n /\ v = w
    BY <1>0, <2>5, HeadFacts, ParserAssumption
  <2>7. x.ident = n /\ x \in Registers
    BY <1>3, <2>1, <2>6, EnterFacts DEF Types
  <2>8. ~Broken(s, x) /\ s \in States \ Outside
    BY <2>1, <2>7, StateList, ParserAssumption DEF Broken, Tight, Outside
  <2>9. y.rule \in Rule
    BY <1>8 DEF PointersLeft, RuleStates, Registers
  <2>10. yy.nt = x.nt /\ yy.rule = [x.rule EXCEPT !.refs = Append(@, NewReference(n))]
    BY <2>1, <2>7 DEF Leave, PushElement, Registers
  <2>11. /\ yy.rule.type = x.rule.type /\ yy.rule.ext = x.rule.ext
         /\ yy.rule.refs = Append(x.rule.refs, NewReference(n))
    BY <1>3, <2>9, <2>10 DEF Rule
  <2>12. yy.rule \in Rule
    BY SMTT(20), <1>3, <2>9, <2>10, SetRefs, NewTyped
  <2>13. u \in Rule /\ u.ext = FALSE /\ u.type \in {"LIST", "SET"}
    BY <2>2, FormedReference DEF AtList, Rule
  <2>14. Append(<<>>, NewReference(n)) = <<NewReference(n)>>
    OBVIOUS
  <2>15. y.rule.refs = <<>> /\ y.rule.ext = FALSE /\ y.rule.type = u.type
    BY <2>2, <2>9 DEF AtList, Rule
  <2> HIDE DEF yy, x
  <2>16. yy.rule = u
    BY ZenonT(40), <1>3, <2>3, <2>11, <2>12, <2>13, <2>14, <2>15, RuleEqual
  <2>17. Proper(d)
    BY <1>0, <2>13 DEF Proper
  <2>18. At(s, yy, v, d, w)
    BY <1>0, <1>3, <2>1, <2>2, <2>6, <2>8, <2>10, <2>16, <2>17 DEF At, InRecord
  <2> QED BY <2>8, <2>18 DEF StepTo, yy, x
<1>9. CASE c \in {"brace"} \cup InRecord
  <2>1. AtRecord(c, y, Then(l, v), u, w) /\ y.nt.name = d.name /\ y.nt.coord = d.coord
    BY <1>9 DEF At, InRecord
  <2>2. y.ref \in Reference /\ y.rule \in Rule
    BY <1>9 DEF PointersLeft, RefStates, RuleStates, InRecord, Registers
  <2>3. ~Broken(s, x) /\ At(s, yy, v, d, w)
    BY <1>0, <1>9, <2>1, <2>2, RecordStep
  <2> QED BY <2>3 DEF StepTo
<1>10. c \notin {"link_size", "close", "oftype", "done"}
  BY EdgeTargets DEF Types, Complete
<1> QED BY <1>0, <1>4, <1>5, <1>6, <1>7, <1>8, <1>9, <1>10, StateList DEF Outside, Tight, InRecord

-----------------------------------------------------------------------------
\* A definition begins with its name.
LEMMA FirstStep ==
    ASSUME NEW d \in Definition, Formed(d), NEW w \in Seq(Lexeme), NEW x \in Registers,
           NEW l \in Lexeme, NEW v \in Seq(Lexeme), DefThen(d, w) = Then(l, v), l.k \in Types
    PROVE  /\ ~Broken("defname", Enter(l, x))
           /\ At("defname", Leave("defname", Enter(l, x)), v, d, w)
<1> DEFINE xx == Enter(l, x)
           y == Leave("defname", xx)
<1>1. d.name \in Ident \cup Builtin \cup {Empty}
  BY DEF Definition
<1>2. "::=" \in Signs /\ AssignThen(d, w) \in Seq(Lexeme) /\ Then(Key("::="), AssignThen(d, w)) \in Seq(Lexeme)
  BY DefLexemesThen DEF Signs
<1>3. d.name # Empty /\ l.v = d.name /\ v = Then(Key("::="), AssignThen(d, w))
  <2>1. d.name = Empty => Then(Key("::="), AssignThen(d, w)) = Then(l, v)
    BY DEF DefThen, NameThen
  <2>2. d.name # Empty
    <3>1. d.name = Empty => l.k = "::="
      BY <1>2, <2>1, HeadFacts
    <3> QED BY <3>1 DEF Types
  <2>3. NameThen(d.name, Then(Key("::="), AssignThen(d, w))) = Then(l, v)
    BY DEF DefThen
  <2> QED BY <1>1, <1>2, <2>2, <2>3, HeadFacts
<1>4. xx.ident = d.name /\ d.name # Null
  BY <1>1, <1>3, EnterFacts, ParserAssumption DEF Types
<1>5. y = xx
  BY <1>4 DEF Leave, EndIdent
<1>6. ~Broken("defname", xx)
  BY DEF Broken
<1>7. "defname" \in States \ Outside
  BY StateList DEF Tight, Outside
<1> HIDE DEF xx, y
<1>8. At("defname", y, v, d, w)
  BY <1>3, <1>4, <1>5, <1>7 DEF At, InRecord
<1> QED BY <1>6, <1>8 DEF xx, y

\* Blanks and comments change nothing.
LEMMA AtBlank ==
    ASSUME NEW c, NEW y, NEW R, NEW d, NEW w, At(c, y, R, d, w)
    PROVE  At(AfterBlank(c), y, R, d, w)
<1> DEFINE s == AfterBlank(c)
<1>1. c \in States \ Outside
  BY DEF At
<1>2. s \in States \ Outside
  BY <1>1, StateList, BlankEdges DEF AfterBlank, Outside, Tight
<1>3. CASE c \notin Tight
  BY <1>1, <1>3, BlankEdges
<1>4. CASE c \in {"defname", "assign", "link", "SEQUENCE", "SET", "CHOICE", "OF",
                  "link_size", "close", "oftype"}
  <2>1. CASE c \in {"SEQUENCE", "SET", "CHOICE"}
    <3>1. s = IF c = "CHOICE" THEN "choice" ELSE "record"
      BY <2>1 DEF AfterBlank
    <3>2. AtHead(c, y, R, d.rule, w)
      BY <2>1 DEF At
    <3> HIDE DEF s
    <3>3. AtHead(s, y, R, d.rule, w)
      BY <2>1, <3>1, <3>2 DEF AtHead
    <3> QED BY <1>2, <2>1, <3>1, <3>3 DEF At, InRecord, s
  <2>2. CASE c \in {"defname", "assign", "link", "OF"}
    <3>1. s = IF c = "defname" THEN "defname_ws" ELSE IF c = "assign" THEN "rhs"
              ELSE IF c = "link" THEN "link_ws" ELSE "of"
      BY <2>2 DEF AfterBlank
    <3> HIDE DEF s
    <3> QED BY <1>2, <2>2, <3>1 DEF At, InRecord, s
  <2>3. CASE c \in {"link_size", "close", "oftype"}
    <3>1. s = "done"
      BY <2>3 DEF AfterBlank
    <3> HIDE DEF s
    <3> QED BY <1>2, <2>3, <3>1 DEF At, InRecord, s
  <2> QED BY <1>4, <2>1, <2>2, <2>3
<1>5. CASE c \in {"brace", "comma", "fname", "ftype", "fsize", "fopt", "fext"}
  <2>1. AtRecord(c, y, R, d.rule, w)
    BY <1>5 DEF At, InRecord
  <2>2. s = IF c \in {"brace", "comma"} THEN "field" ELSE IF c = "fname" THEN "fname_ws"
            ELSE IF c = "ftype" THEN "ftype_ws" ELSE IF c = "fsize" THEN "fsize_ws" ELSE "fend"
    BY <1>5 DEF AfterBlank
  <2> HIDE DEF s
  <2>3. AtMarker(c, y, R, d.rule, w) => AtMarker(s, y, R, d.rule, w)
    BY <1>5, <2>2 DEF AtMarker
  <2>4. \A f, r, z : InItem(c, f, R, r, z) => InItem(s, f, R, r, z)
    BY <1>5, <2>2 DEF InItem
  <2>5. ASSUME NEW j, AtItem(c, y, R, d.rule, w, j) PROVE AtItem(s, y, R, d.rule, w, j)
    <3>1. c \in {"brace", "comma", "field"} => s \in {"brace", "comma", "field"}
      BY <1>5, <2>2
    <3> QED BY <2>4, <2>5, <3>1 DEF AtItem
  <2>6. AtRecord(s, y, R, d.rule, w)
    <3>1. c \in {"brace", "field"} => s \in {"brace", "field"}
      BY <1>5, <2>2
    <3> QED BY <2>1, <2>3, <2>5, <3>1 DEF AtRecord
  <2> QED BY <1>2, <1>5, <2>2, <2>6 DEF At, InRecord, s
<1> QED BY <1>1, <1>3, <1>4, <1>5 DEF Tight, Outside

\* type_ident and last are not needed but for the name of a definition.
LEMMA AtForgets ==
    ASSUME NEW c, NEW y, NEW R, NEW d, NEW w, At(c, y, R, d, w),
           c \notin {"defname", "defname_ws"},
           NEW yy, yy.nt = y.nt, yy.rule = y.rule, yy.ref = y.ref
    PROVE  At(c, yy, R, d, w)
<1>1. AtLink(y, R, d.rule, w) => AtLink(yy, R, d.rule, w)
  BY DEF AtLink
<1>2. AtHead(c, y, R, d.rule, w) => AtHead(c, yy, R, d.rule, w)
  BY DEF AtHead
<1>3. AtList(y, R, d.rule, w) => AtList(yy, R, d.rule, w)
  BY DEF AtList
<1>4. AtRecord(c, y, R, d.rule, w) => AtRecord(c, yy, R, d.rule, w)
  <2>1. \A j : AtItem(c, y, R, d.rule, w, j) => AtItem(c, yy, R, d.rule, w, j)
    BY DEF AtItem
  <2>2. AtMarker(c, y, R, d.rule, w) => AtMarker(c, yy, R, d.rule, w)
    BY DEF AtMarker
  <2> QED BY <2>1, <2>2 DEF AtRecord
<1> QED BY <1>1, <1>2, <1>3, <1>4 DEF At

\* The definition is complete.
Finished == {"link", "link_ws", "link_size", "close", "oftype", "done"}

\* ... and it is the one that was declared.
LEMMA Completed ==
    ASSUME NEW d \in Definition, Formed(d), NEW w, Follows(w), NEW c \in Finished, NEW y, NEW R,
           At(c, y, R, d, w), R = <<>> \/ \E l \in Lexeme, v \in Seq(Lexeme) : R = Then(l, v) /\ l.k # "size"
    PROVE  /\ R = w /\ y.rule = d.rule /\ Proper(d)
           /\ y.nt.name = d.name /\ y.nt.coord = d.coord
<1>1. y.nt.name = d.name /\ y.nt.coord = d.coord /\ d.name # Empty
  BY DEF At, Finished
<1>2. CASE c \notin {"link", "link_ws"}
  BY <1>1, <1>2 DEF At, Finished
<1>3. CASE c \in {"link", "link_ws"}
  <2>1. AtLink(y, R, d.rule, w)
    BY <1>3 DEF At
  <2>2. PICK n \in Ident \cup Builtin, a \in Constraint \cup {Null} :
           /\ d.rule.refs = <<[NewReference(n) EXCEPT !.cons = a]>>
           /\ y.rule = LinkTo(n) /\ R = ValueThen("size", a, w)
    BY <2>1 DEF AtLink
  <2>3. w \in Seq(Lexeme) /\ d.rule.type = "LINK" /\ d.rule \in Rule /\ d.rule.ext = FALSE
    BY <2>1, FormedReference DEF Follows, AtLink, Rule
  <2>4. a = Null
    <3>1. CASE R = <<>>
      <4>1. ASSUME a # Null PROVE R # <<>>
        BY <2>2, <2>3, <4>1, KeyTyped, ThenFacts DEF ValueThen
      <4> QED BY <3>1, <4>1
    <3>2. CASE R # <<>>
      <4>1. PICK l \in Lexeme, v \in Seq(Lexeme) : R = Then(l, v) /\ l.k # "size"
        BY <3>2
      <4> QED BY <2>2, <2>3, <4>1, HeadFacts
    <3> QED BY <3>1, <3>2
  <2>5. R = w
    BY <2>2, <2>4 DEF ValueThen
  <2>6. [NewReference(n) EXCEPT !.cons = a] = NewReference(n)
    <3>1. \A r \in Reference : r.cons = Null => [r EXCEPT !.cons = Null] = r
      BY DEF Reference
    <3>2. NewReference(n) \in Reference /\ NewReference(n).cons = Null
      BY NewTyped DEF NewReference
    <3> QED BY <2>4, <3>1, <3>2
  <2>7. LinkTo(n) \in Rule
    BY NewTyped DEF LinkTo, Rule, RuleTypes
  <2>8. y.rule = d.rule
    <3>1. LinkTo(n).type = "LINK" /\ LinkTo(n).refs = <<NewReference(n)>> /\ LinkTo(n).ext = FALSE
      BY DEF LinkTo
    <3> QED BY ZenonT(40), <2>2, <2>3, <2>6, <2>7, <3>1, RuleEqual
  <2>9. Proper(d)
    BY <1>1, <2>3 DEF Proper
  <2> QED BY <1>1, <2>5, <2>8, <2>9
<1> QED BY <1>2, <1>3

-----------------------------------------------------------------------------
\* What comes next can be read, or the definition is not proper.
LEMMA ItemHeads ==
    ASSUME NEW r \in Reference, NEW z \in Seq(Lexeme), r.symbol # Empty, NEW c, NEW f,
           NEW l \in Lexeme, NEW v \in Seq(Lexeme), InItem(c, f, Then(l, v), r, z),
           z = Then(l, v) => l.k \in {"comma", "close"}
    PROVE  /\ c \in {"fname", "fname_ws"} => l.k \in {"tag"} \cup Types
           /\ c = "ftag" => l.k \in Types
           /\ c \in {"ftype", "ftype_ws"} => l.k \in {"size", "OPTIONAL", "comma", "close"}
           /\ c \in {"fsize", "fsize_ws"} => l.k \in {"OPTIONAL", "comma", "close"}
           /\ c \in {"fopt", "fend"} => l.k \in {"comma", "close"}
<1>1. /\ r.name \in Field \cup {Empty} /\ r.symbol \in Ident \cup Builtin \cup {Empty}
      /\ r.coord \in Tag \cup {Null} /\ r.cons \in Constraint \cup {Null} /\ r.opt \in BOOLEAN
  BY DEF Reference
<1>2. OptThen(r.opt, z) \in Seq(Lexeme) /\ SizeThen(r, z) \in Seq(Lexeme) /\ SymbolThen(r, z) \in Seq(Lexeme)
  BY RefLexemesThen
<1>3. OptThen(r.opt, z) = Then(l, v) => l.k \in {"OPTIONAL", "comma", "close"}
  BY <1>1, HeadFacts
<1>4. SizeThen(r, z) = Then(l, v) => l.k \in {"size", "OPTIONAL", "comma", "close"}
  <2>1. SizeThen(r, z) = Then(l, v) => l.k = "size" \/ OptThen(r.opt, z) = Then(l, v)
    BY <1>1, <1>2, HeadFacts DEF SizeThen
  <2> QED BY <1>3, <2>1
<1>5. SymbolThen(r, z) = Then(l, v) => l.k \in Types
  BY <1>1, <1>2, HeadFacts DEF SymbolThen
<1>6. TagThen(r, z) = Then(l, v) => l.k = "tag" \/ l.k \in Types
  <2>1. TagThen(r, z) = Then(l, v) => l.k = "tag" \/ SymbolThen(r, z) = Then(l, v)
    BY <1>1, <1>2, HeadFacts DEF TagThen
  <2> QED BY <1>5, <2>1
<1> QED BY <1>3, <1>4, <1>5, <1>6 DEF InItem

Leading(c, k) == \E s \in States : <<c, k, s>> \in Edges

\* An edge leads on.
LEMMA LeadingThere ==
    ASSUME NEW c, NEW k, NEW s, <<c, k, s>> \in Edges PROVE Leading(c, k)
<1>1. s = <<c, k, s>>[3]
  OBVIOUS
<1>2. s \in States
  BY <1>1 DEF States
<1> QED BY <1>2 DEF Leading

\* All edges that a declared definition needs.
LEMMA LeadingEdges ==
    /\ Leading("top", "header")
    /\ \A c \in {"top", "list", "done", "link_ws"} : \A k \in Types : Leading(c, k)
    /\ \A c \in {"done", "link_ws"} : Leading(c, "END")
    /\ Leading("defname_ws", "::=")
    /\ Leading("rhs", "tag")
    /\ \A c \in {"rhs", "rhs_tag"} : /\ \A k \in Types : Leading(c, k)
                                     /\ \A k \in {"SEQUENCE", "SET", "CHOICE"} : Leading(c, k)
    /\ Leading("link_ws", "size")
    /\ \A c \in {"record", "choice"} : Leading(c, "brace")
    /\ Leading("record", "OF")
    /\ Leading("field", "name") /\ Leading("field", "...")
    /\ Leading("fname_ws", "tag")
    /\ \A c \in {"fname_ws", "ftag"} : \A k \in Types : Leading(c, k)
    /\ Leading("ftype_ws", "size")
    /\ \A c \in {"ftype_ws", "fsize_ws"} : Leading(c, "OPTIONAL")
    /\ \A c \in {"ftype", "ftype_ws", "fsize", "fsize_ws", "fopt", "fend", "fext"} :
          Leading(c, "comma")
    /\ \A c \in {"ftype_ws", "fsize_ws", "fend"} : Leading(c, "close")
    /\ \A k \in Types : Leading("of", k)
<1>1. /\ Leading("top", "header")
      /\ \A c \in {"top", "list", "done", "link_ws"} : \A k \in Types : Leading(c, k)
      /\ \A c \in {"done", "link_ws"} : Leading(c, "END")
      /\ Leading("defname_ws", "::=")
  BY EdgesThere, LeadingThere
<1>2. /\ Leading("rhs", "tag")
      /\ \A c \in {"rhs", "rhs_tag"} : /\ \A k \in Types : Leading(c, k)
                                       /\ \A k \in {"SEQUENCE", "SET", "CHOICE"} : Leading(c, k)
      /\ Leading("link_ws", "size")
      /\ \A c \in {"record", "choice"} : Leading(c, "brace")
  BY ZenonT(40), EdgesThere, LeadingThere
<1>3. /\ Leading("record", "OF")
      /\ Leading("field", "name") /\ Leading("field", "...")
      /\ Leading("fname_ws", "tag")
      /\ \A c \in {"fname_ws", "ftag"} : \A k \in Types : Leading(c, k)
  BY ZenonT(40), EdgesThere, LeadingThere
<1>4. /\ Leading("ftype_ws", "size")
      /\ \A c \in {"ftype_ws", "fsize_ws"} : Leading(c, "OPTIONAL")
      /\ \A c \in {"ftype", "ftype_ws", "fsize", "fsize_ws", "fopt", "fend", "fext"} :
            Leading(c, "comma")
      /\ \A c \in {"ftype_ws", "fsize_ws", "fend"} : Leading(c, "close")
  BY EdgesThere, LeadingThere
<1>5. /\ \A k \in Types : Leading("of", k)
  BY EdgesThere, LeadingThere
<1> QED BY <1>1, <1>2, <1>3, <1>4, <1>5

\* Within a record.
LEMMA RecordProgress ==
    ASSUME NEW d \in Definition, Formed(d), NEW w \in Seq(Lexeme),
           NEW c \in {"brace"} \cup InRecord, NEW y,
           NEW l \in Lexeme, NEW v \in Seq(Lexeme), AtRecord(c, y, Then(l, v), d.rule, w),
           c \in Tight => l.k = "comma"
    PROVE  Leading(c, l.k) \/ ~Proper(d)
<1> DEFINE u == d.rule
           Z(j) == Items(u.refs, EndThen(u, w), j + 1)
<1>1. u \in Rule /\ u.refs \in Seq(Reference) /\ Len(u.refs) \in Nat /\ u.type \in RecordTypes
      /\ DOMAIN u.refs = 1..Len(u.refs)
  <2>1. u \in Rule /\ u.refs \in Seq(Reference)
    BY FormedReference DEF Rule
  <2> QED BY <2>1, LenProperties DEF AtRecord
<1>2. ASSUME NEW j \in 1..Len(u.refs), u.refs[j].name = Empty PROVE ~Proper(d)
  BY <1>1, <1>2 DEF Proper, RecordTypes
<1>3. CASE u.refs = <<>>
  BY <1>1, <1>3 DEF Proper, RecordTypes
<1>4. CASE AtMarker(c, y, Then(l, v), u, w)
  <2>1. \/ c \in {"comma", "field"} /\ l.k = "..."
        \/ c \in {"fext", "fend"} /\ l.k = "close"
    BY <1>4, MarkerHead DEF AtMarker
  <2>2. c \in {"field", "fend"}
    BY <2>1 DEF Tight
  <2> QED BY <2>1, <2>2, LeadingEdges
<1>5. ASSUME NEW j \in 1..Len(u.refs), AtItem(c, y, Then(l, v), u, w, j)
      PROVE  Leading(c, l.k) \/ ~Proper(d)
  <2>1. CASE c \in {"brace", "comma", "field"} /\ RefThen(u.refs[j], Z(j)) = Then(l, v)
    <3>1. l.k = "name" \/ u.refs[j].name = Empty
      BY <1>1, <2>1, ItemHead
    <3>2. CASE l.k = "name"
      <4>1. c = "field"
        BY <2>1, <3>2 DEF Tight
      <4> QED BY <3>2, <4>1, LeadingEdges
    <3> QED BY <1>2, <3>1, <3>2
  <2>2. CASE u.refs[j].name # Empty /\ InItem(c, y.ref, Then(l, v), u.refs[j], Z(j))
    <3> DEFINE f == y.ref
    <3>1. ASSUME NEW r \in Reference, NEW z \in Seq(Lexeme), r.symbol # Empty,
                 InItem(c, f, Then(l, v), r, z), z = Then(l, v) => l.k \in {"comma", "close"}
          PROVE  Leading(c, l.k)
      <4> HIDE DEF f
      <4>1. c \in {"fname", "fname_ws", "ftag", "ftype", "ftype_ws", "fsize", "fsize_ws", "fopt", "fend"}
        BY <3>1, ItemStates
      <4>2. /\ c \in {"fname", "fname_ws"} => l.k \in {"tag"} \cup Types
            /\ c = "ftag" => l.k \in Types
            /\ c \in {"ftype", "ftype_ws"} => l.k \in {"size", "OPTIONAL", "comma", "close"}
            /\ c \in {"fsize", "fsize_ws"} => l.k \in {"OPTIONAL", "comma", "close"}
            /\ c \in {"fopt", "fend"} => l.k \in {"comma", "close"}
        BY <3>1, ItemHeads
      <4>3. CASE c \in Tight
        <5>1. l.k = "comma" /\ c \in {"ftype", "fsize", "fopt"}
          BY <4>1, <4>2, <4>3 DEF Tight, Types
        <5> QED BY <5>1, LeadingEdges
      <4>4. CASE c \notin Tight
        <5>1. c \in {"fname_ws", "ftag", "ftype_ws", "fsize_ws", "fend"}
          BY <4>1, <4>4 DEF Tight
        <5>2. CASE c \in {"fname_ws", "ftag"}
          BY <4>2, <5>2, LeadingEdges
        <5>3. CASE c \in {"ftype_ws", "fsize_ws", "fend"}
          BY <4>2, <5>3, LeadingEdges
        <5> QED BY <5>1, <5>2, <5>3
      <4> QED BY <4>3, <4>4
    <3>2. u.refs[j] \in Reference /\ j + 1 \in 1..Len(u.refs) + 1
      BY <1>1, ElementOfSeq
    <3>3. Z(j) \in Seq(Lexeme)
      BY <1>1, <3>2, EndTyped
    <3>4. Z(j) = Then(l, v) => l.k \in {"comma", "close"}
      BY <1>1, BehindItem
    <3>5. u.refs[j].symbol # Empty
      BY <1>1, <2>2, FormedReference
    <3> HIDE DEF f, Z
    <3> QED BY <2>2, <3>1, <3>2, <3>3, <3>4, <3>5 DEF f
  <2> QED BY <1>5, <2>1, <2>2 DEF AtItem
<1> QED BY <1>3, <1>4, <1>5 DEF AtRecord

\* Within a definition the next lexeme has an edge, unless the definition is not
\* proper or at its end.
LEMMA Progress ==
    ASSUME NEW d \in Definition, Formed(d), NEW w, Follows(w), NEW c, NEW y,
           NEW l \in Lexeme, NEW v \in Seq(Lexeme), At(c, y, Then(l, v), d, w),
           c \in Tight => l.k = "comma"
    PROVE  \/ Leading(c, l.k)
           \/ ~Proper(d)
           \/ c \in Complete /\ l.k # "size"
<1> DEFINE u == d.rule
<1>0. w \in Seq(Lexeme) /\ c \in States \ Outside
  BY DEF Follows, At
<1>1. CASE c \in {"defname", "defname_ws"}
  <2>1. Then(Key("::="), AssignThen(d, w)) = Then(l, v)
    BY <1>1 DEF At
  <2>2. l.k = "::="
    <3>1. "::=" \in Signs /\ AssignThen(d, w) \in Seq(Lexeme)
      BY <1>0, DefLexemesThen DEF Signs
    <3> QED BY <2>1, <3>1, HeadFacts
  <2>3. c = "defname_ws"
    BY <1>1, <2>2 DEF Tight
  <2> QED BY <2>2, <2>3, LeadingEdges
<1>2. ASSUME RuleThen(u, w) = Then(l, v) PROVE l.k \in Types \cup {"SEQUENCE", "SET", "CHOICE"}
  <2>1. \/ l.k \in Types
        \/ l.k = ListWord(u.type)
        \/ l.k = RecordWord(u.type)
    BY <1>0, <1>2, RuleHead
  <2> QED BY <2>1 DEF ListWord, RecordWord
<1>3. CASE c \in {"assign", "rhs"}
  <2>1. ValueThen("tag", d.coord, RuleThen(u, w)) = Then(l, v)
    BY <1>3 DEF At, AssignThen
  <2>2. RuleThen(u, w) \in Seq(Lexeme) /\ d.coord \in Tag \cup {Null}
    BY <1>0, DefLexemesThen DEF Definition
  <2>3. l.k = "tag" \/ RuleThen(u, w) = Then(l, v)
    BY <2>1, <2>2, HeadFacts
  <2>4. l.k \in {"tag", "SEQUENCE", "SET", "CHOICE"} \cup Types
    BY <1>2, <2>3
  <2>5. c = "rhs"
    BY <1>3, <2>4 DEF Tight, Types
  <2> QED BY <2>4, <2>5, LeadingEdges
<1>4. CASE c = "rhs_tag"
  <2>1. l.k \in {"SEQUENCE", "SET", "CHOICE"} \cup Types
    BY <1>2, <1>4 DEF At
  <2> QED BY <1>4, <2>1, LeadingEdges
<1>5. CASE c \in {"link", "link_ws"}
  <2>1. l.k = "size" \/ l.k \in Types \cup {"::=", "END"}
    <3>1. AtLink(y, Then(l, v), u, w)
      BY <1>5 DEF At
    <3>2. PICK a \in Constraint \cup {Null} : Then(l, v) = ValueThen("size", a, w)
      BY <3>1 DEF AtLink
    <3>3. l.k = "size" \/ w = Then(l, v)
      BY <1>0, <3>2, HeadFacts
    <3> QED BY <3>3 DEF Follows
  <2>2. c = "link_ws"
    BY <1>5, <2>1 DEF Tight, Types
  <2> QED BY <2>2, LeadingEdges DEF Complete
<1>6. CASE c \in {"SEQUENCE", "SET", "CHOICE", "record", "choice"}
  <2>1. AtHead(c, y, Then(l, v), u, w)
    BY <1>6 DEF At
  <2>2. u \in Rule /\ u.refs \in Seq(Reference) /\ Len(u.refs) \in Nat
    <3>1. u \in Rule /\ u.refs \in Seq(Reference)
      BY FormedReference DEF Rule
    <3> QED BY <3>1, LenProperties
  <2>3. CASE Then(l, v) = Then(Key("brace"), Items(u.refs, EndThen(u, w), 1))
    <3>1. "brace" \in Signs /\ Items(u.refs, EndThen(u, w), 1) \in Seq(Lexeme)
      <4>1. 1 \in 1..Len(u.refs) + 1
        BY <2>2
      <4> QED BY <1>0, <2>2, <4>1, EndTyped DEF Signs
    <3>2. l.k = "brace"
      BY <2>3, <3>1, HeadFacts
    <3>3. c \in {"record", "choice"}
      BY <1>6, <3>2 DEF Tight
    <3> QED BY <3>2, <3>3, LeadingEdges
  <2>4. CASE u.type \in {"LIST", "SET"} /\ Then(l, v) = Then(Key("OF"), RefThen(u.refs[1], w))
    <3>1. Len(u.refs) = 1
      BY <2>4, FormedReference
    <3>2. u.refs[1] \in Reference
      BY <2>2, <3>1, ElementOfSeq
    <3>3. RefThen(u.refs[1], w) \in Seq(Lexeme) /\ "OF" \in Signs
      BY <1>0, <3>2, RefLexemesThen DEF Signs
    <3>4. l.k = "OF"
      BY <2>4, <3>3, HeadFacts
    <3>5. c = "record"
      BY <1>6, <2>1, <2>4, <3>4 DEF Tight, AtHead
    <3> QED BY <3>4, <3>5, LeadingEdges
  <2> QED BY <2>1, <2>3, <2>4 DEF AtHead
<1>7. CASE c \in {"OF", "of"}
  <2>1. AtList(y, Then(l, v), u, w)
    BY <1>7 DEF At
  <2>2. PICK n \in Ident \cup Builtin : u.refs = <<NewReference(n)>>
    BY <2>1, FormedReference DEF AtList
  <2>3. u.refs[1] = NewReference(n)
    BY <2>2
  <2>4. NameThen(n, w) = Then(l, v)
    BY <1>0, <2>1, <2>3, PlainReference DEF AtList
  <2>5. l.k \in Types
    BY <1>0, <2>4, HeadFacts, ParserAssumption
  <2>6. c = "of"
    BY <1>7, <2>5 DEF Tight, Types
  <2> QED BY <2>5, <2>6, LeadingEdges
<1>8. CASE c \in {"brace"} \cup InRecord
  <2>1. AtRecord(c, y, Then(l, v), u, w)
    BY <1>8 DEF At
  <2> QED BY <1>0, <1>8, <2>1, RecordProgress
<1>9. CASE c \in {"link_size", "close", "oftype", "done"}
  <2>1. w = Then(l, v)
    BY <1>9 DEF At
  <2>2. l.k \in Types \cup {"::=", "END"}
    BY <2>1 DEF Follows
  <2>3. c = "done"
    BY <1>9, <2>2 DEF Tight, Types
  <2> QED BY <2>2, <2>3 DEF Complete, Types
<1> QED BY <1>0, <1>1, <1>3, <1>4, <1>5, <1>6, <1>7, <1>8, <1>9, StateList DEF Outside, Tight, InRecord

\* A text does not end within a definition.
LEMMA NotEmpty ==
    ASSUME NEW w \in Seq(Lexeme)
    PROVE  /\ \A k \in Signs : Then(Key(k), w) # <<>>
           /\ \A n \in Ident \cup Builtin : NameThen(n, w) # <<>>
           /\ w # <<>> =>
                /\ \A x \in Tag \cup {Null} : ValueThen("tag", x, w) # <<>>
                /\ \A x \in Constraint \cup {Null} : ValueThen("size", x, w) # <<>>
                /\ \A n \in Field \cup {Empty} : FieldThen(n, w) # <<>>
                /\ \A n \in Ident \cup Builtin \cup {Empty} : NameThen(n, w) # <<>>
                /\ \A b \in BOOLEAN : OptThen(b, w) # <<>>
<1>1. \A l \in Lexeme : Then(l, w) # <<>>
  BY ThenFacts
<1>2. \A k \in Signs : Then(Key(k), w) # <<>>
  BY <1>1, KeyTyped
<1>3. \A n \in Ident \cup Builtin : NameThen(n, w) # <<>>
  BY <1>1, KeyTyped, ParserAssumption DEF NameThen
<1>4. \A x \in Tag \cup {Null} : w # <<>> => ValueThen("tag", x, w) # <<>>
  BY <1>1, KeyTyped DEF ValueThen
<1>5. \A x \in Constraint \cup {Null} : w # <<>> => ValueThen("size", x, w) # <<>>
  BY <1>1, KeyTyped DEF ValueThen
<1>6. \A n \in Field \cup {Empty} : w # <<>> => FieldThen(n, w) # <<>>
  BY <1>1, KeyTyped DEF FieldThen
<1>7. \A n \in Ident \cup Builtin \cup {Empty} : w # <<>> => NameThen(n, w) # <<>>
  BY <1>1, KeyTyped DEF NameThen
<1>8. \A b \in BOOLEAN : w # <<>> => OptThen(b, w) # <<>>
  BY <1>1, KeyTyped DEF OptThen, Signs
<1> QED BY <1>2, <1>3, <1>4, <1>5, <1>6, <1>7, <1>8

\* Something is left of a reference if something is behind it.
LEMMA ItemNotEmpty ==
    ASSUME NEW r \in Reference, NEW z \in Seq(Lexeme), z # <<>>
    PROVE  /\ OptThen(r.opt, z) # <<>> /\ SizeThen(r, z) # <<>> /\ SymbolThen(r, z) # <<>>
           /\ TagThen(r, z) # <<>> /\ RefThen(r, z) # <<>>
<1>1. /\ r.name \in Field \cup {Empty} /\ r.symbol \in Ident \cup Builtin \cup {Empty}
      /\ r.coord \in Tag \cup {Null} /\ r.cons \in Constraint \cup {Null} /\ r.opt \in BOOLEAN
  BY DEF Reference
<1>2. /\ OptThen(r.opt, z) \in Seq(Lexeme) /\ SizeThen(r, z) \in Seq(Lexeme)
      /\ SymbolThen(r, z) \in Seq(Lexeme) /\ TagThen(r, z) \in Seq(Lexeme)
  BY RefLexemesThen
<1>3. OptThen(r.opt, z) # <<>>
  BY <1>1, NotEmpty
<1>4. SizeThen(r, z) # <<>>
  BY <1>1, <1>2, <1>3, NotEmpty DEF SizeThen
<1>5. SymbolThen(r, z) # <<>>
  BY <1>1, <1>2, <1>4, NotEmpty DEF SymbolThen
<1>6. TagThen(r, z) # <<>>
  BY <1>1, <1>2, <1>5, NotEmpty DEF TagThen
<1>7. RefThen(r, z) # <<>>
  BY <1>1, <1>2, <1>6, NotEmpty DEF RefThen
<1> QED BY <1>3, <1>4, <1>5, <1>6, <1>7

\* If nothing is left of a text the definition read last is complete.
LEMMA Within ==
    ASSUME NEW d \in Definition, Formed(d), NEW w \in Seq(Lexeme), NEW c, NEW y,
           At(c, y, <<>>, d, w)
    PROVE  c \in Finished
<1> DEFINE u == d.rule
<1>0. c \in States \ Outside
  BY DEF At
<1>1. u \in Rule /\ u.refs \in Seq(Reference) /\ Len(u.refs) \in Nat /\ 1 \in 1..Len(u.refs) + 1
  <2>1. u \in Rule /\ u.refs \in Seq(Reference)
    BY FormedReference DEF Rule
  <2> QED BY <2>1, LenProperties
<1>2. /\ "::=" \in Signs /\ "OF" \in Signs /\ "brace" \in Signs /\ "comma" \in Signs
      /\ "close" \in Signs /\ "..." \in Signs
  BY DEF Signs
<1>3. RuleThen(u, w) # <<>>
  <2>1. CASE u.type = "LINK"
    <3>1. PICK n \in Ident \cup Builtin, a \in Constraint \cup {Null} :
             u.refs = <<[NewReference(n) EXCEPT !.cons = a]>>
      BY <2>1, FormedReference
    <3>2. u.refs[1] = [NewReference(n) EXCEPT !.cons = a]
      BY <3>1
    <3>3. RuleThen(u, w) = NameThen(n, ValueThen("size", a, w))
      BY <2>1, <3>2, PlainReference DEF RuleThen
    <3>4. ValueThen("size", a, w) \in Seq(Lexeme)
      BY PiecesThen
    <3> QED BY <3>3, <3>4, NotEmpty
  <2>2. CASE u.type \in {"LIST", "SET"}
    <3>1. Len(u.refs) = 1
      BY <2>2, FormedReference
    <3>2. u.refs[1] \in Reference
      BY <1>1, <3>1, ElementOfSeq
    <3>3. RefThen(u.refs[1], w) \in Seq(Lexeme) /\ ListWord(u.type) \in Signs
      BY <3>2, RefLexemesThen DEF Signs, ListWord
    <3>4. Then(Key("OF"), RefThen(u.refs[1], w)) \in Seq(Lexeme)
      BY <1>2, <3>3, KeyThen
    <3> QED BY <2>2, <3>3, <3>4, NotEmpty DEF RuleThen
  <2>3. CASE u.type \in RecordTypes
    <3>1. Items(u.refs, EndThen(u, w), 1) \in Seq(Lexeme) /\ RecordWord(u.type) \in Signs
      BY <1>1, EndTyped DEF Signs, RecordWord
    <3>2. Then(Key("brace"), Items(u.refs, EndThen(u, w), 1)) \in Seq(Lexeme)
      BY <1>2, <3>1, KeyThen
    <3> QED BY <2>3, <3>1, <3>2, NotEmpty DEF RuleThen, RecordTypes
  <2> QED BY <2>1, <2>2, <2>3, FormedReference
<1>4. c \notin {"defname", "defname_ws"}
  <2>1. Then(Key("::="), AssignThen(d, w)) # <<>>
    BY <1>2, DefLexemesThen, NotEmpty
  <2> QED BY <2>1 DEF At
<1>5. c \notin {"assign", "rhs", "rhs_tag"}
  <2>1. RuleThen(u, w) \in Seq(Lexeme) /\ d.coord \in Tag \cup {Null}
    BY DefLexemesThen DEF Definition
  <2>2. AssignThen(d, w) # <<>>
    BY <1>3, <2>1, NotEmpty DEF AssignThen
  <2> QED BY <1>3, <2>2 DEF At
<1>6. c \notin {"SEQUENCE", "SET", "CHOICE", "record", "choice"}
  <2>1. Then(Key("brace"), Items(u.refs, EndThen(u, w), 1)) # <<>>
    BY <1>1, <1>2, EndTyped, NotEmpty
  <2>2. u.type \in {"LIST", "SET"} => Then(Key("OF"), RefThen(u.refs[1], w)) # <<>>
    <3> SUFFICES ASSUME u.type \in {"LIST", "SET"}
                 PROVE  Then(Key("OF"), RefThen(u.refs[1], w)) # <<>>
      OBVIOUS
    <3>1. Len(u.refs) = 1
      BY FormedReference
    <3>2. u.refs[1] \in Reference
      BY <1>1, <3>1, ElementOfSeq
    <3>3. RefThen(u.refs[1], w) \in Seq(Lexeme)
      BY <3>2, RefLexemesThen
    <3> QED BY <1>2, <3>3, NotEmpty
  <2> QED BY <2>1, <2>2 DEF At, AtHead
<1>7. c \notin {"OF", "of"}
  <2>1. ASSUME AtList(y, <<>>, u, w) PROVE FALSE
    <3>1. PICK n \in Ident \cup Builtin : u.refs = <<NewReference(n)>>
      BY <2>1, FormedReference DEF AtList
    <3>2. u.refs[1] = NewReference(n)
      BY <3>1
    <3>3. NameThen(n, w) = <<>>
      BY <2>1, <3>2, PlainReference DEF AtList
    <3> QED BY <3>3, NotEmpty
  <2> QED BY <2>1 DEF At
<1>8. c \notin {"brace"} \cup InRecord
  <2>1. ASSUME AtRecord(c, y, <<>>, u, w) PROVE FALSE
    <3>1. Then(Key("close"), w) # <<>> /\ Then(Key("close"), w) \in Seq(Lexeme)
      BY <1>2, KeyThen, NotEmpty
    <3>2. Then(Key("..."), Then(Key("close"), w)) # <<>> /\ Then(Key("..."), Then(Key("close"), w)) \in Seq(Lexeme)
      BY <1>2, <3>1, KeyThen, NotEmpty
    <3>3. EndThen(u, w) # <<>>
      <4>1. Then(Key("comma"), Then(Key("..."), Then(Key("close"), w))) # <<>>
        BY <1>2, <3>2, NotEmpty
      <4> QED BY <1>1, <3>1, <4>1, EndTyped
    <3>4. ASSUME NEW j \in 1..Len(u.refs) PROVE ~AtItem(c, y, <<>>, u, w, j)
      <4> DEFINE z == Items(u.refs, EndThen(u, w), j + 1)
                 r == u.refs[j]
      <4>1. r \in Reference /\ j + 1 \in 1..Len(u.refs) + 1
        BY <1>1, ElementOfSeq
      <4>2. z \in Seq(Lexeme)
        BY <1>1, <4>1, EndTyped
      <4>3. z # <<>>
        <5>1. CASE j = Len(u.refs)
          <6>1. z = EndThen(u, w)
            BY <1>1, <5>1, ItemsFacts, EndTyped
          <6> QED BY <3>3, <6>1
        <5>2. CASE j # Len(u.refs)
          <6>1. j + 1 \in 1..Len(u.refs) /\ j + 1 # 1 /\ (j + 1) + 1 \in 1..Len(u.refs) + 1
            BY <1>1, <5>2
          <6> DEFINE o == EndThen(u, w)
          <6>5. o \in Seq(Lexeme)
            BY <1>1, EndTyped
          <6>6. Items(u.refs, o, j + 1) = Then(Key("comma"), RefThen(u.refs[j + 1], Items(u.refs, o, (j + 1) + 1)))
            <7> HIDE DEF o
            <7> QED BY <1>1, <6>1, <6>5, ItemsFacts
          <6>2. z = Then(Key("comma"), RefThen(u.refs[j + 1], Items(u.refs, EndThen(u, w), (j + 1) + 1)))
            BY <6>6
          <6>3. u.refs[j + 1] \in Reference /\ Items(u.refs, EndThen(u, w), (j + 1) + 1) \in Seq(Lexeme)
            BY <1>1, <6>1, EndTyped, ElementOfSeq
          <6>4. RefThen(u.refs[j + 1], Items(u.refs, EndThen(u, w), (j + 1) + 1)) \in Seq(Lexeme)
            BY <6>3, RefLexemesThen
          <6> QED BY <1>2, <6>2, <6>4, NotEmpty
        <5> QED BY <5>1, <5>2
      <4>4. /\ OptThen(r.opt, z) # <<>> /\ SizeThen(r, z) # <<>> /\ SymbolThen(r, z) # <<>>
            /\ TagThen(r, z) # <<>> /\ RefThen(r, z) # <<>>
        <5> HIDE DEF z, r
        <5> QED BY <4>1, <4>2, <4>3, ItemNotEmpty
      <4> QED BY <4>3, <4>4 DEF AtItem, InItem
    <3> QED BY <2>1, <3>1, <3>2, <3>3, <3>4 DEF AtRecord, AtMarker
  <2> QED BY <2>1 DEF At
<1> QED BY <1>0, <1>4, <1>5, <1>6, <1>7, <1>8, StateList DEF Outside, Tight, InRecord, Finished

-----------------------------------------------------------------------------
\* How the definitions of a text follow each other.
LEMMA BodyHeads ==
    ASSUME NEW ds \in Seq(Definition), \A k \in DOMAIN ds : Formed(ds[k]),
           NEW e \in {<<>>, Word("END")}, NEW j \in 1..Len(ds) + 1
    PROVE  /\ e \in Seq(Lexeme) /\ Follows(Body(ds, e, j))
           /\ j <= Len(ds) =>
                /\ ds[j] \in Definition /\ Formed(ds[j]) /\ j + 1 \in 1..Len(ds) + 1
                /\ Body(ds, e, j) = DefThen(ds[j], Body(ds, e, j + 1))
                /\ Body(ds, e, j) # <<>>
                /\ \A l \in Lexeme, v \in Seq(Lexeme) : Body(ds, e, j) = Then(l, v) =>
                      \/ l.k \in Types
                      \/ l.k = "::=" /\ ds[j].name = Empty
           /\ ~(j <= Len(ds)) =>
                /\ j = Len(ds) + 1 /\ Body(ds, e, j) = e
                /\ \A l \in Lexeme, v \in Seq(Lexeme) : Body(ds, e, j) = Then(l, v) =>
                      l.k = "END" /\ v = <<>> /\ e # <<>>
<1>1. Len(ds) \in Nat /\ DOMAIN ds = 1..Len(ds)
  BY LenProperties
<1>2. e \in Seq(Lexeme) /\ "END" \in Signs /\ "::=" \in Signs /\ <<>> \in Seq(Lexeme)
  BY KeyTyped, EmptySeq DEF Signs
<1>3. Word("END") = Then(Key("END"), <<>>)
  <2>1. <<Key("END")>> \o <<>> = <<Key("END")>>
    BY <1>2, KeyTyped, ConcatEmptySeq
  <2> QED BY <1>2, <2>1, KeyTyped DEF Then
<1>4. Body(ds, e, j) \in Seq(Lexeme) /\ Body(ds, e, Len(ds) + 1) = e
  BY <1>2, BodyFacts
<1>5. ASSUME j <= Len(ds)
      PROVE  /\ ds[j] \in Definition /\ Formed(ds[j]) /\ j + 1 \in 1..Len(ds) + 1
             /\ Body(ds, e, j) = DefThen(ds[j], Body(ds, e, j + 1))
             /\ Body(ds, e, j) # <<>>
             /\ \A l \in Lexeme, v \in Seq(Lexeme) : Body(ds, e, j) = Then(l, v) =>
                   \/ l.k \in Types
                   \/ l.k = "::=" /\ ds[j].name = Empty
  <2>1. j \in 1..Len(ds) /\ j + 1 \in 1..Len(ds) + 1
    BY <1>1, <1>5
  <2>2. ds[j] \in Definition /\ Formed(ds[j])
    BY <1>1, <2>1, ElementOfSeq
  <2>3. Body(ds, e, j) = DefThen(ds[j], Body(ds, e, j + 1)) /\ Body(ds, e, j + 1) \in Seq(Lexeme)
    BY <1>2, <2>1, BodyFacts
  <2> DEFINE z == Then(Key("::="), AssignThen(ds[j], Body(ds, e, j + 1)))
  <2>4. z \in Seq(Lexeme) /\ AssignThen(ds[j], Body(ds, e, j + 1)) \in Seq(Lexeme)
    BY <2>2, <2>3, DefLexemesThen
  <2>5. z # <<>> /\ ds[j].name \in Ident \cup Builtin \cup {Empty}
    BY <1>2, <2>2, <2>4, NotEmpty DEF Definition
  <2>6. DefThen(ds[j], Body(ds, e, j + 1)) = NameThen(ds[j].name, z)
    BY DEF DefThen
  <2>7. ASSUME NEW l \in Lexeme, NEW v \in Seq(Lexeme), z = Then(l, v) PROVE l.k = "::="
    BY <1>2, <2>4, <2>7, HeadFacts
  <2> HIDE DEF z
  <2>8. NameThen(ds[j].name, z) # <<>>
    BY <2>4, <2>5, NotEmpty
  <2>9. ASSUME NEW l \in Lexeme, NEW v \in Seq(Lexeme), NameThen(ds[j].name, z) = Then(l, v)
        PROVE  \/ l.k \in Types
               \/ l.k = "::=" /\ ds[j].name = Empty
    BY <2>4, <2>5, <2>7, <2>9, HeadFacts
  <2> QED BY <2>1, <2>2, <2>3, <2>6, <2>8, <2>9
<1>6. ASSUME ~(j <= Len(ds))
      PROVE  /\ j = Len(ds) + 1 /\ Body(ds, e, j) = e
             /\ \A l \in Lexeme, v \in Seq(Lexeme) : Body(ds, e, j) = Then(l, v) =>
                   l.k = "END" /\ v = <<>> /\ e # <<>>
  <2>1. j = Len(ds) + 1 /\ Body(ds, e, j) = e
    BY <1>1, <1>4, <1>6
  <2>2. ASSUME NEW l \in Lexeme, NEW v \in Seq(Lexeme), e = Then(l, v)
        PROVE  l.k = "END" /\ v = <<>> /\ e # <<>>
    <3>1. e # <<>>
      BY <2>2, ThenFacts
    <3>2. Then(Key("END"), <<>>) = Then(l, v)
      BY <1>3, <2>2, <3>1
    <3>3. <<>> \in Seq(Lexeme) /\ "END" \in Signs
      BY <1>2
    <3>4. ASSUME NEW o \in Seq(Lexeme), Then(Key("END"), o) = Then(l, v) PROVE l.k = "END" /\ v = o
      BY <3>3, <3>4, HeadFacts
    <3> QED BY <3>1, <3>2, <3>3, <3>4
  <2> QED BY <2>1, <2>2
<1>7. Follows(Body(ds, e, j))
  BY <1>4, <1>5, <1>6 DEF Follows
<1> QED BY <1>2, <1>5, <1>6, <1>7

-----------------------------------------------------------------------------
\* Reading one text.
\* In state c nothing is put off.
LEMMA LeaveIdle ==
    ASSUME NEW c \in States \ (Tight \cup {"rhs_tag", "ftag"}), NEW y
    PROVE  Leave(c, y) = y
BY DEF Leave, Tight

\* Names are made only next to a lexeme.
LEMMA NotBroken ==
    ASSUME NEW c, c \notin Tight, NEW y PROVE ~Broken(c, y)
BY DEF Broken, Tight

\* A comment leaves alone what is made of a definition.
LEMMA LeaveForgets ==
    ASSUME NEW c \in States \ Tight, NEW x \in Registers
    PROVE  LET y == Leave(c, x)
               z == Leave(c, NextSection(c, x))
           IN  z.nt = y.nt /\ z.rule = y.rule /\ z.ref = y.ref
<1> DEFINE s == NextSection(c, x)
<1>1. s.nt = x.nt /\ s.rule = x.rule /\ s.ref = x.ref /\ s.coord = x.coord
  BY DEF NextSection, Registers
<1>2. DOMAIN s = {"ident", "last", "nt", "rule", "ref", "coord"} /\ s = [k \in DOMAIN s |-> s[k]]
  BY DEF NextSection, Registers
<1>3. DOMAIN x = {"ident", "last", "nt", "rule", "ref", "coord"} /\ x = [k \in DOMAIN x |-> x[k]]
  BY DEF Registers
<1> HIDE DEF s
<1>4. CASE c \notin {"rhs_tag", "ftag"}
  BY <1>1, <1>4, LeaveIdle DEF s
<1>5. CASE c = "rhs_tag"
  <2>1. Leave(c, x) = [x EXCEPT !.nt.coord = x.coord] /\ Leave(c, s) = [s EXCEPT !.nt.coord = s.coord]
    BY <1>5 DEF Leave, TagSymbol
  <2> QED BY <1>1, <1>2, <1>3, <2>1 DEF s
<1>6. CASE c = "ftag"
  <2>1. Leave(c, x) = [x EXCEPT !.ref.coord = x.coord] /\ Leave(c, s) = [s EXCEPT !.ref.coord = s.coord]
    BY <1>6 DEF Leave
  <2> QED BY <1>1, <1>2, <1>3, <2>1 DEF s
<1> QED BY <1>4, <1>5, <1>6

\* The text t declares ds, and the parser finds its way.
Readable(t, ds) ==
    t \in Seq(Lexeme) /\ ds \in Seq(Definition) /\ Spaced(t) /\ Declares(t, ds)

Headed(t, p) == \E i \in 1..p : t[i].k = "header"

\* q definitions of ds are complete, e is END or nothing.
Phase(c, y, R, ds, e, q) ==
    \/ q = 0 /\ c = "top" /\ e = <<>> /\ R = Body(ds, e, 1)
    \/ q = 0 /\ c = "top" /\ R = Then(Key("header"), Body(ds, e, 1))
    \/ q = 0 /\ c \in {"header", "list"} /\ R = Body(ds, e, 1)
    \/ q < Len(ds) /\ At(c, y, R, ds[q + 1], Body(ds, e, q + 2))
    \/ q = Len(ds) /\ c \in {"END", "end"} /\ R = <<>>

\* What the lexeme in front says.
Behind(t, p, c) ==
    /\ c \in Tight => p # 0 /\ Solid(t[p]) /\ (t[p].k = "END" <=> c = "END")
    /\ c \notin Tight \cup {"rhs_tag", "ftag"} => p = 0 \/ ~Solid(t[p])

StageAt(t, ds, base, p, c, x, g, e, q) ==
    /\ e \in {<<>>, Word("END")} /\ q \in 0..Len(ds)
    /\ e # <<>> => ds # <<>> /\ (c = "top" \/ Headed(t, p))
    /\ \A k \in 1..q : Proper(ds[k])
    /\ g = FirstOfName(base \o SubSeq(ds, 1, q))
    /\ ~Broken(c, x)
    /\ Behind(t, p, c)
    /\ Phase(c, Leave(c, x), Rest(t, p), ds, e, q)

Stage(t, ds, base, p, c, x, g) ==
    \E e \in {<<>>, Word("END")}, q \in 0..Len(ds) : StageAt(t, ds, base, p, c, x, g, e, q)

\* The first p lexemes of a text were read.
Reads(t, ds, base, p, c, x) ==
    /\ Readable(t, ds) /\ base \in Seq(Definition) /\ p \in 0..Len(t)
    /\ c \in States /\ x \in Registers /\ Pointers(c, x)

\* The definitions that such a text declares.
LEMMA ReadableFacts ==
    ASSUME NEW t, NEW ds, Readable(t, ds)
    PROVE  /\ Len(t) \in Nat /\ Len(ds) \in Nat /\ DOMAIN ds = 1..Len(ds)
           /\ \A k \in 1..Len(ds) : ds[k] \in Definition /\ Formed(ds[k])
           /\ \A k \in DOMAIN ds : Formed(ds[k])
<1>1. \A k \in DOMAIN ds : Formed(ds[k])
  BY DeclaredSolids DEF Readable
<1>2. Len(t) \in Nat /\ Len(ds) \in Nat /\ DOMAIN ds = 1..Len(ds)
  BY LenProperties DEF Readable
<1>3. \A k \in 1..Len(ds) : ds[k] \in Definition
  BY ElementOfSeq DEF Readable
<1> QED BY <1>1, <1>2, <1>3

\* The beginning of a text.
LEMMA StageBegin ==
    ASSUME NEW t, NEW ds, Readable(t, ds), NEW base \in Seq(Definition)
    PROVE  Stage(t, ds, base, 0, "top", NoRegisters, FirstOfName(base))
<1>0. "top" \in States \ (Tight \cup {"rhs_tag", "ftag"})
  BY StateList DEF Tight
<1>1. Len(ds) \in Nat /\ 0 \in 0..Len(ds)
  BY ReadableFacts
<1>2. Rest(t, 0) = Solids(t)
  <2>1. 0 \in 0..Len(t)
    BY ReadableFacts
  <2> QED BY <2>1, RestFacts DEF Readable
<1>3. SubSeq(ds, 1, 0) = <<>> /\ base \o <<>> = base
  BY NoPrefix, ConcatEmptySeq DEF Readable
<1>4. ~Broken("top", NoRegisters) /\ Behind(t, 0, "top")
  BY <1>0, NotBroken DEF Behind
<1>5. PICK e \in {<<>>, Word("END")} :
         /\ e # <<>> => ds # <<>>
         /\ \/ e = <<>> /\ Solids(t) = Body(ds, e, 1)
            \/ Solids(t) = Then(Key("header"), Body(ds, e, 1))
  BY DeclaredSolids DEF Readable
<1>6. StageAt(t, ds, base, 0, "top", NoRegisters, FirstOfName(base), e, 0)
  <2>1. Leave("top", NoRegisters) = NoRegisters
    BY <1>0, LeaveIdle
  <2>2. Phase("top", NoRegisters, Rest(t, 0), ds, e, 0)
    BY <1>2, <1>5 DEF Phase
  <2>3. \A k \in 1..0 : Proper(ds[k])
    OBVIOUS
  <2>4. FirstOfName(base) = FirstOfName(base \o SubSeq(ds, 1, 0))
    BY <1>3
  <2> QED BY <1>1, <1>4, <1>5, <2>1, <2>2, <2>3, <2>4 DEF StageAt
<1> QED BY <1>1, <1>6 DEF Stage

\* Blanks.
LEMMA PhaseBlank ==
    ASSUME NEW c \in States, NEW y, NEW R, NEW ds, NEW e, NEW q, Phase(c, y, R, ds, e, q)
    PROVE  Phase(AfterBlank(c), y, R, ds, e, q)
<1>1. \A d, w : At(c, y, R, d, w) => At(AfterBlank(c), y, R, d, w)
  BY AtBlank
<1>2. c = "top" => AfterBlank(c) = "top"
  BY BlankEdges, StateList DEF Tight
<1>3. c \in {"header", "list"} => AfterBlank(c) \in {"header", "list"}
  BY DEF AfterBlank
<1>4. c \in {"END", "end"} => AfterBlank(c) \in {"END", "end"}
  BY DEF AfterBlank
<1> QED BY <1>1, <1>2, <1>3, <1>4 DEF Phase

\* The head of a module stays read.
LEMMA HeadedLater ==
    ASSUME NEW t, NEW p \in Nat, Headed(t, p) PROVE Headed(t, p + 1)
BY DEF Headed

\* Blanks are read.
LEMMA StageBlank ==
    ASSUME NEW t, NEW ds, NEW base, NEW p, NEW c, NEW x, NEW g,
           Reads(t, ds, base, p, c, x), Stage(t, ds, base, p, c, x, g),
           p < Len(t), t[p + 1].k = "ws", NEW z,
           IF AfterBlank(c) = c THEN z = x ELSE z = Leave(c, x)
    PROVE  Stage(t, ds, base, p + 1, AfterBlank(c), z, g)
<1> DEFINE s == AfterBlank(c)
<1>1. PICK e \in {<<>>, Word("END")}, q \in 0..Len(ds) : StageAt(t, ds, base, p, c, x, g, e, q)
  BY DEF Stage
<1>2. p \in Nat /\ p \in 0..Len(t) /\ c \in States
  BY ReadableFacts DEF Reads
<1>3. s \in States \ Tight /\ (c \notin Tight => s = c)
  BY <1>2, BlankEdges
<1>4. ~Solid(t[p + 1])
  BY DEF Solid
<1>5. Rest(t, p + 1) = Rest(t, p)
  BY <1>2, <1>4, RestFacts DEF Reads, Readable
<1>6. Leave(s, z) = Leave(c, x)
  <2>1. CASE s = c
    BY <2>1
  <2>2. CASE s # c
    <3>1. s \notin {"rhs_tag", "ftag"}
      BY <2>2 DEF AfterBlank
    <3> HIDE DEF s
    <3>2. Leave(s, z) = z
      BY <1>3, <3>1, LeaveIdle
    <3> QED BY <2>2, <3>2 DEF s
  <2> QED BY <2>1, <2>2
<1> HIDE DEF s
<1>7. Phase(s, Leave(s, z), Rest(t, p + 1), ds, e, q)
  BY <1>1, <1>2, <1>5, <1>6, PhaseBlank DEF StageAt, s
<1>8. ~Broken(s, z) /\ Behind(t, p + 1, s)
  BY <1>3, <1>4, NotBroken DEF Behind
<1>9. c = "top" => s = "top"
  BY <1>3, StateList DEF s, AfterBlank
<1>10. e # <<>> => ds # <<>> /\ (s = "top" \/ Headed(t, p + 1))
  BY <1>1, <1>2, <1>9, HeadedLater DEF StageAt
<1>11. StageAt(t, ds, base, p + 1, s, z, g, e, q)
  BY <1>1, <1>7, <1>8, <1>10 DEF StageAt
<1> QED BY <1>11 DEF Stage, s

\* A comment is not next to a lexeme, and not in front of "::=".
LEMMA StageComment ==
    ASSUME NEW t, NEW ds, NEW base, NEW p, NEW c, NEW x, NEW g,
           Reads(t, ds, base, p, c, x), Stage(t, ds, base, p, c, x, g),
           p < Len(t), t[p + 1].k = "comment"
    PROVE  Stage(t, ds, base, p + 1, c, NextSection(c, x), g)
<1> DEFINE z == NextSection(c, x)
           y == Leave(c, x)
           w == Leave(c, z)
<1>1. PICK e \in {<<>>, Word("END")}, q \in 0..Len(ds) : StageAt(t, ds, base, p, c, x, g, e, q)
  BY DEF Stage
<1>2. p \in Nat /\ p \in 0..Len(t) /\ c \in States /\ x \in Registers /\ p + 1 \in 1..Len(t) /\ Len(t) \in Nat
  BY ReadableFacts DEF Reads
<1>3. ~Solid(t[p + 1])
  BY DEF Solid
<1>4. Rest(t, p + 1) = Rest(t, p)
  BY <1>2, <1>3, RestFacts DEF Reads, Readable
<1>5. c \notin Tight
  <2> SUFFICES ASSUME c \in Tight PROVE FALSE
    OBVIOUS
  <2>1. p # 0 /\ Solid(t[p])
    BY <1>1 DEF StageAt, Behind
  <2>2. p \in 1..Len(t) /\ p < Len(t)
    BY <1>2, <2>1
  <2>3. t[p + 1].k \in May(t[p].k)
    BY <2>1, <2>2 DEF Reads, Readable, Spaced
  <2> QED BY <2>3 DEF May
<1>6. w.nt = y.nt /\ w.rule = y.rule /\ w.ref = y.ref
  BY <1>2, <1>5, LeaveForgets
<1>7. ~NextSolid(t, p + 1, "::=")
  BY <1>2 DEF Reads, Readable, Spaced
<1>8. ASSUME NEW d \in Definition, Formed(d), NEW v \in Seq(Lexeme), At(c, y, Rest(t, p), d, v)
      PROVE  At(c, w, Rest(t, p), d, v)
  <2>1. c \notin {"defname", "defname_ws"}
    <3> SUFFICES ASSUME c \in {"defname", "defname_ws"} PROVE FALSE
      OBVIOUS
    <3>1. Rest(t, p + 1) = Then(Key("::="), AssignThen(d, v))
      BY <1>4, <1>8 DEF At
    <3>2. AssignThen(d, v) \in Seq(Lexeme) /\ Key("::=") \in Lexeme
      BY <1>8, DefLexemesThen, KeyTyped DEF Signs
    <3>3. Rest(t, p + 1) # <<>> /\ Rest(t, p + 1)[1] = Key("::=")
      <4>1. \A l \in Lexeme, u \in Seq(Lexeme) : Then(l, u) # <<>> /\ Then(l, u)[1] = l
        BY ThenFacts
      <4> QED BY <3>1, <3>2, <4>1
    <3>4. Key("::=").k = "::="
      BY DEF Key
    <3> QED BY <1>7, <3>3, <3>4 DEF NextSolid, Rest
  <2> HIDE DEF w, y
  <2> QED BY <1>6, <1>8, <2>1, AtForgets
<1>9. Phase(c, y, Rest(t, p), ds, e, q)
  BY <1>1 DEF StageAt
<1> HIDE DEF w, y
<1>10. Phase(c, w, Rest(t, p), ds, e, q)
  <2>1. CASE q < Len(ds) /\ At(c, y, Rest(t, p), ds[q + 1], Body(ds, e, q + 2))
    <3>1. q + 1 \in 1..Len(ds) /\ q + 2 \in 1..Len(ds) + 1
      BY <2>1, ReadableFacts DEF Reads
    <3>2. ds[q + 1] \in Definition /\ Formed(ds[q + 1])
      BY <3>1, ReadableFacts DEF Reads
    <3>3. Body(ds, e, q + 2) \in Seq(Lexeme)
      <4>1. ds \in Seq(Definition) /\ \A k \in DOMAIN ds : Formed(ds[k])
        BY ReadableFacts DEF Reads, Readable
      <4> QED BY <3>1, <4>1, BodyHeads DEF Follows
    <3> QED BY <1>8, <2>1, <3>2, <3>3 DEF Phase
  <2>2. CASE ~(q < Len(ds) /\ At(c, y, Rest(t, p), ds[q + 1], Body(ds, e, q + 2)))
    BY <1>9, <2>2 DEF Phase
  <2> QED BY <2>1, <2>2
<1>11. ~Broken(c, z) /\ Behind(t, p + 1, c)
  BY <1>3, <1>5, NotBroken DEF Behind
<1>12. e # <<>> => ds # <<>> /\ (c = "top" \/ Headed(t, p + 1))
  BY <1>1, <1>2, HeadedLater DEF StageAt
<1>13. StageAt(t, ds, base, p + 1, c, z, g, e, q)
  BY <1>1, <1>4, <1>10, <1>11, <1>12 DEF StageAt, w
<1> QED BY <1>13 DEF Stage

-----------------------------------------------------------------------------
\* What is there when a lexeme l is read that is neither blanks nor a comment.
SolidNext(t, p, c, l) ==
    p < Len(t) /\ l = t[p + 1] /\ Solid(l)

\* Such a lexeme is the first of what is still to be read.
LEMMA SolidFacts ==
    ASSUME NEW t, NEW ds, NEW base, NEW p, NEW c, NEW x, NEW l,
           Reads(t, ds, base, p, c, x), SolidNext(t, p, c, l)
    PROVE  /\ l \in Lexeme /\ Rest(t, p + 1) \in Seq(Lexeme)
           /\ Rest(t, p) = Then(l, Rest(t, p + 1)) /\ Rest(t, p) # <<>>
           /\ p \in Nat /\ p + 1 \in 0..Len(t)
           /\ l.k # "ws" /\ l.k # "comment"
<1>1. p \in 0..Len(t) /\ t \in Seq(Lexeme) /\ p < Len(t) /\ Len(t) \in Nat
  BY ReadableFacts DEF Reads, Readable, SolidNext
<1>2. l \in Lexeme /\ Rest(t, p + 1) \in Seq(Lexeme) /\ Rest(t, p) = Then(l, Rest(t, p + 1))
  BY <1>1, RestFacts DEF SolidNext
<1>3. Rest(t, p) # <<>>
  BY <1>2, ThenFacts
<1> QED BY <1>1, <1>2, <1>3 DEF SolidNext, Solid

\* How a list of definitions goes on behind q of them.
LEMMA Behead ==
    ASSUME NEW t, NEW ds, Readable(t, ds), NEW e \in {<<>>, Word("END")}, NEW j \in 1..Len(ds) + 1,
           NEW l \in Lexeme, NEW v \in Seq(Lexeme), Body(ds, e, j) = Then(l, v)
    PROVE  \/ /\ j <= Len(ds) /\ l.k \in Types
              /\ DefThen(ds[j], Body(ds, e, j + 1)) = Then(l, v)
           \/ j <= Len(ds) /\ l.k = "::=" /\ ~Proper(ds[j])
           \/ j = Len(ds) + 1 /\ l.k = "END" /\ v = <<>> /\ e # <<>>
<1>1. ds \in Seq(Definition) /\ \A k \in DOMAIN ds : Formed(ds[k])
  BY ReadableFacts DEF Readable
<1>2. CASE j <= Len(ds)
  <2>1. /\ Body(ds, e, j) = DefThen(ds[j], Body(ds, e, j + 1))
        /\ l.k \in Types \/ (l.k = "::=" /\ ds[j].name = Empty)
    BY <1>1, <1>2, BodyHeads
  <2> QED BY <1>2, <2>1 DEF Proper
<1>3. CASE ~(j <= Len(ds))
  BY <1>1, <1>3, BodyHeads
<1> QED BY <1>2, <1>3

\* The name of the next definition.
LEMMA NameStep ==
    ASSUME NEW t, NEW ds, Readable(t, ds), NEW e \in {<<>>, Word("END")}, NEW q \in 0..Len(ds),
           NEW l \in Lexeme, NEW v \in Seq(Lexeme), NEW x \in Registers,
           Body(ds, e, q + 1) = Then(l, v), l.k \in Types
    PROVE  /\ ~Broken("defname", Enter(l, x))
           /\ Phase("defname", Leave("defname", Enter(l, x)), v, ds, e, q)
<1>1. q + 1 \in 1..Len(ds) + 1 /\ Len(ds) \in Nat
  BY ReadableFacts
<1>2. q + 1 <= Len(ds) /\ DefThen(ds[q + 1], Body(ds, e, (q + 1) + 1)) = Then(l, v)
  BY <1>1, Behead DEF Types
<1>3. q < Len(ds) /\ q + 1 \in 1..Len(ds) /\ (q + 1) + 1 = q + 2 /\ q + 2 \in 1..Len(ds) + 1
  BY <1>1, <1>2
<1>4. ds[q + 1] \in Definition /\ Formed(ds[q + 1])
  BY <1>3, ReadableFacts
<1>5. Body(ds, e, q + 2) \in Seq(Lexeme)
  <2>1. ds \in Seq(Definition) /\ \A k \in DOMAIN ds : Formed(ds[k])
    BY ReadableFacts DEF Readable
  <2> QED BY <1>3, <2>1, BodyHeads DEF Follows
<1> DEFINE d == ds[q + 1]
           w == Body(ds, e, q + 2)
<1>6. DefThen(d, w) = Then(l, v)
  BY <1>2, <1>3
<1>7. d \in Definition /\ Formed(d) /\ w \in Seq(Lexeme)
  BY <1>4, <1>5
<1> HIDE DEF d, w
<1>8. ~Broken("defname", Enter(l, x)) /\ At("defname", Leave("defname", Enter(l, x)), v, d, w)
  BY <1>6, <1>7, FirstStep
<1> QED BY <1>3, <1>8 DEF Phase, d, w

\* The state behind it.
LEMMA BehindSolid ==
    ASSUME NEW t, NEW p \in Nat, NEW c, NEW l, l = t[p + 1], Solid(l), NEW s,
           <<c, l.k, s>> \in Edges, l.k # "ws"
    PROVE  Behind(t, p + 1, s)
<1>1. s \in Tight \cup {"rhs_tag", "ftag"} /\ (s = "END" <=> l.k = "END")
  BY EdgeTargets
<1>2. "rhs_tag" \notin Tight /\ "ftag" \notin Tight
  BY DEF Tight
<1> QED BY <1>1, <1>2 DEF Behind

\* The head of a module is read.
LEMMA HeadedNow ==
    ASSUME NEW t, NEW p \in Nat, t[p + 1].k = "header" PROVE Headed(t, p + 1)
<1>1. p + 1 \in 1..p + 1
  OBVIOUS
<1> QED BY <1>1 DEF Headed

\* A step within one definition, or to the first.
LEMMA StageSolid ==
    ASSUME NEW t, NEW ds, NEW base, NEW p, NEW c, NEW x, NEW g, NEW l, NEW s,
           Reads(t, ds, base, p, c, x), Stage(t, ds, base, p, c, x, g), SolidNext(t, p, c, l),
           <<c, l.k, s>> \in Edges, c \in Complete => l.k = "size"
    PROVE  Stage(t, ds, base, p + 1, s, Enter(l, Leave(c, x)), g)
<1> DEFINE y == Leave(c, x)
           z == Enter(l, y)
           v == Rest(t, p + 1)
<1>1. PICK e \in {<<>>, Word("END")}, q \in 0..Len(ds) : StageAt(t, ds, base, p, c, x, g, e, q)
  BY DEF Stage
<1>2. /\ l \in Lexeme /\ v \in Seq(Lexeme) /\ Rest(t, p) = Then(l, v) /\ Rest(t, p) # <<>>
      /\ p \in Nat /\ l.k # "ws" /\ l = t[p + 1] /\ Solid(l)
  BY SolidFacts DEF SolidNext
<1>3. y \in Registers /\ PointersLeft(c, y)
  BY <1>1, LeaveTyped DEF Reads, StageAt
<1>4. Phase(c, y, Then(l, v), ds, e, q)
  BY <1>1, <1>2 DEF StageAt
<1>5. ds \in Seq(Definition) /\ (\A k \in DOMAIN ds : Formed(ds[k])) /\ Len(ds) \in Nat /\ Readable(t, ds)
      /\ 1 \in 1..Len(ds) + 1
  BY ReadableFacts DEF Reads, Readable
<1>6. Behind(t, p + 1, s)
  BY <1>2, BehindSolid
<1> HIDE DEF y, v
<1> SUFFICES /\ ~Broken(s, z) /\ Phase(s, Leave(s, z), v, ds, e, q)
             /\ e # <<>> => ds # <<>> /\ (s = "top" \/ Headed(t, p + 1))
  <2>1. StageAt(t, ds, base, p + 1, s, z, g, e, q)
    BY <1>1, <1>6 DEF StageAt, v
  <2> QED BY <2>1 DEF Stage, y
<1>7. CASE q = 0 /\ c \in {"top", "header", "list"} /\ Then(l, v) = Body(ds, e, 1) /\ (c = "top" => e = <<>>)
  <2>1. l.k \in Types /\ s = "defname"
    <3>1. l.k # "header"
      BY SMTT(20), <1>2, <1>5, <1>7, Behead DEF Types
    <3> QED BY <1>2, <1>7, <3>1, EdgeTargets
  <2>2. Body(ds, e, q + 1) = Then(l, v)
    BY <1>7
  <2>3. ~Broken("defname", z) /\ Phase("defname", Leave("defname", z), v, ds, e, q)
    BY <1>2, <1>3, <1>5, <2>1, <2>2, NameStep
  <2>4. e # <<>> => ds # <<>> /\ Headed(t, p + 1)
    BY <1>1, <1>2, <1>7, HeadedLater DEF StageAt
  <2> QED BY <2>1, <2>3, <2>4
<1>8. CASE q = 0 /\ c = "top" /\ Then(l, v) = Then(Key("header"), Body(ds, e, 1))
  <2>1. Body(ds, e, 1) \in Seq(Lexeme)
    BY <1>5, BodyHeads DEF Follows
  <2>2. l.k = "header" /\ v = Body(ds, e, 1)
    <3>1. "header" \in Signs
      BY DEF Signs
    <3> QED BY <1>2, <1>8, <2>1, <3>1, HeadFacts
  <2>3. s = "header"
    BY <1>2, <1>8, <2>2, EdgeTargets DEF Types
  <2>4. Phase(s, Leave(s, z), v, ds, e, q)
    BY <1>8, <2>2, <2>3 DEF Phase
  <2>5. ~Broken(s, z)
    BY <2>3 DEF Broken
  <2>6. Headed(t, p + 1)
    BY <1>2, <2>2, HeadedNow
  <2>7. e # <<>> => ds # <<>>
    BY <1>1 DEF StageAt
  <2> QED BY <2>4, <2>5, <2>6, <2>7
<1>9. CASE q < Len(ds) /\ At(c, y, Then(l, v), ds[q + 1], Body(ds, e, q + 2))
  <2> DEFINE d == ds[q + 1]
             w == Body(ds, e, q + 2)
  <2>1. q + 1 \in 1..Len(ds) /\ q + 2 \in 1..Len(ds) + 1
    BY <1>5, <1>9
  <2>2. d \in Definition /\ Formed(d) /\ Follows(w)
    BY <1>5, <2>1, BodyHeads, ReadableFacts
  <2>3. At(c, y, Then(l, v), d, w)
    BY <1>9
  <2> HIDE DEF d, w
  <2>4. StepFrom(c, y, l, v, d, w, s)
    BY <1>2, <1>3, <2>2, <2>3 DEF StepFrom
  <2>5. StepTo(y, l, v, d, w, s)
    BY <2>4, DefStep
  <2>6. c # "top"
    BY <2>3 DEF At, Outside
  <2>7. e # <<>> => ds # <<>> /\ Headed(t, p + 1)
    BY <1>1, <1>2, <2>6, HeadedLater DEF StageAt
  <2> QED BY <1>9, <2>5, <2>7 DEF StepTo, Phase, d, w
<1>10. CASE c \in {"END", "end"}
  BY <1>2, <1>10, EdgeTargets
<1> QED BY <1>2, <1>4, <1>7, <1>8, <1>9, <1>10 DEF Phase

\* The definition that ended is pushed.
PushedInto(g, d) == IF \E k \in DOMAIN g : g[k].name = d.name THEN g ELSE Append(g, d)

\* One definition more was read.
LEMMA PushGrows ==
    ASSUME NEW ds \in Seq(Definition), NEW base \in Seq(Definition), NEW q \in 0..Len(ds), q < Len(ds)
    PROVE  /\ PushedInto(FirstOfName(base \o SubSeq(ds, 1, q)), ds[q + 1])
                = FirstOfName(base \o SubSeq(ds, 1, q + 1))
           /\ base = <<>> =>
                ((\E k \in DOMAIN FirstOfName(base \o SubSeq(ds, 1, q)) :
                     FirstOfName(base \o SubSeq(ds, 1, q))[k].name = ds[q + 1].name)
                 => \E j \in 1..q : ds[j].name = ds[q + 1].name)
<1> DEFINE a == SubSeq(ds, 1, q)
           d == ds[q + 1]
           f == FirstOfName(base \o a)
<1>1. Len(ds) \in Nat /\ q + 1 \in 1..Len(ds) /\ (q + 1) - 1 = q
  BY LenProperties
<1>2. /\ d \in Definition /\ a \in Seq(Definition) /\ Len(a) = q
      /\ \A j \in 1..q : a[j] = ds[j]
      /\ SubSeq(ds, 1, q + 1) = Append(a, d)
  BY <1>1, PrefixGrows
<1> HIDE DEF a, d
<1>3. base \o a \in Seq(Definition) /\ base \o Append(a, d) = Append(base \o a, d)
  <2>1. <<d>> \in Seq(Definition) /\ Append(a, d) = a \o <<d>>
    BY <1>2, AppendIsConcat
  <2>2. base \o (a \o <<d>>) = (base \o a) \o <<d>> /\ base \o a \in Seq(Definition)
    BY <1>2, <2>1, Assoc
  <2>3. (base \o a) \o <<d>> = Append(base \o a, d)
    BY <1>2, <2>2, AppendIsConcat
  <2> QED BY <2>1, <2>2, <2>3
<1>4. f \in Seq(Definition) /\ DOMAIN f = 1..Len(f)
  BY <1>3, FirstOfOneMore, <1>2, LenProperties
<1>5. (\E k \in 1..Len(f) : f[k].name = d.name) <=> \E j \in 1..Len(base \o a) : (base \o a)[j].name = d.name
  <2>1. ASSUME NEW b \in Seq(Definition), NEW n
        PROVE  (\E k \in 1..Len(FirstOfName(b)) : FirstOfName(b)[k].name = n)
               <=> \E j \in 1..Len(b) : b[j].name = n
    BY SMTT(40), FirstHasNames
  <2> QED BY <1>3, <2>1
<1>6. FirstOfName(Append(base \o a, d)) = IF \E j \in 1..Len(base \o a) : (base \o a)[j].name = d.name
                                          THEN f ELSE Append(f, d)
  BY ZenonT(40), <1>2, <1>3, FirstOfOneMore
<1> HIDE DEF f
<1>7. PushedInto(f, d) = FirstOfName(Append(base \o a, d))
  BY <1>4, <1>5, <1>6 DEF PushedInto
<1>8. base = <<>> => base \o a = a
  BY <1>2, Assoc
<1>9. base = <<>> => ((\E k \in DOMAIN f : f[k].name = d.name) => \E j \in 1..q : ds[j].name = d.name)
  BY <1>2, <1>4, <1>5, <1>8
<1> QED BY <1>2, <1>3, <1>7, <1>9 DEF a, d, f

-----------------------------------------------------------------------------
\* A definition that is complete is the one that was declared.
MadeOf(x) == [name |-> x.nt.name, coord |-> x.nt.coord, rule |-> x.rule]

EndsAt(t, ds, base, p, c, x, g, e, q) ==
    /\ c \in Complete /\ Reads(t, ds, base, p, c, x)
    /\ e \in {<<>>, Word("END")} /\ q \in 0..Len(ds) /\ StageAt(t, ds, base, p, c, x, g, e, q)
    /\ p = Len(t) \/ \E l : SolidNext(t, p, c, l) /\ l.k # "size"

\* ... as the registers have it.
LEMMA StageComplete ==
    ASSUME NEW t, NEW ds, NEW base, NEW p, NEW c, NEW x, NEW g, NEW e, NEW q,
           EndsAt(t, ds, base, p, c, x, g, e, q)
    PROVE  /\ q < Len(ds) /\ MadeOf(x) = ds[q + 1] /\ Proper(ds[q + 1])
           /\ Rest(t, p) = Body(ds, e, q + 2)
<1> USE DEF EndsAt
<1> DEFINE y == Leave(c, x)
           R == Rest(t, p)
           d == ds[q + 1]
           w == Body(ds, e, q + 2)
<1>1. c \in States \ (Tight \cup {"rhs_tag", "ftag"}) /\ c \in Finished
      /\ c \notin {"top", "header", "list", "END", "end"}
  BY StateList DEF Complete, Tight, Finished
<1>2. y = x
  BY <1>1, LeaveIdle
<1>3. q < Len(ds) /\ At(c, y, R, d, w)
  BY <1>1 DEF StageAt, Phase
<1>4. Len(ds) \in Nat /\ q + 1 \in 1..Len(ds) /\ q + 2 \in 1..Len(ds) + 1
  BY <1>3, ReadableFacts DEF Reads
<1>5. d \in Definition /\ Formed(d)
  BY <1>4, ReadableFacts DEF Reads
<1>6. Follows(w)
  <2>1. ds \in Seq(Definition) /\ \A k \in DOMAIN ds : Formed(ds[k])
    BY ReadableFacts DEF Reads, Readable
  <2> QED BY <1>4, <2>1, BodyHeads
<1>7. R = <<>> \/ \E l \in Lexeme, v \in Seq(Lexeme) : R = Then(l, v) /\ l.k # "size"
  <2>1. CASE p = Len(t)
    <3>1. p \in 0..Len(t) /\ t \in Seq(Lexeme)
      BY DEF Reads, Readable
    <3> QED BY <2>1, <3>1, RestFacts
  <2>2. ASSUME NEW l, SolidNext(t, p, c, l), l.k # "size"
        PROVE  \E m \in Lexeme, v \in Seq(Lexeme) : R = Then(m, v) /\ m.k # "size"
    BY <2>2, SolidFacts
  <2> QED BY <2>1, <2>2
<1> HIDE DEF y, R, d, w
<1>8. R = w /\ y.rule = d.rule /\ Proper(d) /\ y.nt.name = d.name /\ y.nt.coord = d.coord
  BY <1>1, <1>3, <1>5, <1>6, <1>7, Completed
<1>9. x.nt \in NT
  <2>1. c \in NTStates
    BY DEF Complete, NTStates, RuleStates, RefStates
  <2> QED BY <2>1 DEF Reads, Pointers, Registers
<1>10. [name |-> x.nt.name, coord |-> x.nt.coord, rule |-> d.rule] = d
  BY <1>2, <1>5, <1>8, <1>9, NTEqual
<1> QED BY <1>2, <1>3, <1>8, <1>10 DEF MadeOf, R, d, w

\* The first lexeme behind a definition.
LEMMA StageNext ==
    ASSUME NEW t, NEW ds, NEW base, NEW p, NEW c \in Complete, NEW x, NEW g, NEW l, NEW s,
           Reads(t, ds, base, p, c, x), Stage(t, ds, base, p, c, x, g), SolidNext(t, p, c, l),
           <<c, l.k, s>> \in Edges, l.k # "size"
    PROVE  Stage(t, ds, base, p + 1, s, Enter(l, [x EXCEPT !.nt = Null, !.rule = Null]),
                 PushedInto(g, MadeOf(x)))
<1> DEFINE y == [x EXCEPT !.nt = Null, !.rule = Null]
           z == Enter(l, y)
           v == Rest(t, p + 1)
           f == PushedInto(g, MadeOf(x))
<1>1. PICK e \in {<<>>, Word("END")}, q \in 0..Len(ds) : StageAt(t, ds, base, p, c, x, g, e, q)
  BY DEF Stage
<1>2. /\ l \in Lexeme /\ v \in Seq(Lexeme) /\ Rest(t, p) = Then(l, v)
      /\ p \in Nat /\ l.k # "ws" /\ l = t[p + 1] /\ Solid(l)
  BY SolidFacts DEF SolidNext
<1>3. /\ q < Len(ds) /\ MadeOf(x) = ds[q + 1] /\ Proper(ds[q + 1])
      /\ Rest(t, p) = Body(ds, e, q + 2)
  <2>1. p = Len(t) \/ \E m : SolidNext(t, p, c, m) /\ m.k # "size"
    OBVIOUS
  <2> QED BY <1>1, <2>1, StageComplete DEF EndsAt
<1>4. Len(ds) \in Nat /\ q + 1 \in 0..Len(ds) /\ q + 2 \in 1..Len(ds) + 1 /\ (q + 1) + 1 = q + 2
      /\ Readable(t, ds) /\ base \in Seq(Definition) /\ ds \in Seq(Definition)
  BY <1>3, ReadableFacts DEF Reads, Readable
<1>5. y \in Registers
  <2>1. x \in Registers
    BY DEF Reads
  <2>2. [x EXCEPT !.nt = Null] \in Registers
    BY <2>1, SetRegister
  <2>3. [[x EXCEPT !.nt = Null] EXCEPT !.rule = Null] \in Registers
    BY <2>2, SetRegister
  <2> QED BY <2>3
<1>6. Behind(t, p + 1, s)
  BY <1>2, BehindSolid
<1>7. f = FirstOfName(base \o SubSeq(ds, 1, q + 1))
  BY <1>1, <1>3, <1>4, PushGrows DEF StageAt
<1>8. \A k \in 1..q + 1 : Proper(ds[k])
  <2>1. ASSUME NEW k \in 1..q + 1 PROVE k \in 1..q \/ k = q + 1
    OBVIOUS
  <2> QED BY <1>1, <1>3, <2>1 DEF StageAt
<1>9. e # <<>> => ds # <<>> /\ Headed(t, p + 1)
  <2>1. c # "top"
    BY DEF Complete
  <2> QED BY <1>1, <1>2, <2>1, HeadedLater DEF StageAt
<1> HIDE DEF y, v, f
<1>10. ~Broken(s, z) /\ Phase(s, Leave(s, z), v, ds, e, q + 1)
  <2>1. \/ l.k \in Types /\ s = "defname"
        \/ l.k = "END" /\ s = "END"
    BY <1>2, EdgeTargets DEF Complete
  <2>2. Body(ds, e, (q + 1) + 1) = Then(l, v)
    BY <1>2, <1>3, <1>4
  <2>3. CASE l.k \in Types /\ s = "defname"
    BY <1>2, <1>4, <1>5, <2>2, <2>3, NameStep
  <2>4. CASE l.k = "END" /\ s = "END"
    <3>1. Body(ds, e, q + 2) = Then(l, v)
      BY <1>2, <1>3
    <3>2. q + 2 = Len(ds) + 1 /\ v = <<>>
      BY ZenonT(40), <1>2, <1>4, <2>4, <3>1, Behead DEF Types
    <3>3. q + 1 = Len(ds)
      BY <1>4, <3>2
    <3> QED BY <2>4, <3>2, <3>3 DEF Phase, Broken
  <2> QED BY <2>1, <2>3, <2>4
<1>11. StageAt(t, ds, base, p + 1, s, z, f, e, q + 1)
  BY <1>1, <1>4, <1>6, <1>7, <1>8, <1>9, <1>10 DEF StageAt, v
<1> QED BY <1>4, <1>11 DEF Stage, y, f

\* A text that is rejected has what no text can have.
LEMMA StageReject ==
    ASSUME NEW t, NEW ds, NEW base, NEW p, NEW c, NEW x, NEW g, NEW l,
           Reads(t, ds, base, p, c, x), Stage(t, ds, base, p, c, x, g), SolidNext(t, p, c, l),
           \A s \in States : <<c, l.k, s>> \in Edges => l.k = "END" /\ ~Headed(t, p)
    PROVE  \E k \in DOMAIN ds : ~Proper(ds[k])
<1> DEFINE y == Leave(c, x)
           v == Rest(t, p + 1)
<1>1. PICK e \in {<<>>, Word("END")}, q \in 0..Len(ds) : StageAt(t, ds, base, p, c, x, g, e, q)
  BY DEF Stage
<1>2. /\ l \in Lexeme /\ v \in Seq(Lexeme) /\ Rest(t, p) = Then(l, v) /\ Rest(t, p) # <<>>
      /\ p \in Nat /\ l.k # "ws" /\ l = t[p + 1] /\ Solid(l) /\ p + 1 \in 0..Len(t)
  BY SolidFacts DEF SolidNext
<1>3. Len(ds) \in Nat /\ DOMAIN ds = 1..Len(ds) /\ 1 \in 1..Len(ds) + 1 /\ Readable(t, ds)
      /\ ds \in Seq(Definition) /\ \A k \in DOMAIN ds : Formed(ds[k])
  BY ReadableFacts DEF Reads, Readable
<1>4. c \in Tight => l.k = "comma"
  <2> SUFFICES ASSUME c \in Tight PROVE l.k = "comma"
    OBVIOUS
  <2>1. p # 0 /\ Solid(t[p])
    BY <1>1 DEF StageAt, Behind
  <2>2. p \in 1..Len(t) /\ p < Len(t)
    BY <1>2, <2>1, ReadableFacts DEF Reads
  <2>3. t[p + 1].k \in May(t[p].k)
    BY <2>1, <2>2 DEF Reads, Readable, Spaced
  <2> QED BY <1>2, <2>3 DEF May
<1>5. Phase(c, y, Then(l, v), ds, e, q)
  BY <1>1, <1>2 DEF StageAt
<1>6. ASSUME Leading(c, l.k) PROVE l.k = "END" /\ ~Headed(t, p)
  BY <1>6 DEF Leading
<1>7. ASSUME NEW s, <<c, l.k, s>> \in Edges PROVE l.k = "END" /\ ~Headed(t, p)
  BY <1>6, <1>7, LeadingThere
<1> HIDE DEF v, y
<1>8. CASE q = 0 /\ c \in {"top", "header", "list"} /\ Then(l, v) = Body(ds, e, 1) /\ (c = "top" => e = <<>>)
  <2>1. c \in {"top", "list"} => l.k \notin Types
    BY <1>7, EdgesThere DEF Types
  <2>2. l.k \notin Types
    BY <1>4, <1>8, <2>1 DEF Types, Tight
  <2>3. e # <<>> => Len(ds) # 0
    <3>1. e # <<>> => ds # <<>>
      BY <1>1 DEF StageAt
    <3> QED BY <1>3, <3>1, EmptySeq
  <2>4. 1 <= Len(ds) /\ ~Proper(ds[1])
    BY <1>2, <1>3, <1>8, <2>2, <2>3, Behead
  <2> QED BY <1>3, <2>4
<1>9. CASE q = 0 /\ c = "top" /\ Then(l, v) = Then(Key("header"), Body(ds, e, 1))
  <2>1. Body(ds, e, 1) \in Seq(Lexeme) /\ "header" \in Signs
    BY <1>3, BodyHeads DEF Follows, Signs
  <2>2. l.k = "header"
    BY <1>2, <1>9, <2>1, HeadFacts
  <2> QED BY <1>7, <1>9, <2>2, EdgesThere
<1>10. CASE q < Len(ds) /\ At(c, y, Then(l, v), ds[q + 1], Body(ds, e, q + 2))
  <2> DEFINE d == ds[q + 1]
             w == Body(ds, e, q + 2)
  <2>1. q + 1 \in 1..Len(ds) /\ q + 2 \in 1..Len(ds) + 1
    BY <1>3, <1>10
  <2>2. d \in Definition /\ Formed(d) /\ Follows(w)
    BY <1>3, <2>1, BodyHeads, ReadableFacts
  <2>3. At(c, y, Then(l, v), d, w)
    BY <1>10
  <2>4. CASE ~Proper(d)
    BY <1>3, <2>1, <2>4
  <2> HIDE DEF d, w
  <2>5. Leading(c, l.k) \/ ~Proper(d) \/ (c \in Complete /\ l.k # "size")
    BY <1>2, <1>4, <2>2, <2>3, Progress
  <2>6. Leading(c, l.k) => c \in Complete /\ l.k # "size"
    <3>1. ASSUME NEW s, <<c, l.k, s>> \in Edges, l.k = "END" PROVE c \in Complete
      BY <1>2, <3>1, EdgeForms DEF Complete
    <3> QED BY <1>6, <3>1 DEF Leading
  <2>7. CASE c \in Complete /\ l.k # "size"
    <3>1. Then(l, v) = Body(ds, e, q + 2)
      <4>1. p = Len(t) \/ \E m : SolidNext(t, p, c, m) /\ m.k # "size"
        BY <2>7
      <4>2. Rest(t, p) = Body(ds, e, q + 2)
        BY <1>1, <2>7, <4>1, StageComplete DEF EndsAt
      <4> QED BY <1>2, <4>2
    <3>2. l.k \notin Types
      BY <1>7, <2>7, EdgesThere DEF Types, Complete
    <3>3. l.k = "END" => e = <<>>
      <4>1. l.k = "END" => ~Headed(t, p)
        BY <1>7, <2>7, EdgesThere DEF Complete
      <4>2. c # "top"
        BY <2>7 DEF Complete
      <4> QED BY <1>1, <4>1, <4>2 DEF StageAt
    <3>4. q + 2 <= Len(ds) /\ ~Proper(ds[q + 2])
      BY <1>2, <1>3, <2>1, <3>1, <3>2, <3>3, Behead
    <3>5. q + 2 \in 1..Len(ds)
      BY <2>1, <3>4
    <3> QED BY <1>3, <3>4, <3>5
  <2> QED BY <2>4, <2>5, <2>6, <2>7
<1>11. CASE c \in {"END", "end"} /\ Then(l, v) = <<>>
  BY <1>2, <1>11
<1> QED BY <1>5, <1>8, <1>9, <1>10, <1>11 DEF Phase

-----------------------------------------------------------------------------
\* The end of a text.
LEMMA ArrivingFacts ==
    ASSUME NEW t \in Seq(Lexeme), NEW ds \in Seq(Definition)
    PROVE  /\ Arriving(t, ds) \in Seq(Definition)
           /\ SubSeq(ds, 1, Len(ds)) = ds
           /\ Len(t) = 0 \/ ~Solid(t[Len(t)]) \/ t[Len(t)].k = "END" => Arriving(t, ds) = ds
           /\ Len(t) # 0 /\ Solid(t[Len(t)]) /\ t[Len(t)].k # "END"
                => Arriving(t, ds) = SubSeq(ds, 1, Len(ds) - 1)
           /\ ds = <<>> => Arriving(t, ds) = ds
<1>1. Len(t) \in Nat /\ Len(ds) \in Nat /\ (t = <<>> <=> Len(t) = 0)
  BY LenProperties, EmptySeq
<1>2. SubSeq(ds, 1, Len(ds)) = ds
  BY <1>1, SubSeqProperties
<1>3. SubSeq(ds, 1, Len(ds) - 1) \in Seq(Definition)
  BY <1>1, SubSeqProperties
<1>4. ds = <<>> => SubSeq(ds, 1, Len(ds) - 1) = ds
  <2> SUFFICES ASSUME ds = <<>> PROVE SubSeq(ds, 1, Len(ds) - 1) = ds
    OBVIOUS
  <2>1. Len(ds) = 0
    BY EmptySeq
  <2>2. Len(SubSeq(ds, 1, Len(ds) - 1)) = 0
    BY <2>1, SubSeqProperties
  <2> QED BY <1>3, <2>2, EmptySeq
<1> QED BY <1>1, <1>2, <1>3, <1>4 DEF Arriving, Last, Front

\* What was pushed is what arrives, and all definitions of the text are proper.
LEMMA StageEnd ==
    ASSUME NEW t, NEW ds, NEW base, NEW p, NEW c, NEW x, NEW g,
           Reads(t, ds, base, p, c, x), Stage(t, ds, base, p, c, x, g), p = Len(t)
    PROVE  /\ (IF c \in Complete THEN PushedInto(g, MadeOf(x)) ELSE g)
                = FirstOfName(base \o Arriving(t, ds))
           /\ \A k \in DOMAIN ds : Proper(ds[k])
<1> DEFINE y == Leave(c, x)
           R == Rest(t, p)
<1>1. PICK e \in {<<>>, Word("END")}, q \in 0..Len(ds) : StageAt(t, ds, base, p, c, x, g, e, q)
  BY DEF Stage
<1>2. Len(ds) \in Nat /\ DOMAIN ds = 1..Len(ds) /\ 1 \in 1..Len(ds) + 1 /\ Readable(t, ds)
      /\ ds \in Seq(Definition) /\ (\A k \in DOMAIN ds : Formed(ds[k])) /\ base \in Seq(Definition)
      /\ t \in Seq(Lexeme) /\ Len(t) \in Nat /\ p \in 0..Len(t)
  BY ReadableFacts DEF Reads, Readable
<1>3. R = <<>>
  BY <1>2, RestFacts
<1>4. Behind(t, p, c) /\ g = FirstOfName(base \o SubSeq(ds, 1, q)) /\ \A k \in 1..q : Proper(ds[k])
  BY <1>1 DEF StageAt
<1>5. Phase(c, y, R, ds, e, q)
  BY <1>1 DEF StageAt
<1>6. ASSUME q < Len(ds), Body(ds, e, q + 2) = <<>> PROVE q + 1 = Len(ds)
  <2>1. q + 2 \in 1..Len(ds) + 1
    BY <1>2, <1>6
  <2>2. ~(q + 2 <= Len(ds))
    BY ZenonT(40), <1>2, <1>6, <2>1, BodyHeads
  <2>3. q \in Nat /\ Len(ds) \in Nat /\ q < Len(ds)
    BY <1>2, <1>6
  <2> QED BY <2>2, <2>3
<1> HIDE DEF y, R
<1>7. CASE c \in Complete
  <2>1. EndsAt(t, ds, base, p, c, x, g, e, q)
    BY <1>1, <1>7 DEF EndsAt
  <2>2. q < Len(ds) /\ MadeOf(x) = ds[q + 1] /\ Proper(ds[q + 1]) /\ Rest(t, p) = Body(ds, e, q + 2)
    BY <2>1, StageComplete
  <2>3. q + 1 = Len(ds)
    BY <1>3, <1>6, <2>2 DEF R
  <2>4. PushedInto(g, MadeOf(x)) = FirstOfName(base \o SubSeq(ds, 1, q + 1))
    BY <1>2, <1>4, <2>2, PushGrows
  <2>5. Arriving(t, ds) = ds
    <3>1. c \notin Tight \cup {"rhs_tag", "ftag"}
      BY <1>7 DEF Complete, Tight
    <3>2. Len(t) = 0 \/ ~Solid(t[Len(t)])
      BY <1>4, <3>1 DEF Behind
    <3> QED BY <1>2, <3>2, ArrivingFacts
  <2>6. SubSeq(ds, 1, q + 1) = ds
    BY <1>2, <2>3, ArrivingFacts
  <2>7. \A k \in DOMAIN ds : Proper(ds[k])
    <3>1. \A k \in 1..Len(ds) : k \in 1..q \/ k = q + 1
      BY <1>2, <2>3
    <3> QED BY <1>2, <1>4, <2>2, <3>1
  <2> QED BY <1>7, <2>4, <2>5, <2>6, <2>7
<1>8. CASE c \notin Complete
  <2> SUFFICES g = FirstOfName(base \o Arriving(t, ds)) /\ \A k \in DOMAIN ds : Proper(ds[k])
    BY <1>8
  <2>1. CASE q = 0 /\ R = Body(ds, e, 1) /\ (c = "top" => e = <<>>)
    <3>1. Len(ds) = 0
      <4>1. 1 <= Len(ds) => Body(ds, e, 1) # <<>>
        BY <1>2, BodyHeads
      <4> QED BY <1>2, <1>3, <2>1, <4>1
    <3>2. ds = <<>>
      BY <1>2, <3>1, EmptySeq
    <3>3. Arriving(t, ds) = ds /\ SubSeq(ds, 1, q) = ds
      BY <1>2, <2>1, <3>1, <3>2, ArrivingFacts
    <3>4. \A k \in DOMAIN ds : Proper(ds[k])
      BY <1>2, <3>1
    <3> QED BY <1>4, <3>3, <3>4
  <2>2. CASE R = Then(Key("header"), Body(ds, e, 1))
    <3>1. Body(ds, e, 1) \in Seq(Lexeme) /\ "header" \in Signs
      BY <1>2, BodyHeads DEF Follows, Signs
    <3>2. Then(Key("header"), Body(ds, e, 1)) # <<>>
      BY <3>1, NotEmpty
    <3> QED BY <1>3, <2>2, <3>2
  <2>3. CASE q < Len(ds) /\ At(c, y, R, ds[q + 1], Body(ds, e, q + 2))
    <3> DEFINE d == ds[q + 1]
               w == Body(ds, e, q + 2)
    <3>1. q + 1 \in 1..Len(ds) /\ q + 2 \in 1..Len(ds) + 1
      BY <1>2, <2>3
    <3>2. d \in Definition /\ Formed(d) /\ Follows(w)
      BY <1>2, <3>1, BodyHeads, ReadableFacts
    <3>3. At(c, y, <<>>, d, w)
      BY <1>3, <2>3
    <3> HIDE DEF d, w
    <3>4. c \in Finished
      BY <3>2, <3>3, Within DEF Follows
    <3>5. <<>> = w /\ Proper(d)
      <4>1. ASSUME NEW o, o = <<>>, At(c, y, o, d, w) PROVE o = w /\ Proper(d)
        BY <3>2, <3>4, <4>1, Completed
      <4> QED BY <3>3, <4>1
    <3>6. q + 1 = Len(ds)
      BY <1>6, <2>3, <3>5 DEF w
    <3>7. c \in Tight /\ c # "END"
      BY <1>8, <3>4 DEF Finished, Complete, Tight
    <3>8. Len(t) # 0 /\ Solid(t[Len(t)]) /\ t[Len(t)].k # "END"
      BY <1>4, <3>7 DEF Behind
    <3>9. Arriving(t, ds) = SubSeq(ds, 1, q)
      <4>1. Len(ds) - 1 = q
        <5>1. q \in Nat /\ Len(ds) \in Nat
          BY <1>2
        <5> QED BY <3>6, <5>1
      <4> QED BY <1>2, <3>8, <4>1, ArrivingFacts
    <3>10. \A k \in DOMAIN ds : Proper(ds[k])
      <4>1. \A k \in 1..Len(ds) : k \in 1..q \/ k = q + 1
        BY <1>1, <1>2, <3>6
      <4> QED BY <1>2, <1>4, <3>5, <4>1 DEF d
    <3> QED BY <1>4, <3>9, <3>10
  <2>4. CASE q = Len(ds) /\ c \in {"END", "end"}
    <3>1. Len(t) = 0 \/ ~Solid(t[Len(t)]) \/ t[Len(t)].k = "END"
      BY <1>4, <2>4 DEF Behind, Tight
    <3>2. Arriving(t, ds) = ds /\ SubSeq(ds, 1, q) = ds
      BY <1>2, <2>4, <3>1, ArrivingFacts
    <3> QED BY <1>2, <1>4, <2>4, <3>2
  <2> QED BY <1>5, <2>1, <2>2, <2>3, <2>4 DEF Phase
<1> QED BY <1>7, <1>8

\* Where nothing was pushed before, a name that is there already is in the text twice.
PushedTwice(t, ds, p, c, x, g) ==
    /\ c \in Complete /\ Reads(t, ds, <<>>, p, c, x) /\ Stage(t, ds, <<>>, p, c, x, g)
    /\ \/ p = Len(t)
       \/ \E l, s : SolidNext(t, p, c, l) /\ l.k # "size" /\ <<c, l.k, s>> \in Edges
    /\ \E k \in DOMAIN g : g[k].name = MadeOf(x).name

\* If nothing was pushed before, what is there already is in the text twice.
LEMMA StageDuplicate ==
    ASSUME NEW t, NEW ds, NEW p, NEW c, NEW x, NEW g, PushedTwice(t, ds, p, c, x, g)
    PROVE  \E k \in DOMAIN Arriving(t, ds) : \E j \in 1..k - 1 :
              Arriving(t, ds)[j].name = Arriving(t, ds)[k].name
<1> USE DEF PushedTwice
<1>1. PICK e \in {<<>>, Word("END")}, q \in 0..Len(ds) : StageAt(t, ds, <<>>, p, c, x, g, e, q)
  BY DEF Stage
<1>2. Len(ds) \in Nat /\ DOMAIN ds = 1..Len(ds) /\ Readable(t, ds) /\ ds \in Seq(Definition)
      /\ (\A k \in DOMAIN ds : Formed(ds[k])) /\ t \in Seq(Lexeme) /\ Len(t) \in Nat /\ p \in 0..Len(t)
  BY ReadableFacts DEF Reads, Readable
<1>3. EndsAt(t, ds, <<>>, p, c, x, g, e, q)
  BY <1>1 DEF EndsAt
<1>4. q < Len(ds) /\ MadeOf(x) = ds[q + 1] /\ Rest(t, p) = Body(ds, e, q + 2)
  BY <1>3, StageComplete
<1>5. q + 1 \in 1..Len(ds) /\ q + 2 \in 1..Len(ds) + 1
  BY <1>2, <1>4
<1>6. PICK j \in 1..q : ds[j].name = ds[q + 1].name
  <2>1. g = FirstOfName(<<>> \o SubSeq(ds, 1, q))
    BY <1>1 DEF StageAt
  <2>2. <<>> \in Seq(Definition)
    OBVIOUS
  <2>3. (\E k \in DOMAIN FirstOfName(<<>> \o SubSeq(ds, 1, q)) :
            FirstOfName(<<>> \o SubSeq(ds, 1, q))[k].name = ds[q + 1].name)
        => \E j \in 1..q : ds[j].name = ds[q + 1].name
    <3>1. ASSUME NEW o \in Seq(Definition), o = <<>>
          PROVE  (\E k \in DOMAIN FirstOfName(o \o SubSeq(ds, 1, q)) :
                     FirstOfName(o \o SubSeq(ds, 1, q))[k].name = ds[q + 1].name)
                 => \E j \in 1..q : ds[j].name = ds[q + 1].name
      BY <1>2, <1>4, <3>1, PushGrows
    <3> QED BY <2>2, <3>1
  <2> QED BY <1>4, <2>1, <2>3
<1> DEFINE a == Arriving(t, ds)
<1>7. a = ds \/ (q + 1 < Len(ds) /\ a = SubSeq(ds, 1, Len(ds) - 1))
  <2>1. CASE p = Len(t)
    <3>1. c \notin Tight \cup {"rhs_tag", "ftag"}
      BY DEF Complete, Tight
    <3>2. Len(t) = 0 \/ ~Solid(t[Len(t)])
      BY <1>1, <2>1, <3>1 DEF StageAt, Behind
    <3> QED BY <1>2, <3>2, ArrivingFacts
  <2>2. ASSUME NEW l, NEW s, SolidNext(t, p, c, l), l.k # "size", <<c, l.k, s>> \in Edges
        PROVE  a = ds \/ (q + 1 < Len(ds) /\ a = SubSeq(ds, 1, Len(ds) - 1))
    <3> DEFINE v == Rest(t, p + 1)
    <3>1. /\ l \in Lexeme /\ v \in Seq(Lexeme) /\ Rest(t, p) = Then(l, v)
          /\ p \in Nat /\ l.k # "ws" /\ l = t[p + 1] /\ p + 1 \in 0..Len(t)
      BY <2>2, SolidFacts DEF SolidNext
    <3>2. l.k \in Types \/ l.k = "END"
      BY <2>2, <3>1, EdgeTargets DEF Complete
    <3>3. Body(ds, e, q + 2) = Then(l, v)
      BY <1>4, <3>1
    <3>4. q + 2 <= Len(ds) \/ (l.k = "END" /\ v = <<>>)
      <4> HIDE DEF v
      <4> QED BY <1>2, <1>5, <3>1, <3>3, Behead
    <3>5. CASE q + 2 <= Len(ds)
      <4>1. a = ds \/ a = SubSeq(ds, 1, Len(ds) - 1)
        BY <1>2, ArrivingFacts
      <4> QED BY <1>1, <1>2, <3>5, <4>1
    <3>6. CASE l.k = "END" /\ v = <<>>
      <4> DEFINE r == SubSeq(t, p + 2, Len(t))
      <4>1. r \in Seq(Lexeme) /\ Len(r) = Len(t) - (p + 1) /\ \A i \in 1..Len(r) : r[i] = t[p + 1 + i]
        BY <1>2, <3>1, SubSeqProperties
      <4>2. \A i \in 1..Len(r) : ~Solid(r[i])
        <5>1. Solids(r) = <<>>
          BY <3>1, <3>6 DEF Rest
        <5> HIDE DEF r
        <5> QED BY <4>1, <5>1, NoSolids
      <4>3. t[Len(t)].k = "END" \/ ~Solid(t[Len(t)])
        <5>1. CASE p + 1 = Len(t)
          BY <3>1, <3>6, <5>1
        <5>2. CASE p + 1 # Len(t)
          <6>1. Len(r) \in 1..Len(r) /\ p + 1 + Len(r) = Len(t)
            <7>1. Len(r) \in Nat /\ Len(r) = Len(t) - (p + 1)
              BY <4>1, LenProperties
            <7> HIDE DEF r
            <7> QED BY <1>2, <3>1, <5>2, <7>1
          <6> QED BY <4>1, <4>2, <6>1
        <5> QED BY <5>1, <5>2
      <4> QED BY <1>2, <4>3, ArrivingFacts
    <3> QED BY <3>4, <3>5, <3>6
  <2> QED BY <2>1, <2>2
<1>8. \A k \in 1..q + 1 : a[k] = ds[k]
  <2>1. CASE a = ds
    BY <2>1
  <2>2. CASE q + 1 < Len(ds) /\ a = SubSeq(ds, 1, Len(ds) - 1)
    <3>1. Len(ds) - 1 \in 0..Len(ds) /\ q + 1 <= Len(ds) - 1
      BY <1>2, <2>2
    <3>2. \A k \in 1..Len(ds) - 1 : SubSeq(ds, 1, Len(ds) - 1)[k] = ds[k]
      BY <1>2, <3>1, SubSeqProperties
    <3> QED BY <2>2, <3>1, <3>2
  <2> QED BY <1>7, <2>1, <2>2
<1>9. q + 1 \in DOMAIN a
  <2>1. CASE a = ds
    BY <1>2, <1>5, <2>1
  <2>2. CASE q + 1 < Len(ds) /\ a = SubSeq(ds, 1, Len(ds) - 1)
    <3>1. Len(ds) - 1 \in 0..Len(ds) /\ q + 1 \in 1..Len(ds) - 1
      BY <1>2, <1>5, <2>2
    <3>2. DOMAIN SubSeq(ds, 1, Len(ds) - 1) = 1..Len(ds) - 1
      BY <1>2, <3>1, SubSeqProperties, LenProperties
    <3> QED BY <2>2, <3>1, <3>2
  <2> QED BY <1>7, <2>1, <2>2
<1>10. j \in 1..q + 1 /\ q + 1 \in 1..q + 1 /\ j \in 1..(q + 1) - 1
  BY <1>2, <1>5
<1>11. a[j].name = a[q + 1].name
  BY <1>6, <1>8, <1>10
<1> HIDE DEF a
<1>12. \E k \in DOMAIN a : \E i \in 1..k - 1 : a[i].name = a[k].name
  BY <1>9, <1>10, <1>11
<1> QED BY <1>12 DEF a

-----------------------------------------------------------------------------
\* Reading the files one after the other.
Index   == IF file = 0 THEN 1 ELSE file
Said    == input.says[Index]
Arrived == [i \in DOMAIN input.texts |-> Arriving(input.texts[i], input.says[i])]

\* How many files were read before, and what they define.
Before == IF file = 0 \/ printed THEN 0 ELSE IF file = 1 THEN 1 ELSE file - 1
Base   == FlattenSeq(SubSeq(Arrived, 1, Before))

AllReadable == \A i \in DOMAIN input.texts : Readable(input.texts[i], input.says[i])

Twice(s) == \E k \in DOMAIN s : \E j \in 1..k - 1 : s[j].name = s[k].name

StageNow == Stage(Source, Said, Base, pos, cs, reg, defs)

Outcome ==
    /\ mode = "reading" => StageNow
    /\ mode = "done" => /\ defs = FirstOfName(FlattenSeq(Arrived))
                        /\ \A k \in DOMAIN Said : Proper(Said[k])
    /\ mode = "error" => \E i \in DOMAIN input.says : \E k \in DOMAIN input.says[i] :
                            ~Proper(input.says[i][k])
    /\ mode # "null"
    /\ mode = "duplicate" => file = 0 /\ Twice(Arrived[1])

RInv ==
    /\ MInv
    /\ AllReadable => Outcome
    /\ printed => /\ file = 1 /\ Len(input.texts) = 1
                  /\ AllReadable /\ Unique(input.says[1]) /\ Arrived[1] = input.says[1]

\* The definitions of the first files.
LEMMA FlattenUpTo ==
    ASSUME NEW S, NEW A \in Seq(Seq(S))
    PROVE  /\ FlattenSeq(SubSeq(A, 1, 0)) = <<>>
           /\ FlattenSeq(SubSeq(A, 1, Len(A))) = FlattenSeq(A)
           /\ \A k \in 1..Len(A) :
                /\ FlattenSeq(SubSeq(A, 1, k)) = FlattenSeq(SubSeq(A, 1, k - 1)) \o A[k]
                /\ FlattenSeq(SubSeq(A, 1, k - 1)) \in Seq(S)
                /\ FlattenSeq(SubSeq(A, 1, k)) \in Seq(S)
<1>1. FlattenSeq(SubSeq(A, 1, 0)) = <<>>
  BY NoPrefix, FlattenEmpty
<1>2. SubSeq(A, 1, Len(A)) = A
  BY SubSeqProperties, LenProperties
<1>3. ASSUME NEW k \in 1..Len(A)
      PROVE  /\ FlattenSeq(SubSeq(A, 1, k)) = FlattenSeq(SubSeq(A, 1, k - 1)) \o A[k]
             /\ FlattenSeq(SubSeq(A, 1, k - 1)) \in Seq(S)
             /\ FlattenSeq(SubSeq(A, 1, k)) \in Seq(S)
  <2> DEFINE B == SubSeq(A, 1, k - 1)
             a == A[k]
  <2>1. B \in Seq(Seq(S)) /\ a \in Seq(S) /\ SubSeq(A, 1, k) = Append(B, a)
    BY PrefixGrows
  <2> HIDE DEF B, a
  <2>2. FlattenSeq(B) \in Seq(S) /\ FlattenSeq(Append(B, a)) = FlattenSeq(B) \o a
    BY <2>1, FlattenAppend
  <2>3. FlattenSeq(B) \o a \in Seq(S)
    BY <2>1, <2>2, Assoc
  <2> QED BY <2>1, <2>2, <2>3 DEF B, a
<1> QED BY <1>1, <1>2, <1>3

\* The file that is read.
LEMMA IndexFacts ==
    ASSUME Inv
    PROVE  /\ Index \in 1..Len(input.texts) /\ Len(input.texts) \in Nat
           /\ DOMAIN input.texts = 1..Len(input.texts) /\ DOMAIN input.says = 1..Len(input.texts)
           /\ Source = input.texts[Index] /\ file \in Nat
           /\ Source \in Seq(Lexeme) /\ Said \in Seq(Definition)
<1>1. Len(input.texts) \in Nat \ {0} /\ DOMAIN input.texts = 1..Len(input.texts)
      /\ DOMAIN input.says = 1..Len(input.texts)
  BY LenProperties, EmptySeq DEF Inv, TypeOK
<1>2. Index \in 1..Len(input.texts) /\ file \in Nat
  BY <1>1 DEF Inv, TypeOK, Index
<1>3. Source \in Seq(Lexeme) /\ Source = input.texts[Index]
  BY SourceTyped DEF Source, Index
<1>4. Said \in Seq(Definition)
  BY <1>1, <1>2, ElementOfSeq DEF Said, Inv, TypeOK
<1> QED BY <1>1, <1>2, <1>3, <1>4

\* What arrives of each file.
LEMMA ArrivedTyped ==
    ASSUME Inv
    PROVE  /\ Arrived \in Seq(Seq(Definition)) /\ Len(Arrived) = Len(input.texts)
           /\ \A i \in 1..Len(input.texts) :
                Arrived[i] = Arriving(input.texts[i], input.says[i])
<1>1. /\ Len(input.texts) \in Nat /\ DOMAIN input.texts = 1..Len(input.texts)
      /\ DOMAIN input.says = 1..Len(input.texts)
      /\ input.texts \in Seq(Seq(Lexeme)) /\ input.says \in Seq(Seq(Definition))
  BY IndexFacts DEF Inv, TypeOK
<1>2. ASSUME NEW i \in 1..Len(input.texts)
      PROVE  Arriving(input.texts[i], input.says[i]) \in Seq(Definition)
  <2>1. input.texts[i] \in Seq(Lexeme) /\ input.says[i] \in Seq(Definition)
    BY <1>1, ElementOfSeq
  <2> QED BY <2>1, ArrivingFacts
<1>3. Arrived \in [1..Len(input.texts) -> Seq(Definition)]
  BY <1>1, <1>2 DEF Arrived
<1>4. Arrived \in Seq(Seq(Definition))
  <2>1. ASSUME NEW S, NEW n \in Nat, NEW f \in [1..n -> S] PROVE f \in Seq(S)
    OBVIOUS
  <2> QED BY <1>1, <1>3, <2>1
<1>5. Len(Arrived) = Len(input.texts)
  <2>1. DOMAIN Arrived = 1..Len(Arrived) /\ Len(Arrived) \in Nat
    BY <1>4, LenProperties
  <2>2. DOMAIN Arrived = 1..Len(input.texts)
    BY <1>3
  <2>3. ASSUME NEW a \in Nat, NEW b \in Nat, 1..a = 1..b PROVE a = b
    <3>1. a > 0 => a \in 1..b
      BY <2>3
    <3>2. b > 0 => b \in 1..a
      BY <2>3
    <3> QED BY <3>1, <3>2
  <2> QED BY <1>1, <2>1, <2>2, <2>3
<1> QED BY <1>1, <1>4, <1>5 DEF Arrived

\* Before the first file nothing was pushed.
LEMMA BaseFacts ==
    ASSUME Inv, printed => file = 1
    PROVE  /\ Base \in Seq(Definition)
           /\ file = 0 \/ printed => Base = <<>>
<1>1. Arrived \in Seq(Seq(Definition)) /\ Len(Arrived) = Len(input.texts) /\ Len(Arrived) \in Nat
  BY ArrivedTyped, IndexFacts
<1>2. Before = 0 \/ Before \in 1..Len(Arrived)
  BY <1>1, IndexFacts DEF Before, Index, Inv, TypeOK
<1>3. <<>> \in Seq(Definition) /\ FlattenSeq(SubSeq(Arrived, 1, 0)) = <<>>
  <2>1. ASSUME NEW A \in Seq(Seq(Definition)) PROVE FlattenSeq(SubSeq(A, 1, 0)) = <<>>
    BY FlattenUpTo
  <2> QED BY <1>1, <2>1
<1>4. \A k \in 1..Len(Arrived) : FlattenSeq(SubSeq(Arrived, 1, k)) \in Seq(Definition)
  BY <1>1, FlattenUpTo
<1> QED BY <1>2, <1>3, <1>4 DEF Base, Before

\* The lemmas about one text apply.
LEMMA ReadsNow ==
    ASSUME RInv, AllReadable, mode = "reading"
    PROVE  Reads(Source, Said, Base, pos, cs, reg) /\ StageNow /\ Readable(Source, Said)
<1>1. Inv /\ (printed => file = 1) /\ Outcome
  BY DEF RInv, MInv
<1>2. Readable(Source, Said)
  BY <1>1, IndexFacts DEF AllReadable, Said
<1>3. Base \in Seq(Definition)
  BY <1>1, BaseFacts
<1>4. pos \in 0..Len(Source) /\ cs \in States /\ reg \in Registers /\ Pointers(cs, reg)
  BY <1>1 DEF Inv, TypeOK
<1> QED BY <1>1, <1>2, <1>3, <1>4 DEF Reads, Outcome

-----------------------------------------------------------------------------
\* The steps within a text.
LEMMA CommentReads ==
    ASSUME RInv, AllReadable, Comment
    PROVE  Stage(Source, Said, Base, pos', cs', reg', defs')
<1>1. Reads(Source, Said, Base, pos, cs, reg) /\ Stage(Source, Said, Base, pos, cs, reg, defs)
  BY ReadsNow DEF Comment, Reading, StageNow
<1>2. pos < Len(Source) /\ Source[pos + 1].k = "comment"
  BY DEF Comment, Reading, Next1
<1>3. pos' = pos + 1 /\ cs' = cs /\ reg' = NextSection(cs, reg) /\ defs' = defs
  BY DEF Comment
<1> QED BY <1>1, <1>2, <1>3, StageComment

\* An edge is for a solid lexeme or for blanks.
LEMMA SolidNow ==
    ASSUME Reading, NEW s, <<cs, Next1.k, s>> \in Edges, Next1.k # "ws"
    PROVE  SolidNext(Source, pos, cs, Next1)
<1>1. Next1.k # "comment"
  BY EdgeTargets
<1> QED BY <1>1 DEF SolidNext, Next1, Solid, Reading

\* Further blanks are read.
LEMMA BlankReads ==
    ASSUME RInv, AllReadable, ReadBlank
    PROVE  Stage(Source, Said, Base, pos', cs', reg', defs')
<1>1. Reads(Source, Said, Base, pos, cs, reg) /\ Stage(Source, Said, Base, pos, cs, reg, defs)
  BY ReadsNow DEF ReadBlank, Reading, StageNow
<1>2. <<cs, Next1.k, cs>> \in Edges
  BY DEF ReadBlank, Leads
<1>3. Next1.k = "ws"
  BY <1>2, EdgeTargets
<1>4. AfterBlank(cs) = cs
  BY <1>2, <1>3, BlankEdges
<1>5. pos < Len(Source) /\ Source[pos + 1].k = "ws"
  BY <1>3 DEF ReadBlank, Reading, Next1
<1>6. pos' = pos + 1 /\ cs' = AfterBlank(cs) /\ reg' = reg /\ defs' = defs
  BY <1>4 DEF ReadBlank
<1>7. Stage(Source, Said, Base, pos + 1, AfterBlank(cs), reg, defs)
  BY <1>1, <1>4, <1>5, StageBlank
<1> QED BY <1>6, <1>7

\* A lexeme is read within a definition.
LEMMA ReadReads ==
    ASSUME RInv, AllReadable, NEW s \in States, Read(s)
    PROVE  Stage(Source, Said, Base, pos', cs', reg', defs')
<1> DEFINE y == Leave(cs, reg)
<1>1. Reads(Source, Said, Base, pos, cs, reg) /\ Stage(Source, Said, Base, pos, cs, reg, defs)
  BY ReadsNow DEF Read, Reading, StageNow
<1>2. <<cs, Next1.k, s>> \in Edges /\ s # cs /\ pos < Len(Source)
  BY DEF Read, Leads, Reading
<1>3. pos' = pos + 1 /\ cs' = s /\ reg' = Enter(Next1, y) /\ defs' = defs
  BY DEF Read
<1> HIDE DEF y
<1>4. CASE Next1.k = "ws"
  <2>1. s = AfterBlank(cs) /\ Source[pos + 1].k = "ws"
    BY <1>2, <1>4, BlankEdges DEF Next1
  <2>2. Enter(Next1, y) = y
    BY <1>4 DEF Enter
  <2>3. Stage(Source, Said, Base, pos + 1, AfterBlank(cs), y, defs)
    BY <1>1, <1>2, <2>1, StageBlank DEF y
  <2> QED BY <1>3, <2>1, <2>2, <2>3
<1>5. CASE Next1.k # "ws"
  <2>1. SolidNext(Source, pos, cs, Next1)
    BY <1>2, <1>5, SolidNow DEF Read
  <2>2. cs \in Complete => Next1.k = "size"
    BY <1>5 DEF Read, EndsDefinition
  <2>3. Stage(Source, Said, Base, pos + 1, s, Enter(Next1, Leave(cs, reg)), defs)
    BY <1>1, <1>2, <2>1, <2>2, StageSolid
  <2> QED BY <1>3, <2>3 DEF y
<1> QED BY <1>4, <1>5

\* Grammar::push()
LEMMA PushIs == ASSUME Push PROVE defs' = PushedInto(defs, MadeOf(reg))
BY DEF Push, PushedInto, MadeOf, Pushed, Seen

\* The first lexeme behind a definition is read.
LEMMA ReadNextReads ==
    ASSUME RInv, AllReadable, NEW s \in States, ReadNextDefinition(s), ~(Seen /\ file = 0)
    PROVE  Stage(Source, Said, Base, pos', cs', reg', defs')
<1>1. Reads(Source, Said, Base, pos, cs, reg) /\ Stage(Source, Said, Base, pos, cs, reg, defs)
  BY ReadsNow DEF ReadNextDefinition, Reading, StageNow
<1>2. <<cs, Next1.k, s>> \in Edges /\ cs \in Complete /\ Next1.k # "ws" /\ Next1.k # "size"
  BY DEF ReadNextDefinition, Leads, EndsDefinition
<1>3. /\ pos' = pos + 1 /\ cs' = s /\ Push
      /\ reg' = Enter(Next1, [reg EXCEPT !.nt = Null, !.rule = Null])
  BY DEF ReadNextDefinition
<1>4. SolidNext(Source, pos, cs, Next1)
  BY <1>2, SolidNow DEF ReadNextDefinition
<1>5. Stage(Source, Said, Base, pos + 1, s, Enter(Next1, [reg EXCEPT !.nt = Null, !.rule = Null]),
            PushedInto(defs, MadeOf(reg)))
  BY <1>1, <1>2, <1>4, StageNext
<1> QED BY <1>3, <1>5, PushIs

\* ... or the definition has a name that the first file has twice.
LEMMA ReadNextTwice ==
    ASSUME RInv, AllReadable, NEW s \in States, ReadNextDefinition(s), Seen, file = 0
    PROVE  Twice(Arrived[1])
<1>1. Reads(Source, Said, Base, pos, cs, reg) /\ Stage(Source, Said, Base, pos, cs, reg, defs)
  BY ReadsNow DEF ReadNextDefinition, Reading, StageNow
<1>2. <<cs, Next1.k, s>> \in Edges /\ cs \in Complete /\ Next1.k # "ws" /\ Next1.k # "size"
  BY DEF ReadNextDefinition, Leads, EndsDefinition
<1>3. SolidNext(Source, pos, cs, Next1)
  BY <1>2, SolidNow DEF ReadNextDefinition
<1>4. Inv /\ (printed => file = 1)
  BY DEF RInv, MInv
<1>5. Base = <<>> /\ Index = 1
  BY <1>4, BaseFacts DEF Index
<1>6. \E k \in DOMAIN defs : defs[k].name = MadeOf(reg).name
  BY DEF Seen, MadeOf
<1>7. Twice(Arriving(Source, Said))
  <2>1. \E l, r : SolidNext(Source, pos, cs, l) /\ l.k # "size" /\ <<cs, l.k, r>> \in Edges
    BY <1>2, <1>3
  <2>2. PushedTwice(Source, Said, pos, cs, reg, defs)
    BY <1>1, <1>2, <1>5, <1>6, <2>1 DEF PushedTwice
  <2> QED BY <2>2, StageDuplicate DEF Twice
<1>8. Arrived[1] = Arriving(Source, Said)
  BY <1>4, <1>5, IndexFacts, ArrivedTyped DEF Said
<1> QED BY <1>7, <1>8

\* What is rejected has a definition that is not proper.
LEMMA RejectReads ==
    ASSUME RInv, AllReadable, Reject
    PROVE  \E k \in DOMAIN Said : ~Proper(Said[k])
<1>1. Reads(Source, Said, Base, pos, cs, reg) /\ Stage(Source, Said, Base, pos, cs, reg, defs)
  BY ReadsNow DEF Reject, Reading, StageNow
<1>2. ASSUME NEW s \in States, <<cs, Next1.k, s>> \in Edges
      PROVE  Next1.k = "END" /\ ~Headed(Source, pos)
  BY <1>2 DEF Reject, Leads, InModule, Headed
<1>3. Next1.k # "ws"
  <2>1. <<cs, "ws", AfterBlank(cs)>> \in Edges /\ AfterBlank(cs) \in States
    BY <1>1, BlankEdges DEF Reads
  <2> QED BY <1>2, <2>1
<1>4. SolidNext(Source, pos, cs, Next1)
  BY <1>3 DEF SolidNext, Next1, Solid, Reject, Reading
<1> QED BY <1>1, <1>2, <1>4, StageReject

\* No name is made of a null pointer.
LEMMA NeverBroken ==
    ASSUME RInv, AllReadable, mode = "reading" PROVE ~Broken(cs, reg)
BY ReadsNow DEF StageNow, Stage, StageAt

\* The end of a file.
LEMMA EndReads ==
    ASSUME RInv, AllReadable, EndOfFile, ~(cs \in Complete /\ Seen /\ file = 0)
    PROVE  /\ defs' = FirstOfName(Base \o Arriving(Source, Said))
           /\ \A k \in DOMAIN Said : Proper(Said[k])
<1>1. Reads(Source, Said, Base, pos, cs, reg) /\ Stage(Source, Said, Base, pos, cs, reg, defs)
  BY ReadsNow DEF EndOfFile, StageNow
<1>2. pos = Len(Source) /\ (IF cs \in Complete THEN Push ELSE UNCHANGED defs)
  BY DEF EndOfFile
<1>3. defs' = IF cs \in Complete THEN PushedInto(defs, MadeOf(reg)) ELSE defs
  BY <1>2, PushIs
<1> QED BY <1>1, <1>2, <1>3, StageEnd

\* ... or its last definition has a name that the file has twice.
LEMMA EndTwice ==
    ASSUME RInv, AllReadable, EndOfFile, cs \in Complete, Seen, file = 0
    PROVE  Twice(Arrived[1])
<1>1. Reads(Source, Said, Base, pos, cs, reg) /\ Stage(Source, Said, Base, pos, cs, reg, defs)
  BY ReadsNow DEF EndOfFile, StageNow
<1>2. pos = Len(Source)
  BY DEF EndOfFile
<1>3. Inv /\ (printed => file = 1)
  BY DEF RInv, MInv
<1>4. Base = <<>> /\ Index = 1
  BY <1>3, BaseFacts DEF Index
<1>5. \E k \in DOMAIN defs : defs[k].name = MadeOf(reg).name
  BY DEF Seen, MadeOf
<1>6. Twice(Arriving(Source, Said))
  BY <1>1, <1>2, <1>4, <1>5, StageDuplicate DEF Twice, PushedTwice
<1>7. Arrived[1] = Arriving(Source, Said)
  BY <1>3, <1>4, IndexFacts, ArrivedTyped DEF Said
<1> QED BY <1>6, <1>7

-----------------------------------------------------------------------------
\* From one file to the next.
LEMMA BaseGrows ==
    ASSUME Inv, printed => file = 1
    PROVE  /\ FirstOfName(Base \o Arrived[Index]) = FirstOfName(FlattenSeq(SubSeq(Arrived, 1, Index)))
           /\ FlattenSeq(SubSeq(Arrived, 1, Index)) \in Seq(Definition)
           /\ FlattenSeq(SubSeq(Arrived, 1, Len(input.texts))) = FlattenSeq(Arrived)
<1> DEFINE A == Arrived
           F(k) == FlattenSeq(SubSeq(A, 1, k))
<1>1. /\ A \in Seq(Seq(Definition)) /\ Len(A) = Len(input.texts)
      /\ Index \in 1..Len(A) /\ file \in Nat /\ Len(A) \in Nat
  BY ArrivedTyped, IndexFacts
<1> HIDE DEF A
<1>2. /\ F(0) = <<>> /\ F(Len(A)) = FlattenSeq(A)
      /\ \A k \in 1..Len(A) : F(k) = F(k - 1) \o A[k] /\ F(k - 1) \in Seq(Definition) /\ F(k) \in Seq(Definition)
  BY <1>1, FlattenUpTo
<1>3. A[Index] \in Seq(Definition)
  BY <1>1, ElementOfSeq
<1>4. Base = F(Before)
  BY DEF Base, A
<1> HIDE DEF F
<1>5. ASSUME Before = Index - 1 PROVE FirstOfName(Base \o A[Index]) = FirstOfName(F(Index))
  BY <1>1, <1>2, <1>4, <1>5
<1>6. ASSUME Before # Index - 1 PROVE FirstOfName(Base \o A[Index]) = FirstOfName(F(Index))
  <2>1. Before = 1 /\ Index = 1
    BY <1>1, <1>6 DEF Before, Index
  <2>2. Base = F(1) /\ F(1) = F(0) \o A[1] /\ A[1] \in Seq(Definition)
    <3>1. 1 \in 1..Len(A) /\ 1 - 1 = 0
      BY <1>1, <2>1
    <3> QED BY <1>2, <1>3, <1>4, <2>1, <3>1
  <2>3. Base = A[1] /\ F(1) = A[1]
    BY <1>2, <2>2, Assoc
  <2>4. ASSUME NEW s \in Seq(Definition) PROVE FirstOfName(s \o s) = FirstOfName(s)
    <3>1. Len(s) \in 0..Len(s) /\ SubSeq(s, 1, Len(s)) = s
      BY LenProperties, SubSeqProperties
    <3>2. FirstOfName(s \o SubSeq(s, 1, Len(s))) = FirstOfName(s)
      BY <3>1, FirstOfAgain
    <3> QED BY <3>1, <3>2
  <2> QED BY <2>1, <2>2, <2>3, <2>4
<1>7. FirstOfName(Base \o A[Index]) = FirstOfName(F(Index))
  BY <1>5, <1>6
<1>8. F(Index) \in Seq(Definition) /\ F(Len(input.texts)) = FlattenSeq(A)
  BY <1>1, <1>2
<1> QED BY <1>7, <1>8 DEF F, A

\* A step within a file.
LEMMA SameFile ==
    ASSUME input' = input, file' = file, printed' = printed
    PROVE  /\ Source' = Source /\ Said' = Said /\ Base' = Base /\ Index' = Index
           /\ Arrived' = Arrived
BY DEF Source, Said, Base, Before, Index, Arrived

\* The end of a file, and the beginning of the next or the end.
LEMMA EndOutcome ==
    ASSUME RInv, AllReadable, EndOfFile, ~(cs \in Complete /\ Seen /\ file = 0), printed' = printed
    PROVE  Outcome'
<1>1. Inv /\ (printed => file = 1 /\ Len(input.texts) = 1)
  BY DEF RInv, MInv
<1>2. /\ Index \in 1..Len(input.texts) /\ Len(input.texts) \in Nat /\ file \in Nat
      /\ DOMAIN input.texts = 1..Len(input.texts) /\ file \in 0..Len(input.texts)
      /\ Source = input.texts[Index]
  BY <1>1, IndexFacts DEF Inv, TypeOK
<1>3. Arrived[Index] = Arriving(Source, Said)
  BY <1>1, <1>2, ArrivedTyped DEF Said
<1> DEFINE F == FlattenSeq(SubSeq(Arrived, 1, Index))
<1>4. /\ FirstOfName(Base \o Arrived[Index]) = FirstOfName(F) /\ F \in Seq(Definition)
      /\ FlattenSeq(SubSeq(Arrived, 1, Len(input.texts))) = FlattenSeq(Arrived)
  BY <1>1, BaseGrows
<1>5. defs' = FirstOfName(F) /\ \A k \in DOMAIN Said : Proper(Said[k])
  BY <1>3, <1>4, EndReads
<1>6. input' = input /\ Arrived' = Arrived
  BY DEF EndOfFile, Arrived
<1> HIDE DEF F
<1>7. CASE file < Len(input.texts)
  <2>1. file' = file + 1 /\ pos' = 0 /\ cs' = "top" /\ reg' = NoRegisters /\ mode' = "reading"
    <3>1. mode = "reading"
      BY DEF EndOfFile
    <3> QED BY <1>7, <3>1 DEF EndOfFile
  <2>2. ~printed'
    <3>1. ASSUME printed PROVE FALSE
      <4>1. file = 1 /\ Len(input.texts) = 1
        BY <1>1, <3>1
      <4>2. ~(file < Len(input.texts))
        BY <4>1
      <4> QED BY <1>7, <4>2
    <3> QED BY <3>1
  <2>3. Before' = Index
    BY <1>2, <2>1, <2>2 DEF Before, Index
  <2>4. Base' = F
    BY <1>6, <2>3 DEF Base, F
  <2>5. file' \in 1..Len(input.texts) /\ Index' = file'
    BY <1>2, <1>7, <2>1 DEF Index
  <2>6. Source' = input.texts[file'] /\ Said' = input.says[file']
    BY <1>6, <2>5 DEF Source, Said, Index
  <2>7. Readable(Source', Said')
    BY <1>2, <2>5, <2>6 DEF AllReadable
  <2>8. Stage(Source', Said', F, 0, "top", NoRegisters, FirstOfName(F))
    BY <1>4, <2>7, StageBegin
  <2>9. StageNow'
    BY <1>5, <2>1, <2>4, <2>8 DEF StageNow
  <2> QED BY <2>1, <2>9 DEF Outcome
<1>8. CASE ~(file < Len(input.texts))
  <2>1. mode' = "done" /\ file' = file
    BY <1>8 DEF EndOfFile
  <2>2. Index = Len(input.texts)
    BY <1>2, <1>8 DEF Index
  <2>3. defs' = FirstOfName(FlattenSeq(Arrived))
    BY <1>4, <1>5, <2>2 DEF F
  <2>4. Said' = Said
    BY <1>6, <2>1, SameFile
  <2> QED BY <1>5, <1>6, <2>1, <2>3, <2>4 DEF Outcome
<1> QED BY <1>7, <1>8

\* Every step of the parser.
LEMMA ParseReads == ASSUME RInv, Parse PROVE RInv'
<1>1. MInv' /\ Inv
  BY NextMaking DEF RInv, MInv, Parse
<1>2. printed' = printed /\ Next
  BY DEF Parse
<1>3. input' = input
  BY <1>2 DEF Next, Comment, ReadBlank, Reject, EndOfFile, Read, ReadNextDefinition, ReadBroken, Throw
<1>4. Arrived' = Arrived /\ AllReadable' = AllReadable
  BY <1>3 DEF Arrived, AllReadable
<1>5. file' = file \/ (EndOfFile /\ file < Len(input.texts))
  BY <1>2 DEF Next, Comment, ReadBlank, Reject, EndOfFile, Read, ReadNextDefinition, ReadBroken, Throw
<1>6. printed' => /\ file' = 1 /\ Len(input'.texts) = 1
                  /\ AllReadable' /\ Unique(input'.says[1]) /\ Arrived'[1] = input'.says[1]
  <2>1. CASE printed
    <3>1. /\ file = 1 /\ Len(input.texts) = 1
          /\ AllReadable /\ Unique(input.says[1]) /\ Arrived[1] = input.says[1]
      BY <2>1 DEF RInv
    <3>2. ~(file < Len(input.texts))
      BY <3>1
    <3> QED BY <1>3, <1>4, <1>5, <3>1, <3>2
  <2>2. CASE ~printed
    BY <1>2, <2>2
  <2> QED BY <2>1, <2>2
<1>7. ASSUME AllReadable PROVE Outcome'
  <2>1. ASSUME mode' = "reading", file' = file, Stage(Source, Said, Base, pos', cs', reg', defs')
        PROVE  Outcome'
    <3>1. StageNow'
      BY <1>2, <1>3, <2>1, SameFile DEF StageNow
    <3> QED BY <2>1, <3>1 DEF Outcome
  <2>2. CASE Comment
    <3>1. mode' = "reading" /\ file' = file
      BY <2>2 DEF Comment, Reading
    <3> QED BY <1>7, <2>1, <2>2, <3>1, CommentReads
  <2>3. CASE ReadBlank
    <3>1. mode' = "reading" /\ file' = file
      BY <2>3 DEF ReadBlank, Reading
    <3> QED BY <1>7, <2>1, <2>3, <3>1, BlankReads
  <2>4. CASE Reject
    <3>1. mode' = "error"
      BY <2>4 DEF Reject, Throw
    <3>2. Index \in DOMAIN input.says
      BY <1>1, IndexFacts
    <3>3. \E k \in DOMAIN input.says[Index] : ~Proper(input.says[Index][k])
      BY <1>7, <2>4, RejectReads DEF Said
    <3>4. \E i \in DOMAIN input'.says : \E k \in DOMAIN input'.says[i] : ~Proper(input'.says[i][k])
      BY <1>3, <3>2, <3>3
    <3> QED BY <3>1, <3>4 DEF Outcome
  <2>5. CASE EndOfFile
    <3>1. CASE cs \in Complete /\ Seen /\ file = 0
      <4>1. mode' = "duplicate" /\ file' = file
        BY <2>5, <3>1 DEF EndOfFile, Throw
      <4>2. Twice(Arrived[1])
        BY <1>7, <2>5, <3>1, EndTwice
      <4> QED BY <1>4, <3>1, <4>1, <4>2 DEF Outcome
    <3>2. CASE ~(cs \in Complete /\ Seen /\ file = 0)
      BY <1>2, <1>7, <2>5, <3>2, EndOutcome
    <3> QED BY <3>1, <3>2
  <2>6. ASSUME NEW s \in States, Read(s) PROVE Outcome'
    <3>1. mode' = "reading" /\ file' = file
      BY <2>6 DEF Read, Reading
    <3> QED BY <1>7, <2>1, <2>6, <3>1, ReadReads
  <2>7. ASSUME NEW s \in States, ReadNextDefinition(s) PROVE Outcome'
    <3>1. CASE Seen /\ file = 0
      <4>1. mode' = "duplicate" /\ file' = file
        BY <2>7, <3>1 DEF ReadNextDefinition, Throw
      <4>2. Twice(Arrived[1])
        BY <1>7, <2>7, <3>1, ReadNextTwice
      <4> QED BY <1>4, <3>1, <4>1, <4>2 DEF Outcome
    <3>2. CASE ~(Seen /\ file = 0)
      <4>1. mode' = "reading" /\ file' = file
        BY <2>7, <3>2 DEF ReadNextDefinition, Reading
      <4> QED BY <1>7, <2>1, <2>7, <3>2, <4>1, ReadNextReads
    <3> QED BY <3>1, <3>2
  <2>8. ASSUME NEW s \in States, ReadBroken(s) PROVE FALSE
    BY <1>7, <2>8, NeverBroken DEF ReadBroken, Reading
  <2> QED BY <1>2, <2>2, <2>3, <2>4, <2>5, <2>6, <2>7, <2>8 DEF Next
<1>8. AllReadable' => Outcome'
  BY <1>4, <1>7
<1> QED BY <1>1, <1>6, <1>8 DEF RInv

\* The invariant at first.
LEMMA InitReads == ASSUME RoundTripInit PROVE RInv
<1>1. MInv /\ Inv
  BY InitMaking DEF RoundTripInit, MInv
<1>2. /\ file = 0 /\ pos = 0 /\ cs = "top" /\ reg = NoRegisters /\ defs = <<>>
      /\ mode = "reading" /\ printed = FALSE
  BY DEF RoundTripInit, Init
<1>3. Base = <<>> /\ Base \in Seq(Definition)
  BY <1>1, <1>2, BaseFacts
<1>4. ASSUME AllReadable PROVE Outcome
  <2>1. Readable(Source, Said)
    BY <1>1, <1>4, IndexFacts DEF AllReadable, Said
  <2>2. Stage(Source, Said, Base, 0, "top", NoRegisters, FirstOfName(Base))
    BY <1>3, <2>1, StageBegin
  <2>3. FirstOfName(Base) = defs
    BY <1>2, <1>3, FirstOfNone
  <2>4. StageNow
    BY <1>2, <2>2, <2>3 DEF StageNow
  <2> QED BY <1>2, <2>4 DEF Outcome
<1> QED BY <1>1, <1>2, <1>4 DEF RInv

\* What is printed is readable, and declares what was printed.
LEMMA PrintReads == ASSUME RInv, PrintAndReadBack PROVE RInv'
<1> DEFINE t == PrintGrammar(defs)
<1>1. MInv' /\ Inv'
  BY PrintMaking DEF RInv, MInv
<1>2. /\ input' = [texts |-> <<t>>, says |-> <<defs>>] /\ printed' = TRUE
      /\ file' = 1 /\ pos' = 0 /\ cs' = "top" /\ reg' = NoRegisters /\ defs' = <<>>
      /\ mode' = "reading"
  BY DEF PrintAndReadBack
<1>3. defs \in Seq(Definition) /\ (\A k \in DOMAIN defs : Formed(defs[k])) /\ Unique(defs)
  BY DEF RInv, MInv, Inv, TypeOK, DefinitionsFormed, Unique
<1>4. Readable(t, defs) /\ Arriving(t, defs) = defs
  BY <1>3, PrintedText DEF Readable
<1>5. input'.texts = <<t>> /\ input'.says = <<defs>>
  BY <1>2
<1> HIDE DEF t
<1>6. /\ DOMAIN <<t>> = {1} /\ <<t>>[1] = t /\ <<defs>>[1] = defs /\ Len(<<t>>) = 1
  OBVIOUS
<1>7. AllReadable'
  BY <1>4, <1>5, <1>6 DEF AllReadable
<1>8. Arrived'[1] = defs
  BY <1>4, <1>5, <1>6 DEF Arrived
<1>9. Base' = <<>> /\ Base' \in Seq(Definition)
  <2>1. Base' = FlattenSeq(SubSeq(Arrived', 1, 0))
    BY <1>2 DEF Base, Before
  <2>2. Arrived' = <<defs>>
    BY <1>4, <1>5, <1>6 DEF Arrived
  <2>3. <<defs>> \in Seq(Seq(Definition))
    BY <1>3
  <2>4. FlattenSeq(SubSeq(<<defs>>, 1, 0)) = <<>>
    BY <2>3, FlattenUpTo
  <2>5. <<>> \in Seq(Definition)
    OBVIOUS
  <2>6. Base' = <<>>
    BY <2>1, <2>2, <2>4
  <2> QED BY <2>5, <2>6
<1>10. StageNow'
  <2>1. Source' = t /\ Said' = defs
    BY <1>2, <1>5, <1>6 DEF Source, Said, Index
  <2>2. Stage(t, defs, Base', 0, "top", NoRegisters, FirstOfName(Base'))
    BY <1>4, <1>9, StageBegin
  <2>3. FirstOfName(Base') = <<>>
    BY <1>9, FirstOfNone
  <2> QED BY <1>2, <2>1, <2>2, <2>3 DEF StageNow
<1>11. Outcome'
  BY <1>2, <1>10 DEF Outcome
<1> QED BY <1>1, <1>2, <1>3, <1>5, <1>6, <1>7, <1>8, <1>11 DEF RInv

\* What follows from it.
LEMMA OrderReadable ==
    ASSUME Inv, NEW i \in DOMAIN input.texts, InOrder(input.texts[i]),
           Declares(input.texts[i], input.says[i])
    PROVE  Readable(input.texts[i], input.says[i])
<1>1. input.texts[i] \in Seq(Lexeme) /\ input.says[i] \in Seq(Definition)
  BY IndexFacts, ElementOfSeq DEF Inv, TypeOK
<1>2. Spaced(input.texts[i])
  BY DEF InOrder, Spaced, May
<1> QED BY <1>1, <1>2 DEF Readable

\* Texts in good order are readable.
LEMMA WrittenRead == ASSUME RInv PROVE ReadsAsWritten
<1> SUFFICES ASSUME mode # "reading",
                    \A i \in DOMAIN input.texts :
                       /\ InOrder(input.texts[i])
                       /\ Declares(input.texts[i], input.says[i])
                       /\ \A k \in DOMAIN input.says[i] : Proper(input.says[i][k])
             PROVE  \/ mode = "done" /\ defs = FirstOfName(FlattenSeq(Arrived))
                    \/ mode = "duplicate" /\ Twice(Arrived[1])
  BY DEF ReadsAsWritten, Arrived, Twice
<1>1. Inv
  BY DEF RInv, MInv
<1>2. Outcome
  BY <1>1, OrderReadable DEF AllReadable, RInv
<1>3. mode # "error"
  BY <1>1, <1>2, IndexFacts DEF Outcome
<1>4. mode \in {"done", "duplicate"}
  BY <1>1, <1>2, <1>3 DEF Outcome, Inv, TypeOK
<1> QED BY <1>2, <1>4 DEF Outcome

\* What was printed has each name once.
LEMMA PrintedRead == ASSUME RInv PROVE SameReadBack
<1> SUFFICES ASSUME printed
             PROVE  /\ mode = "done" => defs = input.says[1]
                    /\ mode \notin {"duplicate", "null"}
                    /\ mode = "error" =>
                          \E k \in DOMAIN input.says[1] : ~Proper(input.says[1][k])
                    /\ mode = "done" =>
                          \A k \in DOMAIN input.says[1] : Proper(input.says[1][k])
  BY DEF SameReadBack
<1>1. /\ Inv /\ file = 1 /\ Len(input.texts) = 1 /\ Outcome
      /\ Unique(input.says[1]) /\ Arrived[1] = input.says[1]
  BY DEF RInv, MInv
<1>2. DOMAIN input.says = {1} /\ Said = input.says[1] /\ Index = 1 /\ Said \in Seq(Definition)
  BY <1>1, IndexFacts DEF Said, Index
<1>3. FlattenSeq(Arrived) = input.says[1]
  <2>1. Arrived \in Seq(Seq(Definition)) /\ Len(Arrived) = 1
    BY <1>1, ArrivedTyped
  <2>2. /\ FlattenSeq(SubSeq(Arrived, 1, 0)) = <<>>
        /\ FlattenSeq(SubSeq(Arrived, 1, Len(Arrived))) = FlattenSeq(Arrived)
        /\ \A k \in 1..Len(Arrived) :
              FlattenSeq(SubSeq(Arrived, 1, k)) = FlattenSeq(SubSeq(Arrived, 1, k - 1)) \o Arrived[k]
    BY <2>1, FlattenUpTo
  <2>3. FlattenSeq(Arrived) = <<>> \o Arrived[1]
    <3>1. 1 \in 1..Len(Arrived) /\ 1 - 1 = 0
      BY <2>1
    <3> QED BY <2>1, <2>2, <3>1
  <2> QED BY <1>1, <1>2, <2>3, Assoc
<1>4. FirstOfName(Said) = Said
  <2>1. \A k \in 1..Len(Said) : \A j \in 1..k - 1 : Said[j].name # Said[k].name
    BY <1>1, <1>2, LenProperties DEF Unique
  <2> QED BY <1>2, <2>1, FirstOfDistinct
<1> QED BY <1>1, <1>2, <1>3, <1>4 DEF Outcome

\* The invariant.
LEMMA RoundTripReads ==
    RoundTripSpec => []RInv
<1>1. RoundTripInit => RInv
  BY InitReads
<1>2. RInv /\ [RoundTripNext]_<<vars, printed>> => RInv'
  <2> SUFFICES ASSUME RInv, [RoundTripNext]_<<vars, printed>> PROVE RInv'
    OBVIOUS
  <2>1. CASE Parse
    BY <2>1, ParseReads
  <2>2. CASE PrintAndReadBack
    BY <2>2, PrintReads
  <2>3. CASE UNCHANGED <<vars, printed>>
    <3>1. MInv'
      <4>1. Inv'
        BY <2>3, NextInv DEF RInv, MInv
      <4> QED BY <2>3, <4>1 DEF vars, RInv, MInv, DefinitionsFormed
    <3>2. /\ input' = input /\ file' = file /\ printed' = printed /\ pos' = pos
          /\ cs' = cs /\ reg' = reg /\ defs' = defs /\ mode' = mode
      BY <2>3 DEF vars
    <3>3. AllReadable' = AllReadable
      BY <3>2 DEF AllReadable
    <3>4. Outcome' = Outcome
      BY <3>2, SameFile DEF Outcome, StageNow
    <3> QED BY <3>1, <3>2, <3>3, <3>4, SameFile DEF RInv
  <2> QED BY <2>1, <2>2, <2>3 DEF RoundTripNext
<1> QED BY <1>1, <1>2, PTL DEF RoundTripSpec

\* Texts in good order are read as what they declare, whatever the files are,
\* however many and long, and wherever they have comments: no register carries
\* anything over from one definition, comment or file into the next.
THEOREM TextsReadAsWritten == RoundTripSpec => []ReadsAsWritten
BY RoundTripReads, WrittenRead, PTL

\* What the parser made of any texts is printed and read again with the same
\* result; where a name was lost or a record has nothing but "...", the text is
\* rejected, never read as another grammar.
THEOREM PrintedReadBack == RoundTripSpec => []SameReadBack
BY RoundTripReads, PrintedRead, PTL

=============================================================================
