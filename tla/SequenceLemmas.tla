--------------------------- MODULE SequenceLemmas ---------------------------
(***************************************************************************)
(* Facts about numbers and sequences that proofs about several components  *)
(* rest on.                                                                *)
(* Induction is over a SET of numbers here: the induction theorems of the  *)
(* library take an operator as a parameter, which an instance of them would *)
(* need the provers to find.                                               *)
(***************************************************************************)
EXTENDS SequencesExt, SequenceTheorems, FiniteSetTheorems, TLAPS

\* A set of numbers up to n with 0 in it, and i with i - 1, is all of them.
LEMMA SetInduction ==
  ASSUME NEW n \in Nat, NEW S, 0 \in S,
         \A i \in 1..n : i - 1 \in S => i \in S
  PROVE  \A i \in 0..n : i \in S
<1> SUFFICES ASSUME \E i \in 0..n : i \notin S
             PROVE  FALSE
  OBVIOUS
<1> DEFINE Missing == {i \in 0..n : i \notin S}
           Segment(i) == 0..i
           Bad == {Segment(i) : i \in Missing}
           R == StrictSubsetOrdering(0..n)
<1>1. \A i \in 0..n : Segment(i) \in FiniteSubsetsOf(0..n)
  <2> TAKE i \in 0..n
  <2>1. IsFiniteSet(0..i)
    BY FS_Interval
  <2>2. 0..i \subseteq 0..n
    OBVIOUS
  <2> QED BY <2>1, <2>2 DEF FiniteSubsetsOf
<1>2. Bad # {} /\ Bad \subseteq FiniteSubsetsOf(0..n)
  BY <1>1
<1>3. IsWellFoundedOn(R, FiniteSubsetsOf(0..n))
  BY FS_StrictSubsetOrderingWellFounded
<1>4. PICK X \in Bad : \A Y \in Bad : ~ (<<Y, X>> \in R)
  <2> HIDE DEF Bad, R
  <2> QED BY <1>2, <1>3, WFMin
<1>5. PICK i \in Missing : X = Segment(i)
  BY <1>4
<1>6. i \in 1..n /\ i - 1 \in Missing
  <2>1. i # 0
    OBVIOUS
  <2> QED BY <2>1
<1>7. <<Segment(i - 1), Segment(i)>> \in R
  <2>1. Segment(i - 1) \subseteq Segment(i) /\ Segment(i - 1) # Segment(i)
    <3>1. i \in Segment(i) /\ i \notin Segment(i - 1)
      BY <1>6
    <3> QED BY <1>6, <3>1
  <2>2. Segment(i - 1) \in SUBSET (0..n) /\ Segment(i) \in SUBSET (0..n)
    BY <1>6
  <2> QED BY <2>1, <2>2 DEF StrictSubsetOrdering
<1> QED BY <1>4, <1>5, <1>6, <1>7

\* A set of numbers with a member has a least one.
LEMMA LeastExists ==
  ASSUME NEW S \in SUBSET Nat, S # {}
  PROVE  \E q \in S : \A r \in S : q <= r
<1> SUFFICES ASSUME \A q \in S : \E r \in S : r < q
             PROVE  FALSE
  OBVIOUS
<1>1. PICK m \in S : TRUE
  OBVIOUS
<1> DEFINE T == {i \in 0..m : \A j \in 0..i : j \notin S}
<1>2. 0 \in T
  OBVIOUS
<1>3. ASSUME NEW i \in 1..m, i - 1 \in T
      PROVE  i \in T
  <2>1. \A j \in 0..(i - 1) : j \notin S
    BY <1>3
  <2>2. i \notin S
    BY <2>1
  <2> QED BY <2>1, <2>2
<1>4. m \in T
  <2>1. m \in Nat /\ \A i \in 1..m : i - 1 \in T => i \in T
    BY <1>3
  <2>2. m \in 0..m
    OBVIOUS
  <2> HIDE DEF T
  <2>3. \A i \in 0..m : i \in T
    BY ONLY <1>2, <2>1, SetInduction, Zenon
  <2> QED BY <2>2, <2>3
<1> QED BY <1>1, <1>4

\* The functions on the numbers up to n that are base at 0 and go on by next.
Recursions(n, V, base, next) ==
  {f \in [0..n -> V] : f[0] = base /\ \A i \in 1..n : f[i] = next[<<i, f[i - 1]>>]}

\* There is one, from any base and any way to go on.
LEMMA RecursionExists ==
  ASSUME NEW n \in Nat, NEW V, NEW base \in V, NEW next \in [(1..n) \X V -> V]
  PROVE  Recursions(n, V, base, next) # {}
<1> DEFINE Good(f, k) == f[0] = base /\ \A i \in 1..k : f[i] = next[<<i, f[i - 1]>>]
           S == {k \in 0..n : \E f \in [0..n -> V] : Good(f, k)}
<1>1. 0 \in S
  <2>1. Good([i \in 0..n |-> base], 0) /\ [i \in 0..n |-> base] \in [0..n -> V]
    OBVIOUS
  <2> HIDE DEF Good
  <2> QED BY <2>1
<1>2. ASSUME NEW k \in 1..n, k - 1 \in S
      PROVE  k \in S
  <2>1. PICK f \in [0..n -> V] : Good(f, k - 1)
    BY <1>2
  <2> DEFINE g == [f EXCEPT ![k] = next[<<k, f[k - 1]>>]]
  <2>2. k - 1 \in 0..n /\ k \in 0..n
    OBVIOUS
  <2>3. f[k - 1] \in V /\ next[<<k, f[k - 1]>>] \in V
    BY <2>2
  <2>4. g \in [0..n -> V]
    BY <2>3
  <2>5. g[0] = base
    BY <2>1, <2>2
  <2>6. ASSUME NEW i \in 1..k
        PROVE  g[i] = next[<<i, g[i - 1]>>]
    <3>1. i - 1 \in 0..n /\ i - 1 # k /\ i \in 0..n
      OBVIOUS
    <3>2. g[i - 1] = f[i - 1]
      BY <3>1
    <3>3. CASE i = k
      BY <2>2, <3>2, <3>3
    <3>4. CASE i # k
      <4>1. g[i] = f[i] /\ i \in 1..(k - 1)
        BY <3>1, <3>4
      <4> QED BY <2>1, <3>2, <4>1
    <3> QED BY <3>3, <3>4
  <2>7. Good(g, k)
    BY <2>5, <2>6
  <2> HIDE DEF Good, g
  <2> QED BY <2>4, <2>7
<1>3. n \in S
  <2> HIDE DEF S
  <2>1. \A k \in 0..n : k \in S
    BY <1>1, <1>2, SetInduction
  <2> QED BY <2>1
<1> QED BY <1>3 DEF Recursions

\* Sequences of members of S, one after the other, make a sequence of members of S.
LEMMA FlattenType ==
  ASSUME NEW S, NEW seqs \in Seq(Seq(S))
  PROVE  FlattenSeq(seqs) \in Seq(S)
<1> DEFINE n == Len(seqs)
           next == [x \in (1..n) \X Seq(S) |->
                      IF x[1] = 1 THEN seqs[1] ELSE x[2] \o seqs[x[1]]]
<1>1. n \in Nat /\ DOMAIN seqs = 1..n /\ seqs \in [1..n -> Seq(S)]
  BY LenProperties
<1>2. CASE n = 0
  <2>1. seqs = <<>>
    BY <1>2, EmptySeq
  <2> QED BY <1>2, <2>1 DEF FlattenSeq
<1>3. CASE n # 0
  <2>1. next \in [(1..n) \X Seq(S) -> Seq(S)]
    <3>1. ASSUME NEW x \in (1..n) \X Seq(S)
          PROVE  (IF x[1] = 1 THEN seqs[1] ELSE x[2] \o seqs[x[1]]) \in Seq(S)
      <4>1. x[1] \in 1..n /\ x[2] \in Seq(S) /\ seqs[x[1]] \in Seq(S)
        BY <1>1
      <4>2. x[2] \o seqs[x[1]] \in Seq(S)
        BY <4>1, ConcatProperties
      <4>3. seqs[1] \in Seq(S)
        BY <1>1, <1>3
      <4> QED BY <4>2, <4>3
    <3> QED BY <3>1
  <2>2. PICK f \in [0..n -> Seq(S)] : \A i \in 1..n : f[i] = next[<<i, f[i - 1]>>]
    <3>1. <<>> \in Seq(S)
      BY EmptySeq
    <3> DEFINE V == Seq(S)
               base == <<>>
    <3>2. n \in Nat /\ base \in V /\ next \in [(1..n) \X V -> V]
      BY <1>1, <2>1, <3>1
    <3> HIDE DEF n, next, V, base
    <3>3. Recursions(n, V, base, next) # {}
      BY <3>2, RecursionExists
    <3> QED BY <3>3 DEF V, Recursions
  <2> DEFINE Flat(g) == g = [i \in 1..n |-> IF i = 1 THEN seqs[i] ELSE g[i - 1] \o seqs[i]]
             g0 == [i \in 1..n |-> f[i]]
  <2>3. \A i \in 1..n : f[i] = IF i = 1 THEN seqs[i] ELSE f[i - 1] \o seqs[i]
    <3> TAKE i \in 1..n
    <3>1. f[i - 1] \in Seq(S) /\ <<i, f[i - 1]>> \in (1..n) \X Seq(S)
      <4>1. i - 1 \in 0..n
        BY <1>1
      <4> QED BY <4>1
    <3> QED BY <2>2, <3>1
  <2>4. Flat(g0)
    <3>1. \A i \in 1..n : g0[i] = IF i = 1 THEN seqs[i] ELSE g0[i - 1] \o seqs[i]
      <4> TAKE i \in 1..n
      <4>1. i # 1 => i - 1 \in 1..n
        OBVIOUS
      <4> HIDE DEF n
      <4> QED BY <2>3, <4>1
    <3> QED BY <3>1
  <2> DEFINE flatten == CHOOSE g : Flat(g)
  <2>5. Flat(flatten)
    <3> HIDE DEF Flat, g0
    <3> QED BY <2>4
  <2>6. \A i \in 1..n : flatten[i] = IF i = 1 THEN seqs[i] ELSE flatten[i - 1] \o seqs[i]
    <3> HIDE DEF flatten
    <3> QED BY <2>5
  <2> HIDE DEF flatten
  <2>7. \A i \in 0..n : i \in {k \in 0..n : k = 0 \/ flatten[k] \in Seq(S)}
    <3> DEFINE T == {k \in 0..n : k = 0 \/ flatten[k] \in Seq(S)}
    <3>1. 0 \in T
      BY <1>1
    <3>2. ASSUME NEW i \in 1..n, i - 1 \in T
          PROVE  i \in T
      <4>1. seqs[i] \in Seq(S)
        BY <1>1
      <4>2. CASE i = 1
        BY <2>6, <4>1, <4>2
      <4>3. CASE i # 1
        <5>1. flatten[i - 1] \in Seq(S)
          BY <3>2, <4>3
        <5>2. flatten[i - 1] \o seqs[i] \in Seq(S)
          BY <4>1, <5>1, ConcatProperties
        <5>3. flatten[i] \in Seq(S)
          BY <2>6, <4>3, <5>2
        <5> QED BY <5>3
      <4> QED BY <4>2, <4>3
    <3> HIDE DEF T, n
    <3>3. \A i \in 0..n : i \in T
      BY <1>1, <3>1, <3>2, SetInduction
    <3> QED BY <3>3 DEF T
  <2>8. FlattenSeq(seqs) = flatten[n]
    BY <1>3 DEF FlattenSeq, flatten
  <2> QED BY <1>1, <1>3, <2>7, <2>8
<1> QED BY <1>2, <1>3

\* Fewer members, or one more at most.
LEMMA FewerOrOneMore ==
  ASSUME NEW S, NEW x, NEW T, IsFiniteSet(S), T \subseteq S \union {x}
  PROVE  /\ IsFiniteSet(T) /\ Cardinality(S) \in Nat /\ Cardinality(T) \in Nat
         /\ Cardinality(T) <= Cardinality(S) + 1
         /\ T \subseteq S => Cardinality(T) <= Cardinality(S)
<1>1. IsFiniteSet(S \union {x}) /\ Cardinality(S \union {x}) <= Cardinality(S) + 1
  <2>1. /\ IsFiniteSet(S \union {x})
        /\ Cardinality(S \union {x}) = IF x \in S THEN Cardinality(S) ELSE Cardinality(S) + 1
    BY FS_AddElement
  <2> DEFINE b == Cardinality(S)
             d == Cardinality(S \union {x})
  <2>2. b \in Nat /\ d = IF x \in S THEN b ELSE b + 1
    BY <2>1, FS_CardinalityType
  <2> HIDE DEF b, d
  <2>3. d <= b + 1
    BY <2>2
  <2> QED BY <2>1, <2>3 DEF b, d
<1>2. IsFiniteSet(T) /\ Cardinality(T) <= Cardinality(S \union {x})
  BY <1>1, FS_Subset
<1>3. T \subseteq S => Cardinality(T) <= Cardinality(S)
  BY FS_Subset
<1>4. Cardinality(S) \in Nat /\ Cardinality(T) \in Nat /\ Cardinality(S \union {x}) \in Nat
  BY <1>1, <1>2, FS_CardinalityType
<1>5. Cardinality(T) <= Cardinality(S) + 1
  <2> DEFINE c == Cardinality(T)
             d == Cardinality(S \union {x})
             b == Cardinality(S)
  <2>1. c \in Nat /\ d \in Nat /\ b \in Nat /\ c <= d /\ d <= b + 1
    BY <1>1, <1>2, <1>4
  <2> HIDE DEF c, d, b
  <2>2. c <= b + 1
    BY <2>1
  <2> QED BY <2>2 DEF c, b
<1> QED BY <1>2, <1>3, <1>4, <1>5

\* The first of some numbers is one of them.
LEMMA FirstIsOneOf ==
  ASSUME NEW at \in SUBSET Nat, at # {}
  PROVE  (CHOOSE i \in at : \A j \in at : i <= j) \in at
BY LeastExists

\* A sequence, of whatever.
IsSeq(s) == s \in Seq(ToSet(s))

\* The empty one.
LEMMA EmptyIsSeq == IsSeq(<<>>) /\ Len(<<>>) = 0
BY EmptySeq DEF IsSeq

\* What is left when the first is taken.
LEMMA TailIsSeq ==
  ASSUME NEW s, IsSeq(s), s # <<>>
  PROVE  /\ IsSeq(Tail(s)) /\ Len(s) \in Nat \ {0} /\ Len(Tail(s)) = Len(s) - 1
         /\ Head(s) = s[1] /\ \A i \in 1..Len(Tail(s)) : Tail(s)[i] = s[i + 1]
<1>1. s \in Seq(ToSet(s))
  BY DEF IsSeq
<1>2. /\ Tail(s) \in Seq(ToSet(s)) /\ Len(s) \in Nat \ {0} /\ Len(Tail(s)) = Len(s) - 1
      /\ Head(s) = s[1] /\ \A i \in 1..Len(Tail(s)) : Tail(s)[i] = s[i + 1]
  BY <1>1, HeadTailProperties, EmptySeq, LenProperties
<1>3. Tail(s) \in Seq(ToSet(Tail(s)))
  <2> DEFINE t == Tail(s)
  <2>1. t \in Seq(ToSet(s))
    BY <1>2
  <2> HIDE DEF t
  <2>2. t \in [1..Len(t) -> ToSet(t)] /\ Len(t) \in Nat
    BY <2>1, LenProperties DEF ToSet
  <2>3. t \in Seq(ToSet(t))
    BY <2>2, IsASeq
  <2> QED BY <2>3 DEF t
<1> QED BY <1>2, <1>3 DEF IsSeq

\* One more at its end.
LEMMA AppendIsSeq ==
  ASSUME NEW s, IsSeq(s), NEW x
  PROVE  /\ IsSeq(Append(s, x)) /\ Len(s) \in Nat /\ Len(Append(s, x)) = Len(s) + 1
         /\ Append(s, x)[Len(s) + 1] = x
         /\ \A i \in 1..Len(s) : Append(s, x)[i] = s[i]
<1> DEFINE t == Append(s, x)
<1>1. s \in Seq(ToSet(s) \union {x})
  <2>1. s \in [1..Len(s) -> ToSet(s) \union {x}] /\ Len(s) \in Nat
    BY LenProperties DEF IsSeq
  <2> QED BY <2>1, IsASeq
<1>2. /\ t \in Seq(ToSet(s) \union {x}) /\ Len(s) \in Nat /\ Len(t) = Len(s) + 1
      /\ t[Len(s) + 1] = x /\ \A i \in 1..Len(s) : t[i] = s[i]
  BY <1>1, AppendProperties, LenProperties
<1>3. t \in Seq(ToSet(t))
  <2> HIDE DEF t
  <2>1. t \in [1..Len(t) -> ToSet(t)] /\ Len(t) \in Nat
    BY <1>2, LenProperties DEF ToSet
  <2> QED BY <2>1, IsASeq
<1> QED BY <1>2, <1>3 DEF IsSeq

\* What is left was in it.
LEMMA TailMembers == ASSUME NEW s, IsSeq(s), s # <<>> PROVE ToSet(Tail(s)) \subseteq ToSet(s)
<1>1. /\ IsSeq(Tail(s)) /\ Len(s) \in Nat \ {0} /\ Len(Tail(s)) = Len(s) - 1
      /\ \A i \in 1..Len(Tail(s)) : Tail(s)[i] = s[i + 1]
  BY TailIsSeq
<1>2. DOMAIN s = 1..Len(s) /\ DOMAIN Tail(s) = 1..Len(Tail(s))
  BY <1>1, LenProperties DEF IsSeq
<1>3. ASSUME NEW i \in DOMAIN Tail(s)
      PROVE  i + 1 \in DOMAIN s /\ Tail(s)[i] = s[i + 1]
  BY <1>1, <1>2
<1> QED BY <1>3 DEF ToSet

\* Of finitely many things, each with a number, one has the greatest.
LEMMA GreatestOfFinite ==
  ASSUME NEW S, IsFiniteSet(S), S # {}, NEW f \in [S -> Nat]
  PROVE  \E x \in S : \A y \in S : f[y] <= f[x]
<1>1. PICK n \in Nat : ExistsSurjection(1..n, S)
  BY FS_NatSurjection
<1>8. PICK g \in [1..n -> S] : \A x \in S : \E i \in 1..n : g[i] = x
  BY <1>1 DEF ExistsSurjection, Surjection
<1> DEFINE Top(i, k) == k \in 1..n /\ \A j \in 1..i : f[g[j]] <= f[g[k]]
           T == {i \in 0..n : i = 0 \/ \E k \in 1..n : Top(i, k)}
<1>2. 0 \in T
  OBVIOUS
<1>3. ASSUME NEW i \in 1..n, i - 1 \in T
      PROVE  i \in T
  <2>1. \A k \in 1..n : g[k] \in S /\ f[g[k]] \in Nat
    OBVIOUS
  <2>2. CASE i = 1
    <3>1. Top(i, 1)
      BY <2>1, <2>2
    <3> QED BY <2>2, <3>1
  <2>3. CASE i # 1
    <3>1. PICK k \in 1..n : Top(i - 1, k)
      BY <1>3, <2>3
    <3>2. CASE f[g[i]] <= f[g[k]]
      <4>1. Top(i, k)
        <5>1. ASSUME NEW j \in 1..i
              PROVE  f[g[j]] <= f[g[k]]
          BY <3>1, <3>2
        <5> QED BY <3>1, <5>1
      <4>2. \E q \in 1..n : Top(i, q)
        BY <4>1
      <4> HIDE DEF Top
      <4> QED BY <4>2
    <3>3. CASE ~(f[g[i]] <= f[g[k]])
      <4>1. Top(i, i)
        <5>1. ASSUME NEW j \in 1..i
              PROVE  f[g[j]] <= f[g[i]]
          <6>1. CASE j = i
            BY <2>1, <6>1
          <6>2. CASE j # i
            <7>1. j \in 1..(i - 1) /\ j \in 1..n
              BY <6>2
            <7>2. f[g[j]] <= f[g[k]]
              BY <3>1, <7>1
            <7>3. f[g[j]] \in Nat /\ f[g[k]] \in Nat /\ f[g[i]] \in Nat
              BY <2>1, <7>1
            <7> QED BY <3>3, <7>2, <7>3
          <6> QED BY <6>1, <6>2
        <5> QED BY <5>1
      <4>2. \E q \in 1..n : Top(i, q)
        BY <4>1
      <4> HIDE DEF Top
      <4> QED BY <4>2
    <3> QED BY <3>2, <3>3
  <2> QED BY <2>2, <2>3
<1>4. n \in T
  <2> HIDE DEF T
  <2>1. \A i \in 0..n : i \in T
    BY <1>2, <1>3, SetInduction
  <2> QED BY <2>1
<1>5. n # 0
  BY <1>8
<1>6. PICK k \in 1..n : Top(n, k)
  BY <1>4, <1>5
<1>7. ASSUME NEW y \in S
      PROVE  f[y] <= f[g[k]]
  <2>1. PICK j \in 1..n : g[j] = y
    BY <1>8
  <2> QED BY <1>6, <2>1
<1> QED BY <1>6, <1>7

\* One more at its front.
LEMMA ConsIsSeq ==
  ASSUME NEW S, NEW s \in Seq(S), NEW x \in S
  PROVE  /\ <<x>> \o s \in Seq(S) /\ Len(s) \in Nat /\ Len(<<x>> \o s) = Len(s) + 1
         /\ (<<x>> \o s)[1] = x /\ \A i \in 1..Len(s) : (<<x>> \o s)[i + 1] = s[i]
<1> DEFINE t == <<x>>
           c == t \o s
<1>1. t \in Seq(S) /\ Len(t) = 1 /\ t[1] = x /\ Len(s) \in Nat
  BY LenProperties
<1> HIDE DEF t
<1>2. /\ c \in Seq(S) /\ Len(c) = Len(t) + Len(s)
      /\ \A i \in 1..(Len(t) + Len(s)) : c[i] = IF i <= Len(t) THEN t[i] ELSE s[i - Len(t)]
  BY <1>1, ConcatProperties
<1> HIDE DEF c
<1>3. c[1] = x
  BY <1>1, <1>2
<1>4. ASSUME NEW i \in 1..Len(s)
      PROVE  c[i + 1] = s[i]
  <2>1. i + 1 \in 1..(Len(t) + Len(s)) /\ ~(i + 1 <= Len(t)) /\ i + 1 - Len(t) = i
    BY <1>1
  <2> QED BY <1>2, <2>1
<1> QED BY <1>1, <1>2, <1>3, <1>4 DEF c, t
=============================================================================
