------------------------- MODULE ForensicLedgerProofs -------------------------
(***************************************************************************)
(* Proofs about ForensicLedger, for every value of its constants.          *)
(***************************************************************************)
EXTENDS ForensicLedger, SequenceLemmas

-----------------------------------------------------------------------------
(* The inductive invariant. *)

Before(s, t) == \A x \in Rows(s), y \in Rows(t) : x < y

\* The places that a row goes through, one after the other.  The committed table
\* may hold rows that the view does not hold any more, and a rollback brings them
\* back: it has to be in order with the places behind it on its own.
OrderInv ==
  /\ Increasing(ledger) /\ Increasing(view) /\ Increasing(batch) /\ Increasing(queue)
  /\ Before(ledger, batch) /\ Before(ledger, queue)
  /\ Before(view, batch) /\ Before(view, queue) /\ Before(batch, queue)

\* Rows have been recorded, and the one that waits is the last.
RecordedInv ==
  \A r \in Rows(ledger) \union Rows(view) \union Rows(batch) \union Rows(queue) :
    r <= calls /\ (caller = "full" => r < calls)

\* A committed row that the view has lost was deleted in it.
DeletedInv == Rows(ledger) \subseteq Rows(view) \union pruned

\* A caller waits with a row that it has recorded.
CallerInv == caller = "full" => calls > 0

AllAccounted == \A r \in 1..calls : Accounted(r)

LedgerInv ==
  /\ TypeOK /\ OrderInv /\ RecordedInv /\ DeletedInv /\ CallerInv /\ AllAccounted

-----------------------------------------------------------------------------
(* Rows of sequences, and their order. *)

LEMMA RowsType ==
  ASSUME NEW S, NEW s \in Seq(S)
  PROVE  Rows(s) \subseteq S /\ Rows(s) = {s[i] : i \in 1..Len(s)}
BY LenProperties DEF Rows

LEMMA RowsOfConcat ==
  ASSUME NEW s \in Seq(Nat), NEW t \in Seq(Nat)
  PROVE  /\ s \o t \in Seq(Nat)
         /\ Rows(s \o t) = Rows(s) \union Rows(t)
         /\ Increasing(s \o t) <=> Increasing(s) /\ Increasing(t) /\ Before(s, t)
<1> DEFINE st == s \o t
           m == Len(s)
           n == Len(t)
<1>1. /\ st \in Seq(Nat) /\ m \in Nat /\ n \in Nat
      /\ DOMAIN s = 1..m /\ DOMAIN t = 1..n /\ DOMAIN st = 1..(m + n)
      /\ \A i \in 1..m : s[i] \in Nat
      /\ \A i \in 1..n : t[i] \in Nat
      /\ \A i \in 1..(m + n) : st[i] = IF i <= m THEN s[i] ELSE t[i - m]
  BY ConcatProperties, LenProperties
<1> HIDE DEF st, m, n
<1>2. \A i \in 1..m : i \in DOMAIN st /\ st[i] = s[i]
  BY <1>1
<1>3. \A i \in 1..n : i + m \in DOMAIN st /\ st[i + m] = t[i]
  <2> TAKE i \in 1..n
  <2>1. ~ (i + m <= m) /\ (i + m) - m = i /\ i + m \in 1..(m + n)
    BY <1>1
  <2> QED BY <1>1, <2>1
<1>4. Rows(st) = Rows(s) \union Rows(t)
  <2>1. ASSUME NEW i \in DOMAIN st
        PROVE  st[i] \in Rows(s) \union Rows(t)
    <3>1. CASE i <= m
      <4>1. i \in DOMAIN s /\ st[i] = s[i]
        BY <1>1, <3>1
      <4> QED BY <4>1 DEF Rows
    <3>2. CASE ~(i <= m)
      <4>1. i - m \in DOMAIN t /\ st[i] = t[i - m]
        BY <1>1, <3>2
      <4> QED BY <4>1 DEF Rows
    <3> QED BY <3>1, <3>2
  <2>2. \A i \in DOMAIN s : s[i] \in Rows(st)
    BY <1>1, <1>2 DEF Rows
  <2>3. \A i \in DOMAIN t : t[i] \in Rows(st)
    BY <1>1, <1>3 DEF Rows
  <2>4. Rows(st) \subseteq Rows(s) \union Rows(t)
    BY <2>1 DEF Rows
  <2>5. Rows(s) \subseteq Rows(st) /\ Rows(t) \subseteq Rows(st)
    BY <2>2, <2>3 DEF Rows
  <2> QED BY <2>4, <2>5
<1>5. ASSUME Increasing(st)
      PROVE  Increasing(s) /\ Increasing(t) /\ Before(s, t)
  <2>1. Increasing(s)
    BY <1>1, <1>2, <1>5 DEF Increasing
  <2>2. Increasing(t)
    <3> SUFFICES ASSUME NEW i \in 1..n, NEW j \in 1..n, i < j
                 PROVE  t[i] < t[j]
      BY <1>1 DEF Increasing
    <3>1. i + m < j + m
      BY <1>1
    <3> QED BY <1>3, <1>5, <3>1 DEF Increasing
  <2>3. Before(s, t)
    <3> SUFFICES ASSUME NEW i \in 1..m, NEW j \in 1..n
                 PROVE  s[i] < t[j]
      BY <1>1 DEF Before, Rows
    <3>1. i < j + m
      BY <1>1
    <3> QED BY <1>2, <1>3, <1>5, <3>1 DEF Increasing
  <2> QED BY <2>1, <2>2, <2>3
<1>6. ASSUME Increasing(s), Increasing(t), Before(s, t)
      PROVE  Increasing(st)
  <2> SUFFICES ASSUME NEW i \in 1..(m + n), NEW j \in 1..(m + n), i < j
               PROVE  st[i] < st[j]
    BY <1>1 DEF Increasing
  <2>1. CASE j <= m
    <3>1. i \in 1..m /\ j \in 1..m
      BY <1>1, <2>1
    <3> QED BY <1>1, <1>2, <1>6, <3>1 DEF Increasing
  <2>2. CASE i <= m /\ ~(j <= m)
    <3>1. i \in 1..m /\ j - m \in 1..n
      BY <1>1, <2>2
    <3>2. s[i] \in Rows(s) /\ t[j - m] \in Rows(t)
      BY <1>1, <3>1 DEF Rows
    <3> QED BY <1>1, <1>6, <2>2, <3>2 DEF Before
  <2>3. CASE ~(i <= m)
    <3>1. i - m \in 1..n /\ j - m \in 1..n /\ i - m < j - m /\ ~(j <= m)
      BY <1>1, <2>3
    <3>2. t[i - m] < t[j - m]
      BY <1>1, <1>6, <3>1 DEF Increasing
    <3> QED BY <1>1, <2>3, <3>1, <3>2
  <2> QED BY <2>1, <2>2, <2>3
<1> QED BY <1>1, <1>4, <1>5, <1>6 DEF st

LEMMA RowsOfOne ==
  ASSUME NEW x \in Nat
  PROVE  <<x>> \in Seq(Nat) /\ Rows(<<x>>) = {x} /\ Increasing(<<x>>)
<1>1. <<x>> \in Seq(Nat) /\ DOMAIN <<x>> = {1} /\ <<x>>[1] = x
  OBVIOUS
<1> QED BY <1>1 DEF Rows, Increasing

LEMMA RowsOfAppend ==
  ASSUME NEW s \in Seq(Nat), NEW x \in Nat
  PROVE  /\ Rows(Append(s, x)) = Rows(s) \union {x}
         /\ Increasing(s) /\ (\A y \in Rows(s) : y < x) => Increasing(Append(s, x))
<1>1. Append(s, x) = s \o <<x>>
  BY AppendIsConcat
<1>2. <<x>> \in Seq(Nat) /\ Rows(<<x>>) = {x} /\ Increasing(<<x>>)
  BY RowsOfOne
<1> DEFINE t == <<x>>
<1> HIDE DEF t
<1>3. /\ Rows(s \o t) = Rows(s) \union Rows(t)
      /\ Increasing(s) /\ Increasing(t) /\ Before(s, t) => Increasing(s \o t)
  BY <1>2, RowsOfConcat DEF t
<1> QED BY <1>1, <1>2, <1>3 DEF t, Before

\* The batch takes the head of the queue.
LEMMA RowsOfHeadTail ==
  ASSUME NEW s \in Seq(Nat), s # <<>>
  PROVE  /\ Head(s) \in Nat /\ Tail(s) \in Seq(Nat) /\ Len(Tail(s)) = Len(s) - 1
         /\ Rows(s) = {Head(s)} \union Rows(Tail(s))
         /\ Increasing(s) => /\ Increasing(Tail(s))
                             /\ \A y \in Rows(Tail(s)) : Head(s) < y
<1>1. /\ Head(s) \in Nat /\ Tail(s) \in Seq(Nat) /\ Len(Tail(s)) = Len(s) - 1
      /\ \A i \in 1..Len(Tail(s)) : Tail(s)[i] = s[i + 1]
  BY HeadTailProperties
<1>2. Len(s) \in Nat \ {0} /\ Head(s) = s[1]
      /\ DOMAIN s = 1..Len(s) /\ DOMAIN Tail(s) = 1..(Len(s) - 1)
  BY <1>1, LenProperties, EmptySeq
<1>3. \A i \in DOMAIN s : i = 1 \/ (i - 1 \in DOMAIN Tail(s) /\ Tail(s)[i - 1] = s[i])
  BY <1>1, <1>2
<1>4. \A i \in DOMAIN Tail(s) : i + 1 \in DOMAIN s /\ Tail(s)[i] = s[i + 1]
  BY <1>1, <1>2
<1>5. Rows(s) = {Head(s)} \union Rows(Tail(s))
  <2>1. \A x \in Rows(s) : x = Head(s) \/ x \in Rows(Tail(s))
    BY <1>2, <1>3, ZenonT(30) DEF Rows
  <2>2. \A x \in Rows(Tail(s)) : x \in Rows(s)
    BY <1>4 DEF Rows
  <2>3. Head(s) \in Rows(s)
    BY <1>2 DEF Rows
  <2> QED BY <2>1, <2>2, <2>3
<1>6. ASSUME Increasing(s)
      PROVE  Increasing(Tail(s)) /\ \A y \in Rows(Tail(s)) : Head(s) < y
  <2>1. \A i \in DOMAIN Tail(s) : 1 < i + 1 /\ 1 \in DOMAIN s
    BY <1>2
  <2>2. \A i, j \in DOMAIN Tail(s) : i < j => i + 1 < j + 1
    BY <1>2
  <2> QED BY <1>2, <1>4, <1>6, <2>1, <2>2 DEF Increasing, Rows
<1> QED BY <1>1, <1>5, <1>6

\* What executemany gets done before it raises, and the rest.
LEMMA RowsOfPrefix ==
  ASSUME NEW S \in SUBSET Nat, NEW s \in Seq(S), NEW k \in 0..Len(s)
  PROVE  /\ SubSeq(s, 1, k) \in Seq(S) /\ SubSeq(s, k + 1, Len(s)) \in Seq(S)
         /\ Rows(s) = Rows(SubSeq(s, 1, k)) \union Rows(SubSeq(s, k + 1, Len(s)))
         /\ Increasing(s) => Increasing(SubSeq(s, 1, k))
<1>1. Len(s) \in Nat /\ \A i \in 1..Len(s) : s[i] \in S
  BY LenProperties
<1>2. SubSeq(s, 1, k) \in Seq(S) /\ SubSeq(s, k + 1, Len(s)) \in Seq(S)
  <2>1. \A i \in 1..k : s[i] \in S
    BY <1>1
  <2>2. \A i \in (k + 1)..Len(s) : s[i] \in S
    BY <1>1
  <2>3. k \in Int /\ k + 1 \in Int /\ Len(s) \in Int
    BY <1>1
  <2> QED BY <2>1, <2>2, <2>3, SubSeqProperties
<1>3. s = SubSeq(s, 1, k) \o SubSeq(s, k + 1, Len(s))
  <2>1. 1 \in 1..Len(s) + 1 /\ k \in 1 - 1..Len(s) /\ Len(s) \in k..Len(s)
    BY <1>1
  <2>2. SubSeq(s, 1, k) \o SubSeq(s, k + 1, Len(s)) = SubSeq(s, 1, Len(s))
    BY <2>1, ConcatAdjacentSubSeq
  <2> QED BY <2>2, SubSeqFull
<1> DEFINE p == SubSeq(s, 1, k)
           q == SubSeq(s, k + 1, Len(s))
<1>4. p \in Seq(Nat) /\ q \in Seq(Nat) /\ s = p \o q
  BY <1>2, <1>3, SeqMonotonic
<1> HIDE DEF p, q
<1>5. Rows(s) = Rows(p) \union Rows(q) /\ (Increasing(s) => Increasing(p))
  BY <1>4, RowsOfConcat
<1> QED BY <1>2, <1>5 DEF p, q

\* DELETE leaves the rows that are not old, in their order.
LEMMA RowsOfWithout ==
  ASSUME NEW S \in SUBSET Nat, NEW s \in Seq(S), NEW old
  PROVE  /\ Without(s, old) \in Seq(S)
         /\ Rows(Without(s, old)) = Rows(s) \ old
         /\ Increasing(s) => Increasing(Without(s, old))
<1> DEFINE n == Len(s)
           V == Seq(S)
           next == [x \in (1..n) \X V |->
                      IF s[x[1]] \in old THEN x[2] ELSE Append(x[2], s[x[1]])]
<1>1. n \in Nat /\ DOMAIN s = 1..n /\ \A i \in 1..n : s[i] \in S
  BY LenProperties
<1>2. next \in [(1..n) \X V -> V]
  <2>1. ASSUME NEW x \in (1..n) \X V
        PROVE  (IF s[x[1]] \in old THEN x[2] ELSE Append(x[2], s[x[1]])) \in V
    <3>1. x[1] \in 1..n /\ x[2] \in Seq(S) /\ s[x[1]] \in S
      BY <1>1
    <3> QED BY <3>1, AppendProperties
  <2> HIDE DEF V, n
  <2> QED BY <2>1
<1>3. PICK f \in [0..n -> V] :
        f[0] = <<>> /\ \A i \in 1..n : f[i] = next[<<i, f[i - 1]>>]
  <2> DEFINE base == <<>>
  <2>1. base \in V
    BY EmptySeq
  <2> HIDE DEF n, next, V, base
  <2>2. Recursions(n, V, base, next) # {}
    BY <1>1, <1>2, <2>1, RecursionExists
  <2> QED BY <2>2 DEF Recursions, base
<1> DEFINE Keeps(g) ==
             g = [i \in 0..n |->
                    IF i = 0 THEN <<>>
                    ELSE IF s[i] \in old THEN g[i - 1] ELSE Append(g[i - 1], s[i])]
           kept == CHOOSE g : Keeps(g)
<1>4. Keeps(f)
  <2>1. ASSUME NEW i \in 0..n
        PROVE  f[i] = IF i = 0 THEN <<>>
                      ELSE IF s[i] \in old THEN f[i - 1] ELSE Append(f[i - 1], s[i])
    <3>1. CASE i = 0
      BY <1>3, <3>1
    <3>2. CASE i # 0
      <4>1. i \in 1..n /\ i - 1 \in 0..n
        BY <1>1, <3>2
      <4>2. <<i, f[i - 1]>> \in (1..n) \X V
        BY <4>1
      <4> QED BY <1>3, <3>2, <4>1, <4>2
    <3> QED BY <3>1, <3>2
  <2> HIDE DEF n, V, next
  <2> QED BY <2>1
<1>5. Keeps(kept)
  <2> HIDE DEF Keeps
  <2> QED BY <1>4
<1>6. /\ kept[0] = <<>>
      /\ \A i \in 1..n : kept[i] = IF s[i] \in old THEN kept[i - 1]
                                   ELSE Append(kept[i - 1], s[i])
  <2> HIDE DEF kept
  <2>1. \A i \in 0..n : kept[i] = IF i = 0 THEN <<>>
                                  ELSE IF s[i] \in old THEN kept[i - 1]
                                       ELSE Append(kept[i - 1], s[i])
    BY <1>5
  <2> HIDE DEF n, Keeps
  <2>2. 0 \in 0..n /\ \A i \in 1..n : i \in 0..n /\ i # 0
    BY <1>1
  <2> QED BY <2>1, <2>2
<1>7. Without(s, old) = kept[n]
  BY DEF Without
<1> HIDE DEF kept
<1> DEFINE First(i) == {s[j] : j \in 1..i}
           Fine(i) == /\ kept[i] \in Seq(S)
                      /\ Rows(kept[i]) = First(i) \ old
                      /\ Increasing(s) => Increasing(kept[i])
           T == {i \in 0..n : Fine(i)}
<1>8. 0 \in T
  <2>1. <<>> \in Seq(S) /\ Rows(<<>>) = {} /\ Increasing(<<>>)
    BY EmptySeq DEF Rows, Increasing
  <2>2. First(0) = {} /\ 0 \in 0..n
    BY <1>1
  <2> HIDE DEF First, n
  <2>3. Fine(0)
    BY <1>6, <2>1, <2>2
  <2> HIDE DEF Fine
  <2> QED BY <2>2, <2>3
<1>9. ASSUME NEW i \in 1..n, i - 1 \in T
      PROVE  i \in T
  <2>1. /\ kept[i - 1] \in Seq(S) /\ Rows(kept[i - 1]) = First(i - 1) \ old
        /\ Increasing(s) => Increasing(kept[i - 1])
    BY <1>9
  <2>2. First(i) = First(i - 1) \union {s[i]} /\ s[i] \in S
    <3>1. 1..i = 1..(i - 1) \union {i}
      BY <1>1
    <3> QED BY <1>1, <3>1
  <2>3. CASE s[i] \in old
    BY <1>6, <2>1, <2>2, <2>3
  <2>4. CASE s[i] \notin old
    <3>1. kept[i] = Append(kept[i - 1], s[i])
      BY <1>6, <2>4
    <3>2. kept[i] \in Seq(S) /\ kept[i - 1] \in Seq(Nat) /\ s[i] \in Nat
      BY <2>1, <2>2, <3>1, AppendProperties, SeqMonotonic, ZenonT(30)
    <3>3. Rows(kept[i]) = First(i) \ old
      BY <2>1, <2>2, <2>4, <3>1, <3>2, RowsOfAppend
    <3>4. ASSUME Increasing(s)
          PROVE  Increasing(kept[i])
      <4>1. \A y \in First(i - 1) : y < s[i]
        <5>1. \A j \in 1..(i - 1) : j \in DOMAIN s /\ i \in DOMAIN s /\ j < i
          BY <1>1
        <5> QED BY <3>4, <5>1 DEF Increasing
      <4>2. \A y \in Rows(kept[i - 1]) : y < s[i]
        BY <2>1, <4>1
      <4> QED BY <2>1, <3>1, <3>2, <3>4, <4>2, RowsOfAppend
    <3> HIDE DEF First
    <3> QED BY <3>2, <3>3, <3>4
  <2> QED BY <2>3, <2>4
<1>10. n \in T
  <2> HIDE DEF T, n
  <2>1. n \in Nat /\ n \in 0..n
    BY <1>1
  <2>2. \A i \in 1..n : i - 1 \in T => i \in T
    BY <1>9
  <2>3. \A i \in 0..n : i \in T
    BY <1>8, <2>1, <2>2, SetInduction
  <2> QED BY <2>1, <2>3
<1>11. First(n) = Rows(s)
  BY <1>1 DEF Rows
<1> QED BY <1>7, <1>10, <1>11

-----------------------------------------------------------------------------

LEMMA LedgerInitially == Init => LedgerInv
<1> SUFFICES ASSUME Init PROVE LedgerInv
  OBVIOUS
<1> USE LedgerAssumption DEF Init
<1>1. <<>> \in Seq(Records) /\ Len(<<>>) = 0 /\ Rows(<<>>) = {} /\ Increasing(<<>>)
  BY EmptySeq DEF Rows, Increasing
<1>2. TypeOK
  <2>1. ledger \in Seq(Records) /\ view \in Seq(Records) /\ queue \in Seq(Records)
        /\ batch \in Seq(Records) /\ Len(queue) = 0 /\ Len(batch) = 0
    BY <1>1
  <2>2. 0 <= QueueSize /\ 0 <= MaxBatch /\ calls \in 0..MaxRecords /\ faults \in 0..MaxFaults
    OBVIOUS
  <2>3. main = "down" /\ stop = FALSE /\ caller = "idle" /\ writerPc = "closed"
        /\ dropped = {} /\ lost = {} /\ pruned = {}
        /\ queued = {} /\ owed = {} /\ left = {}
    OBVIOUS
  <2> QED BY ONLY <2>1, <2>2, <2>3 DEF TypeOK
<1>3. OrderInv /\ RecordedInv /\ DeletedInv /\ CallerInv /\ AllAccounted
  BY <1>1 DEF OrderInv, Before, RecordedInv, DeletedInv, CallerInv, AllAccounted, Accounted
<1> QED BY <1>2, <1>3 DEF LedgerInv

-----------------------------------------------------------------------------
(* Every step keeps the invariant: record(), ... *)

LEMMA SeqTypes ==
  ASSUME TypeOK
  PROVE  /\ ledger \in Seq(Nat) /\ view \in Seq(Nat) /\ queue \in Seq(Nat) /\ batch \in Seq(Nat)
         /\ Rows(ledger) \subseteq Records /\ Rows(view) \subseteq Records
         /\ Rows(queue) \subseteq Records /\ Rows(batch) \subseteq Records
         /\ Records \subseteq Nat /\ calls \in Nat
<1>1. Records \subseteq Nat
  BY DEF Records
<1>2. /\ ledger \in Seq(Records) /\ view \in Seq(Records)
      /\ queue \in Seq(Records) /\ batch \in Seq(Records) /\ calls \in Nat
  BY DEF TypeOK
<1>3. \A s \in Seq(Records) : s \in Seq(Nat) /\ Rows(s) \subseteq Records
  BY <1>1, SeqMonotonic, RowsType
<1> QED BY <1>1, <1>2, <1>3

\* A row is put at the end of the queue: it has been recorded after all others.
LEMMA PutKeeps ==
  ASSUME LedgerInv, calls' \in Records, queue' = Append(queue, calls'),
         \/ calls' = calls + 1 /\ caller = "idle" /\ UNCHANGED caller
         \/ calls' = calls /\ caller = "full" /\ caller' = "idle",
         Len(queue) < QueueSize,
         UNCHANGED <<table, process, writer, history>>
  PROVE  LedgerInv'
<1> USE DEF LedgerInv, table, process, writer, history, endings
<1>1. /\ queue \in Seq(Nat) /\ Rows(ledger) \subseteq Nat /\ Rows(view) \subseteq Nat
      /\ Rows(queue) \subseteq Nat /\ Rows(batch) \subseteq Nat
      /\ calls \in Nat /\ calls' \in Nat
  BY SeqTypes
<1>2. \A r \in Rows(ledger) \union Rows(view) \union Rows(batch) \union Rows(queue) : r < calls'
  BY <1>1 DEF RecordedInv
<1>3. Rows(queue') = Rows(queue) \union {calls'} /\ Increasing(queue')
  BY <1>1, <1>2, RowsOfAppend DEF OrderInv
<1>4. TypeOK'
  <2>1. queue' \in Seq(Records) /\ Len(queue') = Len(queue) + 1 /\ Len(queue) \in Nat
    BY AppendProperties, LenProperties DEF TypeOK
  <2>2. Len(queue') <= QueueSize
    BY <2>1, LedgerAssumption
  <2>3. calls' \in 0..MaxRecords /\ caller' \in {"idle", "full"}
    BY LedgerAssumption DEF Records
  <2> QED BY <2>1, <2>2, <2>3 DEF TypeOK
<1>5. OrderInv'
  BY <1>1, <1>2, <1>3 DEF OrderInv, Before
<1>6. RecordedInv' /\ DeletedInv' /\ CallerInv'
  BY <1>1, <1>2, <1>3 DEF RecordedInv, DeletedInv, CallerInv
<1>7. AllAccounted'
  BY <1>1, <1>3 DEF AllAccounted, Accounted
<1> QED BY <1>4, <1>5, <1>6, <1>7

\* A row is not accepted.
LEMMA DropKeeps ==
  ASSUME LedgerInv, calls' \in Records, dropped' = dropped \union {calls'},
         \/ calls' = calls + 1 /\ caller = "idle" /\ UNCHANGED caller
         \/ calls' = calls /\ caller = "full" /\ caller' = "idle",
         UNCHANGED <<table, process, queue, writer, lost, pruned, endings, faults>>
  PROVE  LedgerInv'
<1> USE DEF LedgerInv, table, process, writer, endings
<1>1. /\ Rows(ledger) \subseteq Nat /\ Rows(view) \subseteq Nat
      /\ Rows(queue) \subseteq Nat /\ Rows(batch) \subseteq Nat
      /\ calls \in Nat /\ calls' \in Nat
  BY SeqTypes
<1>2. TypeOK'
  BY LedgerAssumption DEF TypeOK, Records
<1>3. OrderInv' /\ DeletedInv'
  BY DEF OrderInv, Before, DeletedInv
<1>4. RecordedInv' /\ CallerInv'
  BY <1>1 DEF RecordedInv, CallerInv
<1>5. AllAccounted'
  BY <1>1 DEF AllAccounted, Accounted
<1> QED BY <1>2, <1>3, <1>4, <1>5

LEMMA RecordKeeps ==
  ASSUME LedgerInv, Record
  PROVE  LedgerInv'
<1>1. calls \in Nat /\ MaxRecords \in Nat
  BY SeqTypes, LedgerAssumption DEF LedgerInv
<1>2. calls < MaxRecords => calls + 1 \in Records
  BY <1>1 DEF Records
<1>3. caller = "full" => calls \in Records
  BY <1>1 DEF LedgerInv, CallerInv, TypeOK, Records
<1>4. CASE RecordMissed
  BY <1>2, <1>4, DropKeeps DEF RecordMissed, Recording
<1>5. CASE RecordPut
  BY <1>2, <1>5, PutKeeps DEF RecordPut, Recording
<1>6. CASE RecordFull
  <2>1. CASE WaitsWhenFull
    <3> USE DEF LedgerInv, table, process, writer, endings
    <3>1. /\ caller' = "full" /\ calls' = calls + 1 /\ calls < MaxRecords
          /\ UNCHANGED <<table, process, queue, writer, dropped, lost, pruned, endings, faults>>
      BY <1>6, <2>1 DEF RecordFull, Recording
    <3>2. /\ Rows(ledger) \subseteq Nat /\ Rows(view) \subseteq Nat
          /\ Rows(queue) \subseteq Nat /\ Rows(batch) \subseteq Nat
      BY SeqTypes
    <3>3. TypeOK'
      BY <1>1, <3>1 DEF TypeOK
    <3>4. OrderInv' /\ DeletedInv' /\ CallerInv'
      BY <1>1, <3>1 DEF OrderInv, Before, DeletedInv, CallerInv
    <3>5. RecordedInv'
      BY <1>1, <3>1, <3>2 DEF RecordedInv
    <3>6. AllAccounted'
      <4>1. caller = "idle"
        BY <1>6 DEF RecordFull, Recording
      <4> QED BY <1>1, <3>1, <4>1 DEF AllAccounted, Accounted
    <3> QED BY <3>3, <3>4, <3>5, <3>6
  <2>2. CASE ~WaitsWhenFull
    BY <1>2, <1>6, <2>2, DropKeeps DEF RecordFull, Recording
  <2> QED BY <2>1, <2>2
<1>7. CASE WaitPut
  BY <1>3, <1>7, PutKeeps DEF WaitPut
<1>8. CASE WaitDrops
  BY <1>3, <1>8, DropKeeps DEF WaitDrops
<1> QED BY <1>4, <1>5, <1>6, <1>7, <1>8 DEF Record

-----------------------------------------------------------------------------
(* ... the writer, ... *)

\* Steps of control, which move no row.
LEMMA ControlKeeps ==
  ASSUME LedgerInv,
         UNCHANGED <<table, queue, calls, caller, batch, dropped, lost, pruned, left, faults>>,
         queued' \subseteq Records, owed' \subseteq Records,
         main' \in {"down", "starting", "running", "stopping"}, stop' \in BOOLEAN,
         writerPc' \in {"top", "drain", "insert", "prune", "flush", "final", "close", "closed"}
  PROVE  LedgerInv'
<1> USE DEF LedgerInv, table
<1>1. TypeOK'
  BY DEF TypeOK
<1>2. OrderInv' /\ RecordedInv' /\ DeletedInv' /\ CallerInv'
  BY DEF OrderInv, Before, RecordedInv, DeletedInv, CallerInv
<1>3. AllAccounted'
  BY DEF AllAccounted, Accounted
<1> QED BY <1>1, <1>2, <1>3

LEMMA DrainGetKeeps ==
  ASSUME LedgerInv, DrainGet
  PROVE  LedgerInv'
<1> USE DEF LedgerInv, DrainGet, table, process, history, endings
<1> DEFINE head == Head(queue)
<1>1. /\ queue \in Seq(Nat) /\ batch \in Seq(Nat) /\ Rows(queue) \subseteq Records
      /\ queue # <<>> /\ Increasing(queue) /\ Increasing(batch) /\ Before(batch, queue)
  BY SeqTypes DEF OrderInv
<1>2. /\ head \in Nat /\ Rows(queue) = {head} \union Rows(queue')
      /\ Len(queue') = Len(queue) - 1
      /\ Increasing(queue') /\ \A y \in Rows(queue') : head < y
  BY <1>1, RowsOfHeadTail
<1> HIDE DEF head
<1>3. batch' = Append(batch, head)
  BY DEF head
<1>4. Rows(batch') = Rows(batch) \union {head} /\ Increasing(batch')
  BY <1>1, <1>2, <1>3, RowsOfAppend DEF Before
<1>5. TypeOK'
  <2>1. queue' \in Seq(Records) /\ Len(queue) \in Nat /\ Len(batch) \in Nat
    BY <1>1, HeadTailProperties, LenProperties DEF TypeOK
  <2>2. batch' \in Seq(Records) /\ Len(batch') = Len(batch) + 1
    BY <1>1, <1>2, <1>3, AppendProperties DEF TypeOK
  <2>3. Len(queue') <= QueueSize /\ Len(batch') <= MaxBatch
    BY <1>2, <2>1, <2>2, LedgerAssumption DEF TypeOK
  <2> QED BY <2>1, <2>2, <2>3 DEF TypeOK
<1>6. OrderInv'
  BY <1>1, <1>2, <1>4 DEF OrderInv, Before
<1>7. RecordedInv' /\ DeletedInv' /\ CallerInv'
  BY <1>2, <1>4 DEF RecordedInv, DeletedInv, CallerInv
<1>8. AllAccounted'
  BY <1>2, <1>4 DEF AllAccounted, Accounted
<1> QED BY <1>5, <1>6, <1>7, <1>8

\* The batch is gone: k rows of it are in the view, the others are lost.
LEMMA InsertKeeps ==
  ASSUME LedgerInv, NEW k \in 0..Len(batch), batch' = <<>>,
         view' = view \o SubSeq(batch, 1, k), ledger' \in {ledger, view'},
         lost' = lost \union Rows(SubSeq(batch, k + 1, Len(batch))),
         faults' \in 0..MaxFaults, writerPc' \in {"close", "prune"},
         UNCHANGED <<process, queue, calls, caller, dropped, pruned, endings>>
  PROVE  LedgerInv'
<1> USE DEF LedgerInv, process, endings
<1>1. /\ view \in Seq(Nat) /\ batch \in Seq(Nat)
      /\ Rows(ledger) \subseteq Records /\ Rows(view) \subseteq Records
      /\ Rows(queue) \subseteq Records /\ Rows(batch) \subseteq Records
      /\ Records \subseteq Nat /\ calls \in Nat
  BY SeqTypes
<1> DEFINE p == SubSeq(batch, 1, k)
           q == SubSeq(batch, k + 1, Len(batch))
<1>2. /\ p \in Seq(Records) /\ q \in Seq(Records) /\ p \in Seq(Nat)
      /\ Rows(batch) = Rows(p) \union Rows(q) /\ Increasing(p)
  BY <1>1, RowsOfPrefix, SeqMonotonic DEF OrderInv, TypeOK
<1>3. view' = view \o p /\ lost' = lost \union Rows(q)
  OBVIOUS
<1> HIDE DEF p, q
<1>4. Rows(view') = Rows(view) \union Rows(p) /\ Increasing(view')
  <2>1. /\ Rows(view \o p) = Rows(view) \union Rows(p)
        /\ Increasing(view) /\ Increasing(p) /\ Before(view, p) => Increasing(view \o p)
    BY <1>1, <1>2, RowsOfConcat
  <2>2. Increasing(view) /\ Before(view, p)
    BY <1>2 DEF OrderInv, Before
  <2> QED BY <1>2, <1>3, <2>1, <2>2
<1>5. Rows(batch') = {} /\ Increasing(batch') /\ Len(batch') = 0 /\ batch' \in Seq(Records)
  BY EmptySeq DEF Rows, Increasing
<1>6. view' \in Seq(Records)
  BY <1>2, <1>3, ConcatProperties DEF TypeOK
<1>7. TypeOK'
  <2>1. ledger' \in Seq(Records) /\ queue' \in Seq(Records)
    BY <1>6 DEF TypeOK
  <2>2. /\ lost' \subseteq Records /\ dropped' \subseteq Records /\ pruned' \subseteq Records
        /\ queued' \subseteq Records /\ owed' \subseteq Records /\ left' \subseteq Records
    BY <1>1, <1>2, <1>3 DEF TypeOK
  <2>3. /\ main' \in {"down", "starting", "running", "stopping"} /\ stop' \in BOOLEAN
        /\ Len(queue') <= QueueSize /\ calls' \in 0..MaxRecords /\ caller' \in {"idle", "full"}
        /\ writerPc' \in {"top", "drain", "insert", "prune", "flush", "final", "close", "closed"}
    BY DEF TypeOK
  <2>4. Len(batch') <= MaxBatch
    BY <1>5, LedgerAssumption
  <2> HIDE DEF LedgerInv, process, endings
  <2> QED BY <1>5, <1>6, <2>1, <2>2, <2>3, <2>4 DEF TypeOK
<1>8. OrderInv'
  BY <1>2, <1>4, <1>5 DEF OrderInv, Before
<1>9. RecordedInv' /\ DeletedInv' /\ CallerInv'
  BY <1>2, <1>4, <1>5 DEF RecordedInv, DeletedInv, CallerInv
<1>10. AllAccounted'
  BY <1>2, <1>3, <1>4, <1>5 DEF AllAccounted, Accounted, DeletedInv
<1> QED BY <1>7, <1>8, <1>9, <1>10

\* What was not committed is gone, with the queue, the batch or the caller's row,
\* or without them, and what the view had deleted is back.
LEMMA RollbackKeeps ==
  ASSUME LedgerInv, view' = ledger, pruned' = pruned \ Rows(ledger),
         queue' \in {queue, <<>>}, batch' \in {batch, <<>>}, caller' \in {caller, "idle"},
         lost' \subseteq Records, left' \subseteq Records,
         \A r \in Rows(view) \union Rows(queue) \union Rows(batch) \union lost \union left :
           r \in lost' \union left' \union Rows(ledger) \union Rows(queue') \union Rows(batch'),
         caller = "full" => caller' = caller \/ calls \in lost' \union left',
         main' \in {"down", "starting", "running", "stopping"}, stop' \in BOOLEAN,
         writerPc' \in {"top", "drain", "insert", "prune", "flush", "final", "close", "closed"},
         faults' \in 0..MaxFaults,
         UNCHANGED <<ledger, calls, dropped, queued, owed>>
  PROVE  LedgerInv'
<1> USE DEF LedgerInv
<1>1. Rows(<<>>) = {} /\ Increasing(<<>>) /\ Len(<<>>) = 0 /\ <<>> \in Seq(Records)
  BY EmptySeq DEF Rows, Increasing
<1>2. /\ Rows(queue') \in {Rows(queue), {}} /\ Rows(batch') \in {Rows(batch), {}}
      /\ (Increasing(queue) => Increasing(queue')) /\ (Increasing(batch) => Increasing(batch'))
  BY <1>1
<1>3. TypeOK'
  <2>1. 0 <= QueueSize /\ 0 <= MaxBatch
    BY LedgerAssumption
  <2>2. queue' \in Seq(Records) /\ Len(queue') <= QueueSize
    BY <1>1, <2>1 DEF TypeOK
  <2>3. batch' \in Seq(Records) /\ Len(batch') <= MaxBatch
    BY <1>1, <2>1 DEF TypeOK
  <2> QED BY <2>2, <2>3 DEF TypeOK
<1>4. OrderInv'
  BY <1>2 DEF OrderInv, Before
<1>5. RecordedInv' /\ DeletedInv' /\ CallerInv'
  BY <1>2 DEF RecordedInv, DeletedInv, CallerInv
<1>6. AllAccounted'
  <2> SUFFICES ASSUME NEW r \in 1..calls
               PROVE  Accounted(r)'
    BY DEF AllAccounted
  <2>1. Accounted(r)
    BY DEF AllAccounted
  <2> QED BY <2>1 DEF Accounted
<1> QED BY <1>3, <1>4, <1>5, <1>6

\* Retention deletes rows from the view, and from the table if it is committed.
LEMMA PruneKeeps ==
  ASSUME LedgerInv, NEW old \in SUBSET Rows(view), view' = Without(view, old),
         ledger' \in {ledger, view'}, pruned' = pruned \union old,
         writerPc' = "top", faults' \in 0..MaxFaults,
         UNCHANGED <<process, queue, calls, caller, batch, dropped, lost, endings>>
  PROVE  LedgerInv'
<1> USE DEF LedgerInv, process, endings
<1>1. Rows(view) \subseteq Records /\ Records \in SUBSET Nat
  BY SeqTypes
<1>2. /\ view' \in Seq(Records) /\ Rows(view') = Rows(view) \ old /\ Increasing(view')
  BY <1>1, RowsOfWithout DEF OrderInv, TypeOK
<1>3. TypeOK'
  <2>1. ledger' \in Seq(Records) /\ pruned' \subseteq Records
    BY <1>1, <1>2 DEF TypeOK
  <2> QED BY <1>2, <2>1 DEF TypeOK
<1>4. OrderInv'
  BY <1>2 DEF OrderInv, Before
<1>5. RecordedInv' /\ DeletedInv' /\ CallerInv'
  BY <1>2 DEF RecordedInv, DeletedInv, CallerInv
<1>6. AllAccounted'
  BY <1>2 DEF AllAccounted, Accounted, DeletedInv
<1> QED BY <1>3, <1>4, <1>5, <1>6

LEMMA WriterKeeps ==
  ASSUME LedgerInv, WriterStep
  PROVE  LedgerInv'
<1> USE DEF table, process, writer, history, endings
<1>1. /\ Len(batch) \in Nat /\ batch \in Seq(Records)
      /\ Rows(ledger) \subseteq Records /\ Rows(view) \subseteq Records
      /\ Rows(queue) \subseteq Records /\ Rows(batch) \subseteq Records
  BY SeqTypes, LenProperties DEF LedgerInv, TypeOK
<1>2. /\ main \in {"down", "starting", "running", "stopping"} /\ stop \in BOOLEAN
      /\ faults \in 0..MaxFaults /\ lost \subseteq Records /\ left \subseteq Records
      /\ queued \subseteq Records /\ owed \subseteq Records
  BY DEF LedgerInv, TypeOK
<1>3. faults < MaxFaults => faults + 1 \in 0..MaxFaults
  BY <1>2, LedgerAssumption
<1>4. CASE Loop \/ DrainDone \/ NothingToInsert \/ PruneNotDue
  BY <1>2, <1>4, ControlKeeps DEF Loop, DrainDone, NothingToInsert, PruneNotDue
<1>5. CASE DrainGet
  BY <1>5, DrainGetKeeps
<1>6. CASE InsertBatch
  <2> DEFINE k == Len(batch)
  <2>1. SubSeq(batch, 1, k) = batch /\ SubSeq(batch, k + 1, k) = <<>>
    BY <1>1, SubSeqFull, SubSeqEmpty
  <2>2. Rows(SubSeq(batch, k + 1, k)) = {}
    BY <2>1 DEF Rows
  <2>3. /\ batch' = <<>> /\ view' = view \o SubSeq(batch, 1, k) /\ ledger' \in {ledger, view'}
        /\ lost' = lost \union Rows(SubSeq(batch, k + 1, k))
        /\ faults' \in 0..MaxFaults /\ writerPc' \in {"close", "prune"}
        /\ UNCHANGED <<process, queue, calls, caller, dropped, pruned, endings>>
    BY <1>2, <1>6, <2>1, <2>2 DEF InsertBatch
  <2>4. k \in 0..Len(batch)
    BY <1>1
  <2> QED BY <2>3, <2>4, InsertKeeps
<1>7. CASE InsertFails
  <2>1. PICK k \in 0..Len(batch) :
          /\ view' = view \o SubSeq(batch, 1, k)
          /\ lost' = lost \union Rows(SubSeq(batch, k + 1, Len(batch)))
    BY <1>7 DEF InsertFails
  <2>2. /\ batch' = <<>> /\ ledger' \in {ledger, view'}
        /\ faults' \in 0..MaxFaults /\ writerPc' \in {"close", "prune"}
        /\ UNCHANGED <<process, queue, calls, caller, dropped, pruned, endings>>
    BY <1>3, <1>7 DEF InsertFails
  <2> QED BY <2>1, <2>2, InsertKeeps
<1>8. CASE InsertRollsBack
  <2>1. /\ view' = ledger /\ pruned' = pruned \ Rows(ledger) /\ batch' = <<>>
        /\ lost' = (lost \union Rows(view) \union Rows(batch)) \ Rows(ledger)
        /\ faults' \in 0..MaxFaults /\ writerPc' \in {"close", "prune"}
        /\ UNCHANGED <<ledger, process, queue, calls, caller, dropped, endings>>
    BY <1>3, <1>8 DEF InsertRollsBack
  <2> QED BY <1>1, <1>2, <2>1, RollbackKeeps
<1>9. CASE Prune
  <2>1. PICK old \in SUBSET Rows(view) :
          view' = Without(view, old) /\ ledger' = view' /\ pruned' = pruned \union old
    BY <1>9 DEF Prune
  <2> QED BY <1>2, <1>9, <2>1, PruneKeeps DEF Prune
<1>10. CASE PruneFails
  <2>1. PICK old \in SUBSET Rows(view) :
          view' = Without(view, old) /\ pruned' = pruned \union old
    BY <1>10 DEF PruneFails
  <2> QED BY <1>3, <1>10, <2>1, PruneKeeps DEF PruneFails
<1>11. CASE Close
  <2>1. /\ view' = ledger /\ pruned' = pruned \ Rows(ledger)
        /\ lost' = lost \union (Rows(view) \ Rows(ledger)) /\ writerPc' = "closed"
        /\ UNCHANGED <<ledger, process, queue, calls, caller, batch, dropped, endings, faults>>
    BY <1>11 DEF Close
  <2> QED BY <1>1, <1>2, <2>1, RollbackKeeps
<1> QED BY <1>4, <1>5, <1>6, <1>7, <1>8, <1>9, <1>10, <1>11 DEF WriterStep

-----------------------------------------------------------------------------
(* ... and the main thread. *)

LEMMA MainKeeps ==
  ASSUME LedgerInv, Start \/ Create \/ Stop \/ Exit \/ ExitLate \/ Crash
  PROVE  LedgerInv'
<1> USE DEF endings
<1>1. /\ Rows(ledger) \subseteq Records /\ Rows(view) \subseteq Records
      /\ Rows(queue) \subseteq Records /\ Rows(batch) \subseteq Records
      /\ queue \in Seq(Nat)
  BY SeqTypes DEF LedgerInv
<1>2. /\ faults \in 0..MaxFaults /\ stop \in BOOLEAN
      /\ lost \subseteq Records /\ left \subseteq Records
      /\ queued \subseteq Records /\ owed \subseteq Records
      /\ writerPc \in {"top", "drain", "insert", "prune", "flush", "final", "close", "closed"}
  BY DEF LedgerInv, TypeOK
<1>3. faults < MaxFaults => faults + 1 \in 0..MaxFaults
  BY <1>2, LedgerAssumption
<1>4. caller = "full" => calls \in Records
  <2>1. calls \in 0..MaxRecords /\ (caller = "full" => calls > 0)
    BY DEF LedgerInv, TypeOK, CallerInv
  <2> QED BY <2>1 DEF Records
<1>5. CASE Start \/ Create
  BY <1>2, <1>5, ControlKeeps DEF Start, Create, writer, history
<1>6. CASE Stop
  <2>1. owed' \subseteq Rows(batch) \union Rows(queue) /\ queued' = Rows(queue)
    BY <1>6 DEF Stop, Rows
  <2> QED BY <1>1, <1>2, <1>6, <2>1, ControlKeeps DEF Stop, writer
<1>7. CASE Exit \/ ExitLate \/ Crash
  <2>1. faults' \in 0..MaxFaults /\ ProcessEnds
    BY <1>2, <1>3, <1>7 DEF Exit, ExitLate, Crash
  <2>2. \/ lost' = lost \union InMemory /\ left' = left
        \/ left' = left \union InMemory /\ lost' = lost
    BY <1>7 DEF Exit, ExitLate, Crash
  <2>3. InMemory \subseteq Records
    BY <1>1, <1>4 DEF InMemory
  <2>4. lost' \subseteq Records /\ left' \subseteq Records
    BY <1>2, <2>2, <2>3
  <2>5. /\ view' = ledger /\ pruned' = pruned \ Rows(ledger)
        /\ queue' = <<>> /\ batch' = <<>> /\ caller' = "idle"
        /\ main' = "down" /\ stop' = FALSE /\ writerPc' = "closed"
        /\ UNCHANGED <<ledger, calls, dropped, queued, owed>>
    BY <2>1 DEF ProcessEnds
  <2>6. \A r \in Rows(view) \union Rows(queue) \union Rows(batch) \union lost \union left :
          r \in lost' \union left' \union Rows(ledger) \union Rows(queue') \union Rows(batch')
    BY <2>2 DEF InMemory
  <2>7. caller = "full" => calls \in lost' \union left'
    BY <2>2 DEF InMemory
  <2> QED BY <2>1, <2>4, <2>5, <2>6, <2>7, RollbackKeeps
<1> QED BY <1>5, <1>6, <1>7

LEMMA LedgerStep == LedgerInv /\ [Next]_vars => LedgerInv'
<1> SUFFICES ASSUME LedgerInv, [Next]_vars
             PROVE  LedgerInv'
  OBVIOUS
<1>1. CASE UNCHANGED vars
  <2>1. /\ UNCHANGED <<table, queue, calls, caller, batch, dropped, lost, pruned, left, faults>>
        /\ UNCHANGED <<main, stop, writerPc, queued, owed>>
    BY <1>1 DEF vars, process, writer, history, endings
  <2> QED BY <2>1, ControlKeeps DEF LedgerInv, TypeOK
<1> QED BY <1>1, RecordKeeps, WriterKeeps, MainKeeps DEF Next, MainStep

\* Every reachable state satisfies the invariant.
THEOREM LedgerInvariant == Spec => []LedgerInv
BY LedgerInitially, LedgerStep, PTL DEF Spec

-----------------------------------------------------------------------------
(* What follows from it. *)

\* The queue never holds more than its maxsize and the batch never more than
\* _MAX_BATCH rows; every place holds rows of record() only.
THEOREM LedgerTypes == Spec => []TypeOK
<1>1. LedgerInv => TypeOK
  BY DEF LedgerInv
<1> QED BY <1>1, LedgerInvariant, PTL

LEMMA OrderFollows == LedgerInv => RecordedInOrder
<1> SUFFICES ASSUME LedgerInv
             PROVE  RecordedInOrder
  OBVIOUS
<1> DEFINE waiting == IF caller = "full" THEN <<calls>> ELSE <<>>
           vb == view \o batch
           vbq == vb \o queue
<1>1. /\ view \in Seq(Nat) /\ queue \in Seq(Nat) /\ batch \in Seq(Nat) /\ calls \in Nat
  BY SeqTypes DEF LedgerInv
<1>2. vb \in Seq(Nat) /\ Rows(vb) = Rows(view) \union Rows(batch) /\ Increasing(vb)
  BY <1>1, RowsOfConcat DEF LedgerInv, OrderInv
<1> HIDE DEF vb
<1>3. Before(vb, queue) /\ Increasing(queue)
  BY <1>2 DEF LedgerInv, OrderInv, Before
<1>4. vbq \in Seq(Nat) /\ Rows(vbq) = Rows(vb) \union Rows(queue) /\ Increasing(vbq)
  BY <1>1, <1>2, <1>3, RowsOfConcat
<1> HIDE DEF vbq
<1>5. waiting \in Seq(Nat) /\ Increasing(waiting) /\ Before(vbq, waiting)
  <2>1. CASE caller = "full"
    <3>1. waiting \in Seq(Nat) /\ Rows(waiting) = {calls} /\ Increasing(waiting)
      BY <1>1, <2>1, RowsOfOne
    <3>2. \A r \in Rows(vbq) : r < calls
      BY <1>2, <1>4, <2>1 DEF LedgerInv, RecordedInv
    <3> HIDE DEF waiting
    <3> QED BY <3>1, <3>2 DEF Before
  <2>2. CASE caller # "full"
    BY <2>2, EmptySeq DEF Rows, Increasing, Before
  <2> QED BY <2>1, <2>2
<1> HIDE DEF waiting
<1>6. Increasing(vbq \o waiting)
  BY <1>4, <1>5, RowsOfConcat
<1> QED BY <1>6 DEF RecordedInOrder, LedgerInv, OrderInv, waiting, vbq, vb

\* Whatever inserts and deletes fail, and whenever the process dies: no row is in
\* the ledger twice, and none overtakes another on its way there.
THEOREM LedgerIsInOrder == Spec => []RecordedInOrder
BY LedgerInvariant, OrderFollows, PTL

-----------------------------------------------------------------------------
(* What stop() owes. *)

\* stop() is called on a writer that loops; a writer that waits has no batch.
PhaseInv ==
  /\ stop <=> main = "stopping"
  /\ main = "running" => writerPc \in {"top", "drain", "insert", "prune"}
  /\ main \in {"down", "starting"} => writerPc = "closed"
  /\ writerPc \in {"top", "prune", "close", "closed"} => batch = <<>>
  /\ writerPc = "closed" => view = ledger

\* Only a fault leaves a transaction open.
FaultlessInv == faults = 0 => view = ledger /\ lost = {}

\* How many rows of the queue the writer takes before it ends.
Reach ==
  CASE writerPc \in {"top", "drain", "insert", "prune"} -> MaxBatch
    [] writerPc = "flush" -> MaxBatch - Len(batch)
    [] OTHER -> 0

\* What is owed and still in the queue is within the writer's reach.
OwedInv ==
  \A i \in DOMAIN queue : queue[i] \in owed => main = "stopping" /\ i <= Reach

\* What has been owed or left has been recorded before the row that waits, and what
\* has been left is not on its way.
EarlierInv ==
  /\ \A r \in owed \union left : r <= calls /\ (caller = "full" => r < calls)
  /\ left \intersect (Rows(queue) \union Rows(batch) \union owed) = {}

StopInv == PhaseInv /\ FaultlessInv /\ OwedInv /\ EarlierInv

LEMMA StopInitially == Init => StopInv
<1> SUFFICES ASSUME Init PROVE StopInv
  OBVIOUS
<1>1. Rows(<<>>) = {} /\ DOMAIN <<>> = {}
  BY DEF Rows
<1> QED BY <1>1 DEF Init, StopInv, PhaseInv, FaultlessInv, OwedInv, EarlierInv

LEMMA QueueTypes ==
  ASSUME LedgerInv
  PROVE  /\ queue \in Seq(Nat) /\ batch \in Seq(Nat) /\ Len(queue) \in Nat /\ Len(batch) \in Nat
         /\ DOMAIN queue = 1..Len(queue) /\ (queue = <<>> <=> Len(queue) = 0)
         /\ calls \in Nat /\ MaxBatch \in Nat /\ Len(batch) <= MaxBatch
         /\ owed \subseteq Nat /\ left \subseteq Nat /\ Rows(queue) \subseteq Nat
         /\ Rows(batch) \subseteq Nat /\ Reach \in Nat
<1>1. /\ queue \in Seq(Nat) /\ batch \in Seq(Nat) /\ calls \in Nat /\ Records \subseteq Nat
      /\ Rows(queue) \subseteq Nat /\ Rows(batch) \subseteq Nat
  BY SeqTypes DEF LedgerInv
<1>2. /\ Len(queue) \in Nat /\ Len(batch) \in Nat /\ DOMAIN queue = 1..Len(queue)
      /\ (queue = <<>> <=> Len(queue) = 0)
  BY <1>1, LenProperties, EmptySeq
<1>3. MaxBatch \in Nat /\ Len(batch) <= MaxBatch /\ owed \subseteq Records /\ left \subseteq Records
  BY LedgerAssumption DEF LedgerInv, TypeOK
<1>4. Reach \in Nat
  BY <1>2, <1>3 DEF Reach
<1> QED BY <1>1, <1>2, <1>3, <1>4

\* record(): a row that is put has been owed to nobody.
LEMMA RecordOwes ==
  ASSUME LedgerInv, StopInv, Record
  PROVE  StopInv'
<1> USE DEF StopInv, table, process, writer, history, endings
<1>1. /\ queue \in Seq(Nat) /\ Len(queue) \in Nat /\ calls \in Nat
      /\ DOMAIN queue = 1..Len(queue) /\ owed \subseteq Nat /\ left \subseteq Nat
  BY QueueTypes
<1>2. UNCHANGED <<main, stop, writerPc, batch, view, ledger, lost, faults, owed, left>>
  BY DEF Record, RecordMissed, RecordPut, RecordFull, WaitPut, WaitDrops
<1>3. PhaseInv' /\ FaultlessInv' /\ Reach' = Reach
  BY <1>2 DEF PhaseInv, FaultlessInv, Reach
<1>4. \/ calls' = calls + 1 /\ caller = "idle" /\ caller' \in {"idle", "full"}
      \/ calls' = calls /\ caller = "full" /\ caller' = "idle"
  BY DEF Record, RecordMissed, RecordPut, RecordFull, WaitPut, WaitDrops, Recording
<1>5. queue' \in {queue, Append(queue, calls')}
  BY DEF Record, RecordMissed, RecordPut, RecordFull, WaitPut, WaitDrops
<1>6. calls' \in Nat /\ \A r \in owed \union left : r < calls'
  BY <1>1, <1>4 DEF EarlierInv
<1>7. \A r \in owed \union left : r \in Nat /\ r < calls' /\ r <= calls' /\ r # calls'
  BY <1>1, <1>6
<1>8. CASE queue' = queue
  BY <1>2, <1>3, <1>7, <1>8 DEF OwedInv, EarlierInv
<1>9. CASE queue' = Append(queue, calls')
  <2>1. /\ DOMAIN queue' = 1..(Len(queue) + 1) /\ queue'[Len(queue) + 1] = calls'
        /\ \A i \in 1..Len(queue) : queue'[i] = queue[i]
    BY <1>1, <1>6, <1>9, AppendProperties, LenProperties
  <2>2. Rows(queue') = Rows(queue) \union {calls'}
    BY <1>1, <1>6, <1>9, RowsOfAppend
  <2>3. EarlierInv'
    BY <1>2, <1>7, <2>2 DEF EarlierInv
  <2>4. OwedInv'
    <3> SUFFICES ASSUME NEW i \in 1..(Len(queue) + 1), queue'[i] \in owed
                 PROVE  main = "stopping" /\ i <= Reach
      BY <1>2, <1>3, <2>1 DEF OwedInv
    <3>1. i # Len(queue) + 1
      BY <1>7, <2>1
    <3>2. i \in DOMAIN queue /\ queue[i] \in owed
      BY <1>1, <2>1, <3>1
    <3> QED BY <3>2 DEF OwedInv
  <2> QED BY <1>3, <2>3, <2>4
<1> QED BY <1>5, <1>8, <1>9

\* Steps that take no row from the queue: what is owed stays within reach.
LEMMA MovesOwe ==
  ASSUME LedgerInv, StopInv, UNCHANGED <<main, queue, calls, caller, owed, left>>,
         Rows(batch') \subseteq Rows(batch), Reach' = Reach \/ queue = <<>>
  PROVE  OwedInv' /\ EarlierInv'
<1>1. EarlierInv'
  BY DEF StopInv, EarlierInv
<1>2. DOMAIN queue = 1..Len(queue) /\ (queue = <<>> => Len(queue) = 0)
  BY QueueTypes
<1>3. queue = <<>> => DOMAIN queue = {}
  BY <1>2
<1> QED BY <1>1, <1>3 DEF StopInv, OwedInv

LEMMA DrainGetOwes ==
  ASSUME LedgerInv, StopInv, DrainGet
  PROVE  StopInv'
<1> USE DEF DrainGet, StopInv, table, process, history, endings
<1> DEFINE head == Head(queue)
<1>1. /\ queue \in Seq(Nat) /\ batch \in Seq(Nat) /\ queue # <<>>
      /\ Len(queue) \in Nat /\ Len(batch) \in Nat /\ MaxBatch \in Nat
      /\ DOMAIN queue = 1..Len(queue)
  BY QueueTypes
<1>2. /\ head \in Nat /\ Rows(queue) = {head} \union Rows(queue')
      /\ queue' \in Seq(Nat) /\ Len(queue') = Len(queue) - 1
  BY <1>1, RowsOfHeadTail
<1>3. \A i \in 1..Len(queue') : queue'[i] = queue[i + 1]
  BY <1>1, HeadTailProperties
<1>4. batch' = Append(batch, head)
  OBVIOUS
<1> HIDE DEF head
<1>5. Rows(batch') = Rows(batch) \union {head} /\ Len(batch') = Len(batch) + 1
  BY <1>1, <1>2, <1>4, RowsOfAppend, AppendProperties
<1>6. PhaseInv' /\ FaultlessInv'
  BY DEF PhaseInv, FaultlessInv
<1>7. EarlierInv'
  BY <1>2, <1>5 DEF EarlierInv
<1>8. OwedInv'
  <2>1. DOMAIN queue' = 1..Len(queue')
    BY <1>2, LenProperties
  <2> SUFFICES ASSUME NEW i \in 1..Len(queue'), queue'[i] \in owed
               PROVE  main = "stopping" /\ i <= Reach'
    BY <2>1 DEF OwedInv
  <2>2. i + 1 \in DOMAIN queue /\ queue[i + 1] \in owed
    BY <1>1, <1>2, <1>3
  <2>3. main = "stopping" /\ i + 1 <= Reach
    BY <2>2 DEF OwedInv
  <2>4. i \in Nat
    BY <1>1, <1>2
  <2>5. CASE writerPc = "drain"
    BY <1>1, <2>3, <2>4, <2>5 DEF Reach
  <2>6. CASE writerPc = "flush"
    <3>1. Reach = MaxBatch - Len(batch) /\ Reach' = MaxBatch - Len(batch')
      BY <2>6 DEF Reach
    <3> QED BY <1>1, <1>5, <2>3, <2>4, <3>1
  <2> QED BY <2>5, <2>6
<1> QED BY <1>6, <1>7, <1>8

LEMMA WriterOwes ==
  ASSUME LedgerInv, StopInv, WriterStep
  PROVE  StopInv'
<1> USE DEF table, process, writer, history, endings
<1>1. /\ Len(batch) \in Nat /\ MaxBatch \in Nat /\ Len(batch) <= MaxBatch
      /\ Rows(<<>>) = {} /\ Len(<<>>) = 0 /\ faults \in Nat
  <2>1. Rows(<<>>) = {}
    BY DEF Rows
  <2> QED BY <2>1, QueueTypes, LedgerAssumption DEF LedgerInv, TypeOK
<1>2. ASSUME ~DrainGet
      PROVE  UNCHANGED <<main, stop, queue, calls, caller, owed, left>>
  BY <1>2 DEF WriterStep, Loop, DrainDone, NothingToInsert, PruneNotDue, InsertBatch,
              InsertFails, InsertRollsBack, Prune, PruneFails, Close
<1>3. CASE Loop \/ DrainDone \/ NothingToInsert \/ PruneNotDue
  <2>1. UNCHANGED <<ledger, view, lost, faults, batch, main, stop, queue, calls, caller, owed, left>>
    BY <1>3 DEF Loop, DrainDone, NothingToInsert, PruneNotDue
  <2>2. PhaseInv'
    BY <1>3, <2>1 DEF StopInv, PhaseInv, Loop, DrainDone, NothingToInsert, PruneNotDue
  <2>3. FaultlessInv'
    BY <2>1 DEF StopInv, FaultlessInv
  <2>4. Reach' = Reach \/ queue = <<>>
    BY <1>1, <1>3, <2>1 DEF StopInv, PhaseInv, Reach, Loop, DrainDone, NothingToInsert, PruneNotDue
  <2> QED BY <2>1, <2>2, <2>3, <2>4, MovesOwe DEF StopInv
<1>4. CASE DrainGet
  BY <1>4, DrainGetOwes
<1>5. CASE InsertBatch \/ InsertFails \/ InsertRollsBack
  <2>1. /\ batch' = <<>> /\ writerPc \in {"insert", "final"}
        /\ writerPc' = IF writerPc = "final" THEN "close" ELSE "prune"
    BY <1>5 DEF InsertBatch, InsertFails, InsertRollsBack
  <2>2. UNCHANGED <<main, stop, queue, calls, caller, owed, left>>
    BY <1>5 DEF InsertBatch, InsertFails, InsertRollsBack
  <2>3. PhaseInv'
    BY <2>1, <2>2 DEF StopInv, PhaseInv
  <2>4. FaultlessInv'
    <3>1. CASE InsertBatch
      BY <3>1 DEF InsertBatch, StopInv, FaultlessInv
    <3>2. CASE InsertFails \/ InsertRollsBack
      <4>1. faults' = faults + 1
        BY <3>2 DEF InsertFails, InsertRollsBack
      <4> QED BY <1>1, <4>1 DEF FaultlessInv
    <3> QED BY <1>5, <3>1, <3>2
  <2>5. Reach' = Reach /\ Rows(batch') \subseteq Rows(batch)
    BY <1>1, <2>1 DEF Reach
  <2> QED BY <2>2, <2>3, <2>4, <2>5, MovesOwe DEF StopInv
<1>6. CASE Prune \/ PruneFails \/ Close
  <2>1. /\ \/ writerPc = "prune" /\ writerPc' = "top"
           \/ writerPc = "close" /\ writerPc' = "closed" /\ view' = ledger'
        /\ UNCHANGED <<main, stop, queue, batch, calls, caller, owed, left>>
    BY <1>6 DEF Prune, PruneFails, Close
  <2>2. PhaseInv' /\ Reach' = Reach
    BY <2>1 DEF StopInv, PhaseInv, Reach
  <2>3. FaultlessInv'
    <3>1. CASE Prune
      BY <3>1 DEF Prune, StopInv, FaultlessInv
    <3>2. CASE PruneFails
      <4>1. faults' = faults + 1
        BY <3>2 DEF PruneFails
      <4> QED BY <1>1, <4>1 DEF FaultlessInv
    <3>3. CASE Close
      BY <3>3 DEF Close, StopInv, FaultlessInv
    <3> QED BY <1>6, <3>1, <3>2, <3>3
  <2> QED BY <2>1, <2>2, <2>3, MovesOwe DEF StopInv
<1> QED BY <1>3, <1>4, <1>5, <1>6 DEF WriterStep

LEMMA MainOwes ==
  ASSUME LedgerInv, StopInv, Start \/ Create \/ Stop \/ Exit \/ ExitLate \/ Crash
  PROVE  StopInv'
<1> USE DEF table, writer, history, endings
<1>1. /\ faults \in Nat /\ calls \in Nat /\ owed \subseteq Nat /\ left \subseteq Nat
      /\ queue \in Seq(Nat) /\ DOMAIN queue = 1..Len(queue) /\ MaxBatch \in Nat
      /\ Rows(queue) \subseteq Nat /\ Rows(batch) \subseteq Nat
      /\ Rows(<<>>) = {} /\ DOMAIN <<>> = {}
  <2>1. Rows(<<>>) = {} /\ DOMAIN <<>> = {}
    BY DEF Rows
  <2> QED BY <2>1, QueueTypes DEF LedgerInv, TypeOK
<1>2. CASE Start \/ Create
  <2>1. /\ main # "stopping" /\ main' # "stopping" /\ stop' = stop
        /\ UNCHANGED <<ledger, view, queue, batch, calls, caller, lost, left, faults>>
        /\ owed' \in {owed, {}}
        /\ \/ main' = "starting" /\ writerPc' = writerPc /\ main = "down"
           \/ main' = "running" /\ writerPc' = "top" /\ main = "starting"
    BY <1>2 DEF Start, Create
  <2>2. FaultlessInv' /\ EarlierInv'
    BY <2>1 DEF StopInv, FaultlessInv, EarlierInv
  <2>3. OwedInv'
    BY <2>1 DEF StopInv, OwedInv
  <2>4. PhaseInv'
    BY <2>1 DEF StopInv, PhaseInv
  <2> QED BY <2>2, <2>3, <2>4 DEF StopInv
<1>3. CASE Stop
  <2>1. /\ main = "running" /\ main' = "stopping" /\ stop' = TRUE
        /\ owed' = Rows(batch) \union {queue[i] : i \in {j \in DOMAIN queue : j <= MaxBatch}}
        /\ UNCHANGED <<ledger, view, queue, batch, writerPc, calls, caller, lost, left, faults>>
    BY <1>3 DEF Stop
  <2>2. PhaseInv' /\ FaultlessInv'
    BY <2>1 DEF StopInv, PhaseInv, FaultlessInv
  <2>3. owed' \subseteq Rows(batch) \union Rows(queue)
    BY <2>1 DEF Rows
  <2>4. EarlierInv'
    BY <2>1, <2>3 DEF StopInv, EarlierInv, LedgerInv, RecordedInv
  <2>5. OwedInv'
    <3>1. Reach' = MaxBatch
      BY <2>1 DEF StopInv, PhaseInv, Reach
    <3> SUFFICES ASSUME NEW i \in DOMAIN queue, queue[i] \in owed'
                 PROVE  i <= MaxBatch
      BY <2>1, <3>1 DEF OwedInv
    <3>2. queue[i] \notin Rows(batch)
      <4>1. queue[i] \in Rows(queue) /\ \A x \in Rows(batch), y \in Rows(queue) : x < y
        BY DEF Rows, LedgerInv, OrderInv, Before
      <4> QED BY <1>1, <4>1
    <3>3. PICK j \in DOMAIN queue : j <= MaxBatch /\ queue[i] = queue[j]
      BY <2>1, <3>2
    <3>4. i = j
      <4>1. i < j \/ j < i \/ i = j
        BY <1>1
      <4>2. \A k \in DOMAIN queue : queue[k] \in Nat
        BY <1>1 DEF Rows
      <4>3. Increasing(queue)
        BY DEF LedgerInv, OrderInv
      <4> QED BY <3>3, <4>1, <4>2, <4>3 DEF Increasing
    <3> QED BY <3>3, <3>4
  <2> QED BY <2>2, <2>4, <2>5 DEF StopInv
<1>4. CASE Exit \/ ExitLate \/ Crash
  <2>1. ProcessEnds
    BY <1>4 DEF Exit, ExitLate, Crash
  <2>2. /\ main' = "down" /\ stop' = FALSE /\ queue' = <<>> /\ batch' = <<>>
        /\ caller' = "idle" /\ writerPc' = "closed" /\ view' = ledger'
        /\ UNCHANGED <<calls, owed>>
    BY <2>1 DEF ProcessEnds
  <2>3. PhaseInv'
    BY <2>2 DEF PhaseInv
  <2>4. FaultlessInv'
    <3>1. CASE Exit
      BY <2>2, <3>1 DEF Exit, StopInv, FaultlessInv
    <3>2. CASE ExitLate \/ Crash
      <4>1. faults' = faults + 1
        BY <3>2 DEF ExitLate, Crash
      <4> QED BY <1>1, <4>1 DEF FaultlessInv
    <3> QED BY <1>4, <3>1, <3>2
  <2>5. OwedInv'
    BY <1>1, <2>2 DEF OwedInv
  <2>6. EarlierInv'
    <3>1. CASE ExitLate \/ Crash
      <4>1. left' = left
        BY <3>1 DEF ExitLate, Crash
      <4> QED BY <1>1, <2>2, <4>1 DEF StopInv, EarlierInv
    <3>2. CASE Exit
      <4>1. writerPc = "closed" /\ left' = left \union InMemory /\ batch = <<>>
        BY <3>2 DEF Exit, StopInv, PhaseInv
      <4>2. Rows(queue) \intersect owed = {}
        <5>1. Reach = 0
          BY <4>1 DEF Reach
        <5>2. \A i \in DOMAIN queue : queue[i] \notin owed
          BY <1>1, <5>1 DEF StopInv, OwedInv
        <5> QED BY <5>2 DEF Rows
      <4>3. InMemory = Rows(queue) \union (IF caller = "full" THEN {calls} ELSE {})
        <5>1. view = ledger
          BY <4>1 DEF StopInv, PhaseInv
        <5> QED BY <1>1, <4>1, <5>1 DEF InMemory
      <4>4. \A r \in Rows(queue) : r <= calls
        BY DEF LedgerInv, RecordedInv
      <4>5. calls <= calls /\ ~(calls < calls)
        BY <1>1
      <4>6. \A r \in left' : r <= calls
        BY <4>1, <4>3, <4>4, <4>5 DEF StopInv, EarlierInv
      <4>7. left' \intersect owed = {}
        BY <4>1, <4>2, <4>3, <4>5 DEF StopInv, EarlierInv
      <4>8. \A r \in owed : r <= calls
        BY DEF StopInv, EarlierInv
      <4> QED BY <1>1, <2>2, <4>6, <4>7, <4>8 DEF EarlierInv
    <3> QED BY <1>4, <3>1, <3>2
  <2> QED BY <2>3, <2>4, <2>5, <2>6 DEF StopInv
<1> QED BY <1>2, <1>3, <1>4

LEMMA StopStep == LedgerInv /\ StopInv /\ [Next]_vars => StopInv'
<1> SUFFICES ASSUME LedgerInv, StopInv, [Next]_vars
             PROVE  StopInv'
  OBVIOUS
<1>1. CASE UNCHANGED vars
  <2>1. /\ UNCHANGED <<main, stop, writerPc, batch, queue, calls, caller, view, ledger>>
        /\ UNCHANGED <<lost, left, owed, faults>>
    BY <1>1 DEF vars, table, process, writer, history, endings
  <2>2. Reach' = Reach
    BY <2>1 DEF Reach
  <2> QED BY <2>1, <2>2 DEF StopInv, PhaseInv, FaultlessInv, OwedInv, EarlierInv
<1> QED BY <1>1, RecordOwes, WriterOwes, MainOwes DEF Next, MainStep

\* A row that record() accepted is lost to nothing but a fault, and an exit that
\* waited for the writer leaves nothing of the writer's batch nor of the next
\* _MAX_BATCH rows of the queue as they were at stop().
THEOREM LedgerForgetsNothing == Spec => []NothingForgotten
<1>1. LedgerInv /\ StopInv => NothingForgotten
  BY DEF LedgerInv, StopInv, AllAccounted, FaultlessInv, EarlierInv, NothingForgotten
<1>2. Spec => []StopInv
  BY LedgerInvariant, StopInitially, StopStep, PTL DEF Spec
<1> QED BY <1>1, <1>2, LedgerInvariant, PTL
=============================================================================
