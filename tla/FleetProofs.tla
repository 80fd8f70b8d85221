----------------------------- MODULE FleetProofs -----------------------------
(***************************************************************************)
(* Proofs about the fleet: the forwarding of findings to its server, for   *)
(* every value of the constants, and the enrolment of agents there, for    *)
(* every number of agents, keys, threads and requests, and for every scene *)
(* that keeps EnrolmentAssumption.                                         *)
(***************************************************************************)
EXTENDS FleetForwarding, FleetEnrolment, FiniteSetTheorems, TLAPS

-----------------------------------------------------------------------------
(* Forwarding: the inductive invariant. *)

\* A call is under way exactly while the forwarder waits for it.
CallInv ==
  /\ fwdPc = "idle" <=> call = "none"
  /\ fwdPc = "idle" => batch = {}
  /\ call # "running" => serving = {}

\* The batch of a call is at the front of the table: rows that are pushed while
\* the call is under way come behind it.
BatchIsOldest ==
  /\ batch \subseteq pending
  /\ \A i \in batch, j \in pending : j < i => j \in batch

\* A row in the table has retries left, one that was never pushed has none used.
RetriesInv ==
  /\ \A i \in pending : retry_count[i] <= RetryMax
  /\ \A i \in Items : i > pushed => retry_count[i] = 0

\* A retry is counted for a call that was sent, and the one under way is not
\* counted yet.
AttemptsInv ==
  /\ \A i \in pending : retry_count[i] <= attempts[i]
  /\ \A i \in batch : retry_count[i] < attempts[i]

\* What the handler has gone through is stored, orphaned or refused.
ServedInv ==
  /\ call = "running" => batch \subseteq serving \union stored \union orphaned \union refused
  /\ call = "replied" => batch \subseteq stored \union orphaned \union refused

FleetInv ==
  /\ TypeOK /\ CallInv /\ BatchIsOldest /\ RetriesInv /\ AttemptsInv /\ ServedInv
  /\ NothingVanishes /\ RetriesInOrder /\ GivenUpAfterRetries

-----------------------------------------------------------------------------

\* ORDER BY id LIMIT n returns rows of the table, and with a row every older one,
\* on an old snapshot as well.
LEMMA PopIsOldest ==
  ASSUME TypeOK
  PROVE  /\ pop_forwarding_batch \subseteq pending
         /\ \A i \in pop_forwarding_batch, j \in pending :
              j < i => j \in pop_forwarding_batch
<1>1. /\ pending \subseteq 1..pushed /\ pushed \in Nat /\ pending \subseteq Nat
      /\ Visible \subseteq pending /\ fwdSees \in Nat
  BY ForwardingAssumption DEF TypeOK, Visible
<1>2. IsFiniteSet(Visible)
  <2>1. IsFiniteSet(1..pushed)
    BY <1>1, FS_Interval
  <2> QED BY <1>1, <2>1, FS_Subset
<1>3. ASSUME NEW i \in pop_forwarding_batch, NEW j \in pending, j < i
      PROVE  j \in pop_forwarding_batch
  <2> DEFINE Before(k) == {l \in Visible : l < k}
  <2>1. i \in Visible
    BY DEF pop_forwarding_batch
  <2>2. j \in Visible
    BY <1>1, <1>3, <2>1 DEF Visible
  <2>3. Before(j) \subseteq Before(i) /\ Before(i) \subseteq Visible
    <3>1. ASSUME NEW l \in Visible, l < j
          PROVE  l < i
      BY <1>1, <1>3, <2>1, <3>1
    <3> QED BY <3>1
  <2>4. IsFiniteSet(Before(i)) /\ IsFiniteSet(Before(j))
    BY <1>2, <2>3, FS_Subset
  <2>5. Cardinality(Before(j)) <= Cardinality(Before(i))
    BY <2>3, <2>4, FS_Subset
  <2>6. Cardinality(Before(j)) \in Nat /\ Cardinality(Before(i)) \in Nat
    BY <2>4, FS_CardinalityType
  <2>7. Cardinality(Before(i)) < BatchSize
    BY DEF pop_forwarding_batch
  <2>8. Cardinality(Before(j)) < BatchSize
    BY <2>5, <2>6, <2>7, ForwardingAssumption
  <2> QED BY <2>2, <2>8 DEF pop_forwarding_batch
<1> QED BY <1>1, <1>3 DEF pop_forwarding_batch

LEMMA FleetInitially == Init => FleetInv
<1> SUFFICES ASSUME Init PROVE FleetInv
  OBVIOUS
<1> USE ForwardingAssumption DEF Init
<1>1. TypeOK
  <2>1. /\ retry_count \in [Items -> 0..(RetryMax + 1)]
        /\ attempts \in [Items -> 0..AttemptCap]
    <3>1. 0 \in 0..(RetryMax + 1)
      OBVIOUS
    <3> QED BY <3>1 DEF AttemptCap
  <2>2. pushed \in 0..MaxItems /\ faults \in 0..MaxFaults /\ fwdTx \in Transactions
    BY DEF Transactions
  <2> QED BY <2>1, <2>2 DEF TypeOK
<1>2. CallInv /\ BatchIsOldest /\ ServedInv
  BY DEF CallInv, BatchIsOldest, ServedInv
<1>3. RetriesInv /\ AttemptsInv
  BY DEF RetriesInv, AttemptsInv
<1>4. NothingVanishes /\ RetriesInOrder /\ GivenUpAfterRetries
  BY DEF NothingVanishes, RetriesInOrder, GivenUpAfterRetries
<1> QED BY <1>1, <1>2, <1>3, <1>4 DEF FleetInv

-----------------------------------------------------------------------------
(* Every step keeps the invariant. *)

LEMMA FleetStep == FleetInv /\ [Next]_vars => FleetInv'
<1> SUFFICES ASSUME FleetInv, [Next]_vars
             PROVE  FleetInv'
  OBVIOUS
<1> USE ForwardingAssumption DEF FleetInv, queue, process, thread, fwdDb, handler, neo4j, history
\* A step that leaves the table alone and starts no call.
<1>1. ASSUME UNCHANGED <<queue, attempts, dropped>>, batch' \in {batch, {}}
      PROVE  (BatchIsOldest /\ RetriesInv /\ AttemptsInv /\ RetriesInOrder /\ GivenUpAfterRetries)'
  BY <1>1 DEF BatchIsOldest, RetriesInv, AttemptsInv, RetriesInOrder, GivenUpAfterRetries
\* A step that neither inserts nor deletes a row.
<1>2. ASSUME UNCHANGED <<pushed, pending>>, stored \subseteq stored',
             orphaned \subseteq orphaned', refused \subseteq refused', dropped \subseteq dropped'
      PROVE  NothingVanishes'
  BY <1>2 DEF NothingVanishes
<1>3. CASE Forward
  <2>0. /\ pushed \in Nat /\ pushed' = pushed + 1 /\ pushed' \in Items
        /\ pending \subseteq 1..pushed /\ pending' = pending \union {pushed'}
        /\ retry_count \in [Items -> Nat] /\ retry_count' = retry_count
        /\ attempts \in [Items -> Nat] /\ attempts' = attempts
        /\ retry_count[pushed'] = 0
    BY <1>3 DEF Forward, TypeOK, RetriesInv, Items, AttemptCap
  <2>1. TypeOK'
    <3>1. pushed' \in 0..MaxItems /\ pending' \subseteq 1..pushed'
      BY <2>0 DEF Items
    <3> QED BY <1>3, <3>1 DEF Forward, TypeOK, AttemptCap
  <2>2. CallInv'
    BY <1>3 DEF Forward, TypeOK, CallInv
  <2>3. BatchIsOldest'
    BY <1>3 DEF Forward, TypeOK, CallInv, BatchIsOldest
  <2>4. RetriesInv'
    BY <2>0 DEF RetriesInv, Items
  <2>5. AttemptsInv'
    <3>1. batch' = batch
      BY <1>3 DEF Forward
    <3> QED BY <2>0, <3>1 DEF AttemptsInv
  <2>6. ServedInv'
    BY <1>3 DEF Forward, TypeOK, CallInv, ServedInv
  <2>7. NothingVanishes'
    BY <1>3 DEF Forward, TypeOK, CallInv, ServedInv, NothingVanishes
  <2>8. RetriesInOrder'
    <3> SUFFICES ASSUME NEW i \in pending', NEW j \in pending', i < j
                 PROVE  retry_count[i] >= retry_count[j]
      BY <2>0 DEF RetriesInOrder
    <3>1. CASE j = pushed'
      BY <2>0, <3>1 DEF Items
    <3>2. CASE j \in pending
      BY <2>0, <3>2 DEF RetriesInOrder
    <3> QED BY <2>0, <3>1, <3>2
  <2>9. GivenUpAfterRetries'
    BY <1>3 DEF Forward, TypeOK, AttemptsInv, GivenUpAfterRetries
  <2> QED BY <2>1, <2>2, <2>3, <2>4, <2>5, <2>6, <2>7, <2>8, <2>9
<1>4. CASE Start
  <2>1. TypeOK'
    BY <1>4 DEF Start, TypeOK, AttemptCap
  <2>2. CallInv' /\ ServedInv'
    BY <1>4 DEF Start, TypeOK, CallInv, ServedInv
  <2> QED BY <1>4, <1>1, <1>2, <2>1, <2>2 DEF Start
<1>5. CASE Register
  <2>1. TypeOK'
    BY <1>5 DEF Register, TypeOK, AttemptCap
  <2>2. CallInv' /\ ServedInv'
    BY <1>5 DEF Register, TypeOK, CallInv, ServedInv
  <2> QED BY <1>5, <1>1, <1>2, <2>1, <2>2 DEF Register
<1>6. CASE SetPaused
  <2>1. TypeOK'
    BY <1>6 DEF SetPaused, TypeOK, AttemptCap
  <2>2. CallInv' /\ ServedInv'
    BY <1>6 DEF SetPaused, TypeOK, CallInv, ServedInv
  <2> QED BY <1>6, <1>1, <1>2, <2>1, <2>2 DEF SetPaused
<1>7. CASE Stop
  <2>1. fwdTx' \in Transactions /\ fwdSees' \in 0..MaxItems /\ faults' \in 0..MaxFaults
    BY <1>7 DEF Stop, Transactions, TypeOK
  <2>2. TypeOK'
    BY <1>7, <2>1 DEF Stop, TypeOK, AttemptCap
  <2>3. CallInv' /\ ServedInv'
    BY <1>7 DEF Stop, TypeOK, CallInv, ServedInv
  <2> QED BY <1>7, <1>1, <1>2, <2>2, <2>3 DEF Stop
<1>8. CASE SendFindingsBatch
  <2>0. /\ batch' = pop_forwarding_batch /\ batch' \subseteq Items
        /\ UNCHANGED <<queue, dropped>>
        /\ attempts \in [Items -> 0..AttemptCap] /\ AttemptCap = RetryMax + 1
        /\ retry_count \in [Items -> Nat]
        /\ attempts' = [i \in Items |-> IF i \in batch' /\ attempts[i] < AttemptCap
                                       THEN attempts[i] + 1 ELSE attempts[i]]
    <3>1. pending \subseteq Items
      BY DEF TypeOK, Items
    <3>2. batch' = pop_forwarding_batch /\ batch' \subseteq Items
      BY <1>8, <3>1, PopIsOldest DEF SendFindingsBatch
    <3>3. attempts \in [Items -> 0..AttemptCap] /\ retry_count \in [Items -> Nat]
      BY DEF TypeOK
    <3> QED BY <1>8, <3>2, <3>3 DEF SendFindingsBatch, AttemptCap
  <2>1. TypeOK'
    <3>1. attempts' \in [Items -> 0..AttemptCap]
      BY <2>0
    <3> QED BY <1>8, <2>0, <3>1
            DEF SendFindingsBatch, Selects, TypeOK, AttemptCap, Transactions
  <2>2. CallInv'
    BY <1>8 DEF SendFindingsBatch, TypeOK, CallInv
  <2>3. BatchIsOldest'
    BY <2>0, PopIsOldest DEF BatchIsOldest
  <2>4. RetriesInv'
    BY <1>8 DEF SendFindingsBatch, TypeOK, RetriesInv, BatchIsOldest
  <2>5. AttemptsInv'
    <3>1. pending' \subseteq Items
      BY <2>0 DEF TypeOK, Items
    <3>2. \A i \in pending' : retry_count'[i] <= attempts'[i]
      BY <2>0, <3>1 DEF AttemptsInv
    <3>3. ASSUME NEW i \in batch'
          PROVE  retry_count'[i] < attempts'[i]
      <4>1. i \in pending
        BY <2>0, PopIsOldest
      <4>2. retry_count[i] <= attempts[i] /\ retry_count[i] <= RetryMax
        BY <4>1 DEF AttemptsInv, RetriesInv
      <4> QED BY <2>0, <4>2
    <3> QED BY <3>2, <3>3 DEF AttemptsInv
  <2>6. ServedInv'
    BY <1>8 DEF SendFindingsBatch, TypeOK, CallInv, ServedInv
  <2>7. NothingVanishes'
    BY <1>8 DEF SendFindingsBatch, TypeOK, CallInv, ServedInv, NothingVanishes
  <2>8. RetriesInOrder'
    BY <1>8 DEF SendFindingsBatch, TypeOK, BatchIsOldest, RetriesInv, RetriesInOrder
  <2>9. GivenUpAfterRetries'
    BY <1>8 DEF SendFindingsBatch, TypeOK, AttemptsInv, GivenUpAfterRetries
  <2> QED BY <2>1, <2>2, <2>3, <2>4, <2>5, <2>6, <2>7, <2>8, <2>9
<1>9. CASE PopInVain
  <2>1. TypeOK'
    BY <1>9 DEF PopInVain, Selects, Transactions, TypeOK, AttemptCap
  <2>2. CallInv' /\ ServedInv'
    BY <1>9 DEF PopInVain, Selects, TypeOK, CallInv, ServedInv
  <2>3. UNCHANGED <<queue, batch, attempts, dropped, stored, orphaned, refused>>
    BY <1>9 DEF PopInVain
  <2>4. (BatchIsOldest /\ RetriesInv /\ AttemptsInv /\ RetriesInOrder /\ GivenUpAfterRetries)'
    BY <1>1, <2>3
  <2>5. NothingVanishes'
    BY <1>2, <2>3
  <2> QED BY <2>1, <2>2, <2>4, <2>5
<1>10. CASE MarkForwarded
  <2>1. TypeOK'
    BY <1>10, SMTT(30) DEF MarkForwarded, Commits, CallEnds, TypeOK, Items, Transactions
  <2>2. CallInv'
    BY <1>10 DEF MarkForwarded, CallEnds, TypeOK, CallInv
  <2>3. BatchIsOldest'
    BY <1>10 DEF MarkForwarded, CallEnds, TypeOK, CallInv, BatchIsOldest
  <2>4. RetriesInv'
    BY <1>10 DEF MarkForwarded, CallEnds, TypeOK, RetriesInv, BatchIsOldest
  <2>5. AttemptsInv'
    BY <1>10 DEF MarkForwarded, CallEnds, TypeOK, AttemptsInv, BatchIsOldest, CallInv
  <2>6. ServedInv'
    BY <1>10 DEF MarkForwarded, CallEnds, TypeOK, CallInv, ServedInv
  <2>7. NothingVanishes'
    BY <1>10 DEF MarkForwarded, CallEnds, TypeOK, CallInv, ServedInv, NothingVanishes
  <2>8. RetriesInOrder'
    BY <1>10 DEF MarkForwarded, CallEnds, TypeOK, BatchIsOldest, RetriesInv, RetriesInOrder
  <2>9. GivenUpAfterRetries'
    BY <1>10 DEF MarkForwarded, CallEnds, TypeOK, AttemptsInv, GivenUpAfterRetries
  <2> QED BY <2>1, <2>2, <2>3, <2>4, <2>5, <2>6, <2>7, <2>8, <2>9
<1>11. CASE CallFails
  <2>0. /\ retry_count \in [Items -> Nat] /\ retry_count' \in [Items -> Nat]
        /\ \A i \in Items :
             retry_count'[i] = IF i \in batch THEN retry_count[i] + 1 ELSE retry_count[i]
        /\ pending \subseteq Items /\ batch \subseteq pending /\ batch' = {}
        /\ pending' = {i \in pending : i \in batch => retry_count'[i] <= RetryMax}
        /\ UNCHANGED <<pushed, attempts>> /\ attempts \in [Items -> Nat]
    <3>1. retry_count \in [Items -> Nat] /\ attempts \in [Items -> Nat]
      BY DEF TypeOK, AttemptCap
    <3>2. pending \subseteq Items /\ batch \subseteq pending
      BY DEF TypeOK, Items, BatchIsOldest
    <3>3. retry_count' \in [Items -> Nat]
      BY <1>11, <3>1 DEF CallFails, mark_forward_failed
    <3>4. \A i \in Items :
            retry_count'[i] = IF i \in batch THEN retry_count[i] + 1 ELSE retry_count[i]
      BY <1>11 DEF CallFails, mark_forward_failed
    <3>5. pending' = {i \in pending : i \in batch => retry_count'[i] <= RetryMax}
      BY <1>11, <3>1, <3>2, <3>3 DEF CallFails, mark_forward_failed, Exhausted
    <3> QED BY <1>11, <3>1, <3>2, <3>3, <3>4, <3>5 DEF CallFails, CallEnds
  <2>1. TypeOK'
    <3>1. retry_count' \in [Items -> 0..(RetryMax + 1)]
      BY <1>11, <2>0 DEF CallFails, CallEnds, mark_forward_failed, Exhausted, RetriesInv, TypeOK
    <3>2. dropped' \subseteq Items /\ late' \subseteq Items /\ pending' \subseteq 1..pushed'
      BY <1>11, <2>0 DEF CallFails, CallEnds, mark_forward_failed, Exhausted, TypeOK
    <3>3. fwdTx' \in Transactions /\ fwdSees' \in 0..MaxItems
      BY <1>11 DEF CallFails, Commits, Transactions, TypeOK
    <3> QED BY <1>11, <3>1, <3>2, <3>3 DEF CallFails, CallEnds, mark_forward_failed, Exhausted, TypeOK, AttemptCap
  <2>2. CallInv'
    BY <1>11 DEF CallFails, CallEnds, mark_forward_failed, Exhausted, TypeOK, CallInv
  <2>3. BatchIsOldest'
    BY <1>11 DEF CallFails, CallEnds, mark_forward_failed, Exhausted, TypeOK, CallInv, BatchIsOldest
  <2>4. RetriesInv'
    <3>1. \A i \in pending' : retry_count'[i] <= RetryMax
      BY <2>0 DEF RetriesInv
    <3>2. \A i \in Items : i > pushed => i \notin batch
      BY <2>0 DEF TypeOK
    <3> QED BY <2>0, <3>1, <3>2 DEF RetriesInv
  <2>5. AttemptsInv'
    BY <2>0 DEF AttemptsInv
  <2>6. ServedInv'
    BY <1>11 DEF CallFails, CallEnds, mark_forward_failed, Exhausted, TypeOK, CallInv, ServedInv
  <2>7. NothingVanishes'
    BY <1>11 DEF CallFails, CallEnds, mark_forward_failed, Exhausted, TypeOK, CallInv, ServedInv, NothingVanishes
  <2>8. RetriesInOrder'
    <3> SUFFICES ASSUME NEW i \in pending', NEW j \in pending', i < j
                 PROVE  retry_count'[i] >= retry_count'[j]
      BY DEF RetriesInOrder
    <3>1. retry_count[i] >= retry_count[j]
      BY <2>0 DEF RetriesInOrder
    <3>2. j \in batch => i \in batch
      BY <2>0 DEF BatchIsOldest
    <3> QED BY <2>0, <3>1, <3>2
  <2>9. GivenUpAfterRetries'
    BY <1>11 DEF CallFails, CallEnds, mark_forward_failed, Exhausted, TypeOK, AttemptsInv, GivenUpAfterRetries
  <2> QED BY <2>1, <2>2, <2>3, <2>4, <2>5, <2>6, <2>7, <2>8, <2>9
<1>12. CASE MarkFails
  <2>1. fwdTx' \in Transactions /\ fwdSees' \in 0..MaxItems /\ faults' \in 0..MaxFaults
    BY <1>12 DEF MarkFails, Transactions, TypeOK
  <2>2. TypeOK'
    BY <1>12, <2>1 DEF MarkFails, CallEnds, TypeOK, AttemptCap
  <2>3. CallInv' /\ ServedInv'
    BY <1>12 DEF MarkFails, CallEnds, TypeOK, CallInv, ServedInv
  <2> QED BY <1>12, <1>1, <1>2, <2>2, <2>3 DEF MarkFails, CallEnds
<1>13. CASE MarkRefused
  <2>1. fwdTx' \in Transactions /\ fwdSees' \in 0..MaxItems /\ faults' \in 0..MaxFaults
    BY <1>13 DEF MarkRefused, Transactions, TypeOK
  <2>2. TypeOK'
    BY <1>13, <2>1 DEF MarkRefused, CallEnds, TypeOK, AttemptCap
  <2>3. CallInv' /\ ServedInv'
    BY <1>13 DEF MarkRefused, CallEnds, TypeOK, CallInv, ServedInv
  <2> QED BY <1>13, <1>1, <1>2, <2>2, <2>3 DEF MarkRefused, CallEnds
<1>14. CASE Receive
  <2>1. TypeOK'
    BY <1>14 DEF Receive, TypeOK, AttemptCap
  <2>2. CallInv' /\ ServedInv'
    BY <1>14 DEF Receive, TypeOK, CallInv, ServedInv
  <2> QED BY <1>14, <1>1, <1>2, <2>1, <2>2 DEF Receive
<1>15. CASE IngestNext
  <2>1. TypeOK'
    BY <1>15 DEF IngestNext, Ingest, IngestFails, TypeOK, AttemptCap
  <2>2. CallInv' /\ ServedInv'
    BY <1>15 DEF IngestNext, Ingest, IngestFails, TypeOK, CallInv, ServedInv
  <2> QED BY <1>15, <1>1, <1>2, <2>1, <2>2 DEF IngestNext, Ingest, IngestFails
<1>16. CASE IngestLate
  <2>1. TypeOK'
    BY <1>16 DEF IngestLate, Ingest, IngestFails, TypeOK, AttemptCap
  <2>2. CallInv' /\ ServedInv'
    BY <1>16 DEF IngestLate, Ingest, IngestFails, TypeOK, CallInv, ServedInv
  <2> QED BY <1>16, <1>1, <1>2, <2>1, <2>2 DEF IngestLate, Ingest, IngestFails
<1>17. CASE Reply
  <2>1. TypeOK'
    BY <1>17 DEF Reply, TypeOK, AttemptCap
  <2>2. CallInv' /\ ServedInv'
    BY <1>17 DEF Reply, TypeOK, CallInv, ServedInv
  <2> QED BY <1>17, <1>1, <1>2, <2>1, <2>2 DEF Reply
<1>18. CASE ServerRestarts
  <2>1. TypeOK'
    BY <1>18 DEF ServerRestarts, TypeOK, AttemptCap
  <2>2. CallInv' /\ ServedInv'
    BY <1>18 DEF ServerRestarts, TypeOK, CallInv, ServedInv
  <2> QED BY <1>18, <1>1, <1>2, <2>1, <2>2 DEF ServerRestarts
<1>19. CASE UNCHANGED vars
  <2>1. TypeOK'
    BY <1>19 DEF vars, TypeOK, AttemptCap
  <2>2. CallInv' /\ ServedInv'
    BY <1>19 DEF vars, TypeOK, CallInv, ServedInv
  <2> QED BY <1>19, <1>1, <1>2, <2>1, <2>2 DEF vars
<1> QED
  BY <1>3, <1>4, <1>5, <1>6, <1>7, <1>8, <1>9, <1>10, <1>11, <1>12, <1>13, <1>14, <1>15,
     <1>16, <1>17, <1>18, <1>19
     DEF Next, ForwarderStep, ServerStep

-----------------------------------------------------------------------------
(* Theorems. *)

\* The inductive invariant holds of every behaviour of the forwarder, the
\* analyzer that feeds it and the server that it calls.
THEOREM FleetInvariant == Spec => []FleetInv
<1>1. Init => FleetInv
  BY FleetInitially
<1>2. FleetInv /\ [Next]_vars => FleetInv'
  BY FleetStep
<1> QED BY <1>1, <1>2, PTL DEF Spec

\* Type correctness: retry_count never passes the limit by more than one.
THEOREM TypeCorrect == Spec => []TypeOK
<1>1. FleetInv => TypeOK
  BY DEF FleetInv
<1> QED BY <1>1, FleetInvariant, PTL

\* No finding that forward_finding has queued vanishes: it is in the table, was
\* in the hands of the server, or was given up by mark_forward_failed.
THEOREM StoreAndForward == Spec => []NothingVanishes
<1>1. FleetInv => NothingVanishes
  BY DEF FleetInv
<1> QED BY <1>1, FleetInvariant, PTL

\* Because a batch is always the front of the table, mark_forward_failed uses up
\* the retries of older findings first.
THEOREM OldestTriedMost == Spec => []RetriesInOrder
<1>1. FleetInv => RetriesInOrder
  BY DEF FleetInv
<1> QED BY <1>1, FleetInvariant, PTL

\* mark_forward_failed deletes a finding only after RetryMax + 1 calls with it.
THEOREM RetriesAreMade == Spec => []GivenUpAfterRetries
<1>1. FleetInv => GivenUpAfterRetries
  BY DEF FleetInv
<1> QED BY <1>1, FleetInvariant, PTL

-----------------------------------------------------------------------------
(* Enrolment: the inductive invariant. *)

KeyStates == {"valid", "revoked", "absent"}
KeyOrNone == Keys \union {None}

RegisterSteps == {"register", "recheck", "validate", "count", "admit"}
HeartbeatSteps ==
  {"heartbeat", "reporting", "complete", "defaults", "policies", "rules", "custom", "tagged", "reply"}

\* The tables that decide who is admitted.
TablesType(d) ==
  /\ DOMAIN d = Tables
  /\ d.mapped \in [Agents -> KeyOrNone]
  /\ d.keys \in [Keys -> [state : KeyStates, uses : Nat]]

\* A transaction that still can be committed has the latest tables before it.
ConnInv ==
  /\ TablesType(db)
  /\ DOMAIN conn = Clients
  /\ \A t \in Clients :
       /\ DOMAIN conn[t] = {"tx", "view"}
       /\ conn[t].tx \in {"none", "begun", "pinned", "stale", "writing"}
       /\ conn[t].tx \in {"pinned", "writing"} => conn[t].view = db
       /\ conn[t].tx = "stale" => TablesType(conn[t].view)

RequestInv ==
  /\ scene \in DOMAIN Scenes
  /\ \A e \in edits : "op" \in DOMAIN e /\ e.op \in EditOps
  /\ DOMAIN request = Handlers
  /\ \A t \in Handlers :
       \/ request[t] = Free
       \/ /\ DOMAIN request[t] = {"at", "edit", "saw"}
          /\ request[t].at \in {"look", "write"}
          /\ "op" \in DOMAIN request[t].edit /\ request[t].edit.op \in EditOps

RpcType(r) ==
  /\ DOMAIN r = {"at", "agent", "key", "waits", "value", "rules"}
  /\ r.at \in RegisterSteps \union HeartbeatSteps
  /\ r.agent \in Agents /\ r.key \in KeyOrNone /\ r.waits \in BOOLEAN
  /\ r.at \in RegisterSteps => r.key \in Keys

MemberType(m) ==
  /\ DOMAIN m = {"key", "state", "barred", "value", "rules", "suppressed"}
  /\ m.key \in KeyOrNone /\ m.state \in {"off", "asking", "in", "out"} /\ m.barred \in BOOLEAN

ServerInv ==
  /\ DOMAIN rpc = Workers /\ \A w \in Workers : rpc[w] = Free \/ RpcType(rpc[w])
  /\ DOMAIN member = Agents /\ \A a \in Agents : MemberType(member[a])

Waiting(w) == rpc[w] # Free /\ rpc[w].waits

\* An agent waits for one call at a time; for RegisterAgent with the key that it has.
WaitInv ==
  /\ \A w, u \in Workers :
       Waiting(w) /\ Waiting(u) /\ rpc[w].agent = rpc[u].agent => w = u
  /\ \A w \in Workers : Waiting(w) =>
       /\ member[rpc[w].agent].state # "off"
       /\ rpc[w].at \in RegisterSteps => /\ member[rpc[w].agent].state = "asking"
                                         /\ member[rpc[w].agent].key = rpc[w].key

\* The key of a barred agent does not become valid again.  Only a worker on an old
\* snapshot gets past the check, and that one cannot write.
BarredInv ==
  /\ \A a \in Agents : member[a].barred /\ member[a].state = "asking" =>
       member[a].key \in Keys /\ ~KeyIsValid(db, member[a].key)
  /\ \A w \in Workers :
       Waiting(w) /\ rpc[w].at \in {"count", "admit"} /\ member[rpc[w].agent].barred =>
         conn[w].tx = "stale"
  /\ RevokedStaysOut

\* Who has a seat: the agents that are known by the key, and those that a worker
\* which can still write is about to make known.
Admitting(w, a, k) ==
  /\ rpc[w] # Free /\ rpc[w].at \in {"recheck", "admit"}
  /\ rpc[w].agent = a /\ rpc[w].key = k /\ conn[w].tx # "stale"
Seats(k) == {a \in Agents : db.mapped[a] = k \/ \E w \in Workers : Admitting(w, a, k)}

SeatInv ==
  \A k \in Keys : MaxUses[k] # None =>
    Cardinality(Seats(k)) <= db.keys[k].uses /\ db.keys[k].uses <= MaxUses[k]

EnrolInv ==
  /\ ConnInv /\ RequestInv /\ ServerInv /\ WaitInv /\ BarredInv /\ SeatInv

-----------------------------------------------------------------------------
(* What a step may do to the tables, as the threads see them. *)

StaleStay == \A w \in Workers : conn[w].tx = "stale" => conn'[w].tx = "stale"
ValidStay == \A k \in Keys : KeyIsValid(db', k) => KeyIsValid(db, k)
UsesStay  == \A k \in Keys : db'.keys[k].uses = db.keys[k].uses
SeatsStay == \A k \in Keys : Seats(k)' \subseteq Seats(k)

LEMMA ClientsAre == Workers \subseteq Clients /\ Handlers \subseteq Clients
                    /\ Workers \intersect Handlers = {}
BY EnrolmentAssumption

\* A thread that is not left on an old snapshot sees the tables as they are.
LEMMA SeesTheTables ==
  ASSUME ConnInv, NEW t \in Clients
  PROVE  /\ conn[t].tx # "stale" => Sees(t) = db
         /\ TablesType(Sees(t))
BY DEF ConnInv, Sees

LEMMA ReadsKeep ==
  ASSUME ConnInv, NEW t \in Clients, Reads(t), UNCHANGED db
  PROVE  ConnInv' /\ StaleStay /\ \A u \in Clients : conn'[u].tx = "stale" => conn[u].tx = "stale"
<1>1. DOMAIN conn' = Clients /\ \A u \in Clients \ {t} : conn'[u] = conn[u]
  BY DEF Reads, ConnInv
<1>2. CASE conn[t].tx = "begun"
  <2>1. conn'[t] = [tx |-> "pinned", view |-> db]
    BY <1>2 DEF Reads, ConnInv
  <2>2. DOMAIN conn'[t] = {"tx", "view"} /\ conn'[t].tx = "pinned" /\ conn'[t].view = db
    BY <2>1
  <2> QED BY <1>1, <1>2, <2>2, ClientsAre DEF ConnInv, StaleStay
<1>3. CASE conn[t].tx # "begun"
  <2>1. conn'[t] = conn[t]
    BY <1>3 DEF Reads, ConnInv
  <2> QED BY <1>1, <2>1, ClientsAre DEF ConnInv, StaleStay
<1> QED BY <1>2, <1>3

LEMMA RefusedKeeps ==
  ASSUME ConnInv, NEW t \in Clients, Refused(t)
  PROVE  /\ ConnInv' /\ StaleStay /\ UNCHANGED db
         /\ \A u \in Clients : conn'[u].tx = "stale" => conn[u].tx = "stale"
<1>1. /\ DOMAIN conn' = Clients /\ \A u \in Clients \ {t} : conn'[u] = conn[u]
      /\ conn'[t] = [conn[t] EXCEPT !.tx = IF @ = "none" THEN "begun" ELSE @] /\ db' = db
  BY DEF Refused, ConnInv
<1>2. DOMAIN conn[t] = {"tx", "view"}
  BY DEF ConnInv
<1>3. /\ DOMAIN conn'[t] = {"tx", "view"} /\ conn'[t].view = conn[t].view
      /\ conn'[t].tx = IF conn[t].tx = "none" THEN "begun" ELSE conn[t].tx
  BY <1>1, <1>2
<1> QED BY <1>1, <1>3, ClientsAre DEF ConnInv, StaleStay

LEMMA RaisesKeep ==
  ASSUME ConnInv, NEW t \in Clients, Raises(t, Sees(t))
  PROVE  ConnInv' /\ StaleStay /\ UNCHANGED db
<1>1. /\ DOMAIN conn' = Clients /\ \A u \in Clients \ {t} : conn'[u] = conn[u] /\ db' = db
      /\ conn'[t] = [tx |-> "writing", view |-> Sees(t)] /\ conn[t].tx # "stale"
  BY DEF Raises, CanWrite, ConnInv
<1>2. conn'[t].tx = "writing" /\ conn'[t].view = db /\ DOMAIN conn'[t] = {"tx", "view"}
  BY <1>1, SeesTheTables
<1> QED BY <1>1, <1>2, ClientsAre DEF ConnInv, StaleStay, Raises

LEMMA WritesKeep ==
  ASSUME ConnInv, NEW t \in Clients, NEW new, TablesType(new), Writes(t, new)
  PROVE  /\ ConnInv' /\ StaleStay /\ db' = new
         /\ Sees(t) = db /\ conn[t].tx # "stale" /\ conn'[t].tx # "stale"
<1>1. db' = new /\ conn[t].tx # "stale" /\ \A u \in Clients \ {t} : conn[u].tx # "writing"
  BY DEF Writes, CanWrite
<1>2. PICK ended \in {{u \in Clients \ {t} : conn[u].tx = "pinned"}} \union {{} : d \in {new} \intersect {db}} :
        conn' = [u \in Clients |->
          IF u = t THEN Unused ELSE IF u \in ended THEN [conn[u] EXCEPT !.tx = "stale"] ELSE conn[u]]
  BY DEF Writes
<1>3. \/ ended = {u \in Clients \ {t} : conn[u].tx = "pinned"}
      \/ ended = {} /\ new = db
  BY <1>2
<1>4. DOMAIN conn' = Clients
  BY <1>2
<1>5. conn'[t].tx = "none" /\ DOMAIN conn'[t] = {"tx", "view"}
  BY <1>2 DEF Unused
<1>6. ASSUME NEW u \in Clients, u # t
      PROVE  /\ DOMAIN conn'[u] = {"tx", "view"}
             /\ conn'[u].tx \in {"none", "begun", "pinned", "stale", "writing"}
             /\ conn'[u].tx \in {"pinned", "writing"} => conn'[u].view = new
             /\ conn'[u].tx = "stale" => TablesType(conn'[u].view)
             /\ conn[u].tx = "stale" => conn'[u].tx = "stale"
  <2>1. DOMAIN conn[u] = {"tx", "view"}
    BY DEF ConnInv
  <2>2. CASE u \in ended
    <3>1. conn[u].tx = "pinned" /\ conn'[u] = [conn[u] EXCEPT !.tx = "stale"]
      BY <1>2, <1>3, <1>6, <2>2
    <3>2. conn'[u].tx = "stale" /\ conn'[u].view = conn[u].view /\ DOMAIN conn'[u] = {"tx", "view"}
      BY <2>1, <3>1
    <3> QED BY <3>1, <3>2 DEF ConnInv
  <2>3. CASE u \notin ended
    <3>1. conn'[u] = conn[u]
      BY <1>2, <1>6, <2>3
    <3>2. conn[u].tx = "pinned" => new = db
      BY <1>3, <1>6, <2>3
    <3> QED BY <1>1, <1>6, <3>1, <3>2 DEF ConnInv
  <2> QED BY <2>2, <2>3
<1>7. ConnInv'
  <2> SUFFICES ASSUME NEW u \in Clients
               PROVE  /\ DOMAIN conn'[u] = {"tx", "view"}
                      /\ conn'[u].tx \in {"none", "begun", "pinned", "stale", "writing"}
                      /\ conn'[u].tx \in {"pinned", "writing"} => conn'[u].view = db'
                      /\ conn'[u].tx = "stale" => TablesType(conn'[u].view)
    BY <1>1, <1>4 DEF ConnInv
  <2> QED BY <1>1, <1>5, <1>6
<1>8. StaleStay
  BY <1>1, <1>6, ClientsAre DEF StaleStay
<1> QED BY <1>1, <1>5, <1>7, <1>8, SeesTheTables

\* No request of an administrator makes an agent known, gives a key uses, or makes
\* it valid again.
LEMMA EditedKeeps ==
  ASSUME NEW d, TablesType(d), NEW e, "op" \in DOMAIN e, e.op \in EditOps, NEW saw
  PROVE  /\ TablesType(Edited(d, e, saw))
         /\ Edited(d, e, saw).mapped = d.mapped
         /\ \A k \in Keys : /\ Edited(d, e, saw).keys[k].uses = d.keys[k].uses
                            /\ KeyIsValid(Edited(d, e, saw), k) => KeyIsValid(d, k)
<1> DEFINE Fine(x) == /\ DOMAIN x = Tables /\ x.mapped = d.mapped
                      /\ x.keys \in [Keys -> [state : KeyStates, uses : Nat]]
                      /\ \A k \in Keys : /\ x.keys[k].uses = d.keys[k].uses
                                         /\ x.keys[k].state = "valid" => d.keys[k].state = "valid"
<1>1. SUFFICES Fine(Edited(d, e, saw))
  BY DEF TablesType, KeyIsValid
<1>2. /\ DOMAIN d = Tables /\ d.mapped \in [Agents -> KeyOrNone]
      /\ d.keys \in [Keys -> [state : KeyStates, uses : Nat]]
  BY DEF TablesType
<1>3. Fine(d)
  BY <1>2
<1>4. ASSUME NEW x
      PROVE  /\ Fine([d EXCEPT !.tags = x]) /\ Fine([d EXCEPT !.assigned = x])
             /\ Fine([d EXCEPT !.default = x]) /\ Fine([d EXCEPT !.disabled = x])
             /\ Fine([d EXCEPT !.custom = x]) /\ Fine([d EXCEPT !.suppressed = x])
  BY <1>2 DEF Tables
<1>5. ASSUME NEW k \in Keys, NEW st \in {"revoked", "absent"}
      PROVE  Fine([d EXCEPT !.keys[k].state = st])
  <2> DEFINE ks == [d.keys EXCEPT ![k].state = st]
             x == [d EXCEPT !.keys[k].state = st]
  <2>1. x.keys = ks /\ x.mapped = d.mapped /\ DOMAIN x = Tables
    BY <1>2 DEF Tables
  <2>2. d.keys[k] \in [state : KeyStates, uses : Nat] /\ st \in KeyStates
    BY <1>2 DEF KeyStates
  <2>3. /\ ks \in [Keys -> [state : KeyStates, uses : Nat]]
        /\ \A j \in Keys \ {k} : ks[j] = d.keys[j]
        /\ ks[k].uses = d.keys[k].uses /\ ks[k].state = st
    BY <1>2, <2>2
  <2> HIDE DEF ks, x
  <2>4. Fine(x)
    BY <2>1, <2>3
  <2> QED BY <2>4 DEF x
<1>6. ASSUME NEW k, k \notin Keys, NEW st
      PROVE  Fine([d EXCEPT !.keys[k].state = st])
  <2>1. [d.keys EXCEPT ![k].state = st] = d.keys
    BY <1>2, <1>6
  <2> QED BY <1>2, <2>1 DEF Tables
<1>7. ASSUME NEW k
      PROVE  Fine(RevokeKey(d, k)) /\ Fine(DeleteKey(d, k))
  <2> HIDE DEF Fine
  <2> QED BY <1>5, <1>6 DEF RevokeKey, DeleteKey
<1> HIDE DEF Fine
<1>8. CASE e.op \in {"create_tag", "delete_tag", "assign_tag", "remove_tag", "set_default"}
  <2>1. CASE e.op = "create_tag"
    <3> DEFINE x == [d.tags EXCEPT ![e.tag] = [NoTag EXCEPT !.here = TRUE, !.priority = e.priority]]
    <3>1. CreateTag(d, e.tag, e.priority) = [d EXCEPT !.tags = x]
      BY DEF CreateTag
    <3>2. Edited(d, e, saw) = CreateTag(d, e.tag, e.priority)
      BY <2>1 DEF Edited
    <3> HIDE DEF x
    <3> QED BY <1>4, <3>1, <3>2
  <2>2. CASE e.op = "delete_tag"
    <3> DEFINE x == [d.tags EXCEPT ![e.tag] = NoTag]
               y == {z \in d.assigned : z[2] # e.tag}
    <3>1. DeleteTag(d, e.tag) = [d EXCEPT !.tags = x, !.assigned = y]
      BY DEF DeleteTag
    <3>2. Edited(d, e, saw) = DeleteTag(d, e.tag)
      BY <2>2 DEF Edited
    <3> HIDE DEF x, y
    <3> QED BY <1>2, <3>1, <3>2 DEF Fine, Tables
  <2>3. CASE e.op \in {"assign_tag", "remove_tag", "set_default"}
    BY <1>4, <2>3 DEF Edited, AssignTag, RemoveTag, SetDefault
  <2> QED BY <1>8, <2>1, <2>2, <2>3
<1>9. CASE e.op \in {"toggle", "add_rule", "delete_rule", "suppress", "unsuppress"}
  BY <1>3, <1>4, <1>9 DEF Edited, ToggleRule, AddCustomRule, DeleteCustomRule, AddSuppression,
    DeleteSuppression
<1>10. CASE e.op \in {"revoke", "delete_key"}
  BY <1>3, <1>7, <1>10 DEF Edited
<1>11. CASE e.op \in {"update_tag", "set_policy", "set_rules"}
  BY <1>3, <1>4, <1>11 DEF Edited, UpdateTag, SetTagPolicy, SetTagRules
<1> QED BY <1>8, <1>9, <1>10, <1>11 DEF EditOps

-----------------------------------------------------------------------------
(* What a step may do to the agents and to the calls. *)

\* Seats are given to no one: the limit holds as it did.
LEMMA SeatsKeep ==
  ASSUME ConnInv, SeatInv, UsesStay, SeatsStay
  PROVE  SeatInv'
<1> SUFFICES ASSUME NEW k \in Keys, MaxUses[k] # None
             PROVE  Cardinality(Seats(k)') <= db'.keys[k].uses /\ db'.keys[k].uses <= MaxUses[k]
  BY DEF SeatInv
<1>1. IsFiniteSet(Seats(k)) /\ Seats(k)' \subseteq Seats(k)
  <2>1. Seats(k) \subseteq Agents
    BY DEF Seats
  <2> QED BY <2>1, SettingsAssumption, FS_Subset DEF SeatsStay
<1>2. IsFiniteSet(Seats(k)') /\ Cardinality(Seats(k)') <= Cardinality(Seats(k))
  BY <1>1, FS_Subset
<1>3. Cardinality(Seats(k)) \in Nat /\ Cardinality(Seats(k)') \in Nat
  BY <1>1, <1>2, FS_CardinalityType
<1>4. Cardinality(Seats(k)) <= db.keys[k].uses /\ db.keys[k].uses <= MaxUses[k]
  BY DEF SeatInv
<1>5. db.keys[k].uses \in Nat /\ db'.keys[k].uses = db.keys[k].uses
  BY DEF ConnInv, TablesType, UsesStay
<1> QED BY <1>2, <1>3, <1>4, <1>5

\* An administrator's request.
LEMMA AdministratorKeeps ==
  ASSUME EnrolInv, ConnInv', RequestInv', StaleStay, ValidStay, UsesStay,
         db'.mapped = db.mapped, UNCHANGED <<rpc, member>>
  PROVE  EnrolInv'
<1>1. ServerInv' /\ WaitInv'
  BY DEF EnrolInv, ServerInv, WaitInv, Waiting
<1>2. BarredInv'
  BY DEF EnrolInv, ServerInv, BarredInv, RevokedStaysOut, Waiting, StaleStay, ValidStay
<1>3. SeatsStay
  BY DEF SeatsStay, Seats, Admitting, StaleStay
<1> QED BY <1>1, <1>2, <1>3, SeatsKeep DEF EnrolInv

\* A worker goes on with a call.
LEMMA GoesOnKeeps ==
  ASSUME EnrolInv, ConnInv', SeatInv', StaleStay, ValidStay,
         NEW w \in Workers, rpc[w] # Free, NEW r, rpc' = [rpc EXCEPT ![w] = r], RpcType(r),
         r.agent = rpc[w].agent, r.waits = rpc[w].waits,
         r.at \in RegisterSteps => rpc[w].at \in RegisterSteps /\ r.key = rpc[w].key,
         r.at \in {"count", "admit"} /\ r.waits /\ member[r.agent].barred => conn'[w].tx = "stale",
         UNCHANGED <<scene, adminVars, member>>
  PROVE  EnrolInv'
<1>1. /\ DOMAIN rpc' = Workers /\ rpc'[w] = r /\ \A u \in Workers \ {w} : rpc'[u] = rpc[u]
  BY DEF EnrolInv, ServerInv
<1>2. RequestInv'
  BY DEF EnrolInv, RequestInv, adminVars
<1>3. ServerInv'
  BY <1>1 DEF EnrolInv, ServerInv
<1>4. /\ Waiting(w)' => Waiting(w)
      /\ \A u \in Workers \ {w} : Waiting(u)' <=> Waiting(u)
      /\ \A u \in Workers : rpc'[u].agent = rpc[u].agent
  BY <1>1 DEF Waiting
<1>5. WaitInv'
  BY <1>1, <1>4 DEF EnrolInv, WaitInv
<1>6. BarredInv'
  <2>1. \A u \in Workers \ {w} :
          Waiting(u)' /\ rpc'[u].at \in {"count", "admit"} /\ member[rpc'[u].agent].barred =>
            conn'[u].tx = "stale"
    BY <1>1, <1>4 DEF EnrolInv, BarredInv, StaleStay
  <2>2. Waiting(w)' /\ rpc'[w].at \in {"count", "admit"} /\ member[rpc'[w].agent].barred =>
          conn'[w].tx = "stale"
    BY <1>1 DEF Waiting
  <2> QED BY <2>1, <2>2 DEF EnrolInv, ServerInv, BarredInv, RevokedStaysOut, ValidStay
<1> QED BY <1>2, <1>3, <1>5, <1>6 DEF EnrolInv

\* A call ends, for the worker or for the agent.
LEMMA CallEndsKeeps ==
  ASSUME EnrolInv, ConnInv', SeatInv', StaleStay, ValidStay,
         NEW w \in Workers, rpc[w] # Free, NEW r, rpc' = [rpc EXCEPT ![w] = r],
         r \in {Free, [rpc[w] EXCEPT !.waits = FALSE]},
         \/ UNCHANGED member
         \/ /\ Waiting(w)
            /\ \E m : /\ MemberType(m) /\ member' = [member EXCEPT ![rpc[w].agent] = m]
                      /\ m.key = member[rpc[w].agent].key
                      /\ m.barred = member[rpc[w].agent].barred
                      /\ m.state \in {"in", "out", member[rpc[w].agent].state}
                      /\ m.state = "in" => ~m.barred,
         UNCHANGED <<scene, adminVars>>
  PROVE  EnrolInv'
<1>1. /\ DOMAIN rpc' = Workers /\ rpc'[w] = r /\ \A u \in Workers \ {w} : rpc'[u] = rpc[u]
      /\ RpcType(rpc[w])
  BY DEF EnrolInv, ServerInv
<1>2. RequestInv'
  BY DEF EnrolInv, RequestInv, adminVars
<1>3. r = Free \/ (RpcType(r) /\ ~r.waits)
  <2>1. CASE r = [rpc[w] EXCEPT !.waits = FALSE]
    <3>1. /\ DOMAIN r = DOMAIN rpc[w] /\ r.at = rpc[w].at /\ r.agent = rpc[w].agent
          /\ r.key = rpc[w].key /\ r.waits = FALSE
      BY <1>1, <2>1 DEF RpcType
    <3> QED BY <1>1, <3>1 DEF RpcType
  <2> QED BY <2>1
<1>4. ~Waiting(w)' /\ \A u \in Workers \ {w} : Waiting(u)' <=> Waiting(u)
  BY <1>1, <1>3 DEF Waiting
<1>5. \A u \in Workers : Waiting(u)' => u # w /\ Waiting(u) /\ rpc'[u] = rpc[u] /\ rpc[u].agent \in Agents
  BY <1>1, <1>4 DEF EnrolInv, ServerInv, Waiting, RpcType
<1>6. CASE UNCHANGED member
  <2>1. ServerInv'
    BY <1>1, <1>3, <1>6 DEF EnrolInv, ServerInv
  <2>2. WaitInv'
    BY <1>5, <1>6 DEF EnrolInv, WaitInv
  <2>3. BarredInv'
    BY <1>5, <1>6 DEF EnrolInv, ServerInv, BarredInv, RevokedStaysOut, StaleStay, ValidStay
  <2> QED BY <1>2, <2>1, <2>2, <2>3 DEF EnrolInv
<1>7. CASE ~UNCHANGED member
  <2> DEFINE a == rpc[w].agent
  <2>1. a \in Agents /\ Waiting(w)
    BY <1>1, <1>7 DEF RpcType
  <2>2. PICK m : /\ MemberType(m) /\ member' = [member EXCEPT ![a] = m]
                 /\ m.key = member[a].key /\ m.barred = member[a].barred
                 /\ m.state \in {"in", "out", member[a].state} /\ (m.state = "in" => ~m.barred)
    BY <1>7
  <2>3. /\ DOMAIN member' = Agents /\ member'[a] = m
        /\ \A b \in Agents \ {a} : member'[b] = member[b]
    BY <2>1, <2>2 DEF EnrolInv, ServerInv
  <2>4. \A u \in Workers : Waiting(u)' => rpc[u].agent # a
    BY <1>5, <2>1 DEF EnrolInv, WaitInv
  <2> HIDE DEF a
  <2>5. ServerInv'
    BY <1>1, <1>3, <2>2, <2>3 DEF EnrolInv, ServerInv
  <2>6. WaitInv'
    BY <1>5, <2>3, <2>4 DEF EnrolInv, WaitInv
  <2>7. BarredInv'
    <3>1. \A b \in Agents : member'[b].barred /\ member'[b].state = "asking" =>
            member'[b].key \in Keys /\ ~KeyIsValid(db', member'[b].key)
      <4>1. \A b \in Agents : member'[b].barred /\ member'[b].state = "asking" =>
              member[b].barred /\ member[b].state = "asking" /\ member'[b].key = member[b].key
        BY <2>1, <2>2, <2>3
      <4> QED BY <4>1 DEF EnrolInv, BarredInv, ValidStay
    <3>2. \A u \in Workers :
            Waiting(u)' /\ rpc'[u].at \in {"count", "admit"} /\ member'[rpc'[u].agent].barred =>
              conn'[u].tx = "stale"
      BY <1>5, <2>3, <2>4 DEF EnrolInv, BarredInv, StaleStay
    <3>3. RevokedStaysOut'
      BY <2>2, <2>3 DEF EnrolInv, BarredInv, RevokedStaysOut
    <3> QED BY <3>1, <3>2, <3>3 DEF BarredInv
  <2> QED BY <1>2, <2>5, <2>6, <2>7 DEF EnrolInv
<1> QED BY <1>6, <1>7

-----------------------------------------------------------------------------
(* Administrators. *)

LEMMA SameTables ==
  ASSUME UNCHANGED db
  PROVE  ValidStay /\ UsesStay /\ db'.mapped = db.mapped
BY DEF ValidStay, UsesStay

LEMMA RequestGoes ==
  ASSUME RequestInv, NEW t \in Handlers, NEW r, request' = [request EXCEPT ![t] = r],
         \/ r = Free
         \/ /\ DOMAIN r = {"at", "edit", "saw"} /\ r.at \in {"look", "write"}
            /\ "op" \in DOMAIN r.edit /\ r.edit.op \in EditOps,
         edits' \subseteq edits, UNCHANGED scene
  PROVE  RequestInv'
<1>1. /\ DOMAIN request' = Handlers /\ request'[t] = r
      /\ \A u \in Handlers \ {t} : request'[u] = request[u]
  BY DEF RequestInv
<1> QED BY <1>1 DEF RequestInv

LEMMA BeginType ==
  ASSUME NEW e, "op" \in DOMAIN e, e.op \in EditOps
  PROVE  /\ DOMAIN Begin(e) = {"at", "edit", "saw"} /\ Begin(e).at \in {"look", "write"}
         /\ "op" \in DOMAIN Begin(e).edit /\ Begin(e).edit.op \in EditOps
BY DEF Begin

LEMMA AdministratorStep ==
  ASSUME EnrolInv, NEW t \in Handlers, Administer(t)
  PROVE  EnrolInv'
<1>1. t \in Clients /\ ConnInv /\ RequestInv /\ DOMAIN conn = Clients /\ DOMAIN request = Handlers
  BY ClientsAre DEF EnrolInv, ConnInv, RequestInv
<1>2. CASE Request(t)
  <2>1. PICK e \in edits : edits' = edits \ {e} /\ request' = [request EXCEPT ![t] = Begin(e)]
    BY <1>2 DEF Request
  <2>2. RequestInv'
    <3>1. "op" \in DOMAIN e /\ e.op \in EditOps
      BY <1>1 DEF RequestInv
    <3> QED BY <1>1, <1>2, <2>1, <3>1, BeginType, RequestGoes DEF Request
  <2>3. UNCHANGED <<db, conn, rpc, member>>
    BY <1>2 DEF Request, agentVars
  <2>4. ConnInv' /\ StaleStay
    BY <1>1, <2>3 DEF ConnInv, StaleStay
  <2> QED BY <2>2, <2>3, <2>4, SameTables, AdministratorKeeps
<1>3. CASE Look(t)
  <2>1. Reads(t) /\ UNCHANGED <<db, rpc, member>> /\ UNCHANGED <<scene, edits>> /\ request[t].at = "look"
    BY <1>3 DEF Look, agentVars
  <2>2. request[t] # Free
    BY <2>1 DEF Free
  <2>3. /\ DOMAIN request[t] = {"at", "edit", "saw"} /\ request[t].at \in {"look", "write"}
        /\ "op" \in DOMAIN request[t].edit /\ request[t].edit.op \in EditOps
    BY <1>1, <2>2 DEF RequestInv
  <2>4. PICK found : request' = [request EXCEPT ![t] =
             IF found \/ request[t].edit.op = "toggle"
             THEN [request[t] EXCEPT !.at = "write", !.saw = found] ELSE Free]
    BY <1>1, <1>3 DEF Look
  <2> DEFINE r == IF found \/ request[t].edit.op = "toggle"
                  THEN [request[t] EXCEPT !.at = "write", !.saw = found] ELSE Free
  <2>5. \/ r = Free
        \/ /\ DOMAIN r = {"at", "edit", "saw"} /\ r.at \in {"look", "write"}
           /\ "op" \in DOMAIN r.edit /\ r.edit.op \in EditOps
    BY <2>3
  <2>6. request' = [request EXCEPT ![t] = r]
    BY <2>4
  <2> HIDE DEF r
  <2>7. RequestInv'
    BY <1>1, <2>1, <2>5, <2>6, RequestGoes
  <2>8. ConnInv' /\ StaleStay
    BY <1>1, <2>1, ReadsKeep
  <2> QED BY <2>1, <2>7, <2>8, SameTables, AdministratorKeeps
<1>4. CASE WriteEdit(t)
  <2> DEFINE e == request[t].edit
             saw == request[t].saw
             d == Sees(t)
             Ends(next) == request' = [request EXCEPT ![t] = next]
             next == IF e.op = "set_policy" THEN Begin([e EXCEPT !.op = "set_rules"]) ELSE Free
  <2>1. /\ request[t].at = "write" /\ UNCHANGED <<scene, edits, rpc, member>>
        /\ \/ Refused(t) /\ Ends(Free)
           \/ Raises(t, d) /\ Ends(Free)
           \/ Writes(t, Edited(d, e, saw)) /\ Ends(next)
    BY <1>4 DEF WriteEdit, agentVars
  <2>2. "op" \in DOMAIN e /\ e.op \in EditOps
    <3>1. request[t] # Free
      BY <2>1 DEF Free
    <3> QED BY <1>1, <3>1 DEF RequestInv
  <2>3. \/ next = Free
        \/ /\ DOMAIN next = {"at", "edit", "saw"} /\ next.at \in {"look", "write"}
           /\ "op" \in DOMAIN next.edit /\ next.edit.op \in EditOps
    <3> DEFINE f == [e EXCEPT !.op = "set_rules"]
    <3>1. "op" \in DOMAIN f /\ f.op \in EditOps
      BY <2>2 DEF EditOps
    <3> HIDE DEF f
    <3>2. /\ DOMAIN Begin(f) = {"at", "edit", "saw"} /\ Begin(f).at \in {"look", "write"}
          /\ "op" \in DOMAIN Begin(f).edit /\ Begin(f).edit.op \in EditOps
      BY <3>1, BeginType
    <3>3. next = Begin(f) \/ next = Free
      BY DEF f
    <3> HIDE DEF next
    <3> QED BY <3>2, <3>3
  <2>4. RequestInv'
    <3> HIDE DEF next, e, d, saw
    <3> QED BY <1>1, <2>1, <2>3, RequestGoes
  <2>5. CASE Refused(t)
    <3>1. ConnInv' /\ StaleStay /\ UNCHANGED db
      BY <1>1, <2>5, RefusedKeeps
    <3> QED BY <2>1, <2>4, <3>1, SameTables, AdministratorKeeps
  <2>6. CASE Raises(t, d)
    <3>1. ConnInv' /\ StaleStay /\ UNCHANGED db
      BY <1>1, <2>6, RaisesKeep
    <3> QED BY <2>1, <2>4, <3>1, SameTables, AdministratorKeeps
  <2>7. CASE Writes(t, Edited(d, e, saw))
    <3> DEFINE new == Edited(d, e, saw)
    <3> HIDE DEF e, saw
    <3>1. TablesType(d)
      BY <1>1, SeesTheTables
    <3> HIDE DEF d
    <3>2. /\ TablesType(new) /\ new.mapped = d.mapped
          /\ \A k \in Keys : /\ new.keys[k].uses = d.keys[k].uses
                             /\ KeyIsValid(new, k) => KeyIsValid(d, k)
      BY <2>2, <3>1, EditedKeeps
    <3>3. Writes(t, new)
      BY <2>7
    <3> HIDE DEF new
    <3>4. ConnInv' /\ StaleStay /\ db' = new /\ d = db
      BY <1>1, <3>2, <3>3, WritesKeep DEF d
    <3>5. ValidStay /\ UsesStay /\ db'.mapped = db.mapped
      BY <3>2, <3>4 DEF ValidStay, UsesStay
    <3> QED BY <2>1, <2>4, <3>4, <3>5, AdministratorKeeps
  <2> QED BY <2>1, <2>5, <2>6, <2>7
<1>5. CASE ReadOnly(t)
  <2>1. Reads(t) /\ UNCHANGED <<db, scene, edits, request, rpc, member>>
    BY <1>5 DEF ReadOnly, adminVars, agentVars
  <2>2. RequestInv'
    BY <1>1, <2>1 DEF RequestInv
  <2>3. ConnInv' /\ StaleStay
    BY <1>1, <2>1, ReadsKeep
  <2> QED BY <2>1, <2>2, <2>3, SameTables, AdministratorKeeps
<1>6. CASE EndThread(t)
  <2>1. conn' = [conn EXCEPT ![t] = Unused] /\ UNCHANGED <<db, scene, edits, request, rpc, member>>
    BY <1>6 DEF EndThread, adminVars, agentVars
  <2>2. RequestInv'
    BY <1>1, <2>1 DEF RequestInv
  <2>3. /\ DOMAIN conn' = Clients /\ \A u \in Clients \ {t} : conn'[u] = conn[u]
        /\ conn'[t].tx = "none" /\ DOMAIN conn'[t] = {"tx", "view"}
    BY <1>1, <2>1 DEF Unused
  <2>4. ConnInv' /\ StaleStay
    BY <1>1, <2>1, <2>3, ClientsAre DEF ConnInv, StaleStay
  <2> QED BY <2>1, <2>2, <2>4, SameTables, AdministratorKeeps
<1> QED BY <1>2, <1>3, <1>4, <1>5, <1>6 DEF Administer

-----------------------------------------------------------------------------
(* Agents. *)

\* Nothing has happened in the database.
LEMMA SameDatabase ==
  ASSUME EnrolInv, UNCHANGED <<db, conn>>
  PROVE  ConnInv' /\ StaleStay /\ ValidStay /\ UsesStay
BY DEF EnrolInv, ConnInv, StaleStay, ValidStay, UsesStay

LEMMA ServeType ==
  ASSUME EnrolInv, NEW w \in Workers, NEW a \in Agents,
         NEW kind \in {"register", "heartbeat", "reporting"}, Serve(w, kind, a),
         kind = "register" => member[a].key \in Keys
  PROVE  /\ DOMAIN rpc' = Workers /\ RpcType(rpc'[w]) /\ rpc[w] = Free
         /\ rpc'[w].at = kind /\ rpc'[w].agent = a /\ rpc'[w].key = member[a].key /\ rpc'[w].waits
         /\ \A u \in Workers \ {w} : rpc'[u] = rpc[u]
<1> DEFINE r == [at |-> kind, agent |-> a, key |-> member[a].key, waits |-> TRUE,
                 value |-> None, rules |-> {}]
<1>1. /\ rpc' = [rpc EXCEPT ![w] = r] /\ rpc[w] = Free /\ DOMAIN rpc = Workers
      /\ member[a].key \in KeyOrNone
  BY DEF Serve, EnrolInv, ServerInv, MemberType
<1>2. RpcType(r)
  BY <1>1 DEF RpcType, RegisterSteps, HeartbeatSteps
<1>3. r.at = kind /\ r.agent = a /\ r.key = member[a].key /\ r.waits = TRUE
  OBVIOUS
<1> HIDE DEF r
<1> QED BY <1>1, <1>2, <1>3

LEMMA ServeSeats ==
  ASSUME EnrolInv, NEW w \in Workers, NEW a \in Agents,
         NEW kind \in {"register", "heartbeat", "reporting"}, Serve(w, kind, a),
         kind = "register" => member[a].key \in Keys,
         UNCHANGED <<db, conn>>
  PROVE  SeatInv'
<1>1. /\ rpc'[w].at = kind /\ \A u \in Workers \ {w} : rpc'[u] = rpc[u]
  BY ServeType
<1>2. SeatsStay
  BY <1>1 DEF SeatsStay, Seats, Admitting
<1> QED BY <1>2, SameDatabase, SeatsKeep DEF EnrolInv

LEMMA AskToRegisterKeeps ==
  ASSUME EnrolInv, NEW a \in Agents, NEW w \in Workers, AskToRegister(a, w)
  PROVE  EnrolInv'
<1>1. /\ Serve(w, "register", a) /\ member[a].state = "off" /\ member[a].key # None
      /\ member' = [member EXCEPT ![a].state = "asking", ![a].barred = ~KeyIsValid(db, member[a].key)]
      /\ UNCHANGED <<db, conn, scene, adminVars>>
  BY DEF AskToRegister
<1>2. DOMAIN member = Agents /\ MemberType(member[a]) /\ member[a].key \in Keys
  BY <1>1 DEF EnrolInv, ServerInv, MemberType, KeyOrNone
<1>3. /\ DOMAIN rpc' = Workers /\ RpcType(rpc'[w]) /\ rpc[w] = Free
      /\ rpc'[w].at = "register" /\ rpc'[w].agent = a /\ rpc'[w].key = member[a].key
      /\ \A u \in Workers \ {w} : rpc'[u] = rpc[u]
  BY <1>1, <1>2, ServeType
<1>4. /\ DOMAIN member' = Agents /\ \A b \in Agents \ {a} : member'[b] = member[b]
      /\ MemberType(member'[a]) /\ member'[a].key = member[a].key
      /\ member'[a].state = "asking" /\ member'[a].barred = ~KeyIsValid(db, member[a].key)
  <2> DEFINE m == [member[a] EXCEPT !.state = "asking", !.barred = ~KeyIsValid(db, member[a].key)]
  <2>1. member' = [member EXCEPT ![a] = m]
    BY <1>1, <1>2
  <2>2. /\ DOMAIN m = DOMAIN member[a] /\ m.key = member[a].key /\ m.state = "asking"
        /\ m.barred = ~KeyIsValid(db, member[a].key)
    BY <1>2 DEF MemberType
  <2>3. MemberType(m)
    BY <1>2, <2>2 DEF MemberType, KeyIsValid
  <2> HIDE DEF m
  <2> QED BY <1>2, <2>1, <2>2, <2>3
<1>5. \A u \in Workers : Waiting(u) => rpc[u].agent # a
  BY <1>1 DEF EnrolInv, WaitInv
<1>6. \A u \in Workers \ {w} : Waiting(u)' => Waiting(u) /\ rpc[u].agent \in Agents \ {a}
  BY <1>3, <1>5 DEF Waiting, EnrolInv, ServerInv, RpcType
<1>7. RequestInv' /\ ServerInv'
  BY <1>1, <1>3, <1>4 DEF EnrolInv, RequestInv, adminVars, ServerInv
<1>8. WaitInv'
  BY <1>3, <1>4, <1>6 DEF EnrolInv, WaitInv
<1>9. BarredInv'
  <2>1. \A b \in Agents : member'[b].barred /\ member'[b].state = "asking" =>
          member'[b].key \in Keys /\ ~KeyIsValid(db, member'[b].key)
    BY <1>2, <1>4 DEF EnrolInv, BarredInv
  <2>2. \A u \in Workers :
          Waiting(u)' /\ rpc'[u].at \in {"count", "admit"} /\ member'[rpc'[u].agent].barred =>
            conn'[u].tx = "stale"
    BY <1>1, <1>3, <1>4, <1>6 DEF EnrolInv, BarredInv
  <2>3. RevokedStaysOut'
    BY <1>4 DEF EnrolInv, BarredInv, RevokedStaysOut
  <2> QED BY <1>1, <2>1, <2>2, <2>3 DEF BarredInv
<1>10. SeatInv'
  BY <1>1, <1>2, ServeSeats
<1> QED BY <1>1, <1>7, <1>8, <1>9, <1>10, SameDatabase DEF EnrolInv

LEMMA SendHeartbeatKeeps ==
  ASSUME EnrolInv, NEW a \in Agents, NEW w \in Workers, SendHeartbeat(a, w)
  PROVE  EnrolInv'
<1>1. PICK kind \in {"heartbeat", "reporting"} : Serve(w, kind, a)
  BY DEF SendHeartbeat
<1>2. member[a].state # "off" /\ ~Waits(a) /\ UNCHANGED <<db, conn, scene, adminVars, member>>
  BY DEF SendHeartbeat
<1>3. /\ DOMAIN rpc' = Workers /\ RpcType(rpc'[w]) /\ rpc[w] = Free
      /\ rpc'[w].at = kind /\ rpc'[w].agent = a
      /\ \A u \in Workers \ {w} : rpc'[u] = rpc[u]
  BY <1>1, ServeType
<1>4. \A u \in Workers : Waiting(u) => rpc[u].agent # a
  BY <1>2 DEF Waits, Waiting
<1>5. \A u \in Workers \ {w} : Waiting(u)' => Waiting(u) /\ rpc[u].agent # a
  BY <1>3, <1>4 DEF Waiting
<1>6. RequestInv' /\ ServerInv'
  BY <1>2, <1>3 DEF EnrolInv, RequestInv, adminVars, ServerInv
<1>7. WaitInv'
  BY <1>2, <1>3, <1>5 DEF EnrolInv, WaitInv, RegisterSteps
<1>8. BarredInv'
  <2>1. \A u \in Workers :
          Waiting(u)' /\ rpc'[u].at \in {"count", "admit"} /\ member'[rpc'[u].agent].barred =>
            conn'[u].tx = "stale"
    BY <1>2, <1>3, <1>5 DEF EnrolInv, BarredInv
  <2> QED BY <1>2, <2>1 DEF EnrolInv, BarredInv, RevokedStaysOut
<1>9. SeatInv'
  BY <1>1, <1>2, ServeSeats
<1> QED BY <1>2, <1>6, <1>7, <1>8, <1>9, SameDatabase DEF EnrolInv

LEMMA RestartAgentKeeps ==
  ASSUME EnrolInv, NEW a \in Agents, RestartAgent(a)
  PROVE  EnrolInv'
<1>1. PICK k \in Scenes[scene].rekeys : member' = [member EXCEPT ![a] = Unconfigured(k)]
  BY DEF RestartAgent
<1>2. /\ rpc' = [u \in Workers |->
            IF rpc[u] # Free /\ rpc[u].agent = a THEN [rpc[u] EXCEPT !.waits = FALSE] ELSE rpc[u]]
      /\ UNCHANGED <<db, conn, scene, adminVars>>
  BY DEF RestartAgent
<1>3. k \in KeyOrNone
  BY EnrolmentAssumption DEF EnrolInv, RequestInv, KeyOrNone
<1>4. /\ DOMAIN member' = Agents /\ \A b \in Agents \ {a} : member'[b] = member[b]
      /\ MemberType(member'[a]) /\ member'[a].state = "off"
  BY <1>1, <1>3 DEF EnrolInv, ServerInv, Unconfigured, MemberType
<1>5. ASSUME NEW u \in Workers
      PROVE  \/ rpc'[u] = rpc[u] /\ (rpc[u] # Free => rpc[u].agent # a)
             \/ /\ rpc[u] # Free /\ RpcType(rpc'[u]) /\ ~rpc'[u].waits /\ rpc'[u].at = rpc[u].at
                /\ rpc'[u].agent = rpc[u].agent /\ rpc'[u].key = rpc[u].key
  <2>1. CASE rpc[u] # Free /\ rpc[u].agent = a
    <3> DEFINE r == [rpc[u] EXCEPT !.waits = FALSE]
    <3>1. RpcType(rpc[u]) /\ rpc'[u] = r
      BY <1>2, <2>1 DEF EnrolInv, ServerInv
    <3>2. /\ DOMAIN r = DOMAIN rpc[u] /\ r.at = rpc[u].at /\ r.agent = rpc[u].agent
          /\ r.key = rpc[u].key /\ r.waits = FALSE
      BY <3>1 DEF RpcType
    <3> HIDE DEF r
    <3> QED BY <2>1, <3>1, <3>2 DEF RpcType
  <2>2. CASE ~(rpc[u] # Free /\ rpc[u].agent = a)
    BY <1>2, <2>2
  <2> QED BY <2>1, <2>2
<1>6. \A u \in Workers : Waiting(u)' => Waiting(u) /\ rpc'[u] = rpc[u] /\ rpc[u].agent \in Agents \ {a}
  BY <1>5 DEF Waiting, EnrolInv, ServerInv, RpcType
<1>7. RequestInv' /\ ServerInv'
  BY <1>2, <1>4, <1>5 DEF EnrolInv, RequestInv, adminVars, ServerInv
<1>8. WaitInv'
  BY <1>4, <1>6 DEF EnrolInv, WaitInv
<1>9. BarredInv'
  <2>1. \A b \in Agents : member'[b].barred /\ member'[b].state = "asking" =>
          member'[b].key \in Keys /\ ~KeyIsValid(db, member'[b].key)
    BY <1>4 DEF EnrolInv, BarredInv
  <2>2. \A u \in Workers :
          Waiting(u)' /\ rpc'[u].at \in {"count", "admit"} /\ member'[rpc'[u].agent].barred =>
            conn'[u].tx = "stale"
    BY <1>2, <1>4, <1>6 DEF EnrolInv, BarredInv
  <2>3. RevokedStaysOut'
    BY <1>4 DEF EnrolInv, BarredInv, RevokedStaysOut
  <2> QED BY <1>2, <2>1, <2>2, <2>3 DEF BarredInv
<1>10. SeatInv'
  <2>1. SeatsStay
    <3>1. \A u \in Workers, b \in Agents, j \in Keys : Admitting(u, b, j)' => Admitting(u, b, j)
      BY <1>2, <1>5 DEF Admitting
    <3> QED BY <1>2, <3>1 DEF SeatsStay, Seats
  <2> QED BY <1>2, <2>1, SameDatabase, SeatsKeep DEF EnrolInv
<1> QED BY <1>2, <1>7, <1>8, <1>9, <1>10, SameDatabase DEF EnrolInv

-----------------------------------------------------------------------------
(* Workers. *)

LEMMA RejectedIs ==
  ASSUME EnrolInv, NEW a \in Agents, Rejected(a)
  PROVE  \E m : /\ MemberType(m) /\ member' = [member EXCEPT ![a] = m]
                /\ m.key = member[a].key /\ m.barred = member[a].barred
                /\ m.state \in {"in", "out", member[a].state}
                /\ m.state = "in" => ~m.barred
<1> DEFINE m == [member[a] EXCEPT !.state = IF @ = "asking" THEN "out" ELSE @]
<1>1. MemberType(member[a]) /\ (member[a].state = "in" => ~member[a].barred)
  BY DEF EnrolInv, ServerInv, BarredInv, RevokedStaysOut
<1>2. member' = [member EXCEPT ![a] = m]
  BY DEF Rejected, EnrolInv, ServerInv
<1>3. /\ DOMAIN m = DOMAIN member[a] /\ m.key = member[a].key /\ m.barred = member[a].barred
      /\ m.state = IF member[a].state = "asking" THEN "out" ELSE member[a].state
  BY <1>1 DEF MemberType
<1> HIDE DEF m
<1>4. MemberType(m)
  BY <1>1, <1>3 DEF MemberType
<1> QED BY <1>1, <1>2, <1>3, <1>4

\* A worker at a step serves a call.
LEMMA AtWork ==
  ASSUME EnrolInv, NEW w \in Workers, rpc[w].at \in RegisterSteps \union HeartbeatSteps
  PROVE  /\ rpc[w] # Free /\ RpcType(rpc[w]) /\ DOMAIN rpc = Workers /\ w \in Clients
         /\ ConnInv /\ SeatInv /\ TablesType(Sees(w)) /\ TablesType(db)
         /\ conn[w].tx # "stale" => Sees(w) = db
BY SeesTheTables, ClientsAre DEF EnrolInv, ServerInv, Free, RegisterSteps, HeartbeatSteps, ConnInv

LEMMA StepType ==
  ASSUME NEW x, RpcType(x), NEW step \in RegisterSteps \union HeartbeatSteps,
         step \in RegisterSteps => x.at \in RegisterSteps
  PROVE  LET r == [x EXCEPT !.at = step] IN
         /\ RpcType(r) /\ r.at = step /\ r.agent = x.agent /\ r.key = x.key /\ r.waits = x.waits
<1> DEFINE r == [x EXCEPT !.at = step]
<1>1. /\ DOMAIN r = DOMAIN x /\ r.at = step /\ r.agent = x.agent /\ r.key = x.key
      /\ r.waits = x.waits
  BY DEF RpcType
<1> HIDE DEF r
<1>2. RpcType(r)
  BY <1>1 DEF RpcType
<1> QED BY <1>1, <1>2 DEF r

\* A step that ends a call, or takes it where nobody is being admitted, gives no seat.
LEMMA NoSeatIsTaken ==
  ASSUME EnrolInv, NEW w \in Workers, NEW r, rpc' = [rpc EXCEPT ![w] = r],
         r = Free \/ r.at \notin {"recheck", "admit"},
         StaleStay, UsesStay, db'.mapped = db.mapped
  PROVE  SeatInv'
<1>1. rpc'[w] = r /\ \A u \in Workers \ {w} : rpc'[u] = rpc[u]
  BY DEF EnrolInv, ServerInv
<1>2. \A u \in Workers, b \in Agents, j \in Keys : Admitting(u, b, j)' => Admitting(u, b, j)
  BY <1>1 DEF Admitting, StaleStay
<1>3. SeatsStay
  BY <1>2 DEF SeatsStay, Seats
<1> QED BY <1>3, SeatsKeep DEF EnrolInv

LEMMA GiveUpKeeps ==
  ASSUME EnrolInv, NEW w \in Workers, GiveUp(w)
  PROVE  EnrolInv'
<1> DEFINE r == [rpc[w] EXCEPT !.waits = FALSE]
<1>1. /\ rpc[w] # Free /\ rpc[w].waits /\ rpc' = [rpc EXCEPT ![w] = r] /\ Rejected(rpc[w].agent)
      /\ UNCHANGED <<db, conn, scene, adminVars>>
  BY DEF GiveUp
<1>2. RpcType(rpc[w]) /\ DOMAIN rpc = Workers
  BY <1>1 DEF EnrolInv, ServerInv
<1>3. r.at = rpc[w].at /\ r.agent = rpc[w].agent /\ r.key = rpc[w].key
  BY <1>2 DEF RpcType
<1>4. SeatInv'
  <2>1. \A u \in Workers : rpc'[u] = IF u = w THEN r ELSE rpc[u]
    BY <1>1, <1>2
  <2> HIDE DEF r
  <2>2. \A u \in Workers, b \in Agents, j \in Keys : Admitting(u, b, j)' => Admitting(u, b, j)
    BY <1>1, <1>3, <2>1 DEF Admitting
  <2>3. SeatsStay
    BY <1>1, <2>2 DEF SeatsStay, Seats
  <2> QED BY <1>1, <2>3, SameDatabase, SeatsKeep DEF EnrolInv
<1>5. /\ Waiting(w)
      /\ \E m : /\ MemberType(m) /\ member' = [member EXCEPT ![rpc[w].agent] = m]
                /\ m.key = member[rpc[w].agent].key
                /\ m.barred = member[rpc[w].agent].barred
                /\ m.state \in {"in", "out", member[rpc[w].agent].state}
                /\ m.state = "in" => ~m.barred
  BY <1>1, <1>2, RejectedIs DEF Waiting, RpcType
<1> QED BY <1>1, <1>4, <1>5, SameDatabase, CallEndsKeeps

\* Free, with the agent told that it is not registered, if it still waits.
LEMMA DenyKeeps ==
  ASSUME EnrolInv, ConnInv', StaleStay, ValidStay, UsesStay, db'.mapped = db.mapped,
         NEW w \in Workers, rpc[w].at \in RegisterSteps, Deny(w), UNCHANGED ServerOnly
  PROVE  EnrolInv'
<1>1. rpc[w] # Free /\ RpcType(rpc[w]) /\ rpc' = [rpc EXCEPT ![w] = Free]
  BY AtWork DEF Deny, EndsRpc
<1>2. SeatInv'
  BY <1>1, NoSeatIsTaken
<1>3. \/ UNCHANGED member
      \/ /\ Waiting(w)
         /\ \E m : /\ MemberType(m) /\ member' = [member EXCEPT ![rpc[w].agent] = m]
                   /\ m.key = member[rpc[w].agent].key
                   /\ m.barred = member[rpc[w].agent].barred
                   /\ m.state \in {"in", "out", member[rpc[w].agent].state}
                   /\ m.state = "in" => ~m.barred
  BY <1>1, RejectedIs DEF Deny, Waiting, RpcType
<1> QED BY <1>1, <1>2, <1>3, CallEndsKeeps DEF ServerOnly

LEMMA ReadAgentKeyKeeps ==
  ASSUME EnrolInv, NEW w \in Workers, ReadAgentKey(w)
  PROVE  EnrolInv'
<1>1. rpc[w].at = "register" /\ Reads(w) /\ UNCHANGED <<db, member, ServerOnly>>
  BY DEF ReadAgentKey
<1>2. /\ rpc[w] # Free /\ RpcType(rpc[w]) /\ DOMAIN rpc = Workers /\ w \in Clients
      /\ ConnInv /\ (conn[w].tx # "stale" => Sees(w) = db)
  BY <1>1, AtWork DEF RegisterSteps
<1>3. ConnInv' /\ StaleStay /\ (conn'[w].tx = "stale" => conn[w].tx = "stale")
  BY <1>1, <1>2, ReadsKeep
<1>4. ValidStay /\ UsesStay /\ db'.mapped = db.mapped
  BY <1>1, SameTables
<1>5. PICK step \in {"recheck", "validate"} :
        /\ rpc' = [rpc EXCEPT ![w].at = step]
        /\ step = "recheck" => Sees(w).mapped[rpc[w].agent] = rpc[w].key
  BY DEF ReadAgentKey, Goes
<1> DEFINE r == [rpc[w] EXCEPT !.at = step]
<1>6. rpc' = [rpc EXCEPT ![w] = r]
  BY <1>2, <1>5
<1>7. /\ RpcType(r) /\ r.at = step /\ r.agent = rpc[w].agent /\ r.key = rpc[w].key
      /\ r.waits = rpc[w].waits /\ rpc[w].at \in RegisterSteps
  BY <1>1, <1>2, StepType DEF RegisterSteps
<1> HIDE DEF r
<1>8. SeatInv'
  <2>1. \A u \in Workers : rpc'[u] = IF u = w THEN r ELSE rpc[u]
    BY <1>2, <1>6
  <2>2. \A u \in Workers \ {w}, b \in Agents, j \in Keys : Admitting(u, b, j)' => Admitting(u, b, j)
    BY <1>3, <2>1 DEF Admitting, StaleStay
  <2>3. \A b \in Agents, j \in Keys : Admitting(w, b, j)' => db.mapped[b] = j
    <3> SUFFICES ASSUME NEW b \in Agents, NEW j \in Keys, Admitting(w, b, j)'
                 PROVE  db.mapped[b] = j
      OBVIOUS
    <3>1. step = "recheck" /\ rpc[w].agent = b /\ rpc[w].key = j /\ conn[w].tx # "stale"
      BY <1>3, <1>5, <1>7, <2>1, ClientsAre DEF Admitting, StaleStay
    <3> QED BY <1>2, <1>5, <3>1
  <2>4. SeatsStay
    BY <1>1, <2>2, <2>3 DEF SeatsStay, Seats
  <2> QED BY <1>2, <1>4, <2>4, SeatsKeep DEF EnrolInv
<1>9. r.at \notin {"count", "admit"}
  BY <1>7
<1> QED BY <1>1, <1>2, <1>3, <1>4, <1>6, <1>7, <1>8, <1>9, GoesOnKeeps DEF ServerOnly

\* Who finds the key of a barred agent valid is on an old snapshot.
LEMMA ReadKeyStatusKeeps ==
  ASSUME EnrolInv, NEW w \in Workers, ReadKeyStatus(w)
  PROVE  EnrolInv'
<1>1. /\ rpc[w].at \in {"recheck", "validate"} /\ Reads(w) /\ UNCHANGED <<db, ServerOnly>>
  BY DEF ReadKeyStatus
<1>2. /\ rpc[w] # Free /\ RpcType(rpc[w]) /\ DOMAIN rpc = Workers /\ w \in Clients
      /\ ConnInv /\ (conn[w].tx # "stale" => Sees(w) = db) /\ rpc[w].at \in RegisterSteps
  BY <1>1, AtWork DEF RegisterSteps
<1>3. ConnInv' /\ StaleStay /\ (conn'[w].tx = "stale" => conn[w].tx = "stale")
  BY <1>1, <1>2, ReadsKeep
<1>4. ValidStay /\ UsesStay /\ db'.mapped = db.mapped
  BY <1>1, SameTables
<1>5. CASE ~KeyIsValid(Sees(w), rpc[w].key)
  BY <1>1, <1>2, <1>3, <1>4, <1>5, DenyKeeps DEF ReadKeyStatus
<1>6. CASE KeyIsValid(Sees(w), rpc[w].key)
  <2> DEFINE step == IF rpc[w].at = "recheck" THEN "admit" ELSE "count"
             r == [rpc[w] EXCEPT !.at = step]
  <2>1. rpc' = [rpc EXCEPT ![w] = r] /\ UNCHANGED member
    BY <1>2, <1>6 DEF ReadKeyStatus, Goes
  <2>2. /\ RpcType(r) /\ r.at = step /\ r.agent = rpc[w].agent /\ r.key = rpc[w].key
        /\ r.waits = rpc[w].waits
    BY <1>2, StepType DEF RegisterSteps
  <2> HIDE DEF r
  <2>3. SeatInv'
    <3>1. \A u \in Workers : rpc'[u] = IF u = w THEN r ELSE rpc[u]
      BY <1>2, <2>1
    <3>2. \A u \in Workers, b \in Agents, j \in Keys : Admitting(u, b, j)' => Admitting(u, b, j)
      BY <1>1, <1>2, <1>3, <2>2, <3>1 DEF Admitting, StaleStay
    <3>3. SeatsStay
      BY <1>1, <3>2 DEF SeatsStay, Seats
    <3> QED BY <1>2, <1>4, <3>3, SeatsKeep DEF EnrolInv
  <2>4. r.waits /\ member[r.agent].barred => conn'[w].tx = "stale"
    <3> SUFFICES ASSUME rpc[w].waits, member[rpc[w].agent].barred
                 PROVE  conn[w].tx = "stale"
      BY <1>3, <2>2 DEF StaleStay
    <3>1. /\ rpc[w].agent \in Agents /\ member[rpc[w].agent].state = "asking"
          /\ member[rpc[w].agent].key = rpc[w].key
      BY <1>2 DEF EnrolInv, WaitInv, Waiting, RpcType
    <3>2. ~KeyIsValid(db, rpc[w].key)
      BY <3>1 DEF EnrolInv, BarredInv
    <3> QED BY <1>2, <1>6, <3>2
  <2> QED BY <1>1, <1>2, <1>3, <1>4, <2>1, <2>2, <2>3, <2>4, GoesOnKeeps DEF ServerOnly
<1> QED BY <1>5, <1>6

LEMMA CountUseType ==
  ASSUME NEW d, TablesType(d), NEW k \in Keys
  PROVE  /\ TablesType(CountUse(d, k)) /\ CountUse(d, k).mapped = d.mapped
         /\ \A j \in Keys : CountUse(d, k).keys[j].state = d.keys[j].state
         /\ \A j \in Keys \ {k} : CountUse(d, k).keys[j].uses = d.keys[j].uses
         /\ HasUse(d, k) => CountUse(d, k).keys[k].uses = d.keys[k].uses + 1
         /\ ~HasUse(d, k) => CountUse(d, k) = d
<1>1. CASE HasUse(d, k)
  <2> DEFINE x == CountUse(d, k)
             ks == [d.keys EXCEPT ![k].uses = @ + 1]
  <2>1. x = [d EXCEPT !.keys = ks]
    BY <1>1 DEF CountUse
  <2>2. d.keys \in [Keys -> [state : KeyStates, uses : Nat]] /\ DOMAIN d = Tables
    BY DEF TablesType
  <2>3. /\ ks \in [Keys -> [state : KeyStates, uses : Nat]]
        /\ \A j \in Keys \ {k} : ks[j] = d.keys[j]
        /\ ks[k].uses = d.keys[k].uses + 1 /\ ks[k].state = d.keys[k].state
    <3>1. d.keys[k] \in [state : KeyStates, uses : Nat]
      BY <2>2
    <3>2. [d.keys[k] EXCEPT !.uses = @ + 1] \in [state : KeyStates, uses : Nat]
      BY <3>1
    <3> QED BY <2>2, <3>1, <3>2
  <2> HIDE DEF ks, x
  <2>4. x.keys = ks /\ x.mapped = d.mapped /\ DOMAIN x = Tables
    BY <2>1, <2>2 DEF Tables
  <2>5. TablesType(x)
    BY <2>3, <2>4 DEF TablesType
  <2> QED BY <1>1, <2>3, <2>4, <2>5 DEF x
<1>2. CASE ~HasUse(d, k)
  BY <1>2 DEF CountUse
<1> QED BY <1>1, <1>2

\* The only step that gives a seat: it is counted in the same transaction.
LEMMA ValidateKeyKeeps ==
  ASSUME EnrolInv, NEW w \in Workers, ValidateKey(w)
  PROVE  EnrolInv'
<1>1. rpc[w].at = "count" /\ UNCHANGED ServerOnly
  BY DEF ValidateKey
<1>2. /\ rpc[w] # Free /\ RpcType(rpc[w]) /\ DOMAIN rpc = Workers /\ w \in Clients
      /\ ConnInv /\ SeatInv /\ rpc[w].at \in RegisterSteps
      /\ rpc[w].key \in Keys /\ rpc[w].agent \in Agents /\ TablesType(Sees(w))
  BY <1>1, AtWork DEF RegisterSteps, RpcType
<1>3. CASE Refused(w) /\ Deny(w)
  <2>1. ConnInv' /\ StaleStay /\ UNCHANGED db
    BY <1>2, <1>3, RefusedKeeps
  <2> QED BY <1>1, <1>2, <1>3, <2>1, SameTables, DenyKeeps
<1>4. CASE ~(Refused(w) /\ Deny(w))
  <2> DEFINE k == rpc[w].key
             a == rpc[w].agent
             new == CountUse(Sees(w), k)
  <2>1. /\ Writes(w, new)
        /\ \/ HasUse(Sees(w), k) /\ Goes(w, "admit") /\ UNCHANGED member
           \/ ~HasUse(Sees(w), k) /\ Deny(w)
    BY <1>4 DEF ValidateKey
  <2>2. /\ TablesType(new) /\ new.mapped = Sees(w).mapped
        /\ \A j \in Keys : new.keys[j].state = Sees(w).keys[j].state
        /\ \A j \in Keys \ {k} : new.keys[j].uses = Sees(w).keys[j].uses
        /\ HasUse(Sees(w), k) => new.keys[k].uses = Sees(w).keys[k].uses + 1
        /\ ~HasUse(Sees(w), k) => new = Sees(w)
    BY <1>2, CountUseType
  <2>3. k \in Keys /\ a \in Agents
    BY <1>2
  <2> HIDE DEF new
  <2>4. ConnInv' /\ StaleStay /\ db' = new /\ Sees(w) = db /\ conn[w].tx # "stale"
    BY <1>2, <2>1, <2>2, WritesKeep
  <2>5. ValidStay /\ db'.mapped = db.mapped
    BY <2>2, <2>4 DEF ValidStay, KeyIsValid
  <2>6. CASE ~HasUse(Sees(w), k)
    <3>1. UNCHANGED db
      BY <2>2, <2>4, <2>6
    <3> QED BY <1>1, <1>2, <2>1, <2>4, <2>6, <3>1, SameTables, DenyKeeps
  <2>7. CASE HasUse(Sees(w), k)
    <3> DEFINE r == [rpc[w] EXCEPT !.at = "admit"]
    <3>1. rpc' = [rpc EXCEPT ![w] = r] /\ UNCHANGED member
      BY <1>2, <2>1, <2>7 DEF Goes
    <3>2. /\ RpcType(r) /\ r.at = "admit" /\ r.agent = a /\ r.key = k /\ r.waits = rpc[w].waits
      BY <1>2, StepType DEF RegisterSteps
    <3> HIDE DEF r
    <3>3. SeatInv'
      <4>1. \A u \in Workers : rpc'[u] = IF u = w THEN r ELSE rpc[u]
        BY <1>2, <3>1
      <4>2. \A u \in Workers \ {w}, b \in Agents, j \in Keys : Admitting(u, b, j)' => Admitting(u, b, j)
        BY <2>4, <4>1 DEF Admitting, StaleStay
      <4>3. \A b \in Agents, j \in Keys : Admitting(w, b, j)' => b = a /\ j = k
        BY <3>2, <4>1 DEF Admitting
      <4> SUFFICES ASSUME NEW j \in Keys, MaxUses[j] # None
                   PROVE  Cardinality(Seats(j)') <= db'.keys[j].uses /\ db'.keys[j].uses <= MaxUses[j]
        BY DEF SeatInv
      <4>4. IsFiniteSet(Seats(j)) /\ Cardinality(Seats(j)) \in Nat
        <5>1. Seats(j) \subseteq Agents
          BY DEF Seats
        <5> QED BY <5>1, SettingsAssumption, FS_Subset, FS_CardinalityType
      <4>5. /\ Cardinality(Seats(j)) <= db.keys[j].uses /\ db.keys[j].uses <= MaxUses[j]
            /\ db.keys[j].uses \in Nat /\ MaxUses[j] \in Nat
        BY <1>2, SettingsAssumption DEF SeatInv, ConnInv, TablesType
      <4>6. CASE j # k
        <5>1. Seats(j)' \subseteq Seats(j)
          BY <2>5, <4>2, <4>3, <4>6 DEF Seats
        <5>2. Cardinality(Seats(j)') <= Cardinality(Seats(j)) /\ IsFiniteSet(Seats(j)')
          BY <4>4, <5>1, FS_Subset
        <5>3. Cardinality(Seats(j)') \in Nat
          BY <5>2, FS_CardinalityType
        <5>4. db'.keys[j].uses = db.keys[j].uses
          BY <2>2, <2>4, <4>6
        <5> QED BY <4>4, <4>5, <5>2, <5>3, <5>4
      <4>7. CASE j = k
        <5>1. Seats(j)' \subseteq Seats(j) \union {a}
          BY <2>5, <4>2, <4>3 DEF Seats
        <5>2. /\ IsFiniteSet(Seats(j) \union {a})
              /\ Cardinality(Seats(j) \union {a}) <= Cardinality(Seats(j)) + 1
          <6> DEFINE S == Seats(j)
          <6>1. IsFiniteSet(S) /\ Cardinality(S) \in Nat
            BY <4>4
          <6> HIDE DEF S, a
          <6>2. /\ IsFiniteSet(S \union {a})
                /\ Cardinality(S \union {a}) = IF a \in S THEN Cardinality(S) ELSE Cardinality(S) + 1
            BY <6>1, FS_AddElement
          <6>3. Cardinality(S \union {a}) <= Cardinality(S) + 1
            BY <6>1, <6>2
          <6> QED BY <6>2, <6>3 DEF S
        <5>3. /\ IsFiniteSet(Seats(j)')
              /\ Cardinality(Seats(j)') <= Cardinality(Seats(j) \union {a})
          BY <5>1, <5>2, FS_Subset
        <5>4. Cardinality(Seats(j)') \in Nat /\ Cardinality(Seats(j) \union {a}) \in Nat
          BY <5>2, <5>3, FS_CardinalityType
        <5>5. db'.keys[j].uses = db.keys[j].uses + 1
          BY <2>2, <2>4, <2>7, <4>7
        <5>6. db.keys[j].uses < MaxUses[j]
          BY <2>4, <2>7, <4>7 DEF HasUse
        <5> QED BY <4>4, <4>5, <5>2, <5>3, <5>4, <5>5, <5>6
      <4> QED BY <4>6, <4>7
    <3>4. r.waits /\ member[r.agent].barred => conn'[w].tx = "stale"
      <4>1. rpc[w].waits /\ member[a].barred => conn[w].tx = "stale"
        BY <1>1, <1>2 DEF EnrolInv, BarredInv, Waiting
      <4> QED BY <2>4, <3>2, <4>1
    <3> QED BY <1>1, <1>2, <2>4, <2>5, <3>1, <3>2, <3>3, <3>4, GoesOnKeeps DEF ServerOnly
  <2> QED BY <2>6, <2>7
<1> QED BY <1>3, <1>4

LEMMA SetAgentKeyType ==
  ASSUME NEW d, TablesType(d), NEW a \in Agents, NEW k \in Keys
  PROVE  /\ TablesType(SetAgentKey(d, a, k)) /\ SetAgentKey(d, a, k).keys = d.keys
         /\ SetAgentKey(d, a, k).mapped[a] = k
         /\ \A b \in Agents \ {a} : SetAgentKey(d, a, k).mapped[b] = d.mapped[b]
<1> DEFINE x == SetAgentKey(d, a, k)
           ms == [d.mapped EXCEPT ![a] = k]
<1>1. x = [d EXCEPT !.mapped = ms]
  BY DEF SetAgentKey
<1>2. d.mapped \in [Agents -> KeyOrNone] /\ DOMAIN d = Tables /\ k \in KeyOrNone
  BY DEF TablesType, KeyOrNone
<1>3. ms \in [Agents -> KeyOrNone] /\ ms[a] = k /\ \A b \in Agents \ {a} : ms[b] = d.mapped[b]
  BY <1>2
<1> HIDE DEF ms, x
<1>4. x.keys = d.keys /\ x.mapped = ms /\ DOMAIN x = Tables
  BY <1>1, <1>2 DEF Tables
<1>5. TablesType(x)
  BY <1>3, <1>4 DEF TablesType
<1> QED BY <1>3, <1>4, <1>5 DEF x

\* Who is made known had its seat already, unless the worker is refused.
LEMMA AdmitKeeps ==
  ASSUME EnrolInv, NEW w \in Workers, Admit(w)
  PROVE  EnrolInv'
<1>1. rpc[w].at = "admit" /\ UNCHANGED ServerOnly
  BY DEF Admit
<1>2. /\ rpc[w] # Free /\ RpcType(rpc[w]) /\ DOMAIN rpc = Workers /\ w \in Clients
      /\ ConnInv /\ SeatInv /\ rpc[w].at \in RegisterSteps
      /\ rpc[w].key \in Keys /\ rpc[w].agent \in Agents /\ TablesType(Sees(w))
  BY <1>1, AtWork DEF RegisterSteps, RpcType
<1>3. CASE Deny(w) /\ UNCHANGED <<db, conn>>
  BY <1>1, <1>2, <1>3, SameDatabase, SameTables, DenyKeeps
<1>4. CASE Refused(w) /\ Deny(w)
  <2>1. ConnInv' /\ StaleStay /\ UNCHANGED db
    BY <1>2, <1>4, RefusedKeeps
  <2> QED BY <1>1, <1>2, <1>4, <2>1, SameTables, DenyKeeps
<1>5. CASE Writes(w, SetAgentKey(Sees(w), rpc[w].agent, rpc[w].key)) /\ Admitted(w)
  <2>0. PICK a \in Agents, k \in Keys : a = rpc[w].agent /\ k = rpc[w].key
    BY <1>2
  <2> DEFINE new == SetAgentKey(Sees(w), a, k)
  <2>1. /\ Writes(w, new) /\ rpc' = [rpc EXCEPT ![w] = Free]
        /\ \/ UNCHANGED member
           \/ rpc[w].waits /\ member' = [member EXCEPT ![a].state = "in"]
    BY <1>5, <2>0 DEF Admitted, EndsRpc
  <2>2. /\ TablesType(new) /\ new.keys = Sees(w).keys /\ new.mapped[a] = k
        /\ \A b \in Agents \ {a} : new.mapped[b] = Sees(w).mapped[b]
    BY <1>2, SetAgentKeyType
  <2> HIDE DEF new
  <2>3. /\ ConnInv' /\ StaleStay /\ db' = new /\ Sees(w) = db /\ conn[w].tx # "stale"
    BY <1>2, <2>1, <2>2, WritesKeep
  <2>4. ValidStay /\ UsesStay
    BY <2>2, <2>3 DEF ValidStay, UsesStay, KeyIsValid
  <2>5. SeatInv'
    <3>1. rpc'[w] = Free /\ \A u \in Workers \ {w} : rpc'[u] = rpc[u]
      BY <1>2, <2>1
    <3>2. \A u \in Workers, b \in Agents, j \in Keys : Admitting(u, b, j)' => Admitting(u, b, j)
      BY <2>3, <3>1 DEF Admitting, StaleStay
    <3>3. Admitting(w, a, k)
      BY <1>1, <1>2, <2>0, <2>3 DEF Admitting
    <3>4. \A b \in Agents, j \in Keys : db'.mapped[b] = j => db.mapped[b] = j \/ Admitting(w, b, j)
      BY <2>2, <2>3, <3>3
    <3>5. SeatsStay
      BY <3>2, <3>4 DEF SeatsStay, Seats
    <3> QED BY <1>2, <2>4, <3>5, SeatsKeep
  <2>6. CASE UNCHANGED member
    BY <1>1, <1>2, <2>1, <2>3, <2>4, <2>5, <2>6, CallEndsKeeps DEF ServerOnly
  <2>7. CASE rpc[w].waits /\ member' = [member EXCEPT ![a].state = "in"]
    <3> DEFINE m == [member[a] EXCEPT !.state = "in"]
    <3>1. MemberType(member[a]) /\ DOMAIN member = Agents
      BY DEF EnrolInv, ServerInv
    <3>2. member' = [member EXCEPT ![a] = m]
      BY <2>7, <3>1
    <3>3. /\ DOMAIN m = DOMAIN member[a] /\ m.key = member[a].key /\ m.barred = member[a].barred
          /\ m.state = "in"
      BY <3>1 DEF MemberType
    <3> HIDE DEF m
    <3>4. MemberType(m)
      BY <3>1, <3>3 DEF MemberType
    <3>5. ~member[a].barred /\ Waiting(w)
      BY <1>1, <1>2, <2>0, <2>3, <2>7 DEF EnrolInv, BarredInv, Waiting
    <3>6. /\ Waiting(w)
          /\ \E n : /\ MemberType(n) /\ member' = [member EXCEPT ![rpc[w].agent] = n]
                    /\ n.key = member[rpc[w].agent].key
                    /\ n.barred = member[rpc[w].agent].barred
                    /\ n.state \in {"in", "out", member[rpc[w].agent].state}
                    /\ n.state = "in" => ~n.barred
      BY <2>0, <3>2, <3>3, <3>4, <3>5
    <3> QED BY <1>1, <1>2, <2>1, <2>3, <2>4, <2>5, <3>6, CallEndsKeeps DEF ServerOnly
  <2> QED BY <2>1, <2>6, <2>7
<1> QED BY <1>3, <1>4, <1>5 DEF Admit

-----------------------------------------------------------------------------
(* Workers that serve heartbeats: nobody is admitted. *)

LEMMA HeartbeatGoesOn ==
  ASSUME EnrolInv, ConnInv', StaleStay, ValidStay, UsesStay, db'.mapped = db.mapped,
         NEW w \in Workers, rpc[w].at \in HeartbeatSteps, NEW r, rpc' = [rpc EXCEPT ![w] = r],
         DOMAIN r = DOMAIN rpc[w], r.at \in HeartbeatSteps, r.agent = rpc[w].agent,
         r.waits = rpc[w].waits, r.key \in KeyOrNone,
         UNCHANGED <<member, ServerOnly>>
  PROVE  EnrolInv'
<1>1. rpc[w] # Free /\ RpcType(rpc[w])
  BY AtWork
<1>2. /\ r.at \notin RegisterSteps /\ r.at \notin {"count", "admit", "recheck"}
  BY DEF RegisterSteps, HeartbeatSteps
<1>3. RpcType(r)
  BY <1>1, <1>2 DEF RpcType
<1>4. SeatInv'
  BY <1>2, NoSeatIsTaken
<1> QED BY <1>1, <1>2, <1>3, <1>4, GoesOnKeeps DEF ServerOnly

LEMMA HeartbeatEnds ==
  ASSUME EnrolInv, ConnInv', StaleStay, ValidStay, UsesStay, db'.mapped = db.mapped,
         NEW w \in Workers, rpc[w].at \in HeartbeatSteps, rpc' = [rpc EXCEPT ![w] = Free],
         UNCHANGED <<member, ServerOnly>>
  PROVE  EnrolInv'
<1>1. rpc[w] # Free
  BY AtWork
<1>2. SeatInv'
  BY NoSeatIsTaken
<1> QED BY <1>1, <1>2, CallEndsKeeps DEF ServerOnly

LEMMA HeartbeatReads ==
  ASSUME EnrolInv, NEW w \in Workers,
         \/ KnowsAgent(w) \/ ReadPolicies(w)
         \/ ReadEnabledRules(w) \/ ReadCustomRules(w) \/ ReadTagRules(w)
  PROVE  EnrolInv'
<1>1. rpc[w].at \in HeartbeatSteps /\ Reads(w) /\ UNCHANGED <<db, member, ServerOnly>>
  BY DEF KnowsAgent, ReadPolicies, ReadEnabledRules, ReadCustomRules, ReadTagRules, ReadRules,
         HeartbeatSteps
<1>2. /\ RpcType(rpc[w]) /\ DOMAIN rpc = Workers /\ w \in Clients
      /\ ConnInv /\ TablesType(Sees(w))
  BY <1>1, AtWork
<1>3. ConnInv' /\ StaleStay
  BY <1>1, <1>2, ReadsKeep
<1>4. ValidStay /\ UsesStay /\ db'.mapped = db.mapped
  BY <1>1, SameTables
<1>5. CASE KnowsAgent(w)
  <2>1. PICK k : k = Sees(w).mapped[rpc[w].agent]
    OBVIOUS
  <2>2. k \in KeyOrNone
    BY <1>2, <2>1 DEF TablesType, RpcType
  <2> DEFINE r == [rpc[w] EXCEPT !.key = k, !.at = IF @ = "reporting" THEN "complete" ELSE "defaults"]
  <2>3. rpc' = [rpc EXCEPT ![w] = Free] \/ rpc' = [rpc EXCEPT ![w] = r]
    BY <1>2, <1>5, <2>1 DEF KnowsAgent
  <2>4. /\ DOMAIN r = DOMAIN rpc[w] /\ r.at \in HeartbeatSteps /\ r.agent = rpc[w].agent
        /\ r.waits = rpc[w].waits /\ r.key = k
    BY <1>2 DEF RpcType, HeartbeatSteps
  <2> HIDE DEF r
  <2> QED BY <1>1, <1>3, <1>4, <2>2, <2>3, <2>4, HeartbeatGoesOn, HeartbeatEnds
<1>6. CASE ReadPolicies(w)
  <2>1. PICK v : v = Overrides(Sees(w), rpc[w].agent, rpc[w].value)
    OBVIOUS
  <2> DEFINE r == [rpc[w] EXCEPT !.value = v, !.at = "rules"]
  <2>2. rpc' = [rpc EXCEPT ![w] = r]
    BY <1>2, <1>6, <2>1 DEF ReadPolicies
  <2>3. /\ DOMAIN r = DOMAIN rpc[w] /\ r.at \in HeartbeatSteps /\ r.agent = rpc[w].agent
        /\ r.waits = rpc[w].waits /\ r.key \in KeyOrNone
    BY <1>2 DEF RpcType, HeartbeatSteps
  <2> HIDE DEF r
  <2> QED BY <1>1, <1>3, <1>4, <2>2, <2>3, HeartbeatGoesOn
<1>7. CASE ReadEnabledRules(w) \/ ReadCustomRules(w) \/ ReadTagRules(w)
  <2>1. PICK v, step : step \in HeartbeatSteps /\ rpc' = [rpc EXCEPT ![w].rules = v, ![w].at = step]
    BY <1>7 DEF ReadEnabledRules, ReadCustomRules, ReadTagRules, ReadRules, HeartbeatSteps
  <2> DEFINE r == [rpc[w] EXCEPT !.rules = v, !.at = step]
  <2>2. rpc' = [rpc EXCEPT ![w] = r]
    BY <1>2, <2>1
  <2>3. /\ DOMAIN r = DOMAIN rpc[w] /\ r.at \in HeartbeatSteps /\ r.agent = rpc[w].agent
        /\ r.waits = rpc[w].waits /\ r.key \in KeyOrNone
    BY <1>2, <2>1 DEF RpcType
  <2> HIDE DEF r
  <2> QED BY <1>1, <1>3, <1>4, <2>2, <2>3, HeartbeatGoesOn
<1> QED BY <1>5, <1>6, <1>7

LEMMA ReadDefaultsKeeps ==
  ASSUME EnrolInv, NEW w \in Workers, ReadDefaults(w)
  PROVE  EnrolInv'
<1>1. rpc[w].at \in HeartbeatSteps /\ UNCHANGED <<db, member, ServerOnly>>
  BY DEF ReadDefaults, HeartbeatSteps
<1>2. RpcType(rpc[w]) /\ DOMAIN rpc = Workers /\ w \in Clients /\ ConnInv
  BY <1>1, AtWork
<1>3. ValidStay /\ UsesStay /\ db'.mapped = db.mapped
  BY <1>1, SameTables
<1>4. CASE EndsRpc(w) /\ UNCHANGED conn
  BY <1>1, <1>3, <1>4, SameDatabase, HeartbeatEnds DEF EndsRpc
<1>5. CASE Reads(w) /\ rpc' = [rpc EXCEPT ![w].value = Sees(w).default, ![w].at = "policies"]
  <2>1. ConnInv' /\ StaleStay
    BY <1>1, <1>2, <1>5, ReadsKeep
  <2>2. PICK v : v = Sees(w).default
    OBVIOUS
  <2> DEFINE r == [rpc[w] EXCEPT !.value = v, !.at = "policies"]
  <2>3. rpc' = [rpc EXCEPT ![w] = r]
    BY <1>2, <1>5, <2>2
  <2>4. /\ DOMAIN r = DOMAIN rpc[w] /\ r.at \in HeartbeatSteps /\ r.agent = rpc[w].agent
        /\ r.waits = rpc[w].waits /\ r.key \in KeyOrNone
    BY <1>2 DEF RpcType, HeartbeatSteps
  <2> HIDE DEF r
  <2> QED BY <1>1, <1>3, <2>1, <2>3, <2>4, HeartbeatGoesOn
<1> QED BY <1>4, <1>5 DEF ReadDefaults

LEMMA CompleteQueriesKeeps ==
  ASSUME EnrolInv, NEW w \in Workers, CompleteQueries(w)
  PROVE  EnrolInv'
<1>1. rpc[w].at = "complete" /\ rpc[w].at \in HeartbeatSteps /\ UNCHANGED <<member, ServerOnly>>
  BY DEF CompleteQueries, HeartbeatSteps
<1>2. RpcType(rpc[w]) /\ DOMAIN rpc = Workers /\ w \in Clients /\ ConnInv /\ TablesType(Sees(w))
  BY <1>1, AtWork
<1>3. CASE Refused(w) /\ EndsRpc(w)
  <2>1. ConnInv' /\ StaleStay /\ UNCHANGED db
    BY <1>2, <1>3, RefusedKeeps
  <2> QED BY <1>1, <1>3, <2>1, SameTables, HeartbeatEnds DEF EndsRpc
<1>4. CASE Writes(w, [Sees(w) EXCEPT !.answers = @ + 1]) /\ Goes(w, "defaults")
  <2> DEFINE new == [Sees(w) EXCEPT !.answers = @ + 1]
             r == [rpc[w] EXCEPT !.at = "defaults"]
  <2>1. TablesType(new) /\ new.mapped = Sees(w).mapped /\ new.keys = Sees(w).keys
    BY <1>2 DEF TablesType, Tables
  <2> HIDE DEF new
  <2>2. ConnInv' /\ StaleStay /\ db' = new /\ Sees(w) = db
    BY <1>2, <1>4, <2>1, WritesKeep DEF new
  <2>3. ValidStay /\ UsesStay /\ db'.mapped = db.mapped
    BY <2>1, <2>2 DEF ValidStay, UsesStay, KeyIsValid
  <2>4. rpc' = [rpc EXCEPT ![w] = r]
    BY <1>2, <1>4 DEF Goes
  <2>5. /\ DOMAIN r = DOMAIN rpc[w] /\ r.at \in HeartbeatSteps /\ r.agent = rpc[w].agent
        /\ r.waits = rpc[w].waits /\ r.key \in KeyOrNone
    BY <1>2 DEF RpcType, HeartbeatSteps
  <2> HIDE DEF r
  <2> QED BY <1>1, <2>2, <2>3, <2>4, <2>5, HeartbeatGoesOn
<1> QED BY <1>3, <1>4 DEF CompleteQueries

LEMMA ReplyConfigKeeps ==
  ASSUME EnrolInv, NEW w \in Workers, ReplyConfig(w)
  PROVE  EnrolInv'
<1>1. /\ rpc[w].at = "reply" /\ rpc[w].at \in HeartbeatSteps /\ Reads(w)
      /\ rpc' = [rpc EXCEPT ![w] = Free] /\ UNCHANGED <<db, ServerOnly>>
  BY DEF ReplyConfig, EndsRpc, HeartbeatSteps
<1>2. /\ rpc[w] # Free /\ RpcType(rpc[w]) /\ DOMAIN rpc = Workers /\ w \in Clients /\ ConnInv
      /\ rpc[w].agent \in Agents
  BY <1>1, AtWork DEF RpcType
<1>3. ConnInv' /\ StaleStay
  BY <1>1, <1>2, ReadsKeep
<1>4. ValidStay /\ UsesStay /\ db'.mapped = db.mapped
  BY <1>1, SameTables
<1>5. CASE UNCHANGED member
  BY <1>1, <1>3, <1>4, <1>5, HeartbeatEnds
<1>6. CASE ~UNCHANGED member
  <2>1. PICK a \in Agents : a = rpc[w].agent
    BY <1>2
  <2>2. PICK config :
          member' = [member EXCEPT ![a].value = config.value, ![a].rules = config.rules,
                                   ![a].suppressed = config.suppressed]
    BY <1>6, <2>1 DEF ReplyConfig, ApplyConfig
  <2> DEFINE m == [member[a] EXCEPT !.value = config.value, !.rules = config.rules,
                                    !.suppressed = config.suppressed]
  <2>3. MemberType(member[a]) /\ DOMAIN member = Agents /\ (member[a].state = "in" => ~member[a].barred)
    BY DEF EnrolInv, ServerInv, BarredInv, RevokedStaysOut
  <2>4. member' = [member EXCEPT ![a] = m]
    BY <2>2, <2>3
  <2>5. /\ DOMAIN m = DOMAIN member[a] /\ m.key = member[a].key /\ m.barred = member[a].barred
        /\ m.state = member[a].state
    BY <2>3 DEF MemberType
  <2> HIDE DEF m
  <2>6. MemberType(m)
    BY <2>3, <2>5 DEF MemberType
  <2>7. Waiting(w)
    BY <1>2, <1>6 DEF ReplyConfig, Waiting
  <2>8. /\ Waiting(w)
        /\ \E n : /\ MemberType(n) /\ member' = [member EXCEPT ![rpc[w].agent] = n]
                  /\ n.key = member[rpc[w].agent].key
                  /\ n.barred = member[rpc[w].agent].barred
                  /\ n.state \in {"in", "out", member[rpc[w].agent].state}
                  /\ n.state = "in" => ~n.barred
    BY <2>1, <2>3, <2>4, <2>5, <2>6, <2>7
  <2>9. SeatInv'
    BY <1>1, <1>3, <1>4, NoSeatIsTaken
  <2> QED BY <1>1, <1>2, <1>3, <1>4, <2>8, <2>9, CallEndsKeeps DEF ServerOnly
<1> QED BY <1>5, <1>6

-----------------------------------------------------------------------------

LEMMA EnrolInitially == EnrolInit => EnrolInv
<1> SUFFICES ASSUME EnrolInit
             PROVE  EnrolInv
  OBVIOUS
<1> USE EnrolmentAssumption DEF EnrolInit
<1>1. PICK s \in DOMAIN Scenes : s = scene
  OBVIOUS
<1>2. /\ DOMAIN db = Tables /\ db.mapped \in [Agents -> KeyOrNone]
      /\ db.keys \in [Keys -> [state : KeyStates, uses : Nat]]
      /\ \A k \in Keys : MaxUses[k] # None =>
           /\ Cardinality({a \in Agents : db.mapped[a] = k}) <= db.keys[k].uses
           /\ db.keys[k].uses <= MaxUses[k]
  BY <1>1 DEF KeyOrNone, KeyStates
<1>3. ConnInv
  BY <1>2 DEF ConnInv, TablesType, Unused
<1>4. RequestInv
  BY <1>1 DEF RequestInv
<1>5. DOMAIN rpc = Workers /\ \A w \in Workers : rpc[w] = Free
  OBVIOUS
<1>6. DOMAIN member = Agents /\ \A a \in Agents : MemberType(member[a]) /\ ~member[a].barred
  BY <1>1 DEF Unconfigured, MemberType, KeyOrNone
<1>7. ServerInv /\ WaitInv /\ BarredInv
  BY <1>5, <1>6 DEF ServerInv, WaitInv, Waiting, BarredInv, RevokedStaysOut
<1>8. SeatInv
  <2>1. \A k : Seats(k) = {a \in Agents : db.mapped[a] = k}
    BY <1>5 DEF Seats, Admitting
  <2> QED BY <1>2, <2>1 DEF SeatInv
<1> QED BY <1>3, <1>4, <1>7, <1>8 DEF EnrolInv

LEMMA EnrolStep == EnrolInv /\ [EnrolNext]_enrolVars => EnrolInv'
<1> SUFFICES ASSUME EnrolInv, [EnrolNext]_enrolVars
             PROVE  EnrolInv'
  OBVIOUS
<1>1. CASE UNCHANGED enrolVars
  <2>1. UNCHANGED <<db, conn, scene, edits, request, rpc, member>>
    BY <1>1 DEF enrolVars, adminVars, agentVars
  <2>2. ConnInv' /\ RequestInv' /\ ServerInv' /\ WaitInv'
    BY <2>1 DEF EnrolInv, ConnInv, RequestInv, ServerInv, WaitInv, Waiting
  <2>3. BarredInv'
    BY <2>1 DEF EnrolInv, BarredInv, RevokedStaysOut, Waiting
  <2>4. SeatInv'
    BY <2>1 DEF EnrolInv, SeatInv, Seats, Admitting
  <2> QED BY <2>2, <2>3, <2>4 DEF EnrolInv
<1>2. CASE \E t \in Handlers : Administer(t)
  BY <1>2, AdministratorStep
<1>3. CASE \E w \in Workers : RegisterAgent(w) \/ Heartbeat(w) \/ GiveUp(w)
  BY <1>3, ReadAgentKeyKeeps, ReadKeyStatusKeeps, ValidateKeyKeeps, AdmitKeeps, HeartbeatReads,
     CompleteQueriesKeeps, ReadDefaultsKeeps, ReplyConfigKeeps, GiveUpKeeps
  DEF RegisterAgent, Heartbeat
<1>4. CASE \E a \in Agents :
             RestartAgent(a) \/ \E w \in Workers : AskToRegister(a, w) \/ SendHeartbeat(a, w)
  BY <1>4, RestartAgentKeeps, AskToRegisterKeeps, SendHeartbeatKeeps
<1> QED BY <1>1, <1>2, <1>3, <1>4 DEF EnrolNext

\* Every reachable state satisfies the invariant, under any scheduling.
THEOREM EnrolmentInvariant == EnrolSpec => []EnrolInv
BY EnrolInitially, EnrolStep, PTL DEF EnrolSpec

-----------------------------------------------------------------------------
(* What follows from it. *)

\* A thread that has read in a transaction and is not on an old snapshot has read
\* the tables as they are: no committed change is overwritten by what was there
\* before it.
THEOREM CommitsBuildOnTheLatest == EnrolSpec => []ConnInv
<1>1. EnrolInv => ConnInv
  BY DEF EnrolInv
<1> QED BY <1>1, EnrolmentInvariant, PTL

LEMMA SeatsFollow == EnrolInv => SeatsAreLimited
<1> SUFFICES ASSUME EnrolInv, NEW k \in Keys, MaxUses[k] # None
             PROVE  Cardinality({a \in Agents : db.mapped[a] = k}) <= MaxUses[k]
  BY DEF SeatsAreLimited
<1> DEFINE known == {a \in Agents : db.mapped[a] = k}
<1>1. known \subseteq Seats(k) /\ Seats(k) \subseteq Agents
  BY DEF Seats
<1>2. IsFiniteSet(Seats(k))
  BY <1>1, SettingsAssumption, FS_Subset
<1> HIDE DEF known
<1>3. IsFiniteSet(known) /\ Cardinality(known) <= Cardinality(Seats(k))
  BY <1>1, <1>2, FS_Subset
<1>4. Cardinality(known) \in Nat /\ Cardinality(Seats(k)) \in Nat
  BY <1>2, <1>3, FS_CardinalityType
<1>5. /\ Cardinality(Seats(k)) <= db.keys[k].uses /\ db.keys[k].uses <= MaxUses[k]
      /\ db.keys[k].uses \in Nat /\ MaxUses[k] \in Nat
  BY SettingsAssumption DEF EnrolInv, SeatInv, ConnInv, TablesType
<1> QED BY <1>3, <1>4, <1>5 DEF known

\* No key admits more agents than its max_uses, however many handlers register
\* agents at the same time, come late, or register an agent twice.
THEOREM SeatsStayLimited == EnrolSpec => []SeatsAreLimited
BY EnrolmentInvariant, SeatsFollow, PTL

\* A key that has been revoked or deleted admits nobody who asks after that.
THEOREM RevokedKeysAdmitNobody == EnrolSpec => []RevokedStaysOut
<1>1. EnrolInv => RevokedStaysOut
  BY DEF EnrolInv, BarredInv
<1> QED BY <1>1, EnrolmentInvariant, PTL
=============================================================================
