------------------------ MODULE EventPipelineProofs ------------------------
(***************************************************************************)
(* Proofs about EventPipeline, for every value of its constants.           *)
(***************************************************************************)
EXTENDS EventPipeline, FiniteSetTheorems, WellFoundedInduction, TLAPS

-----------------------------------------------------------------------------
(* The least and the greatest element of a set of numbers. *)

\* The least-number principle, for sets.
LEMMA LeastExists ==
  ASSUME NEW S \in SUBSET Nat, S # {}
  PROVE  \E m \in S : \A k \in S : m <= k
<1> DEFINE R == {xy \in Nat \X Nat : xy[1] < xy[2]}
<1>1. IsWellFoundedOn(R, Nat)
  BY NatLessThanWellFounded DEF OpToRel
<1>2. PICK x \in S : \A y \in S : <<y, x>> \notin R
  <2> HIDE DEF R
  <2> QED BY <1>1, WFMin
<1>3. \A y \in S : x <= y
  <2> SUFFICES ASSUME NEW y \in S, y < x
               PROVE  FALSE
    OBVIOUS
  <2>1. <<y, x>> \in R
    OBVIOUS
  <2> QED BY <2>1, <1>2
<1> QED BY <1>3

\* A bounded set of numbers has a greatest element: its least upper bound.
LEMMA GreatestExists ==
  ASSUME NEW S \in SUBSET Nat, S # {}, NEW n \in Nat, \A k \in S : k <= n
  PROVE  \E m \in S : \A k \in S : k <= m
<1> DEFINE U == {u \in Nat : \A k \in S : k <= u}
<1>1. PICK m \in U : \A u \in U : m <= u
  <2>1. n \in U
    OBVIOUS
  <2>2. U \in SUBSET Nat /\ U # {}
    BY <2>1
  <2> HIDE DEF U
  <2> QED BY <2>2, LeastExists
<1>2. m \in S
  <2> SUFFICES ASSUME m \notin S
               PROVE  FALSE
    OBVIOUS
  <2>1. \A k \in S : k < m
    OBVIOUS
  <2>2. m \in Nat /\ m - 1 \in Nat
    <3>1. PICK k \in S : TRUE
      OBVIOUS
    <3> QED BY <2>1, <3>1
  <2>3. \A k \in S : k <= m - 1
    BY <2>1, <2>2
  <2>4. m - 1 \in U
    BY <2>2, <2>3
  <2> HIDE DEF U
  <2> QED BY <2>2, <2>4, <1>1
<1> QED BY <1>1, <1>2

LEMMA FirstIsLeast ==
  ASSUME NEW S \in SUBSET Nat, S # {}
  PROVE  First(S) \in S /\ \A f \in S : First(S) <= f
BY LeastExists DEF First

LEMMA NewestIsGreatest ==
  ASSUME NEW S \in SUBSET Events
  PROVE  /\ Newest(S) \in 0..MaxEvents
         /\ \A f \in S : f <= Newest(S)
         /\ S # {} => Newest(S) \in S
<1> USE PipelineAssumption DEF Events
<1>1. CASE S = {}
  BY <1>1 DEF Newest
<1>2. CASE S # {}
  <2>1. \E m \in S : \A k \in S : k <= m
    <3>1. S \in SUBSET Nat /\ MaxEvents \in Nat /\ \A k \in S : k <= MaxEvents
      OBVIOUS
    <3> QED BY <3>1, <1>2, GreatestExists
  <2>2. Newest(S) = CHOOSE e \in S : \A f \in S : f <= e
    BY <1>2 DEF Newest
  <2>3. Newest(S) \in S /\ \A f \in S : f <= Newest(S)
    BY <2>1, <2>2
  <2>4. Newest(S) \in Events
    BY <2>3
  <2>5. Newest(S) \in 0..MaxEvents
    BY <2>4
  <2> QED BY <2>3, <2>5
<1> QED BY <1>1, <1>2

-----------------------------------------------------------------------------
(* LIMIT takes a prefix. *)

LEMMA EventsFinite == ASSUME NEW S \in SUBSET Events
                      PROVE  IsFiniteSet(S) /\ Cardinality(S) \in Nat
<1>1. IsFiniteSet(Events)
  BY PipelineAssumption, FS_Interval DEF Events
<1>2. IsFiniteSet(S)
  BY <1>1, FS_Subset
<1> QED BY <1>2, FS_CardinalityType

\* A row below one that the LIMIT lets through is let through as well, and a
\* positive LIMIT lets the first row through.
LEMMA LowestIsPrefix ==
  ASSUME NEW S \in SUBSET Events, NEW n \in Nat
  PROVE  /\ Lowest(S, n) \subseteq S
         /\ \A e \in S, f \in Lowest(S, n) : e < f => e \in Lowest(S, n)
         /\ n # 0 /\ S # {} => First(S) \in Lowest(S, n)
<1> DEFINE Below(e) == {f \in S : f < e}
<1>1. Lowest(S, n) \subseteq S /\ S \subseteq Nat
  BY PipelineAssumption DEF Lowest, Events
<1>2. ASSUME NEW e \in S, NEW f \in Lowest(S, n), e < f
      PROVE  e \in Lowest(S, n)
  <2>1. Below(e) \subseteq Below(f)
    <3>1. e \in Nat /\ f \in Nat
      BY <1>1
    <3>2. ASSUME NEW k \in S, k < e
          PROVE  k < f
      <4>1. k \in Nat
        BY <1>1
      <4> QED BY <4>1, <3>1, <3>2, <1>2
    <3> QED BY <3>2
  <2>2. IsFiniteSet(Below(f)) /\ Cardinality(Below(f)) \in Nat
    BY EventsFinite
  <2>3. IsFiniteSet(Below(e)) /\ Cardinality(Below(e)) \in Nat
    BY EventsFinite
  <2>4. Cardinality(Below(e)) <= Cardinality(Below(f))
    BY <2>1, <2>2, FS_Subset
  <2>5. Cardinality(Below(f)) < n
    BY DEF Lowest
  <2> QED BY <2>2, <2>3, <2>4, <2>5 DEF Lowest
<1>3. ASSUME n # 0, S # {}
      PROVE  First(S) \in Lowest(S, n)
  <2>1. First(S) \in S /\ \A f \in S : First(S) <= f
    <3>1. S \in SUBSET Nat
      BY PipelineAssumption DEF Events
    <3> QED BY <3>1, <1>3, FirstIsLeast
  <2>2. Below(First(S)) = {}
    <3>1. ASSUME NEW k \in S
          PROVE  ~(k < First(S))
      <4>1. k \in Nat /\ First(S) \in Nat /\ First(S) <= k
        BY <1>1, <2>1
      <4> QED BY <4>1
    <3> QED BY <3>1
  <2>3. Cardinality(Below(First(S))) = 0
    BY <2>2, FS_EmptySet
  <2> QED BY <2>1, <2>3, <1>3 DEF Lowest
<1> QED BY <1>1, <1>2, <1>3

-----------------------------------------------------------------------------
(* Types.  What each program counter says about the sets in hand is part of *)
(* the induction: First is only meaningful on a set that has an element.    *)

PcInv ==
  /\ procPc = "respond" => batch # {}
  /\ procPc \in {"submit", "mark"} => batch = {}
  /\ ~InHand => batch = {} /\ event_ids = {} /\ entity_batch = {}
  /\ anaPc \in {"respond", "store", "forward"} => llm_findings # {}

LEMMA BoundsAreNat == RepeatCap \in Nat /\ MaxEvents \in Nat /\ QueueCapacity \in Nat \ {0}
BY PipelineAssumption DEF RepeatCap

\* The first element of a set of rows is one of them.
LEMMA FirstOfEvents ==
  ASSUME NEW S \in SUBSET Events, S # {}
  PROVE  First(S) \in S /\ First(S) \in Events /\ \A f \in S : First(S) <= f
<1>1. S \in SUBSET Nat
  BY PipelineAssumption DEF Events
<1> QED BY <1>1, FirstIsLeast

LEMMA TypeStep == TypeOK /\ PcInv /\ [Next]_vars => TypeOK' /\ PcInv'
<1> SUFFICES ASSUME TypeOK, PcInv, [Next]_vars
             PROVE  TypeOK' /\ PcInv'
  OBVIOUS
<1> USE PipelineAssumption, BoundsAreNat
        DEF tables, processor, procDb, writer, analyzer, anaDb, history
<1>1. CASE Collect
  BY <1>1 DEF TypeOK, PcInv, InHand, Collect, RowStates
<1>2. CASE ProcessorStep
  <2>1. procPc \in {"handle", "respond"} /\ batch # {}
          => Current \in batch /\ Current \in Events
    BY FirstOfEvents DEF TypeOK, Current
  <2>2. ASSUME NEW e \in Events
        PROVE  ioc_match(e) \subseteq FindingKinds \X Events
    BY <2>2 DEF ioc_match, FindingKinds
  <2>3. Newest(Pushed) \in 0..MaxEvents
    BY NewestIsGreatest DEF Pushed
  <2>4. ASSUME NEW S \in SUBSET (FindingKinds \X Events), store_finding(S)
         PROVE  /\ findings' \subseteq FindingKinds \X Events
                /\ procTx' \in Transactions /\ procSees' \in 0..MaxEvents
    BY <2>4 DEF TypeOK, store_finding, ProcessorCommits, Transactions
  <2>5. ASSUME ProcessorSelects
         PROVE  procTx' \in Transactions /\ procSees' \in 0..MaxEvents
    BY <2>3, <2>5 DEF TypeOK, ProcessorSelects, Transactions
  <2>6. ASSUME ProcessorLockedOut
         PROVE  /\ procTx' \in Transactions /\ procSees' \in 0..MaxEvents
                /\ faults' \in 0..MaxFaults
    BY <2>6 DEF TypeOK, ProcessorLockedOut, Fault, Transactions
  <2>7. ASSUME ProcessorRefused
         PROVE  procTx' \in Transactions /\ procSees' \in 0..MaxEvents
    BY <2>7 DEF TypeOK, ProcessorRefused, Transactions
  <2>8. ASSUME NEW e \in Events
         PROVE  /\ {} \in SUBSET (FindingKinds \X Events)
                /\ ioc_match(e) \union {<<"fast", e>>} \in SUBSET (FindingKinds \X Events)
    BY <2>2, <2>8 DEF FindingKinds
  <2>9. ASSUME NEW e \in Events, Handled(e)
        PROVE  handled' \subseteq Events /\ repeats' \in 0..RepeatCap
    BY <2>9 DEF TypeOK, Handled
  <2>10. CASE PopBatch
    <3>1. batch' \subseteq Events
      BY <2>10 DEF PopBatch, pop_batch, Lowest, Visible, Pending
    <3> QED BY <3>1, <2>10, <2>5 DEF TypeOK, PcInv, InHand, PopBatch
  <2>11. CASE PopNothing
    BY <2>11, <2>5 DEF TypeOK, PcInv, InHand, PopNothing
  <2>12. CASE HandleFiltered
    BY <2>12, <2>1, <2>2, <2>9, <2>4 DEF TypeOK, PcInv, InHand, HandleFiltered
  <2>13. CASE HandleFails
    BY <2>13, <2>1, <2>2, <2>9, <2>4, <2>7 DEF TypeOK, PcInv, InHand, HandleFails
  <2>14. CASE HandleForGraph
    BY <2>14, <2>1, <2>2, <2>9, <2>4 DEF TypeOK, PcInv, InHand, HandleForGraph
  <2>15. CASE HandleBlocked
    BY <2>15, <2>1, <2>4, <2>8 DEF TypeOK, PcInv, InHand, HandleBlocked
  <2>16. CASE Respond
    BY <2>16, <2>1, <2>9 DEF TypeOK, PcInv, InHand, Respond
  <2>17. CASE EndOfBatch
    BY <2>17 DEF TypeOK, PcInv, InHand, EndOfBatch
  <2>18. CASE SubmitBatch
    <3>1. EntityBatch(entity_batch) \in Jobs
      BY DEF TypeOK, EntityBatch, Jobs
    <3>2. writeQ' \in Seq(Jobs) /\ Len(writeQ') <= QueueCapacity
      BY <3>1, <2>18 DEF SubmitBatch, submit, TypeOK
    <3> QED BY <3>2, <2>18 DEF TypeOK, PcInv, InHand, SubmitBatch
  <2>19. CASE MarkProcessed
    BY <2>19 DEF TypeOK, PcInv, InHand, MarkProcessed, ProcessorCommits, RowStates,
                 Transactions
  <2>20. CASE MarkFails
    BY <2>20, <2>6 DEF TypeOK, PcInv, InHand, MarkFails
  <2>21. CASE MarkRefused
    BY <2>21, <2>7 DEF TypeOK, PcInv, InHand, MarkRefused
  <2>22. CASE PruneFails
    BY <2>22, <2>6 DEF TypeOK, PcInv, InHand, PruneFails
  <2>23. CASE Prune
    BY <2>23 DEF TypeOK, PcInv, InHand, Prune, RowStates
  <2>24. CASE ProcessorStops
    BY <2>24 DEF TypeOK, PcInv, InHand, ProcessorStops
  <2> QED BY <1>2, <2>10, <2>12, <2>13, <2>14, <2>15, <2>16, <2>17, <2>18, <2>19, <2>20,
             <2>23, <2>24, <2>11, <2>21, <2>22 DEF ProcessorStep
<1>3. CASE ReaperSubmit
  <2>1. PruneJob \in Jobs
    BY DEF PruneJob, Jobs
  <2>2. writeQ' \in Seq(Jobs) /\ Len(writeQ') <= QueueCapacity
    BY <2>1, <1>3 DEF ReaperSubmit, submit, TypeOK
  <2> QED BY <2>2, <1>3 DEF TypeOK, PcInv, InHand, ReaperSubmit
<1>4. CASE WriterStep
  <2>1. CASE WriterLoop
    BY <2>1 DEF TypeOK, PcInv, InHand, WriterLoop
  <2>2. CASE WriterGet
    <3>1. Head(writeQ) \in Jobs /\ writeQ' \in Seq(Jobs) /\ Len(writeQ') <= QueueCapacity
      BY <2>2 DEF WriterGet, TypeOK
    <3>2. writing' \subseteq Events
      BY <3>1, <2>2 DEF WriterGet, Jobs
    <3> QED BY <3>1, <3>2, <2>2 DEF TypeOK, PcInv, InHand, WriterGet
  <2>3. CASE WriterEmpty
    BY <2>3 DEF TypeOK, PcInv, InHand, WriterEmpty
  <2>4. CASE WriterWrite
    BY <2>4 DEF TypeOK, PcInv, InHand, WriterWrite
  <2> QED BY <1>4, <2>1, <2>2, <2>3, <2>4 DEF WriterStep
<1>5. CASE AnalyzerStep
  <2>1. anaPc \in {"respond", "store", "forward"} => Finding \in llm_findings /\ Finding \in Events
    BY FirstOfEvents DEF TypeOK, PcInv, Finding
  <2>2. get_processed_since \subseteq Events
    BY DEF get_processed_since, Lowest, Readable, Processed, TypeOK
  <2>3. Newest(get_processed_since) \in 0..MaxEvents
    BY <2>2, NewestIsGreatest
  <2>4. ASSUME AnalyzerSelects
         PROVE  anaTx' \in Transactions /\ anaSees' \subseteq Events
    BY <2>4 DEF TypeOK, AnalyzerSelects, Transactions, Processed
  <2>5. ASSUME AnalyzerLockedOut \/ AnalyzerRefused
         PROVE  /\ anaTx' \in Transactions /\ anaSees' \subseteq Events
                /\ faults' \in 0..MaxFaults
    BY <2>5 DEF TypeOK, AnalyzerLockedOut, AnalyzerRefused, Fault, Transactions
  <2>6. CASE AnalyzerStarts
    <3>1. Newest(Processed) \in 0..MaxEvents
      BY NewestIsGreatest DEF Processed
    <3>2. last_analyzed_id' \in 0..MaxEvents
      BY <3>1, <2>6 DEF AnalyzerStarts
    <3> QED BY <3>2, <2>6 DEF TypeOK, PcInv, InHand, AnalyzerStarts
  <2>7. CASE AnalyzerFetch
    BY <2>7, <2>2, <2>3, <2>4 DEF TypeOK, PcInv, InHand, AnalyzerFetch
  <2>8. CASE AnalyzerFindsNothing
    BY <2>8, <2>4 DEF TypeOK, PcInv, InHand, AnalyzerFindsNothing
  <2>9. CASE AnalyzeBatch
    <3>1. llm_findings' \subseteq Events
      BY <2>9 DEF AnalyzeBatch, Lowest, TypeOK
    <3> QED BY <3>1, <2>9 DEF TypeOK, PcInv, InHand, AnalyzeBatch
  <2>10. CASE AnalyzerSuppress
    BY <2>10 DEF TypeOK, PcInv, InHand, AnalyzerSuppress, AfterFinding
  <2>11. CASE AnalyzerRespond
    BY <2>11 DEF TypeOK, PcInv, InHand, AnalyzerRespond
  <2>12. CASE AnalyzerStore
    BY <2>12, <2>1 DEF TypeOK, PcInv, InHand, AnalyzerStore, AnalyzerCommits,
                      FindingKinds, Transactions
  <2>13. CASE AnalyzerStoreFails
    BY <2>13, <2>5 DEF TypeOK, PcInv, InHand, AnalyzerStoreFails
  <2>14. CASE AnalyzerForward
    <3>1. /\ anaTx' \in Transactions /\ anaSees' \subseteq Events
          /\ faults' \in 0..MaxFaults /\ forwarding' \subseteq Events
      BY <2>14, <2>1, <2>5 DEF AnalyzerForward, AnalyzerCommits, Transactions, TypeOK
    <3> QED BY <2>14, <3>1 DEF TypeOK, PcInv, InHand, AnalyzerForward, AfterFinding
  <2>15. CASE AnalyzerStops
    BY <2>15 DEF TypeOK, PcInv, InHand, AnalyzerStops
  <2> QED BY <1>5, <2>6, <2>7, <2>9, <2>10, <2>11, <2>12, <2>13, <2>14, <2>15, <2>8
             DEF AnalyzerStep
<1>6. CASE SetPaused
  BY <1>6 DEF TypeOK, PcInv, InHand, SetPaused
<1>7. CASE RequestShutdown
  BY <1>7 DEF TypeOK, PcInv, InHand, RequestShutdown
<1>8. CASE MainServes
  BY <1>8 DEF TypeOK, PcInv, InHand, MainServes
<1>9. CASE MainShutsDown
  <2>1. ShutdownJob \in Jobs
    BY DEF ShutdownJob, Jobs
  <2>2. writeQ' \in Seq(Jobs) /\ Len(writeQ') <= QueueCapacity
    BY <2>1, <1>9 DEF MainShutsDown, submit, TypeOK
  <2> QED BY <2>2, <1>9 DEF TypeOK, PcInv, InHand, MainShutsDown
<1>10. CASE Crash \/ Exit
  <2>1. LoseMemory /\ (InHand => faults < MaxFaults)
    BY <1>10 DEF Crash, Exit, Fault
  <2>2. InFlight \subseteq Events
    <3>1. \A i \in DOMAIN writeQ : writeQ[i] \in Jobs
      BY DEF TypeOK
    <3>2. \A i \in DOMAIN writeQ : writeQ[i].events \subseteq Events
      BY <3>1 DEF Jobs
    <3> QED BY <3>2 DEF InFlight, TypeOK
  <2>3. faults' \in 0..MaxFaults /\ lost' \subseteq Events
    BY <2>1, <2>2 DEF LoseMemory, TypeOK
  <2>4. writeQ' \in Seq(Jobs) /\ Len(writeQ') <= QueueCapacity
    BY <2>1 DEF LoseMemory
  <2>5. last_analyzed_id' \in 0..MaxEvents /\ since' \in 0..MaxEvents
    BY <2>1 DEF LoseMemory
  <2>6. PcInv'
    BY <2>1 DEF PcInv, InHand, LoseMemory
  <2>8. procTx' \in Transactions /\ procSees' \in 0..MaxEvents /\ anaTx' \in Transactions
    BY <2>1 DEF LoseMemory, Transactions
  <2> HIDE DEF processor, procDb, writer, analyzer, anaDb, history
  <2>7. UNCHANGED <<row, graph, findings, forwarding, blocked, owed, handled, repeats>>
    BY <2>1 DEF LoseMemory
  <2> QED BY <2>1, <2>3, <2>4, <2>5, <2>6, <2>7, <2>8 DEF TypeOK, LoseMemory
<1>11. CASE Start
  BY <1>11 DEF TypeOK, PcInv, InHand, Start
<1>12. CASE UNCHANGED vars
  BY <1>12 DEF TypeOK, PcInv, InHand, vars
<1> QED BY <1>1, <1>2, <1>3, <1>4, <1>5, <1>6, <1>7, <1>8, <1>9, <1>10, <1>11, <1>12
           DEF Next, MainStep

LEMMA InitTypes == Init => TypeOK /\ PcInv
<1> SUFFICES ASSUME Init
             PROVE  TypeOK /\ PcInv
  OBVIOUS
<1>1. /\ 0 \in 0..MaxEvents /\ 0 \in 0..RepeatCap /\ 0 \in 0..MaxFaults
      /\ <<>> \in Seq(Jobs) /\ Len(<<>>) <= QueueCapacity
  BY PipelineAssumption, BoundsAreNat
<1>2. row \in [Events -> RowStates] /\ procTx \in Transactions /\ anaTx \in Transactions
  BY DEF Init, RowStates, Transactions
<1>3. PcInv
  BY DEF Init, PcInv, InHand
<1> QED BY <1>1, <1>2, <1>3 DEF Init, TypeOK

\* Every variable keeps its type; in particular the write queue never exceeds
\* its maxsize and the analyzer's cursor never leaves the table.
THEOREM TypeCorrect == Spec => []TypeOK
<1>1. TypeOK /\ PcInv /\ [Next]_vars => (TypeOK /\ PcInv)'
  BY TypeStep
<1> QED BY InitTypes, <1>1, PTL DEF Spec

-----------------------------------------------------------------------------
(* The order of the log and the analyzer's cursor.                         *)

Past(e) == row[e] \in {"processed", "pruned"}

\* Ids are handed out in order.
RowsInOrder ==
  \A e, f \in Events : e < f /\ row[f] # "absent" => row[e] # "absent"

\* The batch in hand is still pending, and with each of its rows it holds every
\* pending row below it: this is what makes the UPDATE extend the prefix.
BatchIsPendingPrefix ==
  InHand =>
    /\ \A e \in batch \union event_ids : row[e] = "pending"
    /\ \A e \in Events, f \in batch \union event_ids :
         e < f /\ row[e] = "pending" => e \in batch \union event_ids

LogInv == TypeOK /\ PcInv /\ RowsInOrder /\ ProcessedPrefix /\ BatchIsPendingPrefix

\* The processor is the only thread that moves a row out of pending.
LEMMA LogStep == LogInv /\ [Next]_vars => LogInv'
<1> SUFFICES ASSUME LogInv, [Next]_vars
             PROVE  LogInv'
  OBVIOUS
<1>1. TypeOK' /\ PcInv'
  BY TypeStep DEF LogInv
<1>2. /\ TypeOK /\ PcInv /\ RowsInOrder /\ ProcessedPrefix /\ BatchIsPendingPrefix
      /\ \A e \in Events : row[e] \in RowStates
  BY DEF LogInv, TypeOK
<1> DEFINE Order == RowsInOrder /\ ProcessedPrefix /\ BatchIsPendingPrefix
<1> SUFFICES Order'
  BY <1>1 DEF LogInv
<1> USE DEF tables, processor, procDb
<1>3. CASE Collect
  <2>1. PICK k \in Nat : row' = [e \in Events |->
                 IF row[e] = "absent" /\ e <= Cardinality(Pushed) + k
                 THEN "pending" ELSE row[e]]
    BY <1>3 DEF Collect
  <2>2. Cardinality(Pushed) \in Nat
    BY EventsFinite DEF Pushed
  <2>3. Events \subseteq Nat
    BY PipelineAssumption DEF Events
  <2>4. RowsInOrder'
    BY <2>1, <2>2, <2>3, <1>2 DEF RowsInOrder
  <2>5. ProcessedPrefix'
    BY <2>1, <1>2 DEF ProcessedPrefix
  <2>6. BatchIsPendingPrefix'
    <3>1. UNCHANGED <<procPc, batch, event_ids>>
      BY <1>3 DEF Collect
    <3>2. batch \union event_ids \subseteq Events
      BY <1>2 DEF TypeOK
    <3> QED BY <3>1, <3>2, <2>1, <1>2
            DEF BatchIsPendingPrefix, InHand, RowsInOrder
  <2> QED BY <2>4, <2>5, <2>6
<1>4. CASE PopBatch
  <2>1. UNCHANGED <<row, event_ids>> /\ batch' = Lowest(Visible, BatchSize) /\ event_ids = {}
    BY <1>4, <1>2 DEF PopBatch, pop_batch, PcInv, InHand
  <2>2. /\ Lowest(Visible, BatchSize) \subseteq Pending
        /\ \A e \in Pending, f \in Lowest(Visible, BatchSize) :
              e < f => e \in Lowest(Visible, BatchSize)
    <3>1. Visible \in SUBSET Events /\ BatchSize \in Nat
      BY PipelineAssumption DEF Visible, Pending
    <3>2. /\ Lowest(Visible, BatchSize) \subseteq Visible
          /\ \A e \in Visible, f \in Lowest(Visible, BatchSize) :
                e < f => e \in Lowest(Visible, BatchSize)
      BY <3>1, LowestIsPrefix
    <3>3. \A e \in Pending, f \in Visible : e < f => e \in Visible
      BY PipelineAssumption, <1>2 DEF Visible, Pending, Events, TypeOK
    <3>4. Visible \subseteq Pending
      BY DEF Visible
    <3> QED BY <3>2, <3>3, <3>4
  <2>3. BatchIsPendingPrefix'
    BY <2>1, <2>2 DEF BatchIsPendingPrefix, Pending
  <2> QED BY <2>1, <2>3, <1>2 DEF RowsInOrder, ProcessedPrefix
<1>5. CASE MarkProcessed
  <2>1. row' = [e \in Events |-> IF e \in event_ids THEN "processed" ELSE row[e]]
    BY <1>5 DEF MarkProcessed
  <2>2. batch = {} /\ InHand /\ ~InHand'
    BY <1>5, <1>2 DEF MarkProcessed, PcInv, InHand
  <2>3. BatchIsPendingPrefix'
    BY <2>2 DEF BatchIsPendingPrefix
  <2>4. RowsInOrder'
    BY <2>1, <2>2, <1>2 DEF RowsInOrder, BatchIsPendingPrefix
  <2>5. ProcessedPrefix'
    <3> SUFFICES ASSUME NEW e \in Events, NEW f \in Events, e < f,
                        row'[f] \in {"processed", "pruned"}
                 PROVE  row'[e] \in {"processed", "pruned"}
      BY DEF ProcessedPrefix
    <3>1. CASE f \in event_ids
      <4>1. row[e] # "absent"
        BY <3>1, <2>2, <1>2 DEF RowsInOrder, BatchIsPendingPrefix
      <4>2. row[e] = "pending" => e \in event_ids
        BY <3>1, <2>2, <1>2 DEF BatchIsPendingPrefix
      <4> QED BY <4>1, <4>2, <2>1, <1>2 DEF RowStates
    <3>2. CASE f \notin event_ids
      BY <3>2, <2>1, <1>2 DEF ProcessedPrefix
    <3> QED BY <3>1, <3>2
  <2> QED BY <2>3, <2>4, <2>5
<1>6. CASE Prune
  <2>1. PICK cutoff \in 0..MaxEvents :
          row' = [e \in Events |-> IF row[e] = "processed" /\ e <= cutoff
                                   THEN "pruned" ELSE row[e]]
    BY <1>6 DEF Prune
  <2>2. ~InHand'
    BY <1>6 DEF Prune, InHand
  <2> QED BY <2>1, <2>2, <1>2 DEF RowsInOrder, ProcessedPrefix, BatchIsPendingPrefix
<1>7. ASSUME UNCHANGED row,
             InHand' => InHand /\ batch' \union event_ids' = batch \union event_ids
      PROVE  Order'
  BY <1>7, <1>2 DEF RowsInOrder, ProcessedPrefix, BatchIsPendingPrefix
<1>8. CASE ProcessorStep /\ ~PopBatch /\ ~MarkProcessed /\ ~Prune
  <2>1. procPc \in {"handle", "respond"} /\ batch # {} => Current \in batch
    BY FirstOfEvents, <1>2 DEF TypeOK, Current
  <2>2. procPc = "respond" => batch # {}
    BY <1>2 DEF PcInv
  <2>3. UNCHANGED row
    BY <1>8 DEF ProcessorStep, PopNothing, HandleFiltered, HandleFails,
                HandleForGraph, HandleBlocked, Respond, EndOfBatch, SubmitBatch,
                MarkFails, MarkRefused, PruneFails, ProcessorStops
  <2>4. CASE HandleFiltered \/ HandleFails \/ HandleForGraph \/ Respond
    <3>1. /\ event_ids' = event_ids \union {Current}
          /\ batch' = batch \ {Current}
          /\ InHand /\ Current \in batch
      BY <2>1, <2>2, <2>4
         DEF HandleFiltered, HandleFails, HandleForGraph, Respond, InHand
    <3>2. batch' \union event_ids' = batch \union event_ids
      BY <3>1
    <3> QED BY <3>1, <3>2, <2>3, <1>7
  <2>5. CASE HandleBlocked \/ EndOfBatch \/ SubmitBatch
    BY <2>3, <2>5, <1>7 DEF HandleBlocked, EndOfBatch, SubmitBatch, InHand
  <2>6. CASE PopNothing \/ MarkFails \/ MarkRefused \/ PruneFails \/ ProcessorStops
    BY <2>3, <2>6, <1>7 DEF PopNothing, MarkFails, MarkRefused, PruneFails,
                            ProcessorStops, InHand
  <2> QED BY <1>8, <2>4, <2>5, <2>6 DEF ProcessorStep
<1>9. CASE Crash \/ Exit
  BY <1>9, <1>7 DEF Crash, Exit, LoseMemory, InHand
<1>10. ASSUME UNCHANGED <<row, processor>>
       PROVE  Order'
  BY <1>10, <1>7 DEF InHand
<1>11. ReaperSubmit \/ WriterStep => UNCHANGED <<row, processor>>
  BY DEF ReaperSubmit, WriterStep, WriterLoop, WriterGet, WriterEmpty, WriterWrite
<1>12. AnalyzerStep => UNCHANGED <<row, processor>>
  BY DEF AnalyzerStep, AnalyzerStarts, AnalyzerFetch, AnalyzerFindsNothing,
         AnalyzeBatch, AnalyzerSuppress, AnalyzerRespond, AnalyzerStore,
         AnalyzerStoreFails, AnalyzerForward, AnalyzerStops
<1>13. SetPaused \/ RequestShutdown \/ MainServes \/ MainShutsDown \/ Start
         \/ UNCHANGED vars => UNCHANGED <<row, processor>>
  BY DEF SetPaused, RequestShutdown, MainServes, MainShutsDown, Start, vars
<1> HIDE DEF Order
<1> QED BY <1>3, <1>4, <1>5, <1>6, <1>8, <1>9, <1>10, <1>11, <1>12, <1>13
        DEF Next, MainStep, ProcessorStep

LEMMA LogInitially == Init => LogInv
<1> SUFFICES ASSUME Init
             PROVE  LogInv
  OBVIOUS
<1>1. TypeOK /\ PcInv
  BY InitTypes
<1>2. \A e \in Events : row[e] = "absent"
  BY DEF Init
<1>3. ~InHand
  BY DEF Init, InHand
<1> QED BY <1>1, <1>2, <1>3
        DEF LogInv, RowsInOrder, ProcessedPrefix, BatchIsPendingPrefix

\* Crashes, failed UPDATEs, pauses and restarts never leave a pending row
\* behind a processed one: mark_processed, which takes the ids of the batch in
\* any order and at any later time, still extends a prefix of the log.
THEOREM ProcessedIsPrefix == Spec => []ProcessedPrefix
<1>1. LogInv => ProcessedPrefix
  BY DEF LogInv
<1> QED BY LogInitially, LogStep, <1>1, PTL DEF Spec

\* An old snapshot still shows a stretch of the log without gaps: what it does
\* not show below a row that it shows has been pruned.
SnapshotInv ==
  Frozen(anaTx) =>
    \A f \in anaSees :
      /\ Past(f)
      /\ \A e \in Events : e < f => e \in anaSees \/ row[e] = "pruned"

\* The same holds of what the analyzer reads, whichever snapshot that is.
LEMMA ReadableHasNoGaps ==
  ASSUME LogInv, SnapshotInv
  PROVE  /\ Readable \in SUBSET Events
         /\ \A e \in Events, f \in Readable :
              e <= f => Past(e) /\ (e \in Readable \/ row[e] = "pruned")
<1>1. /\ TypeOK /\ ProcessedPrefix /\ Events \subseteq Nat
      /\ Processed \in SUBSET Events
  BY PipelineAssumption DEF LogInv, Processed, Events
<1>2. CASE Frozen(anaTx)
  <2>1. Readable = anaSees /\ anaSees \subseteq Events
    BY <1>1, <1>2 DEF Readable, TypeOK
  <2>2. ASSUME NEW e \in Events, NEW f \in anaSees, e <= f
        PROVE  Past(e) /\ (e \in anaSees \/ row[e] = "pruned")
    <3>1. e = f \/ e < f
      BY <2>1, <2>2, <1>1
    <3> QED BY <3>1, <2>2, <1>2 DEF SnapshotInv, Past
  <2> QED BY <2>1, <2>2
<1>3. CASE ~Frozen(anaTx)
  <2>1. Readable = Processed
    BY <1>3 DEF Readable
  <2>2. ASSUME NEW e \in Events, NEW f \in Processed, e <= f
        PROVE  Past(e) /\ (e \in Processed \/ row[e] = "pruned")
    <3>1. e = f \/ e < f
      BY <2>2, <1>1
    <3>2. Past(e)
      BY <3>1, <2>2, <1>1 DEF Past, Processed, ProcessedPrefix
    <3> QED BY <3>2 DEF Past, Processed
  <2> QED BY <2>1, <2>2, <1>1
<1> QED BY <1>2, <1>3

\* Processed rows stay behind, whoever commits what.
RowsAdvance ==
  \A e \in Events : Past(e) => Past(e)' /\ (row[e] = "pruned" => row'[e] = "pruned")

LEMMA RowsOnlyAdvance == LogInv /\ [Next]_vars => RowsAdvance
<1> SUFFICES ASSUME LogInv, [Next]_vars
             PROVE  RowsAdvance
  OBVIOUS
<1> USE DEF RowsAdvance, Past, tables
<1>1. CASE Collect
  BY <1>1 DEF Collect
<1>2. CASE MarkProcessed
  <2>1. \A e \in event_ids : row[e] = "pending"
    BY <1>2 DEF LogInv, BatchIsPendingPrefix, MarkProcessed, InHand
  <2> QED BY <1>2, <2>1 DEF MarkProcessed
<1>3. CASE Prune
  BY <1>3 DEF Prune
<1>4. ~Collect /\ ~MarkProcessed /\ ~Prune => UNCHANGED row
  BY DEF Next, vars, ProcessorStep, PopBatch, PopNothing, HandleFiltered,
         HandleFails, HandleForGraph, HandleBlocked, Respond, EndOfBatch,
         SubmitBatch, MarkFails, MarkRefused, PruneFails, ProcessorStops,
         ReaperSubmit, WriterStep, WriterLoop, WriterGet, WriterEmpty, WriterWrite,
         AnalyzerStep, AnalyzerStarts, AnalyzerFetch, AnalyzerFindsNothing,
         AnalyzeBatch, AnalyzerSuppress, AnalyzerRespond, AnalyzerStore,
         AnalyzerStoreFails, AnalyzerForward, AnalyzerStops, SetPaused,
         RequestShutdown, MainStep, MainServes, MainShutsDown, Exit, Crash, Start,
         LoseMemory
<1> QED BY <1>1, <1>2, <1>3, <1>4

LEMMA SnapshotStep == LogInv /\ SnapshotInv /\ [Next]_vars => SnapshotInv'
<1> SUFFICES ASSUME LogInv, SnapshotInv, [Next]_vars
             PROVE  SnapshotInv'
  OBVIOUS
<1>1. RowsAdvance /\ ProcessedPrefix /\ TypeOK
  BY RowsOnlyAdvance DEF LogInv
<1>2. ASSUME UNCHANGED anaSees, Frozen(anaTx)' => Frozen(anaTx)
      PROVE  SnapshotInv'
  BY <1>1, <1>2 DEF SnapshotInv, RowsAdvance, Past, TypeOK
<1>3. ASSUME ~Frozen(anaTx)'
      PROVE  SnapshotInv'
  BY <1>3 DEF SnapshotInv
<1>4. ASSUME AnalyzerSelects, UNCHANGED row
      PROVE  SnapshotInv'
  <2>1. CASE anaTx = "open"
    <3>1. anaSees' = Processed
      BY <1>4, <2>1 DEF AnalyzerSelects
    <3> QED BY <3>1, <1>1, <1>4 DEF SnapshotInv, Processed, Past, ProcessedPrefix
  <2>2. CASE anaTx # "open"
    BY <2>2, <1>2, <1>4 DEF AnalyzerSelects
  <2> QED BY <2>1, <2>2
<1>5. CASE AnalyzerStep
  <2> USE <1>5 DEF tables, anaDb
  <2>1. CASE AnalyzerFetch \/ AnalyzerFindsNothing
    BY <2>1, <1>4 DEF AnalyzerFetch, AnalyzerFindsNothing
  <2>2. CASE AnalyzerStore
    BY <2>2, <1>3 DEF AnalyzerStore, AnalyzerCommits, Frozen
  <2>3. CASE AnalyzerStoreFails
    BY <2>3, <1>2, <1>3 DEF AnalyzerStoreFails, AnalyzerLockedOut, AnalyzerRefused, Frozen
  <2>4. CASE AnalyzerForward
    BY <2>4, <1>2, <1>3 DEF AnalyzerForward, AnalyzerLockedOut, AnalyzerCommits, Frozen
  <2>5. CASE \/ AnalyzerStarts \/ AnalyzeBatch \/ AnalyzerSuppress
             \/ AnalyzerRespond \/ AnalyzerStops
    BY <2>5, <1>2 DEF AnalyzerStarts, AnalyzeBatch, AnalyzerSuppress,
                      AnalyzerRespond, AnalyzerStops
  <2> QED BY <2>1, <2>2, <2>3, <2>4, <2>5 DEF AnalyzerStep
<1>6. CASE Crash \/ Exit
  BY <1>6, <1>3 DEF Crash, Exit, LoseMemory, Frozen
<1>7. ~AnalyzerStep /\ ~Crash /\ ~Exit => UNCHANGED anaDb
  BY DEF Next, vars, analyzer, Collect, ProcessorStep, PopBatch, PopNothing,
         HandleFiltered, HandleFails, HandleForGraph, HandleBlocked, Respond,
         EndOfBatch, SubmitBatch, MarkProcessed, MarkFails, MarkRefused, Prune,
         PruneFails, ProcessorStops, ReaperSubmit, WriterStep, WriterLoop,
         WriterGet, WriterEmpty, WriterWrite, SetPaused, RequestShutdown, MainStep,
         MainServes, MainShutsDown, Start
<1>8. CASE UNCHANGED anaDb
  BY <1>8, <1>2 DEF anaDb
<1> QED BY <1>5, <1>6, <1>7, <1>8

\* The cursor of the analyzer is sound although the thread reads the table
\* without a lock while the processor marks and prunes rows, although it starts
\* from a maximum that it reads once, and although a failed write may leave its
\* connection looking at an old snapshot.
THEOREM CursorIsSound == Spec => []CursorSound
<1>1. Init => CursorSound
  BY PipelineAssumption DEF Init, CursorSound, Events
<1>2. LogInv /\ SnapshotInv /\ CursorSound /\ [Next]_vars => CursorSound'
  <2> SUFFICES ASSUME LogInv, SnapshotInv, CursorSound, [Next]_vars
               PROVE  CursorSound'
    OBVIOUS
  <2>1. /\ TypeOK /\ ProcessedPrefix /\ Processed \in SUBSET Events
        /\ Events \subseteq Nat /\ last_analyzed_id \in Nat /\ since \in Nat
        /\ \A e \in Events : row[e] \in RowStates
    BY PipelineAssumption, SMTT(30) DEF LogInv, TypeOK, Processed, Events
  <2>2. \A e \in Events, f \in Processed : e <= f => Past(e)
    BY <2>1 DEF ProcessedPrefix, Processed, Past
  <2>3. CASE AnalyzerStarts
    <3>1. \A e \in Events : e <= Newest(Processed) => Past(e)
      <4>1. CASE Processed = {}
        BY <4>1, <2>1 DEF Newest, Events
      <4>2. CASE Processed # {}
        BY <4>2, <2>1, <2>2, NewestIsGreatest
      <4> QED BY <4>1, <4>2
    <3>2. Newest(Processed) \in Nat /\ LookBack \in Nat
      BY <2>1, NewestIsGreatest, PipelineAssumption
    <3>3. /\ last_analyzed_id' \in Nat /\ last_analyzed_id' <= Newest(Processed)
          /\ since' = last_analyzed_id'
      BY <3>2, <2>3 DEF AnalyzerStarts
    <3>4. UNCHANGED row
      BY <2>3 DEF AnalyzerStarts, tables
    <3>5. ASSUME NEW e \in Events, e <= last_analyzed_id'
          PROVE  Past(e)
      BY <3>1, <3>2, <3>3, <3>5, <2>1
    <3>6. \A e \in Events : ~(since' < e /\ e <= last_analyzed_id')
      BY <3>3, <2>1
    <3> QED BY <3>4, <3>5, <3>6 DEF CursorSound, Past
  <2>4. CASE AnalyzerFetch
    <3> DEFINE above == {e \in Readable : e > last_analyzed_id}
    <3>9. /\ Readable \in SUBSET Events
          /\ \A e \in Events, f \in Readable :
               e <= f => Past(e) /\ (e \in Readable \/ row[e] = "pruned")
      BY ReadableHasNoGaps
    <3>1. get_processed_since = Lowest(above, AnalyzeLimit)
      BY DEF get_processed_since
    <3>2. above \in SUBSET Events /\ AnalyzeLimit \in Nat
      BY <3>9, PipelineAssumption
    <3>3. /\ get_processed_since \subseteq above
          /\ \A e \in above, f \in get_processed_since : e < f => e \in get_processed_since
      <4> HIDE DEF above
      <4> QED BY <3>1, <3>2, LowestIsPrefix
    <3>4. Newest(get_processed_since) \in get_processed_since
      <4>1. get_processed_since \in SUBSET Events /\ get_processed_since # {}
        BY <2>4, <3>2, <3>3 DEF AnalyzerFetch
      <4> QED BY <4>1, NewestIsGreatest
    <3>5. /\ last_analyzed_id' = Newest(get_processed_since)
          /\ fetched' = fetched \union get_processed_since
          /\ UNCHANGED <<row, since>>
      BY <2>4 DEF AnalyzerFetch, tables
    <3>6. last_analyzed_id' \in get_processed_since /\ last_analyzed_id' \in Readable
      BY <3>3, <3>4, <3>5
    <3>7. ASSUME NEW e \in Events, e <= last_analyzed_id'
          PROVE  Past(e)
      BY <3>6, <3>7, <3>9
    <3>8. ASSUME NEW e \in Events, since < e, e <= last_analyzed_id'
          PROVE  e \in fetched' \/ row[e] = "pruned"
      <4>1. CASE e <= last_analyzed_id
        BY <4>1, <3>5, <3>8 DEF CursorSound
      <4>2. CASE e > last_analyzed_id /\ row[e] # "pruned"
        <5>1. e \in above
          BY <4>2, <3>6, <3>8, <3>9
        <5>2. e = last_analyzed_id' \/ e < last_analyzed_id'
          BY <3>6, <3>8, <2>1, <3>9
        <5> QED BY <5>1, <5>2, <3>3, <3>5, <3>6
      <4> QED BY <4>1, <4>2, <2>1
    <3> QED BY <3>5, <3>7, <3>8 DEF CursorSound, Past
  <2>5. ASSUME UNCHANGED <<last_analyzed_id, since, fetched>>
        PROVE  CursorSound'
    BY <2>5, RowsOnlyAdvance DEF CursorSound, RowsAdvance, Past
  <2>9. CASE Crash \/ Exit
    <3>1. UNCHANGED row /\ last_analyzed_id' = 0 /\ since' = 0
      BY <2>9 DEF Crash, Exit, LoseMemory, tables
    <3>2. \A e \in Events : ~(e <= 0)
      BY PipelineAssumption DEF Events
    <3> QED BY <3>1, <3>2 DEF CursorSound
  <2>10. ~AnalyzerStarts /\ ~AnalyzerFetch /\ ~Crash /\ ~Exit
           => UNCHANGED <<last_analyzed_id, since, fetched>>
    BY DEF Next, vars, analyzer, Collect, ProcessorStep, PopBatch, PopNothing,
           HandleFiltered, HandleFails, HandleForGraph, HandleBlocked, Respond,
           EndOfBatch, SubmitBatch, MarkProcessed, MarkFails, MarkRefused, Prune,
           PruneFails, ProcessorStops, ReaperSubmit, WriterStep, WriterLoop,
           WriterGet, WriterEmpty, WriterWrite, AnalyzerStep, AnalyzerFindsNothing,
           AnalyzeBatch, AnalyzerSuppress, AnalyzerRespond, AnalyzerStore,
           AnalyzerStoreFails, AnalyzerForward, AnalyzerStops, SetPaused,
           RequestShutdown, MainStep, MainServes, MainShutsDown, Start
  <2> QED BY <2>3, <2>4, <2>5, <2>9, <2>10
<1>3. Init => SnapshotInv
  BY DEF Init, SnapshotInv, Frozen
<1> QED BY LogInitially, LogStep, SnapshotStep, <1>1, <1>2, <1>3, PTL DEF Spec

-----------------------------------------------------------------------------
(* Entities between the processor, the write queue and the graph. *)

GraphInv ==
  /\ GraphConservation
  /\ writerPc \in {"top", "get"} => writing = {}
  /\ InHand => entity_batch \subseteq event_ids /\ owed \intersect event_ids \subseteq entity_batch
  /\ procPc = "respond" => Current \notin owed
  /\ procPc = "mark" => entity_batch \subseteq graph \union InFlight \union lost

\* A job that is accepted adds its events to those in flight.
LEMMA InFlightAfterSubmit ==
  ASSUME TypeOK, NEW job \in Jobs, submit(job), UNCHANGED writing
  PROVE  /\ InFlight \subseteq InFlight'
         /\ Len(writeQ) < QueueCapacity => job.events \subseteq InFlight'
<1>1. writeQ \in Seq(Jobs)
  BY DEF TypeOK
<1>2. CASE Len(writeQ) < QueueCapacity
  <2>1. writeQ' = Append(writeQ, job)
    BY <1>2 DEF submit
  <2>2. DOMAIN writeQ \subseteq DOMAIN writeQ' /\ \A i \in DOMAIN writeQ : writeQ'[i] = writeQ[i]
    BY <1>1, <2>1
  <2>3. Len(writeQ) + 1 \in DOMAIN writeQ' /\ writeQ'[Len(writeQ) + 1] = job
    BY <1>1, <2>1
  <2>4. InFlight \subseteq InFlight'
    BY <2>2 DEF InFlight
  <2>5. job.events \subseteq InFlight'
    BY <2>3 DEF InFlight
  <2> QED BY <2>4, <2>5
<1>3. CASE ~(Len(writeQ) < QueueCapacity)
  BY <1>3 DEF submit, InFlight
<1> QED BY <1>2, <1>3

\* The writer takes the oldest job: nothing leaves the flight.
LEMMA InFlightAfterGet ==
  ASSUME TypeOK, writeQ # <<>>, writing = {},
         writeQ' = Tail(writeQ), writing' = Head(writeQ).events
  PROVE  InFlight \subseteq InFlight'
<1>1. writeQ \in Seq(Jobs)
  BY DEF TypeOK
<1> SUFFICES ASSUME NEW i \in DOMAIN writeQ, NEW e \in writeQ[i].events
             PROVE  e \in InFlight'
  BY DEF InFlight
<1>2. CASE i = 1
  BY <1>1, <1>2 DEF InFlight
<1>3. CASE i # 1
  <2>1. i - 1 \in DOMAIN writeQ' /\ writeQ'[i - 1] = writeQ[i]
    BY <1>1, <1>3
  <2> QED BY <2>1 DEF InFlight
<1> QED BY <1>2, <1>3

LEMMA GraphStep == LogInv /\ GraphInv /\ [Next]_vars => GraphInv'
<1> SUFFICES ASSUME LogInv, GraphInv, [Next]_vars
             PROVE  GraphInv'
  OBVIOUS
<1>1. TypeOK /\ PcInv /\ BatchIsPendingPrefix
  BY DEF LogInv
<1> DEFINE Safe == graph \union InFlight \union lost
           Kept == /\ GraphConservation
                   /\ procPc = "mark" => entity_batch \subseteq Safe
           Rest == /\ writerPc \in {"top", "get"} => writing = {}
                   /\ InHand => /\ entity_batch \subseteq event_ids
                                /\ owed \intersect event_ids \subseteq entity_batch
                   /\ procPc = "respond" => Current \notin owed
<1>2. Kept /\ Rest
  BY DEF GraphInv
<1> SUFFICES Kept' /\ Rest'
  BY DEF GraphInv
<1> HIDE DEF Safe
<1> USE DEF tables, processor, procDb, anaDb, history, writer
<1>3. \A e \in owed : Past(e) => e \in Safe
  BY <1>2 DEF GraphConservation, Past, Safe
\* A step that keeps the rows and what is owed, and loses track of nothing.
<1>4. ASSUME Safe \subseteq Safe', UNCHANGED <<owed, entity_batch, procPc>>,
             \A e \in Events : Past(e)' => Past(e)
      PROVE  Kept'
  <2>1. owed \subseteq Events
    BY <1>1 DEF TypeOK
  <2> QED BY <2>1, <1>2, <1>3, <1>4 DEF GraphConservation, Past, Safe
<1>5. ASSUME UNCHANGED <<writerPc, writing, processor, owed>>
      PROVE  Rest'
  BY <1>2, <1>5 DEF InHand, Current
<1>6. CASE Collect
  BY <1>4, <1>5, <1>6 DEF Collect, Safe, InFlight, Past
<1>7. CASE ProcessorStep
  <2>1. UNCHANGED <<graph, writerPc, writing>>
    BY <1>7 DEF ProcessorStep, PopBatch, PopNothing, HandleFiltered, HandleFails,
                HandleForGraph, HandleBlocked, Respond, EndOfBatch, SubmitBatch,
                MarkProcessed, MarkFails, MarkRefused, Prune, PruneFails,
                ProcessorStops
  <2>2. ~SubmitBatch => UNCHANGED <<writeQ, lost>>
    BY <1>7 DEF ProcessorStep, PopBatch, PopNothing, HandleFiltered, HandleFails,
                HandleForGraph, HandleBlocked, Respond, EndOfBatch, SubmitBatch,
                MarkProcessed, MarkFails, MarkRefused, Prune, PruneFails,
                ProcessorStops
  <2>3. ~SubmitBatch => Safe' = Safe
    BY <2>1, <2>2 DEF Safe, InFlight
  <2>4. writerPc' \in {"top", "get"} => writing' = {}
    BY <1>2, <2>1
  <2>5. procPc \in {"handle", "respond"} /\ batch # {} => Current \in batch /\ Current \in Events
    BY FirstOfEvents, <1>1 DEF TypeOK, Current
  <2>6. procPc \in {"handle", "respond"} /\ batch # {} => row[Current] = "pending"
    BY <2>5, <1>1 DEF BatchIsPendingPrefix, InHand
  <2>7. CASE PopBatch
    BY <2>7, <2>3, <2>4, <1>1, <1>2, <1>3
       DEF PopBatch, SubmitBatch, PcInv, InHand, GraphConservation, Past, Safe
  <2>8. CASE HandleFiltered \/ HandleFails
    <3>1. /\ UNCHANGED <<row, procPc, entity_batch>> /\ procPc = "handle" /\ batch # {}
          /\ owed' = owed \ {Current} /\ event_ids' = event_ids \union {Current}
          /\ ~SubmitBatch
      BY <2>8 DEF HandleFiltered, HandleFails, SubmitBatch
    <3> QED BY <3>1, <2>3, <2>4, <1>2, <1>3 DEF InHand, GraphConservation, Past, Safe
  <2>9. CASE HandleForGraph
    <3>1. /\ UNCHANGED <<row, procPc>> /\ procPc = "handle" /\ batch # {}
          /\ owed' = owed \union {Current} /\ event_ids' = event_ids \union {Current}
          /\ entity_batch' = entity_batch \union {Current} /\ ~SubmitBatch
      BY <2>9 DEF HandleForGraph, SubmitBatch
    <3> QED BY <3>1, <2>3, <2>4, <2>6, <1>2, <1>3
            DEF InHand, GraphConservation, Past, Safe
  <2>10. CASE HandleBlocked
    <3>1. /\ UNCHANGED <<row, batch, event_ids, entity_batch>> /\ procPc = "handle"
          /\ procPc' = "respond" /\ owed' = owed \ {Current} /\ ~SubmitBatch
      BY <2>10 DEF HandleBlocked, SubmitBatch
    <3>2. Current' = Current
      BY <3>1 DEF Current
    <3> QED BY <3>1, <3>2, <2>3, <2>4, <1>2, <1>3
            DEF InHand, GraphConservation, Past, Safe
  <2>11. CASE Respond
    <3>1. /\ UNCHANGED <<row, entity_batch, owed>> /\ procPc = "respond"
          /\ procPc' = "handle" /\ event_ids' = event_ids \union {Current}
          /\ ~SubmitBatch
      BY <2>11 DEF Respond, SubmitBatch
    <3> QED BY <3>1, <2>3, <2>4, <1>2, <1>3 DEF InHand, GraphConservation, Past, Safe
  <2>12. CASE EndOfBatch
    <3>1. /\ UNCHANGED <<row, entity_batch, event_ids, owed>> /\ procPc = "handle"
          /\ procPc' = IF entity_batch = {} THEN "mark" ELSE "submit"
          /\ ~SubmitBatch
      BY <2>12 DEF EndOfBatch, SubmitBatch
    <3> QED BY <3>1, <2>3, <2>4, <1>2, <1>3 DEF InHand, GraphConservation, Past, Safe
  <2>13. CASE SubmitBatch
    <3>1. /\ UNCHANGED <<row, entity_batch, event_ids, owed>> /\ procPc = "submit"
          /\ procPc' = "mark" /\ submit(EntityBatch(entity_batch))
          /\ lost' = IF Len(writeQ) < QueueCapacity
                     THEN lost \ entity_batch ELSE lost \union entity_batch
      BY <2>13 DEF SubmitBatch
    <3>2. EntityBatch(entity_batch) \in Jobs /\ EntityBatch(entity_batch).events = entity_batch
      BY <1>1 DEF TypeOK, EntityBatch, Jobs
    <3>3. /\ InFlight \subseteq InFlight'
          /\ Len(writeQ) < QueueCapacity => entity_batch \subseteq InFlight'
      BY <3>1, <3>2, <2>1, <1>1, InFlightAfterSubmit
    <3>4. Safe \subseteq Safe' /\ entity_batch \subseteq Safe'
      BY <3>1, <3>3, <2>1 DEF Safe
    <3> QED BY <3>1, <3>4, <2>4, <1>2, <1>3 DEF InHand, GraphConservation, Past, Safe
  <2>14. CASE MarkProcessed
    <3>1. /\ row' = [e \in Events |-> IF e \in event_ids THEN "processed" ELSE row[e]]
          /\ procPc = "mark" /\ procPc' = "prune" /\ UNCHANGED owed /\ ~SubmitBatch
      BY <2>14 DEF MarkProcessed, SubmitBatch
    <3>2. owed \intersect event_ids \subseteq Safe /\ owed \subseteq Events
      BY <3>1, <1>1, <1>2 DEF InHand, TypeOK
    <3>3. GraphConservation'
      BY <3>1, <3>2, <2>3, <1>3 DEF GraphConservation, Past, Safe
    <3> QED BY <3>1, <3>3, <2>4 DEF InHand
  <2>15. CASE PopNothing \/ MarkFails \/ MarkRefused \/ PruneFails
    BY <2>15, <2>3, <2>4, <1>2, <1>3
       DEF PopNothing, MarkFails, MarkRefused, PruneFails, SubmitBatch, InHand,
           GraphConservation, Past, Safe
  <2>16. CASE Prune
    <3>1. /\ \A e \in Events : Past(e)' => Past(e)
          /\ procPc' = "idle" /\ UNCHANGED owed /\ ~SubmitBatch
      BY <2>16 DEF Prune, SubmitBatch, Past
    <3>2. GraphConservation'
      <4>1. owed \subseteq Events
        BY <1>1 DEF TypeOK
      <4> QED BY <4>1, <3>1, <2>3, <1>3 DEF GraphConservation, Past, Safe
    <3> QED BY <3>1, <3>2, <2>4 DEF InHand
  <2>17. CASE ProcessorStops
    BY <2>17, <2>3, <2>4, <1>2, <1>3
       DEF ProcessorStops, SubmitBatch, InHand, GraphConservation, Past, Safe
  <2> QED BY <1>7, <2>7, <2>8, <2>9, <2>10, <2>11, <2>12, <2>13, <2>14, <2>15, <2>16,
             <2>17 DEF ProcessorStep
<1>8. CASE ReaperSubmit
  <2>1. PruneJob \in Jobs
    BY DEF PruneJob, Jobs
  <2>2. InFlight \subseteq InFlight'
    BY <2>1, <1>1, <1>8, InFlightAfterSubmit DEF ReaperSubmit
  <2> QED BY <2>2, <1>4, <1>5, <1>8 DEF ReaperSubmit, Safe, Past
<1>9. CASE WriterStep
  <2>1. UNCHANGED <<row, processor, owed>>
    BY <1>9 DEF WriterStep, WriterLoop, WriterGet, WriterEmpty, WriterWrite
  <2>2. Safe \subseteq Safe'
    <3>1. CASE WriterLoop \/ WriterEmpty
      BY <3>1 DEF WriterLoop, WriterEmpty, Safe, InFlight
    <3>2. CASE WriterGet
      <4>1. InFlight \subseteq InFlight'
        BY <3>2, <1>1, <1>2, InFlightAfterGet DEF WriterGet
      <4> QED BY <3>2, <4>1 DEF WriterGet, Safe
    <3>3. CASE WriterWrite
      <4>1. writing \subseteq graph' \union lost' /\ graph \subseteq graph' /\ lost \subseteq lost'
        BY <3>3 DEF WriterWrite
      <4>2. UNCHANGED writeQ
        BY <3>3 DEF WriterWrite
      <4> QED BY <4>1, <4>2 DEF Safe, InFlight
    <3> QED BY <1>9, <3>1, <3>2, <3>3 DEF WriterStep
  <2>3. writerPc' \in {"top", "get"} => writing' = {}
    BY <1>2, <1>9 DEF WriterStep, WriterLoop, WriterGet, WriterEmpty, WriterWrite
  <2>4. Kept'
    BY <2>1, <2>2, <1>4 DEF Past
  <2> QED BY <2>1, <2>3, <2>4, <1>2 DEF InHand, Current
<1>10. CASE AnalyzerStep
  <2>1. UNCHANGED <<row, graph, processor, writer, owed, lost>>
    BY <1>10 DEF AnalyzerStep, AnalyzerStarts, AnalyzerFetch, AnalyzerFindsNothing,
                 AnalyzeBatch, AnalyzerSuppress, AnalyzerRespond, AnalyzerStore,
                 AnalyzerStoreFails, AnalyzerForward, AnalyzerStops
  <2> QED BY <2>1, <1>4, <1>5 DEF Safe, InFlight, Past
<1>11. CASE MainShutsDown
  <2>1. ShutdownJob \in Jobs
    BY DEF ShutdownJob, Jobs
  <2>2. InFlight \subseteq InFlight'
    BY <2>1, <1>1, <1>11, InFlightAfterSubmit DEF MainShutsDown, InFlight
  <2> QED BY <2>2, <1>4, <1>5, <1>11 DEF MainShutsDown, Safe, Past
<1>12. CASE Crash \/ Exit
  <2>1. LoseMemory
    BY <1>12 DEF Crash, Exit
  <2>2. Safe \subseteq Safe' /\ UNCHANGED <<row, owed>>
    BY <2>1 DEF LoseMemory, Safe
  <2> QED BY <2>1, <2>2, <1>2, <1>3
          DEF LoseMemory, InHand, GraphConservation, Past, Safe
<1>13. CASE SetPaused \/ RequestShutdown \/ MainServes \/ Start \/ UNCHANGED vars
  <2>1. UNCHANGED <<row, graph, processor, writer, history>>
    BY <1>13 DEF SetPaused, RequestShutdown, MainServes, Start, vars
  <2> QED BY <2>1, <1>4, <1>5 DEF Safe, InFlight, Past
<1> HIDE DEF Kept, Rest
<1> QED BY <1>6, <1>7, <1>8, <1>9, <1>10, <1>11, <1>12, <1>13 DEF Next, MainStep

\* No event that passed the filters is forgotten between the processor, the
\* write queue and the writer: it is handed over before its row is marked.
THEOREM GraphIsConserved == Spec => []GraphConservation
<1>1. Init => GraphInv
  BY DEF Init, GraphInv, GraphConservation, InHand
<1>2. GraphInv => GraphConservation
  BY DEF GraphInv
<1> QED BY LogInitially, LogStep, GraphStep, <1>1, <1>2, PTL DEF Spec

-----------------------------------------------------------------------------
(* Evidence before enforcement, storage before forwarding. *)

EvidenceInv ==
  /\ EnforcementIsEvidenced
  /\ procPc = "respond" => <<"fast", Current>> \in findings

ForwardInv ==
  /\ ForwardedIsStored
  /\ anaPc = "forward" => <<"llm", Finding>> \in findings

LEMMA FindingsOnlyGrow == [Next]_vars => findings \subseteq findings'
BY DEF Next, vars, tables, Collect, ProcessorStep, PopBatch, PopNothing,
       HandleFiltered, HandleFails, HandleForGraph, HandleBlocked, Respond,
       EndOfBatch, SubmitBatch, MarkProcessed, MarkFails, MarkRefused, Prune,
       PruneFails, ProcessorStops, ReaperSubmit, WriterStep, WriterLoop, WriterGet,
       WriterEmpty, WriterWrite, AnalyzerStep, AnalyzerStarts, AnalyzerFetch,
       AnalyzerFindsNothing, AnalyzeBatch, AnalyzerSuppress, AnalyzerRespond,
       AnalyzerStore, AnalyzerStoreFails, AnalyzerForward, AnalyzerStops, SetPaused,
       RequestShutdown, MainStep, MainServes, MainShutsDown, Exit, Crash, Start,
       LoseMemory, store_finding

\* Whenever the process dies, an event that the response engine acted on has
\* its fast-path finding in the table.
THEOREM EnforcementLeavesEvidence == Spec => []EnforcementIsEvidenced
<1>1. Init => EvidenceInv
  BY DEF Init, EvidenceInv, EnforcementIsEvidenced
<1>2. EvidenceInv /\ [Next]_vars => EvidenceInv'
  <2> SUFFICES ASSUME EvidenceInv, [Next]_vars
               PROVE  EvidenceInv'
    OBVIOUS
  <2>1. findings \subseteq findings'
    BY FindingsOnlyGrow
  <2> USE DEF EvidenceInv, EnforcementIsEvidenced, Current
  <2>2. ASSUME UNCHANGED <<blocked, procPc, batch>>
        PROVE  EvidenceInv'
    BY <2>1, <2>2
  <2>3. CASE ProcessorStep
    <3>1. CASE HandleBlocked
      BY <3>1, <2>1 DEF HandleBlocked, store_finding
    <3>2. CASE Respond
      BY <3>2, <2>1 DEF Respond
    <3>3. \/ UNCHANGED blocked /\ procPc' # "respond"
          \/ HandleBlocked
          \/ Respond
      BY <2>3 DEF ProcessorStep, PopBatch, PopNothing, HandleFiltered, HandleFails,
                  HandleForGraph, EndOfBatch, SubmitBatch, MarkProcessed, MarkFails,
                  MarkRefused, Prune, PruneFails, ProcessorStops, history
    <3> QED BY <3>1, <3>2, <3>3, <2>1
  <2>4. CASE Crash \/ Exit
    BY <2>4, <2>1 DEF Crash, Exit, LoseMemory
  <2>5. Collect \/ ReaperSubmit \/ WriterStep \/ AnalyzerStep \/ SetPaused
          \/ RequestShutdown \/ MainServes \/ MainShutsDown \/ Start \/ UNCHANGED vars
          => UNCHANGED <<blocked, procPc, batch>>
    BY DEF Collect, ReaperSubmit, WriterStep, WriterLoop, WriterGet, WriterEmpty,
           WriterWrite, AnalyzerStep, AnalyzerStarts, AnalyzerFetch,
           AnalyzerFindsNothing, AnalyzeBatch, AnalyzerSuppress, AnalyzerRespond,
           AnalyzerStore, AnalyzerStoreFails, AnalyzerForward, AnalyzerStops,
           SetPaused, RequestShutdown, MainServes, MainShutsDown, Start, vars,
           processor, history
  <2> QED BY <2>2, <2>3, <2>4, <2>5 DEF Next, MainStep
<1>3. EvidenceInv => EnforcementIsEvidenced
  BY DEF EvidenceInv
<1> QED BY <1>1, <1>2, <1>3, PTL DEF Spec

\* Whenever the process dies, a finding queued for the fleet server is in the
\* table of this host.
THEOREM ForwardedFindingsAreStored == Spec => []ForwardedIsStored
<1>1. Init => ForwardInv
  BY DEF Init, ForwardInv, ForwardedIsStored
<1>2. ForwardInv /\ [Next]_vars => ForwardInv'
  <2> SUFFICES ASSUME ForwardInv, [Next]_vars
               PROVE  ForwardInv'
    OBVIOUS
  <2>1. findings \subseteq findings'
    BY FindingsOnlyGrow
  <2> USE DEF ForwardInv, ForwardedIsStored, Finding
  <2>2. ASSUME UNCHANGED <<forwarding, anaPc, llm_findings>>
        PROVE  ForwardInv'
    BY <2>1, <2>2
  <2>3. CASE AnalyzerStep
    <3>1. CASE AnalyzerStore
      BY <3>1, <2>1 DEF AnalyzerStore
    <3>2. CASE AnalyzerForward
      <4>1. anaPc' # "forward"
        BY <3>2 DEF AnalyzerForward, AfterFinding
      <4> QED BY <3>2, <4>1, <2>1 DEF AnalyzerForward
    <3>3. \/ UNCHANGED forwarding /\ anaPc' # "forward"
          \/ AnalyzerStore
          \/ AnalyzerForward
      BY <2>3 DEF AnalyzerStep, AnalyzerStarts, AnalyzerFetch, AnalyzerFindsNothing,
                  AnalyzeBatch, AnalyzerSuppress, AfterFinding, AnalyzerRespond,
                  AnalyzerStoreFails, AnalyzerStops, tables
    <3> QED BY <3>1, <3>2, <3>3, <2>1
  <2>4. CASE Crash \/ Exit
    BY <2>4, <2>1 DEF Crash, Exit, LoseMemory, tables
  <2>5. Collect \/ ProcessorStep \/ ReaperSubmit \/ WriterStep \/ SetPaused
          \/ RequestShutdown \/ MainServes \/ MainShutsDown \/ Start \/ UNCHANGED vars
          => UNCHANGED <<forwarding, anaPc, llm_findings>>
    BY DEF Collect, ProcessorStep, PopBatch, PopNothing, HandleFiltered,
           HandleFails, HandleForGraph, HandleBlocked, Respond, EndOfBatch,
           SubmitBatch, MarkProcessed, MarkFails, MarkRefused, Prune, PruneFails,
           ProcessorStops, ReaperSubmit, WriterStep, WriterLoop, WriterGet,
           WriterEmpty, WriterWrite, SetPaused, RequestShutdown, MainServes,
           MainShutsDown, Start, vars, tables, analyzer
  <2> QED BY <2>2, <2>3, <2>4, <2>5 DEF Next, MainStep
<1>3. ForwardInv => ForwardedIsStored
  BY DEF ForwardInv
<1> QED BY <1>1, <1>2, <1>3, PTL DEF Spec

-----------------------------------------------------------------------------
(***************************************************************************)
(* EventPipeline implements DurableQueue, and its redelivery is bounded:   *)
(* the results that need the size of a set of rows.                        *)
(***************************************************************************)

\* Rows that are no longer pending.
Done == {e \in Events : row[e] \in {"processed", "pruned"}}

Gone == {e \in Events : row[e] = "pruned"}

-----------------------------------------------------------------------------
(* Sets of rows and their newest element. *)

LEMMA NewestOfPrefix ==
  ASSUME NEW S \in SUBSET Events,
         \A e, f \in Events : e < f /\ f \in S => e \in S
  PROVE  S = 1..Newest(S) /\ Newest(S) \in Nat /\ Newest(S) <= MaxEvents
<1> USE PipelineAssumption DEF Events
<1>1. Newest(S) \in 0..MaxEvents /\ (\A f \in S : f <= Newest(S)) /\ (S # {} => Newest(S) \in S)
  BY NewestIsGreatest
<1>2. S \subseteq 1..Newest(S)
  BY <1>1
<1>3. CASE S = {}
  <2>1. Newest(S) = 0
    BY <1>3 DEF Newest
  <2> QED BY <2>1, <1>3
<1>4. CASE S # {}
  <2>1. Newest(S) \in S /\ Newest(S) \in 1..MaxEvents
    BY <1>1, <1>4
  <2>2. ASSUME NEW e \in 1..Newest(S)
        PROVE  e \in S
    <3>1. e \in 1..MaxEvents /\ (e < Newest(S) \/ e = Newest(S))
      BY <2>1
    <3> QED BY <3>1, <2>1
  <2>3. S = 1..Newest(S)
    BY <2>2, <1>2
  <2> QED BY <2>1, <2>3
<1> QED BY <1>1, <1>3, <1>4

\* The newest of a larger set is not older.
LEMMA NewestIsMonotone ==
  ASSUME NEW S \in SUBSET Events, NEW T \in SUBSET Events, S \subseteq T
  PROVE  Newest(S) <= Newest(T)
<1>1. /\ Newest(S) \in Nat /\ Newest(T) \in Nat /\ Events \subseteq Nat
      /\ \A f \in T : f <= Newest(T)
      /\ S # {} => Newest(S) \in S
  BY NewestIsGreatest, PipelineAssumption DEF Events
<1>2. S = {} => Newest(S) = 0
  BY DEF Newest
<1> QED BY <1>1, <1>2

Prefixes ==
  /\ Pushed = 1..Newest(Pushed) /\ Newest(Pushed) \in Nat
  /\ Newest(Pushed) <= MaxEvents /\ Cardinality(Pushed) = Newest(Pushed)
  /\ Done = 1..Newest(Done) /\ Newest(Done) \in Nat
  /\ Done \subseteq Pushed /\ Gone \subseteq Done

LEMMA RowsArePrefixes == LogInv => Prefixes
<1> SUFFICES ASSUME LogInv
             PROVE  Prefixes
  OBVIOUS
<1>1. /\ Pushed \in SUBSET Events
      /\ \A e, f \in Events : e < f /\ f \in Pushed => e \in Pushed
  BY DEF LogInv, RowsInOrder, Pushed
<1>2. Pushed = 1..Newest(Pushed) /\ Newest(Pushed) \in Nat /\ Newest(Pushed) <= MaxEvents
  BY <1>1, NewestOfPrefix
<1>3. Cardinality(1..Newest(Pushed)) = Newest(Pushed)
  BY <1>2, FS_Interval
<1>4. /\ Done \in SUBSET Events
      /\ \A e, f \in Events : e < f /\ f \in Done => e \in Done
  BY DEF LogInv, ProcessedPrefix, Done
<1>5. Done = 1..Newest(Done) /\ Newest(Done) \in Nat
  BY <1>4, NewestOfPrefix
<1>6. Done \subseteq Pushed /\ Gone \subseteq Done
  BY DEF Done, Gone, Pushed
<1> QED BY <1>2, <1>3, <1>5, <1>6 DEF Prefixes

-----------------------------------------------------------------------------
(* The refinement. *)

LEMMA TableStep == LogInv /\ LogInv' /\ [Next]_vars => [Table!Next]_(Table!vars)
<1> SUFFICES ASSUME LogInv, LogInv', [Next]_vars
             PROVE  [Table!Next]_(Table!vars)
  OBVIOUS
<1> USE DEF tables
<1>1. Prefixes /\ Prefixes'
  <2>1. LogInv => Prefixes
    BY RowsArePrefixes
  <2> QED BY <2>1, RowsArePrefixes, PTL
<1> USE DEF Prefixes
<1> DEFINE head == Newest(Pushed)
           done == Newest(Done)
<1>3. ASSUME UNCHANGED row
      PROVE  UNCHANGED <<head, done, Gone>>
  BY <1>3 DEF Pushed, Done, Gone, Newest
<1>4. CASE Collect
  <2>1. PICK k \in 1..(MaxEvents - Cardinality(Pushed)) : row' = [e \in Events |->
                 IF row[e] = "absent" /\ e <= Cardinality(Pushed) + k
                 THEN "pending" ELSE row[e]]
    BY <1>4 DEF Collect
  <2>2. Done' = Done /\ Gone' = Gone
    BY <2>1 DEF Done, Gone
  <2>3. head + 1 \in Pushed'
    <3>1. head + 1 \in Events /\ head + 1 \notin Pushed /\ head + 1 <= Cardinality(Pushed) + k
      BY <2>1, <1>1, PipelineAssumption DEF Events
    <3> QED BY <3>1, <2>1 DEF Pushed
  <2>4. head' \in (head + 1)..MaxEvents
    BY <2>3, <1>1, PipelineAssumption
  <2>5. done' = done
    BY <2>2
  <2> QED BY <2>2, <2>4, <2>5 DEF Table!Next, Table!Insert, Done, Gone
<1>5. CASE MarkProcessed
  <2>1. row' = [e \in Events |-> IF e \in event_ids THEN "processed" ELSE row[e]]
    BY <1>5 DEF MarkProcessed
  <2>2. event_ids \subseteq Events /\ \A e \in event_ids : row[e] = "pending"
    BY <1>5 DEF LogInv, TypeOK, BatchIsPendingPrefix, InHand, MarkProcessed
  <2>3. Pushed' = Pushed /\ Gone' = Gone /\ Done' = Done \union event_ids
    BY <2>1, <2>2 DEF Pushed, Done, Gone
  <2>4. head' = head
    BY <2>3
  <2>5. CASE event_ids = {}
    <3>1. done' = done
      BY <2>3, <2>5
    <3> QED BY <3>1, <2>3, <2>4 DEF Table!vars, Done, Gone
  <2>6. CASE event_ids # {}
    <3>1. PICK e \in event_ids : e \in Events /\ e \notin Done
      BY <2>2, <2>6 DEF Done
    <3>2. e > done
      BY <3>1, <1>1, PipelineAssumption DEF Events
    <3>3. e <= done'
      <4>1. e \in Done'
        BY <3>1, <2>3
      <4>2. e \in 1..done'
        BY <4>1, <1>1
      <4> QED BY <4>2
    <3>4. done' <= head
      <4>1. done' = 0 \/ done' \in Done'
        BY <1>1
      <4>2. done' \in Done' => done' \in Pushed
        BY <1>1, <2>3
      <4> QED BY <4>1, <4>2, <1>1
    <3>5. done' \in (done + 1)..head
      BY <3>1, <3>2, <3>3, <3>4, <1>1, PipelineAssumption DEF Events
    <3> QED BY <3>5, <2>3, <2>4 DEF Table!Next, Table!Mark, Done, Gone
  <2> QED BY <2>5, <2>6
<1>6. CASE Prune
  <2>1. PICK cutoff \in 0..MaxEvents :
          row' = [e \in Events |-> IF row[e] = "processed" /\ e <= cutoff
                                   THEN "pruned" ELSE row[e]]
    BY <1>6 DEF Prune
  <2>2. Pushed' = Pushed /\ Done' = Done /\ Gone \subseteq Gone'
    BY <2>1 DEF Pushed, Done, Gone
  <2>3. head' = head /\ done' = done
    BY <2>2
  <2>4. Gone' \in SUBSET (1..done)
    BY <1>1, <2>2
  <2> QED BY <2>2, <2>3, <2>4 DEF Table!Next, Table!Delete, Done, Gone
<1>7. ~Collect /\ ~MarkProcessed /\ ~Prune => UNCHANGED row
  BY DEF Next, vars, ProcessorStep, PopBatch, PopNothing, HandleFiltered,
         HandleFails, HandleForGraph, HandleBlocked, Respond, EndOfBatch,
         SubmitBatch, MarkFails, MarkRefused, PruneFails, ProcessorStops,
         ReaperSubmit, WriterStep, WriterLoop, WriterGet, WriterEmpty, WriterWrite,
         AnalyzerStep, AnalyzerStarts, AnalyzerFetch, AnalyzerFindsNothing,
         AnalyzeBatch, AnalyzerSuppress, AnalyzerRespond, AnalyzerStore,
         AnalyzerStoreFails, AnalyzerForward, AnalyzerStops, SetPaused,
         RequestShutdown, MainStep, MainServes, MainShutsDown, Exit, Crash, Start,
         LoseMemory
<1>8. CASE UNCHANGED row
  BY <1>3, <1>8 DEF Table!vars, Done, Gone
<1> QED BY <1>4, <1>5, <1>6, <1>7, <1>8

LEMMA TableInitially == Init => Table!Init
<1> SUFFICES ASSUME Init
             PROVE  Table!Init
  OBVIOUS
<1>1. Pushed = {} /\ Done = {} /\ Gone = {}
  BY DEF Init, Pushed, Done, Gone
<1>2. Newest(Pushed) = 0 /\ Newest(Done) = 0
  BY <1>1 DEF Newest
<1> QED BY <1>1, <1>2 DEF Table!Init, Done, Gone

\* Whatever the threads do and whenever the process dies, the table behaves as
\* the abstract log: inserted in order, processed in order, without gaps, and
\* only processed rows are deleted.
THEOREM TableIsDurableQueue == Spec => ImplementsDurableQueue
<1>1. LogInv /\ LogInv' /\ [Next]_vars => [Table!Next]_(Table!vars)
  BY TableStep
<1> QED BY LogInitially, LogStep, TableInitially, <1>1, PTL
        DEF Spec, ImplementsDurableQueue, Table!Spec

-----------------------------------------------------------------------------
(* Redelivery. *)

\* Rows that will be handled again: handled, still pending, and not among the
\* ids that the cycle in hand will mark.
Again == {e \in handled : row[e] = "pending"} \ event_ids

RedeliveryInv ==
  /\ handled \subseteq Pushed
  /\ InHand => /\ event_ids \subseteq handled
               /\ batch \intersect event_ids = {}
               /\ Cardinality(batch \union event_ids) <= BatchSize
  /\ repeats + Cardinality(Again) <= BatchSize * faults

\* LIMIT n returns no more than n rows: but for its newest row, the result lies
\* below that row, where there are less than n.
LEMMA LowestIsSmall ==
  ASSUME NEW S \in SUBSET Events, NEW n \in Nat
  PROVE  Cardinality(Lowest(S, n)) <= n
<1> DEFINE L == Lowest(S, n)
           m == Newest(L)
           B == {f \in S : f < m}
<1>1. L \in SUBSET Events /\ L \subseteq S /\ Events \subseteq Nat
  <2>1. Events \subseteq Nat
    BY PipelineAssumption DEF Events
  <2>2. L \subseteq S
    BY DEF Lowest
  <2> QED BY <2>1, <2>2
<1>2. CASE L = {}
  BY <1>2, FS_EmptySet
<1>3. CASE L # {}
  <2>1. m \in L /\ \A f \in L : f <= m
    BY <1>1, <1>3, NewestIsGreatest
  <2>2. Cardinality(B) < n
    BY <2>1 DEF Lowest
  <2>3. L \ {m} \subseteq B
    <3>1. ASSUME NEW f \in L, f # m
          PROVE  f \in S /\ f < m
      <4>1. f \in Nat /\ m \in Nat /\ f <= m /\ f \in S
        BY <1>1, <2>1
      <4> QED BY <3>1, <4>1
    <3> QED BY <3>1
  <2>4. IsFiniteSet(L) /\ Cardinality(L) \in Nat
    BY <1>1, EventsFinite
  <2>5. IsFiniteSet(B) /\ Cardinality(B) \in Nat
    <3>1. B \in SUBSET Events
      OBVIOUS
    <3> HIDE DEF B
    <3> QED BY <3>1, EventsFinite
  <2> HIDE DEF L, B, m
  <2>6. Cardinality(L \ {m}) = Cardinality(L) - 1
    BY <2>1, <2>4, FS_RemoveElement
  <2>7. Cardinality(L \ {m}) <= Cardinality(B)
    BY <2>3, <2>5, FS_Subset
  <2>8. Cardinality(L) <= n
    BY <2>2, <2>4, <2>5, <2>6, <2>7
  <2> QED BY <2>8 DEF L
<1> QED BY <1>2, <1>3

LEMMA RedeliveryStep == LogInv /\ RedeliveryInv /\ [Next]_vars => RedeliveryInv'
<1> SUFFICES ASSUME LogInv, RedeliveryInv, [Next]_vars
             PROVE  RedeliveryInv'
  OBVIOUS
<1> USE DEF tables, processor, procDb, history
<1>1. TypeOK /\ PcInv /\ BatchIsPendingPrefix
  BY DEF LogInv
<1>2. /\ handled \subseteq Events /\ event_ids \subseteq Events /\ batch \subseteq Events
      /\ repeats \in Nat /\ faults \in Nat /\ BatchSize \in Nat
    BY <1>1, PipelineAssumption DEF TypeOK
<1>3. /\ Again \in SUBSET Events /\ IsFiniteSet(Again) /\ Cardinality(Again) \in Nat
  <2>1. Again \in SUBSET Events
    BY <1>2 DEF Again
  <2> QED BY <2>1, EventsFinite
\* The ids in hand are not marked: they may be handled again, and a batch of
\* them is what one more fault accounts for.
<1>4. ASSUME Again' \subseteq Again \union event_ids, InHand, faults' = faults + 1,
             repeats' = repeats
      PROVE  (repeats + Cardinality(Again) <= BatchSize * faults)'
  <2>1. IsFiniteSet(event_ids) /\ Cardinality(event_ids) \in Nat
    BY <1>2, EventsFinite
  <2>2. Cardinality(event_ids) <= BatchSize
    <3>1. IsFiniteSet(batch \union event_ids) /\ Cardinality(batch \union event_ids) \in Nat
      <4>1. batch \union event_ids \in SUBSET Events
        BY <1>2
      <4> QED BY <4>1, EventsFinite
    <3>2. Cardinality(event_ids) <= Cardinality(batch \union event_ids)
      BY <3>1, FS_Subset
    <3>3. Cardinality(batch \union event_ids) <= BatchSize
      BY <1>4 DEF RedeliveryInv
    <3> QED BY <2>1, <3>1, <3>2, <3>3, <1>2
  <2>3. Again \union event_ids \in SUBSET Events /\ Again \intersect event_ids = {}
    BY <1>2, <1>3 DEF Again
  <2>4. Cardinality(Again \union event_ids) = Cardinality(Again) + Cardinality(event_ids)
    <3>1. Cardinality(Again \intersect event_ids) = 0
      BY <2>3, FS_EmptySet
    <3>2. Cardinality(Again \union event_ids)
            = Cardinality(Again) + Cardinality(event_ids)
              - Cardinality(Again \intersect event_ids)
      BY <1>3, <2>1, FS_Union
    <3> QED BY <3>1, <3>2, <1>3, <2>1
  <2>5. Cardinality(Again') <= Cardinality(Again \union event_ids)
        /\ Cardinality(Again') \in Nat
    <3>1. Again' \in SUBSET Events
      BY <1>4, <2>3
    <3>2. IsFiniteSet(Again \union event_ids)
      BY <2>3, EventsFinite
    <3>3. IsFiniteSet(Again') /\ Cardinality(Again') \in Nat
      BY <3>1, EventsFinite
    <3> QED BY <3>2, <3>3, <1>4, FS_Subset
  <2>6. BatchSize * (faults + 1) = BatchSize * faults + BatchSize
    BY <1>2
  <2>7. BatchSize * faults \in Nat
    BY <1>2
  <2>8. repeats + Cardinality(Again) <= BatchSize * faults
    BY DEF RedeliveryInv
  <2>9. repeats + Cardinality(Again') <= BatchSize * (faults + 1)
    BY <2>1, <2>2, <2>4, <2>5, <2>6, <2>7, <2>8, <1>2, <1>3
  <2>10. Cardinality(Again)' = Cardinality(Again')
    OBVIOUS
  <2> QED BY <2>9, <1>4
\* A step that handles nothing and cuts no batch short.
<1>5. ASSUME Again' = Again, UNCHANGED <<handled, repeats, faults>>,
             Pushed \subseteq Pushed',
             InHand' => \/ /\ InHand /\ UNCHANGED <<batch, event_ids>>
                        \/ /\ event_ids' = {}
                           /\ Cardinality(batch') <= BatchSize
      PROVE  RedeliveryInv'
  <2>1. (repeats + Cardinality(Again) <= BatchSize * faults)'
    BY <1>5 DEF RedeliveryInv
  <2>2. handled' \subseteq Pushed'
    BY <1>5 DEF RedeliveryInv
  <2>3. InHand' => /\ event_ids' \subseteq handled'
                   /\ batch' \intersect event_ids' = {}
                   /\ Cardinality(batch' \union event_ids') <= BatchSize
    <3>1. CASE InHand /\ UNCHANGED <<batch, event_ids>>
      BY <3>1, <1>5 DEF RedeliveryInv
    <3>2. CASE event_ids' = {} /\ Cardinality(batch') <= BatchSize
      <4>1. batch' \union event_ids' = batch'
        BY <3>2
      <4> QED BY <4>1, <3>2
    <3> QED BY <1>5, <3>1, <3>2
  <2> QED BY <2>1, <2>2, <2>3 DEF RedeliveryInv
<1>6. CASE Collect
  <2>1. PICK k \in Nat : row' = [e \in Events |->
                 IF row[e] = "absent" /\ e <= Cardinality(Pushed) + k
                 THEN "pending" ELSE row[e]]
    BY <1>6 DEF Collect
  <2>2. Pushed \subseteq Pushed' /\ \A e \in Pushed : row'[e] = row[e]
    BY <2>1 DEF Pushed
  <2>3. UNCHANGED <<processor, history>>
    BY <1>6 DEF Collect
  <2>4. handled \subseteq Pushed
    BY DEF RedeliveryInv
  <2>5. Again' = Again
    BY <2>2, <2>3, <2>4 DEF Again
  <2> QED BY <2>2, <2>3, <2>5, <1>5 DEF InHand
<1>7. CASE PopBatch
  <2>1. /\ batch' = Lowest(Visible, BatchSize) /\ event_ids' = {} /\ event_ids = {}
        /\ UNCHANGED <<row, handled, repeats, faults>>
    BY <1>7, <1>1 DEF PopBatch, pop_batch, PcInv, InHand
  <2>2. Cardinality(batch') <= BatchSize
    <3>1. Visible \in SUBSET Events
      BY DEF Visible, Pending
    <3> QED BY <3>1, <2>1, <1>2, LowestIsSmall
  <2> QED BY <2>1, <2>2, <1>5 DEF Again, Pushed
<1>8. CASE HandleFiltered \/ HandleFails \/ HandleForGraph \/ Respond
  <2>1. procPc \in {"handle", "respond"} /\ batch # {}
    BY <1>1, <1>8 DEF HandleFiltered, HandleFails, HandleForGraph, Respond, PcInv
  <2> DEFINE e == Current
  <2>2. e \in batch /\ e \in Events
    BY <2>1, <1>1, FirstOfEvents DEF TypeOK, Current
  <2>3. /\ event_ids' = event_ids \union {e} /\ batch' = batch \ {e}
        /\ handled' = handled \union {e} /\ UNCHANGED <<row, faults>>
        /\ repeats' = IF e \in handled /\ repeats < RepeatCap THEN repeats + 1 ELSE repeats
    BY <1>8 DEF HandleFiltered, HandleFails, HandleForGraph, Respond, Handled
  <2> HIDE DEF e
  <2>4. InHand /\ row[e] = "pending" /\ e \notin event_ids
    BY <2>1, <2>2, <1>1 DEF InHand, BatchIsPendingPrefix, RedeliveryInv
  <2>5. handled' \subseteq Pushed'
    BY <2>2, <2>3, <2>4 DEF RedeliveryInv, Pushed
  <2>6. batch' \union event_ids' = batch \union event_ids
    BY <2>2, <2>3
  <2>7. /\ event_ids' \subseteq handled' /\ batch' \intersect event_ids' = {}
        /\ Cardinality(batch' \union event_ids') <= BatchSize
    BY <2>3, <2>4, <2>6 DEF RedeliveryInv
  <2>8. (repeats + Cardinality(Again) <= BatchSize * faults)'
    <3>1. repeats + Cardinality(Again) <= BatchSize * faults /\ BatchSize * faults \in Nat
      BY <1>2 DEF RedeliveryInv
    <3>2. CASE e \in handled
      <4>1. e \in Again /\ Again' = Again \ {e}
        BY <3>2, <2>3, <2>4 DEF Again
      <4>2. Cardinality(Again') = Cardinality(Again) - 1
        BY <4>1, <1>3, FS_RemoveElement
      <4>3. repeats' <= repeats + 1 /\ repeats' \in Nat
        BY <2>3, <1>2
      <4>4. repeats' + Cardinality(Again') <= BatchSize * faults
        BY <3>1, <4>2, <4>3, <1>2, <1>3
      <4> QED BY <4>4, <2>3
    <3>3. CASE e \notin handled
      <4>1. Again' = Again /\ repeats' = repeats
        BY <3>3, <2>3, <2>4 DEF Again
      <4> QED BY <4>1, <3>1, <2>3
    <3> QED BY <3>2, <3>3
  <2> QED BY <2>5, <2>7, <2>8 DEF RedeliveryInv
<1>9. CASE HandleBlocked \/ EndOfBatch \/ SubmitBatch
  <2>1. UNCHANGED <<row, batch, event_ids, handled, repeats, faults>> /\ InHand
    BY <1>9 DEF HandleBlocked, EndOfBatch, SubmitBatch, InHand
  <2> QED BY <2>1, <1>5 DEF Again, Pushed
<1>10. CASE MarkProcessed
  <2>1. /\ row' = [e \in Events |-> IF e \in event_ids THEN "processed" ELSE row[e]]
        /\ event_ids' = {} /\ ~InHand' /\ InHand
        /\ UNCHANGED <<handled, repeats, faults>>
    BY <1>10 DEF MarkProcessed, InHand
  <2>2. Again' = Again /\ Pushed \subseteq Pushed'
    BY <2>1, <1>2 DEF Again, Pushed
  <2> QED BY <2>1, <2>2, <1>5
<1>11. CASE MarkFails
  <2>1. /\ UNCHANGED <<row, handled, repeats>> /\ event_ids' = {} /\ ~InHand'
        /\ InHand /\ faults' = faults + 1
    BY <1>11 DEF MarkFails, ProcessorLockedOut, InHand
  <2>2. Again' \subseteq Again \union event_ids
    BY <2>1 DEF Again
  <2> QED BY <2>1, <2>2, <1>4 DEF RedeliveryInv, Pushed
<1>12. CASE MarkRefused
  <2>1. /\ UNCHANGED <<row, repeats, faults>> /\ event_ids' = {} /\ ~InHand'
        /\ handled' = handled \ event_ids
    BY <1>12 DEF MarkRefused, InHand
  <2>2. Again' = Again
    BY <2>1 DEF Again
  <2>3. (repeats + Cardinality(Again) <= BatchSize * faults)'
    BY <2>1, <2>2 DEF RedeliveryInv
  <2> QED BY <2>1, <2>3 DEF RedeliveryInv, Pushed
\* A fault with no batch in hand.
<1>13. ASSUME UNCHANGED <<row, batch, event_ids, handled, repeats>>,
              InHand' => InHand, faults' \in {faults, faults + 1}
       PROVE  RedeliveryInv'
  <2>1. Again' = Again
    BY <1>13 DEF Again
  <2>2. BatchSize * faults' \in Nat /\ BatchSize * faults <= BatchSize * faults'
    <3>1. BatchSize * (faults + 1) = BatchSize * faults + BatchSize
      BY <1>2
    <3>2. BatchSize * faults \in Nat
      BY <1>2
    <3>3. CASE faults' = faults
      BY <3>2, <3>3
    <3>4. CASE faults' = faults + 1
      <4>1. BatchSize * faults' = BatchSize * faults + BatchSize
        BY <3>1, <3>4
      <4> QED BY <4>1, <3>2, <1>2
    <3> QED BY <3>3, <3>4, <1>13
  <2>3. repeats + Cardinality(Again) <= BatchSize * faults /\ BatchSize * faults \in Nat
    BY <1>2 DEF RedeliveryInv
  <2>4. repeats + Cardinality(Again) <= BatchSize * faults'
    BY <2>2, <2>3, <1>2, <1>3
  <2>5. (repeats + Cardinality(Again) <= BatchSize * faults)'
    BY <2>1, <2>4, <1>13
  <2> QED BY <2>5, <1>13 DEF RedeliveryInv, Pushed
<1>14. CASE PruneFails
  BY <1>13, <1>14 DEF PruneFails, ProcessorLockedOut, InHand
<1>15. CASE AnalyzerStep
  <2>1. UNCHANGED <<row, processor, handled, repeats>>
    BY <1>15 DEF AnalyzerStep, AnalyzerStarts, AnalyzerFetch, AnalyzerFindsNothing,
         AnalyzeBatch, AnalyzerSuppress, AnalyzerRespond, AnalyzerStore,
         AnalyzerStoreFails, AnalyzerForward, AnalyzerStops
  <2>2. faults' \in {faults, faults + 1}
    BY <1>15 DEF AnalyzerStep, AnalyzerStarts, AnalyzerFetch, AnalyzerFindsNothing,
         AnalyzeBatch, AnalyzerSuppress, AnalyzerRespond, AnalyzerStore,
         AnalyzerStoreFails, AnalyzerForward, AnalyzerStops, AnalyzerLockedOut,
         AnalyzerRefused
  <2> QED BY <2>1, <2>2, <1>13 DEF InHand
<1>16. CASE Prune
  <2>1. /\ \A e \in Events : row[e] # "processed" => row'[e] = row[e]
        /\ \A e \in Events : row[e] = "processed" => row'[e] \in {"processed", "pruned"}
        /\ ~InHand' /\ UNCHANGED <<event_ids, handled, repeats, faults>>
    BY <1>16 DEF Prune, InHand
  <2>2. Again' = Again /\ Pushed \subseteq Pushed'
    BY <2>1, <1>2 DEF Again, Pushed
  <2> QED BY <2>1, <2>2, <1>5
<1>17. CASE Crash \/ Exit
  <2>1. /\ UNCHANGED <<row, handled, repeats>> /\ event_ids' = {} /\ ~InHand'
        /\ faults' = IF InHand THEN faults + 1 ELSE faults
    BY <1>17 DEF Crash, Exit, LoseMemory, InHand
  <2>2. CASE InHand
    <3>1. Again' \subseteq Again \union event_ids
      BY <2>1 DEF Again
    <3> QED BY <2>1, <2>2, <3>1, <1>4 DEF RedeliveryInv, Pushed
  <2>3. CASE ~InHand
    <3>1. Again' = Again
      BY <2>1, <2>3, <1>1 DEF Again, PcInv
    <3> QED BY <2>1, <2>3, <3>1, <1>5 DEF Pushed
  <2> QED BY <2>2, <2>3
<1>18. CASE PopNothing \/ ProcessorStops
  <2>1. UNCHANGED <<row, event_ids, handled, repeats, faults>> /\ ~InHand'
    BY <1>18 DEF PopNothing, ProcessorStops, InHand
  <2> QED BY <2>1, <1>5 DEF Again, Pushed
<1>19. ASSUME UNCHANGED <<row, processor, handled, repeats, faults>>
       PROVE  RedeliveryInv'
  BY <1>19, <1>5 DEF Again, Pushed, InHand
<1>20. ReaperSubmit \/ WriterStep \/ SetPaused \/ RequestShutdown
         \/ MainServes \/ MainShutsDown \/ Start \/ UNCHANGED vars
         => UNCHANGED <<row, processor, handled, repeats, faults>>
  BY DEF ReaperSubmit, WriterStep, WriterLoop, WriterGet, WriterEmpty, WriterWrite,
         SetPaused, RequestShutdown, MainServes, MainShutsDown, Start, vars
<1> QED BY <1>6, <1>7, <1>8, <1>9, <1>10, <1>11, <1>16, <1>17, <1>18, <1>19, <1>20,
           <1>12, <1>14, <1>15
        DEF Next, MainStep, ProcessorStep

\* However crashes, failed UPDATEs and restarts interleave with the batches,
\* each of them makes the processor repeat one batch at most.
THEOREM RedeliveryIsBounded == Spec => []RedeliveryBounded
<1>1. Init => RedeliveryInv
  <2> SUFFICES ASSUME Init
               PROVE  RedeliveryInv
    OBVIOUS
  <2>1. Again = {} /\ ~InHand /\ handled = {} /\ repeats = 0 /\ faults = 0
    BY DEF Init, Again, InHand
  <2>2. Cardinality(Again) = 0
    BY <2>1, FS_EmptySet
  <2>3. repeats + Cardinality(Again) <= BatchSize * faults
    BY <2>1, <2>2, PipelineAssumption
  <2> QED BY <2>1, <2>3 DEF RedeliveryInv
<1>2. LogInv /\ RedeliveryInv => RedeliveryBounded
  <2> SUFFICES ASSUME LogInv, RedeliveryInv
               PROVE  RedeliveryBounded
    OBVIOUS
  <2>1. Again \in SUBSET Events
    BY DEF LogInv, TypeOK, Again
  <2>2. Cardinality(Again) \in Nat
    BY <2>1, EventsFinite
  <2>3. repeats \in Nat /\ BatchSize * faults \in Nat
    BY PipelineAssumption DEF LogInv, TypeOK
  <2> QED BY <2>2, <2>3 DEF RedeliveryInv, RedeliveryBounded
<1> QED BY LogInitially, LogStep, RedeliveryStep, <1>1, <1>2, PTL DEF Spec
=============================================================================
