--------------------------- MODULE ForensicLedger ---------------------------
(***************************************************************************)
(* The forensic ledger (agent/ledger/writer.py): the processor thread      *)
(* enqueues a row for every event, a background thread inserts the rows    *)
(* into an SQLite table in batches.  The flight recorder                   *)
(* (agent/flight_recorder.py) is the same writer with a smaller queue and  *)
(* a record() that never waits (WaitsWhenFull = FALSE).                    *)
(*                                                                         *)
(* The writer's connection has its own view of the table: rows that it has *)
(* inserted and not committed are in `view' and not yet in `ledger'.       *)
(***************************************************************************)
EXTENDS Naturals, Sequences, SequencesExt

CONSTANTS
  MaxRecords,     \* Bound: calls of record().
  QueueSize,      \* maxsize of the queue (50_000; flight recorder 10_000).
  MaxBatch,       \* _MAX_BATCH (512).
  WaitsWhenFull,  \* record() waits 0.1 s for room before it drops the row.
  MaxFaults       \* Bound: inserts or deletes that fail, crashes, and exits that
                  \* did not wait long enough for the writer.

ASSUME LedgerAssumption ==
  /\ MaxRecords \in Nat
  /\ QueueSize \in Nat \ {0}
  /\ MaxBatch \in Nat \ {0}
  /\ WaitsWhenFull \in BOOLEAN
  /\ MaxFaults \in Nat

\* Rows, named by the order of the calls of record().
Records == 1..MaxRecords

VARIABLES
  ledger,     \* The committed table, in the order of its ids.
  view,       \* The table as the writer's connection sees it.
  main,       \* "down", "starting" (no LedgerWriter yet), "running", "stopping".
  stop,       \* The _stop event.
  queue,      \* The queue.Queue between record() and the writer.
  calls,      \* Calls of record() so far.
  caller,     \* "idle", "full" (the last call waits for room).
  writerPc,   \* "top", "drain", "insert", "prune", "flush", "final", "close", "closed".
  batch,      \* Rows that the writer has taken from the queue.
  \* History.
  dropped,    \* Rows that record() did not accept.
  lost,       \* Accepted rows that a fault destroyed.
  pruned,     \* Rows that retention has deleted.
  queued,     \* Rows that were in the queue at the latest stop().
  owed,       \* Of these, and of the batch, those within reach of the final flush.
  left,       \* Rows still in the queue at an exit that waited for the writer.
  faults

endings == <<queued, owed, left>>
table   == <<ledger, view>>
process == <<main, stop>>
writer  == <<writerPc, batch>>
history == <<dropped, lost, pruned, endings, faults>>

vars == <<table, process, queue, calls, caller, writer, history>>

Rows(s) == {s[i] : i \in DOMAIN s}

\* What DELETE leaves of the table.
Without(s, old) ==
  LET kept[n \in 0..Len(s)] ==
        IF n = 0 THEN <<>>
        ELSE IF s[n] \in old THEN kept[n - 1] ELSE Append(kept[n - 1], s[n])
  IN kept[Len(s)]

Init ==
  /\ ledger = <<>> /\ view = <<>>
  /\ main = "down" /\ stop = FALSE
  /\ queue = <<>> /\ calls = 0 /\ caller = "idle"
  /\ writerPc = "closed" /\ batch = <<>>
  /\ dropped = {} /\ lost = {} /\ pruned = {} /\ faults = 0
  /\ queued = {} /\ owed = {} /\ left = {}

-----------------------------------------------------------------------------
(* record(), called by the processor thread, which still runs when the     *)
(* ledger has been stopped: main() stops the ledger before it joins it.    *)

Recording == main # "down" /\ caller = "idle" /\ calls < MaxRecords

\* The row is not recorded: it does not serialize, or main(), which starts the
\* processor first, has not created the LedgerWriter yet.
RecordMissed ==
  /\ Recording
  /\ calls' = calls + 1
  /\ dropped' = dropped \union {calls + 1}
  /\ UNCHANGED <<table, process, queue, caller, writer, lost, pruned, endings, faults>>

RecordPut ==
  /\ Recording /\ main # "starting"
  /\ Len(queue) < QueueSize
  /\ calls' = calls + 1
  /\ queue' = Append(queue, calls + 1)
  /\ UNCHANGED <<table, process, caller, writer, history>>

\* put_nowait raises Full: the flight recorder drops the row, the ledger waits.
RecordFull ==
  /\ Recording /\ main # "starting"
  /\ Len(queue) = QueueSize
  /\ calls' = calls + 1
  /\ IF WaitsWhenFull
     THEN caller' = "full" /\ UNCHANGED dropped
     ELSE dropped' = dropped \union {calls + 1} /\ UNCHANGED caller
  /\ UNCHANGED <<table, process, queue, writer, lost, pruned, endings, faults>>

\* Within 0.1 s there is room...
WaitPut ==
  /\ main # "down" /\ caller = "full"
  /\ Len(queue) < QueueSize
  /\ queue' = Append(queue, calls)
  /\ caller' = "idle"
  /\ UNCHANGED <<table, process, calls, writer, history>>

\* ... or there is not, and the row is dropped with a warning.
WaitDrops ==
  /\ main # "down" /\ caller = "full"
  /\ Len(queue) = QueueSize
  /\ dropped' = dropped \union {calls}
  /\ caller' = "idle"
  /\ UNCHANGED <<table, process, queue, calls, writer, lost, pruned, endings, faults>>

Record == RecordMissed \/ RecordPut \/ RecordFull \/ WaitPut \/ WaitDrops

-----------------------------------------------------------------------------
(* The writer thread. *)

\* Variant: no final flush.
LoopWithoutFlush ==
  /\ writerPc = "top"
  /\ writerPc' = IF stop THEN "close" ELSE "drain"
  /\ UNCHANGED <<table, process, queue, calls, caller, batch, history>>

\* while not self._stop.is_set(): the loop, or the final flush.
Loop ==
  /\ writerPc = "top"
  /\ writerPc' = IF stop THEN "flush" ELSE "drain"
  /\ UNCHANGED <<table, process, queue, calls, caller, batch, history>>

\* One get_nowait of _drain_queue; record() may put between two of them.
DrainGet ==
  /\ writerPc \in {"drain", "flush"}
  /\ Len(batch) < MaxBatch /\ queue # <<>>
  /\ batch' = Append(batch, Head(queue))
  /\ queue' = Tail(queue)
  /\ UNCHANGED <<table, process, calls, caller, writerPc, history>>

DrainDone ==
  /\ writerPc \in {"drain", "flush"}
  /\ Len(batch) = MaxBatch \/ queue = <<>>
  /\ writerPc' = IF writerPc = "flush" THEN "final" ELSE "insert"
  /\ UNCHANGED <<table, process, queue, calls, caller, batch, history>>

\* executemany and commit.  The commit ends the transaction that an earlier
\* failure may have left open.
InsertBatch ==
  /\ writerPc \in {"insert", "final"} /\ batch # <<>>
  /\ view' = view \o batch
  /\ ledger' = view'
  /\ batch' = <<>>
  /\ writerPc' = IF writerPc = "final" THEN "close" ELSE "prune"
  /\ UNCHANGED <<process, queue, calls, caller, history>>

\* if batch: an empty one commits nothing, not even what is still open.
NothingToInsert ==
  /\ writerPc \in {"insert", "final"} /\ batch = <<>>
  /\ writerPc' = IF writerPc = "final" THEN "close" ELSE "prune"
  /\ UNCHANGED <<table, process, queue, calls, caller, batch, history>>

\* Variant: the batch is kept for another try.
InsertRetries ==
  /\ writerPc \in {"insert", "final"} /\ batch # <<>> /\ faults < MaxFaults
  /\ \E k \in 0..Len(batch) : view' = view \o SubSeq(batch, 1, k)
  /\ faults' = faults + 1
  /\ writerPc' = IF writerPc = "final" THEN "close" ELSE "prune"
  /\ UNCHANGED <<ledger, process, queue, calls, caller, batch, dropped, lost, pruned, endings>>

\* Variant: the exception ends the thread.
InsertDies ==
  /\ writerPc \in {"insert", "final"} /\ batch # <<>> /\ faults < MaxFaults
  /\ lost' = lost \union Rows(batch)
  /\ batch' = <<>>
  /\ faults' = faults + 1
  /\ writerPc' = "close"
  /\ UNCHANGED <<table, process, queue, calls, caller, dropped, pruned, endings>>

\* The exception is logged and nothing is rolled back: the rows executed so far
\* stay in the open transaction, the others are gone.
InsertFails ==
  /\ writerPc \in {"insert", "final"} /\ batch # <<>> /\ faults < MaxFaults
  /\ \E k \in 0..Len(batch) :
       /\ view' = view \o SubSeq(batch, 1, k)
       /\ lost' = lost \union Rows(SubSeq(batch, k + 1, Len(batch)))
  /\ batch' = <<>>
  /\ faults' = faults + 1
  /\ writerPc' = IF writerPc = "final" THEN "close" ELSE "prune"
  /\ UNCHANGED <<ledger, process, queue, calls, caller, dropped, pruned, endings>>

\* SQLite itself rolls the transaction back (disk full, I/O error).
InsertRollsBack ==
  /\ writerPc \in {"insert", "final"} /\ batch # <<>> /\ faults < MaxFaults
  /\ view' = ledger
  /\ lost' = (lost \union Rows(view) \union Rows(batch)) \ Rows(ledger)
  /\ pruned' = pruned \ Rows(ledger)
  /\ batch' = <<>>
  /\ faults' = faults + 1
  /\ writerPc' = IF writerPc = "final" THEN "close" ELSE "prune"
  /\ UNCHANGED <<ledger, process, queue, calls, caller, dropped, endings>>

\* Every minute: DELETE ... WHERE ts < cutoff, and commit.  ts is the time of
\* the event, which the order of the rows says nothing about.
Prune ==
  /\ writerPc = "prune"
  /\ \E old \in SUBSET Rows(view) :
       /\ view' = Without(view, old)
       /\ ledger' = view'
       /\ pruned' = pruned \union old
  /\ writerPc' = "top"
  /\ UNCHANGED <<process, queue, calls, caller, batch, dropped, lost, endings, faults>>

\* The DELETE raises before, or at, its commit.
PruneFails ==
  /\ writerPc = "prune" /\ faults < MaxFaults
  /\ \E old \in SUBSET Rows(view) :
       /\ view' = Without(view, old)
       /\ pruned' = pruned \union old
  /\ faults' = faults + 1
  /\ writerPc' = "top"
  /\ UNCHANGED <<ledger, process, queue, calls, caller, batch, dropped, lost, endings>>

\* The minute has not passed.
PruneNotDue ==
  /\ writerPc = "prune"
  /\ writerPc' = "top"
  /\ UNCHANGED <<table, process, queue, calls, caller, batch, history>>

\* conn.close() drops the open transaction.
Close ==
  /\ writerPc = "close"
  /\ view' = ledger
  /\ lost' = lost \union (Rows(view) \ Rows(ledger))
  /\ pruned' = pruned \ Rows(ledger)
  /\ writerPc' = "closed"
  /\ UNCHANGED <<ledger, process, queue, calls, caller, batch, dropped, endings, faults>>

WriterStep ==
  \/ Loop \/ DrainGet \/ DrainDone \/ InsertBatch \/ NothingToInsert
  \/ InsertFails \/ InsertRollsBack \/ Prune \/ PruneFails \/ PruneNotDue \/ Close

-----------------------------------------------------------------------------
(* The main thread. *)

\* main() starts the processor thread...
Start ==
  /\ main = "down"
  /\ main' = "starting"
  /\ UNCHANGED <<table, stop, queue, calls, caller, writer, history>>

\* ... and then the LedgerWriter, which starts its thread.
Create ==
  /\ main = "starting"
  /\ main' = "running"
  /\ writerPc' = "top"
  /\ queued' = {} /\ owed' = {}
  /\ UNCHANGED <<table, stop, queue, calls, caller, batch, dropped, lost, pruned, left,
                 faults>>

\* stop(): set _stop, then wait five seconds for the writer.
Stop ==
  /\ main = "running"
  /\ main' = "stopping"
  /\ stop' = TRUE
  /\ queued' = Rows(queue)
  /\ owed' = Rows(batch)
           \union {queue[i] : i \in {j \in DOMAIN queue : j <= MaxBatch}}
  /\ UNCHANGED <<table, queue, calls, caller, writer, dropped, lost, pruned, left, faults>>

\* What is in memory, or in an open transaction.
InMemory ==
  Rows(queue) \union Rows(batch) \union (Rows(view) \ Rows(ledger))
    \union (IF caller = "full" THEN {calls} ELSE {})

\* The process ends.
ProcessEnds ==
  /\ main' = "down" /\ stop' = FALSE
  /\ queue' = <<>> /\ caller' = "idle" /\ batch' = <<>> /\ writerPc' = "closed"
  /\ view' = ledger
  /\ pruned' = pruned \ Rows(ledger)
  /\ UNCHANGED <<ledger, calls, dropped, queued, owed>>

\* The writer has finished, and the process ends with main() ...
Exit ==
  /\ main = "stopping" /\ writerPc = "closed"
  /\ ProcessEnds
  /\ left' = left \union InMemory
  /\ UNCHANGED <<lost, faults>>

\* ... or it has not: five seconds were not enough.
ExitLate ==
  /\ main = "stopping" /\ writerPc # "closed" /\ faults < MaxFaults
  /\ ProcessEnds
  /\ lost' = lost \union InMemory
  /\ faults' = faults + 1
  /\ UNCHANGED left

Crash ==
  /\ main # "down" /\ faults < MaxFaults
  /\ ProcessEnds
  /\ lost' = lost \union InMemory
  /\ faults' = faults + 1
  /\ UNCHANGED left

MainStep == Create \/ Exit

Next == Record \/ WriterStep \/ Start \/ MainStep \/ Stop \/ ExitLate \/ Crash

Spec == Init /\ [][Next]_vars

\* The writer thread is scheduled; record() and stop() are up to others.
FairSpec == Spec /\ WF_vars(WriterStep) /\ WF_vars(MainStep)

-----------------------------------------------------------------------------
(* Properties. *)

Increasing(s) == \A i, j \in DOMAIN s : i < j => s[i] < s[j]

TypeOK ==
  /\ ledger \in Seq(Records) /\ view \in Seq(Records)
  /\ main \in {"down", "starting", "running", "stopping"} /\ stop \in BOOLEAN
  /\ queue \in Seq(Records) /\ Len(queue) <= QueueSize
  /\ calls \in 0..MaxRecords /\ caller \in {"idle", "full"}
  /\ writerPc \in {"top", "drain", "insert", "prune", "flush", "final", "close", "closed"}
  /\ batch \in Seq(Records) /\ Len(batch) <= MaxBatch
  /\ dropped \subseteq Records /\ lost \subseteq Records
  /\ pruned \subseteq Records
  /\ queued \subseteq Records /\ owed \subseteq Records /\ left \subseteq Records
  /\ faults \in 0..MaxFaults

\* The table, then the open transaction, the batch, the queue and the caller
\* hold the rows in the order of record(), each once: whatever fails, a row is
\* neither written twice nor overtaken.
RecordedInOrder ==
  /\ Increasing(ledger)
  /\ Increasing(view \o batch \o queue \o (IF caller = "full" THEN <<calls>> ELSE <<>>))

\* Where a row is that has been recorded.
Accounted(r) ==
  \/ r \in dropped \union lost \union pruned \union left
  \/ r \in Rows(ledger) \union Rows(view) \union Rows(batch) \union Rows(queue)
  \/ caller = "full" /\ r = calls

\* A row that record() took is in the table or on its way, was deleted by
\* retention, destroyed by a fault -- only if there was one -- or left behind by
\* a stop that went as it should; and such a stop leaves behind only what had a
\* whole batch before it in the queue, or came later (writer.py:165): neither the
\* writer's batch at the time of stop() nor the _MAX_BATCH rows behind it.
NothingForgotten ==
  /\ \A r \in 1..calls : Accounted(r)
  /\ faults = 0 => lost = {}
  /\ owed \intersect left = {}

\* A running ledger comes back to an empty queue, whatever inserts fail.
QueueDrains == <>[](main = "running") => <>[](queue = <<>> /\ batch = <<>>)

-----------------------------------------------------------------------------
(* What the documents promise and the code does not do. *)

\* "Flush remaining events and stop the writer thread" (writer.py:140): an exit
\* that waited for the writer leaves nothing that was queued at stop().
StopFlushes == queued \intersect left = {}
=============================================================================
