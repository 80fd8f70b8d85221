--------------------------- MODULE EventPipeline ---------------------------
(***************************************************************************)
(* The agent's event pipeline: the threads main() starts around the        *)
(* durable event_queue table and the in-memory graph write queue.          *)
(*                                                                         *)
(*   collector -> event_queue -> processor -> write queue -> graph writer  *)
(*                     |             |                                     *)
(*                     |             +-> fast-path enforcement             *)
(*                     +-> analyzer (cursor) -> LLM -> response, findings  *)
(*                                                     -> forwarding_queue *)
(*                                                                         *)
(* One action is one step of one thread between two points at which other  *)
(* threads, or the end of the process, can be seen.  A crash keeps the     *)
(* SQLite tables and the graph and loses everything else.                  *)
(*                                                                         *)
(* Each thread has an SQLite connection of its own, in WAL mode, on which  *)
(* the driver opens a transaction before the first INSERT, UPDATE or       *)
(* DELETE.  No caller ever rolls one back, so a statement that fails leaves *)
(* it open:                                                                *)
(*   "none"    no transaction: a SELECT sees what is committed, and a      *)
(*             write commits;                                              *)
(*   "open"    a write has failed because the database was locked;         *)
(*   "pinned"  and a SELECT has since fixed the snapshot that every later  *)
(*             SELECT sees, until a write commits;                         *)
(*   "stale"   a write has been refused because another connection has     *)
(*             committed since the snapshot.  So will every later one be.  *)
(***************************************************************************)
EXTENDS Naturals, Sequences, FiniteSets

CONSTANTS
  MaxEvents,      \* Bound: rows ever inserted into event_queue.
  BatchSize,      \* settings.processor_batch_size (500).
  QueueCapacity,  \* maxsize of the write queue (10_000).
  AnalyzeLimit,   \* LIMIT of the analyzer's SELECT (1000).
  LlmCap,         \* _MAX_BATCH_EVENTS of analyze_batch (200).
  LookBack,       \* Rows the analyzer goes back on a restart (1000).
  MaxFaults,      \* Bound: crashes with a batch in hand, and writes that find
                  \*   the database locked.
  Usable,         \* Ids of the raw events that normalize to an OCSF event; of
                  \*   the others normalize() returns None or raises.
  IocEvents,      \* Ids of the events that match the IOC feeds.
  PersistentGraph,\* settings.kuzu_persistent_enabled: without it there is no
                  \*   writer and no reaper thread, and every event is novel.
  LlmConfigured,  \* An API key is set: without it analyze_batch finds nothing.
  Environments    \* Bound: sets of acts of the environment, of "pause", "shutdown",
                  \*   "crash", "reaper" and "fault"; a behaviour considers one.

ASSUME PipelineAssumption ==
  /\ MaxEvents \in Nat \ {0}
  /\ BatchSize \in Nat \ {0}
  /\ QueueCapacity \in Nat \ {0}
  /\ AnalyzeLimit \in Nat \ {0}
  /\ LlmCap \in Nat \ {0}
  /\ LookBack \in Nat
  /\ MaxFaults \in Nat
  /\ Usable \subseteq 1..MaxEvents
  /\ IocEvents \subseteq Usable
  /\ PersistentGraph \in BOOLEAN
  /\ LlmConfigured \in BOOLEAN
  /\ Environments \subseteq SUBSET {"pause", "shutdown", "crash", "reaper", "fault"}

Events == 1..MaxEvents

Transactions == {"none", "open", "pinned", "stale"}

RowStates == {"absent", "pending", "processed", "pruned"}

\* Jobs of the graph write queue.  PRUNE stands for the reaper's jobs
\* (PRUNE_EDGES, PRUNE_FULL, PRUNE_HIGH_DEGREE, CHECKPOINT), which share the
\* queue and its capacity but carry no events.
Jobs == [type : {"ENTITY_BATCH", "PRUNE", "SHUTDOWN"}, events : SUBSET Events]

EntityBatch(S) == [type |-> "ENTITY_BATCH", events |-> S]
PruneJob       == [type |-> "PRUNE", events |-> {}]
ShutdownJob    == [type |-> "SHUTDOWN", events |-> {}]

VARIABLES
  environment,     \* A member of Environments.
  \* Durable: SQLite tables and the graph database.
  row,             \* event_queue: status of each row.
  graph,           \* Events whose entities the writer has written.
  findings,        \* findings table: <<kind, event>>.
  forwarding,      \* forwarding_queue: events whose finding is queued for the fleet.
  \* The process.
  main,            \* "down", "starting" (threads run, the forwarder is not
                   \*   wired yet), "serving", "joining" (shutdown sequence).
  shutdown,        \* The _shutdown event.
  paused,          \* _state["paused"], set from the tray or the dashboard.
  \* Processor thread.
  procPc,          \* "idle", "handle", "respond", "submit", "mark", "prune", "stopped".
  batch,           \* Rows popped and not handled yet.
  event_ids,       \* Ids to mark processed at the end of the cycle.
  entity_batch,    \* Events whose entities go to the graph.
  procTx,          \* The transaction of its connection,
  procSees,        \* and the newest row that the snapshot shows.
  \* Graph write queue and its writer thread.
  writeQ,          \* The queue.Queue of jobs.
  writerPc,        \* "top", "get", "write", "stopped".
  writing,         \* The set of events of the job being written.
  \* Analyzer thread.
  anaPc,           \* "init", "wait", "llm", "respond", "store", "forward", "stopped".
  last_analyzed_id,
  novel_events,    \* Novel events of the cycle, sent to the LLM.
  llm_findings,    \* Findings of the cycle not handled yet, named by their evidence.
  anaTx,           \* The transaction of its connection,
  anaSees,         \* and the processed rows that the snapshot shows.
  \* History, read by the properties only.
  since,           \* last_analyzed_id when the analyzer thread started.
  fetched,         \* Rows the analyzer thread has read.
  blocked,         \* Events whose fast-path response has been triggered.
  owed,            \* Events marked processed in a cycle that sent them to the graph.
  lost,            \* Events of a job that was dropped, failed or died with the process.
  handled,         \* Events the processor has handled at least once.
  repeats,         \* How often it handled an event again.
  faults           \* Faults so far.

tables    == <<row, graph, findings, forwarding>>
procDb    == <<procTx, procSees>>
processor == <<procPc, batch, event_ids, entity_batch, procDb>>
writer    == <<writeQ, writerPc, writing>>
anaDb     == <<anaTx, anaSees>>
analyzer  == <<anaPc, last_analyzed_id, novel_events, llm_findings, anaDb, since, fetched>>
history   == <<blocked, owed, lost, handled, repeats, faults>>

vars == <<environment, tables, main, shutdown, paused, processor, writer, analyzer, history>>

-----------------------------------------------------------------------------
(* Queries on event_queue. *)

Pending   == {e \in Events : row[e] = "pending"}
Processed == {e \in Events : row[e] = "processed"}
Pushed    == {e \in Events : row[e] # "absent"}

\* ORDER BY id ASC LIMIT n.
Lowest(S, n) == {e \in S : Cardinality({f \in S : f < e}) < n}

First(S) == CHOOSE e \in S : \A f \in S : e <= f

Newest(S) == IF S = {} THEN 0 ELSE CHOOSE e \in S : \A f \in S : f <= e

\* A connection that looks at an old snapshot.
Frozen(tx) == tx \in {"pinned", "stale"}

\* The pending rows that the processor's connection shows it: only it marks
\* rows, so those of an old snapshot are pending still.
Visible == {e \in Pending : Frozen(procTx) => e <= procSees}

\* SELECT ... WHERE processed = 0 ORDER BY id LIMIT batch_size: the rows are
\* read, not claimed.
pop_batch == Lowest(Visible, BatchSize)

\* The processed rows that the analyzer's connection shows it.
Readable == IF Frozen(anaTx) THEN anaSees ELSE Processed

\* Variant: the filter on processed is forgotten.
get_rows_since == Lowest({e \in Pending \union Processed : e > last_analyzed_id},
                         AnalyzeLimit)

\* SELECT ... WHERE processed = 1 AND id > last_analyzed_id ORDER BY id LIMIT n.
get_processed_since ==
  Lowest({e \in Readable : e > last_analyzed_id}, AnalyzeLimit)

Up == main # "down"

\* Events on their way from submit() to the graph.
InFlight == writing \union UNION {writeQ[i].events : i \in DOMAIN writeQ}

\* A write finds the database locked, or the process ends with a batch in hand.
Fault == "fault" \in environment /\ faults < MaxFaults

\* The processor holds rows that it has popped and not marked yet.
InHand == procPc \in {"handle", "respond", "submit", "mark"}

Init ==
  /\ environment \in Environments
  /\ row = [e \in Events |-> "absent"]
  /\ graph = {} /\ findings = {} /\ forwarding = {}
  /\ main = "down" /\ shutdown = FALSE /\ paused = FALSE
  /\ procPc = "idle" /\ batch = {} /\ event_ids = {} /\ entity_batch = {}
  /\ procTx = "none" /\ procSees = 0
  /\ writeQ = <<>> /\ writerPc = "top" /\ writing = {}
  /\ anaPc = "init" /\ last_analyzed_id = 0 /\ novel_events = {} /\ llm_findings = {}
  /\ anaTx = "none" /\ anaSees = {}
  /\ since = 0 /\ fetched = {}
  /\ blocked = {} /\ owed = {} /\ lost = {} /\ handled = {}
  /\ repeats = 0 /\ faults = 0

-----------------------------------------------------------------------------
(* Collector thread. *)

\* push_many inserts what the collectors returned in one transaction.  The
\* collector does not look at the pause flag.  (A cycle under way when
\* _shutdown is set may still insert; no thread can tell that from an insert
\* just before _shutdown was set.  A cycle that finds the database locked loses
\* its events; its connection runs no SELECT, so the next INSERT commits.)
Collect ==
  /\ Up /\ ~shutdown
  /\ \E k \in 1..(MaxEvents - Cardinality(Pushed)) :
       row' = [e \in Events |->
                 IF row[e] = "absent" /\ e <= Cardinality(Pushed) + k
                 THEN "pending" ELSE row[e]]
  /\ UNCHANGED <<environment, graph, findings, forwarding, main, shutdown, paused,
                 processor, writer, analyzer, history>>

-----------------------------------------------------------------------------
(* Processor thread. *)

\* A SELECT of the processor.
ProcessorSelects ==
  /\ procTx' = IF procTx = "open" THEN "pinned" ELSE procTx
  /\ procSees' = IF procTx = "open" THEN Newest(Pushed) ELSE procSees

\* A write that commits, and with it what an earlier failure has left open.
ProcessorCommits == procTx # "stale" /\ procTx' = "none" /\ procSees' = 0

\* A write that waits five seconds for the lock in vain.
ProcessorLockedOut ==
  /\ ~Frozen(procTx) /\ procTx' = "open" /\ UNCHANGED procSees
  /\ Fault /\ faults' = faults + 1

\* A write that is refused, because of the snapshot.
ProcessorRefused == Frozen(procTx) /\ procTx' = "stale" /\ UNCHANGED procSees

\* Variant: popping claims the rows, as a queue with several consumers would.
PopAndClaim ==
  /\ Up /\ ~shutdown /\ ~paused
  /\ procPc = "idle" /\ Pending # {}
  /\ batch' = pop_batch
  /\ row' = [e \in Events |-> IF e \in pop_batch THEN "processed" ELSE row[e]]
  /\ procPc' = "handle"
  /\ UNCHANGED <<environment, graph, findings, forwarding, main, shutdown, paused,
                 event_ids, entity_batch, procDb, writer, analyzer, history>>

\* A batch starts only while the agent is neither shutting down nor paused;
\* both are looked at once per cycle.
PopBatch ==
  /\ Up /\ ~shutdown /\ ~paused
  /\ procPc = "idle" /\ Visible # {}
  /\ batch' = pop_batch
  /\ ProcessorSelects
  /\ procPc' = "handle"
  /\ UNCHANGED <<environment, tables, main, shutdown, paused, event_ids, entity_batch,
                 writer, analyzer, history>>

\* An empty batch: a step that matters only if it fixes the snapshot.
PopNothing ==
  /\ Up /\ ~shutdown /\ ~paused
  /\ procPc = "idle" /\ Visible = {} /\ procTx = "open"
  /\ ProcessorSelects
  /\ UNCHANGED <<environment, tables, main, shutdown, paused, procPc, batch,
                 event_ids, entity_batch, writer, analyzer, history>>

\* The event that the loop is at.
Current == First(batch)

\* Once more than the bound on repeats is a violation already.
RepeatCap == BatchSize * MaxFaults + 1

\* The bookkeeping of the properties: e is handled, once more perhaps.
Handled(e) ==
  /\ handled' = handled \union {e}
  /\ repeats' = IF e \in handled /\ repeats < RepeatCap
                THEN repeats + 1 ELSE repeats

\* A match in the IOC feeds is a finding; nothing else depends on it.
ioc_match(e) == IF e \in IocEvents THEN {<<"ioc", e>>} ELSE {}

\* store_finding, for each finding of the event.
store_finding(S) ==
  /\ findings' = findings \union S
  /\ IF S = {} THEN UNCHANGED procDb ELSE ProcessorCommits

\* Variant: the id of an event that ends early is not collected.
FilterWithoutId ==
  /\ Up /\ procPc = "handle" /\ batch # {}
  /\ batch' = batch \ {Current}
  /\ store_finding(IF Current \in Usable THEN ioc_match(Current) ELSE {})
  /\ owed' = owed \ {Current}
  /\ Handled(Current)
  /\ UNCHANGED <<environment, row, graph, forwarding, main, shutdown, paused, procPc,
                 event_ids, entity_batch, writer, analyzer, blocked, lost, faults>>

\* The event ends here and leaves nothing for the graph: normalize() gives
\* None or raises, or nothing is left of its entities after the self filter,
\* the allowlist or the baseline gate.
HandleFiltered ==
  /\ Up /\ procPc = "handle" /\ batch # {}
  /\ event_ids' = event_ids \union {Current}
  /\ batch' = batch \ {Current}
  /\ store_finding(IF Current \in Usable THEN ioc_match(Current) ELSE {})
  /\ owed' = owed \ {Current}
  /\ Handled(Current)
  /\ UNCHANGED <<environment, row, graph, forwarding, main, shutdown, paused, procPc,
                 entity_batch, writer, analyzer, blocked, lost, faults>>

\* Something in the body of the loop raises (store_finding, entity
\* extraction...): the event counts as processed.  (A store_finding that finds
\* the database locked opens a transaction, which the UPDATE at the end of the
\* cycle commits or leaves open in its turn.)
HandleFails ==
  /\ Up /\ procPc = "handle" /\ batch # {} /\ Current \in Usable
  /\ event_ids' = event_ids \union {Current}
  /\ batch' = batch \ {Current}
  /\ \/ store_finding({})
     \/ store_finding(ioc_match(Current))
     \/ ProcessorRefused /\ UNCHANGED findings
  /\ owed' = owed \ {Current}
  /\ Handled(Current)
  /\ UNCHANGED <<environment, row, graph, forwarding, main, shutdown, paused, procPc,
                 entity_batch, writer, analyzer, blocked, lost, faults>>

\* The event passes every filter: its entities join the batch for the graph.
HandleForGraph ==
  /\ Up /\ procPc = "handle" /\ batch # {} /\ Current \in Usable
  /\ event_ids' = event_ids \union {Current}
  /\ entity_batch' = entity_batch \union {Current}
  /\ batch' = batch \ {Current}
  /\ store_finding(ioc_match(Current))
  /\ owed' = owed \union {Current}
  /\ Handled(Current)
  /\ UNCHANGED <<environment, row, graph, forwarding, main, shutdown, paused, procPc,
                 writer, analyzer, blocked, lost, faults>>

\* Variant: the response runs without a stored finding.
BlockWithoutFinding ==
  /\ Up /\ procPc = "handle" /\ batch # {} /\ Current \in Usable
  /\ store_finding(ioc_match(Current))
  /\ procPc' = "respond"
  /\ owed' = owed \ {Current}
  /\ UNCHANGED <<environment, row, graph, forwarding, main, shutdown, paused, batch,
                 event_ids, entity_batch, writer, analyzer, blocked, lost, handled,
                 repeats, faults>>

\* The fast-path blocklist matches: first the finding is stored...
HandleBlocked ==
  /\ Up /\ procPc = "handle" /\ batch # {} /\ Current \in Usable
  /\ store_finding(ioc_match(Current) \union {<<"fast", Current>>})
  /\ procPc' = "respond"
  /\ owed' = owed \ {Current}
  /\ UNCHANGED <<environment, row, graph, forwarding, main, shutdown, paused, batch,
                 event_ids, entity_batch, writer, analyzer, blocked, lost, handled,
                 repeats, faults>>

\* ... then the response engine is triggered; its exceptions are swallowed.
Respond ==
  /\ Up /\ procPc = "respond"
  /\ blocked' = blocked \union {Current}
  /\ event_ids' = event_ids \union {Current}
  /\ batch' = batch \ {Current}
  /\ procPc' = "handle"
  /\ Handled(Current)
  /\ UNCHANGED <<environment, tables, main, shutdown, paused, entity_batch, procDb,
                 writer, analyzer, owed, lost, faults>>

EndOfBatch ==
  /\ Up /\ procPc = "handle" /\ batch = {}
  /\ procPc' = IF entity_batch = {} THEN "mark" ELSE "submit"
  /\ UNCHANGED <<environment, tables, main, shutdown, paused, batch, event_ids,
                 entity_batch, procDb, writer, analyzer, history>>

\* submit(): put_nowait, and a full queue drops the job with a warning.
submit(job) ==
  writeQ' = IF Len(writeQ) < QueueCapacity THEN Append(writeQ, job) ELSE writeQ

SubmitBatch ==
  /\ Up /\ procPc = "submit"
  /\ submit(EntityBatch(entity_batch))
  /\ lost' = IF Len(writeQ) < QueueCapacity
             THEN lost \ entity_batch ELSE lost \union entity_batch
  /\ procPc' = "mark"
  /\ UNCHANGED <<environment, tables, main, shutdown, paused, batch, event_ids,
                 entity_batch, procDb, writerPc, writing, analyzer, blocked, owed,
                 handled, repeats, faults>>

\* Variant: only the events that reached the graph batch are marked.
MarkSubmitted ==
  /\ Up /\ procPc = "mark"
  /\ row' = [e \in Events |-> IF e \in entity_batch THEN "processed" ELSE row[e]]
  /\ ProcessorCommits
  /\ procPc' = "prune"
  /\ event_ids' = {} /\ entity_batch' = {}
  /\ UNCHANGED <<environment, graph, findings, forwarding, main, shutdown, paused,
                 batch, writer, analyzer, history>>

\* One UPDATE marks every id of the cycle.
MarkProcessed ==
  /\ Up /\ procPc = "mark"
  /\ row' = [e \in Events |-> IF e \in event_ids THEN "processed" ELSE row[e]]
  /\ ProcessorCommits
  /\ procPc' = "prune"
  /\ event_ids' = {} /\ entity_batch' = {}
  /\ UNCHANGED <<environment, graph, findings, forwarding, main, shutdown, paused,
                 batch, writer, analyzer, history>>

\* The UPDATE finds the database locked: "Processor cycle failed", the rows
\* stay pending although their job is in the write queue.
MarkFails ==
  /\ Up /\ procPc = "mark"
  /\ ProcessorLockedOut
  /\ procPc' = "idle"
  /\ event_ids' = {} /\ entity_batch' = {}
  /\ UNCHANGED <<environment, tables, main, shutdown, paused, batch, writer, analyzer,
                 blocked, owed, lost, handled, repeats>>

\* The UPDATE is refused.  What comes of that, without end, is not redelivery
\* in the sense of RedeliveryBounded: it is not counted there.
MarkRefused ==
  /\ Up /\ procPc = "mark"
  /\ ProcessorRefused
  /\ procPc' = "idle"
  /\ event_ids' = {} /\ entity_batch' = {}
  /\ handled' = handled \ event_ids
  /\ UNCHANGED <<environment, tables, main, shutdown, paused, batch, writer, analyzer,
                 blocked, owed, lost, repeats, faults>>

\* Variant: retention deletes old rows whether processed or not.
PruneAny ==
  /\ Up /\ procPc = "prune"
  /\ \E cutoff \in 0..MaxEvents :
       row' = [e \in Events |-> IF row[e] \in {"pending", "processed"} /\ e <= cutoff
                                THEN "pruned" ELSE row[e]]
  /\ procPc' = "idle"
  /\ UNCHANGED <<environment, graph, findings, forwarding, main, shutdown, paused,
                 batch, event_ids, entity_batch, procDb, writer, analyzer, history>>

\* Retention: every five minutes at most, processed rows created before the
\* cutoff are deleted.  created_at grows with id, so the cutoff is an id; 0
\* stands for an interval that has not elapsed.
Prune ==
  /\ Up /\ procPc = "prune"
  /\ \E cutoff \in 0..MaxEvents :
       row' = [e \in Events |-> IF row[e] = "processed" /\ e <= cutoff
                                THEN "pruned" ELSE row[e]]
  /\ procPc' = "idle"
  /\ UNCHANGED <<environment, graph, findings, forwarding, main, shutdown, paused,
                 batch, event_ids, entity_batch, procDb, writer, analyzer, history>>

\* The DELETE finds the database locked; the exception is logged, and the next
\* SELECT is pop_batch.
PruneFails ==
  /\ Up /\ procPc = "prune"
  /\ ProcessorLockedOut
  /\ procPc' = "idle"
  /\ UNCHANGED <<environment, tables, main, shutdown, paused, batch, event_ids,
                 entity_batch, writer, analyzer, blocked, owed, lost, handled,
                 repeats>>

\* _shutdown is looked at between two cycles only: a batch in hand is finished.
ProcessorStops ==
  /\ Up /\ shutdown /\ procPc = "idle"
  /\ procPc' = "stopped"
  /\ UNCHANGED <<environment, tables, main, shutdown, paused, batch, event_ids,
                 entity_batch, procDb, writer, analyzer, history>>

ProcessorStep ==
  \/ PopBatch \/ PopNothing \/ HandleFiltered \/ HandleFails \/ HandleForGraph
  \/ HandleBlocked \/ Respond \/ EndOfBatch \/ SubmitBatch \/ MarkProcessed
  \/ MarkFails \/ MarkRefused \/ Prune \/ PruneFails \/ ProcessorStops

-----------------------------------------------------------------------------
(* Reaper thread, as far as the write queue sees it. *)

\* A tier of the reaper submits a job.  (A PRUNE job that finds the queue full
\* is dropped: no state changes.)
ReaperSubmit ==
  /\ "reaper" \in environment /\ PersistentGraph
  /\ Up /\ ~shutdown
  /\ Len(writeQ) < QueueCapacity
  /\ submit(PruneJob)
  /\ UNCHANGED <<environment, tables, main, shutdown, paused, processor, writerPc,
                 writing, analyzer, history>>

-----------------------------------------------------------------------------
(* Graph writer thread. *)

\* while not _shutdown.is_set(): the queue is not looked at once it is set.
WriterLoop ==
  /\ Up /\ PersistentGraph /\ writerPc = "top"
  /\ writerPc' = IF shutdown THEN "stopped" ELSE "get"
  /\ UNCHANGED <<environment, tables, main, shutdown, paused, processor, writeQ,
                 writing, analyzer, history>>

\* q.get(timeout=1.0) returns a job, which may be the sentinel...
WriterGet ==
  /\ Up /\ writerPc = "get" /\ writeQ # <<>>
  /\ writeQ' = Tail(writeQ)
  /\ writing' = Head(writeQ).events
  /\ writerPc' = IF Head(writeQ).type = "SHUTDOWN" THEN "stopped" ELSE "write"
  /\ UNCHANGED <<environment, tables, main, shutdown, paused, processor, analyzer,
                 history>>

\* ... or raises Empty after a second.
WriterEmpty ==
  /\ Up /\ writerPc = "get" /\ writeQ = <<>>
  /\ writerPc' = "top"
  /\ UNCHANGED <<environment, tables, main, shutdown, paused, processor, writeQ,
                 writing, analyzer, history>>

\* The job runs.  Every upsert catches its own exception, so some of a batch
\* may fail; an exception of the job itself is logged.  Neither is retried.
WriterWrite ==
  /\ Up /\ writerPc = "write"
  /\ \E written \in SUBSET writing :
       /\ graph' = graph \union written
       /\ lost' = lost \union (writing \ written)
  /\ writing' = {}
  /\ writerPc' = "top"
  /\ UNCHANGED <<environment, row, findings, forwarding, main, shutdown, paused,
                 processor, writeQ, analyzer, blocked, owed, handled, repeats,
                 faults>>

WriterStep == WriterLoop \/ WriterGet \/ WriterEmpty \/ WriterWrite

-----------------------------------------------------------------------------
(* Analyzer thread. *)

AnalyzerSelects ==
  /\ anaTx' = IF anaTx = "open" THEN "pinned" ELSE anaTx
  /\ anaSees' = IF anaTx = "open" THEN Processed ELSE anaSees

AnalyzerCommits == anaTx # "stale" /\ anaTx' = "none" /\ anaSees' = {}

AnalyzerLockedOut ==
  /\ ~Frozen(anaTx) /\ anaTx' = "open" /\ UNCHANGED anaSees
  /\ Fault /\ faults' = faults + 1

AnalyzerRefused == Frozen(anaTx) /\ anaTx' = "stale" /\ UNCHANGED <<anaSees, faults>>

\* last_analyzed_id = max(0, queue.max_processed_id() - 1000), read once, when
\* the thread starts; the processor may be at work already.
AnalyzerStarts ==
  /\ Up /\ anaPc = "init"
  /\ LET newest == Newest(Processed)
     IN  last_analyzed_id' = IF newest > LookBack THEN newest - LookBack ELSE 0
  /\ since' = last_analyzed_id'
  /\ anaPc' = "wait"
  /\ UNCHANGED <<environment, tables, main, shutdown, paused, processor, writer,
                 novel_events, llm_findings, anaDb, fetched, history>>

\* Variant: the cursor moves only if there was something to analyze.
FetchNovelOnly ==
  /\ Up /\ ~shutdown /\ ~paused
  /\ anaPc = "wait" /\ get_processed_since # {}
  /\ fetched' = fetched \union get_processed_since
  /\ novel_events' \in SUBSET (get_processed_since \intersect Usable)
  /\ last_analyzed_id' = IF novel_events' = {} THEN last_analyzed_id
                                               ELSE Newest(get_processed_since)
  /\ anaPc' = IF novel_events' = {} THEN "wait" ELSE "llm"
  /\ AnalyzerSelects
  /\ UNCHANGED <<environment, tables, main, shutdown, paused, processor, writer,
                 llm_findings, since, history>>

\* A cycle reads the processed rows above the cursor and moves the cursor over
\* all of them before any is analyzed.  Which of them are novel depends on the
\* graph as it is at this moment, so any subset of those that normalize may be;
\* without a graph all are.
AnalyzerFetch ==
  /\ Up /\ ~shutdown /\ ~paused
  /\ anaPc = "wait" /\ get_processed_since # {}
  /\ last_analyzed_id' = Newest(get_processed_since)
  /\ fetched' = fetched \union get_processed_since
  /\ novel_events' \in IF PersistentGraph
                      THEN SUBSET (get_processed_since \intersect Usable)
                      ELSE {get_processed_since \intersect Usable}
  /\ anaPc' = IF novel_events' = {} THEN "wait" ELSE "llm"
  /\ AnalyzerSelects
  /\ UNCHANGED <<environment, tables, main, shutdown, paused, processor, writer,
                 llm_findings, since, history>>

\* No rows: a step that matters only if it fixes the snapshot.
AnalyzerFindsNothing ==
  /\ Up /\ ~shutdown /\ ~paused
  /\ anaPc = "wait" /\ get_processed_since = {} /\ anaTx = "open"
  /\ AnalyzerSelects
  /\ UNCHANGED <<environment, tables, main, shutdown, paused, processor, writer,
                 anaPc, last_analyzed_id, novel_events, llm_findings, since, fetched,
                 history>>

\* analyze_batch: the LLM sees the first LlmCap novel events and answers with
\* findings about some of them; a failure of the call gives none.
AnalyzeBatch ==
  /\ Up /\ anaPc = "llm"
  /\ llm_findings' \in IF LlmConfigured
                      THEN SUBSET Lowest(novel_events, LlmCap) ELSE {{}}
  /\ novel_events' = {}
  /\ anaPc' = IF llm_findings' = {} THEN "wait" ELSE "respond"
  /\ UNCHANGED <<environment, tables, main, shutdown, paused, processor, writer,
                 last_analyzed_id, anaDb, since, fetched, history>>

Finding == First(llm_findings)

\* The next finding of the cycle, or the end of it.
AfterFinding == IF llm_findings' = {} THEN "wait" ELSE "respond"

\* The response engine is asked first: an allowlisted finding is dropped...
AnalyzerSuppress ==
  /\ Up /\ anaPc = "respond"
  /\ llm_findings' = llm_findings \ {Finding}
  /\ anaPc' = AfterFinding
  /\ UNCHANGED <<environment, tables, main, shutdown, paused, processor, writer,
                 last_analyzed_id, novel_events, anaDb, since, fetched, history>>

\* ... any other, or one whose response raised, goes on to be stored.
AnalyzerRespond ==
  /\ Up /\ anaPc = "respond"
  /\ anaPc' = "store"
  /\ UNCHANGED <<environment, tables, main, shutdown, paused, processor, writer,
                 last_analyzed_id, novel_events, llm_findings, anaDb, since, fetched,
                 history>>

AnalyzerStore ==
  /\ Up /\ anaPc = "store"
  /\ AnalyzerCommits
  /\ findings' = findings \union {<<"llm", Finding>>}
  /\ anaPc' = "forward"
  /\ UNCHANGED <<environment, row, graph, forwarding, main, shutdown, paused,
                 processor, writer, last_analyzed_id, novel_events, llm_findings,
                 since, fetched, history>>

\* store_finding raises: "Analyzer cycle failed", the other findings go too.
AnalyzerStoreFails ==
  /\ Up /\ anaPc = "store"
  /\ AnalyzerLockedOut \/ AnalyzerRefused
  /\ llm_findings' = {}
  /\ anaPc' = "wait"
  /\ UNCHANGED <<environment, tables, main, shutdown, paused, processor, writer,
                 last_analyzed_id, novel_events, since, fetched, blocked, owed, lost,
                 handled, repeats>>

\* forward_finding queues it for the fleet server, if there is one and main()
\* has set the forwarder already; an exception of it is logged.
AnalyzerForward ==
  /\ Up /\ anaPc = "forward"
  /\ \/ /\ main # "starting" /\ AnalyzerCommits
        /\ forwarding' = forwarding \union {Finding}
        /\ UNCHANGED faults
     \/ UNCHANGED <<environment, forwarding, anaDb, faults>>
     \/ main # "starting" /\ AnalyzerLockedOut /\ UNCHANGED forwarding
  /\ llm_findings' = llm_findings \ {Finding}
  /\ anaPc' = AfterFinding
  /\ UNCHANGED <<environment, row, graph, findings, main, shutdown, paused, processor,
                 writer, last_analyzed_id, novel_events, since, fetched, blocked,
                 owed, lost, handled, repeats>>

AnalyzerStops ==
  /\ Up /\ shutdown /\ anaPc = "wait"
  /\ anaPc' = "stopped"
  /\ UNCHANGED <<environment, tables, main, shutdown, paused, processor, writer,
                 last_analyzed_id, novel_events, llm_findings, anaDb, since, fetched,
                 history>>

AnalyzerStep ==
  \/ AnalyzerStarts \/ AnalyzerFetch \/ AnalyzerFindsNothing \/ AnalyzeBatch
  \/ AnalyzerSuppress \/ AnalyzerRespond \/ AnalyzerStore \/ AnalyzerStoreFails
  \/ AnalyzerForward \/ AnalyzerStops

-----------------------------------------------------------------------------
(* The user and the main thread. *)

SetPaused ==
  /\ "pause" \in environment
  /\ Up
  /\ paused' = ~paused
  /\ UNCHANGED <<environment, tables, main, shutdown, processor, writer, analyzer,
                 history>>

\* SIGINT, SIGTERM or Quit in the tray.
RequestShutdown ==
  /\ "shutdown" \in environment
  /\ Up /\ ~shutdown
  /\ shutdown' = TRUE
  /\ UNCHANGED <<environment, tables, main, paused, processor, writer, analyzer,
                 history>>

\* main() has started the threads and goes on to wire the forwarder.
MainServes ==
  /\ main = "starting"
  /\ main' = "serving"
  /\ UNCHANGED <<environment, tables, shutdown, paused, processor, writer, analyzer,
                 history>>

\* Variant: the sentinel is put with a blocking put().
ShutDownBlocking ==
  /\ main = "serving" /\ shutdown
  /\ Len(writeQ) < QueueCapacity
  /\ submit(ShutdownJob)
  /\ main' = "joining"
  /\ UNCHANGED <<environment, tables, shutdown, paused, processor, writerPc, writing,
                 analyzer, history>>

\* _wait_for_shutdown returns; the sentinel is submitted like any other job.
MainShutsDown ==
  /\ main = "serving" /\ shutdown
  /\ IF PersistentGraph THEN submit(ShutdownJob) ELSE UNCHANGED writeQ
  /\ main' = "joining"
  /\ UNCHANGED <<environment, tables, shutdown, paused, processor, writerPc, writing,
                 analyzer, history>>

\* The process ends: what is in memory is gone.
LoseMemory ==
  /\ main' = "down" /\ shutdown' = FALSE /\ paused' = FALSE
  /\ procPc' = "idle" /\ batch' = {} /\ event_ids' = {} /\ entity_batch' = {}
  /\ procTx' = "none" /\ procSees' = 0
  /\ writeQ' = <<>> /\ writerPc' = "top" /\ writing' = {}
  /\ anaPc' = "init" /\ last_analyzed_id' = 0 /\ novel_events' = {}
  /\ llm_findings' = {} /\ anaTx' = "none" /\ anaSees' = {}
  /\ since' = 0 /\ fetched' = {}
  /\ lost' = lost \union InFlight
  /\ faults' = IF InHand THEN faults + 1 ELSE faults
  /\ UNCHANGED <<environment, tables, blocked, owed, handled, repeats>>

\* A crash, a kill or a power failure, at any point.
Crash ==
  /\ "crash" \in environment
  /\ Up
  /\ InHand => Fault
  /\ LoseMemory

\* Every thread is joined for five seconds at most; the daemon threads that
\* have not stopped by then die with the process.
Exit ==
  /\ main = "joining"
  /\ InHand => Fault
  /\ LoseMemory

\* The service manager, the watchdog or the user starts the agent again.
Start ==
  /\ main = "down"
  /\ main' = "starting"
  /\ UNCHANGED <<environment, tables, shutdown, paused, processor, writer, analyzer,
                 history>>

MainStep == MainServes \/ MainShutsDown \/ Exit

Next ==
  \/ Collect \/ ProcessorStep \/ ReaperSubmit \/ WriterStep \/ AnalyzerStep
  \/ SetPaused \/ RequestShutdown \/ MainStep \/ Crash \/ Start

Spec == Init /\ [][Next]_vars

\* Each thread is scheduled; nothing makes the user, the collectors, the reaper
\* or the service manager act.
FairSpec ==
  /\ Spec
  /\ WF_vars(ProcessorStep) /\ WF_vars(WriterStep) /\ WF_vars(AnalyzerStep)
  /\ WF_vars(MainStep)

-----------------------------------------------------------------------------
(* Invariants. *)

FindingKinds == {"ioc", "fast", "llm"}

\* Every variable stays in its range: the write queue within its maxsize, the
\* cursor and the saturating counters within the bounds.
TypeOK ==
  /\ environment \in Environments
  /\ row \in [Events -> RowStates]
  /\ graph \subseteq Events
  /\ findings \subseteq FindingKinds \X Events
  /\ forwarding \subseteq Events
  /\ main \in {"down", "starting", "serving", "joining"}
  /\ shutdown \in BOOLEAN /\ paused \in BOOLEAN
  /\ procPc \in {"idle", "handle", "respond", "submit", "mark", "prune", "stopped"}
  /\ batch \subseteq Events /\ event_ids \subseteq Events /\ entity_batch \subseteq Events
  /\ procTx \in Transactions /\ procSees \in 0..MaxEvents
  /\ writeQ \in Seq(Jobs) /\ Len(writeQ) <= QueueCapacity
  /\ writerPc \in {"top", "get", "write", "stopped"}
  /\ writing \subseteq Events
  /\ anaPc \in {"init", "wait", "llm", "respond", "store", "forward", "stopped"}
  /\ last_analyzed_id \in 0..MaxEvents
  /\ novel_events \subseteq Events /\ llm_findings \subseteq Events
  /\ anaTx \in Transactions /\ anaSees \subseteq Events
  /\ since \in 0..MaxEvents /\ fetched \subseteq Events
  /\ blocked \subseteq Events /\ owed \subseteq Events /\ lost \subseteq Events
  /\ handled \subseteq Events
  /\ repeats \in 0..RepeatCap /\ faults \in 0..MaxFaults

\* The rows that have left the pending state form a prefix of the log: with
\* ids handed out in order, one UPDATE per batch and no claim on popped rows, a
\* crash or a failed UPDATE never leaves a pending row behind a processed one.
ProcessedPrefix ==
  \A e, f \in Events :
    e < f /\ row[f] \in {"processed", "pruned"} => row[e] \in {"processed", "pruned"}

\* The analyzer's cursor stands for what it says: no row at or below it is
\* still to be processed (it would never be analyzed), and this thread has read
\* every row since it started, but for those that retention deleted first.
CursorSound ==
  \A e \in Events :
    /\ e <= last_analyzed_id => row[e] \in {"processed", "pruned"}
    /\ since < e /\ e <= last_analyzed_id => e \in fetched \/ row[e] = "pruned"

\* Entities are handed over before their row is marked: an event that passed
\* the filters and is marked processed is in the graph, on its way there, or
\* in a job that was dropped, failed or died with the process, never forgotten
\* in between.
GraphConservation ==
  \A e \in owed :
    row[e] \in {"processed", "pruned"} => e \in graph \union InFlight \union lost

\* Redelivery is bounded: events are handled again only because a crash or a
\* locked database cut a batch short, and then at most that batch (or because
\* the processor is left behind on an old snapshot, see MarkRefused).
RedeliveryBounded == repeats <= BatchSize * faults

\* Enforcement of the fast path leaves evidence behind whatever crash follows:
\* the finding is in the table before the response engine is triggered.
EnforcementIsEvidenced == \A e \in blocked : <<"fast", e>> \in findings

\* The fleet server never hears of a finding that this host does not hold.
ForwardedIsStored == \A e \in forwarding : <<"llm", e>> \in findings

-----------------------------------------------------------------------------
(* The table implements the abstract queue. *)

Table == INSTANCE DurableQueue WITH
           head <- Newest(Pushed),
           done <- Newest({e \in Events : row[e] \in {"processed", "pruned"}}),
           gone <- {e \in Events : row[e] = "pruned"}

\* Whatever the threads do, and whenever the process dies, event_queue behaves
\* as a log that is processed in order and from which only processed rows go.
ImplementsDurableQueue == Table!Spec

-----------------------------------------------------------------------------
(* Liveness, for an agent that stays up and is neither paused nor stopped. *)

Running == main = "serving" /\ ~shutdown /\ ~paused

\* Every event that was pushed is processed: none is popped forever, not even
\* one whose handling raises each time, and the writer gets through its jobs,
\* those that fail included -- unless the processor's connection is left behind on
\* an old snapshot.
EventuallyProcessed ==
  <>[]Running => <>[](Frozen(procTx) \/ (Pending = {} /\ InFlight = {}))

\* The analyzer's cursor reaches every processed row, unless its connection is
\* left behind.
AnalyzerCatchesUp ==
  <>[]Running => <>[](Frozen(anaTx) \/ \A e \in Processed : e <= last_analyzed_id)

\* A shutdown ends, with a full write queue too: the sentinel is submitted
\* without blocking and every join has a timeout.
ShutdownTerminates == main = "serving" /\ shutdown ~> main = "down"

-----------------------------------------------------------------------------
(* What the documents promise and the code does not do. *)

\* "Mark as processed to avoid infinite loop": whatever fails in a cycle, no
\* batch is handled forever, and the events behind it are processed.
NoInfiniteLoop == <>[]Running => <>[](Pending = {})
=============================================================================
