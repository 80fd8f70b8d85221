# EDR-Graph in TLA+

A verification project for the EDR-Graph agent and its fleet server: TLA+ modules
translated from the Python source, TLC configurations that check small instances of
them, and TLAPS proofs of the properties that matter most for instances of any size.
`PROJECT.json` maps every definition to the lines of code it stands for.

    tlc -workers 2 -config MCEventPipeline_safety.cfg MCEventPipeline
    tlapm EventPipelineProofs.tla

## 1. The system

An *agent* runs on each endpoint as one Python process of many threads. A *fleet
server* collects findings over gRPC, keeps them in Neo4j and its settings in SQLite.

| Part | State | Operations | Interacts through |
|---|---|---|---|
| Collector (`agent/main.py`, `agent/collectors`) | none that lasts | collect, `push_many` | `event_queue` |
| `event_queue`, `findings` (`agent/queue/sqlite_queue.py`) | rows with id and processed flag; a connection, with its transaction, per thread | `push_many`, `pop_batch`, `mark_processed`, `max_processed_id`, `get_processed_since`, `store_finding`, `prune_old_events` | SQLite in WAL mode |
| Processor (`main.py: processor_thread`) | batch in hand, `event_ids`, `entity_batch` | normalize, IOC match, record, filter, fast path, submit, mark, prune | tables, write queue, ledger, response engine |
| Graph write queue and writer (`agent/graph/write_queue.py`, `graph_writer_thread`) | bounded in-memory queue | `submit`, `submit_sync`, run a job | Kuzu graph |
| Reaper (`agent/graph/reaper.py`) | timers | prune edges and nodes, checkpoint | write queue |
| Analyzer (`analyzer_thread`, `agent/analyzer`) | cursor `last_analyzed_id` | fetch, novelty, LLM, respond, store, forward | tables, response engine, forwarder |
| Response engine, approvals (`agent/response`) | mode, rules, pending approvals, audit log | `respond`, `request_approval`, `approve`, `deny` | processor, analyzer, dashboard, fleet |
| Endpoint controls (`agent/response/network_control.py`, `dns_sinkhole.py`, `file_quarantine.py`, `process_control.py`) | what the agent has told the host, in memory; firewall, hosts file, vault | isolate, block, panic, sinkhole, quarantine, suspend and their reverses | response engine, dashboard |
| Entity extractor, filters (`agent/processor`) | caches by pid | extract, self filter, allowlist, baseline gate | processor, rule caches |
| Rule caches (`synchronous_enforcer.py`, `baseline.py`) | compiled rules, refresh time, `_invalidated` | refresh if stale, invalidate | dashboard, fleet rules |
| Graph builder, index, queries (`agent/processor/graph_builder.py`, `agent/graph`) | Kuzu tables, index by pid | write a batch, prune, query, evict | writer, reaper, dashboard, LLM tools |
| LLM analyzer (`agent/analyzer/llm_analyzer.py`, `preflight.py`, `tools.py`) | messages, tool cache, recent findings | analyze a batch, execute a tool call, parse, merge, store | analyzer thread, model (external) |
| Forensic ledger, flight recorder (`agent/ledger/writer.py`, `agent/flight_recorder.py`) | bounded queue, writer thread, table | `record`, insert, prune, `stop` | processor, dashboard |
| Warm graph (`agent/ledger/warm_cache.py`) | current in-memory graph | rebuild, swap | dashboard, LLM tools |
| Fleet forwarder (`agent/fleet/forwarder.py`) | `forwarding_queue`, registration, configuration, query results | register, drain, heartbeat | gRPC |
| Fleet settings (`server/settings_db.py`, `server/dashboard.py`) | keys, agents' keys, tags, overrides, rules, suppressions; a connection per thread | the administrators' requests, resolve an agent's configuration | SQLite in WAL mode, gRPC workers |
| Fleet server ingestion (`server/grpc_service.py`, `server/neo4j_client.py`) | hosts, findings, incidents | `RegisterAgent`, `SendFindings`, `Heartbeat` | gRPC, Neo4j |
| XDR orchestrator (`server/xdr_orchestrator.py`, `server/settings_db.py`) | incidents' status, queries | detect, sweep, activate, pull, close | Neo4j, SQLite, heartbeats |
| Watchdog, tamper detection, enrichment, dashboards | see `PROJECT.json` | | |

**Hard behaviours.** Nine threads share tables and queues; most work is handed over by
marking a row *after* putting a job into a queue that dies with the process. Every
thread loop swallows exceptions and goes on, so a failure of one step leaves state
behind for the next cycle. No caller of SQLite ever rolls back. Shutdown sets one event
that each thread looks at somewhere else, and joins with timeouts. Remote calls have
deadlines after which the server goes on. `PROJECT.json` lists the hazards at their
lines, with the properties that cover them or the reason why none does.

**What makes each part correct.** The table: rows are processed in order and only processed rows are
deleted. The analyzer: no row is skipped by the cursor. The write queue: an event marked processed
is in the graph, on its way, or in a job whose loss was an event of its own. The fast path: no
enforcement without a stored finding. The ledger: each accepted row once, in order, and a stop loses
none that it had in reach. The forwarder: no finding vanishes between host and server; retries are
bounded and fair to the oldest. Queries: offered until answered, completed only with their records
stored. Incidents: asked about in full, and settled in the end. The caches: an invalidation takes
effect. The engine: it does what its mode allows, what was done is recorded, what is reported is in
force. The graph: an event lies at its own process, not at another owner of the pid; what is in the
graph is found through the index; a lineage is one chain of parents. The dialogue with the model: it
ends, one bad entry spoils no other, a finding is anchored in its own process tree. The warm graph:
what is served is whole, and no directory is left behind.

## 2. Modules

| Module | Models | Source |
|---|---|---|
| `DurableQueue` | abstract: a log processed in order | what `event_queue` promises |
| `QueryTable` | abstract: what becomes of a query, and of the records that answer it | what `xdr_queries` promises |
| `EventPipeline` | collector, processor, graph writer, analyzer, main thread, reaper's jobs, the tables, each thread's transaction | `agent/main.py`, `agent/queue`, `agent/graph/write_queue.py` |
| `ForensicLedger` | `record`, the writer thread, `stop`, open transactions | `agent/ledger/writer.py` (and `flight_recorder.py`) |
| `FleetForwarding` | `forwarding_queue`, registration, `drain_queue`, the ingestion loop and late handlers of the server | `agent/fleet/forwarder.py`, `server/grpc_service.py` |
| `FederatedQueries` | `xdr_queries`, the Heartbeat call with queries and results, execution on the agent | `server/settings_db.py`, `server/grpc_service.py`, `agent/fleet/forwarder.py` |
| `XdrIncidents` | detection in `SendFindings`, orchestrator, administrator; composes with `FederatedQueries` | `server/xdr_orchestrator.py`, `server/neo4j_client.py`, `server/dashboard.py` |
| `EndpointControls` | isolation, blocking, panic mode, sinkhole, quarantine, suspension, command by command | `agent/response/network_control.py`, `dns_sinkhole.py`, `file_quarantine.py`, `process_control.py` |
| `ResponseEngine` | from a finding to an action and its row; modes, approvals, pushes, restart; EXTENDS `EndpointControls` | `agent/response/engine.py`, `actions.py`, `approval.py`, `agent/fleet/forwarder.py` |
| `EventFiltering` | extraction, self filter, fast path, allowlist, baseline gate of one event | `agent/processor`, `agent/response/baseline.py` |
| `RuleCaches` | refresh and invalidation of the three caches of rules | `agent/response/baseline.py`, `agent/processor/synchronous_enforcer.py` |
| `ProcessGraph` | caches by pid, batches, reaper, deletion by a rule, index by pid, evicting readers | `entity_extractor.py`, `graph_builder.py`, `agent/graph` |
| `LlmFindings` | preflight and novelty; what becomes of an entry of the model's answer | `llm_analyzer.py`, `preflight.py` |
| `LlmDialogue` | one batch through the model and its tools, parsing, storing; EXTENDS `LlmFindings` | `llm_analyzer.py`, `tools.py`, `tool_cache.py` |
| `GraphQueries` | chain, tree, files, footprint, persistence, attack chain | `agent/graph/queries.py`, `pid_index.py` |
| `LedgerQueries` | an agent's answers to the server's queries | `agent/graph/federated_queries.py`, `agent/ledger/reader.py` |
| `WarmGraph` | rebuild, swap, slices, directories | `agent/ledger/warm_cache.py`, `reader.py`, `slicer.py` |
| `FleetSettings` | the settings database as operators on its tables, the transactions of each thread's connection | `server/settings_db.py` |
| `FleetEnrolment` | registration, heartbeats, administrators' requests, the configuration on its way to the agent; EXTENDS `FleetSettings` | `server/grpc_service.py`, `server/dashboard.py`, `agent/fleet/forwarder.py` |
| `EventPipelineProofs` | proofs of EventPipeline, its refinement of DurableQueue included | |
| `ForensicLedgerProofs` | proofs of ForensicLedger | |
| `XdrIncidentsProofs` | proofs of XdrIncidents with FederatedQueries, their refinement of QueryTable included | |
| `FleetProofs` | proofs of FleetForwarding; of FleetEnrolment with FleetSettings | |
| `ResponseEngineProofs` | proofs of EndpointControls alone and within ResponseEngine | |
| `GraphProofs` | proofs of EventFiltering, RuleCaches and ProcessGraph | |
| `AnalysisProofs` | proofs of WarmGraph, LlmDialogue with LlmFindings, LedgerQueries and GraphQueries | |
| `SequenceLemmas` | induction, recursive functions, sequences: lemmas that the others cite | |
| `MC*` | the modules as TLC instantiates them; `MCHost`, `MCQueries` and `MCForensicLedger` put several side by side | |

### EventPipeline

One action is one step of one thread between two points at which another thread, or the
end of the process, can be seen. Variables carry the names of the code's (`event_ids`,
`entity_batch`, `last_analyzed_id`, `novel_events`); a program counter per thread says
how far its cycle has come. `row` is the status of each row of `event_queue`; ids are
handed out in order, so they stand for `created_at` as well.

* Collector: `Collect` is `push_many`. A cycle that is under way when `_shutdown` is set
  may still insert; no other thread can tell that from an insert just before.
* Processor: `PopBatch`; per event one of `HandleFiltered`, `HandleFails`,
  `HandleForGraph`, `HandleBlocked` and `Respond`; then `SubmitBatch`, `MarkProcessed`,
  `Prune`. Whether an event passes the filters or matches the blocklist is a choice made
  again each time, because rules and baseline change. The IOC finding and the fast-path
  finding of one event are stored in one step: nothing lies between them that another
  thread could tell apart. One IOC finding stands for as many as the event's IOCs.
* Writer: `WriterLoop`, `WriterGet`, `WriterEmpty`, `WriterWrite`. Every upsert of
  `GraphBuilder` catches its own exception, hence the subset.
* Analyzer: `AnalyzerStarts` reads the cursor; `AnalyzerFetch` moves it; `AnalyzeBatch`
  is the LLM; then each finding is answered, stored, forwarded.
* `Crash` keeps `row`, `graph`, `findings`, `forwarding` and loses everything else.
  `Exit` is the end of `main()` after the joins, each with a timeout.

*Connections.* Each thread has its own SQLite connection. Python's driver opens a
transaction before the first INSERT, UPDATE or DELETE; after "database is locked" it is
still open and nobody rolls it back (`procTx`, `anaTx`: `"open"`). The next SELECT then
fixes a snapshot (`"pinned"`). While no other connection commits, a later write may still
succeed; after a commit of another connection it is refused at once, and so is every
later one (`"stale"`). Whether another connection has committed in between is left
open: a write on a pinned snapshot may do either. This over-approximates, and the
properties hold nevertheless. The collector's and the ledger's connections run no
SELECT, so their next write commits what was left open. A `store_finding` of the
processor that finds the database locked leaves a transaction that the UPDATE at the end
of the same cycle settles; only the UPDATE's own failure is counted.

### ForensicLedger

`queue`, `batch`, `view` (the table as the writer's connection sees it, with what it has not
committed) and `ledger` (what is committed). `record()` runs in the processor, which may still be
running when `stop()` is called. `InsertFails` keeps the rows that `executemany` got through in an
open transaction; a later commit, of an insert or of retention, writes them. `InsertRollsBack` is an
error at which SQLite itself rolls back. `stop()` (`Stop`) sets the event; the writer then flushes
one batch, and `Exit` is the end of main() when the writer is done, `ExitLate` when five seconds
were not enough, which counts as a fault. `owed` is what the stop has in reach: the writer's batch
and the first `MaxBatch` rows of the queue at that moment. `left` is what an exit in time leaves
behind. A power failure, against which `synchronous=OFF` gives no guarantee, is not modelled.

### FleetForwarding

`pending`, `retry_count` are the table; `call` is the state of the RPC: `"sent"`,
`"running"` in a handler, `"replied"`, `"broken"` by a restart of the server. A call may
fail in each state but `"replied"`; its handler goes on in `late`. (A reply that is lost
on its way is a failure in state `"running"` with nothing left to serve.) Findings of
`late` are ingested in any order, an over-approximation of several handlers that each
keep their order. `host` says whether the server knows the agent; without it
`ingest_finding` stores nothing and raises nothing. `Unsendable` are payloads at which
the conversion raises. The forwarder's connection is modelled as in EventPipeline.

### FederatedQueries and XdrIncidents

`queries` is the table, in order of insertion; a query's `incident` and `type` are the
two halves of its `finding_id`. `heartbeat[a]` says whether the agent waits for an
answer. A handler is named by the agent that waits for it; when the agent gives up, what
the handler has left to do moves to the handler `TimedOut`, which stands for all of
these. `serving` are the results a handler has not taken up, `reading` a query whose row it
has found pending, `storing` a pull it has completed and not yet stored. The SELECT and the
UPDATE of `complete_xdr_query` are two steps, and the UPDATE's count of rows is not looked at
(`settings_db.py:763`): a handler whose caller has given up and a new one may both complete a
query and both store its records, which `INSERT OR IGNORE` makes harmless. `TimedOut` goes
through what it has left in any order; two of its handlers at the same query count as one.
`Reply` takes in the execution on the agent, which depends on nothing
else; `results` is `_pending_results`. A reply that is lost, or refused, is
`HeartbeatFails`. A query that raises on the agent is not answered; it is offered again.
What a query finds, and whether it is anything at all, is abstracted. `Table` is the mapping
to `QueryTable`: a query is `held` as long as some handler has its records in `storing`.

`XdrIncidents` EXTENDS it. `incidents` are the nodes; `pc`, `todo`, `step` the
orchestrator's thread: its phase, the rows it read when the phase began (one row *per
source finding*, as the query joins them) and how many queries it has dealt with for the
first row. Every status is written without a condition on the present one. Time enters
as `TimePasses` (`query_timeout` is over) and as choices: an incident is stale, a pull is
due, a campaign is older than twelve hours (only after `query_timeout`). `detect[d]` is a
thread of `SendFindings` between two calls of Neo4j. A finding matches at most one other
host. For vertical movement `update_incident_status(.., "detected")` runs again after the
creation (`RetypeVertical`). The administrator closes incidents at any moment and asks
for logs; the request looks at the status first and enqueues later.

### EndpointControls and ResponseEngine

`firewall`, `hosts`, `vault` and `home` are the host's; `isolated`, `blocked`, `panic`,
`sinkholed` are what the objects of `agent/response` remember. A call (`job[t]`) is a list
of commands, run one at a time (`RunCommand`, `CommandFails`), followed by what the method
does at its end; a failed command may take effect all the same (a timeout). `clean` holds
as long as no two calls have met on one resource and no command has taken effect late:
nothing locks, and the races of check and act are in the model but outside of
`ReportedIsInForce`. A restart empties the memory and keeps the host; `DnsSinkhole` alone
reads back what it has written. `ResponseEngine` lets the processor's fast path and the
analyzer run through `handle_finding`: `CheckLearning`, `CheckRules`, one action after
another, its row after the action (`RecordOutcome`). `PushConfig`, `PushToEngine`,
`PersistMode`, `PushAuto` are the steps of a configuration push, between which the agent
may restart or a write fail; a mode that `set_mode` refuses stays in the settings, and the
engine and the file do not hear of it. For `ModeIsObeyed`, `heard` keeps for each alert the
modes the engine was in from the moment it was raised until its mode was read a second time,
and `familiar` the alerts of behaviour that was learned by then.

### EventFiltering, RuleCaches and ProcessGraph

`EventFiltering` is one event in one behaviour: pure operators translated from the
extractor, the self filter and the rule matching, and a stage each for the filters as
`_processor_loop` calls them. A glob, a CIDR or a value is the set of what it matches.
`ChainMatch` is the recursive matcher of chain patterns, compared with the definition
"there are positions of the chain, in order, ..." (`ChainMatchedBy`); the compiled buckets
of the fast path are compared with the plain `_match_rule`.

`RuleCaches` has rules as versions, so that "sees the change" is an inequality. A refresh is
read, load, install under the lock that each of the three classes has, with the second look at
the time after taking it; invalidations come without the lock, at any time, also while a load
runs, and may then be lost.

`ProcessGraph` is the graph without its attributes: nodes `<<pid, second>>`, edges with the
event they stand for, the extractor's caches by pid, the write queue's jobs and the index. The
index is told of what was written and deleted after the statement (`unindexed`), and a reader
looks up, then asks the graph, then evicts; `raced` is what was written again in between.
`PurgeFails` is a deletion by a rule that raises part way: the index is not told of what is gone
by then (`untold`), and keeps it until a reader meets it. A pid is used anew by another process
in the same or a later second.

### LlmFindings and LlmDialogue

`AnalyzeBatch` enriches and asks; the model is external: `ModelCallsTools`, `ModelAnswers`
with one of the inquiry's `answers`, whose entries are well-formed, partial or malformed,
`ModelFails`. Each call of a turn is executed in order (`ExecuteTool`), a call of no known
tool or with bad arguments is answered by an error. Only a text that is no JSON is caught when
the arguments are read; a call without a text (`Unreadable`) raises TypeError, which ends the
analysis without findings (`UnreadableCall`). After `MaxIterations` the model is asked without
tools. An entry is skipped, updates a finding, or becomes one (`NewFinding` with the
anchor, merge and chain of `LlmFindings`); `StoreFindings` goes through them. What a tool
answers, and all prose, is data. `UpsertIpEnrichment` is the writer's merge of the
enrichment that the analyzer has submitted.

### GraphQueries, LedgerQueries and WarmGraph

`GraphQueries` takes a view of an agent (`V`: nodes, ghosts of the index, whether the index is
built, what the ledger and the operating system know) and asks one query of it. `Hop` is one
level of `get_process_chain` with its fallbacks in order; `Descent` goes down from one node,
`Subtree` to the depth that `get_process_tree` allows. `FileActivity` merges one limited query
for each kind of edge and each node of the pid (`FileOps`). A query evicts the ghosts it meets
from the index, which changes what the next one sees. `LedgerQueries` does the same for an
archive and a query of the server; `QueryRows` is the one SELECT all pulls go through,
`ResolveDescendantPids` the search downwards by index or operating system.

`WarmGraph` is the thread: `BeginRebuild` (the window is shorter the first time), `ExportRows` reads
the rows of the window in the order of their time, which need not be that of their insertion,
`LoadTables` loads each table (and may fail for one), `Swap`, `RemoveOld`. `BeginRebuildFails` is a
directory that cannot be made, which is before the `try`. `OpenSlice` and `CloseSlice` are the
analyzer's transient graph. A served graph is what it was made of; its nodes and edges are `Export`
of these rows, with the deduplication and the cap of the reader. `stray` are directories that a
process has left behind when it died, or nobody took over; a start removes those older than an hour.

### FleetSettings and FleetEnrolment

`db` is what is committed, `conn[t]` the connection of a thread: `"none"`, `"begun"` (a write
was refused; the driver had begun), `"pinned"` (a SELECT after that fixed a snapshot, `view`),
`"stale"` (another thread has committed since: every write is refused), `"writing"` (a
statement raised with the lock in hand). `Writes`, `Refused` and `Raises` are the ends a
write may come to. `Overrides` folds the rows in the order of priority and name, as the loop
over the query does; `Wanted` says what that must come to without an order of rows.

`rpc[w]` is what a worker of gRPC serves; each SELECT of a handler is a step, because each
reads for itself (three of them for the rules: `ReadEnabledRules`, `ReadCustomRules`,
`ReadTagRules`). `waits` is FALSE when the agent has given up or restarted: the handler goes
on and writes. `ReadAgentKey`, `ReadKeyStatus`, `ValidateKey`, `Admit` are RegisterAgent
(validation is a SELECT and, for a key that is new to the agent, the counting UPDATE);
`KnowsAgent` to `ReplyConfig` are Heartbeat, with the key to sign with read first. A signature is
the key it was made with; `ApplyConfig` checks it against the agent's own. `request[t]` is an
administrator's: those in `LooksFirst` read before they write. A scene gives the tables to
begin with, the requests to come and the keys an agent may be restarted with.

## 3. Runs

| Run | Checks | Instance | States |
|---|---|---|---|
| `pipeline_safety` | `CursorSound`, `GraphConservation`, `RedeliveryBounded`, `EnforcementIsEvidenced`, implements `DurableQueue` | 3 rows, batches of 2, write queue of 1, one fault, crashes, reaper | 1.2 M |
| `pipeline_live` | `EventuallyProcessed`, `AnalyzerCatchesUp`, `ShutdownTerminates` | 2 rows, LLM, write queue of 1; a user who pauses and resumes and one locked write, or the reaper's jobs and a user who stops the agent | 0.17 M |
| `transactions` | `RecordedInOrder`, `NothingForgotten`, `QueueDrains`; `SeatsAreLimited`, `RevokedStaysOut`, `PolicyArrives` | one of two parts in each behaviour. The ledger: 4 records, queue of 3 and batches of 2, two faults. The settings, in eight scenes: two agents and one seat; a key revoked or deleted; tags, overrides, rules, suppressions; one restart, one deadline, one failure of Neo4j where the scene is about it | 0.39 M |
| `fleet` | `NothingVanishes`, `GivenUpAfterRetries`, `Drains` | 3 findings, batches of 2, one retry, two faults, one unsendable | 0.35 M |
| `xdr_sweep` | `SweptIsAsked`, `DetectedIsSettled`, `QueriesAreAnswered`, implements `QueryTable` | two agents, one finding, one fault, the four queries of a sweep (and those of sweeps begun again) | 0.44 M |
| `xdr_watch` | `PullsDoNotPileUp` | one agent, two findings of one incident, pulls up to 6 queries, one request for logs, no fault | 4.6 M |
| `host` | `ChainsAreMatched`, `FastPathAgrees`; `RulesAreFresh`; `IndexCoversGraph`, `EventOnItsProcess`; `ReportedIsInForce`, `EvidenceIsKept`, `ModeIsObeyed`, `ActedIsRecorded`, `RestartKeepsMode` | one of four parts in each behaviour: 5,000 cases of filtering; each cache under two changes and a failed load; histories of three pids; the response on three operating systems, in scenes of findings, rules and modes (an invalid one too) with sets of calls by two threads, one fault | 2.0 M |
| `queries` | `LineageHolds`; `PullIsLatest`; `ServedIsWhole`, `DirectoriesAreCleared`, `RowsAreServed`; `GoodIsHeard`, `AnchoredInTree`, `DialogueEnds` | one of four parts in each behaviour: views with reused pids; archives; two scripts of rows for the warm graph, one failure or end of the process; four inquiries of the model, two rounds of tool calls, one fault | 0.26 M |
| `no_infinite_loop` | violated: `NoInfiniteLoop` | one locked write | |
| `lock_let_go` | violated: `LockIsUnderWay` | the scenes of the settings in `transactions` | |
| `stop_flushes` | violated: `StopFlushes` | 3 records, batches of 2, no fault | |
| `passive_enforces` | violated: `PassiveNeverEnforces` | the instance of `host` | |

**Bounds.** `MaxEvents`, `MaxRecords`, `MaxItems` bound what ever enters; `MaxFaults` bounds faults;
`Environments` are sets of acts of the environment, of which a behaviour considers one, so that a
run spends its states on its question. Three rows in batches of two give a full batch, a partial
batch, a row inserted behind a popped batch and a restart in the middle of one. A write queue of one
job is full after one submit, and the reaper can be the one that fills it. Two findings more than a
batch, and one retry, give rows of different retry counts in one batch. One incident is enough for
the hazards of its life, since the rows of a phase are dealt with one by one and queries of
different incidents meet only in an agent's set of pending ones; the races of two handlers that
create two incidents need `MaxIncidents = 2`, and no property is about them. Six queries are a sweep
and room for a second pull at the same end. The runs of several modules (`host`, `queries`,
`transactions`) choose their case in Init, from lists in the MC modules, each made for a branch of
the code; a variable `part` says which module a behaviour is about, and the others stay as they are,
so the state spaces add up and do not multiply. Limits of the code are scaled down so that an input
can lie on both sides of them (two files instead of ten, two children instead of 25, a ledger's
queue that is longer than a batch). Of the two scripts of the warm graph one has an edge that is
recorded again below the export's cap, and one a row that is written late and a row that has left
the window before a rebuild comes to it. The clock of `RuleCaches` runs for an interval and a half,
that of `WarmGraph` for one window: a change, a load it is missed by, and the next load. In
`FleetEnrolment` the scene carries its own bounds (`restarts`, `timeouts`, `faults`) and the threads
that take part. Six directories are more than can be in use at once. Every invariant, action
property and refinement of the passing runs is proved without these bounds (section 4).

**Fairness.** Each thread is a daemon thread that the interpreter schedules and that never
blocks without a timeout (`q.get(timeout=1.0)`, `_shutdown.wait`, `busy_timeout` of five
seconds, RPC deadlines), so weak fairness of the thread's steps is what the code gives;
main() joins with timeouts, hence weak fairness of `MainStep`. Nothing is assumed of users,
collectors, reaper, service manager, fleet server, or of which choice a step makes. For
queries and incidents the heartbeats, the Heartbeat handlers that an agent waits for and the
orchestrator's loop are weakly fair; findings, the administrator and the clock are not, and
nothing is assumed of a handler whose caller has given up. For registration and
configuration gRPC's workers and the forwarder's heartbeats are weakly fair. The analyzer's
turn is weakly fair and includes the model's answer, which the SDK turns into an exception
when it does not come; what it answers is left open. The rebuild thread of the warm graph
and the closing of a slice (a `with` block) are weakly fair, its clock is bounded. Liveness
speaks of an agent that stays up (`Running`, or `agent = "running" /\ ~paused`), or of a
bounded number of faults: with endless crashes nothing can be promised.

**What the passing runs show.** Whatever crashes: no pending row lies behind a processed one, so the
cursor of the analyzer may be a row id; no event that passed the filters is forgotten between the
table and the graph without its job having been dropped, failed or killed; redelivery costs at most
a batch per fault; enforcement is evidenced. A running agent makes progress unless a connection has
been left behind on an old snapshot, an exception that the liveness properties state and that
`no_infinite_loop` shows to be real. The ledger never duplicates or reorders; what was in the
writer's hands or within one batch at a stop is in the table when the process ends, and without a
fault nothing else is lost but what was queued behind that batch or came later. An incident is
"sweeping" or "active" only with its four queries in the table, wherever the server stopped and
whichever status was overwritten; results that a lost heartbeat took along are asked for again; a
detected incident reaches "active" or "closed"; a query is answered once, and its records are lost
only if the insert failed or the server stopped at that moment; pulls do not pile up for an agent
that is away. For an alert that it has looked at in learning mode only the engine does nothing, and
in active mode nothing against the allowlist or the baseline that the blocklist does not force; what
it has done has a row but for one per fault and thread; the agent does not call isolated, blocked or
cut off what is not, as long as calls do not meet; no quarantined file is lost but one whose name
another file has. A changed rule is seen after the interval and one load at the latest, lost
invalidations included. The index covers the graph but for the one race it names; an event whose
process is alive lies at that process. A dialogue with the model ends; a well-formed entry is not
lost to a malformed one. A lineage is one chain of parents, bounded in time while there is an index.
The warm graph serves whole exports, leaves no directory behind while the agent runs, and serves
what was recorded within its window in the end. No key admits more agents than it has uses,
whichever handlers count at once or come late; a revoked key admits nobody, on an old snapshot
neither; and what an administrator wants of an agent arrives, if the server knows the agent by the
key it runs with and no worker's connection has been left in a transaction.

**What the violated runs show** (details in `PROJECT.json`, "findings"). `no_infinite_loop`: one
"database is locked" can leave the processor on an old snapshot on which no UPDATE succeeds; it
handles the same batch, response actions included, until the process restarts. The analyzer and the
forwarder have the same exposure. `lock_let_go`: a request that a constraint refuses (a tag that
exists, a suppression twice, a tag deleted in between, a color that is none) ends without a
roll-back; its thread keeps the settings' write lock until it writes again or ends, and every other
thread's writes fail meanwhile, registrations among them. `stop_flushes`: `LedgerWriter.stop()`
"flushes remaining events" (`writer.py:140`), but its flush is one batch of 512 rows; what is queued
behind them is lost without a warning, in a stop in which nothing fails. `passive_enforces`: with
`auto_respond` configured the engine suspends and blocks in passive mode, for an alert it has looked
at in no other mode; `README.md` (148, 427, 479) and `docs/ARCHITECTURE/pipeline.md:209` of the
repository say that passive mode never enforces. It is even less careful than active mode, since
allowlist and baseline are asked in active mode only (`engine.py:227`).

**Observations.** Seen in the code while it was translated. The modules contain these
behaviours; the properties are stated so as to allow them, and name the exception.

*Pipeline, ledger, fleet.* A row that the fast path has matched is marked processed, so the
analyzer reads it all the same (README.md:180 and `main.py:279` say it skips the LLM). The
writer leaves its loop on `_shutdown`, which is set before the sentinel is submitted, and
drains nothing (`main.py:1537` says it does). Registration is tried once; findings of an
unregistered agent are acknowledged, stored nowhere, and deleted by the agent
(`forwarder.py:161`). The orchestrator writes "sweeping" over "closed" when the incident was
closed while it enqueued the queries. An incident with two source findings is swept twice, because
`get_incidents_by_status` returns it twice. A pull of surveillance logs returns the latest
`limit` records and the next one starts behind them, so older ones are never fetched. A
failure to store one finding drops the rest of the analyzer's cycle, one in the fast path
skips the response.

*Settings.* A failure of Neo4j after the key was counted costs a use. An agent whose key is
revoked keeps its mapping, and is sent configurations for as long as it runs. A
RegisterAgent handler that outlives its caller may write the key that the agent had before
its restart: its configurations are then signed with a key it rejects, until it registers
again. "database is locked" is none of the exceptions that Heartbeat catches around
`complete_xdr_query`: the call fails and the results it carried are gone until the queries
are offered again. The parts of a configuration are read in separate statements; one that
mixes old and new may be applied until the next heartbeat.

*Response.* A panic isolation that fails halfway leaves its OUTPUT rule, and `panic_restore`
refuses because panic mode is not on; so does the first rule of an isolation on Linux. A
restart forgets firewall rules and quarantine records. The sinkhole removes lines by
substring, and two calls read and write the hosts file over each other. The quarantine's
names collide within a second. An approved request has no step that executes it, and two
concurrent decisions overwrite each other. The mode of the dashboard and that of the
settings diverge; a mode file that could not be written is not written again by the next
push of the same mode. A pushed mode that `set_mode` refuses stays in the settings. A pushed
`auto_respond` reaches the settings and never the policy that decides (`PushAuto`). `respond()`
reads the mode twice: an alert for which it changes to learning in between is acted on, and
nothing is learned from it. `sshd` is not among the protected names, nor is a "vetoed" response
in the code, both of which the docs mention.

*Rules and graph.* `add_allowlist_rule` purges before it invalidates,
`delete_allowlist_rule` never invalidates. A failed load leaves the fast path without rules
for an interval. The extractor's caches of users, command lines and containers are not
invalidated when a pid is used anew. Deduplication of a batch keeps the last row of a node
and may lose a parent that an earlier one knew.

*Analyzer.* A tool cache is "created fresh per `analyze_batch()`", but there are two. The
preflight's fallback for "no SPAWNED edges at all" is never reached; every login is novel. A JSON
`true` counts as pid 1. A tool call without a text of arguments raises a TypeError that nothing near
it catches (`llm_analyzer.py:221`): the batch is over without findings. An update of a finding is
neither answered nor forwarded. An error of the geolocation still yields a job for the graph.

*Queries.* The parent's incarnation is the latest before the event, not before the child's start.
Without an index the time of the event is ignored, although the docstring says that it bounds the
lookup. The children of a pid may be those of another incarnation. Pulls by user name alone return
nothing (`query_by_username` does not exist, `federated_queries.py:386`). A ledger trace takes the
earliest session where its docstring says the closest before, and ignores direction and port. A
trace of more descendants than it keeps cuts its own anchor off first. The export at its cap drops
updates of edges it has. `TransientGraph.__enter__` leaves its directory when it raises; a rebuild
that fails between `mkdtemp` and its `try` (`warm_cache.py:111`) leaves its own until a start finds
it stale; `WarmGraph.stop()` leaves a graph behind when a rebuild takes longer than its ten seconds;
an old graph's directory is removed while a reader may still hold its connection.

Each property of a passing run has a mutant in `PROJECT.json`: a variant of one action,
defined next to it and marked as such, under which TLC finds the property violated.

## 4. Proofs

Every theorem is about the specification of its module without bounds: any number of events,
agents, keys, incidents and faults, and any archive, rule, chain or batch that satisfies the
assumptions. All invariants, action properties and refinements of the passing runs are proved.
Some more are proved and not among the runs' properties, TLC's time going to those that a step
of several actors could break: `TypeOK` and `ProcessedPrefix` of EventPipeline,
`ForwardedIsStored`, `TypeOK` and `RetriesInOrder` of FleetForwarding, the type invariants of
XdrIncidents and ForensicLedger, `PullsAreStored` of FederatedQueries and `Accounted` of
QueryTable, `NodesStayIndexed` and `FilesAreLatest` of GraphQueries, `RulesNeverGoBack` of
RuleCaches, `IndexNamesGraph` of ProcessGraph, the endpoint controls alone, and that commits
build on the latest tables.

**Assumptions.** TLC evaluates each of them on the run of its module.

* `PipelineAssumption`, `ForwardingAssumption`, `QueryAssumption`, `LedgerAssumption`: the
  ranges of the constants.
* `ControlsAssumption`: a file is not called None; a sinkholed domain occurs in its own line.
  `EngineAssumption`: processor and analyzer are two threads; configurations and evidence have
  the fields that the code reads.
* `SettingsAssumption`, `EnrolmentAssumption`: the tables a scene begins with are ones the
  server can have: of the right columns, and with no key that has more agents than counted
  uses, or more uses than its maximum.
* `CachesAssumption`: loads take at most `MaxLoad`, and the interval is longer than zero. With
  an interval of zero `RulesAreFresh` is false: a rule may change in the moment of the load.
* `GraphAssumption`: pids are positive, histories have their fields.
* `FilterAssumption`: rules are of the types that `VALID_RULE_TYPES` lists, name no absent
  value, and a pattern has at least one part, being split at its ">"; of the process of an
  event a chain is known.
* `WarmAssumption`, `FindingsAssumption`, `DialogueAssumption`: rows, batches and answers are
  sequences; a time is a number; a node has one kind; the lineage of a process ends with it.
* `LedgerQueriesAssumption`: archives and the pids of a query are finite.
* `QueriesAssumption`: views, and the files of their nodes, are finite, and times and parents
  in them numbers; an order of nodes is a sequence; a query for files returns at least as many
  rows as are shown, as in the code, where both limits are ten.

**EventPipeline.** One chain of inductive invariants, each used by the next.

* `TypeOK` and `PcInv` (what each thread holds at each program counter).
* `LogInv` adds `RowsInOrder` (the rows form three consecutive stretches: left pending,
  pending, absent) and `BatchIsPendingPrefix` (the rows in the processor's hands, the ids
  it has collected and the rest of its batch, are the lowest pending rows). The second is
  what makes the first inductive: one UPDATE of `event_ids` must not leave a hole.
  `LogInv` gives `ProcessedPrefix`.
* `SnapshotInv`: what the analyzer's snapshot shows is a subset of the rows processed or
  pruned that has no gap but for pruned rows. With `RowsOnlyAdvance` (no step takes a
  row back) it gives `CursorSound`, on an old snapshot too.
* `GraphInv`: what is owed is accounted for at each program counter of the processor
  between handling and mark; the cases of `submit` on a full queue are the point.
* `EvidenceInv`, `ForwardInv`: a finding is in the table from the counter on at which
  the thread moved past storing it.
* `RedeliveryInv`: `repeats` is bounded by the faults so far, plus what the batch in hand
  repeats, which is at most a batch and counted as a fault if it is cut short.
* `TableIsDurableQueue`: with the mapping `head`, `done`, `gone` each step is an
  `Insert`, a `Mark`, a `Delete` or a stutter, by `LogInv`.

The proofs also cover `PersistentGraph = FALSE`, for which no run exists.

**ForensicLedger.** `LedgerInv`: every place a row goes through is increasing and lies before the
next. For a stop it follows what is owed: until the final flush is written, an owed row is on its
way in the batch or among the rows of the queue that the batch has room for. The committed table is
held against batch and queue on its own, since a roll-back brings back rows that the view has
already deleted; what the view lacks of it was pruned.

**FleetForwarding.** `FleetInv`: what the call's state says about batch and handler
(`CallInv`), the batch being the oldest pending rows (`BatchIsOldest`), and the accounts of
retries, attempts and served findings. It contains `NothingVanishes`, `RetriesInOrder` and
`GivenUpAfterRetries`.

**FleetEnrolment.** The point is `ConnInv`: a transaction that can still commit has read the
tables as they are now, so that no commit overwrites another. On it rest `SeatInv` (the
agents that a key has admitted or is admitting are counted before they are admitted), and
`BarredInv` (a worker that got past the check of a revoked key did so on an old snapshot, on
which it cannot write). `WaitInv` ties each waiting call to its agent.

**XdrIncidents.** `XdrInv` follows the orchestrator's loop: what it has gone through of a
sweep is asked (`SweepInv`), the rows of its other phases were read from incidents that had
been asked about in full, whatever their status is by now (`RowsInv`); pulls are bounded by
the manual requests counted so far, the one under way among them (`PullsInv`). The queries'
table only grows. The refinement of QueryTable (`QueriesAreATable`) needs the types of `XdrInv`
only: each step of a handler, of the orchestrator and of the administrator is one of the
table's or a stutter. Its invariant is proved on the table, and carried over by the mapping
(`AnswersAreAccountedFor`).

**EndpointControls, ResponseEngine.** `ControlsInv`: types; a file lies under its name or in
the vault under its basename (`VaultInv`); and, as long as no two calls for one resource have
met, that they are apart, that what is tracked is in force or a caller is about to put it
there (`NetworkInv`), and that a copy of the hosts file is the file (`HostsInv`). The engine
leaves it intact, its steps being steps of the controls or touching none of their variables.
`EngineInv`: between the steps of a push the settings are ahead of the file (`PushInv`); what
a thread has done has its row before its next action (`ActedInv`), hence at most two actions,
one for each thread, are unrecorded per fault (`LostInv`). `HeardInv`: while a response has not
read its mode a second time, the present mode is among those its alert was heard in; what it
then goes on to do was decided in one of them, and with the lists and the baseline of that
moment (`ModesAreObeyed`). The policy is the configuration's.

**EventFiltering.** `PatternsMatchPieces` compares the recursion of `_match_chain_recursive`
with its meaning for chains and patterns of any length: what is left of a chain from a
position matches the last parts of a pattern exactly if it can be cut into one piece for each
part. Both directions add or take off the first cut. `BucketsAgree` goes through the types of
rules: what a bucket compares is what the attributes of the event give `_match_rule`.

**RuleCaches.** `CacheInv`: the versions that a load has read are no older than its beginning,
those of the cache no older than its refresh less the longest load, and the lock is held by
the only thread that loads. A rule is then missed only by loads that began before it, the
interval passes, and the next access loads again. Hence, too, no load replaces rules by older
ones (`CachesNeverGoBack`).

**ProcessGraph.** `CoverInv`: what the index lacks of the graph is what the writer has just
added (or what a reader evicted at that moment); what it has just deleted is not in the graph.
`NamesInv` is the converse: what the index names is in the graph, about to be taken from the
index, or left there by a deletion that failed, and a pid that it names as a child has an id
(`IndexHasFewGhosts`). `NumberInv`, `AttributedInv`: an event whose process was there when it
was processed goes to that process's node in the batch, in each job of the queue and in the
graph.

**WarmGraph.** `DirectoryInv`: what the thread holds at each of its steps; every directory is
served, being built, left over, held by a slice, or a stray. `WholeInv` says that what is
loaded or served is an export of some rows; that an export is whole is a statement about its
recursion over the records (a node is kept as the last or most recent record of it, an edge
as the first with its ends until the table is full and as the last since). The rows are in the
order of their time because each is inserted in its place (`InsertedInOrder`).

**LlmDialogue.** `HeardInv`: the entries left are the answer's last, and of those dealt with
as many are unheard as there were faults. `ChainInv`: batches are of events of the inquiry,
findings whose chain is not the lineage of their trigger are as few as the faults.

**LedgerQueries.** `DescentIsFamily`: each level of `_resolve_descendant_pids` that finds
something adds at least one pid, so that after as many levels as there are processes it has
found them all. `LatestOfEnough`: any part of the rows that has the latest `n` has the same
latest `n`; the merged answers of single queries are such a part.

**GraphQueries.** `QueriesInv` says what an answer under way is. Upwards (`OnTheWay`): the chain
so far is one of parents, names each process once, and the next hop is a pid that it has not
visited. Downwards (`Grown`): with whatever depth is left, a descent adds unvisited pids only,
and none of the chain above, by induction on the depth. The index (`InIndex`) keeps the nodes of
the graph, because a query evicts what the graph does not have. What is left of it for a pid is
therefore all nodes of the pid, and the files shown are the latest of all by `LatestOfEnough`.

**Recursion.** The provers cannot instantiate an induction principle with a predicate.
`SetInduction` and `RecursionExists` of `SequenceLemmas` state induction and the existence of
a recursive function with sets and functions as parameters, which they can. Each recursive
function of the models has a lemma that it satisfies its own equation.

**What the proofs found about the models.** The cases of `Edited` overlapped: what a CASE with
two true arms is, is left open, and a bound on uses could not rest on it. With a reload interval
of zero `RulesAreFresh` is false. A batch without duplicates has the order of the first rows of
its nodes and the values of the last ones, as Python's dictionary has (`Deduplicated`). What the
warm graph serves of a node is determined only if an id has one kind. That one handler at a time
has the records of a query in hand could not be proved: the model had taken the SELECT and the
UPDATE of `complete_xdr_query` for one step. They are two, and two handlers may complete the
same query. The answer to a pull is complete only if the family is no *deeper* than the ten
levels that are followed, besides being no larger than 200, which `PullIsLatest` now says; no
archive of the run is deep enough to show it. That the files shown are the latest rests on the
limit of a single query being no smaller than that of the answer, which the assumptions now say.
`ChainMatch`, `NodeDict`, `EdgeDict`, `InWindow` and `Descend` and the walks of `GraphQueries`
were rewritten as recursive functions, the operators of `LedgerQueries` as functions of the
archive, in order to be reasoned about.

**Only model-checked.** Liveness (`EventuallyProcessed`, `AnalyzerCatchesUp`,
`ShutdownTerminates`, `QueueDrains`, `PolicyArrives`, `Drains`, `DetectedIsSettled`,
`QueriesAreAnswered`, `RowsAreServed`, `DialogueEnds`): fairness and ENABLED are outside the
prover.

## 5. Not modelled

Modelled and not spoken of by any property, so that each operation of its component is there:
`EnrichmentLookups` and `UpsertIpEnrichment` (which addresses are looked up and what of the
answer is kept), `LateralTrace` and `TraceFromLedger` (what a trace of lateral movement finds).

What `PROJECT.json` lists as not modelled or partly, with the reason. Of the modelled parts:

* the content of events, findings, rules and prompts; normalization of platform events;
  command lines and their parsing in the endpoint controls; the answers of the LLM's tools;
  serialization of a graph for the prompt and the columns of the warm graph's CSV files;
* queries that are one statement without a decision (statistics, `get_ioc_summary`, the
  histories of a domain and of a file), metrics and logging;
* a single upsert of a process node that fails (`graph_builder.py:201`): node and entry of the
  index are then both missing. The index is told of a batch at its end, where the code tells it
  node by node: a reader finds a node of the batch a little later than in the code;
* of the graph: `submit_sync` and its timeout, the prune of nodes of high degree,
  `purge_baselined_edges`, `backfill_parent_pids`, CHECKPOINT;
* of the fleet: `SendEvents`, which has no producer in the agent's threads; follow-on links and
  assessments of incidents; transactions that the connections of `FederatedQueries` and
  `XdrIncidents` leave open (those of settings and registration are modelled); expiry of a
  key, which is one more way for it not to be valid; users, logins, the creation of keys, the
  server's own settings and its clock; the diamond investigator; pages that only read;
* the watchdog's heartbeat files and backoff, tamper detection, the platform services, IOC
  feeds and the rule compiler;
* the flight recorder's instance of ForensicLedger (`WaitsWhenFull = FALSE`), which no run
  uses; its query is in `LedgerQueries`.

## 6. Plan

1. The modules of section 2, their runs, and the proofs of section 4 (done).
2. An abstract specification of a cache (a rule is seen after a delay) that `RuleCaches`
   implements, as `FederatedQueries` does `QueryTable`.
3. `submit_sync` callers of the write queue; rules pushed by the server (`FleetEnrolment`)
   composed with `RuleCaches`; the watchdog.
