--------------------------- MODULE FleetForwarding ---------------------------
(***************************************************************************)
(* Store-and-forward of findings from an agent to the fleet server: the    *)
(* forwarding_queue table (agent/queue/sqlite_queue.py), the forwarder     *)
(* thread that drains it over gRPC (agent/fleet/forwarder.py) and the      *)
(* ingestion loop of SendFindings (server/grpc_service.py).                *)
(*                                                                         *)
(*  analyzer -> forwarding_queue -> forwarder --SendFindings--> handler    *)
(*                                                                -> Neo4j *)
(*                                                                         *)
(* A call that the client has given up goes on in the server's handler, so *)
(* a retry may run next to the call that it repeats.                       *)
(*                                                                         *)
(* The forwarder thread has an SQLite connection of its own.  A write that *)
(* fails leaves a transaction open on it, as EventPipeline says, and the   *)
(* SELECT of the next cycle fixes the snapshot of that transaction.        *)
(***************************************************************************)
EXTENDS Naturals, FiniteSets

CONSTANTS
  MaxItems,    \* Bound: rows ever pushed onto forwarding_queue.
  BatchSize,   \* batch_size of drain_queue (50).
  RetryMax,    \* settings.fleet_retry_max (5).
  MaxFaults,   \* Bound: ends of the agent process, server restarts, failed UPDATEs.
  Unsendable   \* Rows whose conversion raises: an evidence id that the LLM made
               \*   up does not fit the int32 of the protobuf message.

ASSUME ForwardingAssumption ==
  /\ MaxItems \in Nat
  /\ BatchSize \in Nat \ {0}
  /\ RetryMax \in Nat
  /\ MaxFaults \in Nat
  /\ Unsendable \subseteq 1..MaxItems

Items == 1..MaxItems

Transactions == {"none", "open", "pinned", "stale"}

VARIABLES
  \* forwarding_queue, an SQLite table of the agent.
  pushed,       \* Rows ever inserted: their ids are 1..pushed.
  pending,      \* Rows that are in the table.
  retry_count,
  \* The agent process.
  agent,        \* "down", "registering", "running".
  paused,
  fwdPc,        \* The forwarder thread: "idle", "calling".
  batch,        \* Rows of the call.
  fwdTx,        \* The transaction of its connection,
  fwdSees,      \* and the newest row that the snapshot shows.
  \* The call of the forwarder, and handlers whose client has given up.
  call,         \* "none", "sent", "running", "replied", "broken".
  serving,      \* Findings that the call's handler has still to ingest.
  late,         \* Findings that given-up handlers have still to ingest.
  \* The server's Neo4j.
  host,         \* There is a Host node for this agent: it has registered.
  stored,       \* Finding nodes.
  \* History, read by the properties only.
  attempts,     \* Calls that were sent with a row, up to what matters.
  dropped,      \* Rows deleted after too many retries.
  accepted,     \* Findings that a handler has counted in accepted_count.
  orphaned,     \* Those of them for which there was no Host.
  refused,      \* Findings whose ingestion raised.
  faults

queue   == <<pushed, pending, retry_count>>
process == <<agent, paused>>
fwdDb   == <<fwdTx, fwdSees>>
thread  == <<fwdPc, batch, fwdDb>>
handler == <<call, serving, late>>
neo4j   == <<host, stored>>
history == <<attempts, dropped, accepted, orphaned, refused, faults>>

vars == <<queue, process, thread, handler, neo4j, history>>

Init ==
  /\ pushed = 0 /\ pending = {} /\ retry_count = [i \in Items |-> 0]
  /\ agent = "down" /\ paused = FALSE
  /\ fwdPc = "idle" /\ batch = {} /\ fwdTx = "none" /\ fwdSees = 0
  /\ call = "none" /\ serving = {} /\ late = {}
  /\ host = FALSE /\ stored = {}
  /\ attempts = [i \in Items |-> 0]
  /\ dropped = {} /\ accepted = {} /\ orphaned = {} /\ refused = {} /\ faults = 0

-----------------------------------------------------------------------------
(* The agent: analyzer thread, main thread, user. *)

\* forward_finding, on the analyzer thread: one INSERT.
Forward ==
  /\ agent # "down" /\ pushed < MaxItems
  /\ pushed' = pushed + 1
  /\ pending' = pending \union {pushed'}
  /\ UNCHANGED <<retry_count, process, thread, handler, neo4j, history>>

\* main() creates the forwarder...
Start ==
  /\ agent = "down"
  /\ agent' = "registering"
  /\ UNCHANGED <<queue, paused, thread, handler, neo4j, history>>

\* ... registers once, and starts the forwarder thread whatever came of it: the
\* server may be unreachable, reject the key, or register the agent and the
\* answer may be lost.
Register ==
  /\ agent = "registering"
  /\ agent' = "running"
  /\ host' \in {host, TRUE}
  /\ UNCHANGED <<queue, paused, thread, handler, stored, history>>

SetPaused ==
  /\ agent # "down"
  /\ paused' = ~paused
  /\ UNCHANGED <<queue, agent, thread, handler, neo4j, history>>

\* The process ends, by a crash or an orderly shutdown that waits five seconds
\* at most for the forwarder.  The handler of its call runs on.
Stop ==
  /\ agent # "down" /\ faults < MaxFaults
  /\ agent' = "down" /\ paused' = FALSE
  /\ fwdPc' = "idle" /\ batch' = {} /\ fwdTx' = "none" /\ fwdSees' = 0
  /\ call' = "none" /\ serving' = {} /\ late' = late \union serving
  /\ faults' = faults + 1
  /\ UNCHANGED <<queue, neo4j, attempts, dropped, accepted, orphaned, refused>>

-----------------------------------------------------------------------------
(* The forwarder thread: drain_queue and _send_findings_batch. *)

\* The connection looks at an old snapshot.
Frozen == fwdTx \in {"pinned", "stale"}

\* The rows that it shows: only the forwarder deletes rows.
Visible == {i \in pending : Frozen => i <= fwdSees}

\* SELECT ... ORDER BY id ASC LIMIT batch_size: read, not removed.
pop_forwarding_batch ==
  {i \in Visible : Cardinality({j \in Visible : j < i}) < BatchSize}

Selects ==
  /\ fwdTx' = IF fwdTx = "open" THEN "pinned" ELSE fwdTx
  /\ fwdSees' = IF fwdTx = "open" THEN pushed ELSE fwdSees

\* A write that commits, and with it what an earlier failure has left open.
Commits == fwdTx # "stale" /\ fwdTx' = "none" /\ fwdSees' = 0

\* More calls than this of one row are not told apart.
AttemptCap == RetryMax + 1

\* Variant: the rows are removed when they are popped.
PopAndSend ==
  /\ agent = "running" /\ ~paused /\ fwdPc = "idle" /\ Visible # {}
  /\ pop_forwarding_batch \intersect Unsendable = {}
  /\ batch' = pop_forwarding_batch
  /\ pending' = pending \ batch'
  /\ Selects
  /\ fwdPc' = "calling" /\ call' = "sent"
  /\ attempts' = [i \in Items |-> IF i \in batch' /\ attempts[i] < AttemptCap
                                  THEN attempts[i] + 1 ELSE attempts[i]]
  /\ UNCHANGED <<pushed, retry_count, process, serving, late, neo4j, dropped, accepted,
                 orphaned, refused, faults>>

\* A cycle pops a batch, converts it and calls the server.
SendFindingsBatch ==
  /\ agent = "running" /\ ~paused /\ fwdPc = "idle" /\ Visible # {}
  /\ pop_forwarding_batch \intersect Unsendable = {}
  /\ batch' = pop_forwarding_batch
  /\ Selects
  /\ fwdPc' = "calling" /\ call' = "sent"
  /\ attempts' = [i \in Items |-> IF i \in batch' /\ attempts[i] < AttemptCap
                                  THEN attempts[i] + 1 ELSE attempts[i]]
  /\ UNCHANGED <<queue, process, serving, late, neo4j, dropped, accepted, orphaned,
                 refused, faults>>

\* There is nothing to send, or a payload does not convert and raises out of the
\* cycle, so that the next cycle pops the same batch: a step that matters only
\* if it fixes the snapshot.
PopInVain ==
  /\ agent = "running" /\ ~paused /\ fwdPc = "idle" /\ fwdTx = "open"
  /\ Visible = {} \/ pop_forwarding_batch \intersect Unsendable # {}
  /\ Selects
  /\ UNCHANGED <<queue, process, fwdPc, batch, handler, neo4j, history>>

\* The call is over, for the client.
CallEnds == fwdPc' = "idle" /\ batch' = {} /\ call' = "none" /\ serving' = {}

\* A reply, whatever its accepted_count: mark_forwarded deletes the batch.
MarkForwarded ==
  /\ call = "replied"
  /\ pending' = pending \ batch
  /\ Commits
  /\ CallEnds
  /\ UNCHANGED <<pushed, retry_count, process, late, neo4j, history>>

\* Variant: >= for >.
ExhaustedEarly == {i \in batch : retry_count'[i] >= RetryMax}

\* Rows of the batch that mark_forward_failed deletes.
Exhausted == {i \in batch : retry_count'[i] > RetryMax}

\* mark_forward_failed: every row of the batch counts one retry more, those that
\* had too many are deleted, in one transaction.
mark_forward_failed ==
  /\ retry_count' = [i \in Items |-> IF i \in batch THEN retry_count[i] + 1
                                                    ELSE retry_count[i]]
  /\ pending' = pending \ Exhausted
  /\ dropped' = dropped \union Exhausted

\* Variant: a call that may have reached the server is not counted.
FailsUncounted ==
  /\ call \in {"sent", "running", "broken"}
  /\ CallEnds
  /\ UNCHANGED fwdDb
  /\ late' = late \union serving
  /\ UNCHANGED <<pushed, pending, retry_count, process, neo4j, attempts, dropped,
                 accepted, orphaned, refused, faults>>

\* RpcError: the server is unreachable or gone, or thirty seconds are over.  The
\* handler, if there is one, goes on.
CallFails ==
  /\ call \in {"sent", "running", "broken"}
  /\ mark_forward_failed
  /\ Commits
  /\ CallEnds
  /\ late' = late \union serving
  /\ UNCHANGED <<pushed, process, neo4j, attempts, accepted, orphaned, refused, faults>>

\* The UPDATE or DELETE that ends the call finds the database locked: "Forwarder
\* cycle failed", the batch is sent again.
MarkFails ==
  /\ fwdPc = "calling" /\ ~Frozen /\ faults < MaxFaults
  /\ fwdTx' = "open" /\ UNCHANGED fwdSees
  /\ CallEnds
  /\ late' = late \union serving
  /\ faults' = faults + 1
  /\ UNCHANGED <<queue, process, neo4j, attempts, dropped, accepted, orphaned, refused>>

\* It is refused, because another connection has committed since the snapshot,
\* and so is every later one: the batch is sent until the process ends.
MarkRefused ==
  /\ fwdPc = "calling" /\ Frozen
  /\ fwdTx' = "stale" /\ UNCHANGED fwdSees
  /\ CallEnds
  /\ late' = late \union serving
  /\ UNCHANGED <<queue, process, neo4j, history>>

ForwarderStep ==
  \/ SendFindingsBatch \/ PopInVain \/ MarkForwarded \/ CallFails
  \/ MarkFails \/ MarkRefused

-----------------------------------------------------------------------------
(* The server: the ingestion loop of SendFindings. *)

Receive ==
  /\ call = "sent"
  /\ call' = "running"
  /\ serving' = batch
  /\ UNCHANGED <<queue, process, thread, late, neo4j, history>>

\* ingest_finding: MATCH the Host, MERGE the Finding.  Without a Host the query
\* does nothing, and raises nothing.
Ingest(f) ==
  /\ stored' = IF host THEN stored \union {f} ELSE stored
  /\ accepted' = accepted \union {f}
  /\ orphaned' = IF host THEN orphaned ELSE orphaned \union {f}
  /\ UNCHANGED refused

\* It raises, before or after the MERGE of the Finding; the loop goes on.
IngestFails(f) ==
  /\ stored' \in {stored, IF host THEN stored \union {f} ELSE stored}
  /\ refused' = refused \union {f}
  /\ UNCHANGED <<accepted, orphaned>>

\* The findings of a request are ingested in its order.
IngestNext ==
  /\ call = "running"
  /\ \E f \in serving :
       /\ \A g \in serving : f <= g
       /\ Ingest(f) \/ IngestFails(f)
       /\ serving' = serving \ {f}
  /\ UNCHANGED <<queue, process, thread, call, late, host, attempts, dropped, faults>>

\* So does a handler whose client has given up, of which there may be several.
IngestLate ==
  /\ \E f \in late :
       /\ Ingest(f) \/ IngestFails(f)
       /\ late' = late \ {f}
  /\ UNCHANGED <<queue, process, thread, call, serving, host, attempts, dropped, faults>>

\* SendFindingsResponse, with the number of findings that did not raise.
Reply ==
  /\ call = "running" /\ serving = {}
  /\ call' = "replied"
  /\ UNCHANGED <<queue, process, thread, serving, late, neo4j, history>>

\* The server process ends and another takes its place.
ServerRestarts ==
  /\ call = "running" \/ late # {}
  /\ faults < MaxFaults
  /\ call' = IF call = "running" THEN "broken" ELSE call
  /\ serving' = {} /\ late' = {}
  /\ faults' = faults + 1
  /\ UNCHANGED <<queue, process, thread, neo4j, attempts, dropped, accepted, orphaned,
                 refused>>

ServerStep == Receive \/ IngestNext \/ IngestLate \/ Reply

Next ==
  \/ Forward \/ Start \/ Register \/ SetPaused \/ Stop
  \/ ForwarderStep \/ ServerStep \/ ServerRestarts

Spec == Init /\ [][Next]_vars

\* The forwarder thread is scheduled and each call ends, at its deadline if not
\* before.  Nothing is asked of the server.
FairSpec == Spec /\ WF_vars(ForwarderStep)

-----------------------------------------------------------------------------
(* Properties. *)

TypeOK ==
  /\ pushed \in 0..MaxItems /\ pending \subseteq 1..pushed
  /\ retry_count \in [Items -> 0..(RetryMax + 1)]
  /\ agent \in {"down", "registering", "running"} /\ paused \in BOOLEAN
  /\ fwdPc \in {"idle", "calling"} /\ batch \subseteq Items
  /\ fwdTx \in Transactions /\ fwdSees \in 0..MaxItems
  /\ call \in {"none", "sent", "running", "replied", "broken"}
  /\ serving \subseteq Items /\ late \subseteq Items
  /\ host \in BOOLEAN /\ stored \subseteq Items
  /\ attempts \in [Items -> 0..AttemptCap]
  /\ dropped \subseteq Items /\ accepted \subseteq Items /\ orphaned \subseteq Items
  /\ refused \subseteq Items
  /\ faults \in 0..MaxFaults

\* Store and forward: a finding that was pushed is still in the table, or the
\* server has it or had it in hand, or its retries are used up.  No end of the
\* process, lost answer or restart of the server makes it vanish in between.
NothingVanishes ==
  \A i \in 1..pushed : i \in pending \union stored \union orphaned \union refused \union dropped

\* The oldest rows are tried first: no row has been retried more often than an
\* older one that is still there, so retries are used up from the front.
RetriesInOrder ==
  \A i, j \in pending : i < j => retry_count[i] >= retry_count[j]

\* A finding is given up only after the first call and RetryMax retries.
GivenUpAfterRetries == \A i \in dropped : attempts[i] > RetryMax

\* The queue of an agent that runs is emptied, whether the server answers or not,
\* but for a batch with a finding that cannot be sent, and for a connection that
\* is left behind on an old snapshot.
Drains ==
  <>[](agent = "running" /\ ~paused) =>
    <>[](pending = {} \/ pop_forwarding_batch \intersect Unsendable # {} \/ Frozen)

-----------------------------------------------------------------------------
(* What a comment promises and the code does not do. *)
=============================================================================
