-------------------------- MODULE FederatedQueries --------------------------
(***************************************************************************)
(* Queries from the fleet server to the agents: the xdr_queries table      *)
(* (server/settings_db.py), the Heartbeat call that carries queries to an  *)
(* agent and results back (server/grpc_service.py), and their execution    *)
(* on the agent (agent/fleet/forwarder.py).                                *)
(*                                                                         *)
(*   xdr_queries --Heartbeat reply--> agent --next Heartbeat--> result     *)
(*                                                          --> evidence   *)
(*                                                                         *)
(* Who enqueues a query is not said here: XdrIncidents does.  A query is   *)
(* named by its position in the table.                                     *)
(***************************************************************************)
EXTENDS Naturals, Sequences, FiniteSets

CONSTANTS
  Agents,
  TimedOut,       \* Stands for the handlers whose caller has given up.
  MaxIncidents,   \* Bound: incidents ever created.
  MaxFaults       \* Bound: calls that fail, restarts, exceptions.

ASSUME QueryAssumption ==
  /\ TimedOut \notin Agents
  /\ MaxIncidents \in Nat \ {0}
  /\ MaxFaults \in Nat

\* A query's finding_id is "<incident>:<type>": the traces of a sweep, the pulls
\* of OCSF evidence and the pulls of surveillance logs.
Traces    == {"victim", "source"}
OcsfPulls == {"ocsf_dst", "ocsf_src"}
SurvPulls == {"surv_dst", "surv_src"}

\* A Heartbeat handler is named by the agent that waits for its reply.
Handlers == Agents \union {TimedOut}

Queries ==
  [incident : 1..MaxIncidents, type : Traces \union OcsfPulls \union SurvPulls,
   agent : Agents, status : {"pending", "completed"}]

VARIABLES
  queries,     \* The table xdr_queries.
  evidence,    \* Queries whose records, if any, are in incident_ocsf_evidence
               \*   or incident_surveillance_logs.
  heartbeat,   \* By agent: "idle", "sent" (a handler runs).
  results,     \* By agent: _pending_results, the queries answered, not reported yet.
  serving,     \* By handler: results it has not looked at yet.
  reading,     \* By handler: queries it has found pending, not completed yet.
  storing,     \* By handler: queries it has completed, their records not stored.
  \* History.
  cut,         \* Queries whose handler died between the two.
  faults

agentVars == <<heartbeat, results>>
handlerVars == <<serving, reading, storing>>

queryVars == <<queries, evidence, agentVars, handlerVars, cut, faults>>

QueryInit ==
  /\ queries = <<>> /\ evidence = {}
  /\ heartbeat = [a \in Agents |-> "idle"]
  /\ results = [a \in Agents |-> {}]
  /\ serving = [h \in Handlers |-> {}] /\ reading = [h \in Handlers |-> {}]
  /\ storing = [h \in Handlers |-> {}]
  /\ cut = {} /\ faults = 0

Fault == faults < MaxFaults /\ faults' = faults + 1

-----------------------------------------------------------------------------
(* The table. *)

Pending(q) == queries[q].status = "pending"

\* INSERT, under a new uuid: nothing stops a second query for the same end.
enqueue_xdr_query(i, t, a) ==
  queries' = Append(queries, [incident |-> i, type |-> t, agent |-> a,
                              status |-> "pending"])

get_pending_queries_for_agent(a) ==
  {q \in DOMAIN queries : queries[q].agent = a /\ Pending(q)}

\* The queries for a given end, of which there may be several.
Asked(i, t) == {q \in DOMAIN queries : queries[q].incident = i /\ queries[q].type = t}

has_pending_xdr_query(i, t) == \E q \in Asked(i, t) : Pending(q)

\* Variant (a bug this code does not have): one kind of pull is forgotten.
complete_surveillance_only(q, h) ==
  /\ queries' = [queries EXCEPT ![q].status = "completed"]
  /\ storing' = [storing EXCEPT ![h] = IF queries[q].type \in SurvPulls THEN @ \union {q} ELSE @]

\* UPDATE ... AND status = 'pending': one that somebody has completed since it
\* was read is left as it is, but the metadata, which tell the handler h which
\* records to store, are returned all the same.
complete_xdr_query(q, h) ==
  /\ queries' = [queries EXCEPT ![q].status = "completed"]
  /\ storing' = [storing EXCEPT ![h] = IF queries[q].type \notin Traces THEN @ \union {q} ELSE @]

-----------------------------------------------------------------------------
(* The agent's forwarder thread. *)

\* send_heartbeat: the results leave _pending_results before the call.
SendHeartbeat(a) ==
  /\ heartbeat[a] = "idle"
  /\ heartbeat' = [heartbeat EXCEPT ![a] = "sent"]
  /\ serving' = [serving EXCEPT ![a] = results[a]]
  /\ results' = [results EXCEPT ![a] = {}]
  /\ UNCHANGED <<queries, evidence, reading, storing, cut, faults>>

\* RpcError: the call did not arrive, its reply is lost, or ten seconds are over
\* and the handler, if there is one, goes on.  What the heartbeat carried is not
\* sent again.
HeartbeatFails(a) ==
  /\ heartbeat[a] = "sent" /\ Fault
  /\ heartbeat' = [heartbeat EXCEPT ![a] = "idle"]
  /\ \/ /\ serving' = [serving EXCEPT ![a] = {}, ![TimedOut] = @ \union serving[a]]
        /\ reading' = [reading EXCEPT ![a] = {}, ![TimedOut] = @ \union reading[a]]
        /\ storing' = [storing EXCEPT ![a] = {}, ![TimedOut] = @ \union storing[a]]
     \/ /\ storing[a] = {}
        /\ serving' = [serving EXCEPT ![a] = {}] /\ reading' = [reading EXCEPT ![a] = {}]
        /\ UNCHANGED storing
  /\ UNCHANGED <<queries, evidence, results, cut>>

\* The agent's process ends, with what it had executed.
AgentRestarts(a) ==
  /\ results[a] # {} /\ Fault
  /\ results' = [results EXCEPT ![a] = {}]
  /\ UNCHANGED <<queries, evidence, heartbeat, handlerVars, cut>>

-----------------------------------------------------------------------------
(* The server's Heartbeat handler. *)

\* A handler takes up its results one by one, in their order.  TimedOut stands
\* for several, whose results come in any order (two of them that are at the same
\* query count as one).
NextResults(h) ==
  IF h = TimedOut THEN serving[h]
  ELSE {q \in serving[h] : reading[h] \union storing[h] = {} /\ \A r \in serving[h] : q <= r}

\* complete_xdr_query reads the row first: a query that is not pending any more is
\* passed over.
ReadQuery(h) ==
  /\ \E q \in NextResults(h) :
       /\ serving' = [serving EXCEPT ![h] = @ \ {q}]
       /\ reading' = [reading EXCEPT ![h] = IF Pending(q) THEN @ \union {q} ELSE @]
  /\ UNCHANGED <<queries, evidence, agentVars, storing, cut, faults>>

Complete(h) ==
  /\ \E q \in reading[h] :
       complete_xdr_query(q, h) /\ reading' = [reading EXCEPT ![h] = @ \ {q}]
  /\ UNCHANGED <<evidence, agentVars, serving, cut, faults>>

\* _ingest_surveillance_logs, _ingest_ocsf_evidence: INSERT OR IGNORE.
Ingest(h) ==
  /\ \E q \in storing[h] :
       evidence' = evidence \union {q} /\ storing' = [storing EXCEPT ![h] = @ \ {q}]
  /\ UNCHANGED <<queries, agentVars, serving, reading, cut, faults>>

\* The insert raises ("database is locked"): the call fails, and with it the
\* results that come after; the query stays completed.
IngestFails(h) ==
  /\ Fault
  /\ \E q \in storing[h], others \in SUBSET serving[h] :
       /\ cut' = cut \union {q} /\ storing' = [storing EXCEPT ![h] = @ \ {q}]
       /\ h # TimedOut => others = {}
       /\ serving' = [serving EXCEPT ![h] = others]
  /\ heartbeat' = [a \in Agents |-> IF a = h THEN "idle" ELSE heartbeat[a]]
  /\ UNCHANGED <<queries, evidence, results, reading>>

\* What _apply_config_overrides leaves in _pending_results: each query of the
\* reply is executed, and one that raises is left out.
Answers(a, offered) ==
  /\ heartbeat' = [heartbeat EXCEPT ![a] = "idle"]
  /\ \/ results' = [results EXCEPT ![a] = offered] /\ UNCHANGED faults
     \/ \E q \in offered : results' = [results EXCEPT ![a] = offered \ {q}] /\ Fault

\* Variant: only the agent's latest query is looked at.
ReplyLatest(a) ==
  /\ heartbeat[a] = "sent" /\ serving[a] \union reading[a] \union storing[a] = {}
  /\ Answers(a, {q \in get_pending_queries_for_agent(a) :
                   \A r \in DOMAIN queries : r > q => queries[r].agent # a})
  /\ UNCHANGED <<queries, evidence, handlerVars, cut>>

\* The reply carries every pending query of the agent, delivered before or not.
\* (The agent executes them here: nothing it does then depends on the server,
\* and HeartbeatFails stands for a reply that is lost.)
Reply(a) ==
  /\ heartbeat[a] = "sent" /\ serving[a] \union reading[a] \union storing[a] = {}
  /\ Answers(a, get_pending_queries_for_agent(a))
  /\ UNCHANGED <<queries, evidence, handlerVars, cut>>

HandlerStep(h) == ReadQuery(h) \/ Complete(h) \/ Ingest(h) \/ (h \in Agents /\ Reply(h))

\* The server's process ends: every call breaks.
LoseHandlers ==
  /\ serving' = [h \in Handlers |-> {}] /\ reading' = [h \in Handlers |-> {}]
  /\ storing' = [h \in Handlers |-> {}]
  /\ cut' = cut \union UNION {storing[h] : h \in Handlers}
  /\ heartbeat' = [a \in Agents |-> "idle"]
  /\ UNCHANGED <<queries, evidence, results>>

QueryStep ==
  \/ \E a \in Agents : SendHeartbeat(a) \/ HeartbeatFails(a) \/ AgentRestarts(a)
  \/ \E h \in Handlers : HandlerStep(h) \/ IngestFails(h)

-----------------------------------------------------------------------------
(* Properties. *)

QueryTypeOK ==
  /\ queries \in Seq(Queries)
  /\ evidence \subseteq DOMAIN queries
  /\ heartbeat \in [Agents -> {"idle", "sent"}]
  /\ results \in [Agents -> SUBSET DOMAIN queries]
  /\ serving \in [Handlers -> SUBSET DOMAIN queries]
  /\ reading \in [Handlers -> SUBSET DOMAIN queries]
  /\ storing \in [Handlers -> SUBSET DOMAIN queries]
  /\ cut \subseteq DOMAIN queries
  /\ faults \in 0..MaxFaults

\* A completed pull is never asked again, so its records must not be lost in
\* between: they are stored, being stored, or the server died at that moment.
PullsAreStored ==
  \A q \in DOMAIN queries :
    ~Pending(q) /\ queries[q].type \notin Traces =>
      q \in evidence \union cut \union UNION {storing[h] : h \in Handlers}

\* The calls, handlers and restarts make of each query what the table promises:
\* it is answered once, and from then on its records are in hand until they are
\* stored or lost, also where a query is executed twice, two handlers complete it
\* at the same time, or the server stops between the answer and the records.
Table == INSTANCE QueryTable WITH
  asked <- Len(queries),
  bare <- {q \in DOMAIN queries : queries[q].type \in Traces},
  answered <- {q \in DOMAIN queries : ~Pending(q)},
  held <- UNION {storing[h] : h \in Handlers},
  kept <- evidence,
  lost <- cut

ImplementsQueryTable == Table!Spec

\* Results are cleared before the heartbeat that carries them is known to have
\* arrived; yet whatever gets lost, a query that is pending is offered again and
\* its agent's table of pending queries is emptied again.
QueriesAreAnswered ==
  \A a \in Agents : []<>(get_pending_queries_for_agent(a) = {})
=============================================================================
