--------------------------- MODULE LedgerQueries ----------------------------
(***************************************************************************)
(* The answers of an agent to the queries of the fleet server              *)
(* (agent/graph/federated_queries.py), from the process graph, the         *)
(* forensic ledger (agent/ledger/reader.py) or the flight recorder.        *)
(*                                                                         *)
(* A row is [id, at, type, pid, ip, user]; no two are of the same time.    *)
(***************************************************************************)
EXTENDS Integers, Sequences, FiniteSets, SequencesExt

CONSTANTS
  Absent,           \* A field or filter that is not there.
  Archives,         \* By name: [backend, rows, recorder, kids, built, live, started,
                    \* conns, graph]; live: parent and child; started: when, by pid.
  Queries,          \* [type, pids, ips, users, since, limit, port, at].
  MaxLevels, MaxPids,        \* Of the descendants by the index (10 and 200).
  MaxLiveLevels,             \* Of those by the operating system (3).
  MaxTraced, MaxRecords,     \* Descendants of a trace, and its records (20 and 15).
  PerAddress,                \* Connections of an address (5).
  Day, Hour, Now             \* The window of a trace, of a pull without a filter, the time.

ASSUME LedgerQueriesAssumption ==
  /\ {MaxLevels, MaxPids, MaxLiveLevels, MaxTraced, MaxRecords, PerAddress} \subseteq Nat
  /\ {Day, Hour, Now} \subseteq Nat
  /\ \A name \in DOMAIN Archives :
       LET A == Archives[name]
       IN /\ IsFiniteSet(A.rows) /\ IsFiniteSet(A.recorder) /\ IsFiniteSet(A.kids)
          /\ \A r \in A.rows \union A.recorder : r.at \in Nat
  /\ \A q \in Queries : IsFiniteSet(q.pids) /\ q.limit \in Nat

VARIABLES archive, query, reply

ledgerQueryVars == <<archive, query, reply>>

-----------------------------------------------------------------------------
(* LedgerReader *)

LatestRows(rows, n) == {r \in rows : Cardinality({x \in rows : x.at > r.at}) < n}
EarliestRows(rows, n) == {r \in rows : Cardinality({x \in rows : x.at < r.at}) < n}

\* Variant (a bug this code does not have): ORDER BY ts ASC.
OldestRows(rows, since, limit) ==
  EarliestRows({r \in rows : since = Absent \/ r.at >= since}, limit)

\* query_by_pid, query_by_ip, FlightRecorder.query: ORDER BY ts DESC LIMIT.
QueryRows(rows, since, limit) ==
  LatestRows({r \in rows : since = Absent \/ r.at >= since}, limit)

QueryTimeRange(A, start, end, limit) ==
  LatestRows({r \in A.rows : start <= r.at /\ r.at <= end}, limit)

-----------------------------------------------------------------------------
(* Descendants. *)

ChildrenOf(pids, kids) == {k[2] : k \in {x \in kids : x[1] \in pids}}

\* A level: the children that are new, cut to the room that is left.
NextLevel(t, kids, room) ==
  LET new == ChildrenOf(t.frontier, kids) \ t.all
      space == room - Cardinality(t.all)
      taken == IF Cardinality(new) <= space THEN new
               ELSE IF space <= 0 THEN {}
               ELSE CHOOSE s \in SUBSET new : Cardinality(s) = space
  IN [all |-> t.all \union taken, frontier |-> taken]

\* Level by level while there is room.
Descend(pids, kids, levels, room) ==
  LET after[i \in 0..levels] ==
        IF i = 0 THEN [all |-> pids, frontier |-> pids] ELSE NextLevel(after[i - 1], kids, room)
  IN after[levels].all

\* _resolve_descendant_pids
ResolveDescendantPids(A, pids) ==
  IF A.built THEN Descend(pids, A.kids, MaxLevels, MaxPids) ELSE pids

\* _resolve_children_from_os: of the processes that are alive.
ResolveChildrenFromOs(A, pids) ==
  Descend(pids, A.live, MaxLiveLevels, Cardinality(pids \union {k[2] : k \in A.live})) \ pids

-----------------------------------------------------------------------------
(* Pulls. *)

OfPid(rows, p) == {r \in rows : r.pid = p}
OfIp(rows, a) == {r \in rows : r.ip = a}
OfUser(rows, u) == {r \in rows : r.user = u}

NoFilter(q) == q.pids \union q.ips \union q.users = {}

\* pull_surveillance_logs and pull_ocsf_ledger, which differ in the fields they
\* return.  The reader has no query by user: users are no filter, but with them
\* the query is not one for everything either.
PullFromLedger(A, q) ==
  LET pids == IF q.pids = {} THEN {} ELSE ResolveDescendantPids(A, q.pids)
      start == IF q.since = Absent THEN Now - Hour ELSE q.since
  IN LatestRows(UNION ({QueryRows(OfPid(A.rows, p), q.since, q.limit) : p \in pids}
                       \union {QueryRows(OfIp(A.rows, a), q.since, q.limit) : a \in q.ips}
                       \union IF NoFilter(q) THEN {QueryTimeRange(A, start, Now, q.limit)} ELSE {}),
                q.limit)

\* _pull_from_flight_recorder: one query for all the pids, and one for each of
\* the addresses and users; nothing without a filter.
PullFromFlightRecorder(A, q) ==
  LET pids == IF q.pids = {} THEN {} ELSE ResolveDescendantPids(A, q.pids)
  IN LatestRows(UNION ({QueryRows({r \in A.recorder : r.pid \in pids}, q.since, q.limit)}
                       \union {QueryRows(OfIp(A.recorder, a), q.since, q.limit) : a \in q.ips}
                       \union {QueryRows(OfUser(A.recorder, u), q.since, q.limit) : u \in q.users}),
                q.limit)

Reply(status, records) == [status |-> status, records |-> records]

PullSurveillanceLogs(A, q) ==
  CASE A.backend = "ledger" -> Reply("ok", PullFromLedger(A, q))
    [] A.backend = "recorder" -> Reply("ok", PullFromFlightRecorder(A, q))
    [] OTHER -> Reply("error", {})

PullOcsfLedger(A, q) ==
  IF A.backend = "ledger" THEN Reply("ok", PullFromLedger(A, q)) ELSE Reply("error", {})

-----------------------------------------------------------------------------
(* Traces of lateral movement: records [pid, at]. *)

\* Of each address, the first of the processes that a connection is known of,
\* before the finding and within a day of it; the port is not asked for.
Anchors(A, q) ==
  LET Sessions(a) ==
        {r \in OfIp(A.rows, a) :
           /\ r.type = "NetworkActivity" /\ r.pid # Absent
           /\ q.at = Absent \/ (q.at - Day <= r.at /\ r.at <= q.at)}
  IN UNION {EarliestRows(Sessions(a), 1) : a \in q.ips}

\* Some of them: which, is the order of a set.
SomeOf(pids, n) ==
  IF Cardinality(pids) <= n THEN pids ELSE CHOOSE s \in SUBSET pids : Cardinality(s) = n

\* The first activity of a descendant; of a live one without any, its start.
FirstActivity(A, p) ==
  LET rows == EarliestRows({r \in OfPid(A.rows, p) : r.type = "ProcessActivity"}, 1)
  IN IF rows = {} /\ p \in DOMAIN A.started THEN {[pid |-> p, at |-> A.started[p]]}
     ELSE {[pid |-> r.pid, at |-> r.at] : r \in rows}

\* The connection of an anchor; of a live one, its start.
Session(A, r) == [pid |-> r.pid, at |-> IF r.pid \in DOMAIN A.started THEN A.started[r.pid] ELSE r.at]

\* _trace_from_ledger
TraceFromLedger(A, q) ==
  LET anchors == {r.pid : r \in Anchors(A, q)}
      indexed == ResolveDescendantPids(A, anchors) \ anchors
      below == IF anchors = {} THEN {}
               ELSE IF indexed # {} THEN indexed ELSE ResolveChildrenFromOs(A, anchors)
      found == {Session(A, r) : r \in Anchors(A, q)}
               \union UNION {FirstActivity(A, p) : p \in SomeOf(below, MaxTraced)}
      rows == UNION {LatestRows(OfIp(A.rows, a), PerAddress) : a \in q.ips}
  IN LatestRows(IF found = {} THEN {[pid |-> r.pid, at |-> r.at] : r \in rows} ELSE found, MaxRecords)

\* lateral_victim_trace and lateral_source_trace: what the graph knows of the
\* addresses, or else the ledger.  The graph may be out of reach.
LateralTrace(A, q, direction) ==
  LET Connected(a) == {c \in A.conns : /\ c.ip = a /\ c.direction = direction
                                       /\ q.port = Absent \/ c.port = q.port}
      records == IF A.graph THEN UNION {LatestRows(Connected(a), PerAddress) : a \in q.ips} ELSE {}
  IN IF records # {} THEN {[pid |-> c.pid, at |-> c.at] : c \in records}
     ELSE IF A.backend # "ledger" THEN {}
     ELSE TraceFromLedger(A, IF direction = "inbound" THEN q ELSE [q EXCEPT !.at = Absent])

\* execute_query
ExecuteQuery(A, q) ==
  CASE q.type = "pull_surveillance_logs" -> PullSurveillanceLogs(A, q)
    [] q.type = "pull_ocsf_ledger" -> PullOcsfLedger(A, q)
    [] q.type = "lateral_victim_trace" -> Reply("ok", LateralTrace(A, q, "inbound"))
    [] q.type = "lateral_source_trace" -> Reply("ok", LateralTrace(A, q, "outbound"))
    [] OTHER -> Reply("error", {})

-----------------------------------------------------------------------------
NoQuery == [type |-> "none"]

LedgerQueriesInit ==
  /\ archive \in DOMAIN Archives
  /\ query = NoQuery /\ reply = Reply("none", {})

LedgerQueriesNext ==
  /\ query = NoQuery
  /\ query' \in Queries
  /\ reply' = ExecuteQuery(Archives[archive], query')
  /\ UNCHANGED archive

LedgerQueriesSpec == LedgerQueriesInit /\ [][LedgerQueriesNext]_ledgerQueryVars

-----------------------------------------------------------------------------
(* The processes that come from some, by any number of steps. *)
Known(kids, pids) == {k[1] : k \in kids} \union {k[2] : k \in kids} \union pids
Family(kids, pids) ==
  CHOOSE s \in SUBSET Known(kids, pids) :
    /\ pids \subseteq s /\ ChildrenOf(s, kids) \subseteq s
    /\ \A t \in SUBSET s : pids \subseteq t /\ ChildrenOf(t, kids) \subseteq t => t = s

Wanted(A, q, r) ==
  /\ q.since = Absent \/ r.at >= q.since
  /\ \/ r.pid \in (IF A.built THEN Family(A.kids, q.pids) ELSE q.pids)
     \/ r.ip \in q.ips
     \/ A.backend = "recorder" /\ r.user \in q.users

LatestWanted(A, q) ==
  LatestRows({r \in (IF A.backend = "ledger" THEN A.rows ELSE A.recorder) : Wanted(A, q, r)},
             q.limit)

\* The answer to a pull that names processes or addresses is the latest of what
\* they and their descendants have left behind, however the rows came together
\* from queries of their own ("results merged and deduplicated"), as long as the
\* family can be no larger and no deeper than what is looked for.
PullIsLatest ==
  LET A == Archives[archive]  known == Cardinality(Known(A.kids, query.pids))
  IN /\ query.type \in {"pull_surveillance_logs", "pull_ocsf_ledger"} /\ reply.status = "ok"
     /\ query.pids \union query.ips # {} /\ known <= MaxPids /\ known <= MaxLevels + 1
     => reply.records = LatestWanted(A, query)
=============================================================================
