---------------------------- MODULE ProcessGraph ----------------------------
(***************************************************************************)
(* The process graph of an agent: how an event is attributed to a process  *)
(* and its parent and user (agent/processor/entity_extractor.py and its    *)
(* caches by pid), how a batch is written (graph_builder.py by the graph   *)
(* writer thread of main.py), what the reaper (graph/reaper.py) and the    *)
(* rules (graph/cleanup.py) take away again, the index by pid that the     *)
(* queries start from (graph/pid_index.py) and the readers of the process  *)
(* fields (graph/queries.py), which evict what they do not find.           *)
(*                                                                         *)
(* A process is <<pid, second it started>>: that is also the id of its     *)
(* node, but for the host's name.  Addresses, domains and files are        *)
(* targets; registry keys, ports and attributes are left out.              *)
(***************************************************************************)
EXTENDS Naturals, Sequences, FiniteSets, SequencesExt

CONSTANTS
  PidSet, Users, Targets,
  Unset,        \* A pid that is not in a cache.
  Histories,    \* What is looked at, one in each behaviour: the processes that start,
                \* as records [pid, parent, user], what the collectors see of them, the
                \* jobs that delete, and how many events, such jobs and queries there are.
  Readers,      \* Threads that query the graph.
  PageSize,     \* Rows the orphan cleanup looks at at a time.
  Ttl,          \* Age an edge is pruned at.
  MaxJobs,      \* Capacity of the write queue.
  MaxTime       \* Bound of the clock.

ASSUME GraphAssumption ==
  /\ PidSet \subseteq Nat \ {0} /\ PageSize \in Nat \ {0} /\ MaxJobs \in Nat \ {0}
  /\ Ttl \in Nat /\ MaxTime \in Nat
  /\ Histories \subseteq
       [starts : SUBSET [pid : PidSet, parent : Nat, user : Users],
        sources : SUBSET {"psutil", "ebpf", "plain"}, events : Nat,
        jobs : SUBSET {"edges", "full", "rule"}, prunes : Nat, reads : Nat]

VARIABLES
  history,      \* A member of Histories: [starts, sources, events, jobs, prunes, reads].
  clock,        \* The second it is.
  alive,        \* By pid: the process that has it, or Gone.
  feed,         \* Events not yet processed.
  seen,         \* All events so far, by their number.
  createTime, ppidOf, userOf,  \* Caches by pid: a value, 0 if not to be found, or Unset.
  batch,        \* Entities of the processor's batch.
  queue,        \* The write queue.
  nodes,        \* Process nodes in the order of their creation: [id, parent].
  users, targets,              \* The other nodes, in order: <<user>>, <<target>>.
  edges,        \* [ev, from, to, at], between the ids of nodes.
  index,        \* PidIndex: by pid, its node ids.
  kids,         \* PidIndex: by pid, the pids that have had it as their parent.
  unindexed,    \* What the writer has yet to tell the index: nodes it wrote and deleted.
  read,         \* By reader: the ids it has got from the index, or NoRead.
  prunes, reads,
  \* History.
  known,        \* By event: its process was alive when the event was processed.
  untold,       \* Nodes that a job deleted before it failed, while the index names them.
  raced         \* Ids that a reader evicted though they were in the graph.

hostVars == <<history, clock, alive, feed, seen>>
cacheVars == <<createTime, ppidOf, userOf, batch, known>>
dbVars == <<nodes, users, targets, edges>>
indexVars == <<index, kids, unindexed, untold>>
readVars == <<read, reads, raced>>
graphVars == <<hostVars, cacheVars, queue, dbVars, indexVars, readVars, prunes>>

Gone == [born |-> 0]
NoRead == [pid |-> 0]
Nobody == "nobody"
Synced == [added |-> <<>>, deleted |-> {}]

GraphInit ==
  /\ history \in Histories /\ clock = 1
  /\ alive = [p \in PidSet |-> Gone] /\ feed = <<>> /\ seen = <<>>
  /\ createTime = [p \in PidSet |-> Unset] /\ ppidOf = [p \in PidSet |-> Unset]
  /\ userOf = [p \in PidSet |-> Unset]
  /\ batch = <<>> /\ queue = <<>>
  /\ nodes = <<>> /\ users = <<>> /\ targets = <<>> /\ edges = {}
  /\ index = [p \in PidSet |-> {}] /\ kids = [p \in PidSet |-> {}] /\ unindexed = Synced
  /\ read = [r \in Readers |-> NoRead] /\ prunes = 0 /\ reads = 0
  /\ known = <<>> /\ untold = {} /\ raced = {}

-----------------------------------------------------------------------------
(* The host. *)

Start(h) ==
  /\ h \in history.starts /\ alive[h.pid] = Gone
  /\ ~\E i \in DOMAIN seen : seen[i].pid = h.pid /\ seen[i].born = clock
  /\ alive' = [alive EXCEPT ![h.pid] = [born |-> clock, parent |-> h.parent, user |-> h.user]]
  /\ history' = [history EXCEPT !.starts = @ \ {h}]
  /\ UNCHANGED <<clock, feed, seen>>

Exit(p) ==
  /\ alive[p] # Gone /\ alive' = [alive EXCEPT ![p] = Gone]
  /\ UNCHANGED <<history, clock, feed, seen>>

GraphTick ==
  /\ clock < MaxTime /\ clock' = clock + 1
  /\ UNCHANGED <<history, alive, feed, seen>>

\* A collector sees a process do something.  The polls of psutil say when the
\* process started, its parent and its user; the probes of eBPF say the time they
\* ran as the time it started; the others name the pid alone.
Observe(p, source, to) ==
  /\ Len(seen) < history.events /\ alive[p] # Gone
  /\ LET a == alive[p]
         e == [ev |-> Len(seen) + 1, pid |-> p, born |-> a.born, at |-> clock, to |-> to,
               created |-> CASE source = "psutil" -> a.born [] source = "ebpf" -> clock
                             [] OTHER -> 0,
               parent |-> IF source = "plain" THEN 0 ELSE a.parent,
               user |-> IF source = "psutil" THEN a.user ELSE Nobody]
     IN feed' = Append(feed, e) /\ seen' = Append(seen, e)
  /\ UNCHANGED <<history, clock, alive>>

-----------------------------------------------------------------------------
(* entity_extractor *)

\* Variant (a bug this code does not have): the cache before the live process.
StartTimeCached(e) ==
  IF e.created > 0 THEN e.created
  ELSE IF createTime[e.pid] \notin {Unset, 0} THEN createTime[e.pid]
  ELSE IF alive[e.pid] # Gone THEN alive[e.pid].born
  ELSE e.at

\* _resolve_start_time: of the live process; of the cache; of the event.
StartTime(e) ==
  IF e.created > 0 THEN e.created
  ELSE IF alive[e.pid] # Gone THEN alive[e.pid].born
  ELSE IF createTime[e.pid] \notin {Unset, 0} THEN createTime[e.pid]
  ELSE e.at

CreateTimeOf(e) ==
  IF e.created > 0 THEN createTime[e.pid]
  ELSE IF alive[e.pid] # Gone THEN alive[e.pid].born
  ELSE IF createTime[e.pid] = Unset THEN 0 ELSE createTime[e.pid]

\* The pid has another process than the cache says: its parent is forgotten.
Recycled(e) ==
  /\ e.created = 0 /\ alive[e.pid] # Gone
  /\ createTime[e.pid] \notin {Unset, 0, alive[e.pid].born}

\* _enrich_process_node: the parent the event says, of the cache, or of the live
\* process; the cache keeps the first.
ParentOf(e) ==
  LET cached == IF Recycled(e) THEN Unset ELSE ppidOf[e.pid] IN
  IF e.parent > 0 THEN e.parent
  ELSE IF cached # Unset THEN cached
  ELSE IF alive[e.pid] # Gone THEN alive[e.pid].parent ELSE 0

CachedParent(e) ==
  LET cached == IF Recycled(e) THEN Unset ELSE ppidOf[e.pid] IN
  IF cached = Unset THEN ParentOf(e) ELSE cached

\* _extract_user_for_process; this cache is never invalidated.
UserOf(e) ==
  IF e.user # Nobody THEN e.user
  ELSE IF userOf[e.pid] # Unset THEN userOf[e.pid]
  ELSE IF alive[e.pid] # Gone THEN alive[e.pid].user ELSE Nobody

\* The next event of the processor's batch: its entities.
ProcessEvent ==
  /\ feed # <<>>
  /\ LET e == Head(feed)  p == e.pid  id == <<p, StartTime(e)>> IN
     /\ batch' = Append(batch, [node |-> [id |-> id, parent |-> ParentOf(e)],
                                user |-> UserOf(e), to |-> e.to, ev |-> e.ev, at |-> e.at])
     /\ createTime' = [createTime EXCEPT ![p] = CreateTimeOf(e)]
     /\ ppidOf' = [ppidOf EXCEPT ![p] = CachedParent(e)]
     /\ userOf' = [userOf EXCEPT ![p] = IF @ = Unset THEN UserOf(e) ELSE @]
     /\ known' = Append(known, e.created = 0 /\ alive[p] # Gone /\ alive[p].born = e.born)
  /\ feed' = Tail(feed)
  /\ UNCHANGED <<history, clock, alive, seen>>

-----------------------------------------------------------------------------
(* write_queue: submit drops what does not fit. *)

Submit(j) == queue' = IF Len(queue) < MaxJobs THEN Append(queue, j) ELSE queue

SubmitBatch ==
  /\ batch # <<>> /\ Submit([type |-> "batch", load |-> batch])
  /\ batch' = <<>>
  /\ UNCHANGED <<createTime, ppidOf, userOf, known>>

\* The reaper thread by memory pressure, and the dashboard: jobs that delete.
SubmitPrune(type, x) ==
  /\ prunes < history.prunes /\ prunes' = prunes + 1
  /\ Submit([type |-> type, load |-> x])

-----------------------------------------------------------------------------
(* GraphBuilder._write_batch_unlocked *)

Ids(ns) == {ns[i].id : i \in DOMAIN ns}

Put(ns, n) ==
  IF n.id \in Ids(ns) THEN [i \in DOMAIN ns |-> IF ns[i].id = n.id THEN n ELSE ns[i]]
  ELSE Append(ns, n)

\* The dict of a batch: a process once, where it came first, as it came last.
Deduplicated(load) ==
  LET dict[i \in 0..Len(load)] ==
        IF i = 0 THEN <<>> ELSE Put(dict[i - 1], load[i].node)
  IN dict[Len(load)]

\* MERGE: a node is created, or its parent is set if one is known.
Upsert(ns, n) == IF n.id \in Ids(ns) /\ n.parent = 0 THEN ns ELSE Put(ns, n)

UpsertAll(ns, merged) ==
  LET after[i \in 0..Len(merged)] ==
        IF i = 0 THEN ns ELSE Upsert(after[i - 1], merged[i])
  IN after[Len(merged)]

Insert(s, x) == IF x \in Range(s) THEN s ELSE Append(s, x)

\* SPAWNED edges lead from a user, the others to a target.
WriteBatch(load) ==
  LET merged == Deduplicated(load)
      names == SelectSeq([i \in DOMAIN load |-> load[i].user], LAMBDA u : u # Nobody)
      things == SelectSeq([i \in DOMAIN load |-> load[i].to], LAMBDA x : x \in Targets)
  IN /\ nodes' = UpsertAll(nodes, merged)
     /\ users' = FoldLeft(Insert, users, [i \in DOMAIN names |-> <<names[i]>>])
     /\ targets' = FoldLeft(Insert, targets, [i \in DOMAIN things |-> <<things[i]>>])
     /\ edges' = edges \union
          UNION {{[ev |-> x.ev, from |-> <<u>>, to |-> x.node.id, at |-> x.at] :
                    u \in {x.user} \ {Nobody}} \union
                 {[ev |-> x.ev, from |-> x.node.id, to |-> <<t>>, at |-> x.at] :
                    t \in {x.to} \intersect Targets} : x \in Range(load)}
     /\ unindexed' = [added |-> merged, deleted |-> {}]

-----------------------------------------------------------------------------
(* reaper and cleanup *)

Ends(es) == UNION {{e.from, e.to} : e \in es}

\* _cleanup_orphaned_nodes_batched for one label: a page is read, its nodes
\* without an edge are deleted, and the next page starts after those that are
\* left -- of a Process; the other labels skip as many rows as the page had.
Sweep(rows, ends, isProcess) ==
  LET Page(acc, k) ==
        IF acc.done THEN acc
        ELSE LET page == SubSeq(acc.rows, acc.offset + 1,
                                Min({acc.offset + PageSize, Len(acc.rows)}))
                 orphans == {x \in Range(page) : x \notin ends}
             IN [rows |-> SelectSeq(acc.rows, LAMBDA x : x \notin orphans),
                 offset |-> acc.offset + PageSize -
                              (IF isProcess THEN Cardinality(orphans) ELSE 0),
                 done |-> Len(page) < PageSize]
  IN FoldLeft(Page, [rows |-> rows, offset |-> 0, done |-> FALSE],
              [k \in 1..(Len(rows) + 1) |-> k]).rows

OnlyNodes(ids) ==
  LET kept[i \in 0..Len(nodes)] ==
        IF i = 0 THEN <<>>
        ELSE IF nodes[i].id \in ids THEN Append(kept[i - 1], nodes[i]) ELSE kept[i - 1]
  IN kept[Len(nodes)]

\* _prune_edges, then the orphans.
PruneEdges(ttl) ==
  /\ edges' = {e \in edges : e.at + ttl >= clock}
  /\ unindexed' = Synced /\ UNCHANGED <<nodes, users, targets>>

PruneFull(ttl) ==
  LET left == {e \in edges : e.at + ttl >= clock}
      ids == Sweep([i \in DOMAIN nodes |-> nodes[i].id], Ends(left), TRUE)
  IN /\ edges' = left
     /\ targets' = Sweep(targets, Ends(left), FALSE)
     /\ nodes' = OnlyNodes(Range(ids))
     /\ users' = Sweep(users, Ends(left), FALSE)
     /\ unindexed' = [added |-> <<>>, deleted |-> Ids(nodes) \ Range(ids)]

\* purge_by_rule: the nodes of a target, or of the processes of a pid, with
\* their edges.
PurgeByRule(x) ==
  LET hit == {id \in Ids(nodes) \union Range(targets) : id[1] = x} IN
  /\ edges' = {e \in edges : e.from \notin hit /\ e.to \notin hit}
  /\ nodes' = OnlyNodes(Ids(nodes) \ hit)
  /\ targets' = SelectSeq(targets, LAMBDA t : t \notin hit)
  /\ unindexed' = [added |-> <<>>, deleted |-> hit \intersect Ids(nodes)]
  /\ UNCHANGED users

\* One of the deletions of processes raises: those before it are done, and the
\* index is not told.
PurgeFails(p) ==
  /\ \E gone \in SUBSET {id \in Ids(nodes) : id[1] = p} :
       /\ edges' = {e \in edges : e.from \notin gone /\ e.to \notin gone}
       /\ nodes' = OnlyNodes(Ids(nodes) \ gone)
       /\ untold' = untold \union gone
  /\ UNCHANGED <<users, targets, unindexed>>

\* graph_writer_thread: one job, then the index.
WriteJob ==
  /\ queue # <<>> /\ unindexed = Synced
  /\ queue' = Tail(queue)
  /\ LET j == Head(queue) IN
     \/ j.type = "batch" /\ WriteBatch(j.load) /\ UNCHANGED untold
     \/ j.type = "edges" /\ PruneEdges(j.load) /\ UNCHANGED untold
     \/ j.type = "full" /\ PruneFull(j.load) /\ UNCHANGED untold
     \/ j.type = "rule" /\ PurgeByRule(j.load) /\ UNCHANGED untold
     \/ j.type = "rule" /\ PurgeFails(j.load)
  /\ UNCHANGED <<index, kids>>

\* on_upsert
OnUpsert(added) ==
  /\ index' = [p \in PidSet |-> index[p] \union {id \in Ids(added) : id[1] = p}]
  /\ kids' = [p \in PidSet |->
                kids[p] \union {added[i].id[1] : i \in {j \in DOMAIN added : added[j].parent = p}}]
  /\ UNCHANGED untold

\* Variant (a bug this code does not have): all nodes of the pid are forgotten.
RemovePids(ids) ==
  /\ index' = [p \in PidSet |-> IF index[p] \intersect ids = {} THEN index[p] ELSE {}]
  /\ UNCHANGED <<kids, untold>>

\* remove_nodes: a pid with no node left is no child of anyone.
RemoveNodes(ids) ==
  LET left == [p \in PidSet |-> index[p] \ ids]
      empty == {p \in PidSet : index[p] # {} /\ left[p] = {}}
  IN /\ index' = left /\ kids' = [p \in PidSet |-> kids[p] \ empty]
     /\ untold' = untold \ ids

UpdateIndex ==
  /\ unindexed # Synced /\ unindexed' = Synced
  /\ \/ unindexed.added # <<>> /\ OnUpsert(unindexed.added)
     \/ unindexed.deleted # {} /\ RemoveNodes(unindexed.deleted)

-----------------------------------------------------------------------------
(* _query_process_fields: ids of the index, newest first, until a node is   *)
(* found, or the id of the process that had the pid at some time; those     *)
(* that are not found go from the index.                                    *)

\* get_node_id_at_time
NodeIdAtTime(p, ts) ==
  LET before == {id \in index[p] : id[2] <= ts} IN
  {id \in before : \A other \in before : other[2] <= id[2]}

BeginRead(r, p) ==
  /\ read[r] = NoRead /\ reads < history.reads /\ reads' = reads + 1
  /\ index[p] # {}
  /\ \E ids \in {index[p]} \union {NodeIdAtTime(p, ts) : ts \in 1..clock} :
       read' = [read EXCEPT ![r] = [pid |-> p, todo |-> ids, stale |-> {}]]
  /\ UNCHANGED raced

LookUp(r) ==
  /\ read[r] # NoRead /\ read[r].todo # {}
  /\ LET id == CHOOSE x \in read[r].todo : \A y \in read[r].todo : y[2] <= x[2] IN
     read' = [read EXCEPT ![r] =
       IF id \in Ids(nodes) THEN [@ EXCEPT !.todo = {}]
       ELSE [@ EXCEPT !.todo = @ \ {id}, !.stale = @ \union {id}]]
  /\ UNCHANGED <<reads, raced>>

Evict(r) ==
  /\ read[r] # NoRead /\ read[r].todo = {}
  /\ IF read[r].stale = {} THEN UNCHANGED <<index, kids, untold>> ELSE RemoveNodes(read[r].stale)
  /\ raced' = raced \union (read[r].stale \intersect Ids(nodes))
  /\ read' = [read EXCEPT ![r] = NoRead]
  /\ UNCHANGED <<unindexed, reads>>

-----------------------------------------------------------------------------
HostStep ==
  /\ \/ \E h \in history.starts : Start(h)
     \/ \E p \in PidSet : Exit(p)
     \/ \E p \in PidSet, s \in history.sources, t \in Targets \union {Nobody} :
          Observe(p, s, t)
     \/ GraphTick
  /\ UNCHANGED <<cacheVars, queue, dbVars, indexVars, readVars, prunes>>

Process ==
  \/ ProcessEvent /\ UNCHANGED <<queue, dbVars, indexVars, readVars, prunes>>
  \/ SubmitBatch /\ UNCHANGED <<hostVars, dbVars, indexVars, readVars, prunes>>

Reap ==
  /\ \/ \E type \in history.jobs \intersect {"edges", "full"} : SubmitPrune(type, Ttl)
     \/ "rule" \in history.jobs /\ \E x \in PidSet \union Targets : SubmitPrune("rule", x)
  /\ UNCHANGED <<hostVars, cacheVars, dbVars, indexVars, readVars>>

Write ==
  \/ WriteJob /\ UNCHANGED <<hostVars, cacheVars, readVars, prunes>>
  \/ UpdateIndex /\ UNCHANGED <<hostVars, cacheVars, queue, dbVars, readVars, prunes>>

Query(r) ==
  \/ \E p \in PidSet : BeginRead(r, p) /\ UNCHANGED <<hostVars, cacheVars, queue, dbVars, indexVars, prunes>>
  \/ LookUp(r) /\ UNCHANGED <<hostVars, cacheVars, queue, dbVars, indexVars, prunes>>
  \/ Evict(r) /\ UNCHANGED <<hostVars, cacheVars, queue, dbVars, prunes>>

GraphNext == HostStep \/ Process \/ Reap \/ Write \/ \E r \in Readers : Query(r)
GraphSpec == GraphInit /\ [][GraphNext]_graphVars

-----------------------------------------------------------------------------
(* Properties. *)

Indexed == unindexed = Synced

\* A query finds every process of the graph by its pid, whatever the reaper, the
\* rules and the readers delete and evict meanwhile -- but for a node that was
\* written again between a reader's look for it and its eviction.
IndexCoversGraph ==
  Indexed => \A id \in Ids(nodes) \ raced : id \in index[id[1]]

\* A query that finds nothing by an id it has from the index meets a node that a
\* failed deletion left there: when the writer is at rest the index names nothing
\* else, and never a child that it has no id of.
IndexNamesGraph ==
  /\ Indexed => \A p \in PidSet : index[p] \subseteq Ids(nodes) \union untold
  /\ \A p \in PidSet : \A c \in kids[p] : index[c] # {}

\* An event whose process is still there when the event is processed is an edge of
\* the node of that process, whoever had the pid before.
EventOnItsProcess ==
  \A e \in edges :
    e.ev \in DOMAIN known /\ known[e.ev] =>
      <<seen[e.ev].pid, seen[e.ev].born>> \in {e.from, e.to}
=============================================================================
