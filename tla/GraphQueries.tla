---------------------------- MODULE GraphQueries ----------------------------
(***************************************************************************)
(* The queries of the process graph (agent/graph/queries.py) over the      *)
(* index by pid (agent/graph/pid_index.py): the lineage of a process, its  *)
(* tree, and what its nodes have touched.  A node is <<pid, second it      *)
(* started>>.  The index may still name nodes that are gone (ghosts), and  *)
(* a query that meets one evicts it; a process that the graph does not     *)
(* have is looked for in the forensic ledger and then among the live ones. *)
(***************************************************************************)
EXTENDS Integers, Sequences, FiniteSets, SequencesExt

CONSTANTS
  Nobody,           \* No node, no user, no tree.
  Views,            \* By name: [nodes, ghosts, built, ledger, live, resolves].
  Orders,           \* Orders in which the index may list the pids it knows.
  MaxHops,          \* The hops of the way up (20).
  MaxDepth, MaxChildren, ManyChildren, MaxDescendants,  \* Of a tree: 5, 25, 10 and 100.
  FilesPerNode, FilesShown,  \* Rows of a query for files, and of its answer (both 10).
  Moments           \* What event_ts may be.

Untimed == -1       \* event_ts is None.

Nodes == Nat \X Nat

ASSUME QueriesAssumption ==
  /\ {MaxHops, MaxDepth, MaxChildren, ManyChildren, MaxDescendants} \subseteq Nat
  /\ {FilesPerNode, FilesShown} \subseteq Nat /\ FilesShown <= FilesPerNode
  /\ Moments \subseteq Nat \union {Untimed}
  /\ Nobody \notin Nodes /\ Orders \subseteq Seq(Nat)
  /\ \A name \in DOMAIN Views :
       LET W == Views[name]
       IN /\ DOMAIN W.nodes \union DOMAIN W.ghosts \subseteq Nodes
          /\ IsFiniteSet(DOMAIN W.nodes) /\ IsFiniteSet(DOMAIN W.ghosts) /\ IsFiniteSet(W.ledger)
          /\ \A n \in DOMAIN W.nodes : W.nodes[n].parent \in Nat
          /\ \A n \in DOMAIN W.nodes :
               IsFiniteSet(W.nodes[n].files) /\ \A f \in W.nodes[n].files : f.at \in Nat
          /\ \A r \in W.ledger : {r.pid, r.at, r.parent} \subseteq Nat
          /\ \A p \in DOMAIN W.live : {W.live[p].start, W.live[p].parent} \subseteq Nat

VARIABLES
  view,             \* The name of what is looked at.
  index,            \* PidIndex: the nodes it knows.
  answer            \* Of the last query: [kind, pid, ts, ...].

queryVars == <<view, index, answer>>

V == Views[view]
NodesOf(pid) == {n \in DOMAIN V.nodes : n[1] = pid}

-----------------------------------------------------------------------------
(* PidIndex.  Index and graph as a query finds them: ix is the index. *)

IdsOf(ix, pid) == {n \in ix : n[1] = pid}
Newest(ids) == IF ids = {} THEN Nobody ELSE CHOOSE n \in ids : \A m \in ids : m[2] <= n[2]

\* get_node_id_at_time: the last to start until then; one of second 0 is never it.
NodeIdAtTime(ix, pid, ts) == Newest({n \in IdsOf(ix, pid) : n[2] > 0 /\ n[2] <= ts})

\* get_children_pids: a pid that has lost all its nodes is nobody's child.
ChildPids(ix, pid) ==
  {c \in {n[1] : n \in ix} :
     \E n \in DOMAIN V.nodes \union DOMAIN V.ghosts :
       n[1] = c /\ pid = IF n \in DOMAIN V.nodes THEN V.nodes[n].parent ELSE V.ghosts[n]}

-----------------------------------------------------------------------------
(* One process: [node, gone], the node found or Nobody and the ghosts met. *)

Found(id, parent, user) == [id |-> id, parent |-> parent, user |-> user]
InGraph(n) == IF n = Nobody THEN Nobody ELSE Found(n, V.nodes[n].parent, Nobody)

\* _query_process_fields
FieldsAtTime(ix, pid, ts) ==
  LET n == NodeIdAtTime(ix, pid, ts)
  IN IF n \in {Nobody} \union DOMAIN V.nodes THEN [node |-> InGraph(n), gone |-> {}]
     ELSE [node |-> Nobody, gone |-> {n}]

FieldsNewest(ix, pid) ==
  LET n == Newest(IdsOf(ix, pid) \intersect DOMAIN V.nodes)
  IN [node |-> InGraph(n), gone |-> {m \in IdsOf(ix, pid) : n = Nobody \/ m[2] > n[2]}]

\* Without an index: the newest, whatever event_ts is, or without one any of them.
FieldsByScan(pid, ts) ==
  LET n == IF ts # Untimed \/ NodesOf(pid) = {} THEN Newest(NodesOf(pid))
           ELSE CHOOSE m \in NodesOf(pid) : TRUE
  IN [node |-> InGraph(n), gone |-> {}]

QueryProcessFields(ix, pid, ts) ==
  IF ~V.built THEN FieldsByScan(pid, ts)
  ELSE IF ts # Untimed THEN FieldsAtTime(ix, pid, ts)
  ELSE FieldsNewest(ix, pid)

By(at, ts) == ts = Untimed \/ at <= ts

\* The newest row of the pid, unless it is too late.
QueryProcessFromLedger(pid, ts) ==
  LET rows == {r \in V.ledger : r.pid = pid}
  IN IF rows = {} THEN Nobody
     ELSE LET r == CHOOSE x \in rows : \A y \in rows : y.at <= x.at
          IN IF By(r.at, ts) THEN Found(<<pid, r.at>>, r.parent, Nobody) ELSE Nobody

QueryProcessFromOs(pid, ts) ==
  IF pid \in DOMAIN V.live /\ By(V.live[pid].start, ts)
  THEN Found(<<pid, V.live[pid].start>>, V.live[pid].parent, V.live[pid].user)
  ELSE Nobody

FirstFound(g, l, o) ==
  IF g.node # Nobody THEN g ELSE [g EXCEPT !.node = IF l # Nobody THEN l ELSE o]

LookUpProcess(ix, pid, ts) ==
  FirstFound(QueryProcessFields(ix, pid, ts), QueryProcessFromLedger(pid, ts),
             QueryProcessFromOs(pid, ts))

-----------------------------------------------------------------------------
(* The way up from a process: [chain, ix, visited, done]. *)

Climb(w, parent, l) ==
  IF w.done \/ parent = 0 \/ parent \in w.visited THEN [w EXCEPT !.done = TRUE]
  ELSE [ix |-> w.ix \ l.gone, visited |-> w.visited \union {parent}, done |-> l.node = Nobody,
        chain |-> IF l.node = Nobody THEN w.chain ELSE <<l.node>> \o w.chain]

\* Variant (a bug this code does not have): the parents are not looked for at
\* the event's time.
HopUntimed(w, ts) ==
  LET parent == Head(w.chain).parent IN Climb(w, parent, LookUpProcess(w.ix, parent, Untimed))

Hop(w, ts) ==
  LET parent == Head(w.chain).parent IN Climb(w, parent, LookUpProcess(w.ix, parent, ts))

\* The target, and its ancestors before it; an empty chain if it is not found.
ClimbFrom(l, ix, pid, ts) ==
  LET start == [chain |-> <<l.node>>, ix |-> ix \ l.gone, visited |-> {pid}, done |-> FALSE]
      after[i \in 0..MaxHops] == IF i = 0 THEN start ELSE Hop(after[i - 1], ts)
  IN IF l.node = Nobody THEN [start EXCEPT !.chain = <<>>] ELSE after[MaxHops]
WalkUp(ix, pid, ts) == ClimbFrom(LookUpProcess(ix, pid, ts), ix, pid, ts)

Deepest(chain, Test(_)) ==
  LET at == {i \in DOMAIN chain : Test(chain[i])}
  IN IF at = {} THEN 0 ELSE CHOOSE i \in at : \A j \in at : j <= i

\* The user of the deepest process that has one: by its edge in the graph, else
\* by the operating system as it was looked up, else by whoever has its pid now.
SpawnedBy(n) == IF n.id \in DOMAIN V.nodes THEN V.nodes[n.id].user ELSE Nobody
UserOfChain(chain) ==
  LET spawned == Deepest(chain, LAMBDA n : SpawnedBy(n) # Nobody)
      looked == Deepest(chain, LAMBDA n : n.user # Nobody)
      live == Deepest(chain, LAMBDA n : n.id[1] \in DOMAIN V.live)
  IN IF spawned # 0 THEN SpawnedBy(chain[spawned])
     ELSE IF looked # 0 THEN chain[looked].user
     ELSE IF live # 0 THEN V.live[chain[live].id[1]].user
     ELSE Nobody

-----------------------------------------------------------------------------
(* The tree below a process. *)

FirstOf(s, n) == SubSeq(s, 1, IF Len(s) < n THEN Len(s) ELSE n)

\* Of s the members of S, in the order of s.
Among(s, S) ==
  LET kept[i \in 0..Len(s)] ==
        IF i = 0 THEN <<>>
        ELSE IF s[i] \in S THEN Append(kept[i - 1], s[i]) ELSE kept[i - 1]
  IN kept[Len(s)]

\* get_process_children: of each child's pid the newest node, whosever child
\* that is; ghosts are evicted.  [kids, gone]
ProcessChildren(ix, pid, order, limit) ==
  IF V.built
  THEN LET pids == FirstOf(Among(order, ChildPids(ix, pid)), limit)
           ids == [i \in DOMAIN pids |-> Newest(IdsOf(ix, pids[i]))]
       IN [kids |-> Among(ids, DOMAIN V.nodes),
           gone |-> ToSet(ids) \ DOMAIN V.nodes]
  ELSE [kids |-> FirstOf(SetToSeq({n \in DOMAIN V.nodes : V.nodes[n].parent = pid}), limit),
        gone |-> {}]

\* Depth first: [ix, visited, nodes], nodes in the order they are reached.
Descents == [ix : SUBSET Nodes, visited : SUBSET Nat, nodes : Seq(Nodes)]

\* A child, and by under what is below it, unless its parent has many.
Reach(t, n, many, under) ==
  IF Len(t.nodes) >= MaxDescendants \/ n[1] \in t.visited THEN t
  ELSE LET r == [ix |-> t.ix, visited |-> t.visited \union {n[1]}, nodes |-> Append(t.nodes, n)]
       IN IF many THEN r ELSE under[<<r, n[1]>>]

ReachAll(t, kids, under) ==
  LET after[i \in 0..Len(kids)] ==
        IF i = 0 THEN t ELSE Reach(after[i - 1], kids[i], Len(kids) > ManyChildren, under)
  IN after[Len(kids)]

\* What is below the process pid, by under what is below its children.
Descent(t, pid, order, under) ==
  LET c == ProcessChildren(t.ix, pid, order, MaxChildren)
  IN IF Len(t.nodes) >= MaxDescendants THEN t
     ELSE ReachAll([t EXCEPT !.ix = @ \ c.gone], c.kids, under)

\* _get_process_tree_inner, by the levels that are left to go down.
Subtree(t, pid, order) ==
  LET under[left \in 0..MaxDepth] ==
        IF left = 0 THEN [a \in Descents \X Nat |-> a[1]]
        ELSE [a \in Descents \X Nat |-> Descent(a[1], a[2], order, under[left - 1])]
  IN under[MaxDepth][<<t, pid>>]

\* get_process_tree
TreeOf(up, pid, order) ==
  LET down == Subtree([ix |-> up.ix, visited |-> up.visited, nodes |-> <<>>], pid, order)
  IN IF up.chain = <<>> THEN [ix |-> up.ix, chain |-> <<>>, below |-> <<>>]
     ELSE [ix |-> down.ix, chain |-> up.chain, below |-> down.nodes]
ProcessTree(ix, pid, ts, order) == TreeOf(WalkUp(ix, pid, ts), pid, order)

-----------------------------------------------------------------------------
(* What the nodes of a pid have touched: of all its incarnations. *)

\* _rows_for_pid
RowsForPid(ix, pid) == IF V.built THEN IdsOf(ix, pid) \intersect DOMAIN V.nodes ELSE NodesOf(pid)

TouchedBy(ns, what) == UNION {V.nodes[n][what] : n \in ns}

\* get_process_network_footprint: domains it has resolved, or that resolve to an
\* address it has connected to; and all the addresses of these.
NetworkFootprint(ix, pid) ==
  LET ns == RowsForPid(ix, pid)
      ips == TouchedBy(ns, "ips")
      domains == TouchedBy(ns, "domains") \union {r[1] : r \in {x \in V.resolves : x[2] \in ips}}
  IN [ips |-> ips, domains |-> domains, ports |-> TouchedBy(ns, "ports"),
      chains |-> {r \in V.resolves : r[1] \in domains}]

\* The n latest; no two are of the same time.
LatestOf(rows, n) == {r \in rows : Cardinality({x \in rows : x.at > r.at}) < n}

\* ORDER BY r.timestamp DESC LIMIT 10
RowsLimited(rows) == LatestOf(rows, FilesPerNode)

FileOps == {"CREATED", "MODIFIED", "DELETED", "READ"}

\* A query for each kind of edge from each of some sets of nodes.
FilesBy(sources) ==
  UNION {RowsLimited({f \in TouchedBy(s, "files") : f.op = o}) : s \in sources, o \in FileOps}

\* _get_process_file_activity: by the index the queries are for one node each; the
\* latest of what they return.
FileActivity(ix, pid) ==
  LET ns == RowsForPid(ix, pid)
  IN LatestOf(FilesBy(IF V.built THEN {{n} : n \in ns} ELSE {ns}), FilesShown)

PersistenceArtifacts(ix, pid) == TouchedBy(RowsForPid(ix, pid), "keys")

\* build_attack_chain; the tree's user is looked for in the graph only, and
\* without a tree persistence is no indicator of risk.
AttackChain(pid, tree) ==
  LET user == Deepest(tree.chain, LAMBDA n : SpawnedBy(n) # Nobody)
      net == NetworkFootprint(tree.ix, pid)
      keys == PersistenceArtifacts(tree.ix, pid)
  IN [kind |-> "attack", pid |-> pid, ts |-> Untimed, chain |-> tree.chain, below |-> tree.below,
      user |-> IF user = 0 THEN Nobody ELSE SpawnedBy(tree.chain[user]),
      network |-> net, files |-> FileActivity(tree.ix, pid), keys |-> keys,
      risks |-> {d \in net.domains : V.dga[d]} \union IF tree.chain = <<>> THEN {} ELSE keys]

-----------------------------------------------------------------------------
NoAnswer == [kind |-> "none"]

QueriesInit ==
  /\ view \in DOMAIN Views
  /\ index = IF V.built THEN DOMAIN V.nodes \union DOMAIN V.ghosts ELSE {}
  /\ answer = NoAnswer

PidsAsked == {n[1] : n \in DOMAIN V.nodes \union DOMAIN V.ghosts}

\* get_process_chain
AskChain ==
  /\ answer = NoAnswer
  /\ \E pid \in PidsAsked, ts \in Moments :
       \E w \in {WalkUp(index, pid, ts)} :
         /\ index' = w.ix
         /\ answer' = [kind |-> "chain", pid |-> pid, ts |-> ts, chain |-> w.chain, below |-> <<>>,
                       user |-> IF w.chain = <<>> THEN Nobody ELSE UserOfChain(w.chain)]
  /\ UNCHANGED view

AskTree ==
  /\ answer = NoAnswer
  /\ \E pid \in PidsAsked, ts \in Moments, order \in Orders :
       \E t \in {ProcessTree(index, pid, ts, order)} :
         /\ index' = t.ix
         /\ answer' = [kind |-> "tree", pid |-> pid, ts |-> ts, chain |-> t.chain, below |-> t.below,
                       user |-> Nobody]
  /\ UNCHANGED view

AskAttackChain ==
  /\ answer = NoAnswer
  /\ \E pid \in PidsAsked, order \in Orders :
       \E t \in {ProcessTree(index, pid, Untimed, order)} :
         /\ index' = t.ix
         /\ answer' = AttackChain(pid, t)
  /\ UNCHANGED view

\* The caller takes the answer; what was evicted from the index stays evicted.
TakeAnswer == answer # NoAnswer /\ answer' = NoAnswer /\ UNCHANGED <<view, index>>

QueriesNext == TakeAnswer \/ AskChain \/ AskTree \/ AskAttackChain

QueriesSpec == QueriesInit /\ [][QueriesNext]_queryVars

-----------------------------------------------------------------------------
PidsOf(s) == [i \in DOMAIN s |-> s[i][1]]

\* An answer about the lineage of a process names each process once, each next
\* to its parent, and none that was not there yet at the time of the event
\* ("all process lookups are temporally bounded to the PID incarnation active at
\* that time"); that is so while there is an index.
LineageHolds ==
  answer.kind # "none" /\ answer.chain # <<>> =>
    LET c == answer.chain
        ids == [i \in DOMAIN c |-> c[i].id]
    IN /\ Last(ids)[1] = answer.pid
       /\ IsInjective(PidsOf(ids \o answer.below))
       /\ \A i \in 1..(Len(c) - 1) : c[i + 1].parent = ids[i][1]
       /\ V.built => \A i \in DOMAIN c : By(ids[i][2], answer.ts)
       /\ Len(c) <= MaxHops + 1 /\ Len(answer.below) <= MaxDescendants

\* Queries evict from the index what they find to be gone, whoever answers them in
\* the end; a node that the graph has is never evicted.
NodesStayIndexed == V.built => DOMAIN V.nodes \subseteq index

\* "Returns top 10 most recent file operations": merged from a query for each kind
\* of edge and each node that the index has left of the pid, the answer is what
\* one query of the graph would give.
FilesAreLatest ==
  answer.kind = "attack" =>
    answer.files =
      LatestOf({f \in TouchedBy(NodesOf(answer.pid), "files") : f.op \in FileOps}, FilesShown)
=============================================================================
