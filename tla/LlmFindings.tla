---------------------------- MODULE LlmFindings -----------------------------
(***************************************************************************)
(* What LlmAnalyzer (agent/analyzer/llm_analyzer.py) makes of a batch of   *)
(* events before the model is asked, and of an entry of its answer; and    *)
(* the novelty filter before it (agent/analyzer/preflight.py).  The graph  *)
(* that ancestry comes from is GraphQueries'.                              *)
(***************************************************************************)
EXTENDS Integers, Sequences, FiniteSets, SequencesExt

CONSTANTS
  None,             \* A field that is absent or empty.
  MaxBatchEvents,   \* _MAX_BATCH_EVENTS
  Public,           \* The addresses that are not private.
  Baseline, Own,    \* Process names: of the platform's baseline, of the agent itself.
  Threshold,        \* novel_edge_threshold
  Tree              \* By pid: get_process_chain, the pids from the root down, or <<>>.

ASSUME FindingsAssumption ==
  /\ MaxBatchEvents \in Nat \ {0} /\ Threshold \in Nat
  /\ \A p \in DOMAIN Tree :
       Tree[p] \in Seq(Int) /\ (Tree[p] # <<>> => Last(Tree[p]) = p)

-----------------------------------------------------------------------------
(* Events: [id, kind, pid, name, user, ip, unusual]; pid is NoPid without a  *)
(* process, ip is the far end of a connection or of a login, and unusual     *)
(* says that a command line does not begin with the name of its process.     *)

NoPid == -1
HasProcess(e) == e.pid # NoPid

\* Seen: how often the graph has an event's edge: spawned by name, connected by
\* name and address, source by address.
\*
\* A count is always returned, so a process that no user has spawned is judged
\* by its zero edges, never by its nodes; and there is at most one node for a
\* user, so that a login is always novel.
IsNovel(e, seen) ==
  CASE e.kind = "process" ->
         /\ e.name # None /\ e.name \notin Own
         /\ e.name \in Baseline => e.unusual
         /\ seen.spawned[e.name] <= Threshold
    [] e.kind = "network" ->
         /\ HasProcess(e) /\ e.ip # None /\ e.name # None
         /\ e.name \notin Own \union Baseline
         /\ seen.connected[e.name, e.ip] <= Threshold
    [] e.kind = "authentication" ->
         /\ e.user # None
         /\ \/ e.ip # None /\ seen.source[e.ip] <= Threshold
            \/ Cardinality({u \in seen.users : u = e.user}) <= Threshold
    [] OTHER -> TRUE

Novel(events, seen) ==
  LET kept[i \in 0..Len(events)] ==
        IF i = 0 THEN <<>>
        ELSE IF IsNovel(events[i], seen) THEN Append(kept[i - 1], events[i]) ELSE kept[i - 1]
  IN kept[Len(events)]

\* What the graph's writer has counted once it has dealt with the events.
CountsWith(seen, events) ==
  LET Of(kinds) == SelectSeq(events, LAMBDA e : e.kind \in kinds)
      Count(kinds, Test(_)) == Len(SelectSeq(Of(kinds), Test))
  IN [spawned |-> [n \in DOMAIN seen.spawned |->
                     seen.spawned[n] + Count({"process"}, LAMBDA e : e.name = n /\ e.user # None)],
      connected |-> [c \in DOMAIN seen.connected |->
                       seen.connected[c] + Count({"network"}, LAMBDA e : <<e.name, e.ip>> = c)],
      source |-> [a \in DOMAIN seen.source |->
                    seen.source[a] + Count({"network", "authentication"}, LAMBDA e : e.ip = a)],
      users |-> seen.users \union ({e.user : e \in ToSet(events)} \ {None})]

-----------------------------------------------------------------------------
(* What the model is told and asked about. *)

Capped(events) == SubSeq(events, 1, IF Len(events) < MaxBatchEvents THEN Len(events)
                                    ELSE MaxBatchEvents)

\* _collect_batch_pids
BatchPids(events) == {e.pid : e \in {x \in ToSet(events) : HasProcess(x) /\ x.pid > 0}}

\* _build_attack_chain_context and _get_graph_context: the graph is asked about
\* each pid, user and connecting process of the batch, once.
AttackChainsOf(events) == {p \in BatchPids(events) : Tree[p] # <<>>}

UsersOf(events) ==
  {<<"user", e.user>> : e \in {x \in ToSet(events) : x.kind = "process" /\ x.user # None}}
NamesOf(events, kinds) ==
  {<<"process", e.name>> :
     e \in {x \in ToSet(events) : x.kind \in kinds /\ HasProcess(x) /\ x.name # None}}

GraphContextOf(events) == UsersOf(events) \union NamesOf(events, {"network"})

\* get_findings_for_pids, and the first five of them.
KnownFindings(store, events) ==
  {f \in DOMAIN store : store[f].pids \intersect BatchPids(events) # {}}

\* _pre_enrich: what is looked up before the model is asked.
PublicAddresses(events) ==
  {e.ip : e \in {x \in ToSet(events) : x.kind \in {"network", "authentication"}}} \intersect Public

EnrichmentLookups(events) ==
  {<<"ip", a>> : a \in PublicAddresses(events)}
  \union NamesOf(events, {"process", "network"}) \union UsersOf(events)

\* _build_batch_context, and the enrichment.
Told(events, store, enriched) ==
  [chains |-> AttackChainsOf(events), context |-> GraphContextOf(events),
   findings |-> KnownFindings(store, events),
   lookups |-> IF enriched THEN EnrichmentLookups(events) ELSE {}]

-----------------------------------------------------------------------------
(* An entry of the answer: [form, id, severity, evidence, chain, pids].      *)
(* Its form is "good", "untitled", "alien" (not an object: no field can be   *)
(* read), or "odd" (a field after the id is of the wrong type).              *)

\* A step of a chain: [type, name, pid].
Step(type, name, pid) == [type |-> type, name |-> name, pid |-> pid]
StepPids(chain) == {s.pid : s \in ToSet(chain)} \ {NoPid}

\* The last event with the name decides.
PidLookup(events, name) ==
  LET at == {i \in DOMAIN events : HasProcess(events[i]) /\ events[i].name = name}
  IN IF at = {} THEN NoPid ELSE events[CHOOSE i \in at : \A j \in at : j <= i].pid

StatedChain(raw, events) ==
  [i \in DOMAIN raw.chain |->
     LET s == raw.chain[i]
     IN IF s.pid = NoPid /\ s.type = "process"
        THEN [s EXCEPT !.pid = PidLookup(events, s.name)] ELSE s]

StepsOf(e) ==
  LET process == IF HasProcess(e) THEN <<Step("process", e.name, e.pid)>> ELSE <<>>
      user == IF e.user = None THEN <<>> ELSE <<Step("user", e.user, NoPid)>>
      address == IF e.ip = None THEN <<>> ELSE <<Step("ip", e.ip, NoPid)>>
  IN CASE e.kind = "process" -> user \o process
       [] e.kind = "network" -> process \o address
       [] e.kind = "authentication" -> user \o <<Step("process", "sshd", NoPid)>> \o address
       [] OTHER -> process

\* _build_chain_from_events: the first three events.
ChainFromEvents(events) ==
  FlattenSeq([i \in 1..(IF Len(events) < 3 THEN Len(events) ELSE 3) |-> StepsOf(events[i])])

FirstWhere(events, Test(_)) ==
  LET at == {i \in DOMAIN events : Test(events[i])}
  IN IF at = {} THEN NoPid ELSE events[CHOOSE i \in at : \A j \in at : i <= j].pid

\* The first of the events named as evidence that has a pid, or else the first
\* of the batch.
Trigger(raw, events) ==
  LET named == FirstWhere(events, LAMBDA e : e.id \in raw.evidence /\ HasProcess(e) /\ e.pid > 0)
  IN IF named # NoPid THEN named
     ELSE FirstWhere(events, LAMBDA e : HasProcess(e) /\ e.pid > 0)

\* Variant (a bug this code does not have): the chain's last process is the
\* anchor, whatever the trigger.
AnchorOnChain(chain, trigger) ==
  LET at == {i \in DOMAIN chain : chain[i].type = "process" /\ chain[i].pid > 0}
  IN IF at = {} THEN trigger ELSE chain[CHOOSE i \in at : \A j \in at : j <= i].pid

\* Without a trigger, the last process of the chain.
Anchor(chain, trigger) ==
  IF trigger # NoPid THEN trigger
  ELSE LET at == {i \in DOMAIN chain : chain[i].type = "process" /\ chain[i].pid > 0}
       IN IF at = {} THEN NoPid ELSE chain[CHOOSE i \in at : \A j \in at : j <= i].pid

\* The steps that are neither processes nor users nor of a pid outside the tree.
OtherSteps(chain, tree) ==
  LET kept[i \in 0..Len(chain)] ==
        IF i = 0 THEN <<>>
        ELSE IF /\ chain[i].type \notin {"process", "user"}
                /\ chain[i].pid > 0 => chain[i].pid \in ToSet(tree)
             THEN Append(kept[i - 1], chain[i]) ELSE kept[i - 1]
  IN kept[Len(chain)]

\* _enrich_chain_with_ancestry: the tree of the anchor, and such steps of the chain.
\* The graph may fail, and the ledger after it: the chain is left alone.
EnrichedChain(chain, trigger, graphFails) ==
  LET a == Anchor(chain, trigger)
      tree == IF a = NoPid \/ graphFails THEN <<>> ELSE Tree[a]
  IN IF tree = <<>> THEN chain
     ELSE [i \in DOMAIN tree |-> Step("process", None, tree[i])] \o OtherSteps(chain, tree)

\* The finding that an entry becomes.  Of the pids the model states, those
\* above 0; if it states none, those of the chain before it was enriched.
FindingOf(raw, events, graphFails) ==
  LET stated == StatedChain(raw, events)
      chain == IF stated = <<>> THEN ChainFromEvents(events) ELSE stated
      trigger == Trigger(raw, events)
      positive == {p \in raw.pids : p > 0}
  IN [severity |-> raw.severity, evidence |-> raw.evidence, trigger |-> trigger,
      chain |-> EnrichedChain(chain, trigger, graphFails),
      pids |-> IF positive # {} THEN positive ELSE {p \in StepPids(chain) : p >= 0}]

\* update_finding: evidence is added, and the severity only raised.
Updated(old, raw) ==
  [old EXCEPT !.evidence = @ \union raw.evidence,
              !.severity = IF raw.severity > @ THEN raw.severity ELSE @]
=============================================================================
