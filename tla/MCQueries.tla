------------------------------ MODULE MCQueries ------------------------------
(***************************************************************************)
(* The analysis of the past.  Each behaviour looks at one of four parts:   *)
(* the queries of the process graph, those of the forensic ledger, the     *)
(* graph that is built from it, or the dialogue with the model.  The       *)
(* others stay as they are.                                                *)
(***************************************************************************)
EXTENDS GraphQueries, LedgerQueries, WarmGraph, MCAnalysis, TLC

CONSTANTS u2, ip1, ip2, dom, key

VARIABLE part

-----------------------------------------------------------------------------
(* Graphs.  Pids are used twice, a cycle of parents comes of that, nodes   *)
(* are missing from the graph or, as ghosts, only in the index.            *)

Touched(op, at) == [op |-> op, at |-> at]
Node(parent, user, fs) ==
  [parent |-> parent, user |-> user, files |-> fs, ips |-> {}, domains |-> {}, ports |-> {}, keys |-> {}]
Busy(parent, fs) ==
  [Node(parent, u1, fs) EXCEPT !.ips = {ip1}, !.domains = {dom}, !.ports = {22}, !.keys = {key}]

Live(start, parent, user) == [start |-> start, parent |-> parent, user |-> user]
Row0(pid, at, parent) == [pid |-> pid, at |-> at, parent |-> parent]

View(nodes, ghosts, built, rows, live) ==
  [nodes |-> nodes, ghosts |-> ghosts, built |-> built, ledger |-> rows, live |-> live,
   resolves |-> {<<dom, ip1>>, <<dom, ip2>>}, dga |-> dom :> TRUE]

\* 1 is the root; 2 is used twice, the second time by a child of 3; 3 is a child
\* of 2, and 4 of 3.
Forest ==
  <<1, 1>> :> Node(0, Nobody, {})
  @@ <<2, 1>> :> Node(1, u1, {Touched("READ", 1), Touched("READ", 3), Touched("CREATED", 2)})
  @@ <<2, 4>> :> Node(3, u2, {Touched("READ", 5), Touched("READ", 6)})
  @@ <<3, 2>> :> Busy(2, {Touched("DELETED", 4), Touched("MODIFIED", 7)})
  @@ <<4, 3>> :> Node(3, Nobody, {})

Some2 == {<<2, 1>>, <<3, 2>>, <<4, 3>>}
SomeViews ==
  [ covered |-> View(Forest, <<>>, TRUE, {}, <<>>),
    scanned |-> View(Forest, <<>>, FALSE, {}, <<>>),
    ghosts |-> View(Restrict(Forest, Some2), <<2, 4>> :> 3 @@ <<4, 5>> :> 1, TRUE, {},
                    1 :> Live(1, 0, u2)),
    parted |-> View(Restrict(Forest, {<<3, 2>>, <<4, 3>>}), <<1, 1>> :> 0, TRUE,
                    {Row0(2, 1, 1), Row0(2, 4, 3), Row0(1, 6, 0)}, 1 :> Live(1, 0, u2)) ]

QuietView == "covered"

SomeOrders == {<<1, 2, 3, 4>>, <<4, 3, 2, 1>>}
SomeMoments == {Untimed, 1, 3, 4}

-----------------------------------------------------------------------------
(* Ledgers. *)

Entry(id, at, type, pid, ip, user) ==
  [id |-> id, at |-> at, type |-> type, pid |-> pid, ip |-> ip, user |-> user]

SomeRows ==
  {Entry(1, 2, "NetworkActivity", 1, ip1, Absent), Entry(2, 4, "ProcessActivity", 2, Absent, u1),
   Entry(3, 6, "NetworkActivity", 3, ip1, u1), Entry(4, 8, "ProcessActivity", 3, Absent, u2),
   Entry(5, 10, "Authentication", Absent, ip2, u2), Entry(6, 12, "ProcessActivity", 4, ip2, u1)}

\* Process 5 is alive and has no row.
Archive(backend, kids, built, conns, graph) ==
  [backend |-> backend, rows |-> SomeRows, recorder |-> {r \in SomeRows : r.at > 4},
   kids |-> kids, built |-> built, live |-> {<<1, 2>>, <<2, 5>>},
   started |-> 1 :> 1 @@ 2 :> 3 @@ 5 :> 11, conns |-> conns, graph |-> graph]

Chain == {<<1, 2>>, <<2, 3>>, <<3, 4>>, <<4, 2>>}
Conn(pid, at, direction, port) ==
  [pid |-> pid, at |-> at, ip |-> ip1, direction |-> direction, port |-> port]
Conns == {Conn(1, 2, "inbound", 22), Conn(3, 6, "outbound", 22), Conn(3, 8, "inbound", 80)}

SomeArchives ==
  [ ledger |-> Archive("ledger", Chain, TRUE, Conns, TRUE),
    lone |-> Archive("ledger", {}, FALSE, {}, FALSE),
    broken |-> Archive("ledger", Chain, TRUE, Conns, FALSE),
    recorder |-> Archive("recorder", Chain, TRUE, {}, TRUE),
    nothing |-> Archive("none", {}, FALSE, {}, FALSE) ]

Pull(type, pids, ips, users, since, limit) ==
  [type |-> type, pids |-> pids, ips |-> ips, users |-> users, since |-> since, limit |-> limit,
   port |-> Absent, at |-> Absent]
Trace(type, ips, port, at) ==
  [Pull(type, {}, ips, {}, Absent, 0) EXCEPT !.port = port, !.at = at]

SomeQueries ==
  {Pull(t, p, a, u, s, l) :
     t \in {"pull_surveillance_logs", "pull_ocsf_ledger"}, p \in {{}, {2}, {1, 3}},
     a \in {{}, {ip1}, {ip1, ip2}}, u \in {{}, {u1}}, s \in {Absent, 6}, l \in {2, 4}}
  \union {Trace(t, a, port, at) :
            t \in {"lateral_victim_trace", "lateral_source_trace", "other"},
            a \in {{ip1}, {ip2}}, port \in {Absent, 22}, at \in {Absent, 8}}

-----------------------------------------------------------------------------
(* Rows for the warm graph: a process seen twice, an address whose later    *)
(* row was seen earlier, edges without an end, seen again, or more than a    *)
(* table takes, and a row that is written late.                             *)

Thing(id, kind, when, val) == [id |-> id, kind |-> kind, seen |-> when, val |-> val]
Edge(type, from, to, val) == [type |-> type, from |-> from, to |-> to, val |-> val]
Recorded(at, things, es) == [at |-> at, nodes |-> things, edges |-> es]

SomeScripts ==
  [ updates |-> <<Recorded(0, <<Thing("p", "process", 1, 1), Thing("a", "ip", 2, 1)>>,
                           <<Edge("c", "p", "a", 1), Edge("r", "p", "a", 1)>>),
                  Recorded(1, <<Thing("p", "process", 0, 2), Thing("a", "ip", 1, 2), Thing("b", "ip", 1, 1)>>,
                           <<Edge("c", "p", "a", 2), Edge("c", "p", "b", 1), Edge("c", "p", "a", 3),
                             Edge("c", "p", Missing, 2), Edge("r", "p", "a", 2)>>)>>,
    late |-> <<Recorded(1, <<Thing("p", "process", 1, 2)>>, <<Edge("r", "p", "d", 1)>>),
               Recorded(-1, <<Thing("p", "process", -1, 1)>>, <<>>)>> ]

-----------------------------------------------------------------------------
AnyScript == "updates"
AnyInquiry == "lineage"

Init ==
  /\ QueriesInit /\ LedgerQueriesInit /\ WarmInit /\ DialogueInit
  /\ part \in {"graph", "ledger", "warm", "dialogue"}
  /\ part # "graph" => view = QuietView
  /\ part # "ledger" => archive = "nothing"
  /\ part # "warm" => script = AnyScript
  /\ part # "dialogue" => inquiry = AnyInquiry

allVars == <<part, queryVars, ledgerQueryVars, warmVars, dialogueVars>>

GraphPart == part = "graph" /\ UNCHANGED <<part, ledgerQueryVars, warmVars, dialogueVars>>
LedgerPart == part = "ledger" /\ UNCHANGED <<part, queryVars, warmVars, dialogueVars>>
WarmPart == part = "warm" /\ UNCHANGED <<part, queryVars, ledgerQueryVars, dialogueVars>>
DialoguePart == part = "dialogue" /\ UNCHANGED <<part, queryVars, ledgerQueryVars, warmVars>>

Next ==
  \/ GraphPart /\ QueriesNext
  \/ LedgerPart /\ LedgerQueriesNext
  \/ WarmPart /\ WarmNext
  \/ DialoguePart /\ DialogueNext

\* WarmFairness and DialogueFairness, each in its part.
Spec ==
  /\ Init /\ [][Next]_allVars
  /\ WF_warmVars(part = "warm" /\ RebuildTurn) /\ WF_warmVars(part = "warm" /\ CloseSlice)
  /\ WF_dialogueVars(part = "dialogue" /\ AnalyzerTurn)
=============================================================================
