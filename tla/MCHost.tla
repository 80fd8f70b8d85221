------------------------------- MODULE MCHost -------------------------------
(***************************************************************************)
(* What one host does with an event and a finding.  Each behaviour looks   *)
(* at one of four parts: the filters an event goes through, the caches of  *)
(* the rules of these filters, the graph that the events are written to,   *)
(* or the response engine with the endpoint controls it shares with the    *)
(* handlers of the dashboard.  The others stay as they are.                *)
(***************************************************************************)
EXTENDS ResponseEngine, EventFiltering, RuleCaches, ProcessGraph

CONSTANTS i1, i2, dom, f1, f2, f3, tmp, key, u1, u2, daemon, x1,
          p1, sys, d1, d2, a1, a2, a3, a4, k1, proc, an, t1, t2

VARIABLE part

-----------------------------------------------------------------------------
(* Events, rules and baselines for the filters. *)

Proc(n, pid, u) == [id |-> <<n, pid>>, name |-> n, pid |-> pid, user |-> u]
SomeProcesses == {Proc("a", 1, u1), Proc("noise", 2, u1), Proc("agent", 3, Nothing)}

Ev(kind, p, fields) ==
  [x \in {"kind", "process", "auth", "ip", "domain", "answers", "file", "op", "key"} |->
     CASE x = "kind" -> kind
       [] x = "process" -> p
       [] x \in DOMAIN fields -> fields[x]
       [] x = "answers" -> {}
       [] OTHER -> Nothing]

SomeEvents ==
  LET P == SomeProcesses \union {Nothing} IN
  {Ev("process", p, <<>>) : p \in SomeProcesses}
  \union {Ev("network", p, [ip |-> i1]) : p \in P}
  \union {Ev("authentication", Nothing, [ip |-> i1, auth |-> [user |-> u1, daemon |-> d]]) :
            d \in {daemon, Nothing}}
  \union {Ev("dns", p, [domain |-> dom, answers |-> {i1}]) : p \in P}
  \union {Ev("file", p, [file |-> f, op |-> o]) :
            p \in P, f \in {f1, tmp}, o \in {"READ", "CREATED"}}
  \union {Ev("registry", p, [key |-> key]) : p \in P}

SomeAncestry ==
  [n \in {"a", "noise", "agent", "b"} |->
     CASE n = "a" -> <<"u", "sh", "a">> [] n = "b" -> <<"b">> [] OTHER -> <<"sh", n>>]

Step(n) == [kind |-> "step", names |-> {n}]
One == [kind |-> "any"]
More == [kind |-> "many"]
SomePatterns == UNION {[1..k -> {Step("sh"), Step("a"), One, More}] : k \in 1..3}

Matched ==
  [process_name |-> {"a", "noise"}, dst_ip |-> {i1}, dst_cidr |-> {i1, i2}, domain |-> {dom},
   file_path |-> {f1}, finding_title |-> {"t"}, chain_pattern |-> {}]
SomeFilters == {Nothing, <<Step("sh"), One>>}
Rule(type, filter, exclude) ==
  [type |-> type, names |-> Matched[type], filter |-> filter, exclude |-> exclude,
   pattern |-> IF type = "chain_pattern" THEN <<More, Step("a")>> ELSE Nothing]
ChainRule(p) == [Rule("chain_pattern", Nothing, Nothing) EXCEPT !.pattern = p]

Case(e, allow, block, baseline, gating, file_reads) ==
  [event |-> e, allow |-> allow, block |-> block, baseline |-> baseline,
   gating |-> gating, reads |-> file_reads]

\* Of the parts that a behaviour does not look at.
QuietCase == Case(Ev("process", Proc("a", 1, u1), <<>>), {}, {}, {}, FALSE, FALSE)

SomeCases ==
  {Case(e, a, {}, b, g, r) :
     e \in SomeEvents,
     a \in {{}} \union {{Rule(t, f, Nothing)} : t \in DOMAIN Matched, f \in SomeFilters},
     b \in {{}, {<<"a", i1>>, <<"a", f1>>}}, g \in BOOLEAN, r \in BOOLEAN}
  \union {Case(e, {}, {Rule(t, f, x)}, {}, FALSE, TRUE) :
            e \in SomeEvents, t \in DOMAIN Matched, f \in SomeFilters, x \in SomeFilters}
  \union {Case(Ev("process", Proc(n, 1, u1), <<>>), {}, {ChainRule(p)}, {}, FALSE, TRUE) :
            n \in {"a", "b"}, p \in SomePatterns}

-----------------------------------------------------------------------------
(* Histories for the graph: a pid used twice, by processes of different    *)
(* parents and users; edges that grow old under queries; a rule.           *)

New(p, parent, u) == [pid |-> p, parent |-> parent, user |-> u]
History(starts, sources, events, jobs, deletions, queries) ==
  [starts |-> starts, sources |-> sources, events |-> events, jobs |-> jobs,
   prunes |-> deletions, reads |-> queries]

QuietHistory == History({}, {}, 0, {}, 0, 0)

SomeHistories ==
  { QuietHistory,
    History({New(1, 2, u1), New(1, 3, u2)}, {"psutil", "plain"}, 2, {}, 0, 0),
    History({New(1, 2, u1)}, {"psutil", "ebpf"}, 2, {"full", "edges"}, 1, 1),
    History({New(1, 2, u1)}, {"plain"}, 2, {"rule"}, 1, 1) }

-----------------------------------------------------------------------------
(* For the response: some scenarios have alerts, the others only calls of  *)
(* the dashboard.                                                          *)

SomeOccurs == {<<d1, d1>>, <<d2, d2>>, <<d1, d2>>}
SomeBasenames == [f \in Files |-> IF f = f3 THEN "b" ELSE "a"]

SomeWorkloads ==
  { {},
    {<<"block", x1>>, <<"unblock", x1>>},
    {<<"panic", "host">>, <<"panic_restore", "host">>},
    {<<"isolate", p1>>, <<"restore", p1>>},
    {<<"sinkhole", d1>>, <<"sinkhole", d2>>, <<"unsinkhole", d1>>, <<"restore_all", None>>},
    {<<"quarantine", f1>>, <<"quarantine", f2>>, <<"quarantine", f3>>,
     <<"unquarantine", f1>>, <<"unquarantine", f3>>},
    {<<"suspend", p1>>, <<"resume", p1>>, <<"terminate", p1>>},
    {<<"unblock", x1>>} }

Event(kind, ip) == [kind |-> kind, pid |-> p1, name |-> p1, ip |-> ip]
SomeEvidence ==
  [f \in Alerts |-> CASE f = a1 -> <<Event("process", None)>>
                      [] f \in {k1, a2, a4} -> <<Event("network", x1)>>
                      [] OTHER -> <<>>]
SomeSeverities ==
  [f \in Alerts |-> CASE f \in {a1, k1} -> "critical" [] f \in {a2, a4} -> "high"
                      [] OTHER -> "medium"]

Scene(mod, auto, alerts, cs, asks, names) ==
  [config |-> [mode |-> mod, auto |-> auto], alerts |-> alerts, calls |-> cs,
   asks |-> asks, names |-> names]

QuietScenario == Scene("passive", FALSE, {}, {}, 0, {})

SomeScenarios ==
  { Scene("passive", TRUE, {a1}, {}, 1, {sys}),
    Scene("passive", FALSE, {a2}, {}, 2, {}),
    Scene("learning", TRUE, {a2}, {}, 2, {}), Scene("learning", TRUE, {a2, a4}, {}, 1, {}),
    Scene("active", TRUE, {a2, a3}, {}, 1, {}),
    Scene("passive", TRUE, {a2}, {<<"unblock", x1>>}, 0, {}),
    Scene("passive", TRUE, {k1, a2}, {}, 0, {}) }
  \union {Scene("passive", FALSE, {}, cs, 0, {}) : cs \in SomeWorkloads}

Interchangeable == Permutations({t1, t2})

-----------------------------------------------------------------------------

Init ==
  /\ part \in {"filters", "caches", "graph", "response"}
  /\ FilterInit /\ (part # "filters" => case = QuietCase)
  /\ CacheInit /\ (part # "caches" => cache = "allow")
  /\ GraphInit /\ (part # "graph" => history = QuietHistory)
  /\ EngineInit /\ (part # "response" => scenario = QuietScenario /\ platform = "linux")

engine == <<controlVars, engineVars>>

Next ==
  \/ part = "filters" /\ FilterNext /\ UNCHANGED <<part, ruleCacheVars, graphVars, engine>>
  \/ part = "caches" /\ CacheNext /\ UNCHANGED <<part, filterVars, graphVars, engine>>
  \/ part = "graph" /\ GraphNext /\ UNCHANGED <<part, filterVars, ruleCacheVars, engine>>
  \/ part = "response" /\ EngineNext /\ UNCHANGED <<part, filterVars, ruleCacheVars, graphVars>>

Spec == Init /\ [][Next]_<<part, filterVars, ruleCacheVars, graphVars, engine>>
=============================================================================
