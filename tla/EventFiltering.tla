--------------------------- MODULE EventFiltering ---------------------------
(***************************************************************************)
(* What the processor makes of one event before it reaches the graph       *)
(* (agent/main.py, _processor_loop): the entities and edges extracted from *)
(* it (agent/processor/entity_extractor.py), the agent's own noise removed *)
(* (self_filter.py), the blocklist (synchronous_enforcer.py), the          *)
(* allowlist (allowlist_filter.py) and the baseline (baseline_gate.py),    *)
(* with the rule matching they share (agent/response/baseline.py).         *)
(*                                                                         *)
(* A glob, a CIDR or an exact value is the set of what it matches.  A part *)
(* of a chain pattern is [kind |-> "step", names |-> set], or of the kind  *)
(* "any" (one star) or "many" (two stars).                                 *)
(***************************************************************************)
EXTENDS Integers, SequencesExt

CONSTANTS
  Nothing,      \* An attribute an event or a rule does not have.
  FilterCases,  \* What is looked at, one in each behaviour: [event, allow, block,
                \* baseline, gating, reads].
  AgentPid,
  Ancestry,     \* Of a process name: the chain the fast path's caches give.
  NoiseNames, TempFiles        \* What self_filter removes by name.

\* A pattern is split at its ">", so that it has a part.
RuleTypes == {"process_name", "dst_ip", "dst_cidr", "domain", "file_path", "finding_title",
              "chain_pattern"}

ASSUME FilterAssumption ==
  /\ \A n \in DOMAIN Ancestry : Ancestry[n] # Nothing /\ Ancestry[n] \in Seq(ToSet(Ancestry[n]))
  /\ \A c \in FilterCases :
       /\ c.event.kind \in {"process", "network", "authentication", "dns", "file", "registry"}
       /\ c.event.process # Nothing => c.event.process.name \in DOMAIN Ancestry
       /\ \A r \in c.block \union c.allow :
            /\ r.type \in RuleTypes /\ Nothing \notin r.names
            /\ \A p \in {r.pattern, r.filter, r.exclude} \ {Nothing} :
                 p \in Seq(ToSet(p)) /\ p # <<>>

VARIABLES
  case,         \* A member of FilterCases.
  ents,         \* ExtractedEntities
  stage,        \* How far the event has come.
  hit           \* The finding of the fast path: a rule or Nothing.

filterVars == <<case, ents, stage, hit>>

-----------------------------------------------------------------------------
(* Chain patterns: _match_chain_pattern. *)

MatchStep(entry, part) == part.kind = "any" \/ (part.kind = "step" /\ entry \in part.names)

\* Variant (a bug this code does not have): two stars stand for at least one entry.
PartFromSome(part, chain, rest) ==
  IF part.kind = "many"
  THEN {ci \in 1..(Len(chain) + 1) : \E skip \in (ci + 1)..(Len(chain) + 1) : skip \in rest}
  ELSE {ci \in 1..Len(chain) : MatchStep(chain[ci], part) /\ ci + 1 \in rest}

\* The positions from which a part and what follows it match, if that matches from
\* the positions of rest.
PartFrom(part, chain, rest) ==
  IF part.kind = "many"
  THEN {ci \in 1..(Len(chain) + 1) : \E skip \in ci..(Len(chain) + 1) : skip \in rest}
  ELSE {ci \in 1..Len(chain) : MatchStep(chain[ci], part) /\ ci + 1 \in rest}

\* _match_chain_recursive: the positions from which the pattern matches; from[i] are
\* those of its last i parts.
ChainMatch(chain, pattern) ==
  LET from[i \in 0..Len(pattern)] ==
        IF i = 0 THEN {Len(chain) + 1}
        ELSE PartFrom(pattern[Len(pattern) + 1 - i], chain, from[i - 1])
  IN from[Len(pattern)]

MatchChain(chain, pattern) ==
  \E start \in 1..(IF chain = <<>> THEN 1 ELSE Len(chain)) : start \in ChainMatch(chain, pattern)

-----------------------------------------------------------------------------
(* Rules: records [type, names, pattern, filter, exclude]; names is what   *)
(* the rule matches, pattern the chain pattern of a "chain_pattern" rule,  *)
(* filter and exclude are chain patterns or Nothing.  _match_rule is asked *)
(* about attributes [process, ip, domain, file, title] and a chain.        *)

NoAttributes == [process |-> Nothing, ip |-> Nothing, domain |-> Nothing,
                 file |-> Nothing, title |-> Nothing]

AttributeOf == [process_name |-> "process", dst_ip |-> "ip", dst_cidr |-> "ip",
                domain |-> "domain", file_path |-> "file", finding_title |-> "title"]

MatchRule(rule, attrs, chain) ==
  /\ rule.filter # Nothing => chain # Nothing /\ MatchChain(chain, rule.filter)
  /\ rule.exclude # Nothing /\ chain # Nothing => ~MatchChain(chain, rule.exclude)
  /\ IF rule.type = "chain_pattern" THEN chain # Nothing /\ MatchChain(chain, rule.pattern)
     ELSE LET a == attrs[AttributeOf[rule.type]] IN a # Nothing /\ a \in rule.names

GraphFilterableTypes == {"process_name", "dst_ip", "dst_cidr", "domain", "file_path"}

\* get_graph_filterable_rules
Filterable(rules) ==
  {r \in rules : r.type \in GraphFilterableTypes /\ r.filter = Nothing}

-----------------------------------------------------------------------------
(* Entities.  An event: [kind, process, auth, ip, domain, answers, file,   *)
(* op, key]; a process: [id, name, pid, user].  The lists are sets here.   *)

NoEntities ==
  [processes |-> {}, users |-> {}, ips |-> {}, domains |-> {}, files |-> {}, keys |-> {},
   spawned |-> {}, connected |-> {}, resolved |-> {}, answers |-> {}, accessed |-> {},
   registry |-> {}]

Some(x) == IF x = Nothing THEN {} ELSE {x}
Pairs(A, B) == A \X B
ProcId(e) == IF e.process = Nothing THEN {} ELSE {e.process.id}

\* The node of the process and of its user, when psutil or a cache knows one.
WithProcess(e) ==
  IF e.process = Nothing THEN NoEntities
  ELSE [NoEntities EXCEPT !.processes = {e.process},
                          !.users = Some(e.process.user),
                          !.spawned = Some(e.process.user) \X {e.process.id}]

ExtractNetwork(e) ==
  [WithProcess(e) EXCEPT !.ips = Some(e.ip), !.connected = Pairs(ProcId(e), Some(e.ip))]

\* The user who logs in, and from where; the edge is that of sshd, if it is found:
\* its node is not among the entities of this event.
ExtractAuthentication(e) ==
  [NoEntities EXCEPT !.users = {e.auth.user}, !.ips = Some(e.ip),
                     !.connected = Pairs(Some(e.auth.daemon), Some(e.ip))]

ExtractDns(e) ==
  IF e.domain = Nothing THEN WithProcess(e)
  ELSE [WithProcess(e) EXCEPT !.domains = {e.domain}, !.ips = e.answers,
                              !.resolved = Pairs(ProcId(e), {e.domain}),
                              !.answers = {e.domain} \X e.answers]

ExtractFile(e) ==
  [WithProcess(e) EXCEPT !.files = Some(e.file),
                         !.accessed = {<<p, f, e.op>> : p \in ProcId(e), f \in Some(e.file)}]

\* Registry events: the process without its user.
ExtractRegistry(e) ==
  [NoEntities EXCEPT !.processes = Some(e.process), !.keys = Some(e.key),
                     !.registry = Pairs(ProcId(e), Some(e.key))]

Extract(e) ==
  CASE e.kind = "process" -> WithProcess(e)
    [] e.kind = "network" -> ExtractNetwork(e)
    [] e.kind = "authentication" -> ExtractAuthentication(e)
    [] e.kind = "dns" -> ExtractDns(e)
    [] e.kind = "file" -> ExtractFile(e)
    [] e.kind = "registry" -> ExtractRegistry(e)

HasEntities(x) ==
  \/ x.processes # {} \/ x.ips # {} \/ x.domains # {} \/ x.files # {}
  \/ x.users # {} \/ x.keys # {}

\* The edges of x without those of the processes in P, the targets in T.
WithoutEdges(x, P, T) ==
  [x EXCEPT !.spawned = {s \in @ : s[2] \notin P},
            !.connected = {s \in @ : s[1] \notin P /\ s[2] \notin T},
            !.resolved = {s \in @ : s[1] \notin P /\ s[2] \notin T},
            !.accessed = {s \in @ : s[1] \notin P /\ s[2] \notin T},
            !.registry = {s \in @ : s[1] \notin P},
            !.answers = {s \in @ : s[1] \notin T /\ s[2] \notin T}]

\* The addresses, domains and files some edge still leads to.
WithoutOrphans(x) ==
  [x EXCEPT !.ips = {i \in @ : \E s \in x.connected \union x.answers : s[2] = i},
            !.domains = {d \in @ : \/ \E s \in x.resolved : s[2] = d
                                   \/ \E s \in x.answers : s[1] = d},
            !.files = {f \in @ : \E s \in x.accessed : s[2] = f}]

-----------------------------------------------------------------------------
(* The filters. *)

\* filter_agent_noise: temporary files of SQLite, the processes of the noisy
\* names, and the edges of those and of the agent; orphans if an edge went.
FilterAgentNoise(x) ==
  LET temp == x.files \intersect TempFiles
      y == [WithoutEdges(x, {}, temp) EXCEPT !.files = @ \ temp]
      noisy == {p \in x.processes : p.name \in NoiseNames}
      bad == {p.id : p \in noisy \union {q \in x.processes : q.pid = AgentPid}}
      z == [WithoutEdges(y, bad, {}) EXCEPT !.processes = @ \ noisy]
      kept(v) == <<v.spawned, v.connected, v.resolved, v.accessed, v.registry>>
  IN IF kept(z) = kept(y) THEN z ELSE WithoutOrphans(z)

\* filter_entities: the nodes a rule matches, with their edges; a user without a
\* process of his when anything went.  _match_rule is not given a chain.
FilterEntities(x, rules) ==
  LET Hit(attr, v) == \E r \in rules : MatchRule(r, [NoAttributes EXCEPT ![attr] = v], Nothing)
      procs == {p \in x.processes : Hit("process", p.name)}
      ips == {i \in x.ips : Hit("ip", i)}
      domains == {d \in x.domains : Hit("domain", d)}
      files == {f \in x.files : Hit("file", f)}
      y == [WithoutEdges(x, {p.id : p \in procs}, ips \union domains \union files)
              EXCEPT !.processes = @ \ procs, !.ips = @ \ ips, !.domains = @ \ domains,
                     !.files = @ \ files]
  IN IF y = x THEN x
     ELSE [y EXCEPT !.users = {u \in @ : \E s \in y.spawned : s[1] = u}]

\* gate_baselined_edges: the edges of known behaviours, then the orphans; the
\* processes and users stay.
GateEdges(x, baseline) ==
  LET Known(s) == \E p \in x.processes : p.id = s[1] /\ <<p.name, s[2]>> \in baseline
      y == [x EXCEPT !.connected = {s \in @ : ~Known(s)},
                     !.resolved = {s \in @ : ~Known(s)},
                     !.accessed = {s \in @ : ~Known(s)}]
  IN IF y = x THEN x ELSE WithoutOrphans(y)

-----------------------------------------------------------------------------
(* The fast path: FastBlocklist.evaluate over the compiled rules. *)

\* Variant (a bug this code does not have): only chain_filter makes a rule scoped.
BucketOfExcluding(rules, types) == {r \in rules : r.filter = Nothing /\ r.type \in types}

\* _compile_rules: a rule without chain goes to the bucket of its type.
Bucket(rules, types) ==
  {r \in rules : r.filter = Nothing /\ r.exclude = Nothing /\ r.type \in types}
Scoped(rules) == {r \in rules : r.filter # Nothing \/ r.exclude # Nothing}

\* What a rule with a chain is asked about, for one process.
ScopedValues(x, p, type) ==
  CASE type = "process_name" -> {[NoAttributes EXCEPT !.process = p.name]}
    [] type \in {"dst_ip", "dst_cidr"} ->
         {[NoAttributes EXCEPT !.ip = s[2]] : s \in x.connected}
    [] type = "domain" -> {[NoAttributes EXCEPT !.domain = d] : d \in x.domains}
    [] type = "file_path" -> {[NoAttributes EXCEPT !.file = s[2]] : s \in x.accessed}
    [] type = "chain_pattern" -> {NoAttributes}
    [] OTHER -> {}

EvaluateScoped(x, rules) ==
  {r \in Scoped(rules) : \E p \in x.processes : \E v \in ScopedValues(x, p, r.type) :
     MatchRule(r, v, Ancestry[p.name])}

\* Which rules hit; evaluate returns the first.
Evaluate(x, rules) ==
  {r \in Bucket(rules, {"dst_ip", "dst_cidr"}) : \E s \in x.connected : s[2] \in r.names}
  \union {r \in Bucket(rules, {"domain"}) : x.domains \intersect r.names # {}}
  \union {r \in Bucket(rules, {"process_name"}) : \E p \in x.processes : p.name \in r.names}
  \union {r \in Bucket(rules, {"file_path"}) : \E s \in x.accessed : s[2] \in r.names}
  \union {r \in Bucket(rules, {"chain_pattern"}) :
            \E p \in x.processes : MatchChain(Ancestry[p.name], r.pattern)}
  \union EvaluateScoped(x, rules)

-----------------------------------------------------------------------------
(* The processor's way through the filters. *)

FilterInit ==
  /\ case \in FilterCases
  /\ ents = Extract(case.event) /\ stage = "extracted" /\ hit = Nothing

\* An event that is left without entities is done.
Leaves(x, next) == ents' = x /\ stage' = IF HasEntities(x) THEN next ELSE "dropped"

SelfFilter ==
  /\ stage = "extracted" /\ Leaves(FilterAgentNoise(ents), "own")
  /\ UNCHANGED <<case, hit>>

FastPathCheck ==
  /\ stage = "own"
  /\ IF Evaluate(ents, case.block) # {}
     THEN hit' \in Evaluate(ents, case.block) /\ stage' = "blocked"
     ELSE stage' = "unblocked" /\ UNCHANGED hit
  /\ UNCHANGED <<case, ents>>

\* READ edges go unless file_read_tracking is on, then the allowlist.
AllowFilter ==
  /\ stage = "unblocked"
  /\ LET x == IF case.reads THEN ents
              ELSE [ents EXCEPT !.accessed = {s \in @ : s[3] # "READ"}]
     IN Leaves(FilterEntities(x, Filterable(case.allow)), "allowed")
  /\ UNCHANGED <<case, hit>>

BaselineGate ==
  /\ stage = "allowed"
  /\ Leaves(IF case.gating THEN GateEdges(ents, case.baseline) ELSE ents, "batched")
  /\ UNCHANGED <<case, hit>>

FilterNext == SelfFilter \/ FastPathCheck \/ AllowFilter \/ BaselineGate

FilterSpec == FilterInit /\ [][FilterNext]_filterVars

-----------------------------------------------------------------------------
(* Properties. *)

\* A pattern matches a chain when the chain's end can be cut into one piece for
\* each part: of one matching entry, of any length for two stars.
ChainMatchedBy(chain, pattern) ==
  \E cut \in [0..Len(pattern) -> 0..Len(chain)] :
    /\ cut[Len(pattern)] = Len(chain)
    /\ \A i \in DOMAIN pattern :
         IF pattern[i].kind = "many" THEN cut[i - 1] <= cut[i]
         ELSE cut[i] = cut[i - 1] + 1 /\ MatchStep(chain[cut[i]], pattern[i])

\* The recursion of _match_chain_pattern decides exactly that, for the chains and
\* the patterns of the rules at hand (two stars at either end and in a row).
ChainsAreMatched ==
  \A n \in DOMAIN Ancestry : \A r \in case.block \union case.allow :
    \A pattern \in {r.pattern, r.filter, r.exclude} :
      pattern # Nothing =>
        MatchChain(Ancestry[n], pattern) = ChainMatchedBy(Ancestry[n], pattern)

\* The compiled buckets of the fast path decide what _match_rule decides for each
\* rule and each process with what the event says of it: for the events that have
\* a process, and every rule but those on titles.
FastPathAgrees ==
  stage = "blocked" \/ (stage = "unblocked" /\ ents.processes # {}) =>
    LET Attributes ==
          [process : {p.name : p \in ents.processes} \union {Nothing},
           ip : {s[2] : s \in ents.connected} \union {Nothing},
           domain : ents.domains \union {Nothing},
           file : {s[2] : s \in ents.accessed} \union {Nothing},
           title : {Nothing}]
        Matches(r) == \E p \in ents.processes : \E a \in Attributes :
                        MatchRule(r, a, Ancestry[p.name])
    IN IF stage = "blocked"
       THEN ents.processes # {} => Matches(hit)
       ELSE ~\E r \in case.block : Matches(r)
=============================================================================
