--------------------------- MODULE FleetEnrolment ---------------------------
(***************************************************************************)
(* How an agent is admitted to the fleet and comes by its configuration:   *)
(* RegisterAgent and Heartbeat (server/grpc_service.py), served by the     *)
(* worker threads of gRPC, the requests of administrators                  *)
(* (server/dashboard.py), and the agent's side (agent/fleet/forwarder.py). *)
(*                                                                         *)
(* An agent calls one RPC at a time and may give up; the handler goes on.  *)
(* A configuration is signed with the key the server has for the agent.    *)
(***************************************************************************)
EXTENDS FleetSettings

CONSTANTS
  Workers, Handlers,       \* Threads that serve agents and administrators.
  Scenes            \* By name, what happens in a behaviour, and its bounds: [db, edits,
                    \* agents, rekeys, results, threads, restarts, timeouts, faults].

EditOps ==
  {"create_tag", "update_tag", "delete_tag", "assign_tag", "remove_tag", "set_policy", "set_rules",
   "set_default", "toggle", "add_rule", "delete_rule", "suppress", "unsuppress", "revoke", "delete_key"}

\* A behaviour begins between two calls: who is known by a key has been counted.
ASSUME EnrolmentAssumption ==
  /\ Clients = Workers \union Handlers /\ Workers \intersect Handlers = {}
  /\ \A s \in DOMAIN Scenes :
       LET d == Scenes[s].db IN
       /\ Scenes[s].threads \subseteq Clients
       /\ DOMAIN d = Tables
       /\ d.mapped \in [Agents -> Keys \union {None}]
       /\ d.keys \in [Keys -> [state : {"valid", "revoked", "absent"}, uses : Nat]]
       /\ \A k \in Keys : MaxUses[k] # None =>
            /\ Cardinality({a \in Agents : d.mapped[a] = k}) <= d.keys[k].uses
            /\ d.keys[k].uses <= MaxUses[k]
       /\ \A e \in Scenes[s].edits : "op" \in DOMAIN e /\ e.op \in EditOps
       /\ Scenes[s].agents \in [Agents -> Keys \union {None}]
       /\ Scenes[s].rekeys \subseteq Keys \union {None}

VARIABLES
  scene,            \* A member of DOMAIN Scenes.
  edits,            \* Requests that administrators have not made yet.
  request,          \* By handler.
  rpc,              \* By worker: what it serves.
  member,           \* [key, state, barred, value, rules, suppressed]; barred: its key was
                    \* not valid when it asked.
  results,          \* Answers to federated queries that agents will send yet.
  restarts, timeouts, enrolFaults       \* That are left.

adminVars == <<edits, request>>
agentVars == <<member, results, restarts, timeouts>>
enrolVars == <<db, conn, scene, adminVars, rpc, agentVars, enrolFaults>>

Free == [at |-> "free"]
Unconfigured(k) ==
  [key |-> k, state |-> "off", barred |-> FALSE, value |-> None, rules |-> {}, suppressed |-> {}]

EnrolInit ==
  /\ scene \in DOMAIN Scenes
  /\ db = Scenes[scene].db /\ conn = [t \in Clients |-> Unused]
  /\ edits = Scenes[scene].edits /\ request = [t \in Handlers |-> Free]
  /\ rpc = [w \in Workers |-> Free]
  /\ member = [a \in Agents |-> Unconfigured(Scenes[scene].agents[a])]
  /\ results = Scenes[scene].results
  /\ restarts = Scenes[scene].restarts /\ timeouts = Scenes[scene].timeouts
  /\ enrolFaults = Scenes[scene].faults

-----------------------------------------------------------------------------
(* Administrators. *)

\* These look for the tag, or for the rule, before they write.
LooksFirst == {"update_tag", "assign_tag", "set_policy", "set_rules", "toggle"}

Begin(e) == [at |-> IF e.op \in LooksFirst THEN "look" ELSE "write", edit |-> e, saw |-> FALSE]

Request(t) ==
  /\ request[t] = Free /\ t \in Scenes[scene].threads
  /\ \E e \in edits : edits' = edits \ {e} /\ request' = [request EXCEPT ![t] = Begin(e)]
  /\ UNCHANGED <<db, conn, scene, rpc, agentVars, enrolFaults>>

\* Without the tag the call raises, or returns, before it has written.
Look(t) ==
  /\ request[t].at = "look"
  /\ Reads(t)
  /\ LET e == request[t].edit
         found == IF e.op = "toggle" THEN e.rule \in Sees(t).disabled ELSE Sees(t).tags[e.tag].here
     IN request' = [request EXCEPT ![t] =
          IF found \/ e.op = "toggle" THEN [@ EXCEPT !.at = "write", !.saw = found] ELSE Free]
  /\ UNCHANGED <<db, scene, edits, rpc, agentVars, enrolFaults>>

\* A key that is there already, or a tag that is no longer; or an invalid color
\* after the description has been written.
Violates(d, e, saw) ==
  \/ e.op = "create_tag" /\ d.tags[e.tag].here
  \/ e.op = "update_tag" /\ e.bad
  \/ e.op = "assign_tag" /\ ~d.tags[e.tag].here
  \/ e.op = "set_policy" /\ ~d.tags[e.tag].here /\ e.value # None
  \/ e.op = "set_rules" /\ ~d.tags[e.tag].here /\ e.rules # {}
  \/ e.op = "toggle" /\ ~saw /\ e.rule \in d.disabled
  \/ e.op = "suppress" /\ e.indicator \in d.suppressed

\* Statements on rows that are gone change nothing.
Edited(d, e, saw) ==
  CASE e.op = "create_tag" -> CreateTag(d, e.tag, e.priority)
    [] e.op = "delete_tag" -> DeleteTag(d, e.tag)
    [] e.op = "assign_tag" -> AssignTag(d, e.agent, e.tag)
    [] e.op = "remove_tag" -> RemoveTag(d, e.agent, e.tag)
    [] e.op = "set_default" -> SetDefault(d, e.value)
    [] e.op = "toggle" -> IF saw /\ e.rule \notin d.disabled THEN d ELSE ToggleRule(d, e.rule)
    [] e.op = "add_rule" -> AddCustomRule(d, e.rule)
    [] e.op = "delete_rule" -> DeleteCustomRule(d, e.rule)
    [] e.op = "suppress" -> AddSuppression(d, e.indicator)
    [] e.op = "unsuppress" -> DeleteSuppression(d, e.indicator)
    [] e.op = "revoke" -> IF KeyIsValid(d, e.key) THEN RevokeKey(d, e.key) ELSE d
    [] e.op = "delete_key" -> DeleteKey(d, e.key)
    [] e.op \in {"update_tag", "set_policy", "set_rules"} ->
         IF ~d.tags[e.tag].here THEN d
         ELSE CASE e.op = "update_tag" -> UpdateTag(d, e.tag, e.priority)
                [] e.op = "set_policy" -> SetTagPolicy(d, e.tag, e.value)
                [] e.op = "set_rules" -> SetTagRules(d, e.tag, e.rules)

\* The overrides of a tag and its rules are two calls of one request.
WriteEdit(t) ==
  /\ request[t].at = "write"
  /\ LET e == request[t].edit  saw == request[t].saw  d == Sees(t)
         Ends(next) == request' = [request EXCEPT ![t] = next]
     IN \/ Refused(t) /\ Ends(Free)
        \/ Violates(d, e, saw) /\ Raises(t, d) /\ Ends(Free)
        \/ /\ ~Violates(d, e, saw) /\ Writes(t, Edited(d, e, saw))
           /\ Ends(IF e.op = "set_policy" THEN Begin([e EXCEPT !.op = "set_rules"]) ELSE Free)
  /\ UNCHANGED <<scene, edits, rpc, agentVars, enrolFaults>>

\* A request that only reads (list_tags): it matters where a transaction is open.
ReadOnly(t) ==
  /\ request[t] = Free /\ conn[t].tx = "begun"
  /\ Reads(t)
  /\ UNCHANGED <<db, scene, adminVars, rpc, agentVars, enrolFaults>>

\* A thread of the dashboard's pool that has been idle ends, and its connection
\* is closed.
EndThread(t) ==
  /\ request[t] = Free /\ conn[t] # Unused
  /\ conn' = [conn EXCEPT ![t] = Unused]
  /\ UNCHANGED <<db, scene, adminVars, rpc, agentVars, enrolFaults>>

-----------------------------------------------------------------------------
(* The agent. *)

Waits(a) == \E w \in Workers : rpc[w] # Free /\ rpc[w].agent = a /\ rpc[w].waits

Serve(w, kind, a) ==
  /\ rpc[w] = Free /\ w \in Scenes[scene].threads
  /\ rpc' = [rpc EXCEPT ![w] = [at |-> kind, agent |-> a, key |-> member[a].key, waits |-> TRUE,
                                value |-> None, rules |-> {}]]

AskToRegister(a, w) ==
  /\ member[a].state = "off" /\ member[a].key # None
  /\ Serve(w, "register", a)
  /\ member' = [member EXCEPT ![a].state = "asking", ![a].barred = ~KeyIsValid(db, member[a].key)]
  /\ UNCHANGED <<db, conn, scene, adminVars, results, restarts, timeouts, enrolFaults>>

\* The forwarder's thread, registered or not; _pending_results is sent and cleared.
SendHeartbeat(a, w) ==
  /\ member[a].state \in {"in", "out"} /\ ~Waits(a)
  /\ \/ Serve(w, "heartbeat", a) /\ UNCHANGED results
     \/ results[a] > 0 /\ Serve(w, "reporting", a) /\ results' = [results EXCEPT ![a] = @ - 1]
  /\ UNCHANGED <<db, conn, scene, adminVars, member, restarts, timeouts, enrolFaults>>

Rejected(a) == member' = [member EXCEPT ![a].state = IF @ = "asking" THEN "out" ELSE @]

\* The deadline of a call is over; its handler goes on.
GiveUp(w) ==
  /\ rpc[w] # Free /\ rpc[w].waits
  /\ timeouts > 0 /\ timeouts' = timeouts - 1
  /\ rpc' = [rpc EXCEPT ![w].waits = FALSE]
  /\ Rejected(rpc[w].agent)
  /\ UNCHANGED <<db, conn, scene, adminVars, results, restarts, enrolFaults>>

\* Settings and rules are those of the configuration file again, perhaps with
\* another registration key.
RestartAgent(a) ==
  /\ member[a].state # "off"
  /\ restarts > 0 /\ restarts' = restarts - 1
  /\ \E k \in Scenes[scene].rekeys : member' = [member EXCEPT ![a] = Unconfigured(k)]
  /\ rpc' = [w \in Workers |->
       IF rpc[w] # Free /\ rpc[w].agent = a THEN [rpc[w] EXCEPT !.waits = FALSE] ELSE rpc[w]]
  /\ UNCHANGED <<db, conn, scene, adminVars, results, timeouts, enrolFaults>>

\* The signature is checked with the agent's own key.
ApplyConfig(a, signed, config) ==
  member' = IF signed = member[a].key
           THEN [member EXCEPT ![a].value = config.value, ![a].rules = config.rules,
                              ![a].suppressed = config.suppressed]
           ELSE member

-----------------------------------------------------------------------------
(* The handlers of RegisterAgent. *)

Goes(w, step) == rpc' = [rpc EXCEPT ![w].at = step]
EndsRpc(w) == rpc' = [rpc EXCEPT ![w] = Free]
ServerOnly == <<scene, adminVars, results, restarts, timeouts>>

\* An agent that is known with this key is not counted again.
ReadAgentKey(w) ==
  /\ rpc[w].at = "register"
  /\ Reads(w)
  /\ Goes(w, IF Sees(w).mapped[rpc[w].agent] = rpc[w].key THEN "recheck" ELSE "validate")
  /\ UNCHANGED <<db, member, ServerOnly, enrolFaults>>

Deny(w) == EndsRpc(w) /\ IF rpc[w].waits THEN Rejected(rpc[w].agent) ELSE UNCHANGED member

ReadKeyStatus(w) ==
  /\ rpc[w].at \in {"recheck", "validate"}
  /\ Reads(w)
  /\ IF KeyIsValid(Sees(w), rpc[w].key)
     THEN Goes(w, IF rpc[w].at = "recheck" THEN "admit" ELSE "count") /\ UNCHANGED member
     ELSE Deny(w)
  /\ UNCHANGED <<db, ServerOnly, enrolFaults>>

ValidateKey(w) ==
  /\ rpc[w].at = "count"
  /\ \/ Refused(w) /\ Deny(w)
     \/ /\ Writes(w, CountUse(Sees(w), rpc[w].key))
        /\ IF HasUse(Sees(w), rpc[w].key) THEN Goes(w, "admit") /\ UNCHANGED member ELSE Deny(w)
  /\ UNCHANGED <<ServerOnly, enrolFaults>>

Admitted(w) ==
  /\ EndsRpc(w)
  /\ member' = IF rpc[w].waits THEN [member EXCEPT ![rpc[w].agent].state = "in"] ELSE member

\* Variant (a bug this code does not have): nothing is written for an agent that is known.
AdmitKnown(w) ==
  /\ rpc[w].at = "admit"
  /\ \/ /\ enrolFaults > 0 /\ enrolFaults' = enrolFaults - 1
        /\ Deny(w) /\ UNCHANGED <<db, conn>>
     \/ /\ Sees(w).mapped[rpc[w].agent] = rpc[w].key
        /\ Admitted(w) /\ UNCHANGED <<db, conn, enrolFaults>>
     \/ /\ Sees(w).mapped[rpc[w].agent] # rpc[w].key /\ UNCHANGED enrolFaults
        /\ \/ Refused(w) /\ Deny(w)
           \/ Writes(w, SetAgentKey(Sees(w), rpc[w].agent, rpc[w].key)) /\ Admitted(w)
  /\ UNCHANGED ServerOnly

\* After the Host node, whose MERGE may fail.
Admit(w) ==
  /\ rpc[w].at = "admit"
  /\ \/ /\ enrolFaults > 0 /\ enrolFaults' = enrolFaults - 1
        /\ Deny(w) /\ UNCHANGED <<db, conn>>
     \/ /\ UNCHANGED enrolFaults
        /\ \/ Refused(w) /\ Deny(w)
           \/ Writes(w, SetAgentKey(Sees(w), rpc[w].agent, rpc[w].key)) /\ Admitted(w)
  /\ UNCHANGED ServerOnly

-----------------------------------------------------------------------------
(* The handlers of Heartbeat: each SELECT reads for itself. *)

\* The key to sign with is the one that is read here.
KnowsAgent(w) ==
  /\ rpc[w].at \in {"heartbeat", "reporting"}
  /\ Reads(w)
  /\ LET k == Sees(w).mapped[rpc[w].agent] IN
     rpc' = IF k = None THEN [rpc EXCEPT ![w] = Free]
            ELSE [rpc EXCEPT ![w].key = k,
                             ![w].at = IF @ = "reporting" THEN "complete" ELSE "defaults"]
  /\ UNCHANGED <<db, member, ServerOnly, enrolFaults>>

\* complete_xdr_query: a refusal is none of the exceptions that are caught.
CompleteQueries(w) ==
  /\ rpc[w].at = "complete"
  /\ \/ Refused(w) /\ EndsRpc(w)
     \/ Writes(w, [Sees(w) EXCEPT !.answers = @ + 1]) /\ Goes(w, "defaults")
  /\ UNCHANGED <<member, ServerOnly, enrolFaults>>

\* After update_heartbeat, which may fail.
ReadDefaults(w) ==
  /\ rpc[w].at = "defaults"
  /\ \/ /\ enrolFaults > 0 /\ enrolFaults' = enrolFaults - 1
        /\ EndsRpc(w) /\ UNCHANGED conn
     \/ /\ Reads(w) /\ UNCHANGED enrolFaults
        /\ rpc' = [rpc EXCEPT ![w].value = Sees(w).default, ![w].at = "policies"]
  /\ UNCHANGED <<db, member, ServerOnly>>

ReadPolicies(w) ==
  /\ rpc[w].at = "policies"
  /\ Reads(w)
  /\ rpc' = [rpc EXCEPT ![w].value = Overrides(Sees(w), rpc[w].agent, rpc[w].value), ![w].at = "rules"]
  /\ UNCHANGED <<db, member, ServerOnly, enrolFaults>>

\* resolve_agent_rules, by three SELECTs: the rules that are disabled, the custom rules
\* and those of the agent's tags.
ReadRules(w, at, rules, next) ==
  /\ rpc[w].at = at
  /\ Reads(w)
  /\ rpc' = [rpc EXCEPT ![w].rules = rules, ![w].at = next]
  /\ UNCHANGED <<db, member, ServerOnly, enrolFaults>>

ReadEnabledRules(w) == ReadRules(w, "rules", EnabledRules(Sees(w)), "custom")
ReadCustomRules(w) == ReadRules(w, "custom", rpc[w].rules \union Sees(w).custom, "tagged")
ReadTagRules(w) ==
  ReadRules(w, "tagged", rpc[w].rules \union TagRules(Sees(w), rpc[w].agent), "reply")

ReplyConfig(w) ==
  /\ rpc[w].at = "reply"
  /\ Reads(w) /\ EndsRpc(w)
  /\ IF rpc[w].waits
     THEN ApplyConfig(rpc[w].agent, rpc[w].key,
            [value |-> rpc[w].value, rules |-> rpc[w].rules, suppressed |-> Sees(w).suppressed])
     ELSE UNCHANGED member
  /\ UNCHANGED <<db, ServerOnly, enrolFaults>>

-----------------------------------------------------------------------------
RegisterAgent(w) == ReadAgentKey(w) \/ ReadKeyStatus(w) \/ ValidateKey(w) \/ Admit(w)
Heartbeat(w) ==
  \/ KnowsAgent(w) \/ CompleteQueries(w) \/ ReadDefaults(w) \/ ReadPolicies(w)
  \/ ReadEnabledRules(w) \/ ReadCustomRules(w) \/ ReadTagRules(w) \/ ReplyConfig(w)
Administer(t) == Request(t) \/ Look(t) \/ WriteEdit(t) \/ ReadOnly(t) \/ EndThread(t)

EnrolNext ==
  \/ \E t \in Handlers : Administer(t)
  \/ \E w \in Workers : RegisterAgent(w) \/ Heartbeat(w) \/ GiveUp(w)
  \/ \E a \in Agents : RestartAgent(a) \/ \E w \in Workers : AskToRegister(a, w) \/ SendHeartbeat(a, w)

\* gRPC's workers and the forwarder's threads go on; administrators need not.
EnrolFairness ==
  /\ \A w \in Workers : WF_enrolVars(RegisterAgent(w) \/ Heartbeat(w))
  /\ \A a \in Agents : WF_enrolVars(\E w \in Workers : SendHeartbeat(a, w))

EnrolSpec == EnrolInit /\ [][EnrolNext]_enrolVars /\ EnrolFairness

-----------------------------------------------------------------------------
\* No more agents are known by a key than it has uses, whichever handlers count at
\* the same time, come late, or count an agent twice ("Atomic increment with
\* max_uses guard to prevent TOCTOU race").
SeatsAreLimited ==
  \A k \in Keys :
    MaxUses[k] # None => Cardinality({a \in Agents : db.mapped[a] = k}) <= MaxUses[k]

\* An agent whose key had been revoked or deleted when it asked is not accepted,
\* not even by a worker whose connection has been left on an old snapshot and still
\* finds the key valid: the mapping, which is written anew each time, is refused.
RevokedStaysOut == \A a \in Agents : member[a].state = "in" => ~member[a].barred

\* What an administrator wants of an agent: the override of its tag with the
\* highest priority, by name among equals; every rule that is not disabled.
Wanted(a) ==
  LET over == Overriding(db, a)
      Wins(g) == \A h \in over \ {g} : Precedes(db, h, g)
  IN [value |-> IF over = {} THEN db.default
                ELSE db.tags[CHOOSE g \in over : Wins(g)].policy,
      rules |-> ResolveAgentRules(db, a), suppressed |-> db.suppressed]

Behind(a) ==
  /\ member[a].state \in {"in", "out"} /\ db.mapped[a] = member[a].key
  /\ \E x \in DOMAIN Wanted(a) : member[a][x] # Wanted(a)[x]

\* An agent that runs with the key the server knows it by comes to have the
\* configuration of its tags, whatever was read before, between and after the
\* changes -- unless a worker's connection has been left with a transaction.
PolicyArrives ==
  \A a \in Agents : Behind(a) ~> (~Behind(a) \/ \E w \in Workers : conn[w].tx # "none")

\* "Thread-safe SQLite settings database": a write waits for a call that is under
\* way, and for nothing else.
LockIsUnderWay ==
  \A t \in Handlers : conn[t].tx = "writing" => request[t] # Free
=============================================================================
