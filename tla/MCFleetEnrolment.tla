-------------------------- MODULE MCFleetEnrolment --------------------------
(***************************************************************************)
(* Small instances of FleetEnrolment: one scene in each behaviour.         *)
(***************************************************************************)
EXTENDS FleetEnrolment, TLC

CONSTANTS a1, a2, k1, k2, t1, t2, v0, v1, v2, g1, r1, r2, i1,
  w1, w2, h1, h2

SomeMaxUses == k1 :> 1 @@ k2 :> None
SomeOrder == <<t1, t2>>

AllTables(mapped, tags, assigned) ==
  [answers |-> 0, mapped |-> mapped,
   keys |-> [k \in Keys |->
     [state |-> "valid", uses |-> Cardinality({a \in Agents : mapped[a] = k})]],
   tags |-> tags, assigned |-> assigned, default |-> v0,
   disabled |-> {}, custom |-> {}, suppressed |-> {}]

Tag(priority, policy, rules) ==
  [here |-> TRUE, priority |-> priority, policy |-> policy, rules |-> rules]
Nobody == [a \in Agents |-> None]
Untagged == [g \in Tags |-> NoTag]

Scene(tables, es, agents, rekeys) ==
  [db |-> tables, edits |-> es, agents |-> agents, rekeys |-> rekeys,
   results |-> [a \in Agents |-> 0], threads |-> {w1, h1},
   restarts |-> 0, timeouts |-> 0, faults |-> 0]
Reports(s) == [s EXCEPT !.results[a1] = 1]
Restarts(s) == [s EXCEPT !.restarts = 1]
Timeouts(s) == [s EXCEPT !.timeouts = 1]
Fails(s) == [s EXCEPT !.faults = 1]
With(s, ts) == [s EXCEPT !.threads = @ \union ts]

\* The first one has a key already, the other has not.
First == [a \in Agents |-> IF a = a1 THEN k1 ELSE None]

SomeScenes ==
  [ \* Two agents and one seat; the other key has no limit.
    seats |-> With(Restarts(Timeouts(
      Scene(AllTables(Nobody, Untagged, {}), {}, [a \in Agents |-> k1], {k1, k2}))), {w2}),
    \* The key is revoked while a worker is left on an old snapshot.
    revoked |-> Reports(Restarts(Fails(
      Scene(AllTables(First, t1 :> Tag(0, None, {}) @@ t2 :> NoTag, {}),
            {[op |-> "create_tag", tag |-> t1, priority |-> 1],
             [op |-> "revoke", key |-> k1]},
            First, {k1, k2})))),
    deleted |-> With(Restarts(Timeouts(Fails(
      Scene(AllTables(First, Untagged, {}), {[op |-> "delete_key", key |-> k1]},
            First, {k1, k2})))), {w2}),
    \* Overrides of two tags, in the order of their priorities, their names, or alone.
    layers |-> With(Timeouts(
      Scene(AllTables(First, t1 :> Tag(0, v1, {r1}) @@ t2 :> Tag(0, v2, {r2}),
                   {<<a1, t1>>, <<a1, t2>>}),
            {[op |-> "update_tag", tag |-> t1, priority |-> 1, bad |-> FALSE],
             [op |-> "set_policy", tag |-> t2, value |-> None, rules |-> {r1}],
             [op |-> "set_default", value |-> v1]},
            First, {k1})), {w2}),
    \* A tag that is deleted while it is assigned and given its overrides.
    anew |-> With(
      Scene(AllTables(First, t1 :> Tag(0, v1, {r1}) @@ t2 :> NoTag, {<<a1, t1>>}),
            {[op |-> "delete_tag", tag |-> t1],
             [op |-> "assign_tag", agent |-> a1, tag |-> t1],
             [op |-> "set_policy", tag |-> t1, value |-> v2, rules |-> {}]},
            First, {k1}), {h2}),
    \* Rules and suppressions of the whole fleet, twice each.
    rules |-> With(
      Scene(AllTables(First, t1 :> Tag(0, None, {r2}) @@ t2 :> NoTag, {<<a1, t1>>}),
            {[op |-> "toggle", rule |-> g1, nth |-> 1], [op |-> "toggle", rule |-> g1, nth |-> 2],
             [op |-> "add_rule", rule |-> r1], [op |-> "delete_rule", rule |-> r1]},
            First, {k1}), {h2}),
    fleet |->
      Scene(AllTables(First, t1 :> Tag(0, v1, {r2}) @@ t2 :> NoTag, {<<a1, t1>>}),
            {[op |-> "suppress", indicator |-> i1, nth |-> 1],
             [op |-> "suppress", indicator |-> i1, nth |-> 2],
             [op |-> "unsuppress", indicator |-> i1],
             [op |-> "remove_tag", agent |-> a1, tag |-> t1]},
            First, {k1}),
    color |-> Reports(
      Scene(AllTables(First, t1 :> Tag(0, v1, {r2}) @@ t2 :> NoTag, {<<a1, t1>>}),
            {[op |-> "update_tag", tag |-> t1, priority |-> 1, bad |-> TRUE],
             [op |-> "create_tag", tag |-> t2, priority |-> 0],
             [op |-> "assign_tag", agent |-> a1, tag |-> t2],
             [op |-> "set_default", value |-> v2]},
            First, {k1})) ]
====
