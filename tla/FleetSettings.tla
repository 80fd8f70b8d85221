--------------------------- MODULE FleetSettings ---------------------------
(***************************************************************************)
(* The settings database of the fleet server (server/settings_db.py): keys *)
(* that agents register with, tags with the overrides and rules they bring *)
(* to their agents, defaults, custom rules, suppressions.                  *)
(*                                                                         *)
(* Each thread of the server has a connection of its own.  The driver      *)
(* begins a transaction before the first write, and a call that raises     *)
(* between that and its commit leaves it as it is.  Of an agent's settings  *)
(* one is modelled; the others are alike.                                  *)
(***************************************************************************)
EXTENDS Naturals, Sequences, FiniteSets, SequencesExt

CONSTANTS
  Agents, Keys, Tags, Values, Rules, Indicators,
  None,             \* No key, no override, no view.
  Clients,          \* The threads of the server.
  GlobalRules,      \* Rules of the file that is shipped (_global_rules).
  MaxUses,          \* Of a key: a number, or None.
  Alphabetical      \* The tags in the order of their names.

ASSUME SettingsAssumption ==
  /\ IsFiniteSet(Agents)
  /\ GlobalRules \subseteq Rules
  /\ \A k \in Keys : MaxUses[k] = None \/ MaxUses[k] \in Nat
  /\ ToSet(Alphabetical) = Tags /\ Len(Alphabetical) = Cardinality(Tags)

VARIABLES
  db,               \* The tables, as committed.
  conn              \* By thread: its transaction and what it has read in it.

Tables ==
  {"answers", "mapped", "keys", "tags", "assigned", "default", "disabled", "custom", "suppressed"}

NoTag == [here |-> FALSE, priority |-> 0, policy |-> None, rules |-> {}]
Unused == [tx |-> "none", view |-> None]

-----------------------------------------------------------------------------
(* Transactions: "none"; "begun", by a write that was refused; "pinned", by *)
(* a SELECT after that; "stale", when another thread has committed since;   *)
(* "writing", with the write lock.                                          *)

Sees(t) == IF conn[t].tx \in {"none", "begun"} THEN db ELSE conn[t].view

Reads(t) ==
  conn' = [conn EXCEPT ![t] = IF @.tx = "begun" THEN [tx |-> "pinned", view |-> db] ELSE @]

\* An old snapshot is refused at once, any other write after busy_timeout.
CanWrite(t) ==
  /\ \A u \in Clients \ {t} : conn[u].tx # "writing"
  /\ conn[t].tx # "stale"

Refused(t) ==
  /\ ~CanWrite(t)
  /\ conn' = [conn EXCEPT ![t].tx = IF @ = "none" THEN "begun" ELSE @]
  /\ UNCHANGED db

\* What an earlier call has left behind is committed too.  Whether a commit that
\* changes nothing (no row, or the same values) ends other snapshots is left open.
Writes(t, new) ==
  /\ CanWrite(t)
  /\ db' = new
  /\ \E ended \in {{u \in Clients \ {t} : conn[u].tx = "pinned"}} \union {{} : d \in {new} \intersect {db}} :
       conn' = [u \in Clients |->
         IF u = t THEN Unused ELSE IF u \in ended THEN [conn[u] EXCEPT !.tx = "stale"] ELSE conn[u]]

\* The call raises, with the lock in hand.
Raises(t, new) ==
  /\ CanWrite(t)
  /\ conn' = [conn EXCEPT ![t] = [tx |-> "writing", view |-> new]]
  /\ UNCHANGED db

-----------------------------------------------------------------------------
(* Registration keys. *)

KeyIsValid(d, k) == d.keys[k].state = "valid"

\* Variant (a bug this code does not have): one more than the limit.
HasUseOneMore(d, k) ==
  MaxUses[k] = None \/ (d.keys[k].state # "absent" /\ d.keys[k].uses <= MaxUses[k])

\* The row is counted only while there is a use left.
HasUse(d, k) ==
  MaxUses[k] = None \/ (d.keys[k].state # "absent" /\ d.keys[k].uses < MaxUses[k])
CountUse(d, k) == IF HasUse(d, k) THEN [d EXCEPT !.keys[k].uses = @ + 1] ELSE d

SetAgentKey(d, a, k) == [d EXCEPT !.mapped[a] = k]
RevokeKey(d, k) == [d EXCEPT !.keys[k].state = "revoked"]
DeleteKey(d, k) == [d EXCEPT !.keys[k].state = "absent"]

-----------------------------------------------------------------------------
(* Tags, their overrides and rules; what is global. *)

CreateTag(d, g, p) == [d EXCEPT !.tags[g] = [NoTag EXCEPT !.here = TRUE, !.priority = p]]
UpdateTag(d, g, p) == [d EXCEPT !.tags[g].priority = p]
DeleteTag(d, g) == [d EXCEPT !.tags[g] = NoTag, !.assigned = {x \in @ : x[2] # g}]
AssignTag(d, a, g) == [d EXCEPT !.assigned = @ \union {<<a, g>>}]
RemoveTag(d, a, g) == [d EXCEPT !.assigned = @ \ {<<a, g>>}]
SetTagPolicy(d, g, v) == [d EXCEPT !.tags[g].policy = v]
SetTagRules(d, g, rs) == [d EXCEPT !.tags[g].rules = rs]
SetDefault(d, v) == [d EXCEPT !.default = v]
AddCustomRule(d, r) == [d EXCEPT !.custom = @ \union {r}]
DeleteCustomRule(d, r) == [d EXCEPT !.custom = @ \ {r}]
AddSuppression(d, i) == [d EXCEPT !.suppressed = @ \union {i}]
DeleteSuppression(d, i) == [d EXCEPT !.suppressed = @ \ {i}]
ToggleRule(d, r) ==
  [d EXCEPT !.disabled = IF r \in @ THEN @ \ {r} ELSE @ \union {r}]

-----------------------------------------------------------------------------
(* What an agent is to have. *)

Position(g) == CHOOSE i \in DOMAIN Alphabetical : Alphabetical[i] = g

\* ORDER BY t.priority ASC, t.tag_name ASC
Precedes(d, g, h) ==
  \/ d.tags[g].priority < d.tags[h].priority
  \/ d.tags[g].priority = d.tags[h].priority /\ Position(g) < Position(h)

TagsOf(d, a) == {g \in Tags : <<a, g>> \in d.assigned}
Overriding(d, a) == {g \in TagsOf(d, a) : d.tags[g].policy # None}

\* Variant (a bug this code does not have): the tags in descending order.
OverridesDescending(d, a, base) ==
  FoldLeft(LAMBDA v, g : d.tags[g].policy, base,
           SetToSortSeq(Overriding(d, a), LAMBDA g, h : Precedes(d, h, g)))

\* Each row overwrites what the rows before it have said.
Overrides(d, a, base) ==
  FoldLeft(LAMBDA v, g : d.tags[g].policy, base,
           SetToSortSeq(Overriding(d, a), LAMBDA g, h : Precedes(d, g, h)))

\* Those of the fleet, those of its administrators and those of its tags.
EnabledRules(d) == GlobalRules \ d.disabled
TagRules(d, a) == UNION {d.tags[g].rules : g \in TagsOf(d, a)}
ResolveAgentRules(d, a) == EnabledRules(d) \union d.custom \union TagRules(d, a)
=============================================================================
