----------------------------- MODULE RuleCaches -----------------------------
(***************************************************************************)
(* The three caches of rules in front of the graph: AllowlistRuleCache and *)
(* BaselineGateCache (agent/response/baseline.py), FastBlocklist           *)
(* (agent/processor/synchronous_enforcer.py).  A reader loads the rules    *)
(* anew when the cache has been invalidated or its last refresh lies an    *)
(* interval back; handlers of the dashboard, the response engine in        *)
(* learning mode and the fleet server change them at any time.             *)
(*                                                                         *)
(* Rules are versions: those of the table, and those the fleet server has  *)
(* pushed.  One behaviour looks at one of the caches.                      *)
(***************************************************************************)
EXTENDS Naturals, Sequences

CONSTANTS
  Caches,       \* The caches to be looked at.
  Enforcer, GraphWriter,   \* The threads that read: both the gate, one the others.
  Unheld,       \* The holder of a free lock.
  Interval,     \* refresh_interval, in ticks
  MaxLoad,      \* The ticks a load takes at most.
  MaxMonotonic, MaxVersions, MaxLoadFaults    \* Bounds.

ASSUME CachesAssumption ==
  /\ Caches \subseteq {"allow", "fast", "gate"}
  /\ Unheld \notin {Enforcer, GraphWriter}
  /\ Interval \in Nat \ {0} /\ MaxLoad \in Nat
  /\ MaxMonotonic \in Nat /\ MaxVersions \in Nat /\ MaxLoadFaults \in Nat

VARIABLES
  cache,        \* A member of Caches.
  monotonic,    \* time.monotonic()
  births,       \* By source: when each version came into being; the last is in force.
  cached,       \* Version by source (0 for no rules), _last_refresh, _invalidated
                \* and whether the table could not be read.
  holder,       \* Of _lock.
  reading,      \* By thread: its access.
  handler,      \* The handler of the dashboard, at its next step.
  pushing,      \* A push has set the rules and not yet invalidated.
  purge,        \* The job that the handler waits for: "none", "queued" or "done".
  loadFaults

ruleCacheVars == <<cache, monotonic, births, cached, holder, reading, handler, pushing, purge,
                   loadFaults>>

Sources == {"table", "pushed"}
Threads == IF cache = "gate" THEN {Enforcer, GraphWriter} ELSE {Enforcer}
Away == [at |-> "away", now |-> 0, table |-> 0, pushed |-> 0, failed |-> FALSE, from |-> 0]

CacheInit ==
  /\ cache \in Caches /\ monotonic = Interval
  /\ births = [s \in Sources |-> <<0>>]
  /\ cached = [table |-> 0, pushed |-> 0, last |-> 0, invalid |-> TRUE, failed |-> FALSE]
  /\ holder = Unheld
  /\ reading = [r \in {Enforcer, GraphWriter} |-> Away]
  /\ handler = "none" /\ pushing = FALSE /\ purge = "none" /\ loadFaults = 0

-----------------------------------------------------------------------------
(* An access: get_rules, evaluate, is_gated. *)

\* Variant (a bug this code does not have): stale only after the interval.
StaleAfter(now) == cached.invalid \/ now > cached.last + Interval

Stale(now) == cached.invalid \/ now >= cached.last + Interval

Goes(r, step) == reading' = [reading EXCEPT ![r].at = step]

\* The graph writer looks at the gate for the sake of a purge only.
Access(r) ==
  /\ reading[r].at = "away"
  /\ r = GraphWriter => purge = "queued"
  /\ reading' = [reading EXCEPT ![r] =
                   [Away EXCEPT !.now = monotonic,
                                !.at = IF Stale(monotonic) THEN "lock" ELSE "use"]]
  /\ UNCHANGED <<cache, monotonic, births, cached, holder, handler, pushing, purge, loadFaults>>

\* The second check uses the time of the first.
Lock(r) ==
  /\ reading[r].at = "lock" /\ holder = Unheld
  /\ IF Stale(reading[r].now)
     THEN /\ holder' = r
          /\ reading' = [reading EXCEPT ![r].at = "table", ![r].from = monotonic]
     ELSE Goes(r, "use") /\ UNCHANGED holder
  /\ UNCHANGED <<cache, monotonic, births, cached, handler, pushing, purge, loadFaults>>

\* FastBlocklist takes a table it cannot read for an empty one; the error of
\* the others ends the access.
LoadTable(r) ==
  /\ reading[r].at = "table"
  /\ \/ /\ reading' = [reading EXCEPT ![r].at = "pushed", ![r].table = Len(births["table"])]
        /\ UNCHANGED <<holder, loadFaults>>
     \/ /\ loadFaults < MaxLoadFaults /\ loadFaults' = loadFaults + 1
        /\ IF cache = "fast"
           THEN /\ reading' = [reading EXCEPT ![r].at = "pushed", ![r].failed = TRUE]
                /\ UNCHANGED holder
           ELSE reading' = [reading EXCEPT ![r] = Away] /\ holder' = Unheld
  /\ UNCHANGED <<cache, monotonic, births, cached, handler, pushing, purge>>

LoadPushed(r) ==
  /\ reading[r].at = "pushed"
  /\ reading' = [reading EXCEPT ![r].at = "install", ![r].pushed = Len(births["pushed"])]
  /\ UNCHANGED <<cache, monotonic, births, cached, holder, handler, pushing, purge, loadFaults>>

\* The allowlist's cache is as old as the access, the others as the end of the
\* load; an invalidation that came during the load is lost.
Install(r) ==
  /\ reading[r].at = "install"
  /\ cached' = [table |-> reading[r].table, pushed |-> reading[r].pushed,
                last |-> IF cache = "allow" THEN reading[r].now ELSE monotonic,
                invalid |-> FALSE, failed |-> reading[r].failed]
  /\ holder' = Unheld /\ Goes(r, "use")
  /\ UNCHANGED <<cache, monotonic, births, handler, pushing, purge, loadFaults>>

Use(r) ==
  /\ reading[r].at = "use"
  /\ reading' = [reading EXCEPT ![r] = Away]
  /\ purge' = IF r = GraphWriter THEN "done" ELSE purge
  /\ UNCHANGED <<cache, monotonic, births, cached, holder, handler, pushing, loadFaults>>

Loading(r) == reading[r].at \in {"table", "pushed", "install"}

Passes ==
  /\ monotonic < MaxMonotonic /\ monotonic' = monotonic + 1
  /\ \A r \in Threads : Loading(r) => monotonic' <= reading[r].from + MaxLoad
  /\ UNCHANGED <<cache, births, cached, holder, reading, handler, pushing, purge, loadFaults>>

-----------------------------------------------------------------------------
(* Those who change the rules. *)

Changes(s) ==
  /\ Len(births[s]) < MaxVersions
  /\ births' = [births EXCEPT ![s] = Append(@, monotonic)]

Invalidate == cached' = [cached EXCEPT !.invalid = TRUE]

\* Adding an allowlist rule has the graph purged, and only then invalidates;
\* deleting one does not invalidate at all; the others invalidate at once.
ChangeRules ==
  /\ handler = "none" /\ Changes("table")
  /\ \/ cache = "allow" /\ handler' = "purge"
     \/ cache = "allow" /\ UNCHANGED handler
     \/ cache \in {"fast", "gate"} /\ handler' = "invalidate"
  /\ UNCHANGED <<cache, monotonic, cached, holder, reading, pushing, purge, loadFaults>>

\* In learning mode the engine adds to the baseline, and tells nobody.
Learn ==
  /\ cache = "gate" /\ Changes("table")
  /\ UNCHANGED <<cache, monotonic, cached, holder, reading, handler, pushing, purge, loadFaults>>

\* Leaving learning mode, or the operator's wish: the gate is invalidated, and
\* the graph writer purges what it holds back.
PurgeBaselined ==
  /\ cache = "gate" /\ handler = "none"
  /\ Invalidate /\ handler' = "purge"
  /\ UNCHANGED <<cache, monotonic, births, holder, reading, pushing, purge, loadFaults>>

SubmitPurge ==
  /\ handler = "purge"
  /\ purge' = "queued" /\ handler' = "wait"
  /\ UNCHANGED <<cache, monotonic, births, cached, holder, reading, pushing, loadFaults>>

\* PURGE_BY_RULE asks no cache.
PurgeAsRuled ==
  /\ cache = "allow" /\ purge = "queued" /\ purge' = "done"
  /\ UNCHANGED <<cache, monotonic, births, cached, holder, reading, handler, pushing, loadFaults>>

\* submit_sync returns, or gives up: the queue is full, the writer is slow.
PurgeAnswered ==
  /\ handler = "wait" \/ handler = "purge"
  /\ handler' = IF cache = "allow" THEN "invalidate" ELSE "none"
  /\ UNCHANGED <<cache, monotonic, births, cached, holder, reading, pushing, purge, loadFaults>>

HandlerInvalidates ==
  /\ handler = "invalidate" /\ handler' = "none" /\ Invalidate
  /\ UNCHANGED <<cache, monotonic, births, holder, reading, pushing, purge, loadFaults>>

\* A push of the fleet server (_apply_rules): the rules, then the caches.
PushRules ==
  /\ cache # "gate" /\ ~pushing /\ Changes("pushed") /\ pushing' = TRUE
  /\ UNCHANGED <<cache, monotonic, cached, holder, reading, handler, purge, loadFaults>>

PushInvalidates ==
  /\ pushing /\ pushing' = FALSE /\ Invalidate
  /\ UNCHANGED <<cache, monotonic, births, holder, reading, handler, purge, loadFaults>>

-----------------------------------------------------------------------------
CacheNext ==
  \/ \E r \in Threads :
       Access(r) \/ Lock(r) \/ LoadTable(r) \/ LoadPushed(r) \/ Install(r) \/ Use(r)
  \/ Passes
  \/ ChangeRules \/ Learn \/ PurgeBaselined \/ SubmitPurge \/ PurgeAsRuled \/ PurgeAnswered
  \/ HandlerInvalidates \/ PushRules \/ PushInvalidates

CacheSpec == CacheInit /\ [][CacheNext]_ruleCacheVars

-----------------------------------------------------------------------------
(* Properties. *)

\* Whoever changes the rules, with or without an invalidation, and whatever load
\* the change falls into: an access that begins a refresh interval later (and a
\* load, where the interval runs from its end) sees the change -- unless the
\* table could not be read.
RulesAreFresh ==
  LET slack == Interval + (IF cache = "allow" THEN 0 ELSE MaxLoad) IN
  \A r \in Threads : reading[r].at = "use" =>
    \A s \in Sources : \A v \in DOMAIN births[s] :
      births[s][v] + slack <= reading[r].now =>
        cached[s] >= v \/ (s = "table" /\ cached.failed)

\* Two threads go through the gate: a load that was begun with older rules never
\* replaces what a later one has read (_lock, and the second look at it); only a
\* table that cannot be read takes rules away.
RulesNeverGoBack ==
  [][\A s \in Sources : cached'[s] >= cached[s] \/ (s = "table" /\ cached'.failed)]_ruleCacheVars
=============================================================================
