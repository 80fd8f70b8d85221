----------------------------- MODULE GraphProofs -----------------------------
(***************************************************************************)
(* Proofs about the way of an event into the graph: the caches of the      *)
(* rules it is held against, the graph it is written to and the index,     *)
(* and the filters it goes through.                                        *)
(***************************************************************************)
EXTENDS EventFiltering, RuleCaches, ProcessGraph, SequenceLemmas

-----------------------------------------------------------------------------
(* The caches of rules. *)

Accesses ==
  [at : {"away", "lock", "table", "pushed", "install", "use"}, now : Nat, table : Nat,
   pushed : Nat, failed : BOOLEAN, from : Nat]

CacheTypes ==
  /\ cache \in {"allow", "fast", "gate"} /\ monotonic \in Nat
  /\ births \in [Sources -> Seq(Nat)]
  /\ \A s \in Sources : \A v \in DOMAIN births[s] : births[s][v] <= monotonic
  /\ cached \in [table : Nat, pushed : Nat, last : Nat, invalid : BOOLEAN, failed : BOOLEAN]
  /\ cached.last <= monotonic
  /\ reading = [r \in {Enforcer, GraphWriter} |-> reading[r]]
  /\ \A r \in Threads : /\ reading[r] \in Accesses /\ reading[r].now <= monotonic
                        /\ reading[r].table <= Len(births["table"])

\* Only the fast path goes on without the table.
FailureInv ==
  /\ cached.failed => cache = "fast"
  /\ \A r \in Threads : reading[r].failed => cache = "fast"

\* Versions c of the rules of s that were read at the time t or later.
ReadSince(c, s, t) == \A v \in DOMAIN births[s] : births[s][v] < t => c >= v

\* The cache's rules were read when it was last refreshed, or while they were loaded.
Lag == IF cache = "allow" THEN 0 ELSE MaxLoad
CachedInv ==
  /\ \A s \in Sources : cached[s] <= Len(births[s])
  /\ \A s \in Sources :
       (s = "table" /\ cached.failed) \/ ReadSince(cached[s], s, cached.last - Lag)

\* What a load x has read is no older than its beginning, and than the cache.
LoadedSoFar(x) ==
  /\ x.now <= x.from /\ x.from <= monotonic /\ monotonic <= x.from + MaxLoad
  /\ x.at \in {"pushed", "install"} =>
       x.failed \/ (ReadSince(x.table, "table", x.from) /\ cached["table"] <= x.table)
  /\ x.at = "install" =>
       /\ ReadSince(x.pushed, "pushed", x.from) /\ x.pushed <= Len(births["pushed"])
       /\ cached["pushed"] <= x.pushed

LoadSteps == {"table", "pushed", "install"}
LoadInv == \A r \in Threads : Loading(r) => holder = r /\ LoadedSoFar(reading[r])

FreshFor(t) ==
  \A s \in Sources : \A v \in DOMAIN births[s] :
    births[s][v] + Interval + Lag <= t => cached[s] >= v \/ (s = "table" /\ cached.failed)
UseInv == \A r \in Threads : reading[r].at = "use" => FreshFor(reading[r].now)

CacheInv == CacheTypes /\ FailureInv /\ CachedInv /\ LoadInv /\ UseInv

LEMMA UseIsFresh == CacheTypes => (UseInv <=> RulesAreFresh)
<1> SUFFICES ASSUME CacheTypes
             PROVE  UseInv <=> RulesAreFresh
  OBVIOUS
<1>1. \A s \in Sources : \A v \in DOMAIN births[s] : births[s][v] \in Nat
  BY DEF CacheTypes
<1>2. \A s \in Sources : \A v \in DOMAIN births[s] : \A t :
        births[s][v] + Interval + Lag = births[s][v] + (Interval + (IF cache = "allow" THEN 0 ELSE MaxLoad))
  BY <1>1, CachesAssumption DEF Lag
<1>3. \A s \in Sources : s = "table" /\ cached.failed <=> (s = "table" /\ cached.failed)
  OBVIOUS
<1> QED BY <1>2 DEF UseInv, FreshFor, RulesAreFresh

\* A cache that is not stale is fresh.
LEMMA NotStaleIsFresh ==
  ASSUME CacheTypes, CachedInv, NEW t \in Nat, ~Stale(t)
  PROVE  FreshFor(t)
<1> SUFFICES ASSUME NEW s \in Sources, NEW v \in DOMAIN births[s],
                    births[s][v] + Interval + Lag <= t, ~(s = "table" /\ cached.failed)
             PROVE  cached[s] >= v
  BY DEF FreshFor
<1>1. births[s][v] \in Nat /\ cached.last \in Nat /\ Interval \in Nat /\ Lag \in Nat
  BY CachesAssumption, SMTT(30) DEF CacheTypes, Lag
<1>2. t < cached.last + Interval
  BY <1>1 DEF Stale
<1>3. births[s][v] < cached.last - Lag
  BY <1>1, <1>2
<1> QED BY <1>3 DEF CachedInv, ReadSince

\* One thread goes on with its access; rules and cache stay.
LEMMA AccessGoesOn ==
  ASSUME CacheInv, NEW r \in Threads, NEW x \in Accesses, x.now <= monotonic,
         x.table <= Len(births["table"]),
         reading' = [reading EXCEPT ![r] = x], UNCHANGED <<cache, monotonic, births, cached>>,
         x.failed => cache = "fast",
         x.at \in LoadSteps => holder' = r /\ LoadedSoFar(x),
         holder' = holder \/ \A u \in Threads : Loading(u) => u = r,
         x.at = "use" => FreshFor(x.now)
  PROVE  CacheInv'
<1>1. Threads' = Threads /\ Threads \subseteq {Enforcer, GraphWriter}
  BY DEF Threads
<1>2. \A u \in {Enforcer, GraphWriter} : reading'[u] = IF u = r THEN x ELSE reading[u]
  BY <1>1 DEF CacheInv, CacheTypes
<1>3. CacheTypes'
  <2>1. reading' = [u \in {Enforcer, GraphWriter} |-> reading'[u]]
    BY DEF CacheInv, CacheTypes
  <2>2. \A u \in Threads : /\ reading'[u] \in Accesses /\ reading'[u].now <= monotonic
                          /\ reading'[u].table <= Len(births["table"])
    BY <1>1, <1>2 DEF CacheInv, CacheTypes
  <2> QED BY <1>1, <2>1, <2>2 DEF CacheInv, CacheTypes
<1>4. FailureInv'
  BY <1>1, <1>2 DEF CacheInv, FailureInv
<1>5. CachedInv'
  BY DEF CacheInv, CachedInv, ReadSince, Lag
<1>6. \A y : LoadedSoFar(y)' <=> LoadedSoFar(y)
  BY DEF LoadedSoFar, ReadSince
<1>7. LoadInv'
  <2> SUFFICES ASSUME NEW u \in Threads, Loading(u)'
               PROVE  holder' = u /\ LoadedSoFar(reading[u])'
    BY <1>1 DEF LoadInv
  <2>1. PICK y : y = reading'[u]
    OBVIOUS
  <2>2. y.at \in LoadSteps
    BY <2>1 DEF Loading, LoadSteps
  <2>3. CASE u = r
    <3>1. holder' = u /\ LoadedSoFar(y)
      BY <1>1, <1>2, <2>1, <2>2, <2>3
    <3> QED BY <1>6, <2>1, <3>1 DEF LoadedSoFar
  <2>4. CASE u # r
    <3>1. y = reading[u]
      BY <1>1, <1>2, <2>1, <2>4
    <3>2. Loading(u)
      BY <2>2, <3>1 DEF Loading, LoadSteps
    <3>3. holder' = u /\ LoadedSoFar(y)
      BY <2>4, <3>1, <3>2 DEF CacheInv, LoadInv
    <3> QED BY <1>6, <2>1, <3>3 DEF LoadedSoFar
  <2> QED BY <2>3, <2>4
<1>8. UseInv'
  <2> SUFFICES ASSUME NEW u \in Threads, reading'[u].at = "use"
               PROVE  FreshFor(reading[u].now)'
    BY <1>1 DEF UseInv
  <2>1. PICK t : t = reading'[u].now
    OBVIOUS
  <2>2. FreshFor(t)
    BY <1>1, <1>2, <2>1 DEF CacheInv, UseInv
  <2>3. FreshFor(t)'
    BY <2>2 DEF FreshFor, Lag
  <2> QED BY <2>1, <2>3 DEF FreshFor
<1> QED BY <1>3, <1>4, <1>5, <1>7, <1>8 DEF CacheInv

\* Rules change: the new version is born now, and was not to be read before.
LEMMA RulesChange ==
  ASSUME CacheInv, NEW s \in Sources, Changes(s),
         UNCHANGED <<cache, monotonic, cached, holder, reading>>
  PROVE  CacheInv'
<1>1. Threads' = Threads /\ Threads \subseteq {Enforcer, GraphWriter}
  BY DEF Threads
<1>2. births[s] \in Seq(Nat) /\ monotonic \in Nat
  BY DEF CacheInv, CacheTypes
<1>3. \A z \in Sources :
        /\ births'[z] \in Seq(Nat) /\ Len(births[z]) \in Nat /\ Len(births'[z]) >= Len(births[z])
        /\ \A v \in DOMAIN births'[z] :
             \/ v \in DOMAIN births[z] /\ births'[z][v] = births[z][v]
             \/ births'[z][v] = monotonic
  BY <1>2 DEF CacheInv, CacheTypes, Changes
<1>4. CacheTypes'
  <2>1. births' \in [Sources -> Seq(Nat)]
    BY <1>2 DEF CacheInv, CacheTypes, Changes
  <2>2. \A z \in Sources : \A v \in DOMAIN births'[z] : births'[z][v] <= monotonic
    <3>1. \A z \in Sources : \A v \in DOMAIN births[z] : births[z][v] <= monotonic
      BY DEF CacheInv, CacheTypes
    <3>2. SUFFICES ASSUME NEW z \in Sources, NEW v \in DOMAIN births'[z]
                   PROVE  births'[z][v] <= monotonic
      OBVIOUS
    <3>3. CASE births'[z][v] = monotonic
      BY <1>2, <3>3
    <3>4. CASE v \in DOMAIN births[z] /\ births'[z][v] = births[z][v]
      BY <3>1, <3>4
    <3> QED BY <1>3, <3>3, <3>4
  <2>3. \A u \in Threads : reading[u].table <= Len(births'["table"])
    <3>1. \A u \in Threads : reading[u].table \in Nat /\ reading[u].table <= Len(births["table"])
      BY DEF CacheInv, CacheTypes, Accesses
    <3> QED BY <1>3, <3>1 DEF Sources
  <2> QED BY <1>1, <2>1, <2>2, <2>3 DEF CacheInv, CacheTypes
<1>5. \A c, z, t : z \in Sources /\ t \in Int /\ t <= monotonic /\ ReadSince(c, z, t)
                     => \A v \in DOMAIN births'[z] : births'[z][v] < t => c >= v
  BY <1>2, <1>3 DEF ReadSince
<1>6. CachedInv'
  <2>1. cached.last \in Nat /\ cached.last <= monotonic /\ Lag \in Nat
    BY CachesAssumption DEF CacheInv, CacheTypes, Lag
  <2>2. cached.last - Lag \in Int /\ cached.last - Lag <= monotonic
    BY <1>2, <2>1
  <2>3. \A z \in Sources : cached[z] \in Nat
    BY DEF CacheInv, CacheTypes, Sources
  <2>4. \A z \in Sources : cached[z] <= Len(births'[z])
    BY <1>3, <2>3 DEF CacheInv, CachedInv
  <2> QED BY <1>5, <2>2, <2>4 DEF CacheInv, CachedInv, ReadSince, Lag
<1>7. ASSUME NEW x \in Accesses, LoadedSoFar(x)
      PROVE  LoadedSoFar(x)'
  <2>1. x.from \in Nat /\ x.from <= monotonic /\ x.table \in Nat /\ x.pushed \in Nat
    BY <1>7 DEF LoadedSoFar, Accesses
  <2>2. "table" \in Sources /\ "pushed" \in Sources
    BY DEF Sources
  <2>3. \A c \in Nat : c <= Len(births["pushed"]) => c <= Len(births'["pushed"])
    BY <1>3, <2>2
  <2>4. ReadSince(x.table, "table", x.from) =>
          \A v \in DOMAIN births'["table"] : births'["table"][v] < x.from => x.table >= v
    BY <1>5, <2>1, <2>2
  <2>5. ReadSince(x.pushed, "pushed", x.from) =>
          \A v \in DOMAIN births'["pushed"] : births'["pushed"][v] < x.from => x.pushed >= v
    BY <1>5, <2>1, <2>2
  <2> QED BY <1>7, <2>1, <2>3, <2>4, <2>5 DEF LoadedSoFar, ReadSince
<1>8. LoadInv'
  BY <1>1, <1>7 DEF CacheInv, CacheTypes, LoadInv, Loading, LoadedSoFar
<1>9. UseInv'
  <2> SUFFICES ASSUME NEW u \in Threads, reading[u].at = "use"
               PROVE  FreshFor(reading[u].now)'
    BY <1>1 DEF UseInv
  <2>1. FreshFor(reading[u].now) /\ reading[u].now \in Nat /\ reading[u].now <= monotonic
    BY DEF CacheInv, CacheTypes, UseInv, Accesses
  <2>2. ~(monotonic + Interval + Lag <= reading[u].now)
    BY <1>2, <2>1, CachesAssumption DEF Lag
  <2> QED BY <1>3, <2>1, <2>2 DEF FreshFor, Lag
<1> QED BY <1>4, <1>6, <1>8, <1>9 DEF CacheInv, FailureInv, Threads

\* An invalidation has the rules read sooner; what is cached stays.
LEMMA CacheStays ==
  ASSUME CacheInv, UNCHANGED <<cache, monotonic, births, holder, reading>>,
         cached' = cached \/ Invalidate
  PROVE  CacheInv'
<1>1. Threads' = Threads
  BY DEF Threads
<1>2. /\ cached' \in [table : Nat, pushed : Nat, last : Nat, invalid : BOOLEAN, failed : BOOLEAN]
      /\ cached'.last = cached.last /\ cached'.failed = cached.failed
      /\ cached'.table = cached.table /\ cached'.pushed = cached.pushed
  BY DEF CacheInv, CacheTypes, Invalidate
<1>3. \A s \in Sources : cached'[s] = cached[s]
  BY <1>2 DEF Sources
<1>4. CacheTypes' /\ FailureInv'
  BY <1>1, <1>2 DEF CacheInv, CacheTypes, FailureInv
<1>5. CachedInv'
  BY <1>2, <1>3 DEF CacheInv, CachedInv, ReadSince, Lag
<1>6. LoadInv'
  BY <1>1, <1>2 DEF CacheInv, LoadInv, LoadedSoFar, Loading, ReadSince
<1>7. UseInv'
  BY <1>1, <1>2, <1>3 DEF CacheInv, UseInv, FreshFor, Lag
<1> QED BY <1>4, <1>5, <1>6, <1>7 DEF CacheInv

\* No load takes longer than it may.
LEMMA TimePasses ==
  ASSUME CacheInv, Passes
  PROVE  CacheInv'
<1>1. Threads' = Threads /\ monotonic \in Nat /\ monotonic' = monotonic + 1
  BY DEF Threads, Passes, CacheInv, CacheTypes
<1>2. \A z \in Sources : \A v \in DOMAIN births[z] : births[z][v] \in Nat
  BY DEF CacheInv, CacheTypes
<1>3. CacheTypes'
  <2>1. \A r \in Threads : reading[r].now <= monotonic'
    <3>1. \A r \in Threads : reading[r].now \in Nat /\ reading[r].now <= monotonic
      BY DEF CacheInv, CacheTypes, Accesses
    <3> QED BY <1>1, <3>1
  <2>2. \A z \in Sources : \A v \in DOMAIN births[z] : births[z][v] <= monotonic'
    BY <1>1, <1>2 DEF CacheInv, CacheTypes
  <2>3. cached.last \in Nat /\ cached.last <= monotonic'
    BY <1>1 DEF CacheInv, CacheTypes
  <2>4. UNCHANGED <<cache, births, cached, reading>> /\ monotonic' \in Nat
    BY <1>1 DEF Passes
  <2> QED BY <1>1, <2>1, <2>2, <2>3, <2>4 DEF CacheInv, CacheTypes
<1>4. LoadInv'
  <2> SUFFICES ASSUME NEW r \in Threads, Loading(r)
               PROVE  holder = r /\ LoadedSoFar(reading[r])'
    BY <1>1 DEF LoadInv, Loading, Passes
  <2>1. LoadedSoFar(reading[r]) /\ holder = r /\ reading[r] \in Accesses
    BY DEF CacheInv, CacheTypes, LoadInv
  <2>2. reading[r].from <= monotonic' /\ monotonic' <= reading[r].from + MaxLoad
    BY <1>1, <2>1 DEF LoadedSoFar, Accesses, Passes
  <2> QED BY <2>1, <2>2 DEF LoadedSoFar, ReadSince, Passes
<1> QED BY <1>1, <1>3, <1>4
        DEF CacheInv, FailureInv, CachedInv, ReadSince, Lag, UseInv, FreshFor, Passes

LEMMA CacheFacts ==
  ASSUME CacheInv, NEW r \in Threads
  PROVE  /\ monotonic \in Nat /\ births \in [Sources -> Seq(Nat)] /\ reading[r] \in Accesses
         /\ reading[r].now \in Nat /\ reading[r].now <= monotonic
         /\ 0 <= Len(births["table"]) /\ reading[r].table <= Len(births["table"])
<1>1. births \in [Sources -> Seq(Nat)] /\ "table" \in Sources
  BY DEF CacheInv, CacheTypes, Sources
<1>2. 0 <= Len(births["table"])
  BY <1>1
<1>3. reading[r] \in Accesses /\ reading[r].now <= monotonic /\ monotonic \in Nat
  BY DEF CacheInv, CacheTypes
<1>4. reading[r].table <= Len(births["table"])
  BY DEF CacheInv, CacheTypes
<1>5. reading[r].now \in Nat
  BY <1>3 DEF Accesses
<1> QED BY <1>1, <1>2, <1>3, <1>4, <1>5

\* An access begins, and waits for the lock.
LEMMA AccessBegins ==
  ASSUME CacheInv, NEW r \in Threads, Access(r) \/ Lock(r)
  PROVE  CacheInv'
<1>1. reading[r] \in Accesses /\ reading[r].now <= monotonic /\ monotonic \in Nat
      /\ reading[r].table <= Len(births["table"]) /\ 0 <= Len(births["table"])
  BY CacheFacts
<1>2. reading = [u \in {Enforcer, GraphWriter} |-> reading[u]] /\ r \in {Enforcer, GraphWriter}
  BY DEF CacheInv, CacheTypes, Threads
<1>3. CASE Access(r)
  <2> DEFINE at == IF Stale(monotonic) THEN "lock" ELSE "use"
             x == [Away EXCEPT !.now = monotonic, !.at = at]
  <2>0. Away \in Accesses /\ Away.table = 0 /\ Away.failed = FALSE
    BY DEF Away, Accesses
  <2>4. at \in {"lock", "use"} /\ (at = "use" => ~Stale(monotonic))
    OBVIOUS
  <2>3. reading' = [reading EXCEPT ![r] = x] /\ UNCHANGED <<cache, monotonic, births, cached, holder>>
    BY <1>3 DEF Access
  <2> HIDE DEF at
  <2>1. x \in Accesses /\ x.now = monotonic /\ x.failed = FALSE /\ x.at = at /\ x.table = 0
    BY <1>1, <2>0, <2>4 DEF Accesses
  <2> HIDE DEF x
  <2>2. x.at = "use" => FreshFor(x.now)
    BY <1>1, <2>1, <2>4, NotStaleIsFresh DEF CacheInv
  <2>5. x.now <= monotonic /\ x.table <= Len(births["table"]) /\ ~x.failed /\ x.at \notin LoadSteps
    BY <1>1, <2>1, <2>4 DEF LoadSteps
  <2> QED BY ONLY CacheInv, r \in Threads, <2>1, <2>2, <2>3, <2>5, AccessGoesOn
<1>4. CASE Lock(r)
  <2>1. holder = Unheld /\ reading[r].at = "lock"
        /\ UNCHANGED <<cache, monotonic, births, cached>>
    BY <1>4 DEF Lock
  <2>2. \A u \in Threads : ~Loading(u)
    BY <2>1, CachesAssumption DEF CacheInv, LoadInv, Threads
  <2>3. CASE Stale(reading[r].now)
    <3> DEFINE x == [reading[r] EXCEPT !.at = "table", !.from = monotonic]
    <3>1. x \in Accesses /\ x.now = reading[r].now /\ x.table = reading[r].table /\ x.failed = reading[r].failed
          /\ x.at = "table" /\ x.from = monotonic
      BY <1>1 DEF Accesses
    <3>2. LoadedSoFar(x)
      BY <1>1, <3>1, CachesAssumption DEF LoadedSoFar
    <3>3. reading' = [reading EXCEPT ![r] = x] /\ holder' = r
      BY <1>2, <1>4, <2>3 DEF Lock
    <3>4. x.failed => cache = "fast"
      BY <3>1 DEF CacheInv, FailureInv
    <3> HIDE DEF x
    <3> QED BY <1>1, <2>1, <2>2, <3>1, <3>2, <3>3, <3>4, AccessGoesOn DEF LoadSteps
  <2>4. CASE ~Stale(reading[r].now)
    <3> DEFINE x == [reading[r] EXCEPT !.at = "use"]
    <3>1. x \in Accesses /\ x.now = reading[r].now /\ x.table = reading[r].table /\ x.failed = reading[r].failed /\ x.at = "use"
          /\ x.now \in Nat
      BY <1>1 DEF Accesses
    <3>2. FreshFor(x.now)
      BY <2>4, <3>1, NotStaleIsFresh DEF CacheInv
    <3>3. reading' = [reading EXCEPT ![r] = x] /\ holder' = holder
      BY <1>2, <1>4, <2>4 DEF Lock, Goes
    <3>4. x.failed => cache = "fast"
      BY <3>1 DEF CacheInv, FailureInv
    <3> HIDE DEF x
    <3> QED BY <1>1, <2>1, <3>1, <3>2, <3>3, <3>4, AccessGoesOn DEF LoadSteps
  <2> QED BY <2>3, <2>4
<1> QED BY <1>3, <1>4

\* The versions in force are read one source after the other.
LEMMA AccessLoads ==
  ASSUME CacheInv, NEW r \in Threads, LoadTable(r) \/ LoadPushed(r)
  PROVE  CacheInv'
<1>0. Len(births["table"]) \in Nat
  BY CacheFacts DEF Sources
<1>1. reading[r] \in Accesses /\ reading[r].now <= monotonic /\ monotonic \in Nat
      /\ births \in [Sources -> Seq(Nat)]
      /\ reading[r].table <= Len(births["table"]) /\ 0 <= Len(births["table"])
  BY CacheFacts
<1>2. r \in {Enforcer, GraphWriter} /\ Loading(r)
  BY DEF Threads, LoadTable, LoadPushed, Loading
<1>3. holder = r /\ LoadedSoFar(reading[r]) /\ \A u \in Threads : Loading(u) => u = r
  BY <1>2 DEF CacheInv, LoadInv
<1>4. UNCHANGED <<cache, monotonic, births, cached>>
  BY DEF LoadTable, LoadPushed
<1>5. \A s \in Sources : cached[s] <= Len(births[s]) /\ Len(births[s]) \in Nat
                         /\ DOMAIN births[s] = 1..Len(births[s])
  BY <1>1 DEF CacheInv, CachedInv
<1>6. \A s \in Sources : \A t : ReadSince(Len(births[s]), s, t)
  BY <1>5 DEF ReadSince
<1>7. "table" \in Sources /\ "pushed" \in Sources
  BY DEF Sources
<1>8. reading[r].failed => cache = "fast"
  BY DEF CacheInv, FailureInv
<1>9. CASE reading[r].at = "table" /\ holder' = holder
           /\ reading' = [reading EXCEPT ![r].at = "pushed", ![r].table = Len(births["table"])]
  <2> DEFINE n == Len(births["table"])
             x == [reading[r] EXCEPT !.at = "pushed", !.table = n]
  <2>0. n \in Nat /\ n <= Len(births["table"])
    BY <1>0
  <2> HIDE DEF n
  <2>1. /\ x \in Accesses /\ x.now = reading[r].now /\ x.failed = reading[r].failed
        /\ x.at = "pushed" /\ x.from = reading[r].from /\ x.table = n
    BY <1>1, <2>0 DEF Accesses
  <2>4. x.table = Len(births["table"]) /\ x.table <= Len(births["table"])
    BY <2>0, <2>1 DEF n
  <2>2. LoadedSoFar(x)
    BY <1>3, <1>5, <1>6, <1>7, <2>1, <2>4 DEF LoadedSoFar
  <2>3. reading' = [reading EXCEPT ![r] = x]
    BY <1>2, <1>9 DEF CacheInv, CacheTypes, n
  <2> HIDE DEF x
  <2> QED BY <1>1, <1>3, <1>4, <1>8, <1>9, <2>1, <2>2, <2>3, <2>4, AccessGoesOn DEF LoadSteps
<1>10. CASE reading[r].at = "table" /\ holder' = holder /\ cache = "fast"
            /\ reading' = [reading EXCEPT ![r].at = "pushed", ![r].failed = TRUE]
  <2> DEFINE x == [reading[r] EXCEPT !.at = "pushed", !.failed = TRUE]
  <2>1. x \in Accesses /\ x.now = reading[r].now /\ x.table = reading[r].table /\ x.failed
        /\ x.at = "pushed" /\ x.from = reading[r].from
    BY <1>1 DEF Accesses
  <2>2. LoadedSoFar(x)
    BY <1>3, <2>1 DEF LoadedSoFar
  <2>3. reading' = [reading EXCEPT ![r] = x]
    BY <1>2, <1>10 DEF CacheInv, CacheTypes
  <2> HIDE DEF x
  <2> QED BY <1>1, <1>3, <1>4, <1>10, <2>1, <2>2, <2>3, AccessGoesOn DEF LoadSteps
<1>11. CASE reading[r].at = "table" /\ reading' = [reading EXCEPT ![r] = Away]
  <2>1. Away \in Accesses /\ Away.now = 0 /\ Away.at = "away" /\ Away.failed = FALSE
        /\ Away.table = 0
    BY DEF Away, Accesses
  <2>2. Away.now <= monotonic /\ Away.table <= Len(births["table"])
    BY <1>1, <2>1
  <2> QED BY <1>3, <1>4, <1>11, <2>1, <2>2, AccessGoesOn DEF LoadSteps
<1>12. CASE LoadPushed(r)
  <2> DEFINE x == [reading[r] EXCEPT !.at = "install", !.pushed = Len(births["pushed"])]
  <2>1. x \in Accesses /\ x.now = reading[r].now /\ x.failed = reading[r].failed
        /\ x.at = "install" /\ x.from = reading[r].from /\ x.table = reading[r].table
        /\ x.pushed = Len(births["pushed"])
    BY <1>1, <1>5, <1>7 DEF Accesses
  <2>2. LoadedSoFar(x)
    BY <1>3, <1>5, <1>6, <1>7, <1>12, <2>1, SMTT(30) DEF LoadedSoFar, LoadPushed
  <2>3. reading' = [reading EXCEPT ![r] = x] /\ holder' = holder
    BY <1>2, <1>12 DEF CacheInv, CacheTypes, LoadPushed
  <2> HIDE DEF x
  <2> QED BY <1>1, <1>3, <1>4, <1>8, <2>1, <2>2, <2>3, AccessGoesOn DEF LoadSteps
<1> QED BY <1>9, <1>10, <1>11, <1>12 DEF LoadTable

\* An access ends.
LEMMA AccessEnds ==
  ASSUME CacheInv, NEW r \in Threads, Use(r)
  PROVE  CacheInv'
<1>1. Away \in Accesses /\ Away.now = 0 /\ Away.at = "away" /\ Away.failed = FALSE /\ Away.table = 0
  BY DEF Away, Accesses
<1>2. Away.now <= monotonic /\ Away.table <= Len(births["table"])
  BY <1>1 DEF CacheInv, CacheTypes, Sources
<1> QED BY <1>1, <1>2, AccessGoesOn DEF Use, LoadSteps

\* The load becomes the cache: no version falls behind, and none that was there
\* when it began is missing.
LEMMA AccessInstalls ==
  ASSUME CacheInv, NEW r \in Threads, Install(r)
  PROVE  CacheInv'
<1> DEFINE x == reading[r]
<1>1. x \in Accesses /\ x.now <= monotonic /\ monotonic \in Nat /\ x.at = "install"
      /\ x.now \in Nat /\ x.from \in Nat /\ x.table \in Nat /\ x.pushed \in Nat
      /\ births \in [Sources -> Seq(Nat)] /\ x.table <= Len(births["table"])
  BY DEF CacheInv, CacheTypes, Install, Accesses
<1>2. Threads' = Threads /\ r \in {Enforcer, GraphWriter} /\ Threads \subseteq {Enforcer, GraphWriter}
  BY DEF Threads, Install
<1>3. LoadedSoFar(x) /\ \A u \in Threads : Loading(u) => u = r
  BY <1>1 DEF CacheInv, LoadInv, Loading
<1>4. UNCHANGED <<cache, monotonic, births>>
  BY DEF Install
<1>5. /\ cached' \in [table : Nat, pushed : Nat, last : Nat, invalid : BOOLEAN, failed : BOOLEAN]
      /\ cached'.table = x.table /\ cached'.pushed = x.pushed /\ cached'.failed = x.failed
      /\ cached'.last = IF cache = "allow" THEN x.now ELSE monotonic
  BY <1>1 DEF Install, Accesses
<1>6. \A u \in {Enforcer, GraphWriter} :
        reading'[u] = IF u = r THEN [x EXCEPT !.at = "use"] ELSE reading[u]
  BY <1>2 DEF CacheInv, CacheTypes, Install, Goes
<1>7. /\ reading'[r] \in Accesses /\ reading'[r].now = x.now /\ reading'[r].at = "use"
      /\ reading'[r].failed = x.failed /\ reading'[r].table = x.table
  BY <1>1, <1>2, <1>6 DEF Accesses
<1>8. CacheTypes'
  <2>1. reading' = [u \in {Enforcer, GraphWriter} |-> reading'[u]]
    BY DEF CacheInv, CacheTypes, Install, Goes
  <2>2. \A u \in Threads : /\ reading'[u] \in Accesses /\ reading'[u].now <= monotonic
                          /\ reading'[u].table <= Len(births["table"])
    BY <1>1, <1>2, <1>6, <1>7 DEF CacheInv, CacheTypes
  <2>3. cached'.last <= monotonic
    BY <1>1, <1>5
  <2> QED BY <1>2, <1>4, <1>5, <2>1, <2>2, <2>3 DEF CacheInv, CacheTypes
<1>9. FailureInv'
  BY <1>2, <1>4, <1>5, <1>6, <1>7 DEF CacheInv, FailureInv
<1>10. /\ x.failed \/ (ReadSince(x.table, "table", x.from) /\ cached.table <= x.table)
       /\ ReadSince(x.pushed, "pushed", x.from) /\ x.pushed <= Len(births["pushed"])
       /\ cached.pushed <= x.pushed
  BY <1>1, <1>3 DEF LoadedSoFar
<1>11. x.now <= x.from /\ x.from <= monotonic /\ monotonic <= x.from + MaxLoad
  BY <1>3 DEF LoadedSoFar
<1>12. \A s \in Sources : \A v \in DOMAIN births[s] :
         births[s][v] < x.from => cached'[s] >= v \/ (s = "table" /\ cached'.failed)
  BY <1>5, <1>10 DEF ReadSince, Sources
<1>13. \A s \in Sources : \A v \in DOMAIN births[s] : births[s][v] \in Nat
  BY DEF CacheInv, CacheTypes
<1>14. CachedInv'
  <2>1. Lag \in Nat /\ Lag' = Lag
    BY <1>4, CachesAssumption DEF Lag
  <2>2. cached'.last - Lag \in Int /\ cached'.last - Lag <= x.from
    BY <1>1, <1>5, <1>11, CachesAssumption DEF Lag
  <2>3. \A s \in Sources : cached'[s] <= Len(births[s])
    BY <1>1, <1>5, <1>10 DEF Sources
  <2>4. \A s \in Sources : \A v \in DOMAIN births[s] :
          births[s][v] < cached'.last - Lag => cached'[s] >= v \/ (s = "table" /\ cached'.failed)
    BY <1>1, <1>12, <1>13, <2>2
  <2> QED BY <1>4, <2>1, <2>3, <2>4 DEF CachedInv, ReadSince
<1>15. LoadInv'
  BY <1>2, <1>3, <1>6, <1>7 DEF LoadInv, Loading
<1>16. UseInv'
  <2> SUFFICES ASSUME NEW u \in Threads, reading'[u].at = "use"
               PROVE  FreshFor(reading[u].now)'
    BY <1>2 DEF UseInv
  <2>1. CASE u = r
    <3>1. ASSUME NEW s \in Sources, NEW v \in DOMAIN births[s], births[s][v] + Interval + Lag <= x.now
          PROVE  births[s][v] < x.from
      <4>1. births[s][v] \in Nat /\ Lag \in Nat /\ Interval \in Nat \ {0}
        BY <1>13, CachesAssumption DEF Lag
      <4>2. \A b, i, l, n, f \in Nat : i # 0 /\ b + i + l <= n /\ n <= f => b < f
        OBVIOUS
      <4>3. x.now \in Nat /\ x.from \in Nat /\ x.now <= x.from
        BY <1>1, <1>11
      <4> QED BY <3>1, <4>1, <4>2, <4>3
    <3> QED BY <1>4, <1>7, <1>12, <2>1, <3>1 DEF FreshFor, Lag
  <2>2. CASE u # r
    <3>1. reading'[u] = reading[u] /\ FreshFor(reading[u].now)
      BY <1>2, <1>6, <2>2 DEF CacheInv, UseInv
    <3>2. cache = "gate"
      BY <2>2 DEF Threads
    <3>3. ~x.failed /\ ~cached.failed
      BY <3>2 DEF CacheInv, FailureInv
    <3>4. \A s \in Sources : \A v : v \in Nat /\ cached[s] >= v => cached'[s] >= v
      BY <1>5, <1>10, <3>3 DEF Sources, CacheInv, CacheTypes
    <3>5. \A s \in Sources : DOMAIN births[s] \subseteq Nat
      BY <1>1
    <3> QED BY <1>4, <3>1, <3>3, <3>4, <3>5 DEF FreshFor, Lag
  <2> QED BY <2>1, <2>2
<1> QED BY <1>8, <1>9, <1>14, <1>15, <1>16 DEF CacheInv

LEMMA CacheInitially == CacheInit => CacheInv
<1> SUFFICES ASSUME CacheInit
             PROVE  CacheInv
  OBVIOUS
<1>1. monotonic = Interval /\ Interval \in Nat /\ cache \in {"allow", "fast", "gate"}
  BY CachesAssumption DEF CacheInit
<1>2. births = [s \in Sources |-> <<0>>]
  BY DEF CacheInit
<1>3. <<0>> \in Seq(Nat) /\ DOMAIN <<0>> = {1} /\ <<0>>[1] = 0 /\ Len(<<0>>) = 1
  OBVIOUS
<1>4. \A s \in Sources : births[s] = <<0>> /\ cached[s] = 0
  BY DEF CacheInit, Sources
<1>5. cached = [table |-> 0, pushed |-> 0, last |-> 0, invalid |-> TRUE, failed |-> FALSE]
  BY DEF CacheInit
<1>6. cached.last = 0 /\ cached.failed = FALSE
  BY <1>5
<1>7. reading = [r \in {Enforcer, GraphWriter} |-> Away]
  BY DEF CacheInit
<1>8. Away \in Accesses /\ Away.now = 0 /\ Away.table = 0 /\ Away.at = "away" /\ Away.failed = FALSE
  BY DEF Away, Accesses
<1>9. \A r \in Threads : reading[r] = Away
  BY <1>7 DEF Threads
<1>10. CacheTypes
  <2>1. births \in [Sources -> Seq(Nat)]
    BY <1>2, <1>3
  <2>2. \A s \in Sources : \A v \in DOMAIN births[s] : births[s][v] <= monotonic
    BY <1>1, <1>3, <1>4
  <2>3. cached \in [table : Nat, pushed : Nat, last : Nat, invalid : BOOLEAN, failed : BOOLEAN]
    BY <1>5
  <2>4. Len(births["table"]) = 1
    BY <1>3, <1>4 DEF Sources
  <2>5. \A r \in Threads : /\ reading[r] \in Accesses /\ reading[r].now <= monotonic
                          /\ reading[r].table <= Len(births["table"])
    BY <1>1, <1>8, <1>9, <2>4
  <2>6. reading = [r \in {Enforcer, GraphWriter} |-> reading[r]]
    BY <1>7
  <2>7. cached.last <= monotonic
    BY <1>1, <1>6
  <2> QED BY <1>1, <2>1, <2>2, <2>3, <2>5, <2>6, <2>7 DEF CacheTypes
<1>11. CachedInv
  <2>1. Lag \in Nat
    BY CachesAssumption DEF Lag
  <2>2. \A s \in Sources : cached[s] <= Len(births[s])
    BY <1>3, <1>4
  <2>3. \A s \in Sources : \A v \in DOMAIN births[s] : ~(births[s][v] < cached.last - Lag)
    BY <1>3, <1>4, <1>6, <2>1
  <2>4. \A s \in Sources : ReadSince(cached[s], s, cached.last - Lag)
    BY <2>3 DEF ReadSince
  <2> QED BY <2>2, <2>4 DEF CachedInv
<1>12. FailureInv /\ LoadInv /\ UseInv
  BY <1>6, <1>8, <1>9 DEF FailureInv, LoadInv, UseInv, Loading
<1> QED BY <1>10, <1>11, <1>12 DEF CacheInv

\* A step of the threads that read, or of those who change the rules.
LEMMA CacheStep == CacheInv /\ [CacheNext]_ruleCacheVars => CacheInv'
<1> SUFFICES ASSUME CacheInv, [CacheNext]_ruleCacheVars
             PROVE  CacheInv'
  OBVIOUS
<1>1. ASSUME NEW r \in Threads,
             Access(r) \/ Lock(r) \/ LoadTable(r) \/ LoadPushed(r) \/ Install(r) \/ Use(r)
      PROVE  CacheInv'
  BY <1>1, AccessBegins, AccessLoads, AccessInstalls, AccessEnds
<1>2. ASSUME Passes
      PROVE  CacheInv'
  BY <1>2, TimePasses
<1>3. ASSUME ChangeRules \/ Learn \/ PushRules
      PROVE  CacheInv'
  <2>1. "table" \in Sources /\ "pushed" \in Sources
    BY DEF Sources
  <2>2. CASE ChangeRules
    BY <2>1, <2>2, RulesChange DEF ChangeRules
  <2>3. CASE Learn
    BY <2>1, <2>3, RulesChange DEF Learn
  <2>4. CASE PushRules
    BY <2>1, <2>4, RulesChange DEF PushRules
  <2> QED BY <1>3, <2>2, <2>3, <2>4
<1>4. ASSUME PurgeBaselined \/ HandlerInvalidates \/ PushInvalidates
      PROVE  CacheInv'
  BY <1>4, CacheStays DEF PurgeBaselined, HandlerInvalidates, PushInvalidates
<1>5. ASSUME SubmitPurge \/ PurgeAsRuled \/ PurgeAnswered \/ UNCHANGED ruleCacheVars
      PROVE  CacheInv'
  BY <1>5, CacheStays DEF SubmitPurge, PurgeAsRuled, PurgeAnswered, ruleCacheVars
<1> QED BY <1>1, <1>2, <1>3, <1>4, <1>5 DEF CacheNext

\* The rules an access goes by -- of the allowlist, the fast blocklist or the
\* baseline's gate -- lack no change that is older than a refresh interval, however
\* many changes, lost invalidations and failed loads there were.
THEOREM CachesAreFresh == CacheSpec => []RulesAreFresh
<1>1. CacheInv => RulesAreFresh
  BY UseIsFresh DEF CacheInv
<1> QED BY <1>1, CacheInitially, CacheStep, PTL DEF CacheSpec

\* A load that ends gives way to no older rules, whichever thread it was.
THEOREM CachesNeverGoBack == CacheSpec => RulesNeverGoBack
<1> DEFINE Forth == \A s \in Sources : cached'[s] >= cached[s] \/ (s = "table" /\ cached'.failed)
<1>1. CacheInv /\ [CacheNext]_ruleCacheVars => [Forth]_ruleCacheVars
  <2> SUFFICES ASSUME CacheInv, CacheNext
               PROVE  Forth
    OBVIOUS
  <2>1. /\ cached \in [table : Nat, pushed : Nat, last : Nat, invalid : BOOLEAN, failed : BOOLEAN]
        /\ cached["table"] \in Nat /\ cached["pushed"] \in Nat
    BY DEF CacheInv, CacheTypes
  <2>2. CASE cached' = cached
    BY <2>1, <2>2 DEF Sources
  <2>3. CASE Invalidate
    BY <2>1, <2>3 DEF Invalidate, Sources
  <2>4. ASSUME NEW r \in Threads, Install(r)
        PROVE  Forth
    <3>1. reading[r] \in Accesses /\ LoadedSoFar(reading[r]) /\ reading[r].at = "install"
      BY <2>4 DEF Install, CacheInv, CacheTypes, LoadInv, Loading
    <3>2. /\ cached'["table"] = reading[r].table /\ cached'["pushed"] = reading[r].pushed
          /\ cached'.failed = reading[r].failed
      BY <2>4 DEF Install
    <3>3. reading[r].table \in Nat /\ reading[r].pushed \in Nat
      BY <3>1 DEF Accesses
    <3>4. /\ reading[r].failed \/ cached["table"] <= reading[r].table
          /\ cached["pushed"] <= reading[r].pushed
      BY <3>1 DEF LoadedSoFar
    <3> QED BY <2>1, <3>2, <3>3, <3>4 DEF Sources
  <2>5. ASSUME NEW r \in Threads, Access(r) \/ Lock(r) \/ LoadTable(r) \/ LoadPushed(r) \/ Use(r)
        PROVE  cached' = cached
    BY <2>5 DEF Access, Lock, LoadTable, LoadPushed, Use
  <2>6. ASSUME \/ Passes \/ ChangeRules \/ Learn \/ SubmitPurge \/ PurgeAsRuled \/ PurgeAnswered
               \/ PushRules
        PROVE  cached' = cached
    BY <2>6 DEF Passes, ChangeRules, Learn, SubmitPurge, PurgeAsRuled, PurgeAnswered, PushRules
  <2>7. ASSUME PurgeBaselined \/ HandlerInvalidates \/ PushInvalidates
        PROVE  Invalidate
    BY <2>7 DEF PurgeBaselined, HandlerInvalidates, PushInvalidates
  <2> QED BY <2>2, <2>3, <2>4, <2>5, <2>6, <2>7 DEF CacheNext
<1> QED BY <1>1, CacheInitially, CacheStep, PTL DEF CacheSpec, RulesNeverGoBack

-----------------------------------------------------------------------------
(* The process graph: its types. *)

NodeIds == PidSet \X Nat
NodeRecs == [id : NodeIds, parent : Nat]
Observations ==
  [ev : Nat, pid : PidSet, born : Nat, at : Nat, to : Targets \union {Nobody}, created : Nat,
   parent : Nat, user : Users \union {Nobody}]
Entities ==
  [node : NodeRecs, user : Users \union {Nobody}, to : Targets \union {Nobody}, ev : Nat, at : Nat]
WriteJobs ==
  [type : {"batch"}, load : Seq(Entities)] \union [type : {"edges", "full"}, load : Nat]
  \union [type : {"rule"}, load : PidSet \union Targets]

HostTypes ==
  /\ history.starts \subseteq [pid : PidSet, parent : Nat, user : Users]
  /\ "starts" \in DOMAIN history /\ history = [x \in DOMAIN history |-> history[x]]
  /\ clock \in Nat
  /\ alive \in [PidSet -> {Gone} \union [born : Nat, parent : Nat, user : Users]]
  /\ feed \in Seq(Observations) /\ seen \in Seq(Observations)

ResolverTypes ==
  /\ createTime \in [PidSet -> Nat \union {Unset}] /\ ppidOf \in [PidSet -> Nat \union {Unset}]
  /\ userOf \in [PidSet -> Users \union {Nobody, Unset}]
  /\ known \in Seq(BOOLEAN) /\ batch \in Seq(Entities)

StoreTypes ==
  /\ queue \in Seq(WriteJobs) /\ nodes \in Seq(NodeRecs)
  /\ unindexed.added \in Seq(NodeRecs)
  /\ index = [p \in PidSet |-> index[p]]

GraphTypes == HostTypes /\ ResolverTypes /\ StoreTypes

-----------------------------------------------------------------------------
(* The process graph: what a batch writes, what a deletion leaves. *)

LEMMA IdsOfAppend ==
  ASSUME NEW ns \in Seq(NodeRecs), NEW n \in NodeRecs
  PROVE  Append(ns, n) \in Seq(NodeRecs) /\ Ids(Append(ns, n)) = Ids(ns) \union {n.id}
<1> DEFINE k == Len(ns)
           s == Append(ns, n)
<1>1. s \in Seq(NodeRecs) /\ Len(s) = k + 1 /\ \A i \in 1..k : s[i] = ns[i]
  BY AppendProperties
<1>2. k \in Nat /\ DOMAIN ns = 1..k /\ DOMAIN s = 1..(k + 1) /\ s[k + 1] = n
  BY <1>1, AppendProperties, LenProperties
<1>3. 1..(k + 1) = 1..k \union {k + 1}
  BY <1>2
<1> HIDE DEF s, k
<1>4. {s[i].id : i \in 1..(k + 1)} = {ns[i].id : i \in 1..k} \union {n.id}
  BY <1>1, <1>2, <1>3
<1> QED BY <1>1, <1>2, <1>4 DEF Ids, s

LEMMA IdsOfPut ==
  ASSUME NEW ns \in Seq(NodeRecs), NEW n \in NodeRecs
  PROVE  Put(ns, n) \in Seq(NodeRecs) /\ Ids(Put(ns, n)) = Ids(ns) \union {n.id}
<1>1. CASE n.id \notin Ids(ns)
  BY <1>1, IdsOfAppend DEF Put
<1>2. CASE n.id \in Ids(ns)
  <2> DEFINE s == [i \in DOMAIN ns |-> IF ns[i].id = n.id THEN n ELSE ns[i]]
  <2>1. Len(ns) \in Nat /\ DOMAIN ns = 1..Len(ns) /\ \A i \in DOMAIN ns : ns[i] \in NodeRecs
    BY LenProperties
  <2>2. \A i \in DOMAIN ns : s[i] \in NodeRecs /\ s[i].id = ns[i].id
    BY <2>1
  <2>3. DOMAIN s = DOMAIN ns
    OBVIOUS
  <2>4. s \in Seq(NodeRecs)
    <3>1. s \in [1..Len(ns) -> NodeRecs]
      BY <2>1
    <3> QED BY <2>1, <3>1, IsASeq
  <2> HIDE DEF s
  <2>5. Ids(s) = Ids(ns)
    BY <2>2, <2>3 DEF Ids
  <2> QED BY <1>2, <2>4, <2>5 DEF Put, s
<1> QED BY <1>1, <1>2

IdsUpTo(x, n) == {x[i].id : i \in 1..n}

\* Processes x[1] .. x[n] are put into g[0] one by one, but for some that are there.
LEMMA IdsOfPuts ==
  ASSUME NEW n \in Nat, NEW x, NEW g, g[0] \in Seq(NodeRecs),
         \A i \in 1..n : /\ x[i] \in NodeRecs
                         /\ \/ g[i] = Put(g[i - 1], x[i])
                            \/ g[i] = g[i - 1] /\ x[i].id \in Ids(g[i - 1])
  PROVE  g[n] \in Seq(NodeRecs) /\ Ids(g[n]) = Ids(g[0]) \union IdsUpTo(x, n)
<1> DEFINE First(i) == IdsUpTo(x, i)
           Fine(i) == g[i] \in Seq(NodeRecs) /\ Ids(g[i]) = Ids(g[0]) \union First(i)
           T == {i \in 0..n : Fine(i)}
<1>1. 0 \in T
  <2>1. First(0) = {} /\ 0 \in 0..n
    BY DEF IdsUpTo
  <2> HIDE DEF First
  <2> QED BY <2>1
<1>2. ASSUME NEW i \in 1..n, i - 1 \in T
      PROVE  i \in T
  <2>1. g[i - 1] \in Seq(NodeRecs) /\ Ids(g[i - 1]) = Ids(g[0]) \union First(i - 1)
    BY <1>2
  <2>2. First(i) = First(i - 1) \union {x[i].id}
    <3>1. 1..i = 1..(i - 1) \union {i}
      OBVIOUS
    <3> QED BY <3>1 DEF IdsUpTo
  <2> HIDE DEF First
  <2>3. Fine(i)
    BY <2>1, <2>2, IdsOfPut, ZenonT(30)
  <2>4. i \in 0..n
    OBVIOUS
  <2> QED BY <2>3, <2>4
<1>3. n \in T
  <2>1. n \in 0..n
    OBVIOUS
  <2> HIDE DEF T
  <2>2. \A i \in 0..n : i \in T
    BY <1>1, <1>2, SetInduction
  <2> QED BY <2>1, <2>2
<1> QED BY <1>3

LEMMA DeduplicatedType ==
  ASSUME NEW load \in Seq(Entities)
  PROVE  Deduplicated(load) \in Seq(NodeRecs)
<1> DEFINE n == Len(load)
           V == Seq(NodeRecs)
           next == [y \in (1..n) \X V |-> Put(y[2], load[y[1]].node)]
           x == [i \in 1..n |-> load[i].node]
<1>1. n \in Nat /\ \A i \in 1..n : load[i].node \in NodeRecs
  <2>1. n \in Nat /\ \A i \in 1..n : load[i] \in Entities
    BY LenProperties
  <2> QED BY <2>1 DEF Entities
<1>2. next \in [(1..n) \X V -> V]
  <2>1. ASSUME NEW y \in (1..n) \X V
        PROVE  Put(y[2], load[y[1]].node) \in V
    <3>1. y[2] \in Seq(NodeRecs) /\ load[y[1]].node \in NodeRecs
      BY <1>1
    <3> QED BY <3>1, IdsOfPut
  <2> HIDE DEF n, V
  <2> QED BY <2>1
<1>3. PICK f \in [0..n -> V] :
        f[0] = <<>> /\ \A i \in 1..n : f[i] = next[<<i, f[i - 1]>>]
  <2> DEFINE base == <<>>
  <2>1. base \in V
    BY EmptySeq
  <2> HIDE DEF n, next, V, base
  <2>2. Recursions(n, V, base, next) # {}
    BY <1>1, <1>2, <2>1, RecursionExists
  <2> QED BY <2>2 DEF Recursions, base
<1> DEFINE Fills(g) ==
             g = [i \in 0..n |-> IF i = 0 THEN <<>> ELSE Put(g[i - 1], load[i].node)]
           dict == CHOOSE g : Fills(g)
<1>4. Fills(f)
  <2>1. ASSUME NEW i \in 0..n
        PROVE  f[i] = IF i = 0 THEN <<>> ELSE Put(f[i - 1], load[i].node)
    <3>1. CASE i = 0
      BY <1>3, <3>1
    <3>2. CASE i # 0
      <4>1. i \in 1..n /\ i - 1 \in 0..n
        BY <1>1, <3>2
      <4>2. <<i, f[i - 1]>> \in (1..n) \X V
        BY <4>1
      <4> QED BY <1>3, <3>2, <4>1, <4>2
    <3> QED BY <3>1, <3>2
  <2> HIDE DEF n, V, next
  <2> QED BY <2>1
<1>5. Fills(dict)
  <2> HIDE DEF Fills
  <2> QED BY <1>4
<1>6. dict[0] = <<>> /\ \A i \in 1..n : dict[i] = Put(dict[i - 1], load[i].node)
  <2> HIDE DEF dict
  <2>1. \A i \in 0..n : dict[i] = IF i = 0 THEN <<>> ELSE Put(dict[i - 1], load[i].node)
    BY <1>5
  <2> HIDE DEF n, Fills
  <2>2. 0 \in 0..n /\ \A i \in 1..n : i \in 0..n /\ i # 0
    BY <1>1
  <2> QED BY <2>1, <2>2
<1>7. Deduplicated(load) = dict[n]
  BY DEF Deduplicated
<1> HIDE DEF dict, next, V
<1>8. dict[0] \in Seq(NodeRecs)
  BY <1>6, EmptySeq
<1>9. \A i \in 1..n : x[i] \in NodeRecs /\ dict[i] = Put(dict[i - 1], x[i])
  BY <1>1, <1>6
<1> HIDE DEF x, n
<1> QED BY <1>1, <1>7, <1>8, <1>9, IdsOfPuts

LEMMA IdsOfUpsertAll ==
  ASSUME NEW ns \in Seq(NodeRecs), NEW merged \in Seq(NodeRecs)
  PROVE  /\ UpsertAll(ns, merged) \in Seq(NodeRecs)
         /\ Ids(UpsertAll(ns, merged)) = Ids(ns) \union Ids(merged)
<1> DEFINE n == Len(merged)
           V == Seq(NodeRecs)
           next == [y \in (1..n) \X V |-> Upsert(y[2], merged[y[1]])]
<1>1. n \in Nat /\ DOMAIN merged = 1..n /\ \A i \in 1..n : merged[i] \in NodeRecs
  BY LenProperties
<1>2. next \in [(1..n) \X V -> V]
  <2>1. ASSUME NEW y \in (1..n) \X V
        PROVE  Upsert(y[2], merged[y[1]]) \in V
    <3>1. y[2] \in Seq(NodeRecs) /\ merged[y[1]] \in NodeRecs
      BY <1>1
    <3> QED BY <3>1, IdsOfPut DEF Upsert
  <2> HIDE DEF n, V
  <2> QED BY <2>1
<1>3. PICK f \in [0..n -> V] :
        f[0] = ns /\ \A i \in 1..n : f[i] = next[<<i, f[i - 1]>>]
  <2>1. ns \in V
    OBVIOUS
  <2> HIDE DEF n, next, V
  <2>2. Recursions(n, V, ns, next) # {}
    BY <1>1, <1>2, <2>1, RecursionExists
  <2> QED BY <2>2 DEF Recursions
<1> DEFINE Merges(g) ==
             g = [i \in 0..n |-> IF i = 0 THEN ns ELSE Upsert(g[i - 1], merged[i])]
           after == CHOOSE g : Merges(g)
<1>4. Merges(f)
  <2>1. ASSUME NEW i \in 0..n
        PROVE  f[i] = IF i = 0 THEN ns ELSE Upsert(f[i - 1], merged[i])
    <3>1. CASE i = 0
      BY <1>3, <3>1
    <3>2. CASE i # 0
      <4>1. i \in 1..n /\ i - 1 \in 0..n
        BY <1>1, <3>2
      <4>2. <<i, f[i - 1]>> \in (1..n) \X V
        BY <4>1
      <4> QED BY <1>3, <3>2, <4>1, <4>2
    <3> QED BY <3>1, <3>2
  <2> HIDE DEF n, V, next
  <2> QED BY <2>1
<1>5. Merges(after)
  <2> HIDE DEF Merges
  <2> QED BY <1>4
<1>6. after[0] = ns /\ \A i \in 1..n : after[i] = Upsert(after[i - 1], merged[i])
  <2> HIDE DEF after
  <2>1. \A i \in 0..n : after[i] = IF i = 0 THEN ns ELSE Upsert(after[i - 1], merged[i])
    BY <1>5
  <2> HIDE DEF n, Merges
  <2>2. 0 \in 0..n /\ \A i \in 1..n : i \in 0..n /\ i # 0
    BY <1>1
  <2> QED BY <2>1, <2>2
<1>7. UpsertAll(ns, merged) = after[n]
  BY DEF UpsertAll
<1> HIDE DEF after, next, V
<1>8. \A i \in 1..n : \/ after[i] = Put(after[i - 1], merged[i])
                      \/ after[i] = after[i - 1] /\ merged[i].id \in Ids(after[i - 1])
  BY <1>6 DEF Upsert
<1>9. Ids(merged) = IdsUpTo(merged, n)
  BY <1>1 DEF Ids, IdsUpTo
<1> HIDE DEF n
<1>10. after[0] \in Seq(NodeRecs)
  BY <1>6
<1>11. after[n] \in Seq(NodeRecs) /\ Ids(after[n]) = Ids(after[0]) \union IdsUpTo(merged, n)
  BY <1>1, <1>8, <1>10, IdsOfPuts
<1> QED BY <1>6, <1>7, <1>9, <1>11

LEMMA IdsOfOnlyNodes ==
  ASSUME nodes \in Seq(NodeRecs), NEW ids
  PROVE  OnlyNodes(ids) \in Seq(NodeRecs) /\ Ids(OnlyNodes(ids)) = Ids(nodes) \intersect ids
<1> DEFINE n == Len(nodes)
           V == Seq(NodeRecs)
           next == [y \in (1..n) \X V |->
                      IF nodes[y[1]].id \in ids THEN Append(y[2], nodes[y[1]]) ELSE y[2]]
<1>1. n \in Nat /\ DOMAIN nodes = 1..n /\ \A i \in 1..n : nodes[i] \in NodeRecs
  BY LenProperties
<1>2. next \in [(1..n) \X V -> V]
  <2>1. ASSUME NEW y \in (1..n) \X V
        PROVE  (IF nodes[y[1]].id \in ids THEN Append(y[2], nodes[y[1]]) ELSE y[2]) \in V
    <3>1. y[2] \in Seq(NodeRecs) /\ nodes[y[1]] \in NodeRecs
      BY <1>1
    <3> QED BY <3>1, AppendProperties
  <2> HIDE DEF n, V
  <2> QED BY <2>1
<1>3. PICK f \in [0..n -> V] :
        f[0] = <<>> /\ \A i \in 1..n : f[i] = next[<<i, f[i - 1]>>]
  <2> DEFINE base == <<>>
  <2>1. base \in V
    BY EmptySeq
  <2> HIDE DEF n, next, V, base
  <2>2. Recursions(n, V, base, next) # {}
    BY <1>1, <1>2, <2>1, RecursionExists
  <2> QED BY <2>2 DEF Recursions, base
<1> DEFINE Keeps(g) ==
             g = [i \in 0..n |->
                    IF i = 0 THEN <<>>
                    ELSE IF nodes[i].id \in ids THEN Append(g[i - 1], nodes[i]) ELSE g[i - 1]]
           kept == CHOOSE g : Keeps(g)
<1>4. Keeps(f)
  <2>1. ASSUME NEW i \in 0..n
        PROVE  f[i] = IF i = 0 THEN <<>>
                      ELSE IF nodes[i].id \in ids THEN Append(f[i - 1], nodes[i]) ELSE f[i - 1]
    <3>1. CASE i = 0
      BY <1>3, <3>1
    <3>2. CASE i # 0
      <4>1. i \in 1..n /\ i - 1 \in 0..n
        BY <1>1, <3>2
      <4>2. <<i, f[i - 1]>> \in (1..n) \X V
        BY <4>1
      <4> QED BY <1>3, <3>2, <4>1, <4>2
    <3> QED BY <3>1, <3>2
  <2> HIDE DEF n, V, next
  <2> QED BY <2>1
<1>5. Keeps(kept)
  <2> HIDE DEF Keeps
  <2> QED BY <1>4
<1>6. /\ kept[0] = <<>>
      /\ \A i \in 1..n : kept[i] = IF nodes[i].id \in ids THEN Append(kept[i - 1], nodes[i])
                                   ELSE kept[i - 1]
  <2> HIDE DEF kept
  <2>1. \A i \in 0..n : kept[i] = IF i = 0 THEN <<>>
                                  ELSE IF nodes[i].id \in ids THEN Append(kept[i - 1], nodes[i])
                                       ELSE kept[i - 1]
    BY <1>5
  <2> HIDE DEF n, Keeps
  <2>2. 0 \in 0..n /\ \A i \in 1..n : i \in 0..n /\ i # 0
    BY <1>1
  <2> QED BY <2>1, <2>2
<1>7. OnlyNodes(ids) = kept[n]
  BY DEF OnlyNodes
<1> HIDE DEF kept
<1> DEFINE First(i) == {nodes[j].id : j \in 1..i}
           Fine(i) == kept[i] \in Seq(NodeRecs) /\ Ids(kept[i]) = First(i) \intersect ids
           T == {i \in 0..n : Fine(i)}
<1>8. 0 \in T
  <2>1. <<>> \in Seq(NodeRecs) /\ Ids(<<>>) = {}
    BY EmptySeq DEF Ids
  <2>2. First(0) = {} /\ 0 \in 0..n
    BY <1>1
  <2> HIDE DEF First, n
  <2>3. Fine(0)
    BY <1>6, <2>1, <2>2
  <2> HIDE DEF Fine
  <2> QED BY <2>2, <2>3
<1>9. ASSUME NEW i \in 1..n, i - 1 \in T
      PROVE  i \in T
  <2>1. kept[i - 1] \in Seq(NodeRecs) /\ Ids(kept[i - 1]) = First(i - 1) \intersect ids
    BY <1>9
  <2>2. First(i) = First(i - 1) \union {nodes[i].id} /\ nodes[i] \in NodeRecs
    <3>1. 1..i = 1..(i - 1) \union {i}
      BY <1>1
    <3> QED BY <1>1, <3>1
  <2>3. i \in 0..n
    BY <1>1
  <2> HIDE DEF First, n
  <2>4. Fine(i)
    <3>1. CASE nodes[i].id \in ids
      <4>1. kept[i] = Append(kept[i - 1], nodes[i])
        BY <1>6, <3>1
      <4>2. kept[i] \in Seq(NodeRecs) /\ Ids(kept[i]) = Ids(kept[i - 1]) \union {nodes[i].id}
        BY <2>1, <2>2, <4>1, IdsOfAppend
      <4> QED BY <2>1, <2>2, <3>1, <4>2
    <3>2. CASE nodes[i].id \notin ids
      <4>1. kept[i] = kept[i - 1]
        BY <1>6, <3>2
      <4> QED BY <2>1, <2>2, <3>2, <4>1
    <3> QED BY <3>1, <3>2
  <2> HIDE DEF Fine
  <2> QED BY <2>3, <2>4
<1>10. n \in T
  <2> HIDE DEF T, n
  <2>1. n \in Nat /\ n \in 0..n
    BY <1>1
  <2>2. \A i \in 0..n : i \in T
    BY <1>8, <1>9, <2>1, SetInduction
  <2> QED BY <2>1, <2>2
<1>11. First(n) = Ids(nodes)
  BY <1>1 DEF Ids
<1> QED BY <1>7, <1>10, <1>11

-----------------------------------------------------------------------------
(* The process graph: types are kept. *)

LEMMA GraphConstants ==
  /\ PidSet \subseteq Nat \ {0} /\ Ttl \in Nat
  /\ \A h \in Histories :
       /\ h.starts \subseteq [pid : PidSet, parent : Nat, user : Users]
       /\ "starts" \in DOMAIN h /\ h = [x \in DOMAIN h |-> h[x]]
BY GraphAssumption

LEMMA HostTypesKept ==
  ASSUME GraphTypes, HostStep
  PROVE  HostTypes'
<1> USE DEF GraphTypes, HostTypes
<1>1. ASSUME NEW h \in history.starts, Start(h)
      PROVE  HostTypes'
  <2>1. h \in [pid : PidSet, parent : Nat, user : Users]
    OBVIOUS
  <2>2. [born |-> clock, parent |-> h.parent, user |-> h.user] \in [born : Nat, parent : Nat, user : Users]
    BY <2>1
  <2>3. alive' \in [PidSet -> {Gone} \union [born : Nat, parent : Nat, user : Users]]
    BY <1>1, <2>2 DEF Start
  <2>4. history'.starts = history.starts \ {h} /\ DOMAIN history' = DOMAIN history
        /\ history' = [x \in DOMAIN history' |-> history'[x]]
    BY <1>1 DEF Start
  <2> QED BY <1>1, <2>3, <2>4 DEF Start
<1>2. ASSUME NEW p \in PidSet, Exit(p)
      PROVE  HostTypes'
  BY <1>2 DEF Exit
<1>3. ASSUME NEW p \in PidSet, NEW source, NEW to \in Targets \union {Nobody}, Observe(p, source, to)
      PROVE  HostTypes'
  <2> DEFINE a == alive[p]
             e == [ev |-> Len(seen) + 1, pid |-> p, born |-> a.born, at |-> clock, to |-> to,
                   created |-> CASE source = "psutil" -> a.born [] source = "ebpf" -> clock
                                 [] OTHER -> 0,
                   parent |-> IF source = "plain" THEN 0 ELSE a.parent,
                   user |-> IF source = "psutil" THEN a.user ELSE Nobody]
  <2>1. a \in [born : Nat, parent : Nat, user : Users]
    BY <1>3 DEF Observe
  <2>2. Len(seen) + 1 \in Nat
    BY LenProperties
  <2>3. (CASE source = "psutil" -> a.born [] source = "ebpf" -> clock [] OTHER -> 0) \in Nat
    BY <2>1
  <2>4. e \in Observations
    <3>1. (IF source = "plain" THEN 0 ELSE a.parent) \in Nat
      BY <2>1
    <3>2. (IF source = "psutil" THEN a.user ELSE Nobody) \in Users \union {Nobody}
      BY <2>1
    <3>3. a.born \in Nat
      BY <2>1
    <3> QED BY <2>2, <2>3, <3>1, <3>2, <3>3 DEF Observations
  <2>5. feed' = Append(feed, e) /\ seen' = Append(seen, e)
    BY <1>3 DEF Observe
  <2> HIDE DEF e
  <2>6. feed' \in Seq(Observations) /\ seen' \in Seq(Observations)
    BY <2>4, <2>5, AppendProperties
  <2> QED BY <1>3, <2>6 DEF Observe
<1>4. ASSUME GraphTick
      PROVE  HostTypes'
  BY <1>4 DEF GraphTick
<1> QED BY <1>1, <1>2, <1>3, <1>4 DEF HostStep

\* The entities of an event.
LEMMA EntityType ==
  ASSUME GraphTypes, NEW e \in Observations
  PROVE  /\ StartTime(e) \in Nat /\ ParentOf(e) \in Nat /\ UserOf(e) \in Users \union {Nobody}
         /\ CreateTimeOf(e) \in Nat \union {Unset} /\ CachedParent(e) \in Nat \union {Unset}
<1>1. e.pid \in PidSet /\ e.created \in Nat /\ e.at \in Nat /\ e.parent \in Nat
      /\ e.user \in Users \union {Nobody}
  BY DEF Observations
<1>2. alive[e.pid] = Gone \/ alive[e.pid] \in [born : Nat, parent : Nat, user : Users]
  BY <1>1 DEF GraphTypes, HostTypes
<1>3. alive[e.pid] # Gone => /\ alive[e.pid].born \in Nat /\ alive[e.pid].parent \in Nat
                             /\ alive[e.pid].user \in Users
  BY <1>2
<1>4. /\ createTime[e.pid] \in Nat \union {Unset} /\ ppidOf[e.pid] \in Nat \union {Unset}
      /\ userOf[e.pid] \in Users \union {Nobody, Unset}
  BY <1>1 DEF GraphTypes, ResolverTypes
<1>5. StartTime(e) \in Nat /\ CreateTimeOf(e) \in Nat \union {Unset}
  BY <1>1, <1>3, <1>4 DEF StartTime, CreateTimeOf
<1>6. ParentOf(e) \in Nat
  BY <1>1, <1>3, <1>4 DEF ParentOf
<1>7. CachedParent(e) \in Nat \union {Unset}
  BY <1>4, <1>6 DEF CachedParent
<1>8. UserOf(e) \in Users \union {Nobody}
  BY <1>1, <1>3, <1>4 DEF UserOf
<1> QED BY <1>5, <1>6, <1>7, <1>8

LEMMA ResolverTypesKept ==
  ASSUME GraphTypes, ProcessEvent
  PROVE  HostTypes' /\ ResolverTypes'
<1> DEFINE e == Head(feed)
           x == [node |-> [id |-> <<e.pid, StartTime(e)>>, parent |-> ParentOf(e)],
                 user |-> UserOf(e), to |-> e.to, ev |-> e.ev, at |-> e.at]
           k == e.created = 0 /\ alive[e.pid] # Gone /\ alive[e.pid].born = e.born
<1>1. e \in Observations /\ feed' \in Seq(Observations)
  BY HeadTailProperties DEF GraphTypes, HostTypes, ProcessEvent
<1>2. e.pid \in PidSet /\ e.to \in Targets \union {Nobody} /\ e.ev \in Nat /\ e.at \in Nat
  BY <1>1 DEF Observations
<1>3. /\ batch' = Append(batch, x) /\ known' = Append(known, k)
      /\ createTime' = [createTime EXCEPT ![e.pid] = CreateTimeOf(e)]
      /\ ppidOf' = [ppidOf EXCEPT ![e.pid] = CachedParent(e)]
      /\ userOf' = [userOf EXCEPT ![e.pid] = IF @ = Unset THEN UserOf(e) ELSE @]
      /\ UNCHANGED <<history, clock, alive, seen>>
  BY DEF ProcessEvent
<1> HIDE DEF e
<1>4. x \in Entities
  <2>1. <<e.pid, StartTime(e)>> \in NodeIds /\ ParentOf(e) \in Nat /\ UserOf(e) \in Users \union {Nobody}
    BY <1>1, <1>2, EntityType DEF NodeIds
  <2> QED BY <1>2, <2>1 DEF Entities, NodeRecs
<1>5. k \in BOOLEAN
  OBVIOUS
<1> HIDE DEF x, k
<1>6. batch' \in Seq(Entities) /\ known' \in Seq(BOOLEAN)
  BY <1>3, <1>4, <1>5, AppendProperties DEF GraphTypes, ResolverTypes
<1>7. createTime' \in [PidSet -> Nat \union {Unset}] /\ ppidOf' \in [PidSet -> Nat \union {Unset}]
  BY <1>1, <1>2, <1>3, EntityType DEF GraphTypes, ResolverTypes
<1>8. userOf' \in [PidSet -> Users \union {Nobody, Unset}]
  <2>1. userOf[e.pid] \in Users \union {Nobody, Unset} /\ UserOf(e) \in Users \union {Nobody, Unset}
    BY <1>1, <1>2, EntityType DEF GraphTypes, ResolverTypes
  <2> QED BY <1>2, <1>3, <2>1 DEF GraphTypes, ResolverTypes
<1> QED BY <1>1, <1>3, <1>6, <1>7, <1>8 DEF GraphTypes, HostTypes, ResolverTypes

LEMMA SubmitType ==
  ASSUME NEW j \in WriteJobs, queue \in Seq(WriteJobs), Submit(j)
  PROVE  queue' \in Seq(WriteJobs)
BY AppendProperties DEF Submit

LEMMA SubmittedType ==
  ASSUME GraphTypes, SubmitBatch \/ Reap
  PROVE  queue' \in Seq(WriteJobs)
<1> USE DEF GraphTypes, StoreTypes
<1>1. CASE SubmitBatch
  <2> DEFINE j == [type |-> "batch", load |-> batch]
  <2>1. j \in WriteJobs
    BY DEF WriteJobs, ResolverTypes
  <2> QED BY <1>1, <2>1, SubmitType DEF SubmitBatch
<1>2. ASSUME NEW type \in history.jobs \intersect {"edges", "full"}, SubmitPrune(type, Ttl)
      PROVE  queue' \in Seq(WriteJobs)
  <2> DEFINE j == [type |-> type, load |-> Ttl]
  <2>1. j \in WriteJobs
    BY GraphConstants DEF WriteJobs
  <2> QED BY <1>2, <2>1, SubmitType DEF SubmitPrune
<1>3. ASSUME NEW x \in PidSet \union Targets, SubmitPrune("rule", x)
      PROVE  queue' \in Seq(WriteJobs)
  <2> DEFINE j == [type |-> "rule", load |-> x]
  <2>1. j \in WriteJobs
    BY DEF WriteJobs
  <2> QED BY <1>3, <2>1, SubmitType DEF SubmitPrune
<1> QED BY <1>1, <1>2, <1>3 DEF Reap

\* What a job leaves of the nodes, and what of that the index has to be told; the
\* index is never told of some nodes that are lost.
Told(before, after, told, silent) ==
  /\ after \in Seq(NodeRecs) /\ told.added \in Seq(NodeRecs)
  /\ Ids(told.added) \subseteq Ids(after)
  /\ Ids(after) \subseteq Ids(before) \union Ids(told.added)
  /\ Ids(before) \subseteq Ids(after) \union told.deleted \union silent
  /\ told.deleted \intersect Ids(after) = {}
  /\ told.added = <<>> \/ told.deleted = {}

LEMMA JobTells ==
  ASSUME GraphTypes, WriteJob
  PROVE  queue' \in Seq(WriteJobs) /\ Told(nodes, nodes', unindexed', untold')
<1> DEFINE j == Head(queue)
<1>1. j \in WriteJobs /\ queue' \in Seq(WriteJobs)
  BY HeadTailProperties DEF GraphTypes, StoreTypes, WriteJob
<1>2. nodes \in Seq(NodeRecs)
  BY DEF GraphTypes, StoreTypes
<1>3. <<>> \in Seq(NodeRecs) /\ Ids(<<>>) = {}
  BY EmptySeq DEF Ids
<1>4. CASE j.type = "batch" /\ WriteBatch(j.load)
  <2>1. j.load \in Seq(Entities)
    BY <1>1, <1>4 DEF WriteJobs
  <2> DEFINE merged == Deduplicated(j.load)
  <2>2. merged \in Seq(NodeRecs)
    BY <2>1, DeduplicatedType
  <2>3. nodes' = UpsertAll(nodes, merged) /\ unindexed' = [added |-> merged, deleted |-> {}]
    BY <1>4 DEF WriteBatch
  <2> HIDE DEF merged
  <2>4. nodes' \in Seq(NodeRecs) /\ Ids(nodes') = Ids(nodes) \union Ids(merged)
    BY <1>2, <2>2, <2>3, IdsOfUpsertAll
  <2>5. unindexed'.added = merged /\ unindexed'.deleted = {}
    BY <2>3
  <2> QED BY <1>1, <2>2, <2>4, <2>5 DEF Told
<1>5. CASE PruneEdges(j.load)
  BY <1>1, <1>2, <1>3, <1>5 DEF PruneEdges, Synced, Told
<1>6. CASE PruneFull(j.load)
  <2>1. PICK ids : nodes' = OnlyNodes(ids)
                   /\ unindexed' = [added |-> <<>>, deleted |-> Ids(nodes) \ ids]
    BY <1>6 DEF PruneFull
  <2>2. nodes' \in Seq(NodeRecs) /\ Ids(nodes') = Ids(nodes) \intersect ids
    BY <1>2, <2>1, IdsOfOnlyNodes
  <2>3. unindexed'.added = <<>> /\ unindexed'.deleted = Ids(nodes) \ ids
    BY <2>1
  <2> QED BY <1>1, <1>3, <2>2, <2>3 DEF Told
<1>7. CASE PurgeByRule(j.load)
  <2>1. PICK gone : nodes' = OnlyNodes(Ids(nodes) \ gone)
                   /\ unindexed' = [added |-> <<>>, deleted |-> gone \intersect Ids(nodes)]
    BY <1>7 DEF PurgeByRule
  <2>2. nodes' \in Seq(NodeRecs) /\ Ids(nodes') = Ids(nodes) \intersect (Ids(nodes) \ gone)
    BY <1>2, <2>1, IdsOfOnlyNodes
  <2>3. unindexed'.added = <<>> /\ unindexed'.deleted = gone \intersect Ids(nodes)
    BY <2>1
  <2> QED BY <1>1, <1>3, <2>2, <2>3 DEF Told
<1>8. CASE PurgeFails(j.load)
  <2>1. PICK gone : /\ nodes' = OnlyNodes(Ids(nodes) \ gone)
                    /\ untold' = untold \union gone
    BY <1>8 DEF PurgeFails
  <2>2. nodes' \in Seq(NodeRecs) /\ Ids(nodes') = Ids(nodes) \intersect (Ids(nodes) \ gone)
    BY <1>2, <2>1, IdsOfOnlyNodes
  <2>3. unindexed'.added = <<>> /\ unindexed'.deleted = {}
    BY <1>8 DEF PurgeFails, WriteJob, Synced
  <2> QED BY <1>1, <1>3, <2>1, <2>2, <2>3 DEF Told
<1> QED BY <1>4, <1>5, <1>6, <1>7, <1>8 DEF WriteJob

-----------------------------------------------------------------------------
(* The index by pid. *)

\* What the index does not have yet is what the writer has just added; what it has
\* just deleted is not in the graph.
CoverInv ==
  /\ \A id \in Ids(nodes) \ raced : id \in index[id[1]] \union Ids(unindexed.added)
  /\ unindexed.deleted \intersect Ids(nodes) = {}
  /\ unindexed.added = <<>> \/ unindexed.deleted = {}

LEMMA IdsOfNodes ==
  ASSUME NEW ns \in Seq(NodeRecs)
  PROVE  \A id \in Ids(ns) : id \in NodeIds /\ id[1] \in PidSet
<1>1. \A i \in DOMAIN ns : ns[i] \in NodeRecs
  BY LenProperties
<1>2. \A i \in DOMAIN ns : ns[i].id \in NodeIds
  BY <1>1 DEF NodeRecs
<1> QED BY <1>2 DEF Ids, NodeIds

LEMMA JobCovered ==
  ASSUME GraphTypes, CoverInv, WriteJob, UNCHANGED raced
  PROVE  StoreTypes' /\ CoverInv'
<1>1. queue' \in Seq(WriteJobs) /\ Told(nodes, nodes', unindexed', untold') /\ UNCHANGED index
  BY JobTells DEF WriteJob
<1>2. unindexed = Synced /\ Ids(unindexed.added) = {}
  BY DEF WriteJob, Synced, Ids
<1>3. StoreTypes'
  BY <1>1 DEF StoreTypes, GraphTypes, Told
<1>4. \A id \in Ids(nodes') \ raced : id \in index[id[1]] \union Ids(unindexed'.added)
  BY <1>1, <1>2 DEF CoverInv, Told
<1> QED BY <1>1, <1>3, <1>4 DEF CoverInv, Told, Ids

LEMMA IndexCovered ==
  ASSUME GraphTypes, CoverInv, UpdateIndex, UNCHANGED <<queue, nodes, raced>>
  PROVE  StoreTypes' /\ CoverInv'
<1>1. nodes \in Seq(NodeRecs) /\ unindexed.added \in Seq(NodeRecs)
  BY DEF GraphTypes, StoreTypes
<1>2. unindexed' = Synced /\ unindexed'.added = <<>> /\ unindexed'.deleted = {}
      /\ Ids(unindexed'.added) = {} /\ <<>> \in Seq(NodeRecs)
  BY EmptySeq DEF UpdateIndex, Synced, Ids
<1>3. CASE unindexed.added # <<>> /\ OnUpsert(unindexed.added)
  <2>1. index' = [p \in PidSet |-> index[p] \union {id \in Ids(unindexed.added) : id[1] = p}]
    BY <1>3 DEF OnUpsert
  <2>2. \A id \in Ids(nodes) \ raced : id \in index'[id[1]]
    BY <1>1, <2>1, IdsOfNodes DEF CoverInv
  <2>3. StoreTypes'
    BY <1>2, <2>1 DEF StoreTypes, GraphTypes
  <2> QED BY <1>2, <2>2, <2>3 DEF CoverInv, Ids
<1>4. CASE unindexed.deleted # {} /\ RemoveNodes(unindexed.deleted)
  <2>1. index' = [p \in PidSet |-> index[p] \ unindexed.deleted]
    BY <1>4 DEF RemoveNodes
  <2>2. Ids(unindexed.added) = {}
    BY <1>4 DEF CoverInv, Ids
  <2>3. \A id \in Ids(nodes) \ raced : id \in index'[id[1]]
    BY <1>1, <2>1, <2>2, IdsOfNodes DEF CoverInv
  <2>4. StoreTypes'
    BY <1>2, <2>1 DEF StoreTypes, GraphTypes
  <2> QED BY <1>2, <2>3, <2>4 DEF CoverInv, Ids
<1> QED BY <1>3, <1>4 DEF UpdateIndex

LEMMA EvictionCovered ==
  ASSUME GraphTypes, CoverInv, NEW r \in Readers, Evict(r), UNCHANGED <<queue, nodes>>
  PROVE  StoreTypes' /\ CoverInv'
<1>1. PICK gone : gone = read[r].stale
  OBVIOUS
<1>2. UNCHANGED unindexed /\ raced' = raced \union (gone \intersect Ids(nodes))
  BY <1>1 DEF Evict
<1>3. nodes \in Seq(NodeRecs) /\ index = [p \in PidSet |-> index[p]]
  BY DEF GraphTypes, StoreTypes
<1>4. index' = [p \in PidSet |-> index[p] \ gone]
  BY <1>1, <1>3 DEF Evict, RemoveNodes
<1>5. \A id \in Ids(nodes) \ raced' : id \in index'[id[1]] \union Ids(unindexed.added)
  BY <1>2, <1>3, <1>4, IdsOfNodes DEF CoverInv
<1>6. StoreTypes'
  BY <1>2, <1>4 DEF StoreTypes, GraphTypes
<1> QED BY <1>2, <1>5, <1>6 DEF CoverInv, Ids

\* A step leaves the types, and an index that covers the graph.
LEMMA CoverStep ==
  ASSUME GraphTypes, CoverInv, [GraphNext]_graphVars
  PROVE  GraphTypes' /\ CoverInv'
<1>1. ASSUME UNCHANGED <<queue, nodes, unindexed, index, raced>>
      PROVE  StoreTypes' /\ CoverInv'
  BY <1>1 DEF GraphTypes, StoreTypes, CoverInv, Ids
<1>2. ASSUME UNCHANGED hostVars
      PROVE  HostTypes'
  BY <1>2 DEF GraphTypes, HostTypes, hostVars
<1>3. ASSUME UNCHANGED cacheVars
      PROVE  ResolverTypes'
  BY <1>3 DEF GraphTypes, ResolverTypes, cacheVars
<1>4. ASSUME UNCHANGED <<nodes, unindexed, index, raced>>, queue' \in Seq(WriteJobs)
      PROVE  StoreTypes' /\ CoverInv'
  <2>1. StoreTypes'
    BY <1>4 DEF GraphTypes, StoreTypes
  <2>2. CoverInv'
    BY <1>4 DEF CoverInv, Ids
  <2> QED BY <2>1, <2>2
<1>5. CASE HostStep
  BY <1>1, <1>3, <1>5, HostTypesKept DEF HostStep, GraphTypes, dbVars, indexVars, readVars
<1>6. CASE ProcessEvent /\ UNCHANGED <<queue, dbVars, indexVars, readVars, prunes>>
  BY <1>1, <1>6, ResolverTypesKept DEF GraphTypes, dbVars, indexVars, readVars
<1>7. CASE SubmitBatch /\ UNCHANGED <<hostVars, dbVars, indexVars, readVars, prunes>>
  <2>1. ResolverTypes'
    BY <1>7, EmptySeq DEF SubmitBatch, GraphTypes, ResolverTypes
  <2> QED BY <1>2, <1>4, <1>7, <2>1, SubmittedType DEF GraphTypes, dbVars, indexVars, readVars
<1>8. CASE Reap
  BY <1>2, <1>3, <1>4, <1>8, SubmittedType DEF Reap, GraphTypes, dbVars, indexVars, readVars
<1>9. CASE WriteJob /\ UNCHANGED <<hostVars, cacheVars, readVars, prunes>>
  BY <1>2, <1>3, <1>9, JobCovered DEF GraphTypes, readVars
<1>10. CASE UpdateIndex /\ UNCHANGED <<hostVars, cacheVars, queue, dbVars, readVars, prunes>>
  BY <1>2, <1>3, <1>10, IndexCovered DEF GraphTypes, readVars, dbVars
<1>11. ASSUME NEW r \in Readers, Query(r)
       PROVE  GraphTypes' /\ CoverInv'
  <2>1. CASE \E p \in PidSet : BeginRead(r, p) /\ UNCHANGED <<hostVars, cacheVars, queue, dbVars, indexVars, prunes>>
    BY <1>1, <1>2, <1>3, <2>1 DEF BeginRead, GraphTypes, dbVars, indexVars
  <2>2. CASE LookUp(r) /\ UNCHANGED <<hostVars, cacheVars, queue, dbVars, indexVars, prunes>>
    BY <1>1, <1>2, <1>3, <2>2 DEF LookUp, GraphTypes, dbVars, indexVars
  <2>3. CASE Evict(r) /\ UNCHANGED <<hostVars, cacheVars, queue, dbVars, prunes>>
    BY <1>2, <1>3, <2>3, EvictionCovered DEF GraphTypes, dbVars
  <2> QED BY <1>11, <2>1, <2>2, <2>3 DEF Query
<1>12. CASE UNCHANGED graphVars
  BY <1>1, <1>2, <1>3, <1>12 DEF graphVars, GraphTypes, dbVars, indexVars, readVars
<1> QED BY <1>5, <1>6, <1>7, <1>8, <1>9, <1>10, <1>11, <1>12 DEF GraphNext, Process, Write

LEMMA GraphInitially == GraphInit => GraphTypes /\ CoverInv
<1> SUFFICES ASSUME GraphInit
             PROVE  GraphTypes /\ CoverInv
  OBVIOUS
<1> USE DEF GraphInit
<1>1. \A S : <<>> \in Seq(S)
  BY EmptySeq
<1>2. HostTypes
  BY <1>1, GraphConstants DEF HostTypes
<1>3. ResolverTypes
  BY <1>1 DEF ResolverTypes
<1>4. unindexed.added = <<>> /\ unindexed.deleted = {} /\ Ids(<<>>) = {}
  BY DEF Synced, Ids
<1>5. StoreTypes
  BY <1>1, <1>4 DEF StoreTypes
<1> QED BY <1>2, <1>3, <1>4, <1>5 DEF GraphTypes, CoverInv

\* Once the writer has told the index what it wrote and deleted, a query by pid finds
\* every process of the graph, but for one that a reader evicted in a race.
THEOREM QueriesFindProcesses == GraphSpec => []IndexCoversGraph
<1>1. GraphTypes /\ CoverInv => IndexCoversGraph
  BY DEF CoverInv, IndexCoversGraph, Indexed, Synced, Ids
<1>2. GraphTypes /\ CoverInv /\ [GraphNext]_graphVars => (GraphTypes /\ CoverInv)'
  BY CoverStep
<1> QED BY <1>1, <1>2, GraphInitially, PTL DEF GraphSpec

\* What the index names is in the graph, was deleted by a job that failed, or has been
\* deleted and the index is about to be told; what the writer is about to add to it is in
\* the graph; a child has an id.
NamesInv ==
  /\ \A p \in PidSet : index[p] \subseteq Ids(nodes) \union untold \union unindexed.deleted
  /\ Ids(unindexed.added) \subseteq Ids(nodes)
  /\ \A p \in PidSet : kids[p] \subseteq PidSet /\ \A c \in kids[p] : index[c] # {}

LEMMA JobNames ==
  ASSUME GraphTypes, NamesInv, WriteJob
  PROVE  NamesInv'
<1>1. Told(nodes, nodes', unindexed', untold') /\ UNCHANGED <<index, kids>>
  BY JobTells DEF WriteJob
<1>2. unindexed.deleted = {} /\ untold \subseteq untold'
  BY DEF WriteJob, Synced, PurgeFails
<1>3. ASSUME NEW p \in PidSet
      PROVE  index'[p] \subseteq Ids(nodes') \union untold' \union unindexed'.deleted
  BY <1>1, <1>2 DEF NamesInv, Told
<1>4. Ids(unindexed'.added) \subseteq Ids(nodes')
  BY <1>1 DEF Told
<1>5. \A p \in PidSet : kids'[p] \subseteq PidSet /\ \A c \in kids'[p] : index'[c] # {}
  BY <1>1 DEF NamesInv
<1> QED BY <1>3, <1>4, <1>5 DEF NamesInv, Ids

\* A pid that has lost its last id is no child of anyone.
LEMMA RemovalNames ==
  ASSUME GraphTypes, NamesInv, NEW gone, RemoveNodes(gone)
  PROVE  /\ \A p \in PidSet : index'[p] = index[p] \ gone
         /\ untold' = untold \ gone
         /\ \A p \in PidSet : kids'[p] \subseteq PidSet /\ \A c \in kids'[p] : index'[c] # {}
<1> DEFINE empty == {p \in PidSet : index[p] # {} /\ index[p] \ gone = {}}
<1>1. /\ index' = [p \in PidSet |-> index[p] \ gone] /\ untold' = untold \ gone
      /\ kids' = [p \in PidSet |-> kids[p] \ empty]
  <2>1. \A p \in PidSet : [q \in PidSet |-> index[q] \ gone][p] = index[p] \ gone
    OBVIOUS
  <2> QED BY <2>1 DEF RemoveNodes
<1>2. ASSUME NEW p \in PidSet, NEW c \in kids'[p]
      PROVE  c \in PidSet /\ index'[c] # {}
  <2>1. c \in kids[p] /\ c \notin empty
    BY <1>1
  <2>2. c \in PidSet /\ index[c] # {}
    BY <2>1 DEF NamesInv
  <2> QED BY <1>1, <2>1, <2>2
<1> QED BY <1>1, <1>2

LEMMA IndexNames ==
  ASSUME GraphTypes, CoverInv, NamesInv, UpdateIndex, UNCHANGED nodes
  PROVE  NamesInv'
<1>1. unindexed'.added = <<>> /\ unindexed'.deleted = {} /\ Ids(unindexed'.added) = {}
  BY DEF UpdateIndex, Synced, Ids
<1>2. CASE unindexed.added # <<>> /\ OnUpsert(unindexed.added)
  <2> DEFINE added == unindexed.added
             born(p) == {added[i].id[1] : i \in {j \in DOMAIN added : added[j].parent = p}}
  <2>1. /\ index' = [p \in PidSet |-> index[p] \union {id \in Ids(added) : id[1] = p}]
        /\ kids' = [p \in PidSet |-> kids[p] \union born(p)]
        /\ UNCHANGED untold
    BY <1>2 DEF OnUpsert
  <2>2. \A id \in Ids(added) : id[1] \in PidSet
    BY IdsOfNodes DEF GraphTypes, StoreTypes
  <2>3. ASSUME NEW p \in PidSet
        PROVE  index'[p] \subseteq Ids(nodes) \union untold'
    <3>1. unindexed.deleted = {} /\ index[p] \subseteq Ids(nodes) \union untold \union unindexed.deleted
          /\ Ids(added) \subseteq Ids(nodes)
      BY <1>2 DEF NamesInv, CoverInv
    <3> QED BY <2>1, <3>1
  <2>4. ASSUME NEW p \in PidSet, NEW c \in kids'[p]
        PROVE  c \in PidSet /\ index'[c] # {}
    <3>1. CASE c \in kids[p]
      BY <2>1, <3>1 DEF NamesInv
    <3>2. CASE c \in born(p)
      <4>1. PICK i \in DOMAIN added : c = added[i].id[1]
        BY <3>2
      <4>2. added[i].id \in Ids(added)
        BY DEF Ids
      <4> QED BY <2>1, <2>2, <4>1, <4>2
    <3> QED BY <2>1, <3>1, <3>2
  <2> QED BY <1>1, <2>3, <2>4 DEF NamesInv, Ids
<1>3. CASE unindexed.deleted # {} /\ RemoveNodes(unindexed.deleted)
  <2>1. PICK gone : gone = unindexed.deleted
    OBVIOUS
  <2>2. /\ \A p \in PidSet : index'[p] = index[p] \ gone
        /\ untold' = untold \ gone
        /\ \A p \in PidSet : kids'[p] \subseteq PidSet /\ \A c \in kids'[p] : index'[c] # {}
    BY <1>3, <2>1, RemovalNames
  <2>3. \A p \in PidSet : index'[p] \subseteq Ids(nodes) \union untold'
    BY <2>1, <2>2 DEF NamesInv
  <2> QED BY <1>1, <2>2, <2>3 DEF NamesInv, Ids
<1> QED BY <1>2, <1>3 DEF UpdateIndex

LEMMA EvictionNames ==
  ASSUME GraphTypes, NamesInv, NEW r \in Readers, Evict(r), UNCHANGED nodes
  PROVE  NamesInv'
<1>1. PICK gone : gone = read[r].stale
  OBVIOUS
<1>2. UNCHANGED unindexed
  BY DEF Evict
<1>3. CASE gone = {}
  BY <1>1, <1>2, <1>3 DEF Evict, NamesInv, Ids
<1>4. CASE gone # {}
  <2>1. /\ \A p \in PidSet : index'[p] = index[p] \ gone
        /\ untold' = untold \ gone
        /\ \A p \in PidSet : kids'[p] \subseteq PidSet /\ \A c \in kids'[p] : index'[c] # {}
    <3>1. RemoveNodes(gone)
      BY <1>1, <1>4 DEF Evict
    <3> QED BY <3>1, RemovalNames
  <2> QED BY <1>2, <2>1 DEF NamesInv, Ids
<1> QED BY <1>3, <1>4

LEMMA NamesStep ==
  ASSUME GraphTypes, CoverInv, NamesInv, [GraphNext]_graphVars
  PROVE  NamesInv'
<1>1. ASSUME UNCHANGED <<nodes, index, kids, unindexed, untold>>
      PROVE  NamesInv'
  BY <1>1 DEF NamesInv, Ids
<1>2. CASE HostStep \/ Reap
  BY <1>1, <1>2 DEF HostStep, Reap, dbVars, indexVars
<1>3. CASE Process
  BY <1>1, <1>3 DEF Process, dbVars, indexVars
<1>4. CASE WriteJob
  BY <1>4, JobNames
<1>5. CASE UpdateIndex /\ UNCHANGED dbVars
  BY <1>5, IndexNames DEF dbVars
<1>6. ASSUME NEW r \in Readers, Query(r)
      PROVE  NamesInv'
  <2>1. CASE Evict(r) /\ UNCHANGED dbVars
    BY <2>1, EvictionNames DEF dbVars
  <2>2. CASE UNCHANGED <<dbVars, indexVars>>
    BY <1>1, <2>2 DEF dbVars, indexVars
  <2> QED BY <1>6, <2>1, <2>2 DEF Query
<1>7. CASE UNCHANGED graphVars
  BY <1>1, <1>7 DEF graphVars, dbVars, indexVars
<1> QED BY <1>2, <1>3, <1>4, <1>5, <1>6, <1>7 DEF GraphNext, Write

\* What the index names and the graph does not have, a deletion that failed has left
\* there, and no reader has met it since; the children it names have ids.
THEOREM IndexHasFewGhosts == GraphSpec => []IndexNamesGraph
<1> DEFINE Inv == GraphTypes /\ CoverInv /\ NamesInv
<1>1. GraphInit => Inv
  <2>1. GraphInit => NamesInv
    <3> SUFFICES ASSUME GraphInit
                 PROVE  NamesInv
      OBVIOUS
    <3>1. Ids(<<>>) = {} /\ Synced.added = <<>>
      BY DEF Ids, Synced
    <3> QED BY <3>1 DEF GraphInit, NamesInv
  <2> QED BY <2>1, GraphInitially
<1>2. Inv /\ [GraphNext]_graphVars => Inv'
  BY CoverStep, NamesStep
<1>3. Inv => IndexNamesGraph
  BY DEF NamesInv, IndexNamesGraph, Indexed, Synced
<1> QED BY <1>1, <1>2, <1>3, PTL DEF GraphSpec

-----------------------------------------------------------------------------
(* Events and their processes. *)

ItsProcess(ev) == <<seen[ev].pid, seen[ev].born>>
Attributed(x) == x.ev \in DOMAIN known /\ (known[x.ev] => x.node.id = ItsProcess(x.ev))
AllAttributed(load) == \A k \in DOMAIN load : Attributed(load[k])
OnIts(e) == e.ev \in DOMAIN known /\ (known[e.ev] => ItsProcess(e.ev) \in {e.from, e.to})

\* Events are numbered as they are seen, and processed in that order.
NumberInv ==
  /\ Len(known) + Len(feed) = Len(seen)
  /\ \A i \in DOMAIN seen : seen[i].ev = i
  /\ \A i \in DOMAIN feed : feed[i] = seen[Len(known) + i]

\* An event whose process was there goes to its node, all the way to the graph.
AttributedInv ==
  /\ AllAttributed(batch)
  /\ \A i \in DOMAIN queue : queue[i].type = "batch" => AllAttributed(queue[i].load)
  /\ \A e \in edges : OnIts(e)

\* What is known of the events only grows.
Grows ==
  \A ev \in DOMAIN known : /\ ev \in DOMAIN known' /\ known'[ev] = known[ev]
                           /\ ItsProcess(ev)' = ItsProcess(ev)

LEMMA AttributionLasts ==
  ASSUME Grows
  PROVE  /\ \A x : Attributed(x) => Attributed(x)'
         /\ \A load : AllAttributed(load) => AllAttributed(load)'
         /\ \A e : OnIts(e) => OnIts(e)'
<1>1. \A x : Attributed(x) => Attributed(x)'
  BY DEF Grows, Attributed, ItsProcess
<1>2. \A load : AllAttributed(load) => AllAttributed(load)'
  BY <1>1 DEF AllAttributed
<1>3. \A e : OnIts(e) => OnIts(e)'
  BY DEF Grows, OnIts, ItsProcess
<1> QED BY <1>1, <1>2, <1>3

LEMMA AppendFacts ==
  ASSUME NEW S, NEW s \in Seq(S), NEW e
  PROVE  /\ Len(Append(s, e)) = Len(s) + 1 /\ DOMAIN Append(s, e) = 1..(Len(s) + 1)
         /\ \A i \in 1..Len(s) : Append(s, e)[i] = s[i]
         /\ Append(s, e)[Len(s) + 1] = e
<1>1. s \in Seq(S \union {e}) /\ e \in S \union {e}
  BY SeqMonotonic
<1> QED BY <1>1, AppendProperties, LenProperties

LEMMA ObservedInOrder ==
  ASSUME GraphTypes, NumberInv, AttributedInv, HostStep
  PROVE  NumberInv' /\ AttributedInv'
<1>1. UNCHANGED <<known, batch, queue, edges>>
  BY DEF HostStep, cacheVars, dbVars
<1>2. feed \in Seq(Observations) /\ seen \in Seq(Observations) /\ known \in Seq(BOOLEAN)
  BY DEF GraphTypes, HostTypes, ResolverTypes
<1>3. /\ Len(feed) \in Nat /\ DOMAIN feed = 1..Len(feed) /\ Len(seen) \in Nat
      /\ DOMAIN seen = 1..Len(seen) /\ Len(known) \in Nat /\ DOMAIN known = 1..Len(known)
  BY <1>2, LenProperties
<1>4. CASE UNCHANGED <<feed, seen>>
  <2>1. Grows
    BY <1>1, <1>4 DEF Grows, ItsProcess
  <2>2. AttributedInv'
    BY <1>1, <2>1, AttributionLasts DEF AttributedInv, AllAttributed
  <2> QED BY <1>1, <1>4, <2>2 DEF NumberInv
<1>5. ASSUME NEW p \in PidSet, NEW source, NEW to, Observe(p, source, to)
      PROVE  NumberInv' /\ AttributedInv'
  <2>1. PICK e : e.ev = Len(seen) + 1 /\ feed' = Append(feed, e) /\ seen' = Append(seen, e)
    BY <1>5 DEF Observe
  <2>2. /\ Len(feed') = Len(feed) + 1 /\ DOMAIN feed' = 1..(Len(feed) + 1)
        /\ \A i \in 1..Len(feed) : feed'[i] = feed[i]
        /\ feed'[Len(feed) + 1] = e
    BY <1>2, <2>1, AppendFacts
  <2>3. /\ Len(seen') = Len(seen) + 1 /\ DOMAIN seen' = 1..(Len(seen) + 1)
        /\ \A i \in 1..Len(seen) : seen'[i] = seen[i]
        /\ seen'[Len(seen) + 1] = e
    BY <1>2, <2>1, AppendFacts
  <2>4. NumberInv'
    <3>1. Len(known') + Len(feed') = Len(seen')
      <4>1. Len(known) + Len(feed) = Len(seen)
        BY DEF NumberInv
      <4>2. Len(known') = Len(known) /\ Len(feed') = Len(feed) + 1 /\ Len(seen') = Len(seen) + 1
        BY <1>1, <2>2, <2>3
      <4> QED BY <1>3, <4>1, <4>2
    <3>2. \A i \in DOMAIN seen' : seen'[i].ev = i
      BY <1>3, <2>1, <2>3 DEF NumberInv
    <3>3. ASSUME NEW i \in DOMAIN feed'
          PROVE  feed'[i] = seen'[Len(known) + i]
      <4>1. CASE i = Len(feed) + 1
        <5>1. Len(known) + i = Len(seen) + 1
          BY <1>3, <4>1 DEF NumberInv
        <5> QED BY <2>2, <2>3, <4>1, <5>1
      <4>2. CASE i \in 1..Len(feed)
        <5>1. feed[i] = seen[Len(known) + i] /\ Len(known) + i \in 1..Len(seen)
          BY <1>3, <4>2 DEF NumberInv
        <5> QED BY <2>2, <2>3, <4>2, <5>1
      <4> QED BY <1>3, <2>2, <4>1, <4>2
    <3> QED BY <1>1, <3>1, <3>2, <3>3 DEF NumberInv
  <2>5. Grows
    <3>1. \A ev \in DOMAIN known : ev \in 1..Len(seen)
      BY <1>3 DEF NumberInv
    <3> QED BY <1>1, <2>3, <3>1 DEF Grows, ItsProcess
  <2>6. AttributedInv'
    BY <1>1, <2>5, AttributionLasts DEF AttributedInv, AllAttributed
  <2> QED BY <2>4, <2>6
<1> QED BY <1>4, <1>5 DEF HostStep, Start, Exit, GraphTick

\* An event that is processed while its process is alive is attributed to it.
LEMMA ProcessedOnIts ==
  ASSUME GraphTypes, NumberInv, AttributedInv, ProcessEvent, UNCHANGED <<queue, edges>>
  PROVE  NumberInv' /\ AttributedInv'
<1> DEFINE e == Head(feed)
           id == <<e.pid, StartTime(e)>>
           x == [node |-> [id |-> id, parent |-> ParentOf(e)],
                 user |-> UserOf(e), to |-> e.to, ev |-> e.ev, at |-> e.at]
           k == e.created = 0 /\ alive[e.pid] # Gone /\ alive[e.pid].born = e.born
<1>1. /\ feed # <<>> /\ feed' = Tail(feed) /\ batch' = Append(batch, x)
      /\ known' = Append(known, k) /\ UNCHANGED seen
  BY DEF ProcessEvent
<1>2. /\ feed \in Seq(Observations) /\ seen \in Seq(Observations) /\ known \in Seq(BOOLEAN)
      /\ batch \in Seq(Entities)
  BY DEF GraphTypes, HostTypes, ResolverTypes
<1>3. /\ Len(feed) \in Nat \ {0} /\ DOMAIN feed = 1..Len(feed) /\ Len(seen) \in Nat
      /\ DOMAIN seen = 1..Len(seen) /\ Len(known) \in Nat /\ DOMAIN known = 1..Len(known)
  BY <1>1, <1>2, LenProperties, EmptySeq
<1>4. /\ Len(feed') = Len(feed) - 1 /\ DOMAIN feed' = 1..(Len(feed) - 1)
      /\ \A i \in 1..(Len(feed) - 1) : feed'[i] = feed[i + 1]
  BY <1>1, <1>2, HeadTailProperties, LenProperties
<1>5. e = feed[1]
  BY <1>1, <1>2
<1>6. e = seen[Len(known) + 1] /\ e.ev = Len(known) + 1
  <2>1. 1 \in DOMAIN feed /\ Len(known) + 1 \in DOMAIN seen
    BY <1>3 DEF NumberInv
  <2> QED BY <1>5, <2>1 DEF NumberInv
<1>7. k => id = ItsProcess(e.ev)
  <2>1. k => StartTime(e) = e.born
    BY <1>2 DEF StartTime
  <2> QED BY <1>6, <2>1 DEF ItsProcess
<1>8. x.ev = e.ev /\ x.node.id = id
  OBVIOUS
<1> HIDE DEF x, k, e, id
<1>9. /\ Len(known') = Len(known) + 1 /\ DOMAIN known' = 1..(Len(known) + 1)
      /\ \A i \in 1..Len(known) : known'[i] = known[i]
      /\ known'[Len(known) + 1] = k
  BY <1>1, <1>2, AppendFacts
<1>10. /\ DOMAIN batch' = 1..(Len(batch) + 1) /\ DOMAIN batch = 1..Len(batch) /\ Len(batch) \in Nat
       /\ \A i \in 1..Len(batch) : batch'[i] = batch[i]
       /\ batch'[Len(batch) + 1] = x
  BY <1>1, <1>2, AppendFacts, LenProperties
<1>11. NumberInv'
  <2>1. Len(known) + Len(feed) = Len(seen)
    BY DEF NumberInv
  <2>2. Len(known') = Len(known) + 1 /\ Len(feed') = Len(feed) - 1
    BY <1>4, <1>9
  <2>3. Len(known') + Len(feed') = Len(seen)
    BY <1>3, <2>1, <2>2
  <2>4. ASSUME NEW i \in DOMAIN feed'
        PROVE  feed'[i] = seen[Len(known') + i]
    <3>1. i \in 1..(Len(feed) - 1) /\ feed'[i] = feed[i + 1]
      BY <1>4
    <3>2. i + 1 \in DOMAIN feed /\ Len(known) + (i + 1) = Len(known') + i
      BY <1>3, <2>2, <3>1
    <3> QED BY <3>1, <3>2 DEF NumberInv
  <2> QED BY <1>1, <2>3, <2>4 DEF NumberInv
<1>12. Grows
  BY <1>1, <1>3, <1>9 DEF Grows, ItsProcess
<1>13. AllAttributed(batch)'
  <2>1. ASSUME NEW i \in DOMAIN batch'
        PROVE  Attributed(batch[i])'
    <3>1. PICK y : y = batch'[i]
      OBVIOUS
    <3>2. CASE i \in 1..Len(batch)
      <4>1. Attributed(y)
        BY <1>10, <3>1, <3>2 DEF AttributedInv, AllAttributed
      <4>2. Attributed(y)'
        BY <1>12, <4>1, AttributionLasts
      <4> QED BY <3>1, <4>2 DEF Attributed
    <3>3. CASE i = Len(batch) + 1
      <4>1. y.ev = Len(known) + 1 /\ (k => y.node.id = ItsProcess(y.ev))
        BY <1>6, <1>7, <1>8, <1>10, <3>1, <3>3
      <4>2. Len(known) + 1 \in DOMAIN known'
        BY <1>3, <1>9
      <4>3. Attributed(y)'
        BY <1>1, <1>9, <4>1, <4>2 DEF Attributed, ItsProcess
      <4> QED BY <3>1, <4>3 DEF Attributed
    <3> QED BY <1>10, <3>2, <3>3
  <2> QED BY <2>1 DEF AllAttributed
<1> QED BY <1>11, <1>12, <1>13, AttributionLasts DEF AttributedInv, AllAttributed

LEMMA SubmittedAttributed ==
  ASSUME GraphTypes, AttributedInv, UNCHANGED <<seen, known, edges>>,
         NEW j, Submit(j), j.type = "batch" => AllAttributed(j.load), AllAttributed(batch)'
  PROVE  AttributedInv'
<1>1. Grows
  BY DEF Grows, ItsProcess
<1>2. queue \in Seq(WriteJobs)
  BY DEF GraphTypes, StoreTypes
<1>3. ASSUME NEW i \in DOMAIN queue', queue'[i].type = "batch"
      PROVE  AllAttributed(queue'[i].load)
  <2>1. CASE queue' = queue
    BY <1>3, <2>1 DEF AttributedInv
  <2>2. CASE queue' = Append(queue, j)
    <3>1. /\ DOMAIN queue' = 1..(Len(queue) + 1) /\ queue'[Len(queue) + 1] = j
          /\ \A y \in 1..Len(queue) : queue'[y] = queue[y]
      BY <1>2, <2>2, AppendFacts
    <3>2. DOMAIN queue = 1..Len(queue) /\ Len(queue) \in Nat
      BY <1>2, LenProperties
    <3>3. i \in 1..Len(queue) \/ i = Len(queue) + 1
      BY <3>1, <3>2
    <3> QED BY <1>3, <3>1, <3>2, <3>3 DEF AttributedInv
  <2> QED BY <2>1, <2>2 DEF Submit
<1>4. \A i \in DOMAIN queue' : queue'[i].type = "batch" => AllAttributed(queue[i].load)'
  <2> TAKE i \in DOMAIN queue'
  <2>1. PICK load : load = queue'[i].load
    OBVIOUS
  <2>2. queue'[i].type = "batch" => AllAttributed(load)'
    BY <1>1, <1>3, <2>1, AttributionLasts
  <2> QED BY <2>1, <2>2 DEF AllAttributed
<1> QED BY <1>1, <1>4, AttributionLasts DEF AttributedInv

\* Both ways a job leaves edges: those of its events, or fewer than there were.
LEMMA WrittenOnIts ==
  ASSUME GraphTypes, AttributedInv, WriteJob, UNCHANGED <<seen, known, batch>>
  PROVE  AttributedInv'
<1> DEFINE j == Head(queue)
<1>1. queue \in Seq(WriteJobs) /\ queue # <<>> /\ queue' = Tail(queue)
  BY DEF GraphTypes, StoreTypes, WriteJob
<1>2. /\ Len(queue) \in Nat \ {0} /\ DOMAIN queue = 1..Len(queue) /\ j = queue[1]
      /\ DOMAIN queue' = 1..(Len(queue) - 1)
      /\ \A i \in 1..(Len(queue) - 1) : queue'[i] = queue[i + 1]
  BY <1>1, HeadTailProperties, LenProperties, EmptySeq
<1>3. j.type = "batch" => AllAttributed(j.load)
  BY <1>2 DEF AttributedInv
<1>4. \A i \in DOMAIN queue' : queue'[i].type = "batch" => AllAttributed(queue'[i].load)
  <2>1. \A i \in DOMAIN queue' : i + 1 \in DOMAIN queue /\ queue'[i] = queue[i + 1]
    BY <1>2
  <2> QED BY <2>1 DEF AttributedInv
<1>5. \A e \in edges' : OnIts(e)
  <2>1. ASSUME j.type = "batch", WriteBatch(j.load), NEW e \in edges'
        PROVE  OnIts(e)
    <3>1. e \in edges \/ \E x \in Range(j.load) : e.ev = x.ev /\ x.node.id \in {e.from, e.to}
      BY <2>1 DEF WriteBatch
    <3>2. \A x \in Range(j.load) : Attributed(x)
      BY <1>3, <2>1 DEF AllAttributed, Range
    <3> QED BY <3>1, <3>2 DEF AttributedInv, OnIts, Attributed
  <2>2. ASSUME ~(j.type = "batch" /\ WriteBatch(j.load))
        PROVE  edges' \subseteq edges
    BY <2>2 DEF WriteJob, PruneEdges, PruneFull, PurgeByRule, PurgeFails
  <2> QED BY <2>1, <2>2 DEF AttributedInv
<1>6. Grows
  BY DEF Grows, ItsProcess
<1>7. \A i \in DOMAIN queue' : queue'[i].type = "batch" => AllAttributed(queue[i].load)'
  <2> TAKE i \in DOMAIN queue'
  <2>1. PICK load : load = queue'[i].load
    OBVIOUS
  <2>2. queue'[i].type = "batch" => AllAttributed(load)'
    BY <1>4, <1>6, <2>1, AttributionLasts
  <2> QED BY <2>1, <2>2 DEF AllAttributed
<1>8. AllAttributed(batch)'
  BY <1>6, AttributionLasts DEF AttributedInv, AllAttributed
<1>9. \A e \in edges' : OnIts(e)'
  BY <1>5, <1>6, AttributionLasts
<1> QED BY <1>7, <1>8, <1>9 DEF AttributedInv

LEMMA AttributedStep ==
  ASSUME GraphTypes, NumberInv, AttributedInv, [GraphNext]_graphVars
  PROVE  NumberInv' /\ AttributedInv'
<1>1. ASSUME UNCHANGED <<feed, seen, known, batch, queue, edges>>
      PROVE  NumberInv' /\ AttributedInv'
  <2>1. Grows
    BY <1>1 DEF Grows, ItsProcess
  <2>2. AllAttributed(batch)'
    BY <1>1, <2>1, AttributionLasts DEF AttributedInv, AllAttributed
  <2>3. \A i \in DOMAIN queue' : queue'[i].type = "batch" => AllAttributed(queue[i].load)'
    BY <1>1, <2>1, AttributionLasts DEF AttributedInv, AllAttributed
  <2> QED BY <1>1, <2>1, <2>2, <2>3, AttributionLasts DEF NumberInv, AttributedInv
<1>2. ASSUME UNCHANGED <<feed, seen, known>>
      PROVE  NumberInv'
  BY <1>2 DEF NumberInv
<1>3. CASE HostStep
  BY <1>3, ObservedInOrder
<1>4. CASE ProcessEvent /\ UNCHANGED <<queue, dbVars, indexVars, readVars, prunes>>
  BY <1>4, ProcessedOnIts DEF dbVars
<1>5. CASE SubmitBatch /\ UNCHANGED <<hostVars, dbVars, indexVars, readVars, prunes>>
  <2> DEFINE j == [type |-> "batch", load |-> batch]
  <2>1. Submit(j) /\ batch' = <<>> /\ UNCHANGED <<feed, seen, known, edges>>
    BY <1>5 DEF SubmitBatch, hostVars, dbVars
  <2>2. AllAttributed(j.load) /\ AllAttributed(batch)'
    BY <2>1 DEF AttributedInv, AllAttributed
  <2> HIDE DEF j
  <2> QED BY <1>2, <2>1, <2>2, SubmittedAttributed
<1>6. CASE Reap
  <2>1. UNCHANGED <<feed, seen, known, edges, batch>>
    BY <1>6 DEF Reap, hostVars, dbVars, cacheVars
  <2>2. AllAttributed(batch)'
    BY <2>1 DEF AttributedInv, AllAttributed, Attributed, ItsProcess
  <2>3. \E j : Submit(j) /\ j.type # "batch"
    <3>1. ASSUME NEW type \in {"edges", "full", "rule"}, NEW x, SubmitPrune(type, x)
          PROVE  \E j : Submit(j) /\ j.type # "batch"
      <4>1. Submit([type |-> type, load |-> x]) /\ [type |-> type, load |-> x].type # "batch"
        BY <3>1 DEF SubmitPrune
      <4> QED BY <4>1
    <3> QED BY <1>6, <3>1 DEF Reap
  <2> QED BY <1>2, <2>1, <2>2, <2>3, SubmittedAttributed
<1>7. CASE WriteJob /\ UNCHANGED <<hostVars, cacheVars, readVars, prunes>>
  BY <1>2, <1>7, WrittenOnIts DEF hostVars, cacheVars
<1>8. CASE UpdateIndex /\ UNCHANGED <<hostVars, cacheVars, queue, dbVars, readVars, prunes>>
  BY <1>1, <1>8 DEF hostVars, cacheVars, dbVars
<1>9. CASE \E r \in Readers : Query(r)
  BY <1>1, <1>9 DEF Query, hostVars, cacheVars, dbVars
<1>10. CASE UNCHANGED graphVars
  BY <1>1, <1>10 DEF graphVars, hostVars, cacheVars, dbVars
<1> QED BY <1>3, <1>4, <1>5, <1>6, <1>7, <1>8, <1>9, <1>10 DEF GraphNext, Process, Write

\* An event that is processed while its process is alive goes to the node of that
\* process, whoever had the pid before: the caches by pid do not come first.
THEOREM EventsAreAttributed == GraphSpec => []EventOnItsProcess
<1> DEFINE Inv == GraphTypes /\ CoverInv /\ NumberInv /\ AttributedInv
<1>1. GraphInit => Inv
  <2> SUFFICES ASSUME GraphInit
               PROVE  NumberInv /\ AttributedInv
    BY GraphInitially
  <2>1. feed = <<>> /\ seen = <<>> /\ known = <<>> /\ batch = <<>> /\ queue = <<>> /\ edges = {}
    BY DEF GraphInit
  <2>2. Len(<<>>) = 0 /\ DOMAIN <<>> = {}
    OBVIOUS
  <2> QED BY <2>1, <2>2 DEF NumberInv, AttributedInv, AllAttributed
<1>2. Inv /\ [GraphNext]_graphVars => Inv'
  BY CoverStep, AttributedStep
<1>3. Inv => EventOnItsProcess
  BY DEF AttributedInv, OnIts, ItsProcess, EventOnItsProcess
<1> QED BY <1>1, <1>2, <1>3, PTL DEF GraphSpec

-----------------------------------------------------------------------------
(* Chain patterns. *)

\* The recursion of ChainMatch.
Matching(chain, pattern, dict) ==
  /\ ChainMatch(chain, pattern) = dict[Len(pattern)] /\ dict[0] = {Len(chain) + 1}
  /\ \A i \in 1..Len(pattern) : dict[i] = PartFrom(pattern[Len(pattern) + 1 - i], chain, dict[i - 1])

\* The positions of a chain, part by part from the pattern's end.
LEMMA MatchRecursion ==
  ASSUME NEW chain, Len(chain) \in Nat, NEW pattern, Len(pattern) \in Nat
  PROVE  \E dict : Matching(chain, pattern, dict)
<1> DEFINE n == Len(pattern)
           V == SUBSET (1..(Len(chain) + 1))
           next == [y \in (1..n) \X V |-> PartFrom(pattern[Len(pattern) + 1 - y[1]], chain, y[2])]
<1>1. n \in Nat /\ Len(chain) \in Nat
  BY LenProperties
<1>2. next \in [(1..n) \X V -> V]
  <2>1. ASSUME NEW y \in (1..n) \X V
        PROVE  (PartFrom(pattern[Len(pattern) + 1 - y[1]], chain, y[2])) \in V
    <3>1. y[1] \in 1..n /\ y[2] \in SUBSET (1..(Len(chain) + 1))
      OBVIOUS
    <3>2. 1..Len(chain) \subseteq 1..(Len(chain) + 1)
      BY <1>1
    <3> QED BY <3>2 DEF PartFrom
  <2> HIDE DEF n, V
  <2> QED BY <2>1
<1>3. PICK f \in [0..n -> V] : f[0] = {Len(chain) + 1} /\ \A i \in 1..n : f[i] = next[<<i, f[i - 1]>>]
  <2> DEFINE base == {Len(chain) + 1}
  <2>1. base \in V
    BY <1>1
  <2> HIDE DEF n, next, V, base
  <2>2. Recursions(n, V, base, next) # {}
    BY <1>1, <1>2, <2>1, RecursionExists
  <2> QED BY <2>2 DEF Recursions, base
<1> DEFINE Follows(g) ==
             g = [i \in 0..n |-> IF i = 0 THEN {Len(chain) + 1} ELSE PartFrom(pattern[Len(pattern) + 1 - i], chain, g[i - 1])]
           chosen == CHOOSE g : Follows(g)
<1>4. Follows(f)
  <2>1. ASSUME NEW i \in 0..n
        PROVE  f[i] = IF i = 0 THEN {Len(chain) + 1} ELSE PartFrom(pattern[Len(pattern) + 1 - i], chain, f[i - 1])
    <3>1. CASE i = 0
      BY <1>3, <3>1
    <3>2. CASE i # 0
      <4>1. i \in 1..n /\ i - 1 \in 0..n
        BY <1>1, <3>2
      <4>2. <<i, f[i - 1]>> \in (1..n) \X V
        BY <4>1
      <4> QED BY <1>3, <3>2, <4>1, <4>2
    <3> QED BY <3>1, <3>2
  <2> HIDE DEF n, V, next
  <2> QED BY <2>1
<1>5. Follows(chosen)
  <2> HIDE DEF Follows
  <2> QED BY <1>4
<1>6. chosen[0] = {Len(chain) + 1} /\ \A i \in 1..n : chosen[i] = PartFrom(pattern[Len(pattern) + 1 - i], chain, chosen[i - 1])
  <2> HIDE DEF chosen
  <2>1. \A i \in 0..n : chosen[i] = IF i = 0 THEN {Len(chain) + 1} ELSE PartFrom(pattern[Len(pattern) + 1 - i], chain, chosen[i - 1])
    BY <1>5
  <2> HIDE DEF n, Follows
  <2>2. 0 \in 0..n /\ \A i \in 1..n : i \in 0..n /\ i # 0
    BY <1>1
  <2> QED BY <2>1, <2>2
<1>7. ChainMatch(chain, pattern) = chosen[n]
  BY DEF ChainMatch
<1>8. Matching(chain, pattern, chosen)
  <2> HIDE DEF chosen
  <2> QED BY <1>6, <1>7 DEF Matching
<1> QED BY <1>8

\* One piece of the chain for one part of the pattern, as cut says.
Piece(chain, pattern, cut, i) ==
  IF pattern[i].kind = "many" THEN cut[i - 1] <= cut[i]
  ELSE cut[i] = cut[i - 1] + 1 /\ MatchStep(chain[cut[i]], pattern[i])

\* The ways to cut the chain from position ci on into pieces for the parts after j.
Cuts(chain, pattern, j, ci) ==
  {cut \in [j..Len(pattern) -> 0..Len(chain)] :
     /\ cut[j] = ci - 1 /\ cut[Len(pattern)] = Len(chain)
     /\ \A i \in (j + 1)..Len(pattern) : Piece(chain, pattern, cut, i)}

\* A cut for the parts after j is one for those after j + 1, with one piece more.
LEMMA CutLonger ==
  ASSUME NEW chain, Len(chain) \in Nat, NEW pattern, Len(pattern) \in Nat,
         NEW j \in 0..(Len(pattern) - 1), NEW ci \in 1..(Len(chain) + 1),
         NEW skip \in 1..(Len(chain) + 1), NEW rest \in Cuts(chain, pattern, j + 1, skip),
         IF pattern[j + 1].kind = "many" THEN ci <= skip
         ELSE skip = ci + 1 /\ MatchStep(chain[ci], pattern[j + 1])
  PROVE  Cuts(chain, pattern, j, ci) # {}
<1> DEFINE n == Len(chain)
           k == Len(pattern)
           cut == [i \in j..k |-> IF i = j THEN ci - 1 ELSE rest[i]]
<1>1. /\ rest \in [(j + 1)..k -> 0..n] /\ rest[j + 1] = skip - 1 /\ rest[k] = n
      /\ \A i \in (j + 2)..k : Piece(chain, pattern, rest, i)
  <2>1. j + 1 + 1 = j + 2
    OBVIOUS
  <2> QED BY <2>1 DEF Cuts
<1>2. /\ n \in Nat /\ k \in Nat /\ j \in Nat /\ j < k /\ ci - 1 \in 0..n
      /\ j..k = {j} \union (j + 1)..k /\ j + 1 \in (j + 1)..k /\ k \in (j + 1)..k
  <2> HIDE DEF n, k
  <2>1. n \in Nat /\ k \in Nat /\ j \in 0..(k - 1) /\ ci \in 1..(n + 1)
    BY DEF n, k
  <2> QED BY <2>1
<1>3. cut \in [j..k -> 0..n] /\ cut[j] = ci - 1 /\ \A i \in (j + 1)..k : cut[i] = rest[i]
  <2>1. \A i \in (j + 1)..k : rest[i] \in 0..n /\ i \in j..k /\ i # j
    <3> HIDE DEF n, k
    <3> QED BY <1>1, <1>2, SMTT(30)
  <2> HIDE DEF n, k
  <2>2. ASSUME NEW i \in j..k
        PROVE  (IF i = j THEN ci - 1 ELSE rest[i]) \in 0..n
    BY <1>2, <2>1
  <2>3. j \in j..k
    BY <1>2
  <2> QED BY <1>2, <2>1, <2>2, <2>3
<1> HIDE DEF cut
<1>4. cut[k] = n
  BY <1>1, <1>2, <1>3
<1>5. ASSUME NEW i \in (j + 1)..k
      PROVE  Piece(chain, pattern, cut, i)
  <2>1. CASE i = j + 1
    <3>1. cut[i] = skip - 1 /\ cut[i - 1] = ci - 1
      BY <1>1, <1>2, <1>3, <2>1
    <3>2. CASE pattern[i].kind = "many"
      BY <2>1, <3>1, <3>2 DEF Piece
    <3>3. CASE pattern[i].kind # "many"
      <4>1. skip = ci + 1 /\ MatchStep(chain[ci], pattern[i])
        BY <2>1, <3>3
      <4>2. cut[i] = ci /\ cut[i] = cut[i - 1] + 1
        BY <3>1, <4>1
      <4> QED BY <3>3, <4>1, <4>2 DEF Piece
    <3> QED BY <3>2, <3>3
  <2>2. CASE i # j + 1
    <3>1. i \in (j + 2)..k /\ i - 1 \in (j + 1)..k
      <4> HIDE DEF n, k
      <4> QED BY <1>2, <2>2
    <3>2. Piece(chain, pattern, rest, i) /\ cut[i] = rest[i] /\ cut[i - 1] = rest[i - 1]
      BY <1>1, <1>3, <3>1
    <3> QED BY <3>2 DEF Piece
  <2> QED BY <2>1, <2>2
<1>6. cut \in Cuts(chain, pattern, j, ci)
  BY <1>3, <1>4, <1>5 DEF Cuts
<1> QED BY <1>6

LEMMA CutShorter ==
  ASSUME NEW chain, Len(chain) \in Nat, NEW pattern, Len(pattern) \in Nat,
         NEW j \in 0..(Len(pattern) - 1), NEW ci \in 1..(Len(chain) + 1),
         NEW cut \in Cuts(chain, pattern, j, ci)
  PROVE  \E skip \in 1..(Len(chain) + 1) :
           /\ Cuts(chain, pattern, j + 1, skip) # {}
           /\ IF pattern[j + 1].kind = "many" THEN ci <= skip
              ELSE skip = ci + 1 /\ ci <= Len(chain) /\ MatchStep(chain[ci], pattern[j + 1])
<1> DEFINE n == Len(chain)
           k == Len(pattern)
           skip == cut[j + 1] + 1
           rest == [i \in (j + 1)..k |-> cut[i]]
<1>1. /\ cut \in [j..k -> 0..n] /\ cut[j] = ci - 1 /\ cut[k] = n
      /\ \A i \in (j + 1)..k : Piece(chain, pattern, cut, i)
  BY DEF Cuts
<1>2. /\ n \in Nat /\ k \in Nat /\ j \in Nat /\ j < k
      /\ j + 1 \in (j + 1)..k /\ k \in (j + 1)..k /\ (j + 1)..k \subseteq j..k
  <2> HIDE DEF n, k
  <2>1. n \in Nat /\ k \in Nat /\ j \in 0..(k - 1)
    BY DEF n, k
  <2> QED BY <2>1
<1>3. cut[j + 1] \in 0..n /\ skip \in 1..(n + 1)
  <2>1. cut[j + 1] \in 0..n
    <3> HIDE DEF n, k
    <3> QED BY <1>1, <1>2
  <2> HIDE DEF n, k
  <2> QED BY <1>2, <2>1
<1>4. rest \in Cuts(chain, pattern, j + 1, skip)
  <2>1. rest \in [(j + 1)..k -> 0..n] /\ \A i \in (j + 1)..k : rest[i] = cut[i]
    <3> HIDE DEF n, k
    <3> QED BY <1>1, <1>2
  <2> HIDE DEF rest
  <2>2. rest[j + 1] = skip - 1 /\ rest[k] = n
    <3>1. cut[j + 1] + 1 - 1 = cut[j + 1]
      <4> HIDE DEF n, k
      <4> QED BY <1>2, <1>3
    <3> QED BY <1>1, <1>2, <2>1, <3>1, SMTT(30)
  <2>3. ASSUME NEW i \in (j + 1 + 1)..k
        PROVE  Piece(chain, pattern, rest, i)
    <3>1. i \in (j + 1)..k /\ i - 1 \in (j + 1)..k
      <4> HIDE DEF n, k
      <4> QED BY <1>2
    <3>2. Piece(chain, pattern, cut, i) /\ cut[i] = rest[i] /\ cut[i - 1] = rest[i - 1]
      BY <1>1, <2>1, <3>1
    <3> QED BY <3>2 DEF Piece
  <2> HIDE DEF skip
  <2> QED BY <2>1, <2>2, <2>3 DEF Cuts
<1>5. IF pattern[j + 1].kind = "many" THEN ci <= skip
      ELSE skip = ci + 1 /\ ci <= n /\ MatchStep(chain[ci], pattern[j + 1])
  <2>1. Piece(chain, pattern, cut, j + 1) /\ j + 1 - 1 = j
    BY <1>1, <1>2
  <2>2. CASE pattern[j + 1].kind = "many"
    <3>1. cut[j] <= cut[j + 1]
      BY <2>1, <2>2 DEF Piece
    <3>2. ci <= skip
      <4> HIDE DEF n, k
      <4> QED BY <1>1, <1>2, <1>3, <3>1
    <3> QED BY <2>2, <3>2
  <2>3. CASE pattern[j + 1].kind # "many"
    <3>1. cut[j + 1] = cut[j] + 1 /\ MatchStep(chain[cut[j + 1]], pattern[j + 1])
      BY <2>1, <2>3 DEF Piece
    <3>2. cut[j + 1] = ci /\ ci <= n /\ skip = ci + 1
      <4> HIDE DEF n, k
      <4> QED BY <1>1, <1>2, <1>3, <3>1
    <3> QED BY <2>3, <3>1, <3>2
  <2> QED BY <2>2, <2>3
<1> HIDE DEF skip, rest
<1> QED BY <1>3, <1>4, <1>5

\* The recursion finds the positions from which the chain can be cut.
LEMMA MatchIsCut ==
  ASSUME NEW chain, Len(chain) \in Nat, NEW pattern, Len(pattern) \in Nat
  PROVE  /\ ChainMatch(chain, pattern) \subseteq 1..(Len(chain) + 1)
         /\ \A ci \in 1..(Len(chain) + 1) :
              ci \in ChainMatch(chain, pattern) <=> Cuts(chain, pattern, 0, ci) # {}
<1> DEFINE n == Len(chain)
           k == Len(pattern)
<1>1. PICK from :
        /\ ChainMatch(chain, pattern) = from[k] /\ from[0] = {n + 1}
        /\ \A i \in 1..k : from[i] = PartFrom(pattern[k + 1 - i], chain, from[i - 1])
  <2>1. PICK from : Matching(chain, pattern, from)
    BY MatchRecursion
  <2> QED BY <2>1 DEF Matching
<1> DEFINE Right(i) == /\ from[i] \subseteq 1..(n + 1)
                       /\ \A ci \in 1..(n + 1) : ci \in from[i] <=> Cuts(chain, pattern, k - i, ci) # {}
           T == {i \in 0..k : Right(i)}
<1>2. n \in Nat /\ k \in Nat
  OBVIOUS
<1>3. 0 \in T
  <2>1. from[0] \subseteq 1..(n + 1) /\ k - 0 = k /\ 0 \in 0..k
    <3> HIDE DEF n, k
    <3> QED BY <1>1, <1>2
  <2>2. ASSUME NEW ci \in 1..(n + 1)
        PROVE  ci = n + 1 <=> Cuts(chain, pattern, k, ci) # {}
    <3>1. ASSUME NEW cut \in Cuts(chain, pattern, k, ci)
          PROVE  ci = n + 1
      <4>1. cut[k] = ci - 1 /\ cut[k] = n
        BY DEF Cuts
      <4> HIDE DEF n, k
      <4> QED BY <1>2, <4>1
    <3>2. ASSUME ci = n + 1
          PROVE  Cuts(chain, pattern, k, ci) # {}
      <4> DEFINE cut == [i \in k..k |-> n]
      <4>1. k \in k..k /\ n \in 0..n /\ ci - 1 = n /\ (k + 1)..k = {}
        <5> HIDE DEF n, k
        <5> QED BY <1>2, <3>2
      <4>2. cut \in [k..k -> 0..n] /\ cut[k] = n
        <5> HIDE DEF n, k
        <5> QED BY <4>1
      <4> HIDE DEF cut
      <4>3. cut \in Cuts(chain, pattern, k, ci)
        BY <4>1, <4>2 DEF Cuts
      <4> QED BY <4>3
    <3> QED BY <3>1, <3>2
  <2> HIDE DEF n, k
  <2>3. Right(0)
    BY <1>1, <2>1, <2>2
  <2> QED BY <2>1, <2>3
<1>4. ASSUME NEW i \in 1..k, i - 1 \in T
      PROVE  i \in T
  <2>1. PICK j : j = k - i /\ j \in 0..(k - 1) /\ k - (i - 1) = j + 1 /\ k + 1 - i = j + 1
    <3> HIDE DEF n, k, T
    <3> QED BY <1>2
  <2>2. i \in 0..k
    <3> HIDE DEF n, k, T
    <3> QED BY <1>2
  <2>3. from[i] = PartFrom(pattern[j + 1], chain, from[i - 1])
    BY <1>1, <2>1
  <2>4. \A skip \in 1..(n + 1) :
          skip \in from[i - 1] <=> Cuts(chain, pattern, j + 1, skip) # {}
    BY <1>4, <2>1
  <2>5. from[i] \subseteq 1..(n + 1)
    <3>1. 1..n \subseteq 1..(n + 1)
      <4> HIDE DEF n
      <4> QED BY <1>2
    <3> QED BY <2>3, <3>1 DEF PartFrom
  <2>6. ASSUME NEW ci \in 1..(n + 1)
        PROVE  ci \in from[i] <=> Cuts(chain, pattern, j, ci) # {}
    <3>1. ASSUME ci \in from[i]
          PROVE  Cuts(chain, pattern, j, ci) # {}
      <4>1. CASE pattern[j + 1].kind = "many"
        <5>1. PICK skip \in ci..(n + 1) : skip \in from[i - 1]
          BY <2>3, <3>1, <4>1 DEF PartFrom
        <5>2. skip \in 1..(n + 1) /\ ci <= skip
          <6> HIDE DEF n
          <6> QED BY <1>2, <5>1
        <5>3. PICK rest \in Cuts(chain, pattern, j + 1, skip) : TRUE
          BY <2>4, <5>1, <5>2
        <5> QED BY <2>1, <4>1, <5>2, <5>3, CutLonger
      <4>2. CASE pattern[j + 1].kind # "many"
        <5>1. ci \in 1..n /\ MatchStep(chain[ci], pattern[j + 1]) /\ ci + 1 \in from[i - 1]
          BY <2>3, <3>1, <4>2 DEF PartFrom
        <5>2. ci + 1 \in 1..(n + 1)
          <6> HIDE DEF n
          <6> QED BY <1>2, <5>1
        <5>3. PICK rest \in Cuts(chain, pattern, j + 1, ci + 1) : TRUE
          BY <2>4, <5>1, <5>2
        <5> QED BY <2>1, <4>2, <5>1, <5>2, <5>3, CutLonger
      <4> QED BY <4>1, <4>2
    <3>2. ASSUME NEW cut \in Cuts(chain, pattern, j, ci)
          PROVE  ci \in from[i]
      <4>1. PICK skip \in 1..(n + 1) :
              /\ Cuts(chain, pattern, j + 1, skip) # {}
              /\ IF pattern[j + 1].kind = "many" THEN ci <= skip
                 ELSE skip = ci + 1 /\ ci <= n /\ MatchStep(chain[ci], pattern[j + 1])
        BY <2>1, <3>2, CutShorter
      <4>2. skip \in from[i - 1]
        BY <2>4, <4>1
      <4>3. CASE pattern[j + 1].kind = "many"
        <5>1. skip \in ci..(n + 1)
          <6>1. ci <= skip
            BY <4>1, <4>3
          <6> HIDE DEF n
          <6> QED BY <1>2, <6>1
        <5> QED BY <2>3, <4>2, <4>3, <5>1 DEF PartFrom
      <4>4. CASE pattern[j + 1].kind # "many"
        <5>1. skip = ci + 1 /\ ci <= n /\ MatchStep(chain[ci], pattern[j + 1])
          BY <4>1, <4>4
        <5>2. ci \in 1..n
          <6> HIDE DEF n
          <6> QED BY <1>2, <5>1
        <5> QED BY <2>3, <4>2, <4>4, <5>1, <5>2 DEF PartFrom
      <4> QED BY <4>3, <4>4
    <3> QED BY <3>1, <3>2
  <2> HIDE DEF n, k
  <2>7. Right(i)
    BY <2>1, <2>5, <2>6
  <2> QED BY <2>2, <2>7
<1>5. k \in T
  <2> HIDE DEF n, k, T
  <2>1. \A i \in 0..k : i \in T
    BY <1>2, <1>3, <1>4, SetInduction
  <2> QED BY <1>2, <2>1
<1>6. Right(k) /\ k - k = 0
  <2>1. k - k = 0
    <3> HIDE DEF n, k
    <3> QED BY <1>2
  <2> QED BY <1>5, <2>1
<1> QED BY <1>1, <1>6

\* _match_chain_pattern is true exactly of the chains whose end can be cut into one
\* piece for each part of the pattern, of one matching entry or, for two stars, of
\* any length: for every chain and every pattern that has a part.
THEOREM PatternsMatchPieces ==
  ASSUME NEW chain, IsSeq(chain), NEW pattern, IsSeq(pattern), pattern # <<>>
  PROVE  MatchChain(chain, pattern) = ChainMatchedBy(chain, pattern)
<1> DEFINE n == Len(chain)
           k == Len(pattern)
<1>1. n \in Nat /\ k \in Nat \ {0} /\ DOMAIN pattern = 1..k
  BY LenProperties, TailIsSeq DEF IsSeq
<1>2. (n = 0) <=> (chain = <<>>)
  BY <1>1, EmptySeq DEF IsSeq
<1>3. 0 + 1 = 1
  OBVIOUS
<1>4. ASSUME MatchChain(chain, pattern)
      PROVE  ChainMatchedBy(chain, pattern)
  <2>1. PICK ci : ci \in ChainMatch(chain, pattern)
    BY <1>4 DEF MatchChain
  <2>2. PICK cut \in Cuts(chain, pattern, 0, ci) : TRUE
    BY <1>1, <2>1, MatchIsCut
  <2> QED BY <1>1, <1>3, <2>2 DEF Cuts, ChainMatchedBy, Piece
<1>5. ASSUME ChainMatchedBy(chain, pattern)
      PROVE  MatchChain(chain, pattern)
  <2>1. PICK cut \in [0..k -> 0..n] :
          cut[k] = n /\ \A i \in 1..k : Piece(chain, pattern, cut, i)
    BY <1>1, <1>5 DEF ChainMatchedBy, Piece
  <2>2. cut[0] \in 0..n /\ cut[1] \in 0..n /\ 1 \in 1..k
    <3> HIDE DEF n, k
    <3> QED BY <1>1, <2>1
  <2>3. SUFFICES \E ci \in 1..(IF chain = <<>> THEN 1 ELSE n) : Cuts(chain, pattern, 0, ci) # {}
    <3>1. PICK ci \in 1..(IF chain = <<>> THEN 1 ELSE n) : Cuts(chain, pattern, 0, ci) # {}
      BY <2>3
    <3>2. ci \in 1..(n + 1)
      <4> HIDE DEF n, k
      <4> QED BY <1>1
    <3>3. ci \in ChainMatch(chain, pattern)
      BY <1>1, <3>1, <3>2, MatchIsCut
    <3> QED BY <3>1, <3>3 DEF MatchChain
  <2>4. CASE cut[0] + 1 \in 1..(IF chain = <<>> THEN 1 ELSE n)
    <3>1. cut[0] + 1 - 1 = cut[0]
      <4> HIDE DEF n, k
      <4> QED BY <1>1, <2>2
    <3>2. cut \in Cuts(chain, pattern, 0, cut[0] + 1)
      BY <1>3, <2>1, <3>1 DEF Cuts
    <3> QED BY <2>4, <3>2
  <2>5. CASE cut[0] + 1 \notin 1..(IF chain = <<>> THEN 1 ELSE n)
    <3>1. chain # <<>> /\ cut[0] = n /\ n # 0
      <4>1. chain = <<>> \/ chain # <<>>
        OBVIOUS
      <4> HIDE DEF n, k
      <4> QED BY <1>1, <1>2, <2>2, <2>5, <4>1
    <3>2. pattern[1].kind = "many"
      <4>1. Piece(chain, pattern, cut, 1) /\ 1 - 1 = 0
        BY <2>1, <2>2
      <4>2. cut[1] # cut[0] + 1
        <5> HIDE DEF n, k
        <5> QED BY <1>1, <2>2, <3>1
      <4> QED BY <4>1, <4>2 DEF Piece
    <3> DEFINE whole == [i \in 0..k |-> IF i = 0 THEN 0 ELSE cut[i]]
    <3>3. /\ whole \in [0..k -> 0..n] /\ whole[0] = 0
          /\ \A i \in 1..k : whole[i] = cut[i] /\ (i # 1 => whole[i - 1] = cut[i - 1])
      <4>1. 0 \in 0..n /\ 0 \in 0..k /\ \A i \in 1..k : i \in 0..k /\ i - 1 \in 0..k /\ i # 0
                                                       /\ (i # 1 => i - 1 # 0)
        <5> HIDE DEF n, k
        <5> QED BY <1>1
      <4> HIDE DEF n, k
      <4> QED BY <2>1, <4>1
    <3> HIDE DEF whole
    <3>4. whole[k] = n
      <4>1. k \in 1..k
        <5> HIDE DEF k
        <5> QED BY <1>1
      <4> QED BY <2>1, <3>3, <4>1
    <3>5. ASSUME NEW i \in 1..k
          PROVE  Piece(chain, pattern, whole, i)
      <4>1. CASE i = 1
        <5>1. whole[i] = cut[1] /\ whole[i - 1] = 0
          BY <3>3, <4>1
        <5>2. 0 <= cut[1]
          <6> HIDE DEF n, k
          <6> QED BY <1>1, <2>2
        <5> QED BY <3>2, <4>1, <5>1, <5>2 DEF Piece
      <4>2. CASE i # 1
        BY <2>1, <3>3, <4>2 DEF Piece
      <4> QED BY <4>1, <4>2
    <3>6. whole \in Cuts(chain, pattern, 0, 1)
      <4>1. 0 = 1 - 1
        OBVIOUS
      <4> QED BY <1>3, <3>3, <3>4, <3>5, <4>1 DEF Cuts
    <3>7. 1 \in 1..(IF chain = <<>> THEN 1 ELSE n)
      <4> HIDE DEF n, k
      <4> QED BY <1>1, <3>1
    <3> QED BY <3>6, <3>7
  <2> QED BY <2>4, <2>5
<1>6. MatchChain(chain, pattern) \in BOOLEAN /\ ChainMatchedBy(chain, pattern) \in BOOLEAN
  BY DEF MatchChain, ChainMatchedBy
<1> QED BY <1>4, <1>5, <1>6

-----------------------------------------------------------------------------
(* The filters. *)

\* The recursion of _match_chain_pattern decides, for the chains the caches give and
\* every pattern of the rules at hand, whether the chain's end can be cut into pieces.
THEOREM RulesMatchPieces == FilterSpec => []ChainsAreMatched
<1> DEFINE Inv == case \in FilterCases
<1>1. FilterInit => Inv
  BY DEF FilterInit
<1>2. Inv /\ [FilterNext]_filterVars => Inv'
  <2>1. [FilterNext]_filterVars => UNCHANGED case
    BY DEF FilterNext, filterVars, SelfFilter, FastPathCheck, AllowFilter, BaselineGate
  <2> QED BY <2>1
<1>3. Inv => ChainsAreMatched
  <2> SUFFICES ASSUME Inv, NEW n \in DOMAIN Ancestry, NEW r \in case.block \union case.allow,
                      NEW pattern \in {r.pattern, r.filter, r.exclude}, pattern # Nothing
               PROVE  MatchChain(Ancestry[n], pattern) = ChainMatchedBy(Ancestry[n], pattern)
    BY DEF ChainsAreMatched
  <2>1. PICK c \in FilterCases : c = case
    OBVIOUS
  <2>2. r \in c.block \union c.allow /\ pattern \in {r.pattern, r.filter, r.exclude} \ {Nothing}
    BY <2>1
  <2>3. IsSeq(pattern) /\ pattern # <<>>
    BY <2>2, FilterAssumption DEF IsSeq
  <2>4. IsSeq(Ancestry[n])
    BY FilterAssumption DEF IsSeq
  <2> QED BY <2>3, <2>4, PatternsMatchPieces
<1> QED BY <1>1, <1>2, <1>3, PTL DEF FilterSpec

\* Until the allowlist, an event has at most the process that is in it; what the fast
\* path decides, it has evaluated.
FilterInv ==
  /\ case \in FilterCases
  /\ stage \in {"extracted", "own", "blocked", "unblocked"} =>
       DOMAIN ents = DOMAIN NoEntities /\ ents.processes \subseteq Some(case.event.process)
  /\ stage = "blocked" => hit \in Evaluate(ents, case.block)
  /\ stage = "unblocked" => Evaluate(ents, case.block) = {}

LEMMA WithProcessFits ==
  ASSUME NEW e
  PROVE  /\ DOMAIN WithProcess(e) = DOMAIN NoEntities
         /\ WithProcess(e).processes \subseteq Some(e.process)
<1>1. CASE e.process = Nothing
  BY <1>1 DEF WithProcess, NoEntities, Some
<1>2. CASE e.process # Nothing
  BY <1>2 DEF WithProcess, NoEntities, Some
<1> QED BY <1>1, <1>2

LEMMA ExtractFits ==
  ASSUME NEW c \in FilterCases
  PROVE  /\ DOMAIN Extract(c.event) = DOMAIN NoEntities
         /\ Extract(c.event).processes \subseteq Some(c.event.process)
<1> DEFINE e == c.event
           Fits(x) == DOMAIN x = DOMAIN NoEntities /\ x.processes \subseteq Some(e.process)
<1>1. PICK w : w = WithProcess(e) /\ Fits(w)
  BY WithProcessFits
<1>2. PICK none : none = NoEntities /\ Fits(none)
  <2>1. NoEntities.processes = {}
    BY DEF NoEntities
  <2> QED BY <2>1
<1>3. Fits(ExtractNetwork(e))
  BY <1>1 DEF ExtractNetwork
<1>4. Fits(ExtractAuthentication(e))
  BY <1>2 DEF ExtractAuthentication
<1>5. Fits(ExtractDns(e))
  BY <1>1 DEF ExtractDns
<1>6. Fits(ExtractFile(e))
  BY <1>1 DEF ExtractFile
<1>7. Fits(ExtractRegistry(e))
  BY DEF ExtractRegistry, NoEntities, Some
<1>8. e.kind \in {"process", "network", "authentication", "dns", "file", "registry"}
  BY FilterAssumption
<1> HIDE DEF Fits, e
<1>9. Fits(Extract(e))
  BY <1>1, <1>3, <1>4, <1>5, <1>6, <1>7, <1>8 DEF Extract
<1> QED BY <1>9 DEF Fits, e

LEMMA NoiseFits ==
  ASSUME NEW x, DOMAIN x = DOMAIN NoEntities
  PROVE  /\ DOMAIN FilterAgentNoise(x) = DOMAIN NoEntities
         /\ FilterAgentNoise(x).processes \subseteq x.processes
<1> DEFINE D == DOMAIN NoEntities
           temp == x.files \intersect TempFiles
           u == WithoutEdges(x, {}, temp)
           y == [u EXCEPT !.files = @ \ temp]
           noisy == {p \in x.processes : p.name \in NoiseNames}
           bad == {p.id : p \in noisy \union {q \in x.processes : q.pid = AgentPid}}
           v == WithoutEdges(y, bad, {})
           z == [v EXCEPT !.processes = @ \ noisy]
<1>1. {"processes", "files"} \subseteq D
  BY DEF NoEntities
<1>2. \A s, P, Q : DOMAIN s = D => /\ DOMAIN WithoutEdges(s, P, Q) = D
                                   /\ WithoutEdges(s, P, Q).processes = s.processes
  BY <1>1 DEF WithoutEdges
<1>3. \A s : DOMAIN s = D => /\ DOMAIN WithoutOrphans(s) = D
                             /\ WithoutOrphans(s).processes = s.processes
  BY <1>1 DEF WithoutOrphans
<1>4. DOMAIN u = D /\ u.processes = x.processes
  BY <1>2
<1>5. DOMAIN y = D /\ y.processes = x.processes
  <2> HIDE DEF u, temp, D
  <2> QED BY <1>1, <1>4
<1>6. DOMAIN v = D /\ v.processes = x.processes
  <2> HIDE DEF y, D
  <2> QED BY <1>2, <1>5
<1>7. DOMAIN z = D /\ z.processes \subseteq x.processes
  <2> HIDE DEF v, D, noisy
  <2> QED BY <1>1, <1>6
<1>8. FilterAgentNoise(x) = z \/ FilterAgentNoise(x) = WithoutOrphans(z)
  BY DEF FilterAgentNoise
<1> HIDE DEF z, D
<1> QED BY <1>3, <1>7, <1>8 DEF D

\* What the processes, edges and domains of an event give a rule to be asked about.
AttributesOf(x) ==
  [process : {p.name : p \in x.processes} \union {Nothing},
   ip : {s[2] : s \in x.connected} \union {Nothing},
   domain : x.domains \union {Nothing},
   file : {s[2] : s \in x.accessed} \union {Nothing},
   title : {Nothing}]

Agrees(x, r) == \E p \in x.processes : \E a \in AttributesOf(x) : MatchRule(r, a, Ancestry[p.name])

Unscoped(r) == r.filter = Nothing /\ r.exclude = Nothing

\* A rule that is given no chain is about the value its type names.
LEMMA MatchUnscoped ==
  ASSUME NEW r, Unscoped(r), NEW a, NEW chain, chain # Nothing
  PROVE  /\ r.type = "chain_pattern" => (MatchRule(r, a, chain) <=> MatchChain(chain, r.pattern))
         /\ r.type \in {"dst_ip", "dst_cidr"} =>
              (MatchRule(r, a, chain) <=> a.ip # Nothing /\ a.ip \in r.names)
         /\ r.type = "domain" =>
              (MatchRule(r, a, chain) <=> a.domain # Nothing /\ a.domain \in r.names)
         /\ r.type = "process_name" =>
              (MatchRule(r, a, chain) <=> a.process # Nothing /\ a.process \in r.names)
         /\ r.type = "file_path" =>
              (MatchRule(r, a, chain) <=> a.file # Nothing /\ a.file \in r.names)
         /\ r.type = "finding_title" =>
              (MatchRule(r, a, chain) <=> a.title # Nothing /\ a.title \in r.names)
<1> USE DEF MatchRule, Unscoped
<1>1. CASE r.type = "chain_pattern"
  BY <1>1
<1>2. CASE r.type \in {"dst_ip", "dst_cidr"}
  <2>1. AttributeOf[r.type] = "ip"
    BY <1>2 DEF AttributeOf
  <2> QED BY <1>2, <2>1
<1>3. CASE r.type = "domain"
  <2>1. AttributeOf[r.type] = "domain"
    BY <1>3 DEF AttributeOf
  <2> QED BY <1>3, <2>1
<1>4. CASE r.type = "process_name"
  <2>1. AttributeOf[r.type] = "process"
    BY <1>4 DEF AttributeOf
  <2> QED BY <1>4, <2>1
<1>5. CASE r.type = "file_path"
  <2>1. AttributeOf[r.type] = "file"
    BY <1>5 DEF AttributeOf
  <2> QED BY <1>5, <2>1
<1>6. CASE r.type = "finding_title"
  <2>1. AttributeOf[r.type] = "title"
    BY <1>6 DEF AttributeOf
  <2> QED BY <1>6, <2>1
<1> QED BY <1>1, <1>2, <1>3, <1>4, <1>5, <1>6

\* A rule does not tell attributes apart that have the same value for its type.
LEMMA MatchSame ==
  ASSUME NEW r, NEW a, NEW b, NEW chain,
         r.type = "chain_pattern" \/ a[AttributeOf[r.type]] = b[AttributeOf[r.type]],
         MatchRule(r, a, chain)
  PROVE  MatchRule(r, b, chain)
<1>1. CASE r.type = "chain_pattern"
  BY <1>1 DEF MatchRule
<1>2. CASE r.type # "chain_pattern"
  BY <1>2 DEF MatchRule
<1> QED BY <1>1, <1>2

\* What a scoped rule is asked about is among what the event says.
LEMMA ScopedIsSaid ==
  ASSUME NEW x, NEW p \in x.processes, NEW r, NEW v \in ScopedValues(x, p, r.type)
  PROVE  v \in AttributesOf(x)
<1> USE DEF NoAttributes, AttributesOf
<1>1. CASE r.type = "process_name"
  BY <1>1 DEF ScopedValues
<1>2. CASE r.type \in {"dst_ip", "dst_cidr"}
  <2>1. PICK s \in x.connected : v = [NoAttributes EXCEPT !.ip = s[2]]
    BY <1>2 DEF ScopedValues
  <2> QED BY <2>1
<1>3. CASE r.type = "domain"
  <2>1. PICK d \in x.domains : v = [NoAttributes EXCEPT !.domain = d]
    BY <1>3 DEF ScopedValues
  <2> QED BY <2>1
<1>4. CASE r.type = "file_path"
  <2>1. PICK s \in x.accessed : v = [NoAttributes EXCEPT !.file = s[2]]
    BY <1>4 DEF ScopedValues
  <2> QED BY <2>1
<1>5. CASE r.type = "chain_pattern"
  BY <1>5 DEF ScopedValues
<1>6. CASE r.type \notin {"process_name", "dst_ip", "dst_cidr", "domain", "file_path", "chain_pattern"}
  BY <1>6 DEF ScopedValues
<1> QED BY <1>1, <1>2, <1>3, <1>4, <1>5, <1>6

\* And of what it says a scoped rule is asked about all that its type names, if the
\* event has one process.
LEMMA SaidIsScoped ==
  ASSUME NEW x, NEW p \in x.processes, \A q \in x.processes : q = p,
         NEW r, r.type \in RuleTypes, NEW a \in AttributesOf(x), NEW chain, MatchRule(r, a, chain)
  PROVE  \E v \in ScopedValues(x, p, r.type) : MatchRule(r, v, chain)
<1>0. r.type = "chain_pattern" \/ a[AttributeOf[r.type]] # Nothing
  BY DEF MatchRule
<1> USE DEF NoAttributes, AttributesOf, AttributeOf
<1>1. CASE r.type = "process_name"
  <2>1. a.process = p.name
    BY <1>0, <1>1
  <2>2. PICK v : v = [NoAttributes EXCEPT !.process = p.name]
    OBVIOUS
  <2>3. v \in ScopedValues(x, p, r.type) /\ v.process = a.process
    BY <1>1, <2>1, <2>2 DEF ScopedValues
  <2> QED BY <1>1, <2>3, MatchSame
<1>2. CASE r.type \in {"dst_ip", "dst_cidr"}
  <2>1. PICK s \in x.connected : a.ip = s[2]
    BY <1>0, <1>2
  <2>2. PICK v : v = [NoAttributes EXCEPT !.ip = s[2]]
    OBVIOUS
  <2>3. v \in ScopedValues(x, p, r.type) /\ v.ip = a.ip
    BY <1>2, <2>1, <2>2 DEF ScopedValues
  <2> QED BY <1>2, <2>3, MatchSame
<1>3. CASE r.type = "domain"
  <2>1. a.domain \in x.domains
    BY <1>0, <1>3
  <2>2. PICK v : v = [NoAttributes EXCEPT !.domain = a.domain]
    OBVIOUS
  <2>3. v \in ScopedValues(x, p, r.type) /\ v.domain = a.domain
    BY <1>3, <2>1, <2>2 DEF ScopedValues
  <2> QED BY <1>3, <2>3, MatchSame
<1>4. CASE r.type = "file_path"
  <2>1. PICK s \in x.accessed : a.file = s[2]
    BY <1>0, <1>4
  <2>2. PICK v : v = [NoAttributes EXCEPT !.file = s[2]]
    OBVIOUS
  <2>3. v \in ScopedValues(x, p, r.type) /\ v.file = a.file
    BY <1>4, <2>1, <2>2 DEF ScopedValues
  <2> QED BY <1>4, <2>3, MatchSame
<1>5. CASE r.type = "chain_pattern"
  <2>1. NoAttributes \in ScopedValues(x, p, r.type)
    BY <1>5 DEF ScopedValues
  <2> QED BY <1>5, <2>1, MatchSame
<1>6. CASE r.type = "finding_title"
  BY <1>0, <1>6
<1> QED BY <1>1, <1>2, <1>3, <1>4, <1>5, <1>6 DEF RuleTypes

\* Of every process a chain is known.
LEMMA ChainKnown ==
  ASSUME case \in FilterCases, NEW p \in Some(case.event.process)
  PROVE  Ancestry[p.name] # Nothing
<1>1. p = case.event.process /\ case.event.process # Nothing
  BY DEF Some
<1>2. PICK c \in FilterCases : c = case
  OBVIOUS
<1>3. c.event.process.name \in DOMAIN Ancestry
  BY <1>1, <1>2, FilterAssumption
<1> QED BY <1>1, <1>2, <1>3, FilterAssumption

\* A blocklist's rule is of a known type and names no absent value.
LEMMA RuleKnown ==
  ASSUME case \in FilterCases, NEW r \in case.block
  PROVE  r.type \in RuleTypes /\ Nothing \notin r.names
<1>1. PICK c \in FilterCases : c = case
  OBVIOUS
<1>2. r \in c.block \union c.allow
  BY <1>1
<1> QED BY <1>2, FilterAssumption

\* What the fast path hits, a process with what the event says of it matches.
LEMMA HitsAgree ==
  ASSUME case \in FilterCases, NEW x, x.processes \subseteq Some(case.event.process),
         NEW p \in x.processes, NEW r \in Evaluate(x, case.block)
  PROVE  Agrees(x, r)
<1> DEFINE rules == case.block
<1>1. Ancestry[p.name] # Nothing
  BY ChainKnown
<1>2. CASE r \in EvaluateScoped(x, rules)
  <2>1. PICK q \in x.processes :
             \E v \in ScopedValues(x, q, r.type) : MatchRule(r, v, Ancestry[q.name])
    BY <1>2 DEF EvaluateScoped
  <2>2. PICK v \in ScopedValues(x, q, r.type) : MatchRule(r, v, Ancestry[q.name])
    BY <2>1
  <2>3. v \in AttributesOf(x)
    BY <2>2, ScopedIsSaid
  <2> QED BY <2>2, <2>3 DEF Agrees
<1> DEFINE said == [process |-> Nothing, ip |-> Nothing, domain |-> Nothing, file |-> Nothing,
                    title |-> Nothing]
<1>3. CASE r \in Bucket(rules, {"dst_ip", "dst_cidr"}) /\ \E s \in x.connected : s[2] \in r.names
  <2>1. PICK s \in x.connected : s[2] \in r.names
    BY <1>3
  <2>2. PICK a : a = [said EXCEPT !.ip = s[2]]
    OBVIOUS
  <2>3. a \in AttributesOf(x) /\ a.ip = s[2]
    BY <2>1, <2>2 DEF AttributesOf
  <2>4. r.type \in {"dst_ip", "dst_cidr"} /\ Unscoped(r) /\ Nothing \notin r.names
    BY <1>3, RuleKnown DEF Bucket, Unscoped
  <2>5. MatchRule(r, a, Ancestry[p.name])
    BY <1>1, <2>1, <2>3, <2>4, MatchUnscoped
  <2> QED BY <2>3, <2>5 DEF Agrees
<1>4. CASE r \in Bucket(rules, {"domain"}) /\ x.domains \intersect r.names # {}
  <2>1. PICK d \in x.domains : d \in r.names
    BY <1>4
  <2>2. PICK a : a = [said EXCEPT !.domain = d]
    OBVIOUS
  <2>3. a \in AttributesOf(x) /\ a.domain = d
    BY <2>1, <2>2 DEF AttributesOf
  <2>4. r.type = "domain" /\ Unscoped(r) /\ Nothing \notin r.names
    BY <1>4, RuleKnown DEF Bucket, Unscoped
  <2>5. MatchRule(r, a, Ancestry[p.name])
    BY <1>1, <2>1, <2>3, <2>4, MatchUnscoped
  <2> QED BY <2>3, <2>5 DEF Agrees
<1>5. CASE r \in Bucket(rules, {"process_name"}) /\ \E q \in x.processes : q.name \in r.names
  <2>1. PICK q \in x.processes : q.name \in r.names
    BY <1>5
  <2>2. PICK a : a = [said EXCEPT !.process = q.name]
    OBVIOUS
  <2>3. a \in AttributesOf(x) /\ a.process = q.name
    BY <2>1, <2>2 DEF AttributesOf
  <2>4. r.type = "process_name" /\ Unscoped(r) /\ Nothing \notin r.names
    BY <1>5, RuleKnown DEF Bucket, Unscoped
  <2>5. MatchRule(r, a, Ancestry[p.name])
    BY <1>1, <2>1, <2>3, <2>4, MatchUnscoped
  <2> QED BY <2>3, <2>5 DEF Agrees
<1>6. CASE r \in Bucket(rules, {"file_path"}) /\ \E s \in x.accessed : s[2] \in r.names
  <2>1. PICK s \in x.accessed : s[2] \in r.names
    BY <1>6
  <2>2. PICK a : a = [said EXCEPT !.file = s[2]]
    OBVIOUS
  <2>3. a \in AttributesOf(x) /\ a.file = s[2]
    BY <2>1, <2>2 DEF AttributesOf
  <2>4. r.type = "file_path" /\ Unscoped(r) /\ Nothing \notin r.names
    BY <1>6, RuleKnown DEF Bucket, Unscoped
  <2>5. MatchRule(r, a, Ancestry[p.name])
    BY <1>1, <2>1, <2>3, <2>4, MatchUnscoped
  <2> QED BY <2>3, <2>5 DEF Agrees
<1>7. CASE /\ r \in Bucket(rules, {"chain_pattern"})
           /\ \E q \in x.processes : MatchChain(Ancestry[q.name], r.pattern)
  <2>1. PICK q \in x.processes : MatchChain(Ancestry[q.name], r.pattern)
    BY <1>7
  <2>2. PICK a : a = said
    OBVIOUS
  <2>3. a \in AttributesOf(x)
    BY <2>2 DEF AttributesOf
  <2>4. r.type = "chain_pattern" /\ Unscoped(r) /\ Ancestry[q.name] # Nothing
    BY <1>7, <2>1, ChainKnown DEF Bucket, Unscoped
  <2>5. MatchRule(r, a, Ancestry[q.name])
    BY <2>1, <2>4, MatchUnscoped
  <2> QED BY <2>1, <2>3, <2>5 DEF Agrees
<1> QED BY <1>2, <1>3, <1>4, <1>5, <1>6, <1>7 DEF Evaluate

\* What one process with what the event says of it matches, the fast path hits.
LEMMA AgreedIsHit ==
  ASSUME case \in FilterCases, NEW x, x.processes \subseteq Some(case.event.process),
         NEW r \in case.block, Agrees(x, r)
  PROVE  r \in Evaluate(x, case.block)
<1> DEFINE rules == case.block
<1>1. PICK p \in x.processes, a \in AttributesOf(x) : MatchRule(r, a, Ancestry[p.name])
  BY DEF Agrees
<1>2. \A q \in x.processes : q = p
  BY DEF Some
<1>3. r.type \in RuleTypes /\ Ancestry[p.name] # Nothing
  BY RuleKnown, ChainKnown
<1>4. CASE ~Unscoped(r)
  <2>1. PICK v \in ScopedValues(x, p, r.type) : MatchRule(r, v, Ancestry[p.name])
    BY <1>1, <1>2, <1>3, SaidIsScoped
  <2>2. r \in EvaluateScoped(x, rules)
    BY <1>4, <2>1 DEF EvaluateScoped, Scoped, Unscoped
  <2> QED BY <2>2 DEF Evaluate
<1>5. CASE Unscoped(r)
  <2> USE <1>1, <1>3, <1>5, MatchUnscoped
  <2>1. CASE r.type \in {"dst_ip", "dst_cidr"}
    <3>1. a.ip # Nothing /\ a.ip \in r.names
      BY <2>1
    <3>2. \E s \in x.connected : s[2] \in r.names
      BY <3>1 DEF AttributesOf
    <3>3. r \in Bucket(rules, {"dst_ip", "dst_cidr"})
      BY <2>1 DEF Bucket, Unscoped
    <3> QED BY <3>2, <3>3 DEF Evaluate
  <2>2. CASE r.type = "domain"
    <3>1. a.domain # Nothing /\ a.domain \in r.names
      BY <2>2
    <3>2. x.domains \intersect r.names # {}
      BY <3>1 DEF AttributesOf
    <3>3. r \in Bucket(rules, {"domain"})
      BY <2>2 DEF Bucket, Unscoped
    <3> QED BY <3>2, <3>3 DEF Evaluate
  <2>3. CASE r.type = "process_name"
    <3>1. a.process # Nothing /\ a.process \in r.names
      BY <2>3
    <3>2. \E q \in x.processes : q.name \in r.names
      BY <3>1 DEF AttributesOf
    <3>3. r \in Bucket(rules, {"process_name"})
      BY <2>3 DEF Bucket, Unscoped
    <3> QED BY <3>2, <3>3 DEF Evaluate
  <2>4. CASE r.type = "file_path"
    <3>1. a.file # Nothing /\ a.file \in r.names
      BY <2>4
    <3>2. \E s \in x.accessed : s[2] \in r.names
      BY <3>1 DEF AttributesOf
    <3>3. r \in Bucket(rules, {"file_path"})
      BY <2>4 DEF Bucket, Unscoped
    <3> QED BY <3>2, <3>3 DEF Evaluate
  <2>5. CASE r.type = "chain_pattern"
    <3>1. MatchChain(Ancestry[p.name], r.pattern)
      BY <2>5
    <3>2. r \in Bucket(rules, {"chain_pattern"})
      BY <2>5 DEF Bucket, Unscoped
    <3> QED BY <3>1, <3>2 DEF Evaluate
  <2>6. CASE r.type = "finding_title"
    <3>1. a.title # Nothing
      BY <2>6
    <3> QED BY <3>1 DEF AttributesOf
  <2> QED BY <2>1, <2>2, <2>3, <2>4, <2>5, <2>6 DEF RuleTypes
<1> QED BY <1>4, <1>5

\* The compiled buckets of the fast path decide what _match_rule decides for each
\* rule and the event's process, whatever the rules, the event and the chains
\* (_compile_rules and evaluate of synchronous_enforcer.py).
THEOREM BucketsAgree == FilterSpec => []FastPathAgrees
<1>1. FilterInit => FilterInv
  BY ExtractFits DEF FilterInit, FilterInv
<1>2. FilterInv /\ [FilterNext]_filterVars => FilterInv'
  <2> SUFFICES ASSUME FilterInv, [FilterNext]_filterVars
               PROVE  FilterInv'
    OBVIOUS
  <2>1. CASE SelfFilter
    <3>1. /\ stage = "extracted" /\ ents' = FilterAgentNoise(ents) /\ stage' \in {"own", "dropped"}
          /\ UNCHANGED <<case, hit>>
      BY <2>1 DEF SelfFilter, Leaves
    <3>2. DOMAIN ents' = DOMAIN NoEntities /\ ents'.processes \subseteq ents.processes
      BY <3>1, NoiseFits DEF FilterInv
    <3> QED BY <3>1, <3>2 DEF FilterInv
  <2>2. CASE FastPathCheck
    <3>1. /\ stage = "own" /\ UNCHANGED <<case, ents>>
          /\ \/ stage' = "blocked" /\ hit' \in Evaluate(ents, case.block)
             \/ stage' = "unblocked" /\ Evaluate(ents, case.block) = {}
      BY <2>2 DEF FastPathCheck
    <3> QED BY <3>1 DEF FilterInv
  <2>3. CASE AllowFilter
    <3>1. UNCHANGED case /\ stage' \in {"allowed", "dropped"}
      BY <2>3 DEF AllowFilter, Leaves
    <3> QED BY <3>1 DEF FilterInv
  <2>4. CASE BaselineGate
    <3>1. UNCHANGED case /\ stage' \in {"batched", "dropped"}
      BY <2>4 DEF BaselineGate, Leaves
    <3> QED BY <3>1 DEF FilterInv
  <2>5. CASE UNCHANGED filterVars
    BY <2>5 DEF FilterInv, filterVars
  <2> QED BY <2>1, <2>2, <2>3, <2>4, <2>5 DEF FilterNext
<1>3. FilterInv => FastPathAgrees
  <2> SUFFICES ASSUME FilterInv
               PROVE  FastPathAgrees
    OBVIOUS
  <2>1. ASSUME stage = "blocked", ents.processes # {}
        PROVE  Agrees(ents, hit)
    <3>1. PICK p \in ents.processes : TRUE
      BY <2>1
    <3> QED BY <2>1, <3>1, HitsAgree DEF FilterInv
  <2>2. ASSUME stage = "unblocked", NEW r \in case.block, Agrees(ents, r)
        PROVE  FALSE
    <3>1. r \in Evaluate(ents, case.block)
      BY <2>2, AgreedIsHit DEF FilterInv
    <3> QED BY <2>2, <3>1 DEF FilterInv
  <2> QED BY <2>1, <2>2 DEF FastPathAgrees, Agrees, AttributesOf
<1> QED BY <1>1, <1>2, <1>3, PTL DEF FilterSpec

=============================================================================
