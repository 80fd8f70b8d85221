------------------------ MODULE ResponseEngineProofs ------------------------
(***************************************************************************)
(* Proofs about the endpoint controls and the response engine.             *)
(*                                                                         *)
(* ControlsInv is inductive for the controls alone, whoever calls them;    *)
(* EngineInv adds the engine.  Each action has a lemma; what an action     *)
(* leaves alone is covered by one lemma for each part of the invariant.    *)
(***************************************************************************)
EXTENDS ResponseEngine, FiniteSetTheorems, SequenceTheorems, TLAPS

-----------------------------------------------------------------------------
(* The jobs of the endpoint controls. *)

Kind(op) == CASE op \in {"isolate", "restore", "rollback"} -> "isolate"
              [] op \in {"block", "unblock"} -> "block"
              [] OTHER -> "panic"
Kinds == {"isolate", "block", "panic"}
Subjects(k) == CASE k = "isolate" -> Pids [] k = "block" -> Addresses [] OTHER -> {"host"}

\* The rules that an operation of the kind may touch, and those that it is for:
\* on macOS the anchor of a process promises nothing.
Own(k, x) == CASE k = "isolate" -> {"anchor", "out", "in"} \X {x}
               [] k = "block" -> {"conn"} \X {x}
               [] OTHER -> {"panic"} \X {"all", "out", "in"}
Promises(k, x) ==
  CASE k = "isolate" -> IF platform = "macos" THEN {} ELSE {<<"out", x>>, <<"in", x>>}
    [] k = "block" -> {<<"conn", x>>}
    [] OTHER -> IF platform = "macos" THEN {<<"panic", "all">>}
                ELSE {<<"panic", "out">>, <<"panic", "in">>}

PathsOf(f) == Nat \X {Basename[f]}

NetworkJobs(op, x) ==
  [op : {op}, x : {x}, todo : Seq(Own(Kind(op), x)), done : Seq(Own(Kind(op), x)),
   failed : BOOLEAN]
NetworkJob(j) ==
  /\ j.op \in NetworkOps /\ j.x \in Subjects(Kind(j.op)) /\ j \in NetworkJobs(j.op, j.x)
  /\ j.op \in {"block", "unblock"} => Len(j.todo) <= 1
HostsJob(j) ==
  /\ j \in [op : HostsOps, x : Domains \union {None}, copy : [Domains -> Nat]]
  /\ j.op # "restore_all" => j.x \in Domains
FileJob(j) ==
  j.x \in Files /\ j \in [op : FileOps, x : {j.x}, path : PathsOf(j.x), at : {"move", "record"}]

Results == {None, "success", "failed", "not_found", "permission_denied",
            "already_isolated", "not_isolated", "already_sinkholed", "not_sinkholed",
            "already_quarantined", "not_quarantined"}

SomeJob(j) == j = Idle \/ NetworkJob(j) \/ HostsJob(j) \/ FileJob(j)

ControlTypes ==
  /\ platform \in {"linux", "windows", "macos"} /\ calls \in Workloads
  /\ firewall \in [Rules -> Nat] /\ hosts \in [Domains -> Nat]
  /\ home \in [Files -> Files \union {None}]
  /\ now \in Nat /\ faults \in Nat /\ clean \in BOOLEAN /\ panic \in BOOLEAN
  /\ isolated \subseteq Pids /\ blocked \subseteq Addresses
  /\ DOMAIN records = Files /\ records = [f \in Files |-> records[f]]
  /\ \A f \in Files : records[f] # None => records[f] \in PathsOf(f)
  /\ job = [t \in Callers |-> job[t]] /\ \A t \in Callers : SomeJob(job[t])
  /\ answer \in [Callers -> Results]

\* A file lies under its own name or in the vault under its basename.
VaultInv ==
  /\ \A f \in Files : home[f] # None => Basename[home[f]] = Basename[f]
  /\ \A q \in DOMAIN vault : vault[q] # None => vault[q] \in Files /\ q[2] = Basename[vault[q]]
  /\ EvidenceIsKept

\* As long as no two calls have met ...
Apart ==
  \A t, u \in Callers :
    t # u /\ job[t] # Idle /\ job[u] # Idle
      => Resource(job[t].op, job[t].x) # Resource(job[u].op, job[u].x)

\* ... what memory says of the firewall is in force or under way ...
NetworkInv ==
  /\ \A k \in Kinds : \A x \in Subjects(k) : Tracked(k, x) =>
       \/ \A r \in Promises(k, x) : firewall[r] > 0
       \/ \E t \in Callers : job[t].op \in NetworkOps /\ Kind(job[t].op) = k /\ job[t].x = x
  /\ \A t \in Callers : job[t].op \in NetworkOps =>
       /\ job[t].op \in Kinds =>
            /\ ~Tracked(job[t].op, job[t].x)
            /\ \A r \in Promises(job[t].op, job[t].x) :
                 firewall[r] > 0 \/ \E n \in DOMAIN job[t].todo : job[t].todo[n] = r
       /\ job[t].op = "rollback" => job[t].x \notin isolated
       /\ job[t].op = "unblock" /\ job[t].todo # <<>> => firewall[<<"conn", job[t].x>>] > 0

\* ... and so is what the hosts file says.
HostsInv ==
  /\ \A d \in Domains : hosts[d] > 0 => d \in sinkholed
  /\ \A t \in Callers : job[t].op \in HostsOps => job[t].copy = hosts

ControlsInv ==
  /\ ControlTypes /\ VaultInv
  /\ clean => Apart /\ NetworkInv /\ HostsInv

-----------------------------------------------------------------------------
(* Facts about rules and jobs. *)

LEMMA RuleFacts ==
  ASSUME NEW k \in Kinds, NEW x \in Subjects(k)
  PROVE  /\ Own(k, x) \subseteq Rules /\ Promises(k, x) \subseteq Own(k, x)
         /\ \A l \in Kinds : \A y \in Subjects(l) :
              k # l \/ x # y => \A r \in Own(k, x) : r \notin Own(l, y)
<1>1. CASE k = "isolate"
  BY <1>1 DEF Own, Promises, Rules, Subjects, Kinds
<1>2. CASE k = "block"
  BY <1>2 DEF Own, Promises, Rules, Subjects, Kinds
<1>3. CASE k = "panic"
  BY <1>3 DEF Own, Promises, Rules, Subjects, Kinds
<1> QED BY <1>1, <1>2, <1>3 DEF Kinds

LEMMA KindFacts ==
  /\ \A op \in NetworkOps : Kind(op) \in Kinds
  /\ \A k \in Kinds : Kind(k) = k /\ k \in NetworkOps /\ k \notin Removing
BY DEF Kind, Kinds, NetworkOps, Removing

\* What the operation of a job says of the job.
LEMMA JobFacts ==
  ASSUME NEW j, SomeJob(j)
  PROVE  /\ j.op \in NetworkOps => NetworkJob(j)
         /\ j.op \in HostsOps => HostsJob(j)
         /\ j.op \in FileOps => FileJob(j)
         /\ j.op \in NetworkOps \union HostsOps \union FileOps <=> j # Idle
<1> USE DEF NetworkOps, Removing, HostsOps, FileOps
<1>1. CASE j = Idle
  BY <1>1 DEF Idle
<1>2. CASE NetworkJob(j)
  BY <1>2 DEF NetworkJob, Idle
<1>3. CASE HostsJob(j)
  <2>1. j.op \in HostsOps
    BY <1>3 DEF HostsJob
  <2> QED BY <1>3, <2>1 DEF Idle
<1>4. CASE FileJob(j)
  <2>1. j.op \in FileOps
    BY <1>4 DEF FileJob
  <2> QED BY <1>4, <2>1 DEF Idle
<1> QED BY <1>1, <1>2, <1>3, <1>4 DEF SomeJob

\* A job that goes on to be j.
LEMMA JobsKeep ==
  ASSUME ControlTypes, NEW t \in Callers, NEW j, SomeJob(j), job' = [job EXCEPT ![t] = j]
  PROVE  /\ job' = [u \in Callers |-> job'[u]]
         /\ \A u \in Callers : SomeJob(job'[u])
         /\ \A u \in Callers : job'[u] = IF u = t THEN j ELSE job[u]
<1>1. job = [u \in Callers |-> job[u]] /\ \A u \in Callers : SomeJob(job[u])
  BY DEF ControlTypes
<1>2. job' = [u \in Callers |-> IF u = t THEN j ELSE job[u]]
  BY <1>1
<1>3. \A u \in Callers : job'[u] = IF u = t THEN j ELSE job[u]
  BY <1>2
<1>4. job' = [u \in Callers |-> job'[u]]
  BY <1>2, <1>3
<1> QED BY <1>1, <1>3, <1>4

LEMMA AnswersKeep ==
  ASSUME ControlTypes, NEW t \in Callers, NEW r \in Results,
         answer' = [answer EXCEPT ![t] = r]
  PROVE  answer' \in [Callers -> Results]
BY DEF ControlTypes

\* Calls stay apart: one that begins meets no other, one that goes on keeps what
\* it works on.
LEMMA BeginsApart ==
  ASSUME ControlTypes, clean => Apart, NEW t \in Callers, NEW j, SomeJob(j), Starts(t, j)
  PROVE  clean' => clean /\ Apart' /\ ~Busy(Resource(j.op, j.x))
<1> SUFFICES ASSUME clean'
             PROVE  clean /\ Apart' /\ ~Busy(Resource(j.op, j.x))
  OBVIOUS
<1>1. clean /\ ~Busy(Resource(j.op, j.x)) /\ job' = [job EXCEPT ![t] = j]
  BY DEF Starts
<1>2. \A u \in Callers : job'[u] = IF u = t THEN j ELSE job[u]
  BY <1>1, JobsKeep
<1>3. \A u \in Callers : job[u] # Idle => Resource(job[u].op, job[u].x) # Resource(j.op, j.x)
  BY <1>1 DEF Busy
<1>4. Apart
  BY <1>1
<1>5. ASSUME NEW u \in Callers, NEW v \in Callers, u # v, job'[u] # Idle, job'[v] # Idle
      PROVE  Resource(job'[u].op, job'[u].x) # Resource(job'[v].op, job'[v].x)
  BY <1>2, <1>3, <1>4, <1>5 DEF Apart
<1> QED BY <1>1, <1>5 DEF Apart, Resource

LEMMA GoesOnApart ==
  ASSUME ControlTypes, Apart, NEW t \in Callers, NEW j, SomeJob(j),
         job' = [job EXCEPT ![t] = j],
         j = Idle \/ (job[t] # Idle /\ Resource(j.op, j.x) = Resource(job[t].op, job[t].x))
  PROVE  Apart'
<1>1. \A u \in Callers : job'[u] = IF u = t THEN j ELSE job[u]
  BY JobsKeep
<1>2. ASSUME NEW u \in Callers, NEW v \in Callers, u # v, job'[u] # Idle, job'[v] # Idle
      PROVE  Resource(job'[u].op, job'[u].x) # Resource(job'[v].op, job'[v].x)
  BY <1>1, <1>2 DEF Apart
<1> QED BY <1>2 DEF Apart, Resource

-----------------------------------------------------------------------------
(* What leaves a part of the invariant alone keeps it. *)

LEMMA VaultKeeps == VaultInv /\ UNCHANGED <<home, vault>> => VaultInv'
BY DEF VaultInv, EvidenceIsKept

LEMMA HostsKeep ==
  ASSUME ControlTypes, HostsInv, UNCHANGED hostsVars, NEW t \in Callers, NEW j, SomeJob(j),
         job' = [job EXCEPT ![t] = j], j.op \notin HostsOps
  PROVE  HostsInv'
<1>1. \A u \in Callers : job'[u] = IF u = t THEN j ELSE job[u]
  BY JobsKeep
<1> QED BY <1>1 DEF HostsInv, hostsVars

LEMMA NetworkKeeps ==
  ASSUME ControlTypes, NetworkInv, UNCHANGED <<platform, firewallVars>>, NEW t \in Callers,
         NEW j, SomeJob(j), job' = [job EXCEPT ![t] = j],
         job[t].op \notin NetworkOps, j.op \notin NetworkOps
  PROVE  NetworkInv'
<1>1. \A u \in Callers : job'[u] = IF u = t THEN j ELSE job[u]
  BY JobsKeep
<1>2. \A k, x : /\ Tracked(k, x)' <=> Tracked(k, x)
               /\ Promises(k, x)' = Promises(k, x)
  BY DEF Tracked, Promises, firewallVars
<1>3. ASSUME NEW k \in Kinds, NEW x \in Subjects(k), Tracked(k, x)'
      PROVE  \/ \A r \in Promises(k, x)' : firewall'[r] > 0
             \/ \E u \in Callers : /\ job'[u].op \in NetworkOps /\ Kind(job'[u].op) = k
                                   /\ job'[u].x = x
  <2>1. CASE \A r \in Promises(k, x) : firewall[r] > 0
    BY <2>1, <1>2 DEF firewallVars
  <2>2. CASE \E u \in Callers : /\ job[u].op \in NetworkOps /\ Kind(job[u].op) = k
                                /\ job[u].x = x
    BY <2>2, <1>1
  <2> QED BY <1>2, <1>3, <2>1, <2>2 DEF NetworkInv
<1>4. ASSUME NEW u \in Callers, job'[u].op \in NetworkOps
      PROVE  /\ job'[u].op \in Kinds =>
                  /\ ~Tracked(job[u].op, job[u].x)'
                  /\ \A r \in Promises(job[u].op, job[u].x)' :
                       firewall'[r] > 0 \/ \E n \in DOMAIN job'[u].todo : job'[u].todo[n] = r
             /\ job'[u].op = "rollback" => job'[u].x \notin isolated'
             /\ job'[u].op = "unblock" /\ job'[u].todo # <<>>
                  => firewall'[<<"conn", job'[u].x>>] > 0
  <2>1. job'[u] = job[u] /\ u # t
    BY <1>1, <1>4
  <2> QED BY <2>1, <1>2, <1>4 DEF NetworkInv, firewallVars
<1> QED BY <1>3, <1>4 DEF NetworkInv

-----------------------------------------------------------------------------
(* The firewall.  A job that works on x for the kind k changes the rules   *)
(* of <<k, x>> and what memory says of it; the rest is as before.          *)

\* Two jobs of the network that are apart do not have the same subject.
LEMMA NetworkAlone ==
  ASSUME ControlTypes, Apart, NEW t \in Callers, job[t].op \in NetworkOps,
         NEW u \in Callers, u # t, job[u].op \in NetworkOps
  PROVE  job[u].x # job[t].x
<1>1. SomeJob(job[t]) /\ SomeJob(job[u])
  BY DEF ControlTypes
<1>2. job[t] # Idle /\ job[u] # Idle
  BY <1>1, JobFacts
<1>3. /\ Resource(job[t].op, job[t].x) = job[t].x
      /\ Resource(job[u].op, job[u].x) = job[u].x
  BY DEF Resource, NetworkOps, Removing, HostsOps, FileOps
<1> QED BY <1>2, <1>3 DEF Apart

\* t goes on with j, which is Idle or works on x: the obligations of its step.
NetworkMoves(t, j, k, x) ==
  /\ SomeJob(j) /\ job' = [job EXCEPT ![t] = j]
  /\ j = Idle \/ (j.op \in NetworkOps /\ Kind(j.op) = k /\ j.x = x)
  /\ job[t].op \in NetworkOps => Kind(job[t].op) = k /\ job[t].x = x
  /\ \A u \in Callers : u # t /\ job[u].op \in NetworkOps => job[u].x # x
  /\ \A r \in Rules : r \notin Own(k, x) => firewall'[r] = firewall[r]
  /\ \A l \in Kinds : \A y \in Subjects(l) :
       l # k \/ y # x => (Tracked(l, y)' <=> Tracked(l, y))
  /\ Tracked(k, x)' => j # Idle \/ \A r \in Promises(k, x) : firewall'[r] > 0
  /\ j.op \in Kinds => ~Tracked(k, x)'
  /\ j.op \in Kinds => \A r \in Promises(k, x) :
       firewall'[r] > 0 \/ \E n \in DOMAIN j.todo : j.todo[n] = r
  /\ j.op = "rollback" => x \notin isolated'
  /\ j.op = "unblock" /\ j.todo # <<>> => firewall'[<<"conn", x>>] > 0

LEMMA NetworkStep ==
  ASSUME ControlTypes, NetworkInv, UNCHANGED platform, NEW t \in Callers, NEW j,
         NEW k \in Kinds, NEW x \in Subjects(k), NetworkMoves(t, j, k, x)
  PROVE  NetworkInv'
<1> USE DEF NetworkMoves
<1>1. \A u \in Callers : job'[u] = IF u = t THEN j ELSE job[u]
  BY JobsKeep
<1>2. \A l, y : Promises(l, y)' = Promises(l, y)
  BY DEF Promises
<1>3. ASSUME NEW l \in Kinds, NEW y \in Subjects(l), l # k \/ y # x
      PROVE  /\ Tracked(l, y)' <=> Tracked(l, y)
             /\ \A r \in Own(l, y) : firewall'[r] = firewall[r]
             /\ Promises(l, y) \subseteq Own(l, y)
  <2>1. Own(l, y) \subseteq Rules /\ \A r \in Own(l, y) : r \notin Own(k, x)
    BY <1>3, RuleFacts
  <2>2. Promises(l, y) \subseteq Own(l, y)
    BY RuleFacts
  <2> QED BY <2>1, <2>2, <1>3
<1>4. ASSUME NEW l \in Kinds, NEW y \in Subjects(l), Tracked(l, y)'
      PROVE  \/ \A r \in Promises(l, y)' : firewall'[r] > 0
             \/ \E u \in Callers : /\ job'[u].op \in NetworkOps /\ Kind(job'[u].op) = l
                                   /\ job'[u].x = y
  <2>1. CASE l = k /\ y = x
    BY <2>1, <1>1, <1>2, <1>4
  <2>2. CASE l # k \/ y # x
    <3>1. Tracked(l, y)
      BY <2>2, <1>3, <1>4
    <3>2. CASE \A r \in Promises(l, y) : firewall[r] > 0
      BY <3>2, <2>2, <1>2, <1>3
    <3>3. CASE \E u \in Callers : /\ job[u].op \in NetworkOps /\ Kind(job[u].op) = l
                                  /\ job[u].x = y
      <4>1. PICK u \in Callers : job[u].op \in NetworkOps /\ Kind(job[u].op) = l /\ job[u].x = y
        BY <3>3
      <4>2. u # t
        BY <4>1, <2>2
      <4> QED BY <4>1, <4>2, <1>1
    <3> QED BY <3>1, <3>2, <3>3 DEF NetworkInv
  <2> QED BY <2>1, <2>2
<1>5. ASSUME NEW u \in Callers, job'[u].op \in NetworkOps
      PROVE  /\ job'[u].op \in Kinds =>
                  /\ ~Tracked(job[u].op, job[u].x)'
                  /\ \A r \in Promises(job[u].op, job[u].x)' :
                       firewall'[r] > 0 \/ \E n \in DOMAIN job'[u].todo : job'[u].todo[n] = r
             /\ job'[u].op = "rollback" => job'[u].x \notin isolated'
             /\ job'[u].op = "unblock" /\ job'[u].todo # <<>>
                  => firewall'[<<"conn", job'[u].x>>] > 0
  <2>1. CASE u = t
    <3>1. job'[u] = j /\ j.op \in NetworkOps /\ Kind(j.op) = k /\ j.x = x
      BY <2>1, <1>1, <1>5 DEF Idle, NetworkOps, Removing
    <3>2. j.op \in Kinds => j.op = k
      BY <3>1, KindFacts
    <3>3. \A op, y : op = job'[u].op /\ y = job'[u].x =>
            /\ Tracked(job[u].op, job[u].x)' <=> Tracked(op, y)'
            /\ Promises(job[u].op, job[u].x)' = Promises(op, y)
      BY <1>2
    <3>4. j.op \in Kinds => /\ Tracked(job[u].op, job[u].x)' <=> Tracked(k, x)'
                            /\ Promises(job[u].op, job[u].x)' = Promises(k, x)
      BY <3>1, <3>2, <3>3
    <3> QED BY <3>1, <3>4
  <2>2. CASE u # t
    <3>1. job'[u] = job[u] /\ job[u].op \in NetworkOps
      BY <2>2, <1>1, <1>5
    <3>2. NetworkJob(job[u]) /\ job[u].x # x
      BY <3>1, <2>2, JobFacts DEF ControlTypes
    <3> DEFINE l == Kind(job[u].op)
               y == job[u].x
    <3>3. l \in Kinds /\ y \in Subjects(l) /\ (job[u].op \in Kinds => job[u].op = l)
      BY <3>1, <3>2, KindFacts DEF NetworkJob
    <3>4. PICK m \in Kinds : m = l
      BY <3>3
    <3>5. PICK z \in Subjects(m) : z = y
      BY <3>3, <3>4
    <3>6. /\ Tracked(m, z)' <=> Tracked(m, z)
          /\ \A r \in Own(m, z) : firewall'[r] = firewall[r]
          /\ Promises(m, z) \subseteq Own(m, z)
      BY <1>3, <3>2, <3>5
    <3>7. job[u].op \in Kinds =>
            /\ Tracked(job[u].op, job[u].x)' <=> Tracked(m, z)'
            /\ Tracked(job[u].op, job[u].x) <=> Tracked(m, z)
            /\ Promises(job[u].op, job[u].x)' = Promises(m, z)
            /\ Promises(job[u].op, job[u].x) = Promises(m, z)
      BY <3>1, <3>3, <3>4, <3>5, <1>2
    <3>8. job[u].op \in Kinds =>
            /\ ~Tracked(job[u].op, job[u].x)'
            /\ \A r \in Promises(job[u].op, job[u].x)' :
                 firewall'[r] > 0 \/ \E n \in DOMAIN job'[u].todo : job'[u].todo[n] = r
      <4> SUFFICES ASSUME job[u].op \in Kinds
                   PROVE  /\ ~Tracked(job[u].op, job[u].x)'
                          /\ \A r \in Promises(job[u].op, job[u].x)' :
                               \/ firewall'[r] > 0
                               \/ \E n \in DOMAIN job'[u].todo : job'[u].todo[n] = r
        OBVIOUS
      <4>1. /\ ~Tracked(m, z)
            /\ \A r \in Promises(m, z) :
                 firewall[r] > 0 \/ \E n \in DOMAIN job[u].todo : job[u].todo[n] = r
        <5>1. /\ ~Tracked(job[u].op, job[u].x)
              /\ \A r \in Promises(job[u].op, job[u].x) :
                   firewall[r] > 0 \/ \E n \in DOMAIN job[u].todo : job[u].todo[n] = r
          BY <3>1 DEF NetworkInv
        <5> QED BY <5>1, <3>7
      <4>2. ~Tracked(job[u].op, job[u].x)'
        BY <4>1, <3>6, <3>7
      <4>3. \A r \in Promises(m, z) :
              firewall'[r] > 0 \/ \E n \in DOMAIN job'[u].todo : job'[u].todo[n] = r
        <5>1. \A r \in Promises(m, z) : firewall'[r] = firewall[r]
          BY <3>6
        <5> QED BY <4>1, <5>1, <3>1
      <4> QED BY <4>2, <4>3, <3>7
    <3>9. job'[u].op = "rollback" => job'[u].x \notin isolated'
      <4> SUFFICES ASSUME job[u].op = "rollback"
                   PROVE  job[u].x \notin isolated'
        BY <3>1
      <4>1. job[u].x \notin isolated /\ m = "isolate"
        BY <3>1, <3>4 DEF NetworkInv, Kind
      <4>2. Tracked(m, z)' <=> z \in isolated'
        BY <4>1 DEF Tracked
      <4>3. Tracked(m, z) <=> z \in isolated
        BY <4>1 DEF Tracked
      <4> QED BY <4>1, <4>2, <4>3, <3>5, <3>6
    <3>10. job'[u].op = "unblock" /\ job'[u].todo # <<>> => firewall'[<<"conn", job'[u].x>>] > 0
      <4> SUFFICES ASSUME job[u].op = "unblock", job[u].todo # <<>>
                   PROVE  firewall'[<<"conn", job[u].x>>] > 0
        BY <3>1
      <4>1. firewall[<<"conn", job[u].x>>] > 0 /\ m = "block"
        BY <3>1, <3>4 DEF NetworkInv, Kind
      <4>2. <<"conn", z>> \in Own(m, z)
        BY <4>1 DEF Own
      <4> QED BY <4>1, <4>2, <3>5, <3>6
    <3> QED BY <3>1, <3>8, <3>9, <3>10
  <2> QED BY <2>1, <2>2
<1> QED BY <1>4, <1>5 DEF NetworkInv

\* What an operation is commanded to do is all that it is for.
LEMMA CommandsFacts ==
  ASSUME ControlTypes, NEW op \in NetworkOps, NEW x \in Subjects(Kind(op))
  PROVE  /\ Commands(op, x) \in Seq(Own(Kind(op), x))
         /\ op \in {"block", "unblock"} => Len(Commands(op, x)) = 1
         /\ \A r \in Promises(Kind(op), x) :
              \E n \in DOMAIN Commands(op, x) : Commands(op, x)[n] = r
<1>1. CASE op \in {"isolate", "restore", "rollback"}
  <2>1. Commands(op, x) = IsolationRules(x) /\ Kind(op) = "isolate"
    BY <1>1 DEF Commands, Kind
  <2>2. CASE platform = "macos"
    <3>1. Commands(op, x) = << <<"anchor", x>> >> /\ Promises(Kind(op), x) = {}
      BY <2>1, <2>2 DEF IsolationRules, Promises
    <3>2. <<"anchor", x>> \in Own(Kind(op), x)
      BY <2>1 DEF Own
    <3> QED BY <3>1, <3>2, <1>1
  <2>3. CASE platform # "macos"
    <3>1. /\ Commands(op, x) = << <<"out", x>>, <<"in", x>> >>
          /\ Promises(Kind(op), x) = {<<"out", x>>, <<"in", x>>}
      BY <2>1, <2>3 DEF IsolationRules, Promises
    <3>2. <<"out", x>> \in Own(Kind(op), x) /\ <<"in", x>> \in Own(Kind(op), x)
      BY <2>1 DEF Own
    <3> QED BY <3>1, <3>2, <1>1
  <2> QED BY <2>2, <2>3
<1>2. CASE op \in {"block", "unblock"}
  <2>1. /\ Commands(op, x) = << <<"conn", x>> >> /\ Kind(op) = "block"
        /\ Promises(Kind(op), x) = {<<"conn", x>>} /\ <<"conn", x>> \in Own(Kind(op), x)
    BY <1>2 DEF Commands, ConnectionRules, Kind, Promises, Own
  <2> QED BY <2>1
<1>3. CASE op \in {"panic", "panic_restore"}
  <2>1. Commands(op, x) = PanicRules /\ Kind(op) = "panic"
    BY <1>3 DEF Commands, Kind
  <2>2. CASE platform = "macos"
    <3>1. /\ Commands(op, x) = << <<"panic", "all">> >>
          /\ Promises(Kind(op), x) = {<<"panic", "all">>}
      BY <2>1, <2>2 DEF PanicRules, Promises
    <3>2. <<"panic", "all">> \in Own(Kind(op), x)
      BY <2>1 DEF Own
    <3> QED BY <3>1, <3>2, <1>3
  <2>3. CASE platform # "macos"
    <3>1. /\ Commands(op, x) = << <<"panic", "out">>, <<"panic", "in">> >>
          /\ Promises(Kind(op), x) = {<<"panic", "out">>, <<"panic", "in">>}
      BY <2>1, <2>3 DEF PanicRules, Promises
    <3>2. <<"panic", "out">> \in Own(Kind(op), x) /\ <<"panic", "in">> \in Own(Kind(op), x)
      BY <2>1 DEF Own
    <3> QED BY <3>1, <3>2, <1>3
  <2> QED BY <2>2, <2>3
<1> QED BY <1>1, <1>2, <1>3 DEF NetworkOps, Removing

LEMMA CommandedIsJob ==
  ASSUME NEW op \in NetworkOps, NEW x \in Subjects(Kind(op)),
         NEW todo \in Seq(Own(Kind(op), x)),
         op \in {"block", "unblock"} => Len(todo) <= 1
  PROVE  NetworkJob(Commanded(op, x, todo))
BY DEF NetworkJob, Commanded, NetworkJobs

LEMMA NetworkCallStep ==
  ASSUME ControlsInv, UNCHANGED <<platform, calls>>, NEW t \in Callers, NEW op, NEW x,
         <<op, x>> \in Callable, job[t] = Idle, NetworkCall(t, op, x)
  PROVE  ControlsInv'
<1>0. None \in Results
  BY DEF Results
<1>1. /\ ControlTypes /\ VaultInv /\ (clean => Apart /\ NetworkInv /\ HostsInv)
      /\ UNCHANGED <<firewallVars, hostsVars, fileVars, process, faults>>
      /\ op \in NetworkOps /\ op # "rollback"
  BY DEF ControlsInv, NetworkCall
<1>2. x \in Subjects(Kind(op))
  <2>1. \/ op \in {"isolate", "restore"} /\ x \in Pids
        \/ op \in {"block", "unblock"} /\ x \in Addresses
        \/ op \in {"panic", "panic_restore"} /\ x = "host"
    BY <1>1 DEF Callable, NetworkOps, Removing
  <2> QED BY <2>1 DEF Subjects, Kind
<1>3. VaultInv'
  BY <1>1, VaultKeeps DEF fileVars
<1>4. ASSUME NEW r \in Results, Declines(t, r)
      PROVE  ControlsInv'
  <2>1. job' = [job EXCEPT ![t] = Idle] /\ answer' = [answer EXCEPT ![t] = r] /\ clean' = clean
    BY <1>4 DEF Declines, Answers
  <2>2. SomeJob(Idle) /\ Idle.op \notin NetworkOps /\ Idle.op \notin HostsOps
    BY DEF SomeJob, Idle, NetworkOps, Removing, HostsOps
  <2>3. ControlTypes'
    BY <1>1, <2>1, <2>2, JobsKeep, AnswersKeep
       DEF ControlTypes, firewallVars, hostsVars, fileVars
  <2>4. clean' => Apart' /\ NetworkInv' /\ HostsInv'
    BY <1>1, <2>1, <2>2, GoesOnApart, NetworkKeeps, HostsKeep
  <2> QED BY <1>3, <2>3, <2>4 DEF ControlsInv
<1>5. ASSUME NEW todo \in Seq(Own(Kind(op), x)), Starts(t, Commanded(op, x, todo)),
             op \in {"block", "unblock"} => Len(todo) <= 1,
             Tracked(op, x) = (op \in Removing),
             \A r \in Promises(Kind(op), x) : \E n \in DOMAIN todo : todo[n] = r
      PROVE  ControlsInv'
  <2> DEFINE j == Commanded(op, x, todo)
  <2>1. j.op = op /\ j.x = x /\ j.todo = todo
    BY DEF Commanded
  <2>2. NetworkJob(j) /\ SomeJob(j)
    BY <1>1, <1>2, <1>5, CommandedIsJob DEF SomeJob
  <2> HIDE DEF j
  <2>3. /\ job' = [job EXCEPT ![t] = j] /\ answer' = [answer EXCEPT ![t] = None]
        /\ clean' = (clean /\ ~Busy(Resource(op, x)))
    BY <1>5 DEF Starts, Commanded, j
  <2>4. ControlTypes'
    BY <1>1, <2>2, <2>3, <1>0, JobsKeep, AnswersKeep
       DEF ControlTypes, firewallVars, hostsVars, fileVars
  <2>5. clean' => clean /\ Apart' /\ ~Busy(Resource(op, x))
    BY <1>1, <1>5, <2>1, <2>2, BeginsApart DEF j
  <2>6. clean' => HostsInv'
    <3>1. j.op \notin HostsOps
      BY <1>1, <2>1 DEF NetworkOps, Removing, HostsOps
    <3> QED BY <1>1, <2>2, <2>3, <2>5, <3>1, HostsKeep
  <2>7. ASSUME clean'
        PROVE  NetworkInv'
    <3>1. \A u \in Callers : job[u].op \in NetworkOps => job[u].x # x
      <4> SUFFICES ASSUME NEW u \in Callers, job[u].op \in NetworkOps, job[u].x = x
                   PROVE  FALSE
        OBVIOUS
      <4>1. job[u] # Idle
        BY DEF Idle, NetworkOps, Removing
      <4>2. Resource(job[u].op, job[u].x) = Resource(op, x)
        BY <1>1 DEF Resource, NetworkOps, Removing, HostsOps, FileOps
      <4> QED BY <4>1, <4>2, <2>5, <2>7 DEF Busy
    <3>2. PICK k \in Kinds : k = Kind(op)
      BY <1>1, KindFacts
    <3>3. PICK y \in Subjects(k) : y = x
      BY <1>2, <3>2
    <3>4. \A l, z : Tracked(l, z)' <=> Tracked(l, z)
      BY <1>1 DEF Tracked, firewallVars
    <3>5. j.op \in Kinds => ~Tracked(k, y)'
      <4> SUFFICES ASSUME op \in Kinds
                   PROVE  ~Tracked(k, y)'
        BY <2>1
      <4>1. k = op /\ op \notin Removing
        BY <3>2, KindFacts
      <4> QED BY <4>1, <3>3, <3>4, <1>5
    <3>6. op = "unblock" => firewall'[<<"conn", x>>] > 0
      <4> SUFFICES ASSUME op = "unblock"
                   PROVE  firewall'[<<"conn", x>>] > 0
        OBVIOUS
      <4>1. k = "block" /\ Tracked(k, y)
        BY <3>2, <3>3, <1>5 DEF Kind, Removing, Tracked
      <4>2. \A r \in Promises(k, y) : firewall[r] > 0
        BY <4>1, <3>1, <3>3, <2>5, <2>7, <1>1 DEF NetworkInv
      <4>3. <<"conn", y>> \in Promises(k, y)
        BY <4>1 DEF Promises
      <4> QED BY <4>2, <4>3, <3>3, <1>1 DEF firewallVars
    <3>7. j # Idle /\ j.op # "rollback"
      BY <1>1, <2>1 DEF Idle, NetworkOps, Removing
    <3>8. firewall' = firewall /\ platform' = platform /\ job[t].op \notin NetworkOps
      BY <1>1 DEF firewallVars, Idle, NetworkOps, Removing
    <3>9. \A r \in Promises(k, y) :
            firewall'[r] > 0 \/ \E n \in DOMAIN j.todo : j.todo[n] = r
      BY <1>5, <2>1, <3>2, <3>3
    <3>10. j.op = "unblock" /\ j.todo # <<>> => firewall'[<<"conn", y>>] > 0
      BY <2>1, <3>3, <3>6
    <3>11. j.op \in NetworkOps /\ Kind(j.op) = k /\ j.x = y
      BY <1>1, <2>1, <3>2, <3>3
    <3>12. clean /\ NetworkInv /\ \A u \in Callers : job[u].op \in NetworkOps => job[u].x # y
      BY <2>5, <2>7, <1>1, <3>1, <3>3
    <3>13. NetworkMoves(t, j, k, y)
      BY <2>2, <2>3, <3>4, <3>5, <3>7, <3>8, <3>9, <3>10, <3>11, <3>12 DEF NetworkMoves
    <3> QED BY <1>1, <3>8, <3>12, <3>13, NetworkStep
  <2> QED BY <1>3, <2>4, <2>5, <2>6, <2>7 DEF ControlsInv
<1>6. CASE (Tracked(op, x) = (op \in Removing)) /\ Starts(t, Commanded(op, x, Commands(op, x)))
  <2>1. /\ Commands(op, x) \in Seq(Own(Kind(op), x))
        /\ op \in {"block", "unblock"} => Len(Commands(op, x)) <= 1
        /\ \A r \in Promises(Kind(op), x) :
             \E n \in DOMAIN Commands(op, x) : Commands(op, x)[n] = r
    <3>1. ControlTypes /\ op \in NetworkOps
      BY <1>1
    <3>2. /\ Commands(op, x) \in Seq(Own(Kind(op), x))
          /\ op \in {"block", "unblock"} => Len(Commands(op, x)) = 1
          /\ \A r \in Promises(Kind(op), x) :
               \E n \in DOMAIN Commands(op, x) : Commands(op, x)[n] = r
      BY <3>1, <1>2, CommandsFacts, Zenon
    <3>3. Len(Commands(op, x)) = 1 => Len(Commands(op, x)) <= 1
      OBVIOUS
    <3> QED BY <3>2, <3>3, Zenon
  <2> DEFINE todo == Commands(op, x)
  <2>2. todo \in Seq(Own(Kind(op), x)) /\ Starts(t, Commanded(op, x, todo))
    BY <1>6, <2>1
  <2> HIDE DEF todo
  <2>3. /\ op \in {"block", "unblock"} => Len(todo) <= 1
        /\ \A r \in Promises(Kind(op), x) : \E n \in DOMAIN todo : todo[n] = r
    BY <2>1 DEF todo
  <2> QED BY <1>5, <1>6, <2>2, <2>3
<1>7. CASE /\ Tracked(op, x) = (op \in Removing)
           /\ op = "isolate" /\ IsolateWithoutRules(t, x)
  <2>1. platform = "macos" /\ Starts(t, Commanded(op, x, <<>>))
    BY <1>7 DEF IsolateWithoutRules
  <2>2. Promises(Kind(op), x) = {} /\ <<>> \in Seq(Own(Kind(op), x))
    BY <1>7, <2>1 DEF Promises, Kind
  <2>3. op \notin {"block", "unblock"}
    BY <1>7
  <2> QED BY <1>5, <1>7, <2>1, <2>2, <2>3
<1> QED
  <2>1. CASE Tracked(op, x) = (op \in Removing)
    BY <1>6, <1>7, <2>1 DEF NetworkCall
  <2>2. CASE ~(Tracked(op, x) = (op \in Removing))
    <3>2. Declines(t, IF op \in Removing THEN "not_isolated" ELSE "already_isolated")
      BY <2>2 DEF NetworkCall
    <3>3. Declines(t, "not_isolated") \/ Declines(t, "already_isolated")
      BY <3>2
    <3>4. "not_isolated" \in Results /\ "already_isolated" \in Results
      BY DEF Results
    <3>5. CASE Declines(t, "not_isolated")
      BY <1>4, <3>4, <3>5
    <3>6. CASE Declines(t, "already_isolated")
      BY <1>4, <3>4, <3>6
    <3> QED BY <3>3, <3>5, <3>6
  <2> QED BY <2>1, <2>2

\* A command that fails: the operation ends, goes on, or is undone.
LEMMA CommandFailsJob ==
  ASSUME ControlTypes, NEW t \in Callers, job[t].op \in NetworkOps, job[t].todo # <<>>,
         CommandFails(t)
  PROVE  \E j : /\ SomeJob(j) /\ job' = [job EXCEPT ![t] = j]
                /\ answer' \in [Callers -> Results]
                /\ \/ j = Idle /\ job[t].op \in {"isolate", "block", "unblock", "panic"}
                   \/ job[t].op = "isolate" /\ j.op = "rollback" /\ j.x = job[t].x
                   \/ /\ job[t].op \in {"restore", "panic_restore", "rollback"}
                      /\ j.op = job[t].op /\ j.x = job[t].x
<1>1. NetworkJob(job[t]) /\ answer \in [Callers -> Results]
  BY JobFacts DEF ControlTypes
<1> DEFINE op == job[t].op
           x == job[t].x
           own == Own(Kind(op), x)
<1>2. /\ job[t] \in NetworkJobs(op, x) /\ x \in Subjects(Kind(op))
      /\ job[t].todo \in Seq(own) /\ job[t].done \in Seq(own) /\ Tail(job[t].todo) \in Seq(own)
  <2>1. job[t] \in NetworkJobs(op, x) /\ x \in Subjects(Kind(op))
    BY <1>1 DEF NetworkJob
  <2>2. job[t].todo \in Seq(own) /\ job[t].done \in Seq(own)
    BY <2>1 DEF NetworkJobs
  <2> HIDE DEF own
  <2> QED BY <2>1, <2>2
<1>3. CASE op \in {"restore", "panic_restore", "rollback"}
  <2> DEFINE j == [job[t] EXCEPT !.todo = Tail(@), !.failed = TRUE]
  <2>1. job' = [job EXCEPT ![t] = j] /\ answer' = answer
    BY <1>3 DEF CommandFails
  <2>2. j.op = op /\ j.x = x /\ j \in NetworkJobs(op, x)
    BY <1>2 DEF NetworkJobs
  <2>3. NetworkJob(j)
    <3> HIDE DEF j
    <3> QED BY <1>1, <1>2, <1>3, <2>2 DEF NetworkJob
  <2>4. SomeJob(j)
    BY <2>3 DEF SomeJob
  <2> HIDE DEF j
  <2> QED BY <1>1, <1>3, <2>1, <2>2, <2>4
<1>4. CASE op = "isolate" /\ platform = "windows"
  <2> DEFINE j == [job[t] EXCEPT !.op = "rollback", !.todo = job[t].done, !.failed = TRUE]
  <2>1. job' = [job EXCEPT ![t] = j] /\ answer' = answer
    BY <1>4 DEF CommandFails
  <2>2. Kind(op) = "isolate" /\ Kind("rollback") = "isolate" /\ "rollback" \in NetworkOps
    BY <1>4 DEF Kind, NetworkOps, Removing
  <2>3. j.op = "rollback" /\ j.x = x /\ j \in NetworkJobs("rollback", x)
    BY <1>2, <2>2 DEF NetworkJobs
  <2>4. NetworkJob(j)
    <3> HIDE DEF j
    <3> QED BY <1>2, <2>2, <2>3 DEF NetworkJob
  <2>5. SomeJob(j)
    BY <2>4 DEF SomeJob
  <2> HIDE DEF j
  <2> QED BY <1>1, <1>4, <2>1, <2>3, <2>5
<1>5. CASE op \notin {"restore", "panic_restore", "rollback"} /\ ~(op = "isolate" /\ platform = "windows")
  <2>1. job' = [job EXCEPT ![t] = Idle] /\ answer' = [answer EXCEPT ![t] = "failed"]
    BY <1>5 DEF CommandFails, Answers
  <2>2. answer' \in [Callers -> Results]
    BY <1>1, <2>1 DEF Results
  <2>3. op \in {"isolate", "block", "unblock", "panic"}
    BY <1>1, <1>5 DEF NetworkJob, NetworkOps, Removing
  <2>4. SomeJob(Idle)
    BY DEF SomeJob
  <2> QED BY <2>1, <2>2, <2>3, <2>4
<1> QED BY <1>3, <1>4, <1>5

LEMMA TailHas ==
  ASSUME NEW S, NEW s \in Seq(S), s # <<>>
  PROVE  \A n \in DOMAIN s :
           s[n] = Head(s) \/ \E m \in DOMAIN Tail(s) : Tail(s)[m] = s[n]
<1> SUFFICES ASSUME NEW n \in DOMAIN s, n # 1
             PROVE  \E m \in DOMAIN Tail(s) : Tail(s)[m] = s[n]
  OBVIOUS
<1>1. n - 1 \in DOMAIN Tail(s) /\ Tail(s)[n - 1] = s[n]
  OBVIOUS
<1> QED BY <1>1

\* The firewall after a command: one rule more, or one less.
LEMMA RuleChanges ==
  ASSUME ControlTypes, NEW r \in Rules,
         AddRule(r) \/ (CanDelete(r) /\ DeleteRule(r))
  PROVE  /\ firewall' \in [Rules -> Nat]
         /\ \A s \in Rules : s # r => firewall'[s] = firewall[s]
         /\ AddRule(r) => firewall'[r] > 0
<1>1. firewall \in [Rules -> Nat]
  BY DEF ControlTypes
<1>2. CASE AddRule(r)
  <2>1. firewall' = [firewall EXCEPT ![r] = IF platform = "macos" THEN 1 ELSE firewall[r] + 1]
    BY <1>2 DEF AddRule
  <2> QED BY <1>1, <2>1
<1>3. CASE CanDelete(r) /\ DeleteRule(r) /\ ~AddRule(r)
  <2>1. firewall' = [firewall EXCEPT ![r] = IF platform = "linux" THEN firewall[r] - 1 ELSE 0]
    BY <1>3 DEF DeleteRule
  <2>2. platform = "linux" => firewall[r] > 0
    BY <1>3 DEF CanDelete
  <2> QED BY <1>1, <1>3, <2>1, <2>2
<1> QED BY <1>2, <1>3

LEMMA RunCommandStep ==
  ASSUME ControlsInv, UNCHANGED <<platform, calls>>, NEW t \in Callers, RunCommand(t)
  PROVE  ControlsInv'
<1>1. /\ ControlTypes /\ VaultInv /\ (clean => Apart /\ NetworkInv /\ HostsInv)
      /\ UNCHANGED <<isolated, blocked, panic, hostsVars, fileVars, process>>
      /\ job[t].op \in NetworkOps /\ job[t].todo # <<>> /\ answer \in [Callers -> Results]
      /\ faults \in Nat /\ clean \in BOOLEAN
  BY DEF ControlsInv, RunCommand, ControlTypes
<1>2. NetworkJob(job[t])
  BY <1>1, JobFacts DEF ControlTypes
<1>3. PICK op \in NetworkOps : op = job[t].op
  BY <1>1
<1>4. PICK k \in Kinds : k = Kind(op)
  BY KindFacts
<1>5. PICK x \in Subjects(k) : x = job[t].x
  BY <1>2, <1>3, <1>4 DEF NetworkJob
<1>6. PICK todo \in Seq(Own(k, x)) : todo = job[t].todo
  BY <1>2, <1>3, <1>4, <1>5 DEF NetworkJob, NetworkJobs
<1>7. PICK r \in Own(k, x) : r = Head(todo)
  BY <1>1, <1>6
<1>8. r \in Rules /\ Tail(todo) \in Seq(Own(k, x)) /\ Own(k, x) \subseteq Rules
  BY <1>1, <1>6, RuleFacts
<1>9. VaultInv'
  BY <1>1, VaultKeeps DEF fileVars
<1>10. \A l, y : (Tracked(l, y)' <=> Tracked(l, y)) /\ Promises(l, y)' = Promises(l, y)
  BY <1>1 DEF Tracked, Promises
<1>11. clean => \A u \in Callers : u # t /\ job[u].op \in NetworkOps => job[u].x # x
  BY <1>1, <1>5, NetworkAlone
<1> DEFINE Effect == IF op \in Removing THEN CanDelete(r) /\ DeleteRule(r) ELSE AddRule(r)
<1>12. Effect => /\ firewall' \in [Rules -> Nat]
                 /\ \A s \in Rules : s # r => firewall'[s] = firewall[s]
                 /\ op \notin Removing => firewall'[r] > 0
  BY <1>1, <1>8, RuleChanges
<1>13. op \in Kinds => op = k /\ op \notin Removing
  BY <1>4, KindFacts
<1>14. ASSUME NEW j, SomeJob(j), job' = [job EXCEPT ![t] = j],
              j = Idle \/ (j.op \in NetworkOps /\ Kind(j.op) = k /\ j.x = x),
              firewall' \in [Rules -> Nat], faults' \in Nat, clean' \in BOOLEAN,
              answer' \in [Callers -> Results], clean' => clean,
              clean' => NetworkMoves(t, j, k, x)
       PROVE  ControlsInv'
  <2>1. ControlTypes'
    BY <1>1, <1>14, JobsKeep DEF ControlTypes, hostsVars, fileVars
  <2>2. clean' => Apart'
    <3>1. job[t] # Idle
      BY <1>1 DEF Idle, NetworkOps, Removing
    <3>2. j # Idle => Resource(j.op, j.x) = Resource(job[t].op, job[t].x)
      BY <1>1, <1>5, <1>14 DEF Resource, NetworkOps, Removing, HostsOps, FileOps
    <3> QED BY <1>1, <1>14, <3>1, <3>2, GoesOnApart
  <2>3. clean' => NetworkInv'
    BY <1>1, <1>14, NetworkStep
  <2>4. clean' => HostsInv'
    <3>1. j.op \notin HostsOps
      BY <1>14 DEF Idle, NetworkOps, Removing, HostsOps
    <3> QED BY <1>1, <1>14, <3>1, HostsKeep
  <2> QED BY <1>9, <2>1, <2>2, <2>3, <2>4 DEF ControlsInv
<1>15. CASE /\ Effect /\ UNCHANGED <<answer, clean, faults>>
            /\ job' = [job EXCEPT ![t].todo = Tail(@), ![t].done = Append(@, r)]
  <2> DEFINE j == [job[t] EXCEPT !.todo = Tail(todo), !.done = Append(job[t].done, r)]
  <2>1. job[t] \in NetworkJobs(op, x) /\ t \in DOMAIN job
    BY <1>1, <1>2, <1>3, <1>5 DEF NetworkJob, ControlTypes
  <2>2. job' = [job EXCEPT ![t] = j]
    BY <1>6, <1>15, <2>1 DEF NetworkJobs
  <2>3. Append(job[t].done, r) \in Seq(Own(k, x))
    BY <1>4, <2>1 DEF NetworkJobs
  <2>4. j \in NetworkJobs(op, x) /\ j.op = op /\ j.x = x /\ j.todo = Tail(todo)
    BY <1>4, <1>8, <2>1, <2>3 DEF NetworkJobs
  <2> HIDE DEF j
  <2>5. op \in {"block", "unblock"} => Tail(todo) = <<>>
    <3>1. op \in {"block", "unblock"} => Len(todo) <= 1
      BY <1>2, <1>3, <1>6 DEF NetworkJob
    <3> QED BY <1>1, <1>6, <3>1
  <2>6. SomeJob(j)
    <3>1. j.op \in {"block", "unblock"} => Len(j.todo) <= 1
      <4>1. j.op \in {"block", "unblock"} => j.todo = <<>>
        BY <2>4, <2>5
      <4> QED BY <4>1
    <3>2. NetworkJob(j)
      BY <1>4, <2>4, <3>1 DEF NetworkJob
    <3> QED BY <3>2 DEF SomeJob
  <2>7. ASSUME clean
        PROVE  NetworkMoves(t, j, k, x)
    <3>1. NetworkInv
      BY <1>1, <2>7
    <3>2. op \in Kinds =>
            /\ ~Tracked(k, x)
            /\ \A s \in Promises(k, x) :
                 firewall[s] > 0 \/ \E n \in DOMAIN todo : todo[n] = s
      BY <1>1, <1>3, <1>5, <1>6, <1>13, <3>1, ZenonT(30) DEF NetworkInv
    <3>3. op \in Kinds => \A s \in Promises(k, x) :
            firewall'[s] > 0 \/ \E n \in DOMAIN j.todo : j.todo[n] = s
      <4> SUFFICES ASSUME op \in Kinds, NEW s \in Promises(k, x)
                   PROVE  firewall'[s] > 0 \/ \E n \in DOMAIN j.todo : j.todo[n] = s
        OBVIOUS
      <4>1. s \in Rules
        BY <1>8, RuleFacts
      <4>2. CASE s = r
        BY <4>2, <1>12, <1>13, <1>15
      <4>3. CASE s # r /\ firewall[s] > 0
        BY <4>1, <4>3, <1>12, <1>15
      <4>4. CASE s # r /\ \E n \in DOMAIN todo : todo[n] = s
        BY <4>4, <1>1, <1>6, <1>7, <2>4, TailHas
      <4> QED BY <3>2, <4>2, <4>3, <4>4
    <3>4. op = "rollback" => x \notin isolated'
      BY <1>1, <1>3, <1>5, <3>1 DEF NetworkInv
    <3>5. j # Idle
      BY <2>4 DEF Idle, NetworkOps, Removing
    <3>6. \A s \in Rules : s \notin Own(k, x) => firewall'[s] = firewall[s]
      BY <1>12, <1>15
    <3>7. \A u \in Callers : u # t /\ job[u].op \in NetworkOps => job[u].x # x
      BY <1>11, <2>7
    <3>8. j.op = "unblock" => j.todo = <<>>
      BY <2>4, <2>5
    <3>9. j.op \in Kinds => ~Tracked(k, x)'
      BY <1>10, <2>4, <3>2
    <3>10. job[t].op \in NetworkOps => Kind(job[t].op) = k /\ job[t].x = x
      BY <1>3, <1>4, <1>5
    <3>11. j.op \in NetworkOps /\ Kind(j.op) = k /\ j.x = x
      BY <1>4, <2>4
    <3> QED BY <1>10, <2>2, <2>4, <2>6, <3>3, <3>4, <3>5, <3>6, <3>7, <3>8, <3>9, <3>10, <3>11
            DEF NetworkMoves
  <2> QED BY <1>1, <1>4, <1>12, <1>14, <1>15, <2>2, <2>4, <2>6, <2>7
<1>16. CASE /\ CommandFails(t) /\ faults' \in Nat /\ firewall' = firewall /\ clean' = clean
  <2>1. PICK j : /\ SomeJob(j) /\ job' = [job EXCEPT ![t] = j]
                 /\ answer' \in [Callers -> Results]
                 /\ \/ j = Idle /\ op \in {"isolate", "block", "unblock", "panic"}
                    \/ op = "isolate" /\ j.op = "rollback" /\ j.x = x
                    \/ /\ op \in {"restore", "panic_restore", "rollback"}
                       /\ j.op = op /\ j.x = x
    BY <1>1, <1>3, <1>5, <1>16, CommandFailsJob
  <2>2. /\ j = Idle \/ (j.op \in NetworkOps /\ Kind(j.op) = k /\ j.x = x)
        /\ j.op \notin Kinds /\ j.op # "unblock"
    BY <1>4, <2>1 DEF Idle, Kind, Kinds, NetworkOps, Removing
  <2>3. firewall' \in [Rules -> Nat]
    BY <1>1, <1>16 DEF ControlTypes
  <2>4. ASSUME clean
        PROVE  NetworkMoves(t, j, k, x)
    <3>1. NetworkInv
      BY <1>1, <2>4
    <3>2. op \in Kinds => ~Tracked(k, x)
      BY <1>1, <1>3, <1>5, <1>13, <3>1 DEF NetworkInv
    <3>3. j = Idle /\ op \in Kinds => ~Tracked(k, x)'
      BY <1>10, <3>2
    <3>4. j = Idle /\ op \notin Kinds => \A s \in Promises(k, x) : firewall'[s] > 0
      <4> SUFFICES ASSUME j = Idle, op \notin Kinds
                   PROVE  \A s \in Promises(k, x) : firewall'[s] > 0
        OBVIOUS
      <4>1. op = "unblock" /\ k = "block"
        BY <1>4, <2>1 DEF Idle, Kinds, Kind
      <4>2. firewall[<<"conn", x>>] > 0
        BY <1>1, <1>3, <1>5, <4>1, <3>1 DEF NetworkInv
      <4>3. Promises(k, x) = {<<"conn", x>>}
        BY <4>1 DEF Promises
      <4> QED BY <1>16, <4>2, <4>3
    <3>5. j.op = "rollback" => x \notin isolated'
      <4>1. CASE op = "isolate" /\ j.op = "rollback"
        <5>1. Tracked(k, x) <=> x \in isolated
          BY <1>4, <4>1 DEF Kind, Tracked
        <5>2. op \in Kinds
          BY <4>1 DEF Kinds
        <5> QED BY <1>1, <3>2, <5>1, <5>2
      <4>2. CASE op = "rollback"
        BY <1>1, <1>3, <1>5, <4>2, <3>1 DEF NetworkInv
      <4> QED BY <2>1, <4>1, <4>2 DEF Idle
    <3>6. \A u \in Callers : u # t /\ job[u].op \in NetworkOps => job[u].x # x
      BY <1>11, <2>4
    <3>7. job[t].op \in NetworkOps => Kind(job[t].op) = k /\ job[t].x = x
      BY <1>3, <1>4, <1>5
    <3> QED BY <1>10, <1>16, <2>1, <2>2, <3>3, <3>4, <3>5, <3>6, <3>7 DEF NetworkMoves
  <2> QED BY <1>1, <1>14, <1>16, <2>1, <2>2, <2>3, <2>4
<1>17. CASE /\ Effect /\ CommandFails(t) /\ faults' \in Nat /\ clean' = FALSE
  <2>1. PICK j : /\ SomeJob(j) /\ job' = [job EXCEPT ![t] = j]
                 /\ answer' \in [Callers -> Results]
                 /\ \/ j = Idle
                    \/ op = "isolate" /\ j.op = "rollback" /\ j.x = x
                    \/ /\ op \in {"restore", "panic_restore", "rollback"}
                       /\ j.op = op /\ j.x = x
    BY <1>1, <1>3, <1>5, <1>17, CommandFailsJob
  <2>2. j = Idle \/ (j.op \in NetworkOps /\ Kind(j.op) = k /\ j.x = x)
    BY <1>4, <2>1 DEF Kind, NetworkOps, Removing
  <2> QED BY <1>12, <1>14, <1>17, <2>1, <2>2
<1> QED
  <2>1. faults + 1 \in Nat
    BY <1>1
  <2>2. \/ /\ Effect /\ UNCHANGED <<answer, clean, faults>>
           /\ job' = [job EXCEPT ![t].todo = Tail(@), ![t].done = Append(@, r)]
        \/ /\ IF op \in Removing /\ ~CanDelete(r) THEN UNCHANGED faults ELSE Fault
           /\ CommandFails(t) /\ UNCHANGED <<firewall, clean>>
        \/ Fault /\ Effect /\ CommandFails(t) /\ clean' = FALSE
    BY <1>3, <1>6, <1>7 DEF RunCommand
  <2> HIDE DEF Effect
  <2> QED BY <1>1, <1>15, <1>16, <1>17, <2>1, <2>2 DEF Fault

\* What memory says follows the last command.
LEMMA FinishStep ==
  ASSUME ControlsInv, UNCHANGED <<platform, calls>>, NEW t \in Callers,
         FinishIsolation(t) \/ FinishBlocking(t) \/ FinishPanic(t)
  PROVE  ControlsInv'
<1>1. /\ ControlTypes /\ VaultInv /\ (clean => Apart /\ NetworkInv /\ HostsInv)
      /\ UNCHANGED <<firewall, hostsVars, fileVars, process, clean, faults>>
      /\ job[t].op \in NetworkOps /\ job[t].todo = <<>>
  BY DEF ControlsInv, FinishIsolation, FinishBlocking, FinishPanic, Finishes, NetworkOps, Removing
<1>2. NetworkJob(job[t])
  BY <1>1, JobFacts DEF ControlTypes
<1>3. PICK op \in NetworkOps : op = job[t].op
  BY <1>1
<1>4. PICK k \in Kinds : k = Kind(op)
  BY KindFacts
<1>5. PICK x \in Subjects(k) : x = job[t].x
  BY <1>2, <1>3, <1>4 DEF NetworkJob
<1>6. VaultInv'
  BY <1>1, VaultKeeps DEF fileVars
<1>7. clean => \A u \in Callers : u # t /\ job[u].op \in NetworkOps => job[u].x # x
  BY <1>1, <1>5, NetworkAlone
<1>8. op \in Kinds => op = k
  BY <1>4, KindFacts
<1>9. \E r \in Results : Answers(t, r)
  <2>1. Outcome(t) \in Results /\ "failed" \in Results /\ "success" \in Results
    BY DEF Outcome, Results
  <2> QED BY <2>1 DEF FinishIsolation, FinishBlocking, FinishPanic
<1>10. job' = [job EXCEPT ![t] = Idle] /\ answer' \in [Callers -> Results]
  BY <1>1, <1>9, AnswersKeep DEF Answers
<1>11. SomeJob(Idle) /\ Idle.op \notin NetworkOps /\ Idle.op \notin HostsOps
  BY DEF SomeJob, Idle, NetworkOps, Removing, HostsOps
<1>12. /\ isolated' \subseteq Pids /\ blocked' \subseteq Addresses /\ panic' \in BOOLEAN
       /\ \A l \in Kinds : \A y \in Subjects(l) :
            l # k \/ y # x => (Tracked(l, y)' <=> Tracked(l, y))
       /\ Tracked(k, x)' => op \in Kinds \/ (op = "rollback" /\ x \in isolated)
  <2> USE DEF Kinds
  <2>1. isolated \subseteq Pids /\ blocked \subseteq Addresses /\ panic \in BOOLEAN
    BY <1>1 DEF ControlTypes
  <2>2. CASE FinishIsolation(t)
    <3>1. /\ op \in {"isolate", "restore", "rollback"} /\ UNCHANGED <<blocked, panic>>
          /\ isolated' = CASE op = "isolate" -> isolated \union {x}
                           [] op = "restore" -> isolated \ {x}
                           [] OTHER -> isolated
      BY <2>2, <1>3, <1>5 DEF FinishIsolation, Finishes
    <3>2. k = "isolate" /\ x \in Pids
      BY <3>1, <1>4 DEF Kind, Subjects
    <3>3. isolated' \subseteq Pids
      BY <3>1, <3>2, <2>1
    <3>4. \A y \in Pids : y # x => (Tracked("isolate", y)' <=> Tracked("isolate", y))
      BY <3>1 DEF Tracked
    <3>5. \A y : /\ Tracked("block", y)' <=> Tracked("block", y)
                 /\ Tracked("panic", y)' <=> Tracked("panic", y)
      BY <3>1 DEF Tracked
    <3>6. Tracked(k, x)' => op \in Kinds \/ (op = "rollback" /\ x \in isolated)
      <4>1. Tracked(k, x)' <=> x \in isolated'
        BY <3>2 DEF Tracked
      <4> QED BY <3>1, <4>1
    <3>7. \A y \in Subjects("isolate") : y \in Pids
      BY DEF Subjects
    <3> QED BY <2>1, <3>1, <3>2, <3>3, <3>4, <3>5, <3>6, <3>7
  <2>3. CASE FinishBlocking(t)
    <3>1. /\ op \in {"block", "unblock"} /\ UNCHANGED <<isolated, panic>>
          /\ blocked' = IF op = "block" THEN blocked \union {x} ELSE blocked \ {x}
      BY <2>3, <1>3, <1>5 DEF FinishBlocking, Finishes
    <3>2. k = "block" /\ x \in Addresses
      BY <3>1, <1>4 DEF Kind, Subjects
    <3>3. blocked' \subseteq Addresses
      BY <3>1, <3>2, <2>1
    <3>4. \A y : y # x => (Tracked("block", y)' <=> Tracked("block", y))
      BY <3>1 DEF Tracked
    <3>5. \A y : /\ Tracked("isolate", y)' <=> Tracked("isolate", y)
                 /\ Tracked("panic", y)' <=> Tracked("panic", y)
      BY <3>1 DEF Tracked
    <3>6. Tracked(k, x)' => op \in Kinds
      <4>1. Tracked(k, x)' <=> x \in blocked'
        BY <3>2 DEF Tracked
      <4> QED BY <3>1, <4>1
    <3> QED BY <2>1, <3>1, <3>2, <3>3, <3>4, <3>5, <3>6
  <2>4. CASE FinishPanic(t)
    <3>1. /\ op \in {"panic", "panic_restore"} /\ UNCHANGED <<isolated, blocked>>
          /\ panic' = (op = "panic")
      BY <2>4, <1>3 DEF FinishPanic, Finishes
    <3>2. k = "panic" /\ \A y \in Subjects("panic") : y = x
      BY <3>1, <1>4 DEF Kind, Subjects
    <3>3. panic' \in BOOLEAN
      BY <3>1
    <3>4. \A y : /\ Tracked("isolate", y)' <=> Tracked("isolate", y)
                 /\ Tracked("block", y)' <=> Tracked("block", y)
      BY <3>1 DEF Tracked
    <3>5. Tracked(k, x)' => op \in Kinds
      <4>1. Tracked(k, x)' <=> panic'
        BY <3>2 DEF Tracked
      <4> QED BY <3>1, <4>1
    <3> QED BY <2>1, <3>1, <3>2, <3>3, <3>4, <3>5
  <2> QED BY <2>2, <2>3, <2>4
<1>13. ControlTypes'
  BY <1>1, <1>10, <1>11, <1>12, JobsKeep DEF ControlTypes, hostsVars, fileVars
<1>14. ASSUME clean
       PROVE  NetworkMoves(t, Idle, k, x)
  <2>1. NetworkInv
    BY <1>1, <1>14
  <2>2. op \in Kinds => \A r \in Promises(k, x) : firewall'[r] > 0
    <3> SUFFICES ASSUME op \in Kinds, NEW r \in Promises(k, x)
                 PROVE  firewall'[r] > 0
      OBVIOUS
    <3>1. firewall[r] > 0 \/ \E n \in DOMAIN job[t].todo : job[t].todo[n] = r
      BY <2>1, <1>1, <1>3, <1>5, <1>8 DEF NetworkInv
    <3>2. DOMAIN job[t].todo = {}
      BY <1>1
    <3> QED BY <3>1, <3>2, <1>1
  <2>3. op = "rollback" => x \notin isolated
    BY <2>1, <1>1, <1>3, <1>5 DEF NetworkInv
  <2>4. Tracked(k, x)' => \A r \in Promises(k, x) : firewall'[r] > 0
    BY <1>12, <2>2, <2>3
  <2>5. \A u \in Callers : u # t /\ job[u].op \in NetworkOps => job[u].x # x
    BY <1>7, <1>14
  <2>6. job[t].op \in NetworkOps => Kind(job[t].op) = k /\ job[t].x = x
    BY <1>3, <1>4, <1>5
  <2>7. Idle.op \notin Kinds /\ Idle.op # "rollback" /\ Idle.op # "unblock"
    BY DEF Idle, Kinds
  <2> QED BY <1>1, <1>10, <1>11, <1>12, <2>4, <2>5, <2>6, <2>7 DEF NetworkMoves
<1>15. clean' => NetworkInv'
  BY <1>1, <1>11, <1>14, NetworkStep
<1>16. clean' => Apart' /\ HostsInv'
  BY <1>1, <1>10, <1>11, GoesOnApart, HostsKeep
<1> QED BY <1>6, <1>13, <1>15, <1>16 DEF ControlsInv

-----------------------------------------------------------------------------
(* The hosts file and the quarantine. *)

\* A call answered from memory, by any of the classes.
LEMMA DeclineStep ==
  ASSUME ControlsInv, UNCHANGED <<platform, calls, firewallVars, hostsVars, home, vault, now>>,
         NEW t \in Callers, job[t] = Idle, NEW r \in Results, Declines(t, r),
         \/ UNCHANGED records
         \/ \E f \in Files : records' = [records EXCEPT ![f] = None],
         faults' \in Nat
  PROVE  ControlsInv'
<1>1. /\ ControlTypes /\ VaultInv /\ (clean => Apart /\ NetworkInv /\ HostsInv)
      /\ job' = [job EXCEPT ![t] = Idle] /\ answer' = [answer EXCEPT ![t] = r] /\ clean' = clean
  BY DEF ControlsInv, Declines, Answers
<1>2. SomeJob(Idle) /\ Idle.op \notin NetworkOps /\ Idle.op \notin HostsOps
  BY DEF SomeJob, Idle, NetworkOps, Removing, HostsOps
<1>3. /\ DOMAIN records' = Files /\ records' = [f \in Files |-> records'[f]]
      /\ \A f \in Files : records'[f] # None => records'[f] \in PathsOf(f)
  <2>1. /\ DOMAIN records = Files /\ records = [f \in Files |-> records[f]]
        /\ \A f \in Files : records[f] # None => records[f] \in PathsOf(f)
    BY <1>1 DEF ControlTypes
  <2> QED BY <2>1
<1>4. ControlTypes'
  BY <1>1, <1>2, <1>3, JobsKeep, AnswersKeep DEF ControlTypes, firewallVars, hostsVars
<1>5. clean' => Apart' /\ NetworkInv' /\ HostsInv'
  BY <1>1, <1>2, GoesOnApart, NetworkKeeps, HostsKeep
<1>6. VaultInv'
  BY <1>1, VaultKeeps
<1> QED BY <1>4, <1>5, <1>6 DEF ControlsInv

LEMMA SinkholeCallStep ==
  ASSUME ControlsInv, UNCHANGED <<platform, calls>>, NEW t \in Callers, NEW op, NEW x,
         <<op, x>> \in Callable, job[t] = Idle, SinkholeCall(t, op, x)
  PROVE  ControlsInv'
<1>1. /\ ControlTypes /\ VaultInv /\ (clean => Apart /\ NetworkInv /\ HostsInv)
      /\ UNCHANGED <<firewallVars, hostsVars, fileVars, process, faults>>
      /\ op \in HostsOps
  BY DEF ControlsInv, SinkholeCall
<1>2. \/ op \in {"sinkhole", "unsinkhole"} /\ x \in Domains
      \/ op = "restore_all" /\ x = None
  BY <1>1 DEF Callable, HostsOps
<1>3. hosts \in [Domains -> Nat] /\ faults' \in Nat
  BY <1>1 DEF ControlTypes
<1>4. CASE Declines(t, "already_sinkholed") \/ Declines(t, "not_sinkholed")
  <2>1. "already_sinkholed" \in Results /\ "not_sinkholed" \in Results
    BY DEF Results
  <2> QED BY <1>1, <1>3, <1>4, <2>1, DeclineStep DEF fileVars
<1>5. CASE Starts(t, [op |-> op, x |-> x, copy |-> hosts])
  <2> DEFINE j == [op |-> op, x |-> x, copy |-> hosts]
  <2>1. j.op = op /\ j.x = x /\ j.copy = hosts /\ Starts(t, j)
    BY <1>5
  <2>2. SomeJob(j)
    BY <1>1, <1>2, <1>3 DEF SomeJob, HostsJob
  <2> HIDE DEF j
  <2>3. /\ job' = [job EXCEPT ![t] = j] /\ answer' = [answer EXCEPT ![t] = None]
        /\ clean' \in BOOLEAN
    BY <2>1 DEF Starts
  <2>4. None \in Results
    BY DEF Results
  <2>5. ControlTypes'
    BY <1>1, <2>2, <2>3, <2>4, JobsKeep, AnswersKeep
       DEF ControlTypes, firewallVars, hostsVars, fileVars
  <2>6. clean' => clean /\ Apart'
    BY <1>1, <2>1, <2>2, BeginsApart
  <2>7. j.op \notin NetworkOps /\ job[t].op \notin NetworkOps
    BY <1>1, <2>1 DEF NetworkOps, Removing, HostsOps, Idle
  <2>8. clean' => NetworkInv'
    BY <1>1, <2>2, <2>3, <2>6, <2>7, NetworkKeeps
  <2>9. ASSUME clean'
        PROVE  HostsInv'
    <3>1. \A u \in Callers : job'[u] = IF u = t THEN j ELSE job[u]
      BY <1>1, <2>2, <2>3, JobsKeep
    <3>2. HostsInv
      BY <1>1, <2>6, <2>9
    <3> QED BY <1>1, <2>1, <3>1, <3>2 DEF HostsInv, hostsVars
  <2>10. VaultInv'
    BY <1>1, VaultKeeps DEF fileVars
  <2> QED BY <2>5, <2>6, <2>8, <2>9, <2>10 DEF ControlsInv
<1> QED BY <1>4, <1>5 DEF SinkholeCall

LEMMA WriteHostsStep ==
  ASSUME ControlsInv, UNCHANGED <<platform, calls>>, NEW t \in Callers, WriteHosts(t)
  PROVE  ControlsInv'
<1>1. /\ ControlTypes /\ VaultInv /\ (clean => Apart /\ NetworkInv /\ HostsInv)
      /\ UNCHANGED <<firewallVars, fileVars, process, clean>>
      /\ job[t].op \in HostsOps
  BY DEF ControlsInv, WriteHosts
<1>2. HostsJob(job[t])
  BY <1>1, JobFacts DEF ControlTypes
<1> DEFINE op == job[t].op
           d == job[t].x
           copy == job[t].copy
<1>3. /\ op \in {"sinkhole", "unsinkhole", "restore_all"} /\ copy \in [Domains -> Nat]
      /\ op # "restore_all" => d \in Domains
      /\ hosts \in [Domains -> Nat] /\ faults \in Nat
  BY <1>1, <1>2 DEF HostsJob, HostsOps, ControlTypes
<1>4. job' = [job EXCEPT ![t] = Idle] /\ answer' \in [Callers -> Results]
  <2>1. Answers(t, "success") \/ Answers(t, "failed")
    BY DEF WriteHosts
  <2>2. "success" \in Results /\ "failed" \in Results
    BY DEF Results
  <2> QED BY <1>1, <2>1, <2>2, AnswersKeep DEF Answers
<1>5. SomeJob(Idle) /\ Idle.op \notin NetworkOps /\ Idle.op \notin HostsOps
  BY DEF SomeJob, Idle, NetworkOps, Removing, HostsOps
<1>6. job[t].op \notin NetworkOps
  BY <1>3 DEF NetworkOps, Removing
<1>7. clean' => Apart' /\ NetworkInv'
  BY <1>1, <1>4, <1>5, <1>6, GoesOnApart, NetworkKeeps
<1>8. VaultInv'
  BY <1>1, VaultKeeps DEF fileVars
<1>9. \A u \in Callers : job'[u].op \in HostsOps =>
        u # t /\ job'[u] = job[u] /\ ~clean
  <2> SUFFICES ASSUME NEW u \in Callers, job'[u].op \in HostsOps
               PROVE  u # t /\ job'[u] = job[u] /\ ~clean
    OBVIOUS
  <2>1. u # t /\ job'[u] = job[u]
    BY <1>1, <1>4, <1>5, JobsKeep
  <2>2. job[u] # Idle /\ job[t] # Idle
    BY <1>1, <2>1 DEF Idle, HostsOps
  <2>3. Resource(job[u].op, job[u].x) = "hosts" /\ Resource(job[t].op, job[t].x) = "hosts"
    <3>1. \A o, y : o \in HostsOps => Resource(o, y) = "hosts"
      BY DEF Resource, HostsOps, FileOps
    <3>2. job[u].op \in HostsOps /\ job[t].op \in HostsOps
      BY <1>1, <2>1
    <3> QED BY <3>1, <3>2
  <2>4. clean => Resource(job[u].op, job[u].x) # Resource(job[t].op, job[t].x)
    <3>1. Apart => Resource(job[u].op, job[u].x) # Resource(job[t].op, job[t].x)
      BY <2>1, <2>2 DEF Apart
    <3> QED BY <1>1, <3>1
  <2> QED BY <2>1, <2>3, <2>4
<1>10. /\ hosts' \in [Domains -> Nat] /\ faults' \in Nat
       /\ clean => \A e \in Domains : hosts'[e] > 0 => e \in sinkholed'
  <2>1. clean => copy = hosts /\ \A e \in Domains : hosts[e] > 0 => e \in sinkholed
    BY <1>1 DEF HostsInv
  <2>2. CASE /\ Fault /\ UNCHANGED sinkholed
             /\ hosts' = hosts \/ hosts' = [e \in Domains |-> 0]
    BY <1>3, <2>1, <2>2 DEF Fault
  <2>3. CASE /\ UNCHANGED faults
             /\ hosts' =
                  CASE op = "sinkhole" -> [hosts EXCEPT ![d] = hosts[d] + 1]
                    [] op = "unsinkhole" ->
                         [e \in Domains |-> IF <<d, e>> \in Occurs THEN 0 ELSE copy[e]]
                    [] OTHER -> IF \E e \in Domains : copy[e] > 0
                                THEN [e \in Domains |-> 0] ELSE hosts
             /\ sinkholed' = CASE op = "sinkhole" -> sinkholed \union {d}
                               [] op = "unsinkhole" -> sinkholed \ {d}
                               [] OTHER -> {}
    <3> HIDE DEF op, d, copy
    <3>1. CASE op = "sinkhole"
      BY <1>3, <2>1, <2>3, <3>1
    <3>2. CASE op = "unsinkhole"
      <4>1. d \in Domains /\ <<d, d>> \in Occurs
        BY <1>3, <3>2, ControlsAssumption
      <4> QED BY <1>3, <2>1, <2>3, <3>2, <4>1
    <3>3. CASE op = "restore_all"
      BY <1>3, <2>1, <2>3, <3>3
    <3> QED BY <1>3, <3>1, <3>2, <3>3
  <2> QED BY <2>2, <2>3 DEF WriteHosts
<1>11. ControlTypes'
  BY <1>1, <1>4, <1>5, <1>10, JobsKeep DEF ControlTypes, firewallVars, fileVars
<1>12. clean' => HostsInv'
  BY <1>1, <1>9, <1>10 DEF HostsInv
<1> QED BY <1>7, <1>8, <1>11, <1>12 DEF ControlsInv

LEMMA QuarantineCallStep ==
  ASSUME ControlsInv, UNCHANGED <<platform, calls>>, NEW t \in Callers, NEW op, NEW f,
         <<op, f>> \in Callable, job[t] = Idle, QuarantineCall(t, op, f)
  PROVE  ControlsInv'
<1>1. /\ ControlTypes /\ VaultInv /\ (clean => Apart /\ NetworkInv /\ HostsInv)
      /\ UNCHANGED <<firewallVars, hostsVars, home, vault, now, process, faults>>
      /\ op \in FileOps
  BY DEF ControlsInv, QuarantineCall, FileOps
<1>2. f \in Files
  BY <1>1 DEF Callable, FileOps
<1>3. faults' \in Nat /\ now \in Nat
  BY <1>1 DEF ControlTypes
<1>4. CASE /\ UNCHANGED records \/ records' = [records EXCEPT ![f] = None]
           /\ \E r \in Results : Declines(t, r)
  BY <1>1, <1>2, <1>3, <1>4, DeclineStep
<1>5. ASSUME NEW path \in PathsOf(f), UNCHANGED records,
             Starts(t, [op |-> op, x |-> f, path |-> path, at |-> "move"])
      PROVE  ControlsInv'
  <2> DEFINE j == [op |-> op, x |-> f, path |-> path, at |-> "move"]
  <2>1. j.op = op /\ j.x = f /\ Starts(t, j)
    BY <1>5
  <2>2. SomeJob(j)
    BY <1>1, <1>2 DEF SomeJob, FileJob
  <2> HIDE DEF j
  <2>3. /\ job' = [job EXCEPT ![t] = j] /\ answer' = [answer EXCEPT ![t] = None]
        /\ clean' \in BOOLEAN
    BY <2>1 DEF Starts
  <2>4. None \in Results
    BY DEF Results
  <2>5. ControlTypes'
    BY <1>1, <1>5, <2>2, <2>3, <2>4, JobsKeep, AnswersKeep
       DEF ControlTypes, firewallVars, hostsVars
  <2>6. clean' => clean /\ Apart'
    BY <1>1, <2>1, <2>2, BeginsApart
  <2>7. j.op \notin NetworkOps /\ j.op \notin HostsOps /\ job[t].op \notin NetworkOps
    BY <1>1, <2>1 DEF NetworkOps, Removing, HostsOps, FileOps, Idle
  <2>8. clean' => NetworkInv' /\ HostsInv'
    BY <1>1, <2>2, <2>3, <2>6, <2>7, NetworkKeeps, HostsKeep
  <2>9. VaultInv'
    BY <1>1, VaultKeeps
  <2> QED BY <2>5, <2>6, <2>8, <2>9 DEF ControlsInv
<1>6. CASE Starts(t, [op |-> op, x |-> f, path |-> <<now, Basename[f]>>, at |-> "move"])
           /\ UNCHANGED records
  <2>1. <<now, Basename[f]>> \in PathsOf(f)
    BY <1>3 DEF PathsOf
  <2> QED BY <1>5, <1>6, <2>1
<1>7. CASE /\ Starts(t, [op |-> op, x |-> f, path |-> records[f], at |-> "move"])
           /\ records[f] # None /\ UNCHANGED records
  <2>1. records[f] \in PathsOf(f)
    BY <1>1, <1>2, <1>7 DEF ControlTypes
  <2> QED BY <1>5, <1>7, <2>1
<1> QED
  <2>1. /\ "already_quarantined" \in Results /\ "not_found" \in Results
        /\ "not_quarantined" \in Results
    BY DEF Results
  <2>2. CASE op = "quarantine"
    <3>1. UNCHANGED records
      BY <2>2 DEF QuarantineCall
    <3>2. \/ Declines(t, "already_quarantined") \/ Declines(t, "not_found")
          \/ Starts(t, [op |-> op, x |-> f, path |-> <<now, Basename[f]>>, at |-> "move"])
      BY <2>2 DEF QuarantineCall
    <3> QED BY <1>4, <1>6, <2>1, <3>1, <3>2
  <2>3. CASE op = "unquarantine"
    <3>1. \/ Declines(t, "not_quarantined") /\ UNCHANGED records
          \/ records' = [records EXCEPT ![f] = None] /\ Declines(t, "not_found")
          \/ /\ Starts(t, [op |-> op, x |-> f, path |-> records[f], at |-> "move"])
             /\ records[f] # None /\ UNCHANGED records
      BY <2>3 DEF QuarantineCall
    <3> QED BY <1>4, <1>7, <2>1, <3>1
  <2> QED BY <1>1, <2>2, <2>3 DEF FileOps

\* A file that no other has the name of is not lost when one is moved over another.
LEMMA MoveKeepsVault ==
  ASSUME ControlTypes, VaultInv, NEW f \in Files, NEW q \in PathsOf(f),
         \/ /\ home[f] # None /\ PutIn(q, home[f]) /\ home' = [home EXCEPT ![f] = None]
         \/ /\ InVault(q) /\ PutIn(q, None) /\ home' = [home EXCEPT ![f] = vault[q]]
  PROVE  VaultInv' /\ home' \in [Files -> Files \union {None}]
<1>1. /\ home \in [Files -> Files \union {None}] /\ q[2] = Basename[f]
      /\ \A g \in Files : home[g] # None => Basename[home[g]] = Basename[g]
      /\ \A p \in DOMAIN vault : vault[p] # None => vault[p] \in Files /\ p[2] = Basename[vault[p]]
      /\ EvidenceIsKept /\ None \notin Files
  BY ControlsAssumption DEF ControlTypes, VaultInv, PathsOf
<1>2. PICK c : /\ vault' = [p \in DOMAIN vault \union {q} |-> IF p = q THEN c ELSE vault[p]]
               /\ \/ home[f] # None /\ c = home[f] /\ home' = [home EXCEPT ![f] = None]
                  \/ /\ q \in DOMAIN vault /\ vault[q] # None /\ c = None
                     /\ home' = [home EXCEPT ![f] = vault[q]]
  BY DEF PutIn, InVault
<1>3. home' \in [Files -> Files \union {None}]
  BY <1>1, <1>2
<1>4. \A g \in Files : home'[g] # None => Basename[home'[g]] = Basename[g]
  BY <1>1, <1>2
<1>5. \A p \in DOMAIN vault' : vault'[p] # None => vault'[p] \in Files /\ p[2] = Basename[vault'[p]]
  <2> SUFFICES ASSUME NEW p \in DOMAIN vault', vault'[p] # None
               PROVE  vault'[p] \in Files /\ p[2] = Basename[vault'[p]]
    OBVIOUS
  <2>1. CASE p = q
    <3>1. vault'[p] = c /\ c # None
      BY <1>2, <2>1
    <3>2. c = home[f] /\ home[f] # None
      BY <1>2, <3>1
    <3> QED BY <1>1, <2>1, <3>1, <3>2
  <2>2. CASE p # q
    <3>1. p \in DOMAIN vault /\ vault'[p] = vault[p]
      BY <1>2, <2>2
    <3> QED BY <1>1, <3>1
  <2> QED BY <2>1, <2>2
<1>6. ASSUME NEW g \in Files, \A h \in Files \ {g} : Basename[h] # Basename[g]
      PROVE  (\E h \in Files : home'[h] = g) \/ (\E p \in DOMAIN vault' : vault'[p] = g)
  <2>1. g # None
    BY <1>1
  <2>2. (\E h \in Files : home[h] = g) \/ (\E p \in DOMAIN vault : vault[p] = g)
    BY <1>1, <1>6 DEF EvidenceIsKept
  <2>3. q \in DOMAIN vault' /\ vault'[q] = c
    BY <1>2
  <2>4. CASE \E h \in Files : home[h] = g
    <3>1. PICK h \in Files : home[h] = g
      BY <2>4
    <3>2. CASE h # f
      BY <1>1, <1>2, <3>1, <3>2
    <3>3. CASE h = f /\ c # None
      BY <1>2, <2>3, <3>1, <3>3
    <3>4. CASE h = f /\ c = None
      <4>1. Basename[g] = Basename[f] /\ g = f
        BY <1>1, <1>6, <2>1, <3>1, <3>4
      <4>2. q \in DOMAIN vault /\ vault[q] # None /\ home' = [home EXCEPT ![f] = vault[q]]
        BY <1>2, <3>4
      <4>3. vault[q] \in Files /\ Basename[vault[q]] = Basename[g]
        BY <1>1, <4>1, <4>2
      <4>4. vault[q] = g
        BY <1>6, <4>3
      <4> QED BY <1>1, <4>2, <4>4
    <3> QED BY <3>2, <3>3, <3>4
  <2>5. CASE \E p \in DOMAIN vault : vault[p] = g
    <3>1. PICK p \in DOMAIN vault : vault[p] = g
      BY <2>5
    <3>2. CASE p # q
      BY <1>2, <3>1, <3>2
    <3>3. CASE p = q
      <4>1. Basename[g] = Basename[f] /\ g = f
        BY <1>1, <1>6, <2>1, <3>1, <3>3
      <4>2. CASE c = home[f] /\ home[f] # None
        <5>1. home[f] \in Files /\ Basename[home[f]] = Basename[g]
          BY <1>1, <4>1, <4>2
        <5>2. home[f] = g
          BY <1>6, <5>1
        <5> QED BY <2>3, <4>2, <5>2
      <4>3. CASE home' = [home EXCEPT ![f] = vault[q]]
        BY <1>1, <3>1, <3>3, <4>3
      <4> QED BY <1>2, <4>2, <4>3
    <3> QED BY <3>2, <3>3
  <2> QED BY <2>2, <2>4, <2>5
<1>7. EvidenceIsKept'
  BY <1>6 DEF EvidenceIsKept
<1> QED BY <1>3, <1>4, <1>5, <1>7 DEF VaultInv

LEMMA FileStep ==
  ASSUME ControlsInv, UNCHANGED <<platform, calls>>, NEW t \in Callers,
         MoveFile(t) \/ RecordFile(t)
  PROVE  ControlsInv'
<1>1. /\ ControlTypes /\ VaultInv /\ (clean => Apart /\ NetworkInv /\ HostsInv)
      /\ UNCHANGED <<firewallVars, hostsVars, now, process, clean>>
      /\ job[t].op \in FileOps /\ faults \in Nat
      /\ home \in [Files -> Files \union {None}]
  BY DEF ControlsInv, MoveFile, RecordFile, ControlTypes
<1>2. FileJob(job[t])
  BY <1>1, JobFacts DEF ControlTypes
<1>3. PICK f \in Files : f = job[t].x
  BY <1>2 DEF FileJob
<1>4. PICK q \in PathsOf(f) : q = job[t].path
  BY <1>2, <1>3 DEF FileJob
<1>5. /\ job[t].op \notin NetworkOps /\ job[t].op \notin HostsOps /\ job[t] # Idle
      /\ "success" \in Results /\ "failed" \in Results
  BY <1>1 DEF NetworkOps, Removing, HostsOps, FileOps, Idle, Results
<1>6. ASSUME NEW j, SomeJob(j), job' = [job EXCEPT ![t] = j],
             j = Idle \/ (j.op = job[t].op /\ j.x = f),
             answer' \in [Callers -> Results], faults' \in Nat,
             VaultInv', home' \in [Files -> Files \union {None}],
             \/ UNCHANGED records
             \/ \E p \in PathsOf(f) \union {None} : records' = [records EXCEPT ![f] = p]
      PROVE  ControlsInv'
  <2>1. /\ DOMAIN records' = Files /\ records' = [g \in Files |-> records'[g]]
        /\ \A g \in Files : records'[g] # None => records'[g] \in PathsOf(g)
    <3>1. /\ DOMAIN records = Files /\ records = [g \in Files |-> records[g]]
          /\ \A g \in Files : records[g] # None => records[g] \in PathsOf(g)
      BY <1>1 DEF ControlTypes
    <3> QED BY <1>6, <3>1
  <2>2. ControlTypes'
    BY <1>1, <1>6, <2>1, JobsKeep DEF ControlTypes, firewallVars, hostsVars
  <2>3. j # Idle => Resource(j.op, j.x) = Resource(job[t].op, job[t].x)
    BY <1>3, <1>6
  <2>4. j.op \notin NetworkOps /\ j.op \notin HostsOps
    BY <1>5, <1>6 DEF Idle, NetworkOps, Removing, HostsOps
  <2>5. clean' => Apart' /\ NetworkInv' /\ HostsInv'
    BY <1>1, <1>5, <1>6, <2>3, <2>4, GoesOnApart, NetworkKeeps, HostsKeep
  <2> QED BY <1>6, <2>2, <2>5 DEF ControlsInv
<1>7. ASSUME NEW r \in Results, Answers(t, r)
      PROVE  job' = [job EXCEPT ![t] = Idle] /\ SomeJob(Idle) /\ answer' \in [Callers -> Results]
  BY <1>1, <1>7, AnswersKeep DEF Answers, SomeJob
<1>8. CASE MoveFile(t)
  <2>1. UNCHANGED records
    BY <1>8 DEF MoveFile
  <2>2. CASE UNCHANGED <<home, vault>>
    <3>1. Answers(t, "failed") /\ faults' \in Nat
      <4>1. faults' = faults \/ faults' = faults + 1
        BY <1>8 DEF MoveFile, Fault
      <4>2. Answers(t, "failed")
        <5>1. home' = home /\ home[f] # None => home' # [home EXCEPT ![f] = None]
          BY <1>1
        <5>2. PutIn(q, None) /\ InVault(q) => vault' # vault
          BY DEF PutIn, InVault
        <5> QED BY <1>3, <1>4, <1>8, <2>2, <5>1, <5>2 DEF MoveFile
      <4> QED BY <1>1, <4>1, <4>2
    <3>2. VaultInv'
      BY <1>1, <2>2, VaultKeeps
    <3> QED BY <1>1, <1>5, <1>6, <1>7, <2>1, <2>2, <3>1, <3>2
  <2>3. CASE ~UNCHANGED <<home, vault>>
    <3>1. /\ \/ /\ home[f] # None /\ PutIn(q, home[f]) /\ home' = [home EXCEPT ![f] = None]
             \/ /\ InVault(q) /\ PutIn(q, None) /\ home' = [home EXCEPT ![f] = vault[q]]
          /\ job' = [job EXCEPT ![t].at = "record"] /\ UNCHANGED <<answer, faults>>
      BY <1>3, <1>4, <1>8, <2>3 DEF MoveFile
    <3>2. VaultInv' /\ home' \in [Files -> Files \union {None}]
      BY <1>1, <3>1, MoveKeepsVault
    <3> DEFINE j == [job[t] EXCEPT !.at = "record"]
    <3>3. job' = [job EXCEPT ![t] = j]
      BY <3>1
    <3>4. j.op = job[t].op /\ j.x = f /\ FileJob(j)
      BY <1>2, <1>3 DEF FileJob
    <3> HIDE DEF j
    <3>5. SomeJob(j) /\ answer' \in [Callers -> Results] /\ faults' \in Nat
      BY <1>1, <3>1, <3>4 DEF SomeJob, ControlTypes
    <3> QED BY <1>6, <2>1, <3>2, <3>3, <3>4, <3>5
  <2> QED BY <2>2, <2>3
<1>9. CASE RecordFile(t)
  <2>1. UNCHANGED <<home, vault>> /\ VaultInv'
    BY <1>1, <1>9, VaultKeeps DEF RecordFile
  <2>2. Answers(t, "success") \/ Answers(t, "failed")
    BY <1>9 DEF RecordFile
  <2>3. faults' \in Nat
    BY <1>1, <1>9 DEF RecordFile, Fault
  <2>4. \/ UNCHANGED records
        \/ \E p \in PathsOf(f) \union {None} : records' = [records EXCEPT ![f] = p]
    BY <1>3, <1>4, <1>9 DEF RecordFile
  <2> QED BY <1>1, <1>5, <1>6, <1>7, <2>1, <2>2, <2>3, <2>4
<1> QED BY <1>8, <1>9

-----------------------------------------------------------------------------
(* All steps. *)

LEMMA ProcessCallStep ==
  ASSUME ControlsInv, UNCHANGED <<platform, calls>>, NEW t \in Callers, NEW op, NEW p,
         job[t] = Idle, ProcessCall(t, op, p)
  PROVE  ControlsInv'
<1>1. UNCHANGED <<firewallVars, hostsVars, fileVars>> /\ faults \in Nat
  BY DEF ProcessCall, ControlsInv, ControlTypes
<1>2. PICK r \in Results : Declines(t, r)
  <2>1. "not_found" \in Results /\ "success" \in Results /\ "permission_denied" \in Results
    BY DEF Results
  <2> QED BY <2>1 DEF ProcessCall
<1>3. faults' \in Nat
  BY <1>1 DEF ProcessCall, Fault
<1> QED BY <1>1, <1>2, <1>3, DeclineStep DEF fileVars

\* Whoever calls, with what there is to be called with.
LEMMA OperationStep ==
  ASSUME ControlsInv, UNCHANGED <<platform, calls>>, NEW t \in Callers, NEW op, NEW x,
         <<op, x>> \in Callable, Operation(t, op, x)
  PROVE  ControlsInv'
BY NetworkCallStep, SinkholeCallStep, QuarantineCallStep, ProcessCallStep DEF Operation

LEMMA ControlStepStep ==
  ASSUME ControlsInv, UNCHANGED <<platform, calls>>, NEW t \in Callers, ControlStep(t)
  PROVE  ControlsInv'
BY RunCommandStep, FinishStep, WriteHostsStep, FileStep DEF ControlStep

LEMMA ControlsStandStill ==
  ASSUME ControlsInv, UNCHANGED <<platform, calls, firewallVars, hostsVars, home, vault, records,
                                  job, answer, clean>>,
         faults' \in Nat, now' \in Nat
  PROVE  ControlsInv'
<1>1. ControlTypes /\ VaultInv /\ (clean => Apart /\ NetworkInv /\ HostsInv)
  BY DEF ControlsInv
<1>2. ControlTypes'
  BY <1>1 DEF ControlTypes, firewallVars, hostsVars
<1>3. VaultInv'
  BY <1>1, VaultKeeps
<1>4. \A k, x : /\ Tracked(k, x)' <=> Tracked(k, x)
               /\ Promises(k, x)' = Promises(k, x)
  BY DEF Tracked, Promises, firewallVars
<1>5. clean' => NetworkInv'
  <2> SUFFICES ASSUME clean
               PROVE  NetworkInv'
    OBVIOUS
  <2>1. NetworkInv /\ job' = job /\ UNCHANGED firewallVars
    BY <1>1
  <2>2. ASSUME NEW k \in Kinds, NEW x \in Subjects(k), Tracked(k, x)'
        PROVE  \/ \A r \in Promises(k, x)' : firewall'[r] > 0
               \/ \E u \in Callers : /\ job'[u].op \in NetworkOps /\ Kind(job'[u].op) = k
                                     /\ job'[u].x = x
    BY <1>4, <2>1, <2>2 DEF NetworkInv, firewallVars
  <2>3. ASSUME NEW u \in Callers, job'[u].op \in NetworkOps
        PROVE  /\ job'[u].op \in Kinds =>
                    /\ ~Tracked(job[u].op, job[u].x)'
                    /\ \A r \in Promises(job[u].op, job[u].x)' :
                         firewall'[r] > 0 \/ \E n \in DOMAIN job'[u].todo : job'[u].todo[n] = r
               /\ job'[u].op = "rollback" => job'[u].x \notin isolated'
               /\ job'[u].op = "unblock" /\ job'[u].todo # <<>>
                    => firewall'[<<"conn", job'[u].x>>] > 0
    BY <1>4, <2>1, <2>3 DEF NetworkInv, firewallVars
  <2> QED BY <2>2, <2>3 DEF NetworkInv
<1>6. clean' => Apart' /\ HostsInv'
  BY <1>1 DEF Apart, Resource, HostsInv, hostsVars
<1> QED BY <1>2, <1>3, <1>5, <1>6 DEF ControlsInv

LEMMA ControlsRestartStep == ControlsInv /\ ControlsRestart => ControlsInv'
<1> SUFFICES ASSUME ControlsInv, ControlsRestart
             PROVE  ControlsInv'
  OBVIOUS
<1>1. /\ ControlTypes /\ VaultInv
      /\ UNCHANGED <<platform, calls, called, firewall, hosts, home, vault, now, process, clean>>
      /\ isolated' = {} /\ blocked' = {} /\ panic' = FALSE
      /\ sinkholed' = {d \in Domains : hosts[d] > 0}
      /\ records' = [f \in Files |-> None]
      /\ job' = [t \in Callers |-> Idle] /\ answer' = [t \in Callers |-> None]
      /\ faults' = faults + 1
  BY DEF ControlsInv, ControlsRestart, Fault
<1>2. SomeJob(Idle) /\ Idle.op \notin NetworkOps /\ Idle.op \notin HostsOps /\ None \in Results
  BY DEF SomeJob, Idle, NetworkOps, Removing, HostsOps, Results
<1>3. ControlTypes'
  <2>1. /\ job' = [t \in Callers |-> job'[t]] /\ \A t \in Callers : SomeJob(job'[t])
        /\ answer' \in [Callers -> Results]
    BY <1>1, <1>2
  <2>2. /\ DOMAIN records' = Files /\ records' = [f \in Files |-> records'[f]]
        /\ \A f \in Files : records'[f] # None => records'[f] \in PathsOf(f)
    BY <1>1
  <2>3. /\ platform' \in {"linux", "windows", "macos"} /\ calls' \in Workloads
        /\ firewall' \in [Rules -> Nat] /\ hosts' \in [Domains -> Nat]
        /\ home' \in [Files -> Files \union {None}]
        /\ now' \in Nat /\ faults' \in Nat /\ clean' \in BOOLEAN
    BY <1>1 DEF ControlTypes
  <2>4. panic' \in BOOLEAN /\ isolated' \subseteq Pids /\ blocked' \subseteq Addresses
    BY <1>1
  <2> QED BY <2>1, <2>2, <2>3, <2>4 DEF ControlTypes
<1>4. VaultInv'
  BY <1>1, VaultKeeps
<1>5. Apart'
  BY <1>1 DEF Apart
<1>6. HostsInv'
  BY <1>1, <1>2 DEF HostsInv
<1>7. NetworkInv'
  <2>1. \A k \in Kinds : \A x \in Subjects(k) : ~Tracked(k, x)'
    BY <1>1 DEF Tracked, Kinds
  <2>2. \A t \in Callers : job'[t].op \notin NetworkOps
    BY <1>1, <1>2
  <2> QED BY <2>1, <2>2 DEF NetworkInv
<1> QED BY <1>3, <1>4, <1>5, <1>6, <1>7 DEF ControlsInv

LEMMA ControlsInitially == ControlsInit => ControlsInv
<1> SUFFICES ASSUME ControlsInit
             PROVE  ControlsInv
  OBVIOUS
<1>1. SomeJob(Idle) /\ Idle.op \notin NetworkOps /\ Idle.op \notin HostsOps /\ None \in Results
  BY DEF SomeJob, Idle, NetworkOps, Removing, HostsOps, Results
<1>2. ControlTypes
  BY <1>1, ControlsAssumption DEF ControlsInit, ControlTypes
<1>3. VaultInv
  <2>1. \A f \in Files : home[f] = f
    BY DEF ControlsInit
  <2>2. DOMAIN vault = {}
    BY DEF ControlsInit
  <2> QED BY <2>1, <2>2 DEF VaultInv, EvidenceIsKept
<1>4. Apart /\ HostsInv
  BY <1>1 DEF ControlsInit, Apart, HostsInv
<1>5. NetworkInv
  <2>1. \A k \in Kinds : \A x \in Subjects(k) : ~Tracked(k, x)
    BY DEF ControlsInit, Tracked, Kinds
  <2>2. \A t \in Callers : job[t].op \notin NetworkOps
    BY <1>1 DEF ControlsInit
  <2> QED BY <2>1, <2>2 DEF NetworkInv
<1> QED BY <1>2, <1>3, <1>4, <1>5 DEF ControlsInv

LEMMA CallableIsPair == \A c \in Callable : c = <<c[1], c[2]>>
BY DEF Callable

LEMMA CallStep == ControlsInv /\ (\E t \in Callers : Call(t)) => ControlsInv'
<1> SUFFICES ASSUME ControlsInv, NEW t \in Callers, Call(t)
             PROVE  ControlsInv'
  OBVIOUS
<1>1. PICK c \in calls : Operation(t, c[1], c[2])
  BY DEF Call
<1>2. calls \in Workloads /\ c \in Callable
  BY <1>1, ControlsAssumption DEF ControlsInv, ControlTypes
<1>3. <<c[1], c[2]>> \in Callable /\ UNCHANGED <<platform, calls>>
  BY <1>2, CallableIsPair DEF Call
<1> QED BY <1>1, <1>3, OperationStep

LEMMA TickStep == ControlsInv /\ Tick /\ UNCHANGED <<platform, calls>> => ControlsInv'
<1> SUFFICES ASSUME ControlsInv, Tick, UNCHANGED <<platform, calls>>
             PROVE  ControlsInv'
  OBVIOUS
<1>1. now' \in Nat /\ faults' \in Nat
  BY DEF Tick, ControlsInv, ControlTypes
<1> QED BY <1>1, ControlsStandStill DEF Tick

LEMMA ControlsStep == ControlsInv /\ [ControlsNext]_controlVars => ControlsInv'
<1> SUFFICES ASSUME ControlsInv, [ControlsNext]_controlVars
             PROVE  ControlsInv'
  OBVIOUS
<1>1. CASE UNCHANGED controlVars
  <2>1. faults' \in Nat /\ now' \in Nat
    BY <1>1 DEF controlVars, fileVars, ControlsInv, ControlTypes
  <2> QED BY <1>1, <2>1, ControlsStandStill DEF controlVars, fileVars
<1>2. CASE ControlsNext
  BY <1>2, CallStep, TickStep, ControlStepStep, ControlsRestartStep DEF ControlsNext
<1> QED BY <1>1, <1>2

LEMMA ReportedFollows == ControlsInv => ReportedIsInForce
<1> SUFFICES ASSUME ControlsInv, clean
             PROVE  /\ \A a \in blocked : Busy(a) \/ InForce(ConnectionRules(a))
                    /\ panic => Busy("host") \/ InForce(PanicRules)
                    /\ platform # "macos" =>
                         \A p \in isolated : Busy(p) \/ InForce(IsolationRules(p))
                    /\ \A d \in Domains : hosts[d] > 0 => Busy("hosts") \/ d \in sinkholed
  BY DEF ReportedIsInForce
<1>1. ControlTypes /\ NetworkInv /\ HostsInv
  BY DEF ControlsInv
<1>2. ASSUME NEW k \in Kinds, NEW x \in Subjects(k), Tracked(k, x), ~Busy(x)
      PROVE  \A r \in Promises(k, x) : firewall[r] > 0
  <2>1. \A u \in Callers : job[u].op \in NetworkOps => job[u].x # x
    <3> SUFFICES ASSUME NEW u \in Callers, job[u].op \in NetworkOps, job[u].x = x
                 PROVE  FALSE
      OBVIOUS
    <3>1. job[u] # Idle /\ Resource(job[u].op, job[u].x) = x
      BY DEF Idle, Resource, NetworkOps, Removing, HostsOps, FileOps
    <3> QED BY <1>2, <3>1 DEF Busy
  <2> QED BY <1>1, <1>2, <2>1 DEF NetworkInv
<1>3. ASSUME NEW a \in blocked, ~Busy(a)
      PROVE  InForce(ConnectionRules(a))
  <2>1. "block" \in Kinds /\ a \in Subjects("block") /\ Tracked("block", a)
    BY <1>1, <1>3 DEF ControlTypes, Kinds, Subjects, Tracked
  <2>2. Promises("block", a) = {<<"conn", a>>}
    BY DEF Promises
  <2>3. firewall[<<"conn", a>>] > 0
    BY <1>2, <1>3, <2>1, <2>2
  <2> QED BY <2>3 DEF InForce, ConnectionRules
<1>4. ASSUME panic, ~Busy("host")
      PROVE  InForce(PanicRules)
  <2>1. "panic" \in Kinds /\ "host" \in Subjects("panic") /\ Tracked("panic", "host")
    BY <1>4 DEF Kinds, Subjects, Tracked
  <2>2. \A r \in Promises("panic", "host") : firewall[r] > 0
    BY <1>2, <1>4, <2>1
  <2> QED BY <2>2 DEF InForce, PanicRules, Promises
<1>5. ASSUME platform # "macos", NEW p \in isolated, ~Busy(p)
      PROVE  InForce(IsolationRules(p))
  <2>1. "isolate" \in Kinds /\ p \in Subjects("isolate") /\ Tracked("isolate", p)
    BY <1>1, <1>5 DEF ControlTypes, Kinds, Subjects, Tracked
  <2>2. Promises("isolate", p) = {<<"out", p>>, <<"in", p>>}
    BY <1>5 DEF Promises
  <2>3. firewall[<<"out", p>>] > 0 /\ firewall[<<"in", p>>] > 0
    BY <1>2, <1>5, <2>1, <2>2
  <2> QED BY <1>5, <2>3 DEF InForce, IsolationRules
<1> QED BY <1>1, <1>3, <1>4, <1>5 DEF HostsInv

\* Whatever calls and failures, in any number and order: what the endpoint says it
\* has done to its host is done, as long as no two calls on one thing have met and
\* no command took effect after its deadline; and what lies in the quarantine, or
\* was taken from it, is not lost.
THEOREM ControlsAreSound == ControlsSpec => [](ReportedIsInForce /\ EvidenceIsKept)
<1>1. ControlsInit => ControlsInv
  BY ControlsInitially
<1>2. ControlsInv /\ [ControlsNext]_controlVars => ControlsInv'
  BY ControlsStep
<1>3. ControlsInv => ReportedIsInForce /\ EvidenceIsKept
  BY ReportedFollows DEF ControlsInv, VaultInv
<1> QED BY <1>1, <1>2, <1>3, PTL DEF ControlsSpec

-----------------------------------------------------------------------------
(* The engine. *)

ActionNames == {"log", "alert", "suspend", "block"}
Begun == [alert : Alerts, at : {"learning", "rules", "act", "executing", "end"},
          todo : Seq(ActionNames), allowed : BOOLEAN]
AuditRows ==
  [alert : Alerts, action : ActionNames,
   status : {"not_required", "pending", "auto_approved", "approved", "denied"},
   result : Results \union {"learning", "allowlisted", "baselined", "awaiting_approval",
                            "blocked_protected"}]

EngineTypes ==
  /\ scenario \in Scenarios /\ mode \in ValidModes
  /\ settings \in [mode : ValidModes \union Modes, auto : BOOLEAN]
  /\ modeFile \in (Modes \intersect ValidModes) \union {None}
  /\ push = NoPush \/ push \in [mode : Modes, auto : BOOLEAN, at : {"engine", "file", "auto"}]
  /\ incoming \subseteq Alerts
  /\ resp = [t \in Responders |-> resp[t]]
  /\ \A t \in Responders : resp[t] = Free \/ resp[t] \in Begun
  /\ rows \in Seq(AuditRows)
  /\ acted \subseteq [alert : Alerts, action : {"suspend", "block"}]
  /\ IsFiniteSet(acted)

\* A pushed mode is in the settings from the start, and in the file by the end if
\* set_mode takes it.
PushInv ==
  /\ push.at \in {"engine", "file"} => settings.mode = push.mode
  /\ push.at = "file" => push.mode \in ValidModes
  /\ push.at \in {"auto", "none"} /\ ~unsaved /\ settings.mode \in ValidModes =>
       Restored = settings.mode

HasRow(e) == \E i \in DOMAIN rows : rows[i].alert = e.alert /\ rows[i].action = e.action
Distinct(s) == \A m, n \in DOMAIN s : s[m] = s[n] => m = n

\* What the thread t has done so far, when it is in the state r: each action has its
\* row before the next begins, and none is begun twice.
AnsweringAs(t, r) ==
  r # Free =>
    /\ r.alert \notin incoming
    /\ r.alert \in FastHits <=> t = Processor
    /\ r.at \in {"act", "executing"} => r.todo # <<>> /\ Distinct(r.todo)
    /\ r.at # "end" => \A e \in acted : e.alert = r.alert =>
         /\ r.at \in {"act", "executing"}
         /\ HasRow(e) \/ (r.at = "executing" /\ e.action = Head(r.todo))
         /\ r.at = "act" => \A n \in DOMAIN r.todo : r.todo[n] # e.action
         /\ r.at = "executing" => \A n \in DOMAIN Tail(r.todo) : Tail(r.todo)[n] # e.action

ActedInv ==
  /\ \A d, e \in acted : d.alert = e.alert /\ d.action = e.action => d = e
  /\ \A e \in acted : e.alert \notin incoming
  /\ \A t \in Responders : AnsweringAs(t, resp[t])

\* What is done and not recorded, nor about to be.
Lost ==
  {e \in acted : ~(HasRow(e) \/ \E t \in Responders :
                                  resp[t].at = "executing" /\ resp[t].alert = e.alert)}
LostInv == Cardinality(Lost) <= 2 * faults

EngineInv == EngineTypes /\ PushInv /\ ActedInv /\ LostInv

-----------------------------------------------------------------------------
(* Each part of the invariant, step by step. *)

LEMMA AtMostOne ==
  ASSUME NEW S, \A a, b \in S : a = b
  PROVE  IsFiniteSet(S) /\ Cardinality(S) \in Nat /\ Cardinality(S) <= 1
<1>1. CASE S = {}
  BY <1>1, FS_EmptySet
<1>2. CASE S # {}
  <2>1. PICK a \in S : TRUE
    BY <1>2
  <2>2. S = {a}
    BY <2>1
  <2>3. IsFiniteSet({a}) /\ Cardinality({a}) = 1
    BY FS_Singleton
  <2> QED BY <2>2, <2>3
<1> QED BY <1>1, <1>2

LEMMA LostKeeps ==
  ASSUME EngineTypes, LostInv, faults \in Nat, faults' \in Nat, faults' >= faults, Lost' \subseteq Lost
  PROVE  LostInv'
<1>1. IsFiniteSet(Lost)
  BY FS_Subset DEF EngineTypes, Lost
<1>2. Cardinality(Lost') <= Cardinality(Lost) /\ Cardinality(Lost) \in Nat /\ Cardinality(Lost') \in Nat
  BY <1>1, FS_Subset, FS_CardinalityType
<1> QED BY <1>2 DEF LostInv

\* A fault cuts off at most one action of each thread.
LEMMA LostGrows ==
  ASSUME EngineTypes, LostInv, faults \in Nat, faults' = faults + 1, NEW S, NEW T,
         \A a, b \in S : a = b, \A a, b \in T : a = b, Lost' \subseteq (Lost \union S) \union T
  PROVE  LostInv'
<1>1. IsFiniteSet(Lost) /\ Cardinality(Lost) \in Nat
  BY FS_Subset, FS_CardinalityType DEF EngineTypes, Lost
<1>2. /\ IsFiniteSet(S) /\ Cardinality(S) \in Nat /\ Cardinality(S) <= 1
      /\ IsFiniteSet(T) /\ Cardinality(T) \in Nat /\ Cardinality(T) <= 1
  BY AtMostOne
<1>3. IsFiniteSet(Lost \union S) /\ Cardinality(Lost \union S) \in Nat
  BY <1>1, <1>2, FS_Union, FS_CardinalityType
<1>4. Cardinality(Lost \union S) <= Cardinality(Lost) + 1
  <2>1. /\ Cardinality(Lost \union S) =
             Cardinality(Lost) + Cardinality(S) - Cardinality(Lost \intersect S)
        /\ Cardinality(Lost \intersect S) \in Nat
    BY <1>1, <1>2, FS_Union, FS_Intersection, FS_CardinalityType
  <2> QED BY <1>1, <1>2, <1>3, <2>1
<1>5. Cardinality((Lost \union S) \union T) <= Cardinality(Lost \union S) + 1
  <2>1. /\ Cardinality((Lost \union S) \union T) =
             Cardinality(Lost \union S) + Cardinality(T) - Cardinality((Lost \union S) \intersect T)
        /\ Cardinality((Lost \union S) \intersect T) \in Nat
    BY <1>2, <1>3, FS_Union, FS_Intersection, FS_CardinalityType
  <2> QED BY <1>2, <1>3, <2>1
<1>6. IsFiniteSet((Lost \union S) \union T) /\ Cardinality((Lost \union S) \union T) \in Nat
  BY <1>2, <1>3, FS_Union, FS_CardinalityType
<1>7. Cardinality(Lost') <= Cardinality((Lost \union S) \union T) /\ Cardinality(Lost') \in Nat
  BY <1>6, FS_Subset, FS_CardinalityType
<1> QED BY <1>1, <1>3, <1>4, <1>5, <1>6, <1>7 DEF LostInv

LEMMA PushKeeps ==
  PushInv /\ UNCHANGED <<scenario, settings, modeFile, push, unsaved>> => PushInv'
BY DEF PushInv, Restored, config

\* The thread t goes on to nx, and the others stay where they are.
LEMMA ActedStep ==
  ASSUME EngineTypes, ActedInv, NEW t \in Responders, NEW nx, nx = Free \/ nx \in Begun,
         resp' = [resp EXCEPT ![t] = nx], acted' = acted, incoming' \subseteq incoming,
         \A e : HasRow(e) => HasRow(e)', AnsweringAs(t, nx)'
  PROVE  /\ ActedInv' /\ resp' = [u \in Responders |-> resp'[u]]
         /\ \A u \in Responders : resp'[u] = Free \/ resp'[u] \in Begun
         /\ \A u \in Responders : resp'[u] = IF u = t THEN nx ELSE resp[u]
<1>1. /\ resp = [u \in Responders |-> resp[u]]
      /\ \A u \in Responders : resp[u] = Free \/ resp[u] \in Begun
  BY DEF EngineTypes
<1>2. resp' = [u \in Responders |-> IF u = t THEN nx ELSE resp[u]]
  BY <1>1
<1>3. \A u \in Responders : resp'[u] = IF u = t THEN nx ELSE resp[u]
  BY <1>2
<1>4. ASSUME NEW u \in Responders, u # t
      PROVE  AnsweringAs(u, resp[u])'
  <2>1. PICK r : r = resp[u]
    OBVIOUS
  <2>2. AnsweringAs(u, r)
    BY <2>1 DEF ActedInv
  <2>3. AnsweringAs(u, r)'
    BY <2>2 DEF AnsweringAs
  <2>4. resp'[u] = r
    BY <1>3, <1>4, <2>1
  <2> QED BY <2>3, <2>4 DEF AnsweringAs
<1>5. AnsweringAs(t, resp[t])'
  BY <1>3 DEF AnsweringAs
<1>6. \A u \in Responders : AnsweringAs(u, resp[u])'
  BY <1>4, <1>5
<1>7. ActedInv'
  BY <1>6 DEF ActedInv
<1>8. resp' = [u \in Responders |-> resp'[u]]
  BY <1>2, <1>3
<1>9. \A u \in Responders : resp'[u] = Free \/ resp'[u] \in Begun
  BY <1>1, <1>3
<1> QED BY <1>3, <1>7, <1>8, <1>9

\* Nothing is lost when each action that t had begun now has its row.
LEMMA LostStep ==
  ASSUME NEW t \in Responders, NEW nx, acted' = acted,
         \A u \in Responders : resp'[u] = IF u = t THEN nx ELSE resp[u],
         \A e : HasRow(e) => HasRow(e)',
         resp[t].at = "executing" => \A e \in acted : e.alert = resp[t].alert => HasRow(e)'
  PROVE  Lost' \subseteq Lost
<1> SUFFICES ASSUME NEW e \in acted, e \notin Lost
             PROVE  e \notin Lost'
  BY DEF Lost
<1>1. CASE HasRow(e)
  BY <1>1 DEF Lost
<1>2. CASE \E u \in Responders : resp[u].at = "executing" /\ resp[u].alert = e.alert
  <2>1. PICK u \in Responders : resp[u].at = "executing" /\ resp[u].alert = e.alert
    BY <1>2
  <2>2. CASE u = t
    BY <2>1, <2>2 DEF Lost
  <2>3. CASE u # t
    BY <2>1, <2>3 DEF Lost
  <2> QED BY <2>2, <2>3
<1> QED BY <1>1, <1>2 DEF Lost

LEMMA AppendedRow ==
  ASSUME EngineTypes, NEW row \in AuditRows, rows' = Append(rows, row)
  PROVE  /\ rows' \in Seq(AuditRows)
         /\ \A e : HasRow(e) => HasRow(e)'
         /\ \A e : row.alert = e.alert /\ row.action = e.action => HasRow(e)'
<1>1. /\ rows' \in Seq(AuditRows) /\ Len(rows') = Len(rows) + 1 /\ rows'[Len(rows) + 1] = row
      /\ \A i \in 1..Len(rows) : rows'[i] = rows[i]
      /\ DOMAIN rows = 1..Len(rows) /\ DOMAIN rows' = 1..Len(rows')
      /\ Len(rows) \in Nat
  BY DEF EngineTypes
<1>2. \A i \in DOMAIN rows : i \in DOMAIN rows' /\ rows'[i] = rows[i]
  BY <1>1
<1>3. Len(rows) + 1 \in DOMAIN rows'
  BY <1>1
<1> QED BY <1>1, <1>2, <1>3 DEF HasRow

\* A row is recorded, or the response breaks off there.
LEMMA RecordStep ==
  ASSUME EngineTypes, ActedInv, LostInv, faults \in Nat, NEW t \in Responders, resp[t] # Free,
         NEW row \in AuditRows, row.alert = resp[t].alert, NEW nx \in Begun,
         Record(t, row, nx), UNCHANGED <<acted, incoming>>,
         rows' = Append(rows, row) => AnsweringAs(t, nx)',
         resp[t].at = "executing" => row.action = Head(resp[t].todo)
  PROVE  /\ ActedInv' /\ LostInv' /\ rows' \in Seq(AuditRows)
         /\ resp' = [u \in Responders |-> resp'[u]]
         /\ \A u \in Responders : resp'[u] = Free \/ resp'[u] \in Begun
<1>1. AnsweringAs(t, resp[t]) /\ resp[t] \in Begun /\ rows \in Seq(AuditRows)
  BY DEF ActedInv, EngineTypes
<1>2. CASE rows' = Append(rows, row) /\ resp' = [resp EXCEPT ![t] = nx] /\ UNCHANGED faults
  <2>1. /\ rows' \in Seq(AuditRows)
        /\ \A e : HasRow(e) => HasRow(e)'
        /\ \A e : row.alert = e.alert /\ row.action = e.action => HasRow(e)'
    BY <1>2, AppendedRow
  <2>2. /\ ActedInv' /\ resp' = [u \in Responders |-> resp'[u]]
        /\ \A u \in Responders : resp'[u] = Free \/ resp'[u] \in Begun
        /\ \A u \in Responders : resp'[u] = IF u = t THEN nx ELSE resp[u]
    BY <1>2, <2>1, ActedStep
  <2>3. resp[t].at = "executing" => \A e \in acted : e.alert = resp[t].alert => HasRow(e)'
    BY <1>1, <2>1 DEF AnsweringAs
  <2>4. Lost' \subseteq Lost
    BY <2>1, <2>2, <2>3, LostStep
  <2> QED BY <1>2, <2>1, <2>2, <2>4, LostKeeps
<1>3. CASE /\ Fault /\ UNCHANGED rows
           /\ resp' = [resp EXCEPT ![t] = [@ EXCEPT !.at = "end", !.todo = <<>>]]
  <2>0. PICK end : end = [resp[t] EXCEPT !.at = "end", !.todo = <<>>]
    OBVIOUS
  <2>1. /\ end \in Begun /\ end.at = "end" /\ end.alert = resp[t].alert
        /\ resp' = [resp EXCEPT ![t] = end]
    <3>1. <<>> \in Seq(ActionNames)
      OBVIOUS
    <3>2. end \in Begun /\ end.at = "end" /\ end.alert = resp[t].alert
      BY <1>1, <2>0, <3>1 DEF Begun
    <3>3. resp' = [resp EXCEPT ![t] = end]
      BY <1>3, <2>0
    <3> QED BY <3>2, <3>3
  <2>2. \A e : HasRow(e) <=> HasRow(e)'
    BY <1>3 DEF HasRow
  <2>3. AnsweringAs(t, end)'
    BY <1>1, <2>1 DEF AnsweringAs
  <2>4. /\ ActedInv' /\ resp' = [u \in Responders |-> resp'[u]]
        /\ \A u \in Responders : resp'[u] = Free \/ resp'[u] \in Begun
        /\ \A u \in Responders : resp'[u] = IF u = t THEN end ELSE resp[u]
    BY <2>1, <2>2, <2>3, ActedStep
  <2> DEFINE S == {e \in acted : e.alert = resp[t].alert /\ e.action = Head(resp[t].todo)}
  <2>5. \A a, b \in S : a = b
    BY DEF ActedInv
  <2>6. Lost' \subseteq (Lost \union S) \union {}
    <3> SUFFICES ASSUME NEW e \in acted, e \notin Lost, e \notin S
                 PROVE  e \notin Lost'
      BY DEF Lost
    <3>1. CASE HasRow(e)
      BY <2>2, <3>1 DEF Lost
    <3>2. CASE ~HasRow(e)
      <4>1. PICK u \in Responders : resp[u].at = "executing" /\ resp[u].alert = e.alert
        BY <3>2 DEF Lost
      <4>2. u # t
        BY <1>1, <3>2, <4>1 DEF AnsweringAs
      <4> QED BY <2>4, <4>1, <4>2 DEF Lost
    <3> QED BY <3>1, <3>2
  <2> HIDE DEF S
  <2>7. LostInv'
    <3>1. faults' = faults + 1 /\ \A a, b \in {} : a = b
      BY <1>3 DEF Fault
    <3> QED BY <2>5, <2>6, <3>1, LostGrows
  <2> QED BY <1>1, <1>3, <2>4, <2>7
<1> QED BY <1>2, <1>3 DEF Record

-----------------------------------------------------------------------------
(* The steps of a response. *)

LEMMA AfterFacts ==
  ASSUME NEW r \in Begun, r.todo # <<>>, Distinct(r.todo)
  PROVE  /\ After(r) \in Begun /\ After(r).alert = r.alert /\ After(r).todo = Tail(r.todo)
         /\ After(r).at \in {"act", "end"} /\ (After(r).at = "act" => Tail(r.todo) # <<>>)
         /\ Distinct(Tail(r.todo))
         /\ \A n \in DOMAIN Tail(r.todo) :
              n + 1 \in DOMAIN r.todo /\ Tail(r.todo)[n] = r.todo[n + 1] /\ n + 1 # 1
<1>1. PICK s \in Seq(ActionNames) : s = r.todo
  BY DEF Begun
<1>2. /\ Tail(s) \in Seq(ActionNames) /\ (Len(s) # 1 => Tail(s) # <<>>)
      /\ \A n \in DOMAIN Tail(s) : n \in Nat /\ n + 1 \in DOMAIN s /\ Tail(s)[n] = s[n + 1] /\ n + 1 # 1
  <2>1. s # <<>> /\ Tail(s) \in Seq(ActionNames) /\ Len(Tail(s)) = Len(s) - 1 /\ Len(s) \in Nat
    BY <1>1
  <2>2. /\ \A n \in 1..Len(Tail(s)) : Tail(s)[n] = s[n + 1]
        /\ DOMAIN s = 1..Len(s) /\ DOMAIN Tail(s) = 1..Len(Tail(s))
    BY <2>1
  <2>3. Len(s) # 1 => Tail(s) # <<>>
    <3> SUFFICES ASSUME Tail(s) = <<>>
                 PROVE  Len(s) = 1
      OBVIOUS
    <3>1. Len(Tail(s)) = 0
      <4>1. Len(<<>>) = 0
        OBVIOUS
      <4> QED BY <4>1
    <3> QED BY <2>1, <3>1
  <2> QED BY <2>1, <2>2, <2>3
<1>3. Distinct(Tail(s))
  <2> SUFFICES ASSUME NEW m \in DOMAIN Tail(s), NEW n \in DOMAIN Tail(s), Tail(s)[m] = Tail(s)[n]
               PROVE  m = n
    BY DEF Distinct
  <2>1. m + 1 = n + 1
    BY <1>1, <1>2 DEF Distinct
  <2> QED BY <1>2, <2>1
<1>4. PICK a \in {"act", "end"} : a = IF Len(s) = 1 THEN "end" ELSE "act"
  OBVIOUS
<1>5. After(r) = [r EXCEPT !.todo = Tail(s), !.at = a]
  BY <1>1, <1>4 DEF After, Begun
<1>6. /\ After(r) \in Begun /\ After(r).alert = r.alert /\ After(r).todo = Tail(s)
      /\ After(r).at = a
  BY <1>2, <1>5 DEF Begun
<1> QED BY <1>1, <1>2, <1>3, <1>4, <1>6

LEMMA AfterRow ==
  ASSUME NEW t, NEW r \in Begun, AnsweringAs(t, r), r.at \in {"act", "executing"},
         UNCHANGED <<acted, incoming>>, \A e : HasRow(e) => HasRow(e)',
         \A e : r.alert = e.alert /\ Head(r.todo) = e.action => HasRow(e)',
         NEW nx, nx = After(r)
  PROVE  AnsweringAs(t, nx)'
<1>0. r # Free
  BY DEF Free, Begun
<1>1. r.todo # <<>> /\ Distinct(r.todo)
  BY <1>0 DEF AnsweringAs
<1>2. /\ nx \in Begun /\ nx.alert = r.alert /\ nx.todo = Tail(r.todo)
      /\ nx.at \in {"act", "end"} /\ (nx.at = "act" => Tail(r.todo) # <<>>)
      /\ Distinct(Tail(r.todo))
      /\ \A n \in DOMAIN Tail(r.todo) :
           n + 1 \in DOMAIN r.todo /\ Tail(r.todo)[n] = r.todo[n + 1]
  BY <1>1, AfterFacts
<1>3. ASSUME NEW e \in acted, e.alert = r.alert
      PROVE  HasRow(e)' /\ \A n \in DOMAIN Tail(r.todo) : Tail(r.todo)[n] # e.action
  <2>1. CASE r.at = "act"
    <3>1. HasRow(e) /\ \A n \in DOMAIN r.todo : r.todo[n] # e.action
      BY <1>0, <1>3, <2>1 DEF AnsweringAs
    <3> QED BY <1>2, <3>1
  <2>2. CASE r.at = "executing"
    <3>1. /\ HasRow(e) \/ e.action = Head(r.todo)
          /\ \A n \in DOMAIN Tail(r.todo) : Tail(r.todo)[n] # e.action
      BY <1>0, <1>3, <2>2 DEF AnsweringAs
    <3> QED BY <1>3, <3>1
  <2> QED BY <2>1, <2>2
<1>4. r.alert \notin incoming' /\ (r.alert \in FastHits <=> t = Processor)
  BY <1>0 DEF AnsweringAs
<1> QED BY <1>2, <1>3, <1>4 DEF AnsweringAs

LEMMA ResponseEnds ==
  ASSUME EngineInv, UNCHANGED <<acted, responseOnly>>, ActedInv', LostInv',
         rows' \in Seq(AuditRows), resp' = [u \in Responders |-> resp'[u]],
         \A u \in Responders : resp'[u] = Free \/ resp'[u] \in Begun
  PROVE  EngineInv'
<1>1. EngineTypes'
  BY DEF EngineInv, EngineTypes, responseOnly
<1>2. PushInv'
  BY PushKeeps DEF EngineInv, responseOnly
<1> QED BY <1>1, <1>2 DEF EngineInv

\* A step of a response that records nothing.
LEMMA ResponseGoesOn ==
  ASSUME EngineInv, faults \in Nat, UNCHANGED <<acted, responseOnly, rows, faults>>,
         NEW t \in Responders, resp[t].at # "executing", NEW nx \in Begun,
         resp' = [resp EXCEPT ![t] = nx], AnsweringAs(t, nx)'
  PROVE  EngineInv'
<1>1. EngineTypes /\ ActedInv /\ LostInv /\ incoming' \subseteq incoming
  BY DEF EngineInv, responseOnly
<1>2. \A e : HasRow(e) => HasRow(e)'
  BY DEF HasRow
<1>3. /\ ActedInv' /\ resp' = [u \in Responders |-> resp'[u]]
      /\ \A u \in Responders : resp'[u] = Free \/ resp'[u] \in Begun
      /\ \A u \in Responders : resp'[u] = IF u = t THEN nx ELSE resp[u]
  BY <1>1, <1>2, ActedStep
<1>4. Lost' \subseteq Lost
  BY <1>2, <1>3, LostStep
<1>5. LostInv'
  BY <1>1, <1>4, LostKeeps
<1> QED BY <1>1, <1>3, <1>5, ResponseEnds DEF EngineTypes

LEMMA ActionsFacts ==
  \A v : Actions(v) \in Seq(ActionNames) /\ Actions(v) # <<>> /\ Distinct(Actions(v))
<1> TAKE v
<1>1. CASE v = "critical"
  <2>1. Actions(v) = <<"alert", "suspend", "block">>
    BY <1>1 DEF Actions
  <2> QED BY <2>1 DEF ActionNames, Distinct
<1>2. CASE v = "high"
  <2>1. Actions(v) = <<"alert", "block">>
    BY <1>2 DEF Actions
  <2> QED BY <2>1 DEF ActionNames, Distinct
<1>3. CASE v # "critical" /\ v # "high"
  <2>1. PICK a \in {"alert", "log"} : Actions(v) = <<a>>
    <3>1. Actions(v) = <<"alert">> \/ Actions(v) = <<"log">>
      BY <1>3 DEF Actions
    <3> QED BY <3>1
  <2> QED BY <2>1 DEF ActionNames, Distinct
<1> QED BY <1>1, <1>2, <1>3

LEMMA LearningStep ==
  ASSUME EngineInv, faults \in Nat, NEW t \in Responders, CheckLearning(t) \/ CheckRules(t)
  PROVE  EngineInv'
<1>1. /\ EngineTypes /\ ActedInv /\ LostInv /\ incoming' = incoming
      /\ UNCHANGED <<acted, responseOnly>> /\ resp[t].at \in {"learning", "rules"}
  BY DEF EngineInv, responseOnly, CheckLearning, CheckRules
<1>2. resp[t] \in Begun /\ resp[t] # Free /\ AnsweringAs(t, resp[t])
  BY <1>1 DEF EngineTypes, Free, ActedInv
<1>3. PICK r \in Begun : r = resp[t]
  BY <1>2
<1>4. r.alert \notin incoming /\ (r.alert \in FastHits <=> t = Processor)
      /\ \A e \in acted : e.alert # r.alert
  BY <1>1, <1>2, <1>3 DEF AnsweringAs
<1>5. ASSUME NEW row \in AuditRows, row.alert = r.alert, NEW nx \in Begun, nx.at = "end",
             nx.alert = r.alert, Record(t, row, nx)
      PROVE  EngineInv'
  <2>1. AnsweringAs(t, nx)'
    BY <1>1, <1>4, <1>5 DEF AnsweringAs
  <2>2. /\ ActedInv' /\ LostInv' /\ rows' \in Seq(AuditRows)
        /\ resp' = [u \in Responders |-> resp'[u]]
        /\ \A u \in Responders : resp'[u] = Free \/ resp'[u] \in Begun
    BY <1>1, <1>2, <1>3, <1>5, <2>1, RecordStep
  <2> QED BY <1>1, <2>2, ResponseEnds
<1>6. ASSUME NEW nx \in Begun, nx.alert = r.alert, resp' = [resp EXCEPT ![t] = nx],
             UNCHANGED <<rows, faults>>,
             nx.at = "rules" \/ (nx.at = "act" /\ nx.todo # <<>> /\ Distinct(nx.todo))
      PROVE  EngineInv'
  <2>1. AnsweringAs(t, nx)'
    BY <1>1, <1>4, <1>6 DEF AnsweringAs
  <2> QED BY <1>1, <1>6, <2>1, ResponseGoesOn
<1>7. CASE CheckLearning(t)
  <2>1. PICK nx : nx = [r EXCEPT !.at = "end"]
    OBVIOUS
  <2>2. PICK ny : ny = [r EXCEPT !.at = "rules"]
    OBVIOUS
  <2>3. /\ nx \in Begun /\ nx.at = "end" /\ nx.alert = r.alert
        /\ ny \in Begun /\ ny.at = "rules" /\ ny.alert = r.alert
    BY <2>1, <2>2 DEF Begun
  <2>4. PICK row : row = Row(r.alert, "log", "not_required", "learning")
    OBVIOUS
  <2>5. row \in AuditRows /\ row.alert = r.alert
    BY <2>4 DEF Row, AuditRows, Begun, ActionNames
  <2>6. \/ Record(t, row, nx)
        \/ resp' = [resp EXCEPT ![t] = ny] /\ UNCHANGED <<rows, faults>>
    BY <1>3, <1>7, <2>1, <2>2, <2>4 DEF CheckLearning
  <2> QED BY <1>5, <1>6, <2>3, <2>5, <2>6
<1>8. CASE CheckRules(t)
  <2>1. PICK nx : nx = [r EXCEPT !.at = "end", !.allowed = TRUE]
    OBVIOUS
  <2>2. PICK ny : ny = [r EXCEPT !.at = "end"]
    OBVIOUS
  <2>3. PICK nz : nz = [r EXCEPT !.at = "act", !.todo = Actions(Severity[r.alert])]
    OBVIOUS
  <2>4. /\ nx \in Begun /\ nx.at = "end" /\ nx.alert = r.alert
        /\ ny \in Begun /\ ny.at = "end" /\ ny.alert = r.alert
    BY <2>1, <2>2 DEF Begun
  <2>5. /\ nz \in Begun /\ nz.at = "act" /\ nz.alert = r.alert
        /\ nz.todo # <<>> /\ Distinct(nz.todo)
    <3>1. PICK s \in Seq(ActionNames) : s = Actions(Severity[r.alert]) /\ s # <<>> /\ Distinct(s)
      BY ActionsFacts
    <3> QED BY <2>3, <3>1 DEF Begun
  <2>6. PICK row : row = Row(r.alert, "log", "not_required", "allowlisted")
    OBVIOUS
  <2>7. PICK row2 : row2 = Row(r.alert, "log", "not_required", "baselined")
    OBVIOUS
  <2>8. row \in AuditRows /\ row.alert = r.alert /\ row2 \in AuditRows /\ row2.alert = r.alert
    BY <2>6, <2>7 DEF Row, AuditRows, Begun, ActionNames
  <2>9. \/ Record(t, row, nx) \/ Record(t, row2, ny)
        \/ resp' = [resp EXCEPT ![t] = nz] /\ UNCHANGED <<rows, faults>>
    <3> DEFINE f == resp[t].alert
               c1 == mode = "active" /\ f \in Allowed \ Blocked
               c2 == mode = "active" /\ f \notin Allowed \union Blocked /\ Baselined(f)
    <3>1. CASE c1
      BY <1>3, <1>8, <2>1, <2>6, <3>1 DEF CheckRules
    <3>2. CASE c2 /\ ~c1
      BY <1>3, <1>8, <2>2, <2>7, <3>2 DEF CheckRules
    <3>3. CASE ~c1 /\ ~c2
      BY <1>3, <1>8, <2>3, <3>3 DEF CheckRules
    <3> QED BY <3>1, <3>2, <3>3
  <2> QED BY <1>5, <1>6, <2>4, <2>5, <2>8, <2>9
<1> QED BY <1>7, <1>8

LEMMA RecordActionStep ==
  ASSUME ControlTypes, EngineInv, NEW t \in Responders, RecordAction(t) \/ RecordOutcome(t)
  PROVE  EngineInv'
<1>1. /\ EngineTypes /\ ActedInv /\ LostInv /\ incoming' = incoming /\ faults \in Nat
      /\ UNCHANGED <<acted, responseOnly>> /\ resp[t].at \in {"act", "executing"}
      /\ answer \in [Callers -> Results] /\ t \in Callers
  BY EngineAssumption
     DEF EngineInv, ControlTypes, responseOnly, RecordAction, RecordOutcome, Responders
<1>2. resp[t] \in Begun /\ resp[t] # Free /\ AnsweringAs(t, resp[t])
  BY <1>1 DEF EngineTypes, Free, ActedInv
<1>3. PICK r \in Begun : r = resp[t]
  BY <1>2
<1>4. r.todo # <<>> /\ Distinct(r.todo) /\ AnsweringAs(t, r)
  BY <1>1, <1>2, <1>3 DEF AnsweringAs
<1>5. PICK action \in ActionNames : action = Head(r.todo)
  BY <1>4 DEF Begun
<1>6. PICK nx : nx = After(r)
  OBVIOUS
<1>7. nx \in Begun /\ nx.alert = r.alert
  BY <1>4, <1>6, AfterFacts
<1>8. PICK row \in AuditRows : row.alert = r.alert /\ row.action = action /\ Record(t, row, nx)
  <2>1. ASSUME NEW status \in {"not_required", "pending", "auto_approved"},
               NEW result \in Results \union {"awaiting_approval", "blocked_protected"}
        PROVE  LET new == Row(r.alert, action, status, result)
               IN new \in AuditRows /\ new.alert = r.alert /\ new.action = action
    BY <1>5 DEF Row, AuditRows, Begun
  <2>2. CASE RecordOutcome(t)
    <3>1. Record(t, Row(r.alert, action, "auto_approved", answer[t]), nx)
      BY <1>3, <1>5, <1>6, <2>2 DEF RecordOutcome
    <3>2. answer[t] \in Results
      BY <1>1
    <3> QED BY <2>1, <3>1, <3>2
  <2>3. CASE RecordAction(t)
    <3>1. "success" \in Results /\ "failed" \in Results
      BY DEF Results
    <3>2. \/ Record(t, Row(r.alert, action, "pending", "awaiting_approval"), nx)
          \/ Record(t, Row(r.alert, action, "not_required", "blocked_protected"), nx)
          \/ Record(t, Row(r.alert, action, "not_required", "success"), nx)
          \/ Record(t, Row(r.alert, action, "auto_approved", "failed"), nx)
      <4> DEFINE protects == action = "suspend" /\ Target(r.alert).name \in Protected
                 asks == ~protects /\ RequiresApproval(action)
      <4>1. Record(t,
              CASE asks -> Row(r.alert, action, "pending", "awaiting_approval")
                [] protects -> Row(r.alert, action, "not_required", "blocked_protected")
                [] action \in {"log", "alert"} -> Row(r.alert, action, "not_required", "success")
                [] OTHER -> Row(r.alert, action, "auto_approved", "failed"),
              nx)
        BY <1>3, <1>5, <1>6, <2>3 DEF RecordAction
      <4>2. /\ asks => ~protects /\ action \notin {"log", "alert"}
            /\ protects => action \notin {"log", "alert"}
        BY DEF RequiresApproval
      <4> HIDE DEF asks, protects
      <4>3. PICK new : new =
              CASE asks -> Row(r.alert, action, "pending", "awaiting_approval")
                [] protects -> Row(r.alert, action, "not_required", "blocked_protected")
                [] action \in {"log", "alert"} -> Row(r.alert, action, "not_required", "success")
                [] OTHER -> Row(r.alert, action, "auto_approved", "failed")
        OBVIOUS
      <4>4. \/ new = Row(r.alert, action, "pending", "awaiting_approval")
            \/ new = Row(r.alert, action, "not_required", "blocked_protected")
            \/ new = Row(r.alert, action, "not_required", "success")
            \/ new = Row(r.alert, action, "auto_approved", "failed")
        BY <4>2, <4>3
      <4>5. Record(t, new, nx)
        BY <4>1, <4>3
      <4> QED BY <4>4, <4>5
    <3> QED BY <2>1, <3>1, <3>2
  <2> QED BY <2>2, <2>3
<1>9. ASSUME rows' = Append(rows, row)
      PROVE  AnsweringAs(t, nx)'
  <2>1. /\ \A e : HasRow(e) => HasRow(e)'
        /\ \A e : row.alert = e.alert /\ row.action = e.action => HasRow(e)'
    BY <1>1, <1>9, AppendedRow
  <2>2. \A e : r.alert = e.alert /\ Head(r.todo) = e.action => HasRow(e)'
    BY <1>5, <1>8, <2>1
  <2> QED BY <1>1, <1>3, <1>4, <1>6, <2>1, <2>2, AfterRow
<1>10. /\ ActedInv' /\ LostInv' /\ rows' \in Seq(AuditRows)
       /\ resp' = [u \in Responders |-> resp'[u]]
       /\ \A u \in Responders : resp'[u] = Free \/ resp'[u] \in Begun
  <2>1. UNCHANGED <<acted, incoming>> /\ row.alert = resp[t].alert
        /\ (resp[t].at = "executing" => row.action = Head(resp[t].todo))
    BY <1>1, <1>3, <1>5, <1>8
  <2> QED BY <1>1, <1>2, <1>7, <1>8, <1>9, <2>1, RecordStep
<1> QED BY <1>1, <1>10, ResponseEnds

\* The action that begins was not begun before, by either thread, and its thread is
\* to record it.
LEMMA ExecuteStep ==
  ASSUME EngineInv, faults \in Nat, faults' \in {faults, faults + 1},
         NEW t \in Responders, ExecuteAction(t)
  PROVE  EngineInv'
<1>1. /\ EngineTypes /\ ActedInv /\ LostInv /\ resp[t].at = "act"
      /\ UNCHANGED <<rows, responseOnly>>
      /\ resp' = [resp EXCEPT ![t].at = "executing"]
  BY DEF EngineInv, ExecuteAction
<1>2. resp[t] \in Begun /\ resp[t] # Free /\ AnsweringAs(t, resp[t])
  BY <1>1 DEF EngineTypes, Free, ActedInv
<1>3. PICK r \in Begun : r = resp[t]
  BY <1>2
<1>4. /\ r.todo # <<>> /\ Distinct(r.todo) /\ AnsweringAs(t, r) /\ r.at = "act"
      /\ r.alert \notin incoming /\ (r.alert \in FastHits <=> t = Processor)
      /\ \A e \in acted : e.alert = r.alert =>
           HasRow(e) /\ \A n \in DOMAIN r.todo : r.todo[n] # e.action
  BY <1>1, <1>2, <1>3 DEF AnsweringAs
<1>5. PICK action \in {"suspend", "block"} : action = Head(r.todo)
  BY <1>3 DEF ExecuteAction
<1>6. PICK e : e = [alert |-> r.alert, action |-> action]
  OBVIOUS
<1>7. acted' = acted \union {e} /\ e \in [alert : Alerts, action : {"suspend", "block"}]
  BY <1>1, <1>3, <1>5, <1>6 DEF ExecuteAction, EngineTypes, Begun
<1>8. PICK nx : nx = [r EXCEPT !.at = "executing"]
  OBVIOUS
<1>9. /\ nx \in Begun /\ nx.alert = r.alert /\ nx.at = "executing" /\ nx.todo = r.todo
      /\ resp' = [resp EXCEPT ![t] = nx]
  BY <1>1, <1>3, <1>8 DEF Begun
<1>10. resp' = [u \in Responders |-> IF u = t THEN nx ELSE resp[u]]
  BY <1>1, <1>9 DEF EngineTypes
<1>11. \A u \in Responders : resp'[u] = IF u = t THEN nx ELSE resp[u]
  BY <1>10
<1>12. /\ 1 \in DOMAIN r.todo /\ r.todo[1] = action
       /\ \A n \in DOMAIN Tail(r.todo) : Tail(r.todo)[n] # action
  <2>1. 1 \in DOMAIN r.todo /\ r.todo[1] = action
    BY <1>4, <1>5 DEF Begun
  <2>2. \A n \in DOMAIN Tail(r.todo) :
          n + 1 \in DOMAIN r.todo /\ Tail(r.todo)[n] = r.todo[n + 1] /\ n + 1 # 1
    BY <1>4, AfterFacts
  <2> QED BY <1>4, <2>1, <2>2 DEF Distinct
<1>13. \A d \in acted : ~(d.alert = e.alert /\ d.action = e.action)
  BY <1>4, <1>6, <1>12
<1>14. EngineTypes'
  <2>1. IsFiniteSet(acted')
    BY <1>1, <1>7, FS_AddElement DEF EngineTypes
  <2>2. resp' = [u \in Responders |-> resp'[u]]
    BY <1>10, <1>11
  <2>3. \A u \in Responders : resp'[u] = Free \/ resp'[u] \in Begun
    BY <1>1, <1>9, <1>11 DEF EngineTypes
  <2>4. acted' \subseteq [alert : Alerts, action : {"suspend", "block"}]
    BY <1>1, <1>7 DEF EngineTypes
  <2> QED BY <1>1, <2>1, <2>2, <2>3, <2>4 DEF EngineTypes, responseOnly
<1>15. \A d : HasRow(d)' <=> HasRow(d)
  BY <1>1 DEF HasRow
<1>16. ActedInv'
  <2>1. ASSUME NEW u \in Responders
        PROVE  AnsweringAs(u, resp[u])'
    <3>1. CASE u = t
      <4>1. ASSUME NEW d \in acted', d.alert = r.alert
            PROVE  /\ HasRow(d)' \/ d.action = Head(r.todo)
                   /\ \A n \in DOMAIN Tail(r.todo) : Tail(r.todo)[n] # d.action
        <5>1. CASE d = e
          BY <1>5, <1>6, <1>12, <5>1
        <5>2. CASE d \in acted
          <6>1. HasRow(d)' /\ \A n \in DOMAIN r.todo : r.todo[n] # d.action
            BY <1>4, <1>15, <4>1, <5>2
          <6>2. \A n \in DOMAIN Tail(r.todo) :
                  n + 1 \in DOMAIN r.todo /\ Tail(r.todo)[n] = r.todo[n + 1]
            BY <1>4, AfterFacts
          <6> QED BY <6>1, <6>2
        <5> QED BY <1>7, <4>1, <5>1, <5>2
      <4>2. resp'[u] = nx /\ incoming' = incoming
        BY <1>1, <1>11, <3>1 DEF responseOnly
      <4> QED BY <1>4, <1>9, <3>1, <4>1, <4>2 DEF AnsweringAs
    <3>2. CASE u # t
      <4>1. PICK s : s = resp[u]
        OBVIOUS
      <4>2. AnsweringAs(u, s) /\ (s = Free \/ s \in Begun)
        BY <1>1, <4>1 DEF ActedInv, EngineTypes
      <4>3. s # Free => s.alert # r.alert
        BY <1>4, <3>2, <4>2 DEF AnsweringAs, Responders
      <4>4. AnsweringAs(u, s)'
        <5>1. ASSUME s # Free, NEW d \in acted', d.alert = s.alert
              PROVE  d \in acted
          BY <1>6, <1>7, <4>3, <5>1
        <5>2. incoming' = incoming
          BY <1>1 DEF responseOnly
        <5> QED BY <1>15, <4>2, <5>1, <5>2 DEF AnsweringAs
      <4>5. resp'[u] = s
        BY <1>11, <3>2, <4>1
      <4> QED BY <4>4, <4>5 DEF AnsweringAs
    <3> QED BY <3>1, <3>2
  <2>2. \A c, d \in acted' : c.alert = d.alert /\ c.action = d.action => c = d
    BY <1>1, <1>7, <1>13 DEF ActedInv
  <2>3. \A d \in acted' : d.alert \notin incoming'
    BY <1>1, <1>4, <1>6, <1>7 DEF ActedInv, responseOnly
  <2> QED BY <2>1, <2>2, <2>3 DEF ActedInv
<1>17. LostInv'
  <2>1. Lost' \subseteq Lost
    <3> SUFFICES ASSUME NEW d \in Lost'
                 PROVE  d \in Lost
      OBVIOUS
    <3>1. /\ d \in acted' /\ ~HasRow(d)'
          /\ \A u \in Responders : ~(resp'[u].at = "executing" /\ resp'[u].alert = d.alert)
      BY DEF Lost
    <3>2. d # e
      BY <1>6, <1>9, <1>11, <3>1
    <3>3. \A u \in Responders : ~(resp[u].at = "executing" /\ resp[u].alert = d.alert)
      BY <1>4, <1>3, <1>11, <3>1
    <3> QED BY <1>7, <1>15, <3>1, <3>2, <3>3 DEF Lost
  <2>2. faults' \in Nat /\ faults' >= faults
    OBVIOUS
  <2> QED BY <1>1, <2>1, <2>2, LostKeeps
<1>18. PushInv'
  BY <1>1, PushKeeps DEF EngineInv, responseOnly
<1> QED BY <1>14, <1>16, <1>17, <1>18 DEF EngineInv

-----------------------------------------------------------------------------
(* The steps that are not of a response. *)

\* Every step has at most one fault.
LEMMA FaultsGrow ==
  ASSUME faults \in Nat
  PROVE  /\ \A t, op, x : Operation(t, op, x) => faults' \in {faults, faults + 1}
         /\ \A t : ControlStep(t) => faults' \in {faults, faults + 1}
         /\ Tick => faults' = faults
<1>1. ASSUME NEW t, NEW op, NEW x, Operation(t, op, x)
      PROVE  faults' \in {faults, faults + 1}
  <2>1. CASE NetworkCall(t, op, x)
    BY <2>1 DEF NetworkCall
  <2>2. CASE SinkholeCall(t, op, x)
    BY <2>2 DEF SinkholeCall
  <2>3. CASE QuarantineCall(t, op, x)
    BY <2>3 DEF QuarantineCall
  <2>4. CASE ProcessCall(t, op, x)
    <3>1. UNCHANGED faults \/ Fault
      BY <2>4 DEF ProcessCall
    <3> QED BY <3>1 DEF Fault
  <2> QED BY <1>1, <2>1, <2>2, <2>3, <2>4 DEF Operation
<1>2. ASSUME NEW t, ControlStep(t)
      PROVE  faults' \in {faults, faults + 1}
  <2>1. CASE RunCommand(t)
    <3>1. UNCHANGED faults \/ Fault
      BY <2>1 DEF RunCommand
    <3> QED BY <3>1 DEF Fault
  <2>2. CASE FinishIsolation(t) \/ FinishBlocking(t) \/ FinishPanic(t)
    BY <2>2 DEF FinishIsolation, FinishBlocking, FinishPanic
  <2>3. CASE WriteHosts(t)
    <3>1. UNCHANGED faults \/ Fault
      BY <2>3 DEF WriteHosts
    <3> QED BY <3>1 DEF Fault
  <2>4. CASE MoveFile(t)
    <3>1. UNCHANGED faults \/ Fault
      BY <2>4 DEF MoveFile
    <3> QED BY <3>1 DEF Fault
  <2>5. CASE RecordFile(t)
    <3>1. UNCHANGED faults \/ Fault
      BY <2>5 DEF RecordFile
    <3> QED BY <3>1 DEF Fault
  <2> QED BY <1>2, <2>1, <2>2, <2>3, <2>4, <2>5 DEF ControlStep
<1>3. Tick => faults' = faults
  BY DEF Tick
<1> QED BY <1>1, <1>2, <1>3

\* A step that begins and ends no response.
LEMMA ResponsesStandBy ==
  ASSUME EngineInv, faults \in Nat, faults' \in {faults, faults + 1},
         UNCHANGED <<incoming, resp, acted>>,
         \A e : HasRow(e) => HasRow(e)', EngineTypes', PushInv'
  PROVE  EngineInv'
<1>1. EngineTypes /\ ActedInv /\ LostInv
  BY DEF EngineInv
<1>2. ActedInv'
  <2>1. ASSUME NEW t \in Responders
        PROVE  AnsweringAs(t, resp[t])'
    <3>1. PICK r : r = resp[t]
      OBVIOUS
    <3>2. AnsweringAs(t, r)
      BY <1>1, <3>1 DEF ActedInv
    <3>3. AnsweringAs(t, r)'
      BY <3>2 DEF AnsweringAs
    <3>4. resp'[t] = r
      BY <3>1
    <3> QED BY <3>3, <3>4 DEF AnsweringAs
  <2> QED BY <1>1, <2>1 DEF ActedInv
<1>3. Lost' \subseteq Lost
  BY DEF Lost
<1>4. faults' \in Nat /\ faults' >= faults
  OBVIOUS
<1>5. LostInv'
  BY <1>1, <1>3, <1>4, LostKeeps
<1> QED BY <1>2, <1>5 DEF EngineInv

LEMMA EngineStandsStill ==
  ASSUME EngineInv, faults \in Nat, faults' \in {faults, faults + 1},
         UNCHANGED <<scenario, mode, settings, modeFile, push, incoming, resp, rows, acted, unsaved>>
  PROVE  EngineInv'
<1>1. \A e : HasRow(e) => HasRow(e)'
  BY DEF HasRow
<1>2. EngineTypes'
  BY DEF EngineInv, EngineTypes
<1>3. PushInv'
  BY PushKeeps DEF EngineInv
<1> QED BY <1>1, <1>2, <1>3, ResponsesStandBy

\* A response that begins, or ends, in the thread t.
LEMMA RaiseWith ==
  ASSUME EngineInv, faults \in Nat, faults' \in {faults, faults + 1}, incoming' \subseteq incoming,
         UNCHANGED <<scenario, mode, settings, modeFile, push, rows, acted, unsaved>>,
         NEW t \in Responders, resp[t].at # "executing", NEW nx, nx = Free \/ nx \in Begun,
         resp' = [resp EXCEPT ![t] = nx], AnsweringAs(t, nx)'
  PROVE  EngineInv'
<1>1. EngineTypes /\ ActedInv /\ LostInv
  BY DEF EngineInv
<1>2. \A e : HasRow(e) => HasRow(e)'
  BY DEF HasRow
<1>3. /\ ActedInv' /\ resp' = [u \in Responders |-> resp'[u]]
      /\ \A u \in Responders : resp'[u] = Free \/ resp'[u] \in Begun
      /\ \A u \in Responders : resp'[u] = IF u = t THEN nx ELSE resp[u]
  BY <1>1, <1>2, ActedStep
<1>4. Lost' \subseteq Lost
  BY <1>2, <1>3, LostStep
<1>5. LostInv'
  <2>1. faults' \in Nat /\ faults' >= faults
    OBVIOUS
  <2> QED BY <1>1, <1>4, <2>1, LostKeeps
<1>6. EngineTypes'
  BY <1>1, <1>3 DEF EngineTypes
<1>7. PushInv'
  BY PushKeeps DEF EngineInv
<1> QED BY <1>3, <1>5, <1>6, <1>7 DEF EngineInv

LEMMA RaiseStep == EngineInv /\ faults \in Nat /\ Raise => EngineInv'
<1> SUFFICES ASSUME EngineInv, faults \in Nat, Raise
             PROVE  EngineInv'
  OBVIOUS
<1>0. /\ EngineTypes /\ ActedInv /\ Processor \in Responders /\ Analyzer \in Responders
      /\ Processor # Analyzer
  BY EngineAssumption DEF EngineInv, Responders
<1>1. ASSUME NEW f \in incoming, NEW t \in Responders, resp[t] = Free, f \in FastHits <=> t = Processor,
             incoming' = incoming \ {f}, resp' = [resp EXCEPT ![t] = Begin(f)],
             UNCHANGED <<scenario, mode, settings, modeFile, push, rows, acted, unsaved, faults>>
      PROVE  EngineInv'
  <2>1. PICK nx : nx = Begin(f)
    OBVIOUS
  <2>2. f \in Alerts /\ \A e \in acted : e.alert # f
    BY <1>0, <1>1 DEF EngineTypes, ActedInv
  <2>3. nx \in Begun /\ nx.alert = f /\ nx.at = "learning"
    BY <2>1, <2>2 DEF Begin, Begun
  <2>4. AnsweringAs(t, nx)'
    BY <1>1, <2>2, <2>3 DEF AnsweringAs
  <2>5. resp[t].at # "executing"
    BY <1>1 DEF Free
  <2>6. resp' = [resp EXCEPT ![t] = nx] /\ incoming' \subseteq incoming /\ faults' \in {faults, faults + 1}
    BY <1>1, <2>1
  <2> QED BY <1>1, <2>3, <2>4, <2>5, <2>6, RaiseWith
<1>2. ASSUME NEW t \in Responders, resp[t].at = "end", resp' = [resp EXCEPT ![t] = Free],
             incoming' \subseteq incoming, faults' \in {faults, faults + 1},
             UNCHANGED <<scenario, mode, settings, modeFile, push, rows, acted, unsaved>>
      PROVE  EngineInv'
  <2>1. PICK nx : nx = Free
    OBVIOUS
  <2>2. AnsweringAs(t, nx)'
    BY <2>1 DEF AnsweringAs
  <2>3. resp' = [resp EXCEPT ![t] = nx] /\ (nx = Free \/ nx \in Begun) /\ resp[t].at # "executing"
    BY <1>2, <2>1
  <2> QED BY <1>2, <2>2, <2>3, RaiseWith
<1>3. ASSUME NEW f \in Alerts, FastPath(f)
      PROVE  EngineInv'
  <2>1. CASE resp' = [resp EXCEPT ![Processor] = Begin(f)] /\ UNCHANGED faults
    BY <1>0, <1>1, <1>3, <2>1 DEF FastPath
  <2>2. CASE Fault /\ UNCHANGED resp
    <3>1. PICK r : r = resp[Processor]
      OBVIOUS
    <3>2. r = Free /\ resp' = [resp EXCEPT ![Processor] = r] /\ faults' \in {faults, faults + 1}
      BY <1>0, <1>3, <2>2, <3>1 DEF FastPath, EngineTypes, Fault
    <3>3. AnsweringAs(Processor, r)' /\ resp[Processor].at # "executing"
      BY <3>1, <3>2 DEF AnsweringAs, Free
    <3>4. /\ UNCHANGED <<scenario, mode, settings, modeFile, push, rows, acted, unsaved>>
          /\ incoming' \subseteq incoming
      BY <1>3 DEF FastPath
    <3> QED BY <1>0, <3>2, <3>3, <3>4, RaiseWith
  <2> QED BY <1>3, <2>1, <2>2 DEF FastPath
<1>4. ASSUME NEW f \in Alerts, Analyze(f)
      PROVE  EngineInv'
  BY <1>0, <1>1, <1>4 DEF Analyze
<1>5. CASE EndAnalysis
  <2>1. faults' \in {faults, faults + 1} /\ incoming' \subseteq incoming
    <3>1. UNCHANGED <<incoming, faults>> \/ (Fault /\ incoming' = incoming \intersect FastHits)
      BY <1>5 DEF EndAnalysis
    <3> QED BY <3>1 DEF Fault
  <2> QED BY <1>0, <1>2, <1>5, <2>1 DEF EndAnalysis
<1>6. CASE EndFastPath
  BY <1>0, <1>2, <1>6 DEF EndFastPath
<1> QED BY <1>3, <1>4, <1>5, <1>6 DEF Raise

\* A handler's decision changes the status of a row.
LEMMA DecideStep ==
  ASSUME EngineInv, faults \in Nat, NEW r \in DOMAIN rows, NEW verdict \in {"approved", "denied"},
         Decide(r, verdict) \/ Decided(r, verdict)
  PROVE  EngineInv'
<1>1. CASE Decide(r, verdict)
  BY <1>1, EngineStandsStill DEF Decide
<1>2. CASE Decided(r, verdict)
  <2>1. rows \in Seq(AuditRows)
    BY DEF EngineInv, EngineTypes
  <2>2. PICK row : row = [rows[r] EXCEPT !.status = verdict]
    OBVIOUS
  <2>3. rows' = [rows EXCEPT ![r] = row]
    BY <1>2, <2>2 DEF Decided
  <2>4. rows[r] \in AuditRows
    BY <2>1
  <2>5. row \in AuditRows /\ row.alert = rows[r].alert /\ row.action = rows[r].action
    BY <2>2, <2>4 DEF AuditRows
  <2>6. rows' \in Seq(AuditRows) /\ DOMAIN rows' = DOMAIN rows
        /\ \A i \in DOMAIN rows : rows'[i].alert = rows[i].alert /\ rows'[i].action = rows[i].action
    BY <2>1, <2>3, <2>5
  <2>7. \A e : HasRow(e) => HasRow(e)'
    BY <2>6 DEF HasRow
  <2>8. EngineTypes'
    BY <1>2, <2>6 DEF EngineInv, EngineTypes, Decided
  <2>9. PushInv'
    BY <1>2, PushKeeps DEF EngineInv, Decided
  <2>10. UNCHANGED <<incoming, resp, acted, faults>>
    BY <1>2 DEF Decided
  <2> QED BY <2>7, <2>8, <2>9, <2>10, ResponsesStandBy
<1> QED BY <1>1, <1>2

\* The mode is set, or a push goes on.
LEMMA PushStep ==
  ASSUME EngineInv, faults \in Nat,
         \/ \E m \in Modes : SetMode(m)
         \/ \E m \in Modes, auto \in BOOLEAN : PushConfig(m, auto)
         \/ PushToEngine \/ PersistMode \/ PushAuto
  PROVE  EngineInv'
<1>1. EngineTypes /\ PushInv
  BY DEF EngineInv
<1>2. /\ UNCHANGED <<incoming, resp, acted, rows>>
      /\ UNCHANGED faults \/ Fault
  BY DEF SetMode, PushConfig, PushToEngine, PersistMode, PushAuto
<1>3. faults' \in {faults, faults + 1} /\ \A e : HasRow(e) => HasRow(e)'
  BY <1>2 DEF Fault, HasRow
<1>4. ASSUME EngineTypes', PushInv'
      PROVE  EngineInv'
  BY <1>2, <1>3, <1>4, ResponsesStandBy
<1>5. CASE \E m \in Modes : SetMode(m)
  <2>1. EngineTypes'
    BY <1>1, <1>5 DEF EngineTypes, SetMode
  <2>2. PushInv'
    BY <1>1, <1>5, PushKeeps DEF SetMode
  <2> QED BY <1>4, <2>1, <2>2
<1>6. CASE \E m \in Modes, auto \in BOOLEAN : PushConfig(m, auto)
  <2>1. PICK m \in Modes, auto \in BOOLEAN : PushConfig(m, auto)
    BY <1>6
  <2>2. PICK at \in {"engine", "auto"} : /\ push' = [mode |-> m, auto |-> auto, at |-> at]
                                         /\ at = "auto" => settings.mode = m
    BY <2>1 DEF PushConfig
  <2>3. /\ push = NoPush /\ settings' = [settings EXCEPT !.mode = m]
        /\ UNCHANGED <<scenario, mode, modeFile, incoming, resp, rows, acted, unsaved>>
    BY <2>1 DEF PushConfig
  <2>4. settings' \in [mode : ValidModes \union Modes, auto : BOOLEAN] /\ settings'.mode = m
        /\ (settings.mode = m => settings' = settings)
    BY <1>1, <2>3 DEF EngineTypes
  <2>5. EngineTypes'
    BY <1>1, <2>2, <2>3, <2>4 DEF EngineTypes
  <2>6. PushInv'
    <3>1. push.at = "none"
      BY <2>3 DEF NoPush
    <3>2. push'.at = at /\ push'.mode = m
      BY <2>2
    <3>3. Restored' = Restored
      BY <2>3 DEF Restored, config
    <3> QED BY <1>1, <2>2, <2>3, <2>4, <3>1, <3>2, <3>3 DEF PushInv
  <2> QED BY <1>4, <2>5, <2>6
<1>7. ASSUME PushToEngine \/ PersistMode \/ PushAuto
      PROVE  push \in [mode : Modes, auto : BOOLEAN, at : {"engine", "file", "auto"}]
  <2>1. push.at # "none"
    BY <1>7 DEF PushToEngine, PersistMode, PushAuto
  <2> QED BY <1>1, <2>1 DEF EngineTypes, NoPush
<1>8. CASE PushToEngine
  <2>1. PICK at \in {"file", "auto"} : /\ push' = [push EXCEPT !.at = at]
                                       /\ (at = "file") <=> (push.mode \in ValidModes)
    BY <1>8 DEF PushToEngine
  <2>2. push' \in [mode : Modes, auto : BOOLEAN, at : {"engine", "file", "auto"}]
        /\ push'.at = at /\ push'.mode = push.mode
    <3>1. PICK p \in [mode : Modes, auto : BOOLEAN, at : {"engine", "file", "auto"}] : p = push
      BY <1>7, <1>8
    <3>2. push' = [p EXCEPT !.at = at]
      BY <2>1, <3>1
    <3> QED BY <3>1, <3>2
  <2>3. mode' \in ValidModes
    BY <1>1, <1>8 DEF PushToEngine, EngineTypes
  <2>4. EngineTypes'
    BY <1>1, <1>8, <2>2, <2>3 DEF EngineTypes, PushToEngine
  <2>5. settings.mode = push.mode /\ UNCHANGED settings
    BY <1>1, <1>8 DEF PushInv, PushToEngine
  <2>6. PushInv'
    BY <2>1, <2>2, <2>5 DEF PushInv
  <2> QED BY <1>4, <2>4, <2>6
<1>9. CASE PersistMode
  <2>1. push' \in [mode : Modes, auto : BOOLEAN, at : {"engine", "file", "auto"}]
        /\ push'.at = "auto" /\ push'.mode = push.mode /\ push.mode \in Modes
    BY <1>7, <1>9 DEF PersistMode
  <2>2. /\ settings.mode = push.mode /\ settings' = settings
        /\ push.mode \in ValidModes
    BY <1>1, <1>9 DEF PushInv, PersistMode
  <2>3. EngineTypes'
    BY <1>1, <1>9, <2>1, <2>2 DEF EngineTypes, PersistMode
  <2>4. ~unsaved' => modeFile' = push.mode
    BY <1>9 DEF PersistMode
  <2>5. push.mode # None
    BY <2>1, EngineAssumption
  <2>6. PushInv'
    BY <2>1, <2>2, <2>4, <2>5 DEF PushInv, Restored
  <2> QED BY <1>4, <2>3, <2>6
<1>10. CASE PushAuto
  <2>1. settings' \in [mode : ValidModes \union Modes, auto : BOOLEAN]
        /\ settings'.mode = settings.mode
    BY <1>1, <1>7, <1>10 DEF EngineTypes, PushAuto
  <2>2. EngineTypes'
    BY <1>1, <1>10, <2>1 DEF EngineTypes, PushAuto
  <2>3. push.at = "auto" /\ push' = NoPush /\ push'.at = "none"
    BY <1>10 DEF PushAuto, NoPush
  <2>4. Restored' = Restored /\ unsaved' = unsaved
    BY <1>10 DEF PushAuto, Restored, config
  <2>5. PushInv'
    BY <1>1, <2>1, <2>3, <2>4 DEF PushInv
  <2> QED BY <1>4, <2>2, <2>5
<1> QED BY <1>5, <1>6, <1>8, <1>9, <1>10

LEMMA OperateStep == EngineInv /\ faults \in Nat /\ Operate => EngineInv'
<1> SUFFICES ASSUME EngineInv, faults \in Nat, Operate
             PROVE  EngineInv'
  OBVIOUS
<1>1. CASE \E r \in DOMAIN rows, verdict \in {"approved", "denied"} :
             Decide(r, verdict) \/ Decided(r, verdict)
  BY <1>1, DecideStep
<1>2. CASE \/ \E m \in Modes : SetMode(m)
           \/ \E m \in Modes, auto \in BOOLEAN : PushConfig(m, auto)
           \/ PushToEngine \/ PersistMode \/ PushAuto
  BY <1>2, PushStep
<1> QED BY <1>1, <1>2 DEF Operate

\* A restart cuts off at most one action of each thread.
LEMMA RestartStep == EngineInv /\ faults \in Nat /\ EngineRestart => EngineInv'
<1> SUFFICES ASSUME EngineInv, faults \in Nat, EngineRestart
             PROVE  EngineInv'
  OBVIOUS
<1>1. /\ EngineTypes /\ ActedInv /\ LostInv
      /\ faults' = faults + 1
      /\ settings' = [config EXCEPT !.mode = Restored]
      /\ mode' = Restored /\ unsaved' = FALSE
      /\ push' = NoPush /\ resp' = [t \in Responders |-> Free]
      /\ UNCHANGED <<scenario, modeFile, incoming, rows, acted>>
  BY DEF EngineInv, EngineRestart, ControlsRestart, Fault
<1>2. scenario \in Scenarios /\ config \in [mode : ValidModes, auto : BOOLEAN]
  BY <1>1, EngineAssumption DEF EngineTypes, config
<1>3. Restored \in ValidModes /\ Restored' = Restored
  BY <1>1, <1>2 DEF Restored, config, EngineTypes
<1>4. settings' \in [mode : ValidModes \union Modes, auto : BOOLEAN] /\ settings'.mode = Restored
  BY <1>1, <1>2, <1>3
<1>5. \A t \in Responders : resp'[t] = Free
  BY <1>1
<1>6. EngineTypes'
  <2>1. resp' = [t \in Responders |-> resp'[t]]
    BY <1>1, <1>5
  <2> QED BY <1>1, <1>3, <1>4, <1>5, <2>1 DEF EngineTypes
<1>7. PushInv'
  <2>1. push'.at = "none"
    BY <1>1 DEF NoPush
  <2> QED BY <1>3, <1>4, <2>1 DEF PushInv
<1>8. ActedInv'
  BY <1>1, <1>5 DEF ActedInv, AnsweringAs
<1>9. LostInv'
  <2>0. \A t \in Responders : AnsweringAs(t, resp[t])
    BY <1>1 DEF ActedInv
  <2> DEFINE CutOff(t) == {e \in acted : e.alert = resp[t].alert /\ e.action = Head(resp[t].todo)}
             S == CutOff(Processor)
             T == CutOff(Analyzer)
  <2>1. /\ \A a, b \in S : a = b
        /\ \A a, b \in T : a = b
    BY <1>1 DEF ActedInv
  <2>2. Lost' \subseteq (Lost \union S) \union T
    <3> SUFFICES ASSUME NEW e \in acted, e \notin Lost, ~HasRow(e)
                 PROVE  e \in S \union T
      BY <1>1 DEF Lost, HasRow
    <3>1. PICK t \in Responders : resp[t].at = "executing" /\ resp[t].alert = e.alert
      BY DEF Lost
    <3>2. resp[t] # Free
      BY <3>1 DEF Free
    <3>3. e.action = Head(resp[t].todo)
      BY <2>0, <3>1, <3>2 DEF AnsweringAs
    <3> QED BY <3>1, <3>3 DEF Responders
  <2> HIDE DEF S, T
  <2> QED BY <1>1, <2>1, <2>2, LostGrows
<1> QED BY <1>6, <1>7, <1>8, <1>9 DEF EngineInv

\* What an action is executed on is what the control takes.
LEMMA ExecutesCallable ==
  ASSUME NEW f \in Alerts, NEW action \in {"suspend", "block"}, NEW x, x = ObjectOf(f, action), x # None
  PROVE  <<action, x>> \in Callable
<1>1. Evidence[f] # <<>>
  BY DEF ObjectOf, Target
<1>2. /\ Head(Evidence[f]).pid \in Pids \union {None}
      /\ Head(Evidence[f]).ip \in Addresses \union {None}
  BY <1>1, EngineAssumption
<1>3. CASE action = "suspend"
  <2>1. x = Head(Evidence[f]).pid
    BY <1>1, <1>3 DEF ObjectOf, Target
  <2> QED BY <1>2, <1>3, <2>1 DEF Callable, ProcessOps
<1>4. CASE action = "block"
  <2>1. x = Head(Evidence[f]).ip
    BY <1>1, <1>4 DEF ObjectOf, Target
  <2> QED BY <1>2, <1>4, <2>1 DEF Callable
<1> QED BY <1>3, <1>4

LEMMA RespondStep ==
  ASSUME ControlsInv, EngineInv, NEW t \in Responders, Respond(t)
  PROVE  ControlsInv' /\ EngineInv'
<1>1. ControlTypes /\ EngineTypes /\ faults \in Nat /\ t \in Callers
  BY EngineAssumption DEF ControlsInv, EngineInv, ControlTypes, Responders
<1>2. CASE ExecuteAction(t) /\ UNCHANGED <<platform, calls, called>>
  <2>1. PICK f, action, x : /\ f = resp[t].alert /\ action = Head(resp[t].todo)
                            /\ x = ObjectOf(f, action) /\ x # None
                            /\ action \in {"suspend", "block"} /\ Operation(t, action, x)
    BY <1>2 DEF ExecuteAction
  <2>2. f \in Alerts
    <3>1. resp[t].at = "act"
      BY <1>2 DEF ExecuteAction
    <3> QED BY <1>1, <2>1, <3>1 DEF EngineTypes, Free, Begun
  <2>3. <<action, x>> \in Callable
    BY <2>1, <2>2, ExecutesCallable
  <2>4. ControlsInv'
    BY <1>1, <1>2, <2>1, <2>3, OperationStep
  <2>5. faults' \in {faults, faults + 1}
    BY <1>1, <2>1, FaultsGrow
  <2> QED BY <1>1, <1>2, <2>4, <2>5, ExecuteStep
<1>3. CASE /\ CheckLearning(t) \/ CheckRules(t) \/ RecordAction(t) \/ RecordOutcome(t)
           /\ UNCHANGED controlsButFaults
  <2>1. EngineInv'
    BY <1>1, <1>3, LearningStep, RecordActionStep
  <2>2. faults' \in Nat
    <3>1. \A row, nx : Record(t, row, nx) => faults' \in Nat
      BY <1>1 DEF Record, Fault
    <3>2. \/ UNCHANGED faults
          \/ \E row, nx : Record(t, row, nx)
      <4>1. CASE CheckLearning(t)
        BY <4>1 DEF CheckLearning
      <4>2. CASE CheckRules(t)
        <5> DEFINE f == resp[t].alert
                   c1 == mode = "active" /\ f \in Allowed \ Blocked
                   c2 == mode = "active" /\ f \notin Allowed \union Blocked /\ Baselined(f)
        <5>1. CASE c1
          BY <4>2, <5>1 DEF CheckRules
        <5>2. CASE c2 /\ ~c1
          BY <4>2, <5>2 DEF CheckRules
        <5>3. CASE ~c1 /\ ~c2
          BY <4>2, <5>3 DEF CheckRules
        <5> QED BY <5>1, <5>2, <5>3
      <4>3. CASE RecordAction(t)
        BY <4>3 DEF RecordAction
      <4>4. CASE RecordOutcome(t)
        BY <4>4 DEF RecordOutcome
      <4> QED BY <1>3, <4>1, <4>2, <4>3, <4>4
    <3> QED BY <1>1, <3>1, <3>2
  <2>3. now' \in Nat
    BY <1>1, <1>3 DEF controlsButFaults, fileVars, ControlTypes
  <2>4. ControlsInv'
    BY <1>3, <2>2, <2>3, ControlsStandStill DEF controlsButFaults, fileVars
  <2> QED BY <2>1, <2>4
<1> QED BY <1>2, <1>3 DEF Respond

LEMMA EngineInitially == EngineInit => ControlsInv /\ EngineInv
<1> SUFFICES ASSUME EngineInit
             PROVE  ControlsInv /\ EngineInv
  OBVIOUS
<1>1. ControlsInv /\ faults = 0
  BY ControlsInitially DEF EngineInit, ControlsInit
<1>2. scenario \in Scenarios /\ config \in [mode : ValidModes, auto : BOOLEAN]
      /\ scenario.alerts \subseteq Alerts
  BY EngineAssumption DEF EngineInit, config
<1>3. acted = {} /\ IsFiniteSet(acted) /\ Cardinality({}) = 0
  BY FS_EmptySet DEF EngineInit
<1>4. \A t \in Responders : resp[t] = Free
  BY DEF EngineInit
<1>5. EngineTypes
  BY <1>2, <1>3, <1>4 DEF EngineInit, EngineTypes
<1>6. PushInv
  <2>1. push.at = "none" /\ Restored = settings.mode
    BY DEF EngineInit, NoPush, Restored
  <2> QED BY <2>1 DEF PushInv
<1>7. ActedInv
  BY <1>3, <1>4 DEF ActedInv, AnsweringAs
<1>8. LostInv
  <2>1. Lost = {}
    BY <1>3 DEF Lost
  <2> QED BY <1>1, <1>3, <2>1 DEF LostInv
<1> QED BY <1>1, <1>5, <1>6, <1>7, <1>8 DEF EngineInv

LEMMA EngineStep ==
  ControlsInv /\ EngineInv /\ [EngineNext]_<<controlVars, engineVars>> => ControlsInv' /\ EngineInv'
<1> SUFFICES ASSUME ControlsInv, EngineInv, [EngineNext]_<<controlVars, engineVars>>
             PROVE  ControlsInv' /\ EngineInv'
  OBVIOUS
<1>1. faults \in Nat /\ now \in Nat
  BY DEF ControlsInv, ControlTypes
<1>2. ASSUME faults' \in {faults, faults + 1}, UNCHANGED engineVars
      PROVE  EngineInv'
  BY <1>1, <1>2, EngineStandsStill DEF engineVars
<1>3. ASSUME faults' \in Nat, UNCHANGED controlsButFaults
      PROVE  ControlsInv'
  <2>1. now' \in Nat
    BY <1>1, <1>3 DEF controlsButFaults, fileVars
  <2> QED BY <1>3, <2>1, ControlsStandStill DEF controlsButFaults, fileVars
<1>4. CASE UNCHANGED <<controlVars, engineVars>>
  <2>1. UNCHANGED <<controlsButFaults, faults, engineVars>>
    BY <1>4 DEF controlVars, controlsButFaults
  <2> QED BY <1>1, <1>2, <1>3, <2>1
<1>5. CASE \E t \in Responders : Respond(t)
  BY <1>5, RespondStep
<1>6. CASE Operate
  <2>1. EngineInv'
    BY <1>1, <1>6, OperateStep
  <2>2. faults' \in Nat /\ UNCHANGED controlsButFaults
    <3>1. UNCHANGED faults \/ Fault
      BY <1>6 DEF Operate, SetMode, Decide, Decided, PushConfig, PushToEngine, PersistMode, PushAuto
    <3> QED BY <1>1, <1>6, <3>1 DEF Operate, Fault
  <2> QED BY <1>3, <2>1, <2>2
<1>7. CASE Raise
  <2>1. EngineInv'
    BY <1>1, <1>7, RaiseStep
  <2>2. faults' \in Nat /\ UNCHANGED controlsButFaults
    <3>1. UNCHANGED faults \/ Fault
      BY <1>7 DEF Raise, FastPath, Analyze, EndAnalysis, EndFastPath
    <3> QED BY <1>1, <1>7, <3>1 DEF Raise, Fault
  <2> QED BY <1>3, <2>1, <2>2
<1>8. CASE Controls
  <2>1. CASE \E t \in Callers \ Responders : Call(t)
    <3>1. ControlsInv'
      BY <2>1, CallStep
    <3>2. faults' \in {faults, faults + 1}
      BY <1>1, <2>1, FaultsGrow DEF Call
    <3> QED BY <1>2, <1>8, <3>1, <3>2 DEF Controls
  <2>2. CASE \E t \in Callers : ControlStep(t) /\ UNCHANGED <<platform, calls, called>>
    <3>1. ControlsInv'
      BY <2>2, ControlStepStep
    <3>2. faults' \in {faults, faults + 1}
      BY <1>1, <2>2, FaultsGrow
    <3> QED BY <1>2, <1>8, <3>1, <3>2 DEF Controls
  <2>3. CASE Tick /\ UNCHANGED <<platform, calls, called>>
    <3>1. ControlsInv'
      BY <2>3, TickStep
    <3>2. faults' \in {faults, faults + 1}
      BY <1>1, <2>3, FaultsGrow
    <3> QED BY <1>2, <1>8, <3>1, <3>2 DEF Controls
  <2> QED BY <1>8, <2>1, <2>2, <2>3 DEF Controls
<1>9. CASE EngineRestart
  BY <1>1, <1>9, RestartStep, ControlsRestartStep DEF EngineRestart
<1>10. CASE \E p \in Pids, name \in scenario.names : ReusePid(p, name)
  <2>1. /\ UNCHANGED <<scenario, mode, settings, modeFile, push, incoming, resp, rows, acted,
                       unsaved, faults>>
        /\ UNCHANGED <<platform, calls, firewallVars, hostsVars, fileVars, job, answer, clean>>
    BY <1>10 DEF ReusePid
  <2>2. EngineInv'
    BY <1>1, <2>1, EngineStandsStill
  <2>3. faults' \in Nat /\ now' \in Nat
    BY <1>1, <2>1 DEF fileVars
  <2>4. ControlsInv'
    BY <2>1, <2>3, ControlsStandStill DEF fileVars
  <2> QED BY <2>2, <2>4
<1> QED BY <1>4, <1>5, <1>6, <1>7, <1>8, <1>9, <1>10 DEF EngineNext

\* Whatever the threads, the operator, the fleet server and the restarts do, the
\* controls and the engine keep their invariants.
THEOREM EngineInvariant == EngineSpec => [](ControlsInv /\ EngineInv)
<1>1. EngineInit => ControlsInv /\ EngineInv
  BY EngineInitially
<1>2. (ControlsInv /\ EngineInv) /\ [EngineNext]_<<controlVars, engineVars>>
        => (ControlsInv /\ EngineInv)'
  BY EngineStep
<1> QED BY <1>1, <1>2, PTL DEF EngineSpec

-----------------------------------------------------------------------------
(* The modes that an alert is looked at in. *)

\* What ModeIsObeyed says of an alert that is acted on.
Obeyed(f) ==
  /\ heard[f] # {"learning"}
  /\ heard[f] = {"active"} => f \in Blocked \/ f \notin Allowed \union familiar

\* Of the alert of a thread in the state r: until its rules have been checked, the mode
\* in force is among those heard; then one that was heard has decided.
HeardAs(r) ==
  /\ r.at \in {"learning", "rules"} => mode \in heard[r.alert]
  /\ r.at = "rules" => \E m \in heard[r.alert] : m # "learning"
  /\ r.at \in {"act", "executing"} => Obeyed(r.alert)

HeardInv ==
  /\ heard = [f \in Alerts |-> heard[f]]
  /\ familiar \subseteq Alerts
  /\ \A f \in familiar : Baselined(f)
  /\ \A t \in Responders : HeardAs(resp[t])
  /\ \A e \in acted : Obeyed(e.alert)

LEMMA HeardKeeps ==
  ASSUME NEW r, HeardAs(r), mode' = mode, heard'[r.alert] = heard[r.alert],
         r.alert \in familiar' <=> r.alert \in familiar
  PROVE  HeardAs(r)'
BY DEF HeardAs, Obeyed

\* Nothing that was learned is forgotten.
LEMMA BaselineKeeps ==
  ASSUME NEW f, Baselined(f), learned \subseteq learned'
  PROVE  Baselined(f)'
BY DEF Baselined, Behaviours, Target

\* A step that no mode, and no alert raised, is heard in.
LEMMA HeardStep ==
  ASSUME HeardInv, UNCHANGED <<mode, heard, familiar>>, learned \subseteq learned',
         \A t \in Responders : HeardAs(resp'[t]),
         \A e \in acted' : e \in acted \/ Obeyed(e.alert)
  PROVE  HeardInv'
<1>1. ASSUME NEW t \in Responders
      PROVE  HeardAs(resp[t])'
  <2>1. PICK r : r = resp'[t]
    OBVIOUS
  <2>2. HeardAs(r)
    BY <2>1
  <2>3. HeardAs(r)'
    BY <2>2, HeardKeeps
  <2> QED BY <2>1, <2>3 DEF HeardAs
<1>2. ASSUME NEW e \in acted'
      PROVE  Obeyed(e.alert)'
  BY DEF HeardInv, Obeyed
<1>3. \A f \in familiar' : Baselined(f)'
  BY BaselineKeeps DEF HeardInv
<1> QED BY <1>1, <1>2, <1>3 DEF HeardInv

LEMMA OneHears ==
  ASSUME EngineTypes, HeardInv, NEW t \in Responders, NEW nx, resp' = [resp EXCEPT ![t] = nx],
         HeardAs(nx)
  PROVE  \A u \in Responders : HeardAs(resp'[u])
<1> TAKE u \in Responders
<1>1. resp'[u] = IF u = t THEN nx ELSE resp[u]
  BY DEF EngineTypes
<1>2. PICK r : r = resp[u]
  OBVIOUS
<1>3. HeardAs(r)
  BY <1>2 DEF HeardInv
<1>4. resp'[u] = nx \/ resp'[u] = r
  BY <1>1, <1>2
<1> QED BY <1>3, <1>4

LEMMA RecordHeard ==
  ASSUME EngineTypes, HeardInv, NEW t \in Responders, resp[t] \in Begun, NEW row, NEW nx,
         Record(t, row, nx), HeardAs(nx)
  PROVE  \A u \in Responders : HeardAs(resp'[u])
<1>1. CASE resp' = [resp EXCEPT ![t] = nx]
  BY <1>1, OneHears
<1>2. CASE resp' = [resp EXCEPT ![t] = [@ EXCEPT !.at = "end", !.todo = <<>>]]
  <2>1. PICK end : end = [resp[t] EXCEPT !.at = "end", !.todo = <<>>]
    OBVIOUS
  <2>2. end.at = "end" /\ resp' = [resp EXCEPT ![t] = end]
    BY <1>2, <2>1 DEF Begun
  <2>3. HeardAs(end)
    BY <2>2 DEF HeardAs
  <2> QED BY <2>2, <2>3, OneHears
<1> QED BY <1>1, <1>2 DEF Record

LEMMA RespondHeard ==
  ASSUME EngineInv, HeardInv, NEW t \in Responders,
         \/ CheckLearning(t) \/ CheckRules(t) \/ RecordAction(t) \/ RecordOutcome(t)
         \/ ExecuteAction(t)
  PROVE  HeardInv'
<1>1. /\ EngineTypes /\ ActedInv /\ UNCHANGED <<mode, heard, familiar>>
      /\ resp[t].at \in {"learning", "rules", "act", "executing"}
  BY DEF EngineInv, CheckLearning, CheckRules, RecordAction, RecordOutcome, ExecuteAction,
         responseOnly
<1>2. PICK r \in Begun : r = resp[t]
  BY <1>1 DEF EngineTypes, Free
<1>3. HeardAs(r) /\ AnsweringAs(t, r) /\ r # Free
  BY <1>1, <1>2 DEF HeardInv, ActedInv, Free
<1>4. ASSUME learned \subseteq learned', acted' = acted, \A u \in Responders : HeardAs(resp'[u])
      PROVE  HeardInv'
  BY <1>1, <1>4, HeardStep
<1>5. ASSUME learned \subseteq learned', acted' = acted, NEW row, NEW nx, nx.at = "end", Record(t, row, nx)
      PROVE  HeardInv'
  <2>1. HeardAs(nx)
    BY <1>5 DEF HeardAs
  <2> QED BY <1>1, <1>2, <1>4, <1>5, <2>1, RecordHeard
<1>6. CASE CheckLearning(t)
  <2>1. CASE mode = "learning"
    <3>1. PICK nx : nx = [r EXCEPT !.at = "end"]
      OBVIOUS
    <3>2. nx.at = "end" /\ Record(t, Row(r.alert, "log", "not_required", "learning"), nx)
      BY <1>2, <1>6, <2>1, <3>1 DEF CheckLearning, Begun
    <3>3. learned \subseteq learned' /\ acted' = acted
      BY <1>6, <2>1 DEF CheckLearning
    <3> QED BY <1>5, <3>2, <3>3
  <2>2. CASE mode # "learning"
    <3>1. PICK nx : nx = [r EXCEPT !.at = "rules"]
      OBVIOUS
    <3>2. nx.at = "rules" /\ nx.alert = r.alert /\ resp' = [resp EXCEPT ![t] = nx] /\ r.at = "learning"
      BY <1>2, <1>6, <2>2, <3>1 DEF CheckLearning, Begun
    <3>3. HeardAs(nx)
      BY <1>3, <2>2, <3>2 DEF HeardAs
    <3>4. learned' = learned /\ acted' = acted
      BY <1>6, <2>2 DEF CheckLearning
    <3> QED BY <1>1, <1>4, <3>2, <3>3, <3>4, OneHears
  <2> QED BY <2>1, <2>2
<1>7. CASE CheckRules(t)
  <2> DEFINE f == r.alert
             c1 == mode = "active" /\ f \in Allowed \ Blocked
             c2 == mode = "active" /\ f \notin Allowed \union Blocked /\ Baselined(f)
  <2>1. learned' = learned /\ acted' = acted /\ r.at = "rules"
    BY <1>2, <1>7 DEF CheckRules
  <2>2. CASE c1
    <3>1. PICK nx : nx = [r EXCEPT !.at = "end", !.allowed = TRUE]
      OBVIOUS
    <3>2. nx.at = "end" /\ Record(t, Row(f, "log", "not_required", "allowlisted"), nx)
      BY <1>2, <1>7, <2>2, <3>1 DEF CheckRules, Begun
    <3> QED BY <1>5, <2>1, <3>2
  <2>3. CASE c2 /\ ~c1
    <3>1. PICK nx : nx = [r EXCEPT !.at = "end"]
      OBVIOUS
    <3>2. nx.at = "end" /\ Record(t, Row(f, "log", "not_required", "baselined"), nx)
      BY <1>2, <1>7, <2>3, <3>1 DEF CheckRules, Begun
    <3> QED BY <1>5, <2>1, <3>2
  <2>4. CASE ~c1 /\ ~c2
    <3>1. PICK nx : nx = [r EXCEPT !.at = "act", !.todo = Actions(Severity[f])]
      OBVIOUS
    <3>2. nx.at = "act" /\ nx.alert = f
      BY <3>1 DEF Begun
    <3>3. resp' = [resp EXCEPT ![t] = nx]
      BY <1>2, <1>7, <2>4, <3>1 DEF CheckRules
    <3>4. Obeyed(f)
      <4>1. heard[f] # {"learning"} /\ mode \in heard[f]
        BY <1>3, <2>1 DEF HeardAs
      <4>2. f \in familiar => Baselined(f)
        BY DEF HeardInv
      <4> QED BY <2>4, <4>1, <4>2 DEF Obeyed
    <3>5. HeardAs(nx)
      BY <3>2, <3>4 DEF HeardAs
    <3> QED BY <1>1, <1>4, <2>1, <3>3, <3>5, OneHears
  <2> QED BY <2>2, <2>3, <2>4
<1>8. CASE RecordAction(t) \/ RecordOutcome(t)
  <2>1. PICK nx : nx = After(r)
    OBVIOUS
  <2>2. PICK row : Record(t, row, nx)
    BY <1>2, <1>8, <2>1 DEF RecordAction, RecordOutcome
  <2>3. r.at \in {"act", "executing"} /\ learned' = learned /\ acted' = acted
    BY <1>2, <1>8 DEF RecordAction, RecordOutcome
  <2>4. nx.alert = r.alert /\ nx.at \in {"act", "end"}
    BY <1>3, <2>1, <2>3, AfterFacts DEF AnsweringAs
  <2>5. HeardAs(nx)
    BY <1>3, <2>3, <2>4 DEF HeardAs
  <2> QED BY <1>1, <1>2, <1>4, <2>2, <2>3, <2>5, RecordHeard
<1>9. CASE ExecuteAction(t)
  <2>1. PICK nx : nx = [r EXCEPT !.at = "executing"]
    OBVIOUS
  <2>2. /\ nx.at = "executing" /\ nx.alert = r.alert /\ r.at = "act"
        /\ resp' = [resp EXCEPT ![t] = nx] /\ learned' = learned
    BY <1>2, <1>9, <2>1 DEF ExecuteAction, Begun
  <2>3. Obeyed(r.alert)
    BY <1>3, <2>2 DEF HeardAs
  <2>4. \A e \in acted' : e \in acted \/ e.alert = r.alert
    BY <1>2, <1>9 DEF ExecuteAction
  <2>5. \A e \in acted' : e \in acted \/ Obeyed(e.alert)
    BY <2>3, <2>4
  <2>6. HeardAs(nx)
    BY <2>2, <2>3 DEF HeardAs
  <2>7. \A u \in Responders : HeardAs(resp'[u])
    BY <1>1, <2>2, <2>6, OneHears
  <2>8. learned \subseteq learned'
    BY <2>2
  <2> QED BY <1>1, <2>5, <2>7, <2>8, HeardStep
<1> QED BY <1>6, <1>7, <1>8, <1>9

\* An alert that is raised is none that a thread is at or that has been acted on.
LEMMA RaisedHeard ==
  ASSUME EngineInv, HeardInv, NEW f \in incoming, NEW t \in Responders,
         resp' = [resp EXCEPT ![t] = Begin(f)], Raised(f), UNCHANGED <<mode, learned, acted>>
  PROVE  HeardInv'
<1>1. /\ EngineTypes /\ ActedInv /\ f \in Alerts
      /\ heard = [g \in Alerts |-> heard[g]]
  BY DEF EngineInv, EngineTypes, HeardInv
<1>2. /\ heard' = [g \in Alerts |-> heard'[g]] /\ heard'[f] = {mode}
      /\ \A g \in Alerts : g # f => heard'[g] = heard[g]
      /\ \A g : g # f => (g \in familiar' <=> g \in familiar)
      /\ f \in familiar' => f \in familiar \/ Baselined(f)
      /\ familiar' \subseteq Alerts
  BY <1>1 DEF Raised, HeardInv
<1>3. ASSUME NEW u \in Responders
      PROVE  HeardAs(resp[u])'
  <2>1. PICK r : r = resp[u]
    OBVIOUS
  <2>2. HeardAs(r) /\ AnsweringAs(u, r) /\ (r = Free \/ r \in Begun)
    BY <1>1, <2>1 DEF HeardInv, ActedInv, EngineTypes
  <2>3. CASE u = t
    <3>1. resp'[u] = Begin(f)
      BY <1>1, <2>3 DEF EngineTypes
    <3>2. PICK nx : nx = Begin(f)
      OBVIOUS
    <3>3. nx.at = "learning" /\ nx.alert = f /\ resp'[u] = nx
      BY <3>1, <3>2 DEF Begin
    <3>4. mode' \in heard'[f]
      BY <1>2
    <3> QED BY <3>3, <3>4 DEF HeardAs
  <2>4. CASE u # t
    <3>1. resp'[u] = r
      BY <1>1, <2>1, <2>4 DEF EngineTypes
    <3>2. CASE r = Free
      <4>1. r.at = "free"
        BY <3>2 DEF Free
      <4> QED BY <3>1, <4>1 DEF HeardAs
    <3>3. CASE r \in Begun /\ r # Free
      <4>1. r.alert \in Alerts /\ r.alert # f
        BY <2>2, <3>3 DEF AnsweringAs, Begun
      <4>2. HeardAs(r)'
        BY <1>2, <2>2, <4>1, HeardKeeps
      <4> QED BY <3>1, <4>2 DEF HeardAs
    <3> QED BY <2>2, <3>2, <3>3
  <2> QED BY <2>3, <2>4
<1>4. ASSUME NEW e \in acted'
      PROVE  Obeyed(e.alert)'
  <2>1. e.alert \in Alerts /\ e.alert # f /\ Obeyed(e.alert)
    BY <1>1 DEF EngineTypes, ActedInv, HeardInv
  <2> QED BY <1>2, <2>1 DEF Obeyed
<1>5. ASSUME NEW g \in familiar'
      PROVE  Baselined(g)'
  <2>1. Baselined(g)
    BY <1>2 DEF HeardInv
  <2> QED BY <2>1, BaselineKeeps
<1> QED BY <1>2, <1>3, <1>4, <1>5 DEF HeardInv

\* The mode becomes m: who is to decide hears of it, and no alert that has been decided
\* on is another thread's.
LEMMA ModeHeard ==
  ASSUME EngineInv, HeardInv, NEW m, mode' = m, Hears(m), UNCHANGED <<resp, familiar, learned, acted>>
  PROVE  HeardInv'
<1>1. /\ EngineTypes /\ ActedInv
      /\ \A t \in Responders : HeardAs(resp[t]) /\ AnsweringAs(t, resp[t])
  BY DEF EngineInv, HeardInv, ActedInv
<1>2. /\ heard' = [f \in Alerts |-> heard'[f]]
      /\ \A f \in Alerts : Undecided(f) => heard'[f] = heard[f] \union {m}
      /\ \A f \in Alerts : ~Undecided(f) => heard'[f] = heard[f]
  BY DEF Hears
<1>3. ASSUME NEW f \in Alerts, Obeyed(f), ~Undecided(f)
      PROVE  Obeyed(f)'
  BY <1>2, <1>3 DEF Obeyed
<1>4. ASSUME NEW t \in Responders
      PROVE  HeardAs(resp[t])'
  <2>1. PICK r : r = resp[t]
    OBVIOUS
  <2>2. HeardAs(r) /\ AnsweringAs(t, r) /\ (r = Free \/ r \in Begun) /\ resp'[t] = r
    BY <1>1, <2>1 DEF EngineTypes
  <2>3. CASE r.at \in {"learning", "rules"}
    <3>1. r.alert \in Alerts /\ Undecided(r.alert)
      BY <2>1, <2>2, <2>3 DEF Free, Begun, Undecided
    <3>2. heard'[r.alert] = heard[r.alert] \union {m}
      BY <1>2, <3>1
    <3>3. HeardAs(r)'
      BY <2>2, <2>3, <3>2 DEF HeardAs
    <3> QED BY <2>2, <3>3 DEF HeardAs
  <2>4. CASE r.at \in {"act", "executing"}
    <3>1. r.alert \in Alerts /\ r # Free /\ Obeyed(r.alert)
      BY <2>2, <2>4 DEF Free, Begun, HeardAs
    <3>2. ASSUME NEW u \in Responders, resp[u].at \in {"learning", "rules"}, resp[u].alert = r.alert
          PROVE  FALSE
      <4>1. u # t
        BY <2>1, <2>4, <3>2
      <4>2. PICK s : s = resp[u]
        OBVIOUS
      <4>3. s # Free /\ AnsweringAs(u, s)
        BY <1>1, <3>2, <4>2 DEF Free
      <4>4. (s.alert \in FastHits <=> u = Processor) /\ (r.alert \in FastHits <=> t = Processor)
        BY <2>2, <3>1, <4>3 DEF AnsweringAs
      <4> QED BY <3>2, <4>1, <4>2, <4>4 DEF Responders
    <3>3. Obeyed(r.alert)'
      BY <1>3, <3>1, <3>2 DEF Undecided
    <3> QED BY <2>2, <2>4, <3>3 DEF HeardAs
  <2>5. CASE r.at \notin {"learning", "rules", "act", "executing"}
    BY <2>2, <2>5 DEF HeardAs
  <2> QED BY <2>3, <2>4, <2>5
<1>5. ASSUME NEW e \in acted'
      PROVE  Obeyed(e.alert)'
  <2>1. e \in acted /\ e.alert \in Alerts /\ Obeyed(e.alert)
    BY <1>1 DEF EngineTypes, HeardInv
  <2>2. ASSUME NEW u \in Responders, resp[u].at \in {"learning", "rules"}, resp[u].alert = e.alert
        PROVE  FALSE
    <3>1. PICK s : s = resp[u]
      OBVIOUS
    <3>2. s # Free /\ AnsweringAs(u, s)
      BY <1>1, <2>2, <3>1 DEF Free
    <3> QED BY <2>1, <2>2, <3>1, <3>2 DEF AnsweringAs
  <2> QED BY <1>3, <2>1, <2>2 DEF Undecided
<1>6. \A f \in familiar' : Baselined(f)'
  BY BaselineKeeps DEF HeardInv
<1> QED BY <1>2, <1>4, <1>5, <1>6 DEF HeardInv

LEMMA NobodyHears ==
  ASSUME HeardInv, UNCHANGED <<mode, heard, familiar, learned, resp, acted>>
  PROVE  HeardInv'
<1>1. ASSUME NEW t \in Responders
      PROVE  HeardAs(resp'[t])
  BY DEF HeardInv
<1> QED BY <1>1, HeardStep

LEMMA RaiseHeard == EngineInv /\ HeardInv /\ Raise => HeardInv'
<1> SUFFICES ASSUME EngineInv, HeardInv, Raise
             PROVE  HeardInv'
  OBVIOUS
<1>1. EngineTypes /\ Processor \in Responders /\ Analyzer \in Responders
  BY DEF EngineInv, Responders
<1>2. ASSUME NEW f \in Alerts, FastPath(f)
      PROVE  HeardInv'
  <2>1. CASE resp' = [resp EXCEPT ![Processor] = Begin(f)] /\ Raised(f)
    BY <1>1, <1>2, <2>1, RaisedHeard DEF FastPath
  <2>2. CASE UNCHANGED <<resp, heard, familiar>>
    BY <1>2, <2>2, NobodyHears DEF FastPath
  <2> QED BY <1>2, <2>1, <2>2 DEF FastPath
<1>3. ASSUME NEW f \in Alerts, Analyze(f)
      PROVE  HeardInv'
  BY <1>1, <1>3, RaisedHeard DEF Analyze
<1>4. ASSUME NEW t \in Responders, resp' = [resp EXCEPT ![t] = Free],
             UNCHANGED <<mode, heard, familiar, learned, acted>>
      PROVE  HeardInv'
  <2>1. PICK nx : nx = Free
    OBVIOUS
  <2>2. nx.at = "free"
    BY <2>1 DEF Free
  <2>3. HeardAs(nx)
    BY <2>2 DEF HeardAs
  <2>4. \A u \in Responders : HeardAs(resp'[u])
    BY <1>1, <1>4, <2>1, <2>3, OneHears
  <2> QED BY <1>4, <2>4, HeardStep
<1>5. CASE EndAnalysis
  BY <1>1, <1>4, <1>5 DEF EndAnalysis
<1>6. CASE EndFastPath
  BY <1>1, <1>4, <1>6 DEF EndFastPath
<1> QED BY <1>2, <1>3, <1>5, <1>6 DEF Raise

LEMMA HeardInductive ==
  EngineInv /\ HeardInv /\ [EngineNext]_<<controlVars, engineVars>> => HeardInv'
<1> SUFFICES ASSUME EngineInv, HeardInv, [EngineNext]_<<controlVars, engineVars>>
             PROVE  HeardInv'
  OBVIOUS
<1>1. CASE UNCHANGED engineVars
  BY <1>1, NobodyHears DEF engineVars
<1>2. CASE \E t \in Responders : Respond(t)
  BY <1>2, RespondHeard DEF Respond
<1>3. CASE Operate
  <2>1. CASE \/ \E r \in DOMAIN rows, verdict \in {"approved", "denied"} :
                  Decide(r, verdict) \/ Decided(r, verdict)
             \/ \E m \in Modes, auto \in BOOLEAN : PushConfig(m, auto)
             \/ PersistMode \/ PushAuto
    <3>1. UNCHANGED <<mode, heard, familiar, learned, resp, acted>>
      BY <2>1 DEF Decide, Decided, PushConfig, PersistMode, PushAuto
    <3> QED BY <3>1, NobodyHears
  <2>2. CASE \E m \in Modes : SetMode(m)
    BY <2>2, ModeHeard DEF SetMode
  <2>3. CASE PushToEngine
    <3>1. UNCHANGED <<familiar, learned, resp, acted>>
      BY <2>3 DEF PushToEngine
    <3>2. CASE mode' = push.mode /\ Hears(push.mode)
      BY <3>1, <3>2, ModeHeard
    <3>3. CASE UNCHANGED <<mode, heard>>
      BY <3>1, <3>3, NobodyHears
    <3> QED BY <2>3, <3>2, <3>3 DEF PushToEngine
  <2> QED BY <1>3, <2>1, <2>2, <2>3 DEF Operate
<1>4. CASE Raise
  BY <1>4, RaiseHeard
<1>5. CASE EngineRestart
  <2>1. /\ \A t \in Responders : resp'[t] = Free
        /\ UNCHANGED <<heard, familiar, acted>>
    BY <1>5 DEF EngineRestart
  <2>2. \A t \in Responders : HeardAs(resp[t])'
    BY <2>1 DEF HeardAs, Free
  <2>3. \A f \in familiar' : Baselined(f)'
    BY <1>5, BaselineKeeps DEF HeardInv, EngineRestart
  <2> QED BY <2>1, <2>2, <2>3 DEF HeardInv, Obeyed
<1>6. CASE \E p \in Pids, name \in scenario.names : ReusePid(p, name)
  BY <1>6, NobodyHears DEF ReusePid
<1>7. Controls => UNCHANGED engineVars
  BY DEF Controls
<1> QED BY <1>1, <1>2, <1>3, <1>4, <1>5, <1>6, <1>7 DEF EngineNext

\* respond() reads the mode twice, and consults its lists between; the operator and
\* the fleet server may set it at any moment.  What an alert leads to is what a mode
\* that was in force meanwhile allows.
THEOREM ModesAreObeyed == EngineSpec => []ModeIsObeyed
<1>1. EngineInit => ControlsInv /\ EngineInv /\ HeardInv
  <2> SUFFICES ASSUME EngineInit
               PROVE  HeardInv
    BY EngineInitially
  <2>1. /\ \A t \in Responders : resp[t].at = "free"
        /\ acted = {} /\ familiar = {} /\ heard = [f \in Alerts |-> {}]
    BY DEF EngineInit, Free
  <2> QED BY <2>1 DEF HeardInv, HeardAs
<1>2. (ControlsInv /\ EngineInv /\ HeardInv) /\ [EngineNext]_<<controlVars, engineVars>>
        => (ControlsInv /\ EngineInv /\ HeardInv)'
  BY EngineStep, HeardInductive
<1>3. HeardInv => ModeIsObeyed
  BY DEF HeardInv, Obeyed, ModeIsObeyed
<1> QED BY <1>1, <1>2, <1>3, PTL DEF EngineSpec

\* _execute_action records what it has done before it goes on: what the audit trail
\* misses was cut off by a crash or a failed insertion, one action of each thread
\* for each of them.
THEOREM ActionsAreAudited == EngineSpec => []ActedIsRecorded
<1>1. EngineInv => ActedIsRecorded
  <2> SUFFICES ASSUME EngineInv
               PROVE  ActedIsRecorded
    OBVIOUS
  <2>1. Cardinality(Responders) = 2
    <3>1. Cardinality({Processor}) = 1 /\ IsFiniteSet({Processor})
      BY FS_Singleton
    <3>2. Responders = {Processor} \union {Analyzer} /\ Analyzer \notin {Processor}
      BY EngineAssumption DEF Responders
    <3>3. Cardinality({Processor} \union {Analyzer}) = Cardinality({Processor}) + 1
      BY <3>1, <3>2, FS_AddElement
    <3> QED BY <3>1, <3>2, <3>3
  <2>2. Cardinality(Lost) <= 2 * faults
    BY DEF EngineInv, LostInv
  <2>3. ActedIsRecorded <=> Cardinality(Lost) <= Cardinality(Responders) * faults
    BY DEF ActedIsRecorded, Lost, HasRow
  <2> QED BY <2>1, <2>2, <2>3
<1> QED BY <1>1, EngineInvariant, PTL

\* _apply_config_overrides writes the mode to its file after it has set it, and main()
\* reads the file first: a restart starts in the mode last pushed, unless the file
\* could not be written.
THEOREM PushedModeSurvives == EngineSpec => []RestartKeepsMode
<1>1. EngineInv => RestartKeepsMode
  <2>1. NoPush.at = "none"
    BY DEF NoPush
  <2> QED BY <2>1 DEF EngineInv, PushInv, RestartKeepsMode
<1> QED BY <1>1, EngineInvariant, PTL

\* The endpoint controls keep what they say when the engine's threads call them
\* besides the dashboard's handlers: what is isolated, blocked or sinkholed by their
\* memory is so on the host, as long as no two calls meet.
THEOREM ReportsStayTrue == EngineSpec => []ReportedIsInForce
<1>1. ControlsInv => ReportedIsInForce
  BY ReportedFollows
<1> QED BY <1>1, EngineInvariant, PTL

\* FileQuarantine moves a file into its vault and back; no failure, restart or second
\* caller between the steps loses one whose name no other file has.
THEOREM FilesAreNotLost == EngineSpec => []EvidenceIsKept
<1>1. ControlsInv => EvidenceIsKept
  BY DEF ControlsInv, VaultInv
<1> QED BY <1>1, EngineInvariant, PTL
=============================================================================
