-------------------------- MODULE EndpointControls --------------------------
(***************************************************************************)
(* What an agent can do to its host: isolate a process, block an address   *)
(* or the whole network (agent/response/network_control.py), sinkhole a    *)
(* domain (dns_sinkhole.py), quarantine a file (file_quarantine.py), stop  *)
(* or kill a process (process_control.py).                                 *)
(*                                                                         *)
(* Each class keeps in memory what it has done and asks the system to do   *)
(* it with commands that take time and fail.  Nothing locks: the processor,*)
(* the analyzer and the dashboard's handlers call at the same time.  The   *)
(* memory is lost when the agent stops; what the system has been told, not.*)
(***************************************************************************)
EXTENDS Naturals, Sequences, FiniteSets

CONSTANTS
  Platforms,    \* The operating systems of the agents to be looked at.
  Pids, Addresses, Domains, Files,
  Occurs,       \* The pairs <<d, e>> such that the text of d occurs in that of e.
  Basename,     \* Of a file.
  Callers,      \* Threads that call.
  None,         \* No file, no record, no answer.
  Workloads,    \* The sets of calls to be looked at, one in each behaviour.
  MaxCalls, MaxFaults, MaxSeconds      \* Bounds.

\* What is called with what.
Callable ==
  ({"isolate", "restore", "suspend", "resume", "terminate"} \X Pids)
    \union ({"block", "unblock"} \X Addresses)
    \union ({"panic", "panic_restore"} \X {"host"})
    \union ({"sinkhole", "unsinkhole"} \X Domains) \union {<<"restore_all", None>>}
    \union ({"quarantine", "unquarantine"} \X Files)

ASSUME ControlsAssumption ==
  /\ Platforms \subseteq {"linux", "windows", "macos"}
  /\ None \notin Files /\ Workloads \subseteq SUBSET Callable
  /\ Occurs \subseteq Domains \X Domains
  /\ \A d \in Domains : <<d, d>> \in Occurs
  /\ MaxCalls \in Nat /\ MaxFaults \in Nat /\ MaxSeconds \in Nat

VARIABLES
  platform,     \* platform.system()
  calls,        \* The workload: pairs <<operation, object>>.
  called,       \* How many calls have been made.
  \* The system.
  firewall,     \* Number of rules in force, by name.
  hosts,        \* Number of marked lines in the hosts file, by domain.
  home,         \* What is at the path of a file: its content or None.
  vault,        \* What is at a path of the quarantine directory.
  process,      \* "running", "stopped" or "gone".
  now,          \* time.time(), in seconds.
  \* The agent's memory.
  isolated,     \* Keys of _isolated.
  blocked,      \* Keys of _blocked_connections.
  panic,        \* _panic_active
  sinkholed,    \* _sinkholed
  records,      \* FileQuarantine._records: quarantine path or None.
  job,          \* By caller: the call in progress or Idle.
  answer,       \* By caller: the result of its last call.
  \* History.
  clean,        \* No two calls met, no command took effect after its deadline.
  faults

firewallVars == <<firewall, isolated, blocked, panic>>
hostsVars == <<hosts, sinkholed>>
fileVars == <<home, vault, records, now>>
controlVars == <<platform, calls, called, firewallVars, hostsVars, fileVars, process, job,
                 answer, clean, faults>>

Idle == [op |-> "idle"]

-----------------------------------------------------------------------------
(* Rules of the firewall.  pf keeps them by anchor, the others by name. *)

IsolationRules(p) ==
  IF platform = "macos" THEN << <<"anchor", p>> >> ELSE << <<"out", p>>, <<"in", p>> >>
ConnectionRules(a) == << <<"conn", a>> >>
PanicRules ==
  IF platform = "macos" THEN << <<"panic", "all">> >>
  ELSE << <<"panic", "out">>, <<"panic", "in">> >>

Rules == ({"anchor", "out", "in"} \X Pids) \union ({"conn"} \X Addresses)
           \union ({"panic"} \X {"all", "out", "in"})

\* The commands of an operation; NetworkOps are those that consist of commands.
Commands(op, x) ==
  CASE op \in {"isolate", "restore", "rollback"} -> IsolationRules(x)
    [] op \in {"block", "unblock"} -> ConnectionRules(x)
    [] op \in {"panic", "panic_restore"} -> PanicRules

Removing == {"restore", "unblock", "panic_restore", "rollback"}
NetworkOps == {"isolate", "block", "panic"} \union Removing

\* Loading an anchor replaces it; iptables -A and netsh add one more rule.
AddRule(r) ==
  firewall' = [firewall EXCEPT ![r] = IF platform = "macos" THEN 1 ELSE @ + 1]

\* iptables -D deletes one rule, netsh all of that name, and both fail when
\* there is none; flushing an anchor always succeeds.
DeleteRule(r) ==
  firewall' = [firewall EXCEPT ![r] = IF platform = "linux" THEN @ - 1 ELSE 0]
CanDelete(r) == platform = "macos" \/ firewall[r] > 0

Tracked(op, x) ==
  CASE op \in {"isolate", "restore"} -> x \in isolated
    [] op \in {"block", "unblock"} -> x \in blocked
    [] op \in {"panic", "panic_restore"} -> panic

ControlsInit ==
  /\ platform \in Platforms /\ calls \in Workloads /\ called = 0
  /\ firewall = [r \in Rules |-> 0]
  /\ hosts = [d \in Domains |-> 0]
  /\ home = [f \in Files |-> f] /\ vault = [q \in {} |-> None]
  /\ process = [p \in Pids |-> "running"]
  /\ now = 0
  /\ isolated = {} /\ blocked = {} /\ panic = FALSE /\ sinkholed = {}
  /\ records = [f \in Files |-> None]
  /\ job = [t \in Callers |-> Idle] /\ answer = [t \in Callers |-> None]
  /\ clean = TRUE /\ faults = 0

Fault == faults < MaxFaults /\ faults' = faults + 1

\* What two operations would have to share for one to disturb the other.
HostsOps == {"sinkhole", "unsinkhole", "restore_all"}
FileOps == {"quarantine", "unquarantine"}
Resource(op, x) ==
  CASE op \in HostsOps -> "hosts" [] op \in FileOps -> "files" [] OTHER -> x
Busy(x) == \E t \in Callers : job[t] # Idle /\ Resource(job[t].op, job[t].x) = x

Starts(t, j) ==
  /\ job' = [job EXCEPT ![t] = j]
  /\ answer' = [answer EXCEPT ![t] = None]
  /\ clean' = (clean /\ ~Busy(Resource(j.op, j.x)))

Answers(t, r) ==
  /\ answer' = [answer EXCEPT ![t] = r]
  /\ job' = [job EXCEPT ![t] = Idle]

\* A call that is answered at once, from memory.
Declines(t, r) == Answers(t, r) /\ UNCHANGED clean

-----------------------------------------------------------------------------
(* NetworkIsolator. *)

Commanded(op, x, rules) ==
  [op |-> op, x |-> x, todo |-> rules, done |-> <<>>, failed |-> FALSE]

\* macOS: pf knows no processes.  isolate blocks the connections lsof finds, and
\* a process without any is isolated by nothing.
IsolateWithoutRules(t, p) ==
  platform = "macos" /\ Starts(t, Commanded("isolate", p, <<>>))

\* The first lines of each operation: what memory says decides.
NetworkCall(t, op, x) ==
  /\ op \in NetworkOps \ {"rollback"}
  /\ IF Tracked(op, x) = (op \in Removing)
     THEN \/ Starts(t, Commanded(op, x, Commands(op, x)))
          \/ op = "isolate" /\ IsolateWithoutRules(t, x)
     ELSE Declines(t, IF op \in Removing THEN "not_isolated" ELSE "already_isolated")
  /\ UNCHANGED <<firewallVars, hostsVars, fileVars, process, faults>>

\* The operations that take their rules away go on after an error; on Windows
\* isolate deletes what it has added; the others leave it.
CommandFails(t) ==
  LET j == job[t] IN
  IF j.op \in {"restore", "panic_restore", "rollback"}
  THEN /\ job' = [job EXCEPT ![t].todo = Tail(@), ![t].failed = TRUE]
       /\ UNCHANGED answer
  ELSE IF j.op = "isolate" /\ platform = "windows"
  THEN /\ job' = [job EXCEPT ![t] = [@ EXCEPT !.op = "rollback", !.todo = j.done,
                                              !.failed = TRUE]]
       /\ UNCHANGED answer
  ELSE Answers(t, "failed")

\* _run_command for the next rule: it succeeds, fails, or is given up after ten
\* seconds and takes effect all the same.
RunCommand(t) ==
  /\ job[t].op \in NetworkOps /\ job[t].todo # <<>>
  /\ LET r == Head(job[t].todo)
         removes == job[t].op \in Removing
         Effect == IF removes THEN CanDelete(r) /\ DeleteRule(r) ELSE AddRule(r)
     IN \/ /\ Effect
           /\ job' = [job EXCEPT ![t].todo = Tail(@), ![t].done = Append(@, r)]
           /\ UNCHANGED <<answer, clean, faults>>
        \/ /\ IF removes /\ ~CanDelete(r) THEN UNCHANGED faults ELSE Fault
           /\ CommandFails(t) /\ UNCHANGED <<firewall, clean>>
        \/ Fault /\ Effect /\ CommandFails(t) /\ clean' = FALSE
  /\ UNCHANGED <<isolated, blocked, panic, hostsVars, fileVars, process>>

\* Memory follows the last command.
Finishes(t, ops) == job[t].op \in ops /\ job[t].todo = <<>>
Outcome(t) == IF job[t].failed THEN "failed" ELSE "success"

\* Variant (a bug this code does not have): isolate remembers the process also when
\* it has rolled back.
FinishAsIsolated(t) ==
  /\ Finishes(t, {"isolate", "restore", "rollback"})
  /\ isolated' = IF job[t].op = "restore" THEN isolated \ {job[t].x}
                 ELSE isolated \union {job[t].x}
  /\ Answers(t, Outcome(t))
  /\ UNCHANGED <<firewall, blocked, panic, hostsVars, fileVars, process, clean, faults>>

\* restore forgets the process though a rule may remain; a process that has
\* been forgotten meanwhile raises.
FinishIsolation(t) ==
  /\ Finishes(t, {"isolate", "restore", "rollback"})
  /\ LET op == job[t].op  p == job[t].x IN
     /\ isolated' = CASE op = "isolate" -> isolated \union {p}
                      [] op = "restore" -> isolated \ {p}
                      [] OTHER -> isolated
     /\ Answers(t, IF op = "restore" /\ p \notin isolated THEN "failed" ELSE Outcome(t))
  /\ UNCHANGED <<firewall, blocked, panic, hostsVars, fileVars, process, clean, faults>>

\* unblock_connection answers "failed" when the key has gone meanwhile.
FinishBlocking(t) ==
  /\ Finishes(t, {"block", "unblock"})
  /\ LET op == job[t].op  a == job[t].x IN
     /\ blocked' = IF op = "block" THEN blocked \union {a} ELSE blocked \ {a}
     /\ Answers(t, IF op = "unblock" /\ a \notin blocked THEN "failed" ELSE "success")
  /\ UNCHANGED <<firewall, isolated, panic, hostsVars, fileVars, process, clean, faults>>

FinishPanic(t) ==
  /\ Finishes(t, {"panic", "panic_restore"})
  /\ panic' = (job[t].op = "panic")
  /\ Answers(t, Outcome(t))
  /\ UNCHANGED <<firewall, isolated, blocked, hostsVars, fileVars, process, clean, faults>>

-----------------------------------------------------------------------------
(* DnsSinkhole.  The lines of other programs are left out. *)

SinkholeCall(t, op, d) ==
  /\ op \in HostsOps
  /\ CASE op = "sinkhole" /\ d \in sinkholed -> Declines(t, "already_sinkholed")
       [] op = "unsinkhole" /\ d \notin sinkholed -> Declines(t, "not_sinkholed")
       [] OTHER -> Starts(t, [op |-> op, x |-> d, copy |-> hosts])
  /\ UNCHANGED <<firewallVars, hostsVars, fileVars, process, faults>>

\* sinkhole appends a line.  restore writes back the copy it has read without
\* the lines in which the domain occurs, restore_all without any; a write that
\* fails may have emptied the file.
WriteHosts(t) ==
  /\ job[t].op \in HostsOps
  /\ LET op == job[t].op  d == job[t].x  copy == job[t].copy IN
     \/ /\ hosts' =
             CASE op = "sinkhole" -> [hosts EXCEPT ![d] = @ + 1]
               [] op = "unsinkhole" ->
                    [e \in Domains |-> IF <<d, e>> \in Occurs THEN 0 ELSE copy[e]]
               [] OTHER -> IF \E e \in Domains : copy[e] > 0
                           THEN [e \in Domains |-> 0] ELSE hosts
        /\ sinkholed' = CASE op = "sinkhole" -> sinkholed \union {d}
                          [] op = "unsinkhole" -> sinkholed \ {d}
                          [] OTHER -> {}
        /\ Answers(t, "success") /\ UNCHANGED faults
     \/ /\ Fault /\ Answers(t, "failed")
        /\ \/ UNCHANGED hosts
           \/ op # "sinkhole" /\ hosts' = [e \in Domains |-> 0]
        /\ UNCHANGED sinkholed
  /\ UNCHANGED <<firewallVars, fileVars, process, clean>>

-----------------------------------------------------------------------------
(* FileQuarantine.  A quarantine path is the second and the name of the file. *)

InVault(q) == q \in DOMAIN vault /\ vault[q] # None
PutIn(q, c) == vault' = [r \in DOMAIN vault \union {q} |-> IF r = q THEN c ELSE vault[r]]

\* quarantine: up to the move; restore: up to the check that the file is there.
QuarantineCall(t, op, f) ==
  /\ \/ /\ op = "quarantine"
        /\ IF records[f] # None THEN Declines(t, "already_quarantined")
           ELSE IF home[f] = None THEN Declines(t, "not_found")
           ELSE Starts(t, [op |-> op, x |-> f, path |-> <<now, Basename[f]>>,
                           at |-> "move"])
        /\ UNCHANGED records
     \/ /\ op = "unquarantine"
        /\ IF records[f] = None THEN Declines(t, "not_quarantined") /\ UNCHANGED records
           ELSE IF ~InVault(records[f])
           THEN /\ records' = [records EXCEPT ![f] = None]
                /\ Declines(t, "not_found")
           ELSE /\ Starts(t, [op |-> op, x |-> f, path |-> records[f], at |-> "move"])
                /\ UNCHANGED records
  /\ UNCHANGED <<firewallVars, hostsVars, home, vault, now, process, faults>>

\* Variant (a bug this code does not have): the original is removed first.
RemoveThenMove(t) ==
  /\ job[t].op = "quarantine" /\ job[t].at = "move"
  /\ \/ PutIn(job[t].path, home[job[t].x]) /\ UNCHANGED faults
        /\ job' = [job EXCEPT ![t].at = "record"] /\ UNCHANGED answer
     \/ Fault /\ Answers(t, "failed") /\ UNCHANGED vault
  /\ home' = [home EXCEPT ![job[t].x] = None]
  /\ UNCHANGED <<firewallVars, hostsVars, records, now, process, clean>>

\* shutil.move replaces what is at its destination, in either direction, and
\* fails when the file is gone.
MoveFile(t) ==
  /\ job[t].op \in FileOps /\ job[t].at = "move"
  /\ LET f == job[t].x  q == job[t].path IN
     \/ /\ job[t].op = "quarantine" /\ home[f] # None
        /\ PutIn(q, home[f]) /\ home' = [home EXCEPT ![f] = None]
        /\ job' = [job EXCEPT ![t].at = "record"] /\ UNCHANGED <<answer, faults>>
     \/ /\ job[t].op = "unquarantine" /\ InVault(q)
        /\ PutIn(q, None) /\ home' = [home EXCEPT ![f] = vault[q]]
        /\ job' = [job EXCEPT ![t].at = "record"] /\ UNCHANGED <<answer, faults>>
     \/ /\ IF (job[t].op = "quarantine" /\ home[f] = None)
              \/ (job[t].op = "unquarantine" /\ ~InVault(q))
           THEN UNCHANGED faults ELSE Fault
        /\ Answers(t, "failed") /\ UNCHANGED <<home, vault>>
  /\ UNCHANGED <<firewallVars, hostsVars, records, now, process, clean>>

\* chmod, the record and its sidecar file, which nothing reads.  When chmod fails
\* the file has moved without a record, or back with one; when the sidecar file
\* does, the call fails though the record is there.
RecordFile(t) ==
  /\ job[t].op \in FileOps /\ job[t].at = "record"
  /\ LET kept == [records EXCEPT ![job[t].x] =
                    IF job[t].op = "quarantine" THEN job[t].path ELSE None]
     IN \/ records' = kept /\ Answers(t, "success") /\ UNCHANGED faults
        \/ /\ Fault /\ Answers(t, "failed")
           /\ \/ UNCHANGED records
              \/ job[t].op = "quarantine" /\ records' = kept
  /\ UNCHANGED <<firewallVars, hostsVars, home, vault, now, process, clean>>

-----------------------------------------------------------------------------
(* process_control: one system call, on whatever process has the pid. *)

ProcessOps == [suspend |-> "stopped", resume |-> "running", terminate |-> "gone"]

ProcessCall(t, op, p) ==
  /\ op \in DOMAIN ProcessOps
  /\ IF process[p] = "gone"
     THEN Declines(t, "not_found") /\ UNCHANGED <<process, faults>>
     ELSE \/ /\ process' = [process EXCEPT ![p] = ProcessOps[op]]
             /\ Declines(t, "success") /\ UNCHANGED faults
          \/ Fault /\ Declines(t, "permission_denied") /\ UNCHANGED process
  /\ UNCHANGED <<firewallVars, hostsVars, fileVars>>

-----------------------------------------------------------------------------
\* A call of one of the four classes.
Operation(t, op, x) ==
  /\ job[t] = Idle
  /\ \/ NetworkCall(t, op, x) \/ SinkholeCall(t, op, x)
     \/ QuarantineCall(t, op, x) \/ ProcessCall(t, op, x)

ControlStep(t) ==
  \/ RunCommand(t) \/ FinishIsolation(t) \/ FinishBlocking(t) \/ FinishPanic(t)
  \/ WriteHosts(t) \/ MoveFile(t) \/ RecordFile(t)

Tick ==
  /\ now < MaxSeconds /\ now' = now + 1
  /\ UNCHANGED <<firewallVars, hostsVars, home, vault, records, process, job,
                 answer, clean, faults>>

\* The agent stops, whatever it was doing, and starts again: of what it did it
\* knows the lines in the hosts file only (_load_existing).
ControlsRestart ==
  /\ Fault
  /\ isolated' = {} /\ blocked' = {} /\ panic' = FALSE
  /\ sinkholed' = {d \in Domains : hosts[d] > 0}
  /\ records' = [f \in Files |-> None]
  /\ job' = [t \in Callers |-> Idle] /\ answer' = [t \in Callers |-> None]
  /\ UNCHANGED <<platform, calls, called, firewall, hosts, home, vault, now, process, clean>>

\* One of the calls of the workload: a handler of the dashboard.
Call(t) ==
  /\ called < MaxCalls /\ called' = called + 1
  /\ \E c \in calls : Operation(t, c[1], c[2])
  /\ UNCHANGED <<platform, calls>>

ControlsNext ==
  \/ \E t \in Callers : Call(t)
  \/ \E t \in Callers : ControlStep(t) /\ UNCHANGED <<platform, calls, called>>
  \/ Tick /\ UNCHANGED <<platform, calls, called>>
  \/ ControlsRestart

ControlsSpec == ControlsInit /\ [][ControlsNext]_controlVars

-----------------------------------------------------------------------------
(* Properties. *)

InForce(rules) == \A n \in DOMAIN rules : firewall[rules[n]] > 0

\* What the agent says it does to its host is done (the network-status page):
\* after any calls, failed commands, rollbacks and restarts, as long as no two
\* calls meet and no command takes effect after it has been given up.  (The
\* anchor of a process without connections is empty on macOS.)
ReportedIsInForce ==
  clean =>
    /\ \A a \in blocked : Busy(a) \/ InForce(ConnectionRules(a))
    /\ panic => Busy("host") \/ InForce(PanicRules)
    /\ platform # "macos" => \A p \in isolated : Busy(p) \/ InForce(IsolationRules(p))
    /\ \A d \in Domains : hosts[d] > 0 => Busy("hosts") \/ d \in sinkholed

\* Quarantine and restore, several at once, failing or cut off by a restart, do
\* not lose a file: unless another file has its name (in another directory),
\* which may be moved over it within a second.
EvidenceIsKept ==
  \A f \in Files :
    \/ \E g \in Files : home[g] = f
    \/ \E q \in DOMAIN vault : vault[q] = f
    \/ \E g \in Files \ {f} : Basename[g] = Basename[f]
=============================================================================
