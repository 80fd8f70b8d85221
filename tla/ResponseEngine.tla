--------------------------- MODULE ResponseEngine ---------------------------
(***************************************************************************)
(* From a finding to what is done to the host: the response engine         *)
(* (agent/response/engine.py, actions.py, approval.py), the two threads    *)
(* that call it (agent/main.py: the processor's fast path and the          *)
(* analyzer's cycle), the operator who changes the mode and decides on     *)
(* pending actions (agent/dashboard/server.py), the fleet server that      *)
(* pushes a configuration (agent/fleet/forwarder.py) and a restart.        *)
(*                                                                         *)
(* The actions themselves are operations of EndpointControls, begun by the *)
(* thread that responds and ended before it records the outcome.           *)
(***************************************************************************)
EXTENDS EndpointControls

CONSTANTS
  Processor, Analyzer,     \* The two threads that respond, among Callers.
  Alerts,       \* What is found: SecurityFindings.
  Scenarios,    \* What is to be looked at, one in each behaviour: the configuration
                \* file, the alerts, the calls of the dashboard, how often a mode
                \* is asked for and the names a pid may be given again.
  FastHits,     \* The alerts of the fast path; the analyzer raises the others.
  Severity,     \* Of an alert: "info", "low", "medium", "high" or "critical".
  Evidence,     \* Of an alert: its events, as records [kind, pid, name, ip].
  Allowed, Blocked,        \* The alerts that a rule of either list matches.
  Protected,    \* Names of processes that must not be stopped.
  Modes         \* The modes the operator and the fleet server ask for, valid or not.

ValidModes == {"learning", "passive", "active"}

ASSUME EngineAssumption ==
  /\ {Processor, Analyzer} \subseteq Callers /\ Processor # Analyzer
  /\ FastHits \subseteq Alerts
  /\ None \notin Modes
  /\ \A s \in Scenarios :
       /\ s.config \in [mode : ValidModes, auto : BOOLEAN]
       /\ s.alerts \subseteq Alerts /\ s.calls \in Workloads /\ s.asks \in Nat
  /\ \A f \in Alerts : Evidence[f] # <<>> =>
       /\ Head(Evidence[f]).pid \in Pids \union {None}
       /\ Head(Evidence[f]).ip \in Addresses \union {None}

VARIABLES
  scenario,     \* A member of Scenarios.
  mode,         \* ResponseEngine._response_mode
  settings,     \* The settings in memory: [mode, auto].
  modeFile,     \* The file fleet_response_mode: a mode or None.
  policyAuto,   \* ResponsePolicy.auto_respond
  push,         \* The configuration being applied by the heartbeat thread.
  incoming,     \* Alerts not yet raised.
  resp,         \* By thread: the response in progress.
  learned,      \* BehaviorBaseline: pairs <<process name, target>>.
  rows,         \* The table response_audit.
  pending,      \* ApprovalManager._pending: pairs <<alert, action>>.
  deciding,     \* Handlers between their check and their update: <<row, verdict>>.
  stored,       \* The table findings.
  asked,        \* Times a mode has been asked for.
  \* History.
  acted,        \* What the engine has begun to do: [alert, action].
  heard,        \* By alert: the modes the engine was in while it looked at it.
  familiar,     \* Alerts of behaviour that was learned when they were raised.
  suppressed,   \* Alerts the analyzer has dropped as allowlisted.
  unsaved,      \* A pushed mode could not be written to its file.
  occupant      \* By pid: the name of the process that has it.

engineVars == <<scenario, mode, settings, modeFile, policyAuto, push, incoming, resp,
                learned, rows, pending, deciding, stored, asked, acted, heard, familiar,
                suppressed, unsaved, occupant>>

Responders == {Processor, Analyzer}
config == scenario.config
Free == [at |-> "free"]
NoPush == [at |-> "none"]

EngineInit ==
  /\ ControlsInit
  /\ scenario \in Scenarios /\ calls = scenario.calls
  /\ mode = config.mode /\ settings = config /\ policyAuto = config.auto
  /\ modeFile = None /\ push = NoPush
  /\ incoming = scenario.alerts
  /\ resp = [t \in Responders |-> Free]
  /\ learned = {} /\ rows = <<>> /\ pending = {} /\ deciding = {} /\ stored = {}
  /\ asked = 0 /\ acted = {} /\ suppressed = {} /\ unsaved = FALSE
  /\ heard = [f \in Alerts |-> {}] /\ familiar = {}
  /\ occupant = [p \in Pids |-> p]

-----------------------------------------------------------------------------
(* What _trigger_response tells the engine: the first event of the finding *)
(* says which process, and which address if it is a connection.            *)

Target(f) ==
  IF Evidence[f] = <<>> THEN [pid |-> None, name |-> None, ip |-> None]
  ELSE LET e == Head(Evidence[f]) IN
       [pid |-> e.pid, name |-> e.name,
        ip |-> IF e.kind = "network" THEN e.ip ELSE None]

\* What the baseline learns, and is asked for.
Behaviours(f) ==
  IF Target(f).name = None \/ Target(f).ip = None THEN {}
  ELSE {<<Target(f).name, Target(f).ip>>}

Actions(severity) ==
  CASE severity = "critical" -> <<"alert", "suspend", "block">>
    [] severity = "high" -> <<"alert", "block">>
    [] severity = "medium" -> <<"alert">>
    [] OTHER -> <<"log">>

RequiresApproval(action) == action \notin {"log", "alert"} /\ ~policyAuto

Row(f, action, status, result) ==
  [alert |-> f, action |-> action, status |-> status, result |-> result]

\* One row is inserted, and the response goes on; or the insertion fails, which
\* raises: nothing is left of the response but what has been done.
Record(t, row, next) ==
  \/ /\ rows' = Append(rows, row) /\ resp' = [resp EXCEPT ![t] = next]
     /\ UNCHANGED faults
  \/ /\ Fault /\ UNCHANGED rows
     /\ resp' = [resp EXCEPT ![t] = [@ EXCEPT !.at = "end", !.todo = <<>>]]

-----------------------------------------------------------------------------
(* The threads: the processor stores a finding of the fast path and then   *)
(* responds; the analyzer responds and stores what is not allowlisted.     *)

Begin(f) == [alert |-> f, at |-> "learning", todo |-> <<>>, allowed |-> FALSE]

\* What CheckRules asks of the baseline.
Baselined(f) == Behaviours(f) # {} /\ Behaviours(f) \subseteq learned

\* History: what an alert is raised in ...
Raised(f) ==
  /\ heard' = [heard EXCEPT ![f] = {mode}]
  /\ familiar' = IF Baselined(f) THEN familiar \union {f} ELSE familiar

\* ... and the modes the engine is in until it has read its mode a second time.
Undecided(f) == \E t \in Responders : resp[t].at \in {"learning", "rules"} /\ resp[t].alert = f
Hears(m) ==
  heard' = [f \in Alerts |-> IF Undecided(f) THEN heard[f] \union {m} ELSE heard[f]]

FastPath(f) ==
  /\ f \in incoming \intersect FastHits /\ resp[Processor] = Free
  /\ incoming' = incoming \ {f}
  /\ \/ /\ stored' = stored \union {f}
        /\ resp' = [resp EXCEPT ![Processor] = Begin(f)] /\ Raised(f)
        /\ UNCHANGED faults
     \/ Fault /\ UNCHANGED <<stored, resp, heard, familiar>>
  /\ UNCHANGED <<scenario, mode, settings, modeFile, policyAuto, push, learned, rows,
                 pending, deciding, asked, acted, suppressed, unsaved, occupant>>

Analyze(f) ==
  /\ f \in incoming \ FastHits /\ resp[Analyzer] = Free
  /\ incoming' = incoming \ {f}
  /\ resp' = [resp EXCEPT ![Analyzer] = Begin(f)] /\ Raised(f)
  /\ UNCHANGED <<scenario, mode, settings, modeFile, policyAuto, push, learned, rows,
                 pending, deciding, stored, asked, acted, suppressed, unsaved, occupant,
                 faults>>

\* A store that fails ends the analyzer's cycle: the other findings of the cycle
\* are not looked at.
EndAnalysis ==
  /\ resp[Analyzer].at = "end"
  /\ LET f == resp[Analyzer].alert IN
     \/ /\ resp[Analyzer].allowed
        /\ suppressed' = suppressed \union {f} /\ UNCHANGED <<stored, incoming, faults>>
     \/ /\ ~resp[Analyzer].allowed
        /\ stored' = stored \union {f} /\ UNCHANGED <<suppressed, incoming, faults>>
     \/ /\ ~resp[Analyzer].allowed /\ Fault
        /\ incoming' = incoming \intersect FastHits
        /\ UNCHANGED <<stored, suppressed>>
  /\ resp' = [resp EXCEPT ![Analyzer] = Free]
  /\ UNCHANGED <<scenario, mode, settings, modeFile, policyAuto, push, learned, rows,
                 pending, deciding, asked, acted, heard, familiar, unsaved, occupant>>

EndFastPath ==
  /\ resp[Processor].at = "end"
  /\ resp' = [resp EXCEPT ![Processor] = Free]
  /\ UNCHANGED <<scenario, mode, settings, modeFile, policyAuto, push, incoming, learned,
                 rows, pending, deciding, stored, asked, acted, heard, familiar,
                 suppressed, unsaved, occupant, faults>>

-----------------------------------------------------------------------------
(* ResponseEngine.respond reads the mode twice, then goes through the      *)
(* actions of the severity.                                                *)

responseOnly == <<deciding, scenario, mode, settings, modeFile, policyAuto, push, incoming, stored,
                  asked, heard, familiar, suppressed, unsaved, occupant>>

\* Variant (a bug this code does not have): the mode is that of the settings.
CheckLearningBySettings(t) ==
  /\ resp[t].at = "learning"
  /\ LET f == resp[t].alert IN
     IF settings.mode = "learning"
     THEN /\ learned' = learned \union Behaviours(f)
          /\ Record(t, Row(f, "log", "not_required", "learning"),
                    [resp[t] EXCEPT !.at = "end"])
     ELSE /\ resp' = [resp EXCEPT ![t].at = "rules"]
          /\ UNCHANGED <<learned, rows, faults>>
  /\ UNCHANGED <<pending, acted, responseOnly>>

CheckLearning(t) ==
  /\ resp[t].at = "learning"
  /\ LET f == resp[t].alert IN
     IF mode = "learning"
     THEN /\ learned' = learned \union Behaviours(f)
          /\ Record(t, Row(f, "log", "not_required", "learning"),
                    [resp[t] EXCEPT !.at = "end"])
     ELSE /\ resp' = [resp EXCEPT ![t].at = "rules"]
          /\ UNCHANGED <<learned, rows, faults>>
  /\ UNCHANGED <<pending, acted, responseOnly>>

\* Blocklist, then allowlist, then baseline, in active mode only.
CheckRules(t) ==
  /\ resp[t].at = "rules"
  /\ LET f == resp[t].alert
         act == [resp[t] EXCEPT !.at = "act", !.todo = Actions(Severity[f])]
     IN CASE mode = "active" /\ f \in Allowed \ Blocked ->
               Record(t, Row(f, "log", "not_required", "allowlisted"),
                      [resp[t] EXCEPT !.at = "end", !.allowed = TRUE])
          [] mode = "active" /\ f \notin Allowed \union Blocked /\ Baselined(f) ->
               Record(t, Row(f, "log", "not_required", "baselined"),
                      [resp[t] EXCEPT !.at = "end"])
          [] OTHER -> resp' = [resp EXCEPT ![t] = act] /\ UNCHANGED <<rows, faults>>
  /\ UNCHANGED <<learned, pending, acted, responseOnly>>

\* What _do_execute needs for an action, None when the finding does not say it.
ObjectOf(f, action) == IF action = "suspend" THEN Target(f).pid ELSE Target(f).ip

After(r) == [r EXCEPT !.todo = Tail(@), !.at = IF Len(r.todo) = 1 THEN "end" ELSE "act"]

\* _execute_action, when there is nothing to execute.
RecordAction(t) ==
  /\ resp[t].at = "act"
  /\ LET f == resp[t].alert  action == Head(resp[t].todo)
         protects == action = "suspend" /\ Target(f).name \in Protected
         asks == ~protects /\ RequiresApproval(action)
     IN /\ \/ action \in {"log", "alert"} \/ protects \/ asks
           \/ ObjectOf(f, action) = None
        /\ pending' = IF asks THEN pending \union {<<f, action>>} ELSE pending
        /\ Record(t,
             CASE asks -> Row(f, action, "pending", "awaiting_approval")
               [] protects -> Row(f, action, "not_required", "blocked_protected")
               [] action \in {"log", "alert"} -> Row(f, action, "not_required", "success")
               [] OTHER -> Row(f, action, "auto_approved", "failed"),
             After(resp[t]))
  /\ UNCHANGED <<learned, acted, responseOnly>>

\* _execute_action as far as the call of the control ...
ExecuteAction(t) ==
  /\ resp[t].at = "act"
  /\ LET f == resp[t].alert  action == Head(resp[t].todo)  x == ObjectOf(f, action) IN
     /\ action \in {"suspend", "block"} /\ x # None
     /\ ~(action = "suspend" /\ Target(f).name \in Protected)
     /\ ~RequiresApproval(action)
     /\ Operation(t, action, x)
     /\ acted' = acted \union {[alert |-> f, action |-> action]}
  /\ resp' = [resp EXCEPT ![t].at = "executing"]
  /\ UNCHANGED <<learned, rows, pending, deciding, responseOnly>>

\* Variant (a bug this code does not have): only what succeeded is recorded.
RecordSuccess(t) ==
  /\ resp[t].at = "executing" /\ job[t] = Idle
  /\ LET f == resp[t].alert  action == Head(resp[t].todo) IN
     IF answer[t] = "success"
     THEN Record(t, Row(f, action, "auto_approved", answer[t]), After(resp[t]))
     ELSE resp' = [resp EXCEPT ![t] = After(@)] /\ UNCHANGED <<rows, faults>>
  /\ UNCHANGED <<learned, pending, acted, responseOnly>>

\* ... and what is recorded when the control has answered.
RecordOutcome(t) ==
  /\ resp[t].at = "executing" /\ job[t] = Idle
  /\ LET f == resp[t].alert  action == Head(resp[t].todo) IN
     Record(t, Row(f, action, "auto_approved", answer[t]), After(resp[t]))
  /\ UNCHANGED <<learned, pending, acted, responseOnly>>

-----------------------------------------------------------------------------
(* The operator and the fleet server. *)

CanAsk == asked < scenario.asks /\ asked' = asked + 1

\* The dashboard's button sets the mode of the engine, not of the settings.
SetMode(m) ==
  /\ CanAsk /\ m \in ValidModes
  /\ mode' = m /\ Hears(m)
  /\ UNCHANGED <<scenario, settings, modeFile, policyAuto, push, incoming, resp, learned,
                 rows, pending, deciding, stored, acted, familiar, suppressed, unsaved,
                 occupant, faults>>

\* The dashboard's decision on a row: that it is pending is read before
\* approval_status is updated, and nothing else is.
Decide(r, verdict) ==
  /\ rows[r].status = "pending"
  /\ deciding' = deciding \union {<<r, verdict>>}
  /\ UNCHANGED <<scenario, mode, settings, modeFile, policyAuto, push, incoming, resp,
                 learned, rows, pending, stored, asked, acted, heard, familiar,
                 suppressed, unsaved, occupant, faults>>

Decided(r, verdict) ==
  /\ <<r, verdict>> \in deciding
  /\ deciding' = deciding \ {<<r, verdict>>}
  /\ rows' = [rows EXCEPT ![r].status = verdict]
  /\ UNCHANGED <<scenario, mode, settings, modeFile, policyAuto, push, incoming, resp,
                 learned, pending, stored, asked, acted, heard, familiar, suppressed,
                 unsaved, occupant, faults>>

\* Variant (a bug this code does not have): the old mode is read after the new one
\* has been set.
PushConfigUnnoticed(m, auto) ==
  /\ CanAsk /\ push = NoPush
  /\ settings' = [settings EXCEPT !.mode = m]
  /\ push' = [mode |-> m, auto |-> auto,
              at |-> IF m = settings'.mode THEN "auto" ELSE "engine"]
  /\ UNCHANGED <<scenario, mode, modeFile, policyAuto, incoming, resp, learned, rows,
                 pending, deciding, stored, acted, heard, familiar, suppressed, unsaved,
                 occupant, faults>>

\* A signed configuration arrives with a heartbeat: the settings first; when the
\* mode is new, the engine and the file; auto_respond last.
PushConfig(m, auto) ==
  /\ CanAsk /\ push = NoPush
  /\ settings' = [settings EXCEPT !.mode = m]
  /\ push' = [mode |-> m, auto |-> auto,
              at |-> IF m = settings.mode THEN "auto" ELSE "engine"]
  /\ UNCHANGED <<scenario, mode, modeFile, policyAuto, incoming, resp, learned, rows,
                 pending, deciding, stored, acted, heard, familiar, suppressed, unsaved,
                 occupant, faults>>

\* set_mode raises for a mode it does not know: the settings keep it, the engine
\* and the file do not hear of it.
PushToEngine ==
  /\ push.at = "engine"
  /\ \/ /\ push.mode \in ValidModes
        /\ mode' = push.mode /\ Hears(push.mode)
        /\ push' = [push EXCEPT !.at = "file"]
     \/ /\ push.mode \notin ValidModes
        /\ push' = [push EXCEPT !.at = "auto"]
        /\ UNCHANGED <<mode, heard>>
  /\ UNCHANGED <<scenario, settings, modeFile, policyAuto, incoming, resp, learned, rows,
                 pending, deciding, stored, asked, acted, familiar, suppressed, unsaved,
                 occupant, faults>>

PersistMode ==
  /\ push.at = "file"
  /\ \/ modeFile' = push.mode /\ unsaved' = FALSE /\ UNCHANGED faults
     \/ Fault /\ unsaved' = TRUE /\ UNCHANGED modeFile
  /\ push' = [push EXCEPT !.at = "auto"]
  /\ UNCHANGED <<scenario, mode, settings, policyAuto, incoming, resp, learned, rows,
                 pending, deciding, stored, asked, acted, heard, familiar, suppressed,
                 occupant>>

PushAuto ==
  /\ push.at = "auto"
  /\ settings' = [settings EXCEPT !.auto = push.auto]
  /\ push' = NoPush
  /\ UNCHANGED <<scenario, mode, modeFile, policyAuto, incoming, resp, learned, rows,
                 pending, deciding, stored, asked, acted, heard, familiar, suppressed,
                 unsaved, occupant, faults>>

\* main() on start: the pushed mode before the configured one; the policy is as
\* configured; requests for approval were in memory.
Restored == IF modeFile # None THEN modeFile ELSE config.mode

EngineRestart ==
  /\ ControlsRestart
  /\ settings' = [config EXCEPT !.mode = Restored]
  /\ mode' = Restored /\ unsaved' = FALSE /\ policyAuto' = config.auto
  /\ push' = NoPush /\ pending' = {} /\ deciding' = {} /\ resp' = [t \in Responders |-> Free]
  /\ UNCHANGED <<scenario, modeFile, incoming, learned, rows, stored, asked, acted, heard,
                 familiar, suppressed, occupant>>

\* A process ends and its pid goes to a new one, of any name.
ReusePid(p, name) ==
  /\ occupant[p] # name
  /\ occupant' = [occupant EXCEPT ![p] = name]
  /\ process' = [process EXCEPT ![p] = "running"]
  /\ UNCHANGED <<firewallVars, hostsVars, fileVars, job, answer, clean, faults, platform,
                 calls, called, scenario, mode, settings, modeFile, policyAuto, push,
                 incoming, resp, learned, rows, pending, deciding, stored, asked, acted,
                 heard, familiar, suppressed, unsaved>>

-----------------------------------------------------------------------------

controlsButFaults == <<platform, calls, called, firewallVars, hostsVars, fileVars,
                       process, job, answer, clean>>

Respond(t) ==
  \/ ExecuteAction(t) /\ UNCHANGED <<platform, calls, called>>
  \/ /\ CheckLearning(t) \/ CheckRules(t) \/ RecordAction(t) \/ RecordOutcome(t)
     /\ UNCHANGED controlsButFaults

Operate ==
  /\ \/ \E m \in Modes : SetMode(m)
     \/ \E r \in DOMAIN rows, verdict \in {"approved", "denied"} :
          Decide(r, verdict) \/ Decided(r, verdict)
     \/ \E m \in Modes, auto \in BOOLEAN : PushConfig(m, auto)
     \/ PushToEngine \/ PersistMode \/ PushAuto
  /\ UNCHANGED controlsButFaults

Raise ==
  /\ \/ \E f \in Alerts : FastPath(f) \/ Analyze(f)
     \/ EndAnalysis \/ EndFastPath
  /\ UNCHANGED controlsButFaults

Controls ==
  /\ \/ \E t \in Callers \ Responders : Call(t)
     \/ \E t \in Callers : ControlStep(t) /\ UNCHANGED <<platform, calls, called>>
     \/ Tick /\ UNCHANGED <<platform, calls, called>>
  /\ UNCHANGED engineVars

EngineNext ==
  \/ \E t \in Responders : Respond(t)
  \/ Operate \/ Raise \/ Controls \/ EngineRestart
  \/ \E p \in Pids, name \in scenario.names : ReusePid(p, name)

EngineSpec == EngineInit /\ [][EngineNext]_<<controlVars, engineVars>>

-----------------------------------------------------------------------------
(* Properties. *)

\* What the engine does to the host is what its mode allows (README.md:146-149):
\* nothing for an alert it has looked at in learning mode only, and in active mode
\* only nothing that the blocklist does not force, the allowlist clears or the
\* baseline knew.  When the mode changes under respond(), which reads it twice,
\* either mode may decide.
ModeIsObeyed ==
  \A e \in acted :
    /\ heard[e.alert] # {"learning"}
    /\ heard[e.alert] = {"active"} =>
         e.alert \in Blocked \/ e.alert \notin Allowed \union familiar

\* In passive mode nothing is enforced, whatever auto_respond says (README.md:148
\* "Alerts on threats. No enforcement.").  The code disagrees.
PassiveNeverEnforces == \A e \in acted : heard[e.alert] # {"passive"}

\* What the engine has done is in the audit trail: each action that is not under
\* way has its row, but for those that a crash or a failed insertion has cut
\* off, at most one for each thread.
ActedIsRecorded ==
  LET Recorded(e) ==
        \/ \E i \in DOMAIN rows : rows[i].alert = e.alert /\ rows[i].action = e.action
        \/ \E t \in Responders : resp[t].at = "executing" /\ resp[t].alert = e.alert
  IN Cardinality({e \in acted : ~Recorded(e)}) <= Cardinality(Responders) * faults

\* A restart does not undo what the fleet server has pushed: once a push is over,
\* the mode that main() would start in is that of the settings -- unless the
\* file could not be written (the next push of that mode does not try again), or
\* the mode is one that set_mode refuses.
RestartKeepsMode ==
  push = NoPush /\ ~unsaved /\ settings.mode \in ValidModes => Restored = settings.mode
=============================================================================
