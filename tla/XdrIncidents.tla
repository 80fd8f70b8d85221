---------------------------- MODULE XdrIncidents ----------------------------
(***************************************************************************)
(* The life of an incident on the fleet server: SendFindings handlers that *)
(* detect one (server/grpc_service.py, server/neo4j_client.py), the        *)
(* orchestrator's thread that sweeps, watches and closes it                *)
(* (server/xdr_orchestrator.py) and the administrator who may close it or  *)
(* ask for logs at any time (server/dashboard.py).  The queries it needs   *)
(* travel as FederatedQueries says.                                        *)
(*                                                                         *)
(* All of them write the same Incident nodes, each from what it has read   *)
(* before, without a transaction around the two.  An incident is named by  *)
(* its position in the order of creation.                                  *)
(***************************************************************************)
EXTENDS FederatedQueries, SequencesExt

CONSTANTS
  Findings,         \* Findings of medium severity or more that show movement.
  Origin, Target,   \* From which agent to which; vertical movement if equal.
  Detectors,        \* Threads of SendFindings.
  MaxQueries,       \* Bound: no pull is enqueued when the table is that long.
  MaxManual         \* Bound: pulls asked for by the administrator.

ASSUME XdrAssumption ==
  /\ Origin \in [Findings -> Agents] /\ Target \in [Findings -> Agents]
  /\ MaxQueries \in Nat /\ MaxManual \in Nat

Statuses  == {"detected", "sweeping", "active", "closed"}

\* timedOut: more than query_timeout has passed since created_at.
Incidents ==
  [src : Agents, dst : Agents, status : Statuses, sources : SUBSET Findings,
   timedOut : BOOLEAN]

VARIABLES
  incidents,   \* The Incident nodes.
  pc,          \* The orchestrator's phase: "sweep", "check", "watch".
  todo,        \* What is left of the rows it read when the phase began.
  step,        \* Queries it has dealt with for the first of them.
  detect,      \* By detector: where it stands, for which finding and incident.
  received,    \* Findings that have reached the detection.
  asking,      \* Incident that the administrator's request is about, or 0.
  manual       \* History: requests for logs.

orchVars  == <<pc, todo, step>>
adminVars == <<asking, manual>>
vars == <<queryVars, incidents, orchVars, detect, received, adminVars>>

Idle == [at |-> "idle"]
At(where, f, i) == [at |-> where, finding |-> f, incident |-> i]

Init ==
  /\ QueryInit
  /\ incidents = <<>>
  /\ pc = "watch" /\ todo = <<>> /\ step = 0
  /\ detect = [d \in Detectors |-> Idle] /\ received = {}
  /\ asking = 0 /\ manual = 0

SetStatus(i, status) == incidents' = [incidents EXCEPT ![i].status = status]

Vertical(f) == Origin[f] = Target[f]

-----------------------------------------------------------------------------
(* The orchestrator. *)

\* get_incidents_by_status joins the source findings: one row for each of them.
get_incidents_by_status(status) ==
  FlattenSeq([i \in DOMAIN incidents |->
    [j \in 1..(IF incidents[i].status = status THEN Cardinality(incidents[i].sources) ELSE 0)
       |-> i]])

PhaseAfter == [watch |-> "sweep", sweep |-> "check", check |-> "watch"]
StatusRead == [sweep |-> "detected", check |-> "sweeping", watch |-> "active"]

\* A phase reads its incidents once.
NextPhase ==
  /\ todo = <<>>
  /\ pc' = PhaseAfter[pc]
  /\ todo' = get_incidents_by_status(StatusRead[pc'])
  /\ UNCHANGED <<queryVars, incidents, step, detect, received, adminVars>>

RowDone == todo' = Tail(todo) /\ step' = 0

SweepOrder == <<"victim", "source", "ocsf_dst", "ocsf_src">>

AgentOf(i, type) ==
  IF type \in {"victim", "ocsf_dst", "surv_dst"} THEN incidents[i].dst ELSE incidents[i].src

\* _process_detected: four queries, each its own transaction.
Enqueue ==
  /\ pc = "sweep" /\ todo # <<>> /\ step < Len(SweepOrder)
  /\ LET i == Head(todo) type == SweepOrder[step + 1] IN
       enqueue_xdr_query(i, type, AgentOf(i, type))
  /\ step' = step + 1
  /\ UNCHANGED <<evidence, agentVars, handlerVars, cut, faults, incidents, pc, todo, detect,
                 received, adminVars>>

\* Variants: the status is set before the last query is enqueued, or before the
\* second trace is.
SetSweepingEarly ==
  /\ pc = "sweep" /\ todo # <<>> /\ step = Len(SweepOrder) - 1
  /\ SetStatus(Head(todo), "sweeping")
  /\ RowDone
  /\ UNCHANGED <<queryVars, pc, detect, received, adminVars>>

SetSweepingAfterVictim ==
  /\ pc = "sweep" /\ todo # <<>> /\ step = 1
  /\ SetStatus(Head(todo), "sweeping")
  /\ RowDone
  /\ UNCHANGED <<queryVars, pc, detect, received, adminVars>>

\* update_incident_status, whatever the status is by now.
SetSweeping ==
  /\ pc = "sweep" /\ todo # <<>> /\ step = Len(SweepOrder)
  /\ SetStatus(Head(todo), "sweeping")
  /\ RowDone
  /\ UNCHANGED <<queryVars, pc, detect, received, adminVars>>

\* get_xdr_result reads the latest query for each trace; created_at counts
\* seconds, so of several queries any may be the one.
TracesDone(i) == \A t \in Traces : \E q \in Asked(i, t) : ~Pending(q)
TracesOpen(i) == \E t \in Traces : Asked(i, t) = {} \/ \E q \in Asked(i, t) : Pending(q)

\* _process_sweeping.
Activate ==
  /\ pc = "check" /\ todo # <<>>
  /\ TracesDone(Head(todo)) \/ incidents[Head(todo)].timedOut
  /\ SetStatus(Head(todo), "active")
  /\ RowDone
  /\ UNCHANGED <<queryVars, pc, detect, received, adminVars>>

LeaveSweeping ==
  /\ pc = "check" /\ todo # <<>>
  /\ TracesOpen(Head(todo)) /\ ~incidents[Head(todo)].timedOut
  /\ RowDone
  /\ UNCHANGED <<queryVars, incidents, pc, detect, received, adminVars>>

\* _process_active: updated_at, as it was read, is older than the TTL.
CloseStale ==
  /\ pc = "watch" /\ todo # <<>> /\ step = 0
  /\ SetStatus(Head(todo), "closed")
  /\ RowDone
  /\ UNCHANGED <<queryVars, pc, detect, received, adminVars>>

PullOrder == <<"surv_dst", "surv_src">>

\* Variant: the pulls that are pending are not looked for.
PullWhenDue ==
  /\ pc = "watch" /\ todo # <<>>
  /\ LET i == Head(todo) type == PullOrder[step + 1] IN
       \/ Len(queries) < MaxQueries /\ enqueue_xdr_query(i, type, AgentOf(i, type))
       \/ UNCHANGED queries
  /\ IF step + 1 = Len(PullOrder) THEN RowDone ELSE step' = step + 1 /\ UNCHANGED todo
  /\ UNCHANGED <<evidence, agentVars, handlerVars, cut, faults, incidents, pc, detect,
                 received, adminVars>>

\* A side that is due, has something to look for and no pull pending gets one.
\* (Looking and enqueuing are one step: only this thread and the administrator
\* enqueue pulls, and the latter's own delay allows the same tables.)
Pull ==
  /\ pc = "watch" /\ todo # <<>>
  /\ LET i == Head(todo) type == PullOrder[step + 1] IN
       \/ /\ Len(queries) < MaxQueries /\ ~has_pending_xdr_query(i, type)
          /\ enqueue_xdr_query(i, type, AgentOf(i, type))
       \/ UNCHANGED queries
  /\ IF step + 1 = Len(PullOrder) THEN RowDone ELSE step' = step + 1 /\ UNCHANGED todo
  /\ UNCHANGED <<evidence, agentVars, handlerVars, cut, faults, incidents, pc, detect,
                 received, adminVars>>

\* An exception ends the phase: _run logs it and goes on with the next.
PhaseFails ==
  /\ todo # <<>> /\ Fault
  /\ todo' = <<>> /\ step' = 0
  /\ UNCHANGED <<queries, evidence, agentVars, handlerVars, cut, incidents, pc, detect,
                 received, adminVars>>

OrchestratorStep ==
  NextPhase \/ Enqueue \/ SetSweeping \/ Activate \/ LeaveSweeping \/ CloseStale \/ Pull

TimePasses(i) ==
  /\ ~incidents[i].timedOut
  /\ incidents' = [incidents EXCEPT ![i].timedOut = TRUE]
  /\ UNCHANGED <<queryVars, orchVars, detect, received, adminVars>>

-----------------------------------------------------------------------------
(* SendFindings: campaign grouping and creation, for one finding.  Target is *)
(* the one host that its addresses match; without a match of another host it *)
(* may still show vertical movement.                                         *)

Goto(d, state) == detect' = [detect EXCEPT ![d] = state]

Campaigns(f) ==
  {i \in DOMAIN incidents :
     /\ incidents[i].status # "closed"
     /\ {incidents[i].src, incidents[i].dst} \intersect {Origin[f], Target[f]} # {}}

\* find_active_campaign: the latest of those created in the last twelve hours
\* (at a resolution of a second), if any.  The agent forwards a finding again
\* when the answer to its first call is lost.
find_active_campaign(d, f) ==
  /\ detect[d] = Idle
  /\ IF f \in received THEN Fault ELSE UNCHANGED faults
  /\ received' = received \union {f}
  /\ \/ \E i \in Campaigns(f) : Goto(d, At("append", f, i))
     \/ /\ \A i \in Campaigns(f) : incidents[i].timedOut
        /\ Goto(d, At(IF Vertical(f) THEN "create" ELSE "check", f, 0))
  /\ UNCHANGED <<queries, evidence, agentVars, handlerVars, cut, incidents, orchVars, adminVars>>

append_finding_to_incident(d) ==
  /\ detect[d].at = "append"
  /\ incidents' = [incidents EXCEPT ![detect[d].incident].sources = @ \union {detect[d].finding}]
  /\ Goto(d, Idle)
  /\ UNCHANGED <<queryVars, orchVars, received, adminVars>>

\* For lateral movement, an incident of the same finding and pivot address is
\* enough, closed or not.
has_incident_for_finding(d) ==
  /\ detect[d].at = "check"
  /\ LET f == detect[d].finding
         known == \E i \in DOMAIN incidents :
                    /\ f \in incidents[i].sources
                    /\ incidents[i].src # incidents[i].dst /\ incidents[i].dst = Target[f]
     IN Goto(d, IF known THEN Idle ELSE At("create", f, 0))
  /\ UNCHANGED <<queryVars, incidents, orchVars, received, adminVars>>

create_incident(d) ==
  /\ detect[d].at = "create" /\ Len(incidents) < MaxIncidents
  /\ LET f == detect[d].finding IN
       /\ incidents' = Append(incidents,
            [src |-> Origin[f], dst |-> Target[f], status |-> "detected", sources |-> {f},
             timedOut |-> FALSE])
       /\ Goto(d, IF Vertical(f) THEN At("retype", f, Len(incidents')) ELSE Idle)
  /\ UNCHANGED <<queryVars, orchVars, received, adminVars>>

\* For vertical movement the status is written again, before incident_type.
RetypeVertical(d) ==
  /\ detect[d].at = "retype"
  /\ SetStatus(detect[d].incident, "detected")
  /\ Goto(d, Idle)
  /\ UNCHANGED <<queryVars, orchVars, received, adminVars>>

\* An exception is logged and the next finding taken up.
DetectionFails(d) ==
  /\ detect[d] # Idle /\ Fault
  /\ Goto(d, Idle)
  /\ UNCHANGED <<queries, evidence, agentVars, handlerVars, cut, incidents, orchVars, received,
                 adminVars>>

DetectorStep(d) ==
  \/ \E f \in Findings : find_active_campaign(d, f)
  \/ append_finding_to_incident(d) \/ has_incident_for_finding(d) \/ create_incident(d)
  \/ RetypeVertical(d) \/ DetectionFails(d)

-----------------------------------------------------------------------------
(* The administrator. *)

close_incident(i) ==
  /\ SetStatus(i, "closed")
  /\ UNCHANGED <<queryVars, orchVars, detect, received, adminVars>>

\* pull_surveillance_logs: refused for an active incident, ...
AskForLogs(i) ==
  /\ asking = 0 /\ manual < MaxManual /\ incidents[i].status # "active"
  /\ asking' = i /\ manual' = manual + 1
  /\ UNCHANGED <<queryVars, incidents, orchVars, detect, received>>

\* ... and otherwise enqueued for the ends that have something to look for,
\* whether a pull is pending or not.  (Two transactions in one step: if the
\* server stops between them, it is as if the second end had nothing.)
PullManually ==
  /\ asking # 0 /\ Len(queries) < MaxQueries
  /\ \E ends \in {<<>>, <<"surv_dst">>, <<"surv_src">>, PullOrder} :
       queries' = queries \o
         [n \in DOMAIN ends |->
            [incident |-> asking, type |-> ends[n], agent |-> AgentOf(asking, ends[n]),
             status |-> "pending"]]
  /\ asking' = 0
  /\ UNCHANGED <<evidence, agentVars, handlerVars, cut, faults, incidents, orchVars, detect,
                 received, manual>>

-----------------------------------------------------------------------------
\* The server's process ends, with its threads and calls; the two databases
\* stay.
ServerRestarts ==
  /\ Fault /\ LoseHandlers
  /\ pc' = "watch" /\ todo' = <<>> /\ step' = 0
  /\ detect' = [d \in Detectors |-> Idle] /\ asking' = 0
  /\ UNCHANGED <<incidents, received, manual>>

restVars == <<incidents, orchVars, detect, received, adminVars>>

Next ==
  \/ QueryStep /\ UNCHANGED restVars
  \/ OrchestratorStep \/ PhaseFails
  \/ \E d \in Detectors : DetectorStep(d)
  \/ \E i \in DOMAIN incidents : TimePasses(i) \/ close_incident(i) \/ AskForLogs(i)
  \/ PullManually \/ ServerRestarts

Spec == Init /\ [][Next]_vars

\* The threads of agents and orchestrator run, and so do the handlers that an agent
\* waits for; nothing is assumed of the handlers whose caller has given up, of
\* findings, of the administrator and of clocks.
Fairness ==
  /\ WF_vars(OrchestratorStep)
  /\ \A a \in Agents : /\ WF_vars(SendHeartbeat(a) /\ UNCHANGED restVars)
                       /\ WF_vars(HandlerStep(a) /\ UNCHANGED restVars)

FairSpec == Spec /\ Fairness

-----------------------------------------------------------------------------
(* Properties. *)

\* Everything has its type; in particular a phase's rows and a detector's
\* incident name incidents that exist (_process_*, create_incident).
TypeOK ==
  /\ QueryTypeOK
  /\ incidents \in Seq(Incidents) /\ Len(incidents) <= MaxIncidents
  /\ pc \in DOMAIN PhaseAfter /\ todo \in Seq(DOMAIN incidents)
  /\ step \in 0..Len(SweepOrder)
  /\ todo = <<>> => step = 0
  /\ \A d \in Detectors :
       \/ detect[d] = Idle
       \/ /\ detect[d].at \in {"append", "check", "create", "retype"}
          /\ detect[d].finding \in received
          /\ detect[d].incident \in (IF detect[d].at \in {"append", "retype"}
                                     THEN DOMAIN incidents ELSE {0})
  /\ received \subseteq Findings
  /\ asking \in {0} \union DOMAIN incidents /\ manual \in 0..MaxManual

\* An incident that is being swept or watched has been asked about in full,
\* whatever the orchestrator and the others overwrote, and wherever the server
\* stopped: the four queries are enqueued one by one, the status comes last.
SweptIsAsked ==
  \A i \in DOMAIN incidents :
    incidents[i].status \in {"sweeping", "active"} =>
      \A n \in DOMAIN SweepOrder : Asked(i, SweepOrder[n]) # {}

\* The log of a side is not pulled twice at a time, but for what the
\* administrator asks for: pulls do not pile up for an agent that is away
\* (has_pending_xdr_query; an incident has a row for each finding).
PullsDoNotPileUp ==
  \A i \in DOMAIN incidents : \A t \in SurvPulls :
    Cardinality({q \in Asked(i, t) : Pending(q)}) <= 1 + manual

\* An incident that was detected gets to be active or closed: whatever results
\* were lost on the way, its traces are answered in the end.
DetectedIsSettled ==
  \A i \in 1..MaxIncidents :
    (i \in DOMAIN incidents /\ incidents[i].status = "detected") ~>
      (i \in DOMAIN incidents /\ incidents[i].status \in {"active", "closed"})
=============================================================================
