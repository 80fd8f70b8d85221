-------------------------- MODULE XdrIncidentsProofs --------------------------
(***************************************************************************)
(* Proofs about XdrIncidents and the queries it asks (FederatedQueries),   *)
(* for every value of the constants.                                       *)
(***************************************************************************)
EXTENDS XdrIncidents, SequenceLemmas

-----------------------------------------------------------------------------
(* The inductive invariant. *)

AskedInFull(i) == \A n \in DOMAIN SweepOrder : Asked(i, SweepOrder[n]) # {}

PendingPulls(i, t) == {q \in Asked(i, t) : Pending(q)}

\* Each phase counts its own steps.
StepInv ==
  /\ pc = "check" => step = 0
  /\ pc = "watch" => step \in 0..(Len(PullOrder) - 1)

\* Every detector is somewhere, and an incident has finitely many findings.
DetectInv ==
  /\ detect = [d \in Detectors |-> detect[d]]
  /\ \A i \in DOMAIN incidents : IsFiniteSet(incidents[i].sources)

\* While an incident is swept, what the orchestrator has gone through is asked.
SweepInv ==
  pc = "sweep" /\ todo # <<>> =>
    \A n \in 1..step : Asked(Head(todo), SweepOrder[n]) # {}

\* The rows of the other phases were read from incidents that had been asked
\* about in full; the status may be another one by now.
RowsInv ==
  pc \in {"check", "watch"} => \A k \in DOMAIN todo : AskedInFull(todo[k])

\* A request of the administrator that is under way has been counted, and the
\* pull it may still add too.
PullsInv ==
  /\ asking # 0 => manual > 0
  /\ \A i \in 1..MaxIncidents : \A t \in SurvPulls :
       Cardinality(PendingPulls(i, t)) <= (IF asking = 0 THEN 1 ELSE 0) + manual

XdrInv ==
  /\ TypeOK /\ StepInv /\ DetectInv /\ SweepInv /\ RowsInv /\ PullsInv
  /\ PullsAreStored /\ SweptIsAsked

-----------------------------------------------------------------------------
(* Queries: rows are added and completed, never taken away or changed else. *)

QueriesGrow ==
  /\ DOMAIN queries \subseteq DOMAIN queries'
  /\ \A q \in DOMAIN queries :
       queries'[q].incident = queries[q].incident /\ queries'[q].type = queries[q].type

\* What was asked stays asked.
LEMMA AskedGrows ==
  ASSUME QueriesGrow, NEW i, NEW t
  PROVE  Asked(i, t) \subseteq Asked(i, t)'
BY DEF QueriesGrow, Asked

\* A query that is completed keeps the rest of its row.
LEMMA CompleteKeeps ==
  ASSUME queries \in Seq(Queries), NEW q \in DOMAIN queries,
         queries' = [queries EXCEPT ![q].status = "completed"]
  PROVE  /\ queries' \in Seq(Queries) /\ DOMAIN queries' = DOMAIN queries
         /\ QueriesGrow
         /\ \A r \in DOMAIN queries : Pending(r)' <=> Pending(r) /\ r # q
<1>1. queries \in [1..Len(queries) -> Queries] /\ Len(queries) \in Nat
      /\ DOMAIN queries = 1..Len(queries)
  BY LenProperties
<1> DEFINE done == [queries[q] EXCEPT !.status = "completed"]
<1>2. done \in Queries /\ done.incident = queries[q].incident
      /\ done.type = queries[q].type /\ done.status = "completed"
  BY <1>1 DEF Queries
<1>3. queries' = [queries EXCEPT ![q] = done]
  OBVIOUS
<1> HIDE DEF done
<1>4. queries' \in Seq(Queries) /\ Len(queries') = Len(queries)
      /\ \A r \in 1..Len(queries) : queries'[r] = IF r = q THEN done ELSE queries[r]
  BY <1>1, <1>2, <1>3, ExceptSeq
<1>5. DOMAIN queries' = DOMAIN queries
  BY <1>1, <1>3
<1> QED BY <1>1, <1>2, <1>4, <1>5 DEF QueriesGrow, Pending

\* The calls between agents and server keep the types and lose no records, and
\* they add no query and make none pending again (complete_xdr_query).
LEMMA QueryStepKeeps ==
  ASSUME QueryTypeOK, PullsAreStored, QueryStep
  PROVE  /\ QueryTypeOK' /\ PullsAreStored'
         /\ QueriesGrow /\ DOMAIN queries' = DOMAIN queries
         /\ \A q \in DOMAIN queries : Pending(q)' => Pending(q)
<1> DEFINE Goal == /\ QueryTypeOK' /\ PullsAreStored'
                   /\ QueriesGrow /\ DOMAIN queries' = DOMAIN queries
                   /\ \A q \in DOMAIN queries : Pending(q)' => Pending(q)
<1>1. TimedOut \in Handlers /\ Agents \subseteq Handlers /\ MaxFaults \in Nat
      /\ TimedOut \notin Agents
  BY QueryAssumption DEF Handlers
<1>2. Fault => faults' \in 0..MaxFaults
  BY <1>1 DEF Fault, QueryTypeOK
<1>3. DOMAIN queries \subseteq Nat
  BY LenProperties DEF QueryTypeOK
\* A step that leaves the table alone and what is stored, cut or being stored.
<1>4. ASSUME UNCHANGED queries, QueryTypeOK',
             evidence \union cut \union UNION {storing[h] : h \in Handlers} \subseteq
               evidence' \union cut' \union UNION {storing'[h] : h \in Handlers}
      PROVE  Goal
  BY <1>4 DEF PullsAreStored, Pending, QueriesGrow
<1>5. ASSUME NEW a \in Agents, SendHeartbeat(a) PROVE Goal
  <2>1. QueryTypeOK'
    BY <1>1, <1>5 DEF SendHeartbeat, QueryTypeOK
  <2> QED BY <1>4, <1>5, <2>1 DEF SendHeartbeat
<1>6. ASSUME NEW a \in Agents, HeartbeatFails(a) PROVE Goal
  <2>1. QueryTypeOK'
    <3>1. heartbeat' \in [Agents -> {"idle", "sent"}] /\ faults' \in 0..MaxFaults
      BY <1>2, <1>6 DEF HeartbeatFails, QueryTypeOK
    <3>2. serving' \in [Handlers -> SUBSET DOMAIN queries]
      BY <1>1, <1>6, SMTT(30) DEF HeartbeatFails, QueryTypeOK
    <3>3. reading' \in [Handlers -> SUBSET DOMAIN queries]
      BY <1>1, <1>6, SMTT(30) DEF HeartbeatFails, QueryTypeOK
    <3>4. storing' \in [Handlers -> SUBSET DOMAIN queries]
      BY <1>1, <1>6, SMTT(30) DEF HeartbeatFails, QueryTypeOK
    <3>5. UNCHANGED <<queries, evidence, results, cut>>
      BY <1>6 DEF HeartbeatFails
    <3> QED BY <3>1, <3>2, <3>3, <3>4, <3>5 DEF QueryTypeOK
  <2>2. UNION {storing[h] : h \in Handlers} \subseteq UNION {storing'[h] : h \in Handlers}
    <3>1. ASSUME NEW h \in Handlers, NEW q \in storing[h]
          PROVE  \E k \in Handlers : q \in storing'[k]
      <4>1. CASE UNCHANGED storing
        BY <4>1
      <4>2. CASE storing' = [storing EXCEPT ![a] = {}, ![TimedOut] = @ \union storing[a]]
        <5>1. h = a => q \in storing'[TimedOut]
          BY <1>1, <4>2 DEF QueryTypeOK
        <5>2. h = TimedOut => q \in storing'[TimedOut]
          BY <1>1, <4>2 DEF QueryTypeOK
        <5>3. h # a /\ h # TimedOut => storing'[h] = storing[h]
          BY <4>2 DEF QueryTypeOK
        <5> QED BY <1>1, <5>1, <5>2, <5>3
      <4> QED BY <1>6, <4>1, <4>2 DEF HeartbeatFails
    <3> QED BY <3>1
  <2> QED BY <1>4, <1>6, <2>1, <2>2 DEF HeartbeatFails
<1>7. ASSUME NEW a \in Agents, AgentRestarts(a) PROVE Goal
  <2>1. QueryTypeOK'
    BY <1>2, <1>7 DEF AgentRestarts, handlerVars, QueryTypeOK
  <2> QED BY <1>4, <1>7, <2>1 DEF AgentRestarts, handlerVars
<1>8. ASSUME NEW h \in Handlers, ReadQuery(h) PROVE Goal
  <2>1. PICK q \in serving[h] :
          /\ serving' = [serving EXCEPT ![h] = @ \ {q}]
          /\ reading' = [reading EXCEPT ![h] = IF Pending(q) THEN @ \union {q} ELSE @]
    BY <1>8 DEF ReadQuery, NextResults
  <2>2. QueryTypeOK'
    BY <1>8, <2>1 DEF ReadQuery, agentVars, QueryTypeOK
  <2> QED BY <1>4, <1>8, <2>2 DEF ReadQuery
<1>9. ASSUME NEW h \in Handlers, Complete(h) PROVE Goal
  <2>1. PICK q \in reading[h] :
          /\ queries' = [queries EXCEPT ![q].status = "completed"]
          /\ storing' = [storing EXCEPT ![h] =
                           IF queries[q].type \notin Traces THEN @ \union {q} ELSE @]
          /\ reading' = [reading EXCEPT ![h] = @ \ {q}]
    BY <1>9 DEF Complete, complete_xdr_query
  <2>2. q \in DOMAIN queries /\ UNCHANGED <<evidence, agentVars, serving, cut, faults>>
    BY <1>9 DEF Complete, QueryTypeOK
  <2>3. /\ queries' \in Seq(Queries) /\ DOMAIN queries' = DOMAIN queries
        /\ QueriesGrow
        /\ \A r \in DOMAIN queries : Pending(r)' <=> Pending(r) /\ r # q
    BY <2>1, <2>2, CompleteKeeps DEF QueryTypeOK
  <2>4. QueryTypeOK'
    <3>1. storing' \in [Handlers -> SUBSET DOMAIN queries]
      BY <2>1, <2>2 DEF QueryTypeOK
    <3>2. reading' \in [Handlers -> SUBSET DOMAIN queries]
      BY <2>1, <2>2 DEF QueryTypeOK
    <3> QED BY <2>2, <2>3, <3>1, <3>2 DEF QueryTypeOK, agentVars
  <2>5. \A k \in Handlers : storing[k] \subseteq storing'[k]
    BY <2>1 DEF QueryTypeOK
  <2>6. queries[q].type \notin Traces => q \in storing'[h]
    BY <2>1 DEF QueryTypeOK
  <2>7. PullsAreStored'
    <3> SUFFICES ASSUME NEW r \in DOMAIN queries, ~Pending(r)', queries[r].type \notin Traces
                 PROVE  r \in evidence \union cut \union UNION {storing'[k] : k \in Handlers}
      BY <2>2, <2>3 DEF PullsAreStored, QueriesGrow
    <3>1. CASE ~Pending(r)
      <4>1. r \in evidence \union cut \union UNION {storing[k] : k \in Handlers}
        BY <3>1 DEF PullsAreStored
      <4> QED BY <2>5, <4>1
    <3>2. CASE Pending(r)
      <4>1. r = q
        BY <2>3, <3>2
      <4> QED BY <2>6, <4>1
    <3> QED BY <3>1, <3>2
  <2> QED BY <2>3, <2>4, <2>7
<1>10. ASSUME NEW h \in Handlers, Ingest(h) PROVE Goal
  <2>1. PICK q \in storing[h] :
          evidence' = evidence \union {q} /\ storing' = [storing EXCEPT ![h] = @ \ {q}]
    BY <1>10 DEF Ingest
  <2>2. QueryTypeOK'
    BY <1>10, <2>1 DEF Ingest, agentVars, QueryTypeOK
  <2>3. \A k \in Handlers : storing[k] \subseteq evidence' \union storing'[k]
    BY <2>1 DEF QueryTypeOK
  <2> QED BY <1>4, <1>10, <2>1, <2>2, <2>3 DEF Ingest
<1>11. ASSUME NEW h \in Handlers, IngestFails(h) PROVE Goal
  <2>1. PICK q \in storing[h], others \in SUBSET serving[h] :
          /\ cut' = cut \union {q} /\ storing' = [storing EXCEPT ![h] = @ \ {q}]
          /\ serving' = [serving EXCEPT ![h] = others]
    BY <1>11 DEF IngestFails
  <2>2. QueryTypeOK'
    BY <1>2, <1>11, <2>1 DEF IngestFails, QueryTypeOK
  <2>3. \A k \in Handlers : storing[k] \subseteq cut' \union storing'[k]
    BY <2>1 DEF QueryTypeOK
  <2> QED BY <1>4, <1>11, <2>1, <2>2, <2>3 DEF IngestFails
<1>12. ASSUME NEW a \in Agents, Reply(a) PROVE Goal
  <2> DEFINE offered == get_pending_queries_for_agent(a)
  <2>1. offered \in SUBSET DOMAIN queries
    BY DEF get_pending_queries_for_agent
  <2>2. /\ heartbeat' \in [Agents -> {"idle", "sent"}]
        /\ results' \in [Agents -> SUBSET DOMAIN queries] /\ faults' \in 0..MaxFaults
    <3> HIDE DEF offered
    <3>1. Answers(a, offered)
      BY <1>12 DEF Reply, offered
    <3>2. heartbeat' \in [Agents -> {"idle", "sent"}]
      BY <3>1 DEF Answers, QueryTypeOK
    <3>3. CASE results' = [results EXCEPT ![a] = offered] /\ UNCHANGED faults
      BY <2>1, <3>2, <3>3 DEF QueryTypeOK
    <3>4. CASE \E q \in offered : results' = [results EXCEPT ![a] = offered \ {q}] /\ Fault
      BY <1>2, <2>1, <3>2, <3>4 DEF QueryTypeOK
    <3> QED BY <3>1, <3>3, <3>4 DEF Answers
  <2>3. QueryTypeOK'
    BY <1>12, <2>2 DEF Reply, handlerVars, QueryTypeOK
  <2> QED BY <1>4, <1>12, <2>3 DEF Reply, handlerVars
<1> QED BY <1>5, <1>6, <1>7, <1>8, <1>9, <1>10, <1>11, <1>12 DEF QueryStep, HandlerStep

\* New rows come after the ones that are there, and are pending (xdr_queries).
LEMMA EnqueueKeeps ==
  ASSUME QueryTypeOK, PullsAreStored,
         NEW new \in Seq(Queries), \A n \in DOMAIN new : new[n].status = "pending",
         queries' = queries \o new,
         UNCHANGED <<evidence, agentVars, handlerVars, cut, faults>>
  PROVE  /\ QueryTypeOK' /\ PullsAreStored' /\ QueriesGrow
         /\ DOMAIN queries' = 1..(Len(queries) + Len(new))
         /\ \A q \in DOMAIN queries : queries'[q] = queries[q]
         /\ \A q \in DOMAIN queries' \ DOMAIN queries :
              q - Len(queries) \in DOMAIN new /\ queries'[q] = new[q - Len(queries)]
         /\ \A n \in DOMAIN new :
              Len(queries) + n \in DOMAIN queries' /\ queries'[Len(queries) + n] = new[n]
<1>1. /\ Len(queries) \in Nat /\ Len(new) \in Nat
      /\ DOMAIN queries = 1..Len(queries) /\ DOMAIN new = 1..Len(new)
  BY LenProperties DEF QueryTypeOK
<1>2. /\ queries' \in Seq(Queries) /\ Len(queries') = Len(queries) + Len(new)
      /\ \A q \in 1..(Len(queries) + Len(new)) :
           queries'[q] = IF q <= Len(queries) THEN queries[q] ELSE new[q - Len(queries)]
  <2>1. queries \in Seq(Queries)
    BY DEF QueryTypeOK
  <2> QED BY <2>1, ConcatProperties
<1>3. DOMAIN queries' = 1..(Len(queries) + Len(new))
  BY <1>2, LenProperties
<1>4. \A q \in DOMAIN queries : q \in DOMAIN queries' /\ queries'[q] = queries[q]
  BY <1>1, <1>2, <1>3
<1>5. \A q \in DOMAIN queries' \ DOMAIN queries :
        q - Len(queries) \in DOMAIN new /\ queries'[q] = new[q - Len(queries)]
  BY <1>1, <1>2, <1>3
<1>6. \A n \in DOMAIN new :
        Len(queries) + n \in DOMAIN queries' /\ queries'[Len(queries) + n] = new[n]
  <2> TAKE n \in DOMAIN new
  <2>1. n \in 1..Len(new) /\ (Len(queries) + n) - Len(queries) = n /\ ~(Len(queries) + n <= Len(queries))
    BY <1>1
  <2> QED BY <1>1, <1>2, <1>3, <2>1
<1>7. QueriesGrow
  BY <1>4 DEF QueriesGrow
<1>8. QueryTypeOK'
  BY <1>2, <1>4 DEF QueryTypeOK, agentVars, handlerVars
<1>9. PullsAreStored'
  BY <1>4, <1>5 DEF PullsAreStored, Pending, handlerVars
<1> QED BY <1>3, <1>4, <1>5, <1>6, <1>7, <1>8, <1>9

\* The process of the server ends: what its handlers had not stored is cut.
LEMMA LoseHandlersKeeps ==
  ASSUME QueryTypeOK, PullsAreStored, LoseHandlers, Fault
  PROVE  QueryTypeOK' /\ PullsAreStored'
<1>1. faults' \in 0..MaxFaults
  BY QueryAssumption DEF Fault, QueryTypeOK
<1>2. UNION {storing[h] : h \in Handlers} \subseteq cut' /\ cut \subseteq cut'
      /\ cut' \subseteq DOMAIN queries
  BY DEF LoseHandlers, QueryTypeOK
<1>3. QueryTypeOK'
  BY <1>1, <1>2 DEF LoseHandlers, QueryTypeOK
<1>4. PullsAreStored'
  BY <1>2 DEF LoseHandlers, PullsAreStored, Pending
<1> QED BY <1>3, <1>4

LEMMA PullsAreFinite ==
  ASSUME QueryTypeOK, NEW i, NEW t
  PROVE  IsFiniteSet(PendingPulls(i, t)) /\ Cardinality(PendingPulls(i, t)) \in Nat
<1>1. DOMAIN queries = 1..Len(queries) /\ Len(queries) \in Nat
  BY LenProperties DEF QueryTypeOK
<1>2. IsFiniteSet(DOMAIN queries)
  BY <1>1, FS_Interval
<1>3. PendingPulls(i, t) \subseteq DOMAIN queries
  BY DEF PendingPulls, Asked
<1>4. IsFiniteSet(PendingPulls(i, t))
  BY <1>2, <1>3, FS_Subset
<1> QED BY <1>4, FS_CardinalityType

\* At most one more pull is pending after a step that adds at most the row x.
LEMMA OneMorePull ==
  ASSUME QueryTypeOK, QueryTypeOK', NEW i, NEW t, NEW x,
         PendingPulls(i, t)' \subseteq PendingPulls(i, t) \union {x}
  PROVE  Cardinality(PendingPulls(i, t)') <= Cardinality(PendingPulls(i, t)) + 1
         /\ Cardinality(PendingPulls(i, t)') \in Nat
<1> DEFINE P == PendingPulls(i, t)
           Q == PendingPulls(i, t)'
<1>1. IsFiniteSet(P) /\ Cardinality(P) \in Nat /\ Q \subseteq P \union {x}
  BY PullsAreFinite
<1> HIDE DEF P, Q
<1>2. IsFiniteSet(P \union {x}) /\ Cardinality(P \union {x}) <= Cardinality(P) + 1
      /\ Cardinality(P \union {x}) \in Nat
  <2>1. /\ IsFiniteSet(P \union {x})
        /\ Cardinality(P \union {x}) = IF x \in P THEN Cardinality(P) ELSE Cardinality(P) + 1
    BY <1>1, FS_AddElement
  <2> QED BY <1>1, <2>1
<1>3. Cardinality(Q) <= Cardinality(P \union {x}) /\ IsFiniteSet(Q)
  BY <1>1, <1>2, FS_Subset
<1>4. Cardinality(Q) \in Nat
  BY <1>3, FS_CardinalityType
<1>5. Cardinality(Q) <= Cardinality(P) + 1
  BY <1>1, <1>2, <1>3, <1>4
<1> QED BY <1>4, <1>5 DEF P, Q

LEMMA NoMorePulls ==
  ASSUME QueryTypeOK, NEW i, NEW t,
         PendingPulls(i, t)' \subseteq PendingPulls(i, t)
  PROVE  Cardinality(PendingPulls(i, t)') <= Cardinality(PendingPulls(i, t))
         /\ Cardinality(PendingPulls(i, t)') \in Nat
<1> DEFINE P == PendingPulls(i, t)
           Q == PendingPulls(i, t)'
<1>1. IsFiniteSet(P) /\ Cardinality(P) \in Nat /\ Q \subseteq P
  BY PullsAreFinite
<1> HIDE DEF P, Q
<1>2. Cardinality(Q) <= Cardinality(P) /\ IsFiniteSet(Q)
  BY <1>1, FS_Subset
<1>3. Cardinality(Q) <= Cardinality(P) /\ Cardinality(Q) \in Nat
  BY <1>2, FS_CardinalityType
<1> QED BY <1>3 DEF P, Q

-----------------------------------------------------------------------------
(* The parts of TypeOK that different steps disturb. *)

IncidentsType == incidents \in Seq(Incidents) /\ Len(incidents) <= MaxIncidents

OrchType ==
  /\ pc \in DOMAIN PhaseAfter /\ todo \in Seq(DOMAIN incidents)
  /\ step \in 0..Len(SweepOrder)
  /\ todo = <<>> => step = 0

DetectType ==
  /\ \A d \in Detectors :
       \/ detect[d] = Idle
       \/ /\ detect[d].at \in {"append", "check", "create", "retype"}
          /\ detect[d].finding \in received
          /\ detect[d].incident \in (IF detect[d].at \in {"append", "retype"}
                                     THEN DOMAIN incidents ELSE {0})
  /\ received \subseteq Findings

AdminType == asking \in {0} \union DOMAIN incidents /\ manual \in 0..MaxManual

LEMMA TypeParts ==
  /\ TypeOK => QueryTypeOK /\ IncidentsType /\ OrchType /\ DetectType /\ AdminType
  /\ QueryTypeOK /\ IncidentsType /\ OrchType /\ DetectType /\ AdminType => TypeOK
  /\ (QueryTypeOK /\ IncidentsType /\ OrchType /\ DetectType /\ AdminType)' => TypeOK'
BY DEF TypeOK, IncidentsType, OrchType, DetectType, AdminType

LEMMA IncidentsDomain ==
  ASSUME IncidentsType
  PROVE  /\ DOMAIN incidents = 1..Len(incidents) /\ Len(incidents) \in Nat
         /\ DOMAIN incidents \subseteq 1..MaxIncidents
         /\ \A i \in DOMAIN incidents : incidents[i] \in Incidents
  BY LenProperties, QueryAssumption DEF IncidentsType

\* What a step does to the nodes when it creates none and writes the node i.
LEMMA WriteKeeps ==
  ASSUME IncidentsType, NEW i \in DOMAIN incidents, NEW x \in Incidents,
         incidents' = [incidents EXCEPT ![i] = x]
  PROVE  /\ IncidentsType' /\ DOMAIN incidents' = DOMAIN incidents
         /\ \A j \in DOMAIN incidents : incidents'[j] = IF j = i THEN x ELSE incidents[j]
<1>1. i \in 1..Len(incidents) /\ incidents \in Seq(Incidents)
  BY IncidentsDomain DEF IncidentsType
<1>2. incidents' \in Seq(Incidents) /\ Len(incidents') = Len(incidents)
  BY <1>1, ExceptSeq
<1> QED BY <1>2 DEF IncidentsType

LEMMA StatusKeeps ==
  ASSUME IncidentsType, NEW i \in DOMAIN incidents, NEW status \in Statuses,
         SetStatus(i, status)
  PROVE  /\ IncidentsType' /\ DOMAIN incidents' = DOMAIN incidents
         /\ \A j \in DOMAIN incidents :
              /\ incidents'[j].status = IF j = i THEN status ELSE incidents[j].status
              /\ incidents'[j].sources = incidents[j].sources
<1> DEFINE x == [incidents[i] EXCEPT !.status = status]
<1>1. x \in Incidents /\ x.status = status /\ x.sources = incidents[i].sources
  BY IncidentsDomain DEF Incidents
<1>2. incidents' = [incidents EXCEPT ![i] = x]
  BY DEF SetStatus
<1> HIDE DEF x
<1> QED BY <1>1, <1>2, WriteKeeps

\* A handler of findings moves on; incidents and findings are only added.
LEMMA GotoKeeps ==
  ASSUME DetectType, detect = [d \in Detectors |-> detect[d]],
         received \subseteq received', received' \subseteq Findings,
         DOMAIN incidents \subseteq DOMAIN incidents',
         NEW d \in Detectors, NEW state, Goto(d, state),
         \/ state = Idle
         \/ /\ state.at \in {"append", "check", "create", "retype"}
            /\ state.finding \in received'
            /\ state.incident \in (IF state.at \in {"append", "retype"}
                                   THEN DOMAIN incidents' ELSE {0})
  PROVE  DetectType' /\ detect' = [e \in Detectors |-> detect'[e]]
<1>1. detect' = [e \in Detectors |-> IF e = d THEN state ELSE detect[e]]
  BY DEF Goto
<1>2. detect' = [e \in Detectors |-> detect'[e]] /\ detect'[d] = state
      /\ \A e \in Detectors : e # d => detect'[e] = detect[e]
  BY <1>1
<1>3. ASSUME NEW e \in Detectors
      PROVE  \/ detect'[e] = Idle
             \/ /\ detect'[e].at \in {"append", "check", "create", "retype"}
                /\ detect'[e].finding \in received'
                /\ detect'[e].incident \in (IF detect'[e].at \in {"append", "retype"}
                                            THEN DOMAIN incidents' ELSE {0})
  <2>1. CASE e = d
    BY <1>2, <2>1
  <2>2. CASE e # d
    BY <1>2, <2>2 DEF DetectType
  <2> QED BY <2>1, <2>2
<1> QED BY <1>2, <1>3 DEF DetectType

\* A detector that stays where it is keeps its type.
LEMMA DetectStays ==
  ASSUME DetectType, UNCHANGED <<detect, received>>,
         DOMAIN incidents \subseteq DOMAIN incidents'
  PROVE  DetectType'
BY DEF DetectType

\* The rows that a phase reads are incidents of the status asked for.
LEMMA RowsHaveStatus ==
  ASSUME IncidentsType, DetectInv, NEW status
  PROVE  get_incidents_by_status(status)
           \in Seq({i \in DOMAIN incidents : incidents[i].status = status})
<1> DEFINE S == {i \in DOMAIN incidents : incidents[i].status = status}
           row(i) == [j \in 1..(IF incidents[i].status = status
                                THEN Cardinality(incidents[i].sources) ELSE 0) |-> i]
           rows == [i \in DOMAIN incidents |-> row(i)]
<1>1. ASSUME NEW i \in DOMAIN incidents
      PROVE  row(i) \in Seq(S)
  <2>1. Cardinality(incidents[i].sources) \in Nat
    BY FS_CardinalityType DEF DetectInv
  <2>2. PICK n \in Nat : n = IF incidents[i].status = status
                              THEN Cardinality(incidents[i].sources) ELSE 0
    BY <2>1
  <2>3. row(i) = [j \in 1..n |-> i]
    BY <2>2
  <2>4. \A j \in 1..n : i \in S
    BY <2>2
  <2>5. [j \in 1..n |-> i] \in [1..n -> S]
    BY <2>4
  <2>6. [j \in 1..n |-> i] \in Seq(S)
    BY <2>5, SeqDef
  <2> QED BY <2>3, <2>6
<1>2. rows \in Seq(Seq(S))
  <2>1. DOMAIN incidents = 1..Len(incidents) /\ Len(incidents) \in Nat
    BY IncidentsDomain
  <2> DEFINE T == Seq(S)
  <2>2. rows \in [1..Len(incidents) -> T]
    BY <1>1, <2>1
  <2> HIDE DEF rows, T
  <2>3. rows \in Seq(T)
    BY <2>1, <2>2, SeqDef
  <2> QED BY <2>3 DEF T
<1>3. FlattenSeq(rows) \in Seq(S)
  <2> HIDE DEF rows, S
  <2> QED BY <1>2, FlattenType
<1> QED BY <1>3 DEF get_incidents_by_status

\* A phase that has dealt with its first row goes on with the next.
LEMMA RowDoneKeeps ==
  ASSUME OrchType, RowsInv, QueriesGrow, todo # <<>>, RowDone, UNCHANGED pc,
         DOMAIN incidents' = DOMAIN incidents
  PROVE  OrchType' /\ StepInv' /\ SweepInv' /\ RowsInv'
<1>1. /\ Tail(todo) \in Seq(DOMAIN incidents) /\ todo' = Tail(todo) /\ step' = 0
      /\ Len(todo) \in Nat /\ DOMAIN todo = 1..Len(todo)
      /\ Len(Tail(todo)) = Len(todo) - 1
      /\ \A k \in 1..Len(Tail(todo)) : Tail(todo)[k] = todo[k + 1]
  BY HeadTailProperties, LenProperties DEF OrchType, RowDone
<1>2. OrchType'
  BY <1>1 DEF OrchType, SweepOrder
<1>3. StepInv' /\ SweepInv'
  BY <1>1 DEF StepInv, SweepInv, PullOrder
<1>4. RowsInv'
  <2>1. \A i, t : Asked(i, t) \subseteq Asked(i, t)'
    BY AskedGrows
  <2>2. \A i : AskedInFull(i) => AskedInFull(i)'
    BY <2>1 DEF AskedInFull
  <2>3. ASSUME NEW k \in DOMAIN todo'
        PROVE  k + 1 \in DOMAIN todo /\ todo'[k] = todo[k + 1]
    <3>1. DOMAIN todo' = 1..Len(todo')
      BY <1>1, LenProperties
    <3> QED BY <1>1, <3>1
  <2> QED BY <2>2, <2>3 DEF RowsInv
<1> QED BY <1>2, <1>3, <1>4

\* A step of the others leaves the orchestrator where it is.
LEMMA OrchStays ==
  ASSUME OrchType, StepInv, SweepInv, RowsInv, QueriesGrow, UNCHANGED orchVars,
         DOMAIN incidents \subseteq DOMAIN incidents'
  PROVE  OrchType' /\ StepInv' /\ SweepInv' /\ RowsInv'
<1>1. \A i, t : Asked(i, t) \subseteq Asked(i, t)'
  BY AskedGrows
<1>2. todo \in Seq(DOMAIN incidents')
  BY SeqMonotonic DEF OrchType
<1>3. OrchType' /\ StepInv'
  BY <1>2 DEF OrchType, StepInv, orchVars
<1>4. SweepInv'
  BY <1>1 DEF SweepInv, orchVars
<1>5. RowsInv'
  BY <1>1 DEF RowsInv, AskedInFull, orchVars
<1> QED BY <1>3, <1>4, <1>5

\* An incident that is swept or watched after a step was so before, or has been
\* asked about in full by now.
LEMMA SweptStays ==
  ASSUME SweptIsAsked, QueriesGrow,
         \A i \in DOMAIN incidents' :
           incidents'[i].status \in {"sweeping", "active"} =>
             \/ i \in DOMAIN incidents /\ incidents[i].status \in {"sweeping", "active"}
             \/ AskedInFull(i)
  PROVE  SweptIsAsked'
<1>1. \A i, t : Asked(i, t) \subseteq Asked(i, t)'
  BY AskedGrows
<1> QED BY <1>1 DEF SweptIsAsked, AskedInFull

\* No pull is added, and the administrator asks for nothing.
LEMMA PullsStay ==
  ASSUME PullsInv, QueryTypeOK, AdminType,
         \A i \in 1..MaxIncidents : \A t \in SurvPulls :
           PendingPulls(i, t)' \subseteq PendingPulls(i, t),
         manual' >= manual, manual' \in Nat,
         \/ asking' = 0
         \/ asking' = asking
         \/ manual' = manual + 1
  PROVE  PullsInv'
<1>1. manual \in Nat
  BY DEF AdminType
<1>2. ASSUME NEW i \in 1..MaxIncidents, NEW t \in SurvPulls
      PROVE  Cardinality(PendingPulls(i, t)') <= (IF asking' = 0 THEN 1 ELSE 0) + manual'
  <2>1. Cardinality(PendingPulls(i, t)') <= Cardinality(PendingPulls(i, t))
        /\ Cardinality(PendingPulls(i, t)') \in Nat
    BY <1>2, NoMorePulls
  <2>2. Cardinality(PendingPulls(i, t)) <= (IF asking = 0 THEN 1 ELSE 0) + manual
        /\ Cardinality(PendingPulls(i, t)) \in Nat
    BY <1>2, PullsAreFinite DEF PullsInv
  <2>3. Cardinality(PendingPulls(i, t)) <= (IF asking' = 0 THEN 1 ELSE 0) + manual'
    BY <1>1, <2>2
  <2> QED BY <1>1, <2>1, <2>2, <2>3
<1>3. asking' # 0 => manual' > 0
  BY <1>1 DEF PullsInv
<1> QED BY <1>2, <1>3 DEF PullsInv

\* The queries are left alone.
LEMMA QueriesStay ==
  ASSUME UNCHANGED queryVars, QueryTypeOK, PullsAreStored
  PROVE  /\ QueryTypeOK' /\ PullsAreStored' /\ QueriesGrow
         /\ \A i, t : PendingPulls(i, t)' \subseteq PendingPulls(i, t)
<1>1. QueryTypeOK' /\ PullsAreStored'
  BY DEF queryVars, agentVars, handlerVars, QueryTypeOK, PullsAreStored, Pending
<1>2. QueriesGrow /\ \A i, t : PendingPulls(i, t)' \subseteq PendingPulls(i, t)
  BY DEF queryVars, QueriesGrow, PendingPulls, Asked, Pending
<1> QED BY <1>1, <1>2

-----------------------------------------------------------------------------

LEMMA XdrInitially == Init => XdrInv
<1> SUFFICES ASSUME Init PROVE XdrInv
  OBVIOUS
<1> USE QueryAssumption, XdrAssumption DEF Init, QueryInit
<1>1. QueryTypeOK /\ PullsAreStored
  <2>1. DOMAIN queries = {} /\ queries \in Seq(Queries)
    BY EmptySeq
  <2> QED BY <2>1 DEF QueryTypeOK, PullsAreStored
<1>2. incidents \in Seq(Incidents) /\ Len(incidents) = 0 /\ DOMAIN incidents = {}
      /\ todo \in Seq(DOMAIN incidents)
  BY EmptySeq
<1>3. TypeOK
  BY <1>1, <1>2 DEF TypeOK, PhaseAfter, SweepOrder
<1>4. StepInv /\ DetectInv /\ SweepInv /\ RowsInv /\ SweptIsAsked
  BY <1>2 DEF StepInv, DetectInv, SweepInv, RowsInv, SweptIsAsked, PullOrder
<1>5. PullsInv
  <2>1. \A i, t : PendingPulls(i, t) = {}
    BY DEF PendingPulls, Asked
  <2>2. \A i, t : Cardinality(PendingPulls(i, t)) = 0
    BY <2>1, FS_EmptySet
  <2> QED BY <2>2 DEF PullsInv
<1> QED BY <1>1, <1>3, <1>4, <1>5 DEF XdrInv

\* A step that writes no status and no node, nor moves a detector.
LEMMA IncidentsStay ==
  ASSUME XdrInv, UNCHANGED <<incidents, detect, received>>, QueriesGrow
  PROVE  IncidentsType' /\ DetectType' /\ DetectInv' /\ SweptIsAsked'
<1>1. IncidentsType' /\ DetectType' /\ DetectInv'
  BY TypeParts DEF XdrInv, IncidentsType, DetectType, DetectInv
<1>2. SweptIsAsked'
  BY SweptStays DEF XdrInv, SweptIsAsked
<1> QED BY <1>1, <1>2

\* A row of the orchestrator's gets its new status: an incident that has been
\* asked about in full, or one that is closed.
LEMMA RowWritten ==
  ASSUME XdrInv, todo # <<>>, NEW status \in Statuses,
         SetStatus(Head(todo), status), RowDone,
         status \in {"sweeping", "active"} => AskedInFull(Head(todo)),
         UNCHANGED <<queryVars, pc, detect, received, adminVars>>
  PROVE  XdrInv'
<1>1. /\ QueryTypeOK /\ IncidentsType /\ OrchType /\ DetectType /\ AdminType
      /\ StepInv /\ DetectInv /\ SweepInv /\ RowsInv /\ PullsInv
      /\ PullsAreStored /\ SweptIsAsked
  BY TypeParts DEF XdrInv
<1>2. /\ QueryTypeOK' /\ PullsAreStored' /\ QueriesGrow
      /\ \A i, t : PendingPulls(i, t)' \subseteq PendingPulls(i, t)
  BY <1>1, QueriesStay
<1>3. Head(todo) \in DOMAIN incidents
  BY <1>1, HeadTailProperties DEF OrchType
<1>4. /\ IncidentsType' /\ DOMAIN incidents' = DOMAIN incidents
      /\ \A j \in DOMAIN incidents :
           /\ incidents'[j].status = IF j = Head(todo) THEN status ELSE incidents[j].status
           /\ incidents'[j].sources = incidents[j].sources
  BY <1>1, <1>3, StatusKeeps
<1>5. OrchType' /\ StepInv' /\ SweepInv' /\ RowsInv'
  BY <1>1, <1>2, <1>4, RowDoneKeeps
<1>6. DetectType' /\ DetectInv'
  BY <1>1, <1>4, DetectStays DEF DetectInv
<1>7. SweptIsAsked'
  BY <1>1, <1>2, <1>4, SweptStays
<1>8. AdminType' /\ PullsInv'
  <2>1. AdminType'
    BY <1>1, <1>4 DEF AdminType, adminVars
  <2> QED BY <1>1, <1>2, <2>1, PullsStay DEF AdminType, adminVars
<1> QED BY <1>2, <1>4, <1>5, <1>6, <1>7, <1>8, TypeParts DEF XdrInv

\* The orchestrator asks one more query for its first row, in the sweep or the
\* watch; what becomes of the row is said by the step.
LEMMA AskKeeps ==
  ASSUME XdrInv, todo # <<>>,
         NEW type \in Traces \union OcsfPulls \union SurvPulls,
         enqueue_xdr_query(Head(todo), type, AgentOf(Head(todo), type)),
         UNCHANGED <<evidence, agentVars, handlerVars, cut, faults, incidents, adminVars>>,
         type \in SurvPulls => ~has_pending_xdr_query(Head(todo), type)
  PROVE  /\ QueryTypeOK' /\ PullsAreStored' /\ QueriesGrow
         /\ \A i : i = Head(todo) => Asked(i, type)' # {}
         /\ AdminType' /\ PullsInv'
<1>1. /\ QueryTypeOK /\ IncidentsType /\ OrchType /\ AdminType /\ PullsInv /\ PullsAreStored
  BY TypeParts DEF XdrInv
<1>2. PICK i \in DOMAIN incidents : i = Head(todo)
  BY <1>1, HeadTailProperties DEF OrchType
<1> DEFINE row == [incident |-> i, type |-> type, agent |-> AgentOf(i, type),
                   status |-> "pending"]
<1>3. row \in Queries
  <2>1. incidents[i].src \in Agents /\ incidents[i].dst \in Agents /\ i \in 1..MaxIncidents
    BY <1>1, IncidentsDomain DEF Incidents
  <2> QED BY <2>1 DEF AgentOf, Queries
<1>4. /\ row.incident = i /\ row.type = type /\ row.status = "pending"
      /\ queries' = Append(queries, row)
  BY <1>2 DEF enqueue_xdr_query
<1> HIDE DEF row
<1>5. queries' = queries \o <<row>>
  BY <1>1, <1>3, <1>4, AppendIsConcat DEF QueryTypeOK
<1>6. <<row>> \in Seq(Queries) /\ Len(<<row>>) = 1 /\ DOMAIN <<row>> = {1} /\ <<row>>[1] = row
  BY <1>3
<1>7. /\ QueryTypeOK' /\ PullsAreStored' /\ QueriesGrow
      /\ DOMAIN queries' = 1..(Len(queries) + 1)
      /\ \A q \in DOMAIN queries : queries'[q] = queries[q]
      /\ \A q \in DOMAIN queries' \ DOMAIN queries :
           q - Len(queries) \in {1} /\ queries'[q] = <<row>>[q - Len(queries)]
      /\ Len(queries) + 1 \in DOMAIN queries' /\ queries'[Len(queries) + 1] = row
  <2> DEFINE new == <<row>>
  <2>1. /\ new \in Seq(Queries) /\ \A n \in DOMAIN new : new[n].status = "pending"
        /\ queries' = queries \o new /\ Len(new) = 1 /\ DOMAIN new = {1} /\ new[1] = row
    BY <1>4, <1>5, <1>6
  <2> HIDE DEF new
  <2>2. /\ QueryTypeOK' /\ PullsAreStored' /\ QueriesGrow
        /\ DOMAIN queries' = 1..(Len(queries) + Len(new))
        /\ \A q \in DOMAIN queries : queries'[q] = queries[q]
        /\ \A q \in DOMAIN queries' \ DOMAIN queries :
             q - Len(queries) \in DOMAIN new /\ queries'[q] = new[q - Len(queries)]
        /\ \A n \in DOMAIN new :
             Len(queries) + n \in DOMAIN queries' /\ queries'[Len(queries) + n] = new[n]
    BY <1>1, <2>1, EnqueueKeeps
  <2>3. Len(queries) + 1 \in DOMAIN queries' /\ queries'[Len(queries) + 1] = row
    BY <2>1, <2>2
  <2> QED BY <2>1, <2>2, <2>3 DEF new
<1>8. Asked(i, type)' # {}
  <2>1. Len(queries) + 1 \in Asked(i, type)'
    BY <1>4, <1>7 DEF Asked
  <2> QED BY <2>1
<1>9. AdminType'
  BY <1>1 DEF AdminType, adminVars
<1>10. PullsInv'
  <2>1. Len(queries) \in Nat /\ DOMAIN queries = 1..Len(queries)
    BY <1>1, LenProperties DEF QueryTypeOK
  <2>2. \A j, t : PendingPulls(j, t)' \subseteq PendingPulls(j, t) \union {Len(queries) + 1}
    BY <1>7, <2>1 DEF PendingPulls, Asked, Pending
  <2>3. \A j, t : j # i \/ t # type => PendingPulls(j, t)' \subseteq PendingPulls(j, t)
    BY <1>4, <1>7, <2>1 DEF PendingPulls, Asked, Pending
  <2>4. manual \in Nat /\ UNCHANGED <<asking, manual>>
    BY <1>1 DEF AdminType, adminVars
  <2>5. ASSUME NEW j \in 1..MaxIncidents, NEW t \in SurvPulls
        PROVE  Cardinality(PendingPulls(j, t)') <= (IF asking = 0 THEN 1 ELSE 0) + manual
    <3>1. CASE j = i /\ t = type
      <4>1. PendingPulls(j, t) = {}
        BY <1>2, <3>1 DEF has_pending_xdr_query, PendingPulls
      <4>2. Cardinality(PendingPulls(j, t)) = 0
        BY <4>1, FS_EmptySet
      <4>3. Cardinality(PendingPulls(j, t)') <= 1 /\ Cardinality(PendingPulls(j, t)') \in Nat
        <5> DEFINE x == Len(queries) + 1
        <5>1. PendingPulls(j, t)' \subseteq PendingPulls(j, t) \union {x}
          BY <2>2
        <5> HIDE DEF x
        <5>2. Cardinality(PendingPulls(j, t)') <= Cardinality(PendingPulls(j, t)) + 1
              /\ Cardinality(PendingPulls(j, t)') \in Nat
          BY <1>1, <1>7, <5>1, OneMorePull
        <5> QED BY <4>2, <5>2
      <4>4. 1 <= (IF asking = 0 THEN 1 ELSE 0) + manual
        BY <1>1, <2>4 DEF PullsInv
      <4> QED BY <2>4, <4>3, <4>4
    <3>2. CASE j # i \/ t # type
      <4>1. Cardinality(PendingPulls(j, t)') <= Cardinality(PendingPulls(j, t))
            /\ Cardinality(PendingPulls(j, t)') \in Nat
        BY <1>1, <2>3, <3>2, NoMorePulls
      <4>2. Cardinality(PendingPulls(j, t)) <= (IF asking = 0 THEN 1 ELSE 0) + manual
            /\ Cardinality(PendingPulls(j, t)) \in Nat
        BY <1>1, PullsAreFinite DEF PullsInv
      <4> QED BY <2>4, <4>1, <4>2
    <3> QED BY <3>1, <3>2
  <2> QED BY <1>1, <2>4, <2>5 DEF PullsInv
<1> QED BY <1>2, <1>7, <1>8, <1>9, <1>10

-----------------------------------------------------------------------------
(* Every step keeps the invariant: the orchestrator's, ... *)

LEMMA OrchestratorKeeps ==
  ASSUME XdrInv, OrchestratorStep \/ PhaseFails
  PROVE  XdrInv'
<1>1. /\ QueryTypeOK /\ IncidentsType /\ OrchType /\ DetectType /\ AdminType
      /\ StepInv /\ DetectInv /\ SweepInv /\ RowsInv /\ PullsInv
      /\ PullsAreStored /\ SweptIsAsked
  BY TypeParts DEF XdrInv
<1>2. todo # <<>> => /\ Head(todo) \in DOMAIN incidents /\ Head(todo) = todo[1]
                     /\ 1 \in DOMAIN todo
  BY <1>1, HeadTailProperties, LenProperties, EmptySeq DEF OrchType
\* The parts put together again.
<1>3. ASSUME QueryTypeOK', IncidentsType', OrchType', DetectType', AdminType',
             StepInv', DetectInv', SweepInv', RowsInv', PullsInv',
             PullsAreStored', SweptIsAsked'
      PROVE  XdrInv'
  BY <1>3, TypeParts DEF XdrInv
<1>4. CASE NextPhase
  <2>1. /\ todo = <<>> /\ pc' = PhaseAfter[pc]
        /\ todo' = get_incidents_by_status(StatusRead[pc'])
        /\ UNCHANGED <<queryVars, incidents, step, detect, received, adminVars>>
    BY <1>4 DEF NextPhase
  <2>2. /\ QueryTypeOK' /\ PullsAreStored' /\ QueriesGrow
        /\ \A i, t : PendingPulls(i, t)' \subseteq PendingPulls(i, t)
    BY <1>1, <2>1, QueriesStay
  <2>3. IncidentsType' /\ DetectType' /\ DetectInv' /\ SweptIsAsked'
    BY <2>1, <2>2, IncidentsStay
  <2>4. AdminType' /\ PullsInv'
    <3>1. AdminType'
      BY <1>1, <2>1 DEF AdminType, adminVars
    <3> QED BY <1>1, <2>1, <2>2, <3>1, PullsStay DEF AdminType, adminVars
  <2>5. step' = 0 /\ pc' \in {"sweep", "check", "watch"}
    BY <1>1, <2>1 DEF OrchType, PhaseAfter
  <2> DEFINE status == StatusRead[pc']
             S == {i \in DOMAIN incidents : incidents[i].status = status}
  <2>6. todo' \in Seq(S)
    <3> HIDE DEF status
    <3>1. todo' = get_incidents_by_status(status)
      BY <2>1 DEF status
    <3> QED BY <1>1, <3>1, RowsHaveStatus
  <2>7. OrchType' /\ StepInv' /\ SweepInv'
    <3>1. todo' \in Seq(DOMAIN incidents')
      BY <2>1, <2>6, SeqMonotonic
    <3> QED BY <2>5, <3>1 DEF OrchType, StepInv, SweepInv, PhaseAfter, SweepOrder, PullOrder
  <2>8. RowsInv'
    <3> SUFFICES ASSUME pc' \in {"check", "watch"}
                 PROVE  \A k \in DOMAIN todo' : AskedInFull(todo'[k])
      BY <2>1 DEF RowsInv, AskedInFull, Asked, queryVars
    <3>1. status \in {"sweeping", "active"}
      BY DEF StatusRead
    <3>2. \A i \in S : AskedInFull(i)
      BY <1>1, <3>1 DEF SweptIsAsked, AskedInFull
    <3> HIDE DEF S
    <3>3. \A k \in DOMAIN todo' : todo'[k] \in S
      BY <2>6, LenProperties
    <3> QED BY <3>2, <3>3
  <2> QED BY <1>3, <2>2, <2>3, <2>4, <2>7, <2>8
<1>5. CASE Enqueue
  <2>0. PICK type : type = SweepOrder[step + 1]
    OBVIOUS
  <2>1. /\ pc = "sweep" /\ todo # <<>> /\ step < Len(SweepOrder) /\ step' = step + 1
        /\ enqueue_xdr_query(Head(todo), type, AgentOf(Head(todo), type))
        /\ UNCHANGED <<evidence, agentVars, handlerVars, cut, faults, incidents, pc, todo,
                       detect, received, adminVars>>
    BY <1>5, <2>0 DEF Enqueue
  <2>2. type \in Traces \union OcsfPulls \union SurvPulls /\ type \notin SurvPulls
    BY <1>1, <2>0, <2>1 DEF OrchType, SweepOrder, Traces, OcsfPulls, SurvPulls
  <2>3. /\ QueryTypeOK' /\ PullsAreStored' /\ QueriesGrow
        /\ \A i : i = Head(todo) => Asked(i, type)' # {}
        /\ AdminType' /\ PullsInv'
    BY <2>1, <2>2, AskKeeps
  <2>4. IncidentsType' /\ DetectType' /\ DetectInv' /\ SweptIsAsked'
    BY <2>1, <2>3, IncidentsStay
  <2>5. OrchType' /\ StepInv' /\ RowsInv'
    BY <1>1, <2>1 DEF OrchType, StepInv, RowsInv, SweepOrder
  <2>6. SweepInv'
    <3>1. PICK i : i = Head(todo)
      OBVIOUS
    <3>2. \A t : Asked(i, t) \subseteq Asked(i, t)'
      BY <2>3, AskedGrows
    <3>3. ASSUME NEW n \in 1..(step + 1)
          PROVE  Asked(i, SweepOrder[n])' # {}
      <4>1. CASE n = step + 1
        BY <2>0, <2>3, <3>1, <4>1
      <4>2. CASE n # step + 1
        <5>1. n \in 1..step
          BY <1>1, <4>2 DEF OrchType
        <5> QED BY <1>1, <2>1, <3>1, <3>2, <5>1 DEF SweepInv
      <4> QED BY <4>1, <4>2
    <3> QED BY <2>1, <3>1, <3>3 DEF SweepInv
  <2> QED BY <1>3, <2>3, <2>4, <2>5, <2>6
<1>6. CASE SetSweeping
  <2>1. /\ pc = "sweep" /\ todo # <<>> /\ step = Len(SweepOrder)
        /\ SetStatus(Head(todo), "sweeping") /\ RowDone
        /\ UNCHANGED <<queryVars, pc, detect, received, adminVars>>
    BY <1>6 DEF SetSweeping
  <2>2. AskedInFull(Head(todo))
    BY <1>1, <2>1 DEF SweepInv, AskedInFull, SweepOrder
  <2> QED BY <2>1, <2>2, RowWritten DEF Statuses
<1>7. CASE Activate
  <2>1. /\ pc = "check" /\ todo # <<>>
        /\ SetStatus(Head(todo), "active") /\ RowDone
        /\ UNCHANGED <<queryVars, pc, detect, received, adminVars>>
    BY <1>7 DEF Activate
  <2>2. AskedInFull(Head(todo))
    BY <1>1, <1>2, <2>1 DEF RowsInv
  <2> QED BY <2>1, <2>2, RowWritten DEF Statuses
<1>8. CASE LeaveSweeping
  <2>1. /\ todo # <<>> /\ RowDone
        /\ UNCHANGED <<queryVars, incidents, pc, detect, received, adminVars>>
    BY <1>8 DEF LeaveSweeping
  <2>2. /\ QueryTypeOK' /\ PullsAreStored' /\ QueriesGrow
        /\ \A i, t : PendingPulls(i, t)' \subseteq PendingPulls(i, t)
    BY <1>1, <2>1, QueriesStay
  <2>3. IncidentsType' /\ DetectType' /\ DetectInv' /\ SweptIsAsked'
    BY <2>1, <2>2, IncidentsStay
  <2>4. AdminType' /\ PullsInv'
    <3>1. AdminType'
      BY <1>1, <2>1 DEF AdminType, adminVars
    <3> QED BY <1>1, <2>1, <2>2, <3>1, PullsStay DEF AdminType, adminVars
  <2>5. OrchType' /\ StepInv' /\ SweepInv' /\ RowsInv'
    BY <1>1, <2>1, <2>2, RowDoneKeeps
  <2> QED BY <1>3, <2>2, <2>3, <2>4, <2>5
<1>9. CASE CloseStale
  <2>1. /\ todo # <<>> /\ SetStatus(Head(todo), "closed") /\ RowDone
        /\ UNCHANGED <<queryVars, pc, detect, received, adminVars>>
    BY <1>9 DEF CloseStale
  <2> QED BY <2>1, RowWritten DEF Statuses
<1>10. CASE Pull
  <2>0. PICK type : type = PullOrder[step + 1]
    OBVIOUS
  <2>1. /\ pc = "watch" /\ todo # <<>>
        /\ \/ /\ ~has_pending_xdr_query(Head(todo), type)
              /\ enqueue_xdr_query(Head(todo), type, AgentOf(Head(todo), type))
           \/ UNCHANGED queries
        /\ IF step + 1 = Len(PullOrder) THEN RowDone ELSE step' = step + 1 /\ UNCHANGED todo
        /\ UNCHANGED <<evidence, agentVars, handlerVars, cut, faults, incidents, pc, detect,
                       received, adminVars>>
    BY <1>10, <2>0 DEF Pull
  <2>2. type \in Traces \union OcsfPulls \union SurvPulls
    BY <1>1, <2>0, <2>1 DEF StepInv, PullOrder, SurvPulls
  <2>3. QueryTypeOK' /\ PullsAreStored' /\ QueriesGrow /\ AdminType' /\ PullsInv'
    <3>1. CASE UNCHANGED queries
      <4>1. UNCHANGED queryVars
        BY <2>1, <3>1 DEF queryVars
      <4>2. /\ QueryTypeOK' /\ PullsAreStored' /\ QueriesGrow
            /\ \A i, t : PendingPulls(i, t)' \subseteq PendingPulls(i, t)
        BY <1>1, <4>1, QueriesStay
      <4>3. AdminType'
        BY <1>1, <2>1 DEF AdminType, adminVars
      <4> QED BY <1>1, <2>1, <4>2, <4>3, PullsStay DEF AdminType, adminVars
    <3>2. CASE ~UNCHANGED queries
      BY <2>1, <2>2, <3>2, AskKeeps
    <3> QED BY <3>1, <3>2
  <2>4. IncidentsType' /\ DetectType' /\ DetectInv' /\ SweptIsAsked'
    BY <2>1, <2>3, IncidentsStay
  <2>5. OrchType' /\ StepInv' /\ SweepInv' /\ RowsInv'
    <3>1. CASE step + 1 = Len(PullOrder)
      BY <1>1, <2>1, <2>3, <3>1, RowDoneKeeps
    <3>2. CASE step + 1 # Len(PullOrder)
      <4>1. step' = step + 1 /\ UNCHANGED <<todo, pc>>
        BY <2>1, <3>2
      <4>2. OrchType' /\ StepInv' /\ SweepInv'
        BY <1>1, <2>1, <3>2, <4>1 DEF OrchType, StepInv, SweepInv, PullOrder, SweepOrder
      <4>3. \A i, t : Asked(i, t) \subseteq Asked(i, t)'
        BY <2>3, AskedGrows
      <4>4. RowsInv'
        BY <1>1, <4>1, <4>3 DEF RowsInv, AskedInFull
      <4> QED BY <4>2, <4>4
    <3> QED BY <3>1, <3>2
  <2> QED BY <1>3, <2>3, <2>4, <2>5
<1>11. CASE PhaseFails
  <2>1. /\ Fault /\ todo' = <<>> /\ step' = 0
        /\ UNCHANGED <<queries, evidence, agentVars, handlerVars, cut, incidents, pc, detect,
                       received, adminVars>>
    BY <1>11 DEF PhaseFails
  <2>2. QueryTypeOK' /\ PullsAreStored' /\ QueriesGrow
        /\ \A i, t : PendingPulls(i, t)' \subseteq PendingPulls(i, t)
    <3>1. faults' \in 0..MaxFaults
      BY <1>1, <2>1, QueryAssumption DEF Fault, QueryTypeOK
    <3>2. QueryTypeOK'
      BY <1>1, <2>1, <3>1 DEF QueryTypeOK, agentVars, handlerVars
    <3>3. PullsAreStored'
      BY <1>1, <2>1 DEF PullsAreStored, Pending, handlerVars
    <3> QED BY <2>1, <3>2, <3>3 DEF QueriesGrow, PendingPulls, Asked, Pending
  <2>3. IncidentsType' /\ DetectType' /\ DetectInv' /\ SweptIsAsked'
    BY <2>1, <2>2, IncidentsStay
  <2>4. AdminType' /\ PullsInv'
    <3>1. AdminType'
      BY <1>1, <2>1 DEF AdminType, adminVars
    <3> QED BY <1>1, <2>1, <2>2, <3>1, PullsStay DEF AdminType, adminVars
  <2>5. OrchType' /\ StepInv' /\ SweepInv' /\ RowsInv'
    <3>1. todo' \in Seq(DOMAIN incidents') /\ DOMAIN todo' = {}
      BY <2>1, EmptySeq
    <3> QED BY <1>1, <2>1, <3>1 DEF OrchType, StepInv, SweepInv, RowsInv, PullOrder, SweepOrder
  <2> QED BY <1>3, <2>2, <2>3, <2>4, <2>5
<1> QED BY <1>4, <1>5, <1>6, <1>7, <1>8, <1>9, <1>10, <1>11 DEF OrchestratorStep

\* A step of the detectors or the administrator on the incidents: the nodes may
\* grow, and what is swept or watched was so before.
LEMMA OthersKeep ==
  ASSUME XdrInv, UNCHANGED <<queries, orchVars>>, QueryTypeOK', PullsAreStored',
         IncidentsType', DOMAIN incidents \subseteq DOMAIN incidents',
         DetectType', DetectInv', AdminType',
         manual' >= manual,
         \/ asking' = 0
         \/ asking' = asking
         \/ manual' = manual + 1,
         \A i \in DOMAIN incidents' :
           incidents'[i].status \in {"sweeping", "active"} =>
             i \in DOMAIN incidents /\ incidents[i].status \in {"sweeping", "active"}
  PROVE  XdrInv'
<1>1. /\ QueryTypeOK /\ OrchType /\ AdminType /\ StepInv /\ SweepInv /\ RowsInv
      /\ PullsInv /\ SweptIsAsked
  BY TypeParts DEF XdrInv
<1>2. QueriesGrow /\ \A i, t : PendingPulls(i, t)' \subseteq PendingPulls(i, t)
  BY DEF QueriesGrow, PendingPulls, Asked, Pending
<1>3. OrchType' /\ StepInv' /\ SweepInv' /\ RowsInv'
  BY <1>1, <1>2, OrchStays
<1>4. SweptIsAsked'
  BY <1>1, <1>2, SweptStays
<1>5. PullsInv'
  BY <1>1, <1>2, PullsStay DEF AdminType
<1> QED BY <1>3, <1>4, <1>5, TypeParts DEF XdrInv

(* ... the detectors', ... *)

LEMMA DetectorKeeps ==
  ASSUME XdrInv, NEW d \in Detectors, DetectorStep(d)
  PROVE  XdrInv'
<1>1. /\ QueryTypeOK /\ IncidentsType /\ OrchType /\ DetectType /\ AdminType
      /\ DetectInv /\ PullsAreStored
      /\ detect = [e \in Detectors |-> detect[e]]
  BY TypeParts DEF XdrInv, DetectInv
<1>2. /\ DOMAIN incidents = 1..Len(incidents) /\ Len(incidents) \in Nat
      /\ \A i \in DOMAIN incidents : incidents[i] \in Incidents
      /\ manual \in Nat
  BY <1>1, IncidentsDomain DEF AdminType
<1>3. ASSUME UNCHANGED <<queries, evidence, agentVars, handlerVars, cut>>,
             Fault \/ UNCHANGED faults
      PROVE  QueryTypeOK' /\ PullsAreStored'
  <2>1. faults' \in 0..MaxFaults
    BY <1>1, <1>3, QueryAssumption DEF Fault, QueryTypeOK
  <2>2. QueryTypeOK'
    BY <1>1, <1>3, <2>1 DEF QueryTypeOK, agentVars, handlerVars
  <2>3. PullsAreStored'
    BY <1>1, <1>3 DEF PullsAreStored, Pending, handlerVars
  <2> QED BY <2>2, <2>3
<1>4. ASSUME UNCHANGED queryVars
      PROVE  QueryTypeOK' /\ PullsAreStored' /\ UNCHANGED queries
  BY <1>1, <1>4, QueriesStay DEF queryVars
<1>5. UNCHANGED adminVars /\ DOMAIN incidents \subseteq DOMAIN incidents' => AdminType'
  BY <1>1 DEF AdminType, adminVars
\* A step that writes no node.
<1>6. ASSUME UNCHANGED <<queries, incidents, orchVars, adminVars>>,
             QueryTypeOK', PullsAreStored', DetectType',
             detect' = [e \in Detectors |-> detect'[e]]
      PROVE  XdrInv'
  <2>1. IncidentsType' /\ DetectInv' /\ AdminType'
    BY <1>1, <1>5, <1>6 DEF IncidentsType, DetectInv
  <2> QED BY <1>2, <1>6, <2>1, OthersKeep DEF adminVars
<1>7. ASSUME NEW f \in Findings, find_active_campaign(d, f)
      PROVE  XdrInv'
  <2>1. /\ Fault \/ UNCHANGED faults
        /\ received' = received \union {f}
        /\ UNCHANGED <<queries, evidence, agentVars, handlerVars, cut, incidents, orchVars,
                       adminVars>>
    BY <1>7 DEF find_active_campaign
  <2>2. PICK state : /\ Goto(d, state)
                     /\ \/ \E i \in Campaigns(f) : state = At("append", f, i)
                        \/ state = At(IF Vertical(f) THEN "create" ELSE "check", f, 0)
    BY <1>7 DEF find_active_campaign
  <2>3. /\ state.at \in {"append", "check", "create", "retype"}
        /\ state.finding \in received'
        /\ state.incident \in (IF state.at \in {"append", "retype"}
                               THEN DOMAIN incidents' ELSE {0})
    <3>1. CASE \E i \in Campaigns(f) : state = At("append", f, i)
      BY <2>1, <3>1 DEF At, Campaigns
    <3>2. CASE state = At(IF Vertical(f) THEN "create" ELSE "check", f, 0)
      BY <2>1, <3>2 DEF At
    <3> QED BY <2>2, <3>1, <3>2
  <2>4. received \subseteq received' /\ received' \subseteq Findings
    BY <1>1, <2>1 DEF DetectType
  <2>5. DetectType' /\ detect' = [e \in Detectors |-> detect'[e]]
    BY <1>1, <2>1, <2>2, <2>3, <2>4, GotoKeeps
  <2> QED BY <1>3, <1>6, <2>1, <2>5
<1>8. ASSUME append_finding_to_incident(d)
      PROVE  XdrInv'
  <2> DEFINE i == detect[d].incident
             x == [incidents[i] EXCEPT !.sources = @ \union {detect[d].finding}]
  <2>1. /\ detect[d].at = "append" /\ Goto(d, Idle)
        /\ incidents' = [incidents EXCEPT ![i] = x]
        /\ UNCHANGED <<queryVars, orchVars, received, adminVars>>
    BY <1>8 DEF append_finding_to_incident
  <2>2. i \in DOMAIN incidents /\ detect[d].finding \in Findings
    BY <1>1, <2>1 DEF DetectType, Idle
  <2>3. /\ x \in Incidents /\ x.status = incidents[i].status
        /\ x.sources = incidents[i].sources \union {detect[d].finding}
    BY <1>2, <2>2 DEF Incidents
  <2>4. IsFiniteSet(x.sources)
    <3>1. IsFiniteSet(incidents[i].sources)
      BY <1>1, <2>2 DEF DetectInv
    <3> HIDE DEF i, x
    <3>2. IsFiniteSet(incidents[i].sources \union {detect[d].finding})
      BY <3>1, FS_AddElement
    <3> QED BY <2>3, <3>2
  <2> HIDE DEF i, x
  <2>5. /\ IncidentsType' /\ DOMAIN incidents' = DOMAIN incidents
        /\ \A j \in DOMAIN incidents : incidents'[j] = IF j = i THEN x ELSE incidents[j]
    BY <1>1, <2>1, <2>2, <2>3, WriteKeeps
  <2>6. DetectType' /\ detect' = [e \in Detectors |-> detect'[e]]
    BY <1>1, <2>1, <2>5, GotoKeeps DEF DetectType
  <2>7. DetectInv'
    BY <1>1, <2>4, <2>5, <2>6 DEF DetectInv
  <2> QED BY <1>2, <1>4, <1>5, <2>1, <2>3, <2>5, <2>6, <2>7, OthersKeep DEF adminVars
<1>9. ASSUME has_incident_for_finding(d)
      PROVE  XdrInv'
  <2>1. /\ detect[d].at = "check"
        /\ \/ Goto(d, Idle)
           \/ Goto(d, At("create", detect[d].finding, 0))
        /\ UNCHANGED <<queryVars, incidents, orchVars, received, adminVars>>
    BY <1>9 DEF has_incident_for_finding
  <2>2. detect[d].finding \in received /\ received \subseteq Findings
    BY <1>1, <2>1 DEF DetectType, Idle
  <2>3. PICK state \in {Idle, At("create", detect[d].finding, 0)} : Goto(d, state)
    BY <2>1
  <2>4. state # Idle => /\ state.at = "create" /\ state.finding \in received
                        /\ state.incident = 0
    BY <2>2, <2>3 DEF At
  <2>5. DetectType' /\ detect' = [e \in Detectors |-> detect'[e]]
    BY <1>1, <2>1, <2>2, <2>3, <2>4, GotoKeeps
  <2> QED BY <1>4, <1>6, <2>1, <2>5
<1>10. ASSUME create_incident(d)
       PROVE  XdrInv'
  <2>0. PICK f : f = detect[d].finding
    OBVIOUS
  <2> DEFINE x == [src |-> Origin[f], dst |-> Target[f], status |-> "detected",
                   sources |-> {f}, timedOut |-> FALSE]
  <2>1. /\ detect[d].at = "create" /\ Len(incidents) < MaxIncidents
        /\ incidents' = Append(incidents, x)
        /\ Goto(d, IF Vertical(f) THEN At("retype", f, Len(incidents')) ELSE Idle)
        /\ UNCHANGED <<queryVars, orchVars, received, adminVars>>
    BY <1>10, <2>0 DEF create_incident
  <2>2. f \in received /\ f \in Findings /\ received \subseteq Findings
    BY <1>1, <2>0, <2>1 DEF DetectType, Idle
  <2>3. /\ x \in Incidents /\ x.status = "detected" /\ IsFiniteSet(x.sources)
    BY <2>2, XdrAssumption, FS_Singleton DEF Incidents, Statuses
  <2> HIDE DEF x
  <2>4. /\ incidents' \in Seq(Incidents) /\ Len(incidents') = Len(incidents) + 1
        /\ \A i \in 1..Len(incidents) : incidents'[i] = incidents[i]
        /\ incidents'[Len(incidents) + 1] = x
    BY <1>1, <2>1, <2>3, AppendProperties DEF IncidentsType
  <2>5. /\ DOMAIN incidents' = 1..(Len(incidents) + 1)
        /\ DOMAIN incidents \subseteq DOMAIN incidents' /\ Len(incidents') \in DOMAIN incidents'
    BY <1>2, <2>4, LenProperties
  <2>6. IncidentsType'
    BY <1>2, <2>1, <2>4, QueryAssumption DEF IncidentsType
  <2>7. PICK state \in {Idle, At("retype", f, Len(incidents'))} : Goto(d, state)
    BY <2>1
  <2>8. state # Idle => /\ state.at = "retype" /\ state.finding \in received
                        /\ state.incident \in DOMAIN incidents'
    BY <2>2, <2>5, <2>7 DEF At
  <2>9. DetectType' /\ detect' = [e \in Detectors |-> detect'[e]]
    BY <1>1, <2>1, <2>2, <2>5, <2>7, <2>8, GotoKeeps
  <2>10. DetectInv'
    BY <1>1, <1>2, <2>3, <2>4, <2>5, <2>9 DEF DetectInv
  <2>11. \A i \in DOMAIN incidents' :
           incidents'[i].status \in {"sweeping", "active"} =>
             i \in DOMAIN incidents /\ incidents[i].status \in {"sweeping", "active"}
    BY <1>2, <2>3, <2>4, <2>5
  <2> QED BY <1>2, <1>4, <1>5, <2>1, <2>5, <2>6, <2>9, <2>10, <2>11, OthersKeep DEF adminVars
<1>11. ASSUME RetypeVertical(d)
       PROVE  XdrInv'
  <2>1. /\ detect[d].at = "retype" /\ SetStatus(detect[d].incident, "detected")
        /\ Goto(d, Idle)
        /\ UNCHANGED <<queryVars, orchVars, received, adminVars>>
    BY <1>11 DEF RetypeVertical
  <2>2. detect[d].incident \in DOMAIN incidents
    BY <1>1, <2>1 DEF DetectType, Idle
  <2>3. /\ IncidentsType' /\ DOMAIN incidents' = DOMAIN incidents
        /\ \A j \in DOMAIN incidents :
             /\ incidents'[j].status = IF j = detect[d].incident THEN "detected"
                                       ELSE incidents[j].status
             /\ incidents'[j].sources = incidents[j].sources
    BY <1>1, <2>1, <2>2, StatusKeeps DEF Statuses
  <2>4. DetectType' /\ detect' = [e \in Detectors |-> detect'[e]]
    BY <1>1, <2>1, <2>3, GotoKeeps DEF DetectType
  <2>5. DetectInv'
    BY <1>1, <2>3, <2>4 DEF DetectInv
  <2> QED BY <1>2, <1>4, <1>5, <2>1, <2>3, <2>4, <2>5, OthersKeep DEF adminVars
<1>12. ASSUME DetectionFails(d)
       PROVE  XdrInv'
  <2>1. /\ Fault /\ Goto(d, Idle)
        /\ UNCHANGED <<queries, evidence, agentVars, handlerVars, cut, incidents, orchVars,
                       received, adminVars>>
    BY <1>12 DEF DetectionFails
  <2>2. DetectType' /\ detect' = [e \in Detectors |-> detect'[e]]
    BY <1>1, <2>1, GotoKeeps DEF DetectType
  <2> QED BY <1>3, <1>6, <2>1, <2>2
<1> QED BY <1>7, <1>8, <1>9, <1>10, <1>11, <1>12 DEF DetectorStep

(* ... and the others'. *)

\* A request for the logs of an incident adds at most one pull for either end.
LEMMA PullManuallyKeeps ==
  ASSUME XdrInv, PullManually
  PROVE  XdrInv'
<1>1. /\ QueryTypeOK /\ IncidentsType /\ OrchType /\ DetectType /\ AdminType
      /\ StepInv /\ DetectInv /\ SweepInv /\ RowsInv /\ PullsInv
      /\ PullsAreStored /\ SweptIsAsked
  BY TypeParts DEF XdrInv
<1>0. PICK i : i = asking
  OBVIOUS
<1>2. PICK ends \in {<<>>, <<"surv_dst">>, <<"surv_src">>, PullOrder} :
        /\ i # 0
        /\ queries' = queries \o
             [n \in DOMAIN ends |->
                [incident |-> i, type |-> ends[n], agent |-> AgentOf(i, ends[n]),
                 status |-> "pending"]]
        /\ asking' = 0
        /\ UNCHANGED <<evidence, agentVars, handlerVars, cut, faults, incidents, orchVars,
                       detect, received, manual>>
  BY <1>0 DEF PullManually
<1>3. /\ ends \in Seq(SurvPulls)
      /\ \A m, n \in DOMAIN ends : ends[m] = ends[n] => m = n
  <2>1. CASE ends = <<>>
    BY <2>1
  <2>2. CASE ends = <<"surv_dst">>
    BY <2>2 DEF SurvPulls
  <2>3. CASE ends = <<"surv_src">>
    BY <2>3 DEF SurvPulls
  <2>4. CASE ends = <<"surv_dst", "surv_src">>
    BY <2>4 DEF SurvPulls
  <2> QED BY <2>1, <2>2, <2>3, <2>4 DEF PullOrder
<1> DEFINE new == [n \in DOMAIN ends |->
                     [incident |-> i, type |-> ends[n], agent |-> AgentOf(i, ends[n]),
                      status |-> "pending"]]
<1>4. /\ new \in Seq(Queries) /\ DOMAIN new = DOMAIN ends
      /\ \A n \in DOMAIN new :
           new[n].incident = i /\ new[n].type = ends[n] /\ new[n].status = "pending"
  <2>1. /\ i \in DOMAIN incidents /\ i \in 1..MaxIncidents
        /\ incidents[i].src \in Agents /\ incidents[i].dst \in Agents
    BY <1>0, <1>1, <1>2, IncidentsDomain DEF AdminType, Incidents
  <2>2. Len(ends) \in Nat /\ DOMAIN ends = 1..Len(ends) /\ \A n \in DOMAIN ends : ends[n] \in SurvPulls
    BY <1>3, LenProperties
  <2>3. \A n \in DOMAIN ends :
          [incident |-> i, type |-> ends[n], agent |-> AgentOf(i, ends[n]),
           status |-> "pending"] \in Queries
    BY <2>1, <2>2 DEF AgentOf, Queries
  <2>4. new \in [1..Len(ends) -> Queries]
    BY <2>2, <2>3
  <2>5. new \in Seq(Queries)
    <3> HIDE DEF new
    <3> QED BY <2>2, <2>4, SeqDef
  <2> QED BY <2>5
<1>5. queries' = queries \o new
  BY <1>2
<1> HIDE DEF new
<1>6. /\ QueryTypeOK' /\ PullsAreStored' /\ QueriesGrow
      /\ DOMAIN queries' = 1..(Len(queries) + Len(new))
      /\ \A q \in DOMAIN queries : queries'[q] = queries[q]
      /\ \A q \in DOMAIN queries' \ DOMAIN queries :
           q - Len(queries) \in DOMAIN new /\ queries'[q] = new[q - Len(queries)]
  BY <1>1, <1>2, <1>4, <1>5, EnqueueKeeps
<1>7. manual \in Nat /\ Len(queries) \in Nat
  BY <1>1, LenProperties DEF AdminType, QueryTypeOK
<1>8. ASSUME NEW j \in 1..MaxIncidents, NEW t \in SurvPulls
      PROVE  Cardinality(PendingPulls(j, t)') <= 1 + manual
  <2>1. PICK n : (n \in DOMAIN ends /\ ends[n] = t) \/ t \notin {ends[m] : m \in DOMAIN ends}
    OBVIOUS
  <2> DEFINE x == Len(queries) + n
  <2>2. ASSUME NEW q \in PendingPulls(j, t)', q \notin PendingPulls(j, t)
        PROVE  q = x
    <3>1. q \in DOMAIN queries' \ DOMAIN queries
      BY <1>6, <2>2 DEF PendingPulls, Asked, Pending
    <3>2. q - Len(queries) \in DOMAIN ends /\ ends[q - Len(queries)] = t
      BY <1>4, <1>6, <2>2, <3>1 DEF PendingPulls, Asked
    <3>3. q - Len(queries) = n
      BY <1>3, <2>1, <3>2
    <3>4. q \in Nat
      BY <1>6, <3>1
    <3> QED BY <1>7, <3>3, <3>4
  <2>3. PendingPulls(j, t)' \subseteq PendingPulls(j, t) \union {x}
    BY <2>2
  <2> HIDE DEF x
  <2>4. Cardinality(PendingPulls(j, t)') <= Cardinality(PendingPulls(j, t)) + 1
        /\ Cardinality(PendingPulls(j, t)') \in Nat
    BY <1>1, <1>6, <2>3, OneMorePull
  <2>5. Cardinality(PendingPulls(j, t)) <= manual /\ Cardinality(PendingPulls(j, t)) \in Nat
    BY <1>0, <1>1, <1>2, <1>7, PullsAreFinite DEF PullsInv
  <2> QED BY <1>7, <2>4, <2>5
<1>9. PullsInv' /\ AdminType'
  BY <1>0, <1>1, <1>2, <1>7, <1>8 DEF PullsInv, AdminType
<1>10. IncidentsType' /\ DetectType' /\ DetectInv' /\ SweptIsAsked'
  BY <1>2, <1>6, IncidentsStay
<1>11. OrchType' /\ StepInv' /\ SweepInv' /\ RowsInv'
  BY <1>1, <1>2, <1>6, OrchStays
<1> QED BY <1>6, <1>9, <1>10, <1>11, TypeParts DEF XdrInv

LEMMA XdrStep == XdrInv /\ [Next]_vars => XdrInv'
<1> SUFFICES ASSUME XdrInv, [Next]_vars
             PROVE  XdrInv'
  OBVIOUS
<1>1. /\ QueryTypeOK /\ IncidentsType /\ OrchType /\ DetectType /\ AdminType
      /\ StepInv /\ DetectInv /\ SweepInv /\ RowsInv /\ PullsInv
      /\ PullsAreStored /\ SweptIsAsked /\ manual \in Nat
  BY TypeParts DEF XdrInv, AdminType
<1>2. CASE QueryStep /\ UNCHANGED restVars
  <2>1. /\ QueryTypeOK' /\ PullsAreStored' /\ QueriesGrow /\ DOMAIN queries' = DOMAIN queries
        /\ \A q \in DOMAIN queries : Pending(q)' => Pending(q)
    BY <1>1, <1>2, QueryStepKeeps
  <2>2. \A i, t : PendingPulls(i, t)' \subseteq PendingPulls(i, t)
    BY <2>1 DEF PendingPulls, Asked, QueriesGrow
  <2>3. UNCHANGED <<incidents, orchVars, detect, received, asking, manual>>
    BY <1>2 DEF restVars, adminVars
  <2>4. IncidentsType' /\ DetectType' /\ DetectInv' /\ SweptIsAsked'
    BY <2>1, <2>3, IncidentsStay
  <2>5. OrchType' /\ StepInv' /\ SweepInv' /\ RowsInv'
    BY <1>1, <2>1, <2>3, OrchStays
  <2>6. AdminType' /\ PullsInv'
    <3>1. AdminType'
      BY <1>1, <2>3 DEF AdminType
    <3> QED BY <1>1, <2>2, <2>3, <3>1, PullsStay
  <2> QED BY <2>1, <2>4, <2>5, <2>6, TypeParts DEF XdrInv
<1>3. CASE OrchestratorStep \/ PhaseFails
  BY <1>3, OrchestratorKeeps
<1>4. ASSUME NEW d \in Detectors, DetectorStep(d)
      PROVE  XdrInv'
  BY <1>4, DetectorKeeps
\* The steps that write a node, and nothing else but the administrator's state.
<1>5. ASSUME UNCHANGED <<queryVars, orchVars, detect, received, adminVars>>,
             NEW i \in DOMAIN incidents, NEW x \in Incidents,
             incidents' = [incidents EXCEPT ![i] = x],
             x.sources = incidents[i].sources,
             x.status \in {"closed", incidents[i].status}
      PROVE  XdrInv'
  <2>1. /\ IncidentsType' /\ DOMAIN incidents' = DOMAIN incidents
        /\ \A j \in DOMAIN incidents : incidents'[j] = IF j = i THEN x ELSE incidents[j]
    BY <1>1, <1>5, WriteKeeps
  <2>2. QueryTypeOK' /\ PullsAreStored' /\ UNCHANGED queries
    BY <1>1, <1>5, QueriesStay DEF queryVars
  <2>3. DetectType' /\ AdminType'
    BY <1>1, <1>5, <2>1, DetectStays DEF AdminType, adminVars
  <2>4. DetectInv'
    BY <1>1, <1>5, <2>1 DEF DetectInv
  <2> QED BY <1>1, <1>5, <2>1, <2>2, <2>3, <2>4, OthersKeep DEF adminVars
<1>6. ASSUME NEW i \in DOMAIN incidents, TimePasses(i)
      PROVE  XdrInv'
  <2> DEFINE x == [incidents[i] EXCEPT !.timedOut = TRUE]
  <2>1. x \in Incidents /\ x.sources = incidents[i].sources /\ x.status = incidents[i].status
    BY <1>1, IncidentsDomain DEF Incidents
  <2>2. incidents' = [incidents EXCEPT ![i] = x]
    BY <1>6 DEF TimePasses
  <2> HIDE DEF x
  <2> QED BY <1>5, <1>6, <2>1, <2>2 DEF TimePasses
<1>7. ASSUME NEW i \in DOMAIN incidents, close_incident(i)
      PROVE  XdrInv'
  <2> DEFINE x == [incidents[i] EXCEPT !.status = "closed"]
  <2>1. x \in Incidents /\ x.sources = incidents[i].sources /\ x.status = "closed"
    BY <1>1, IncidentsDomain DEF Incidents, Statuses
  <2>2. incidents' = [incidents EXCEPT ![i] = x]
    BY <1>7 DEF close_incident, SetStatus
  <2> HIDE DEF x
  <2> QED BY <1>5, <1>7, <2>1, <2>2 DEF close_incident
<1>8. ASSUME NEW i \in DOMAIN incidents, AskForLogs(i)
      PROVE  XdrInv'
  <2>1. /\ manual < MaxManual /\ asking' = i /\ manual' = manual + 1
        /\ UNCHANGED <<queryVars, incidents, orchVars, detect, received>>
    BY <1>8 DEF AskForLogs
  <2>2. QueryTypeOK' /\ PullsAreStored' /\ QueriesGrow /\ UNCHANGED queries
    BY <1>1, <2>1, QueriesStay DEF queryVars
  <2>3. IncidentsType' /\ DetectType' /\ DetectInv'
    BY <2>1, <2>2, IncidentsStay
  <2>4. AdminType'
    BY <1>1, <1>8, <2>1, XdrAssumption DEF AdminType
  <2> QED BY <1>1, <2>1, <2>2, <2>3, <2>4, OthersKeep
<1>9. CASE PullManually
  BY <1>9, PullManuallyKeeps
<1>10. CASE ServerRestarts
  <2>1. /\ pc' = "watch" /\ todo' = <<>> /\ step' = 0 /\ asking' = 0
        /\ detect' = [d \in Detectors |-> Idle]
        /\ UNCHANGED <<queries, incidents, received, manual>>
    BY <1>10 DEF ServerRestarts, LoseHandlers
  <2>2. QueryTypeOK' /\ PullsAreStored'
    BY <1>1, <1>10, LoseHandlersKeeps DEF ServerRestarts
  <2>3. QueriesGrow /\ \A i, t : PendingPulls(i, t)' \subseteq PendingPulls(i, t)
    BY <2>1 DEF QueriesGrow, PendingPulls, Asked, Pending
  <2>4. IncidentsType' /\ DetectType' /\ DetectInv'
    BY <1>1, <2>1 DEF IncidentsType, DetectType, DetectInv
  <2>5. OrchType' /\ StepInv' /\ SweepInv' /\ RowsInv'
    <3>1. todo' \in Seq(DOMAIN incidents') /\ DOMAIN todo' = {}
      BY <2>1, EmptySeq
    <3> QED BY <2>1, <3>1
          DEF OrchType, StepInv, SweepInv, RowsInv, PhaseAfter, PullOrder, SweepOrder
  <2>6. AdminType' /\ PullsInv'
    <3>1. AdminType'
      BY <1>1, <2>1 DEF AdminType
    <3> QED BY <1>1, <2>1, <2>3, <3>1, PullsStay
  <2>7. SweptIsAsked'
    BY <1>1, <2>1 DEF SweptIsAsked, Asked
  <2> QED BY <2>2, <2>4, <2>5, <2>6, <2>7, TypeParts DEF XdrInv
<1>11. CASE UNCHANGED vars
  <2>1. UNCHANGED <<queryVars, queries, incidents, orchVars, detect, received, asking, manual>>
    BY <1>11 DEF vars, adminVars, queryVars
  <2>2. QueryTypeOK' /\ PullsAreStored' /\ QueriesGrow
    BY <1>1, <2>1, QueriesStay
  <2>3. IncidentsType' /\ DetectType' /\ DetectInv'
    BY <2>1, <2>2, IncidentsStay
  <2>4. AdminType'
    BY <1>1, <2>1 DEF AdminType
  <2> QED BY <1>1, <2>1, <2>2, <2>3, <2>4, OthersKeep
<1> QED BY <1>2, <1>3, <1>4, <1>6, <1>7, <1>8, <1>9, <1>10, <1>11 DEF Next

-----------------------------------------------------------------------------
(* Results. *)

LEMMA XdrInvariant == Spec => []XdrInv
<1> QED BY XdrInitially, XdrStep, PTL DEF Spec

\* Rows of a phase and detectors name incidents that exist, queries name agents,
\* and the results that travel name queries (_process_*, complete_xdr_query).
THEOREM XdrTypes == Spec => []TypeOK
<1>1. XdrInv => TypeOK
  BY DEF XdrInv
<1> QED BY <1>1, XdrInvariant, PTL

\* An incident that is swept or watched has been asked about in full, whatever
\* detectors, administrator and orchestrator overwrite, wherever the server
\* stopped (_process_detected enqueues first and sets the status last).
THEOREM SweptIncidentsAreAsked == Spec => []SweptIsAsked
<1>1. XdrInv => SweptIsAsked
  BY DEF XdrInv
<1> QED BY <1>1, XdrInvariant, PTL

\* The records of a completed pull are stored, being stored, or were cut off by
\* the end of their handler (complete_xdr_query, _ingest_*).
THEOREM CompletedPullsAreStored == Spec => []PullsAreStored
<1>1. XdrInv => PullsAreStored
  BY DEF XdrInv
<1> QED BY <1>1, XdrInvariant, PTL

\* Of each end of an incident at most one pull is pending, and one for each
\* request of the administrator (has_pending_xdr_query).
THEOREM PullsAreBounded == Spec => []PullsDoNotPileUp
<1>1. XdrInv => PullsDoNotPileUp
  <2> SUFFICES ASSUME XdrInv, NEW i \in DOMAIN incidents, NEW t \in SurvPulls
               PROVE  Cardinality(PendingPulls(i, t)) <= 1 + manual
    BY DEF PullsDoNotPileUp, PendingPulls
  <2>1. QueryTypeOK /\ PullsInv /\ manual \in Nat /\ i \in 1..MaxIncidents
    BY TypeParts, IncidentsDomain DEF XdrInv, AdminType
  <2>2. Cardinality(PendingPulls(i, t)) \in Nat
    BY <2>1, PullsAreFinite
  <2> QED BY <2>1, <2>2 DEF PullsInv
<1> QED BY <1>1, XdrInvariant, PTL

-----------------------------------------------------------------------------
(* The queries implement QueryTable. *)

Bare == {q \in DOMAIN queries : queries[q].type \in Traces}
Answered == {q \in DOMAIN queries : ~Pending(q)}
Held == UNION {storing[h] : h \in Handlers}

LEMMA TableRows ==
  UNCHANGED queries =>
    Len(queries') = Len(queries) /\ Answered' = Answered /\ Bare' = Bare
BY DEF Answered, Bare, Pending

\* The table as QueryTable sees it.
LEMMA TableVars ==
  ASSUME UNCHANGED <<queries, evidence, cut>>, Held' = Held
  PROVE  UNCHANGED Table!vars
BY DEF Table!vars, Held, Pending

\* A step that asks: one query, or two for the ends of an incident.
LEMMA TableAsks ==
  ASSUME QueryTypeOK, PullsAreStored,
         NEW new \in Seq(Queries), \A n \in DOMAIN new : new[n].status = "pending",
         Len(new) \in {1, 2}, queries' = queries \o new,
         UNCHANGED <<evidence, agentVars, handlerVars, cut, faults>>
  PROVE  Table!Next
<1>1. /\ DOMAIN queries = 1..Len(queries) /\ Len(queries) \in Nat
      /\ DOMAIN new = 1..Len(new)
  BY LenProperties DEF QueryTypeOK
<1>2. /\ QueryTypeOK' /\ DOMAIN queries' = 1..(Len(queries) + Len(new))
      /\ \A q \in DOMAIN queries : queries'[q] = queries[q]
      /\ \A q \in DOMAIN queries' \ DOMAIN queries :
           q - Len(queries) \in DOMAIN new /\ queries'[q] = new[q - Len(queries)]
  BY EnqueueKeeps
<1>3. Len(queries') = Len(queries) + Len(new)
  BY ConcatProperties DEF QueryTypeOK
<1>4. Answered' = Answered
  <2>1. \A q \in DOMAIN queries : q \in DOMAIN queries' /\ (Pending(q)' <=> Pending(q))
    BY <1>1, <1>2 DEF Pending
  <2>2. \A q \in DOMAIN queries' \ DOMAIN queries : Pending(q)'
    BY <1>2 DEF Pending
  <2> QED BY <2>1, <2>2 DEF Answered
<1>5. PICK more \in SUBSET ((Len(queries) + 1)..Len(queries')) : Bare' = Bare \union more
  <2> DEFINE more == Bare' \ Bare
  <2>1. Bare \subseteq Bare'
    BY <1>1, <1>2 DEF Bare
  <2>2. ASSUME NEW q \in more PROVE q \in (Len(queries) + 1)..Len(queries')
    <3>1. q \in DOMAIN queries' /\ q \notin DOMAIN queries
      BY <1>2 DEF Bare
    <3> QED BY <1>1, <1>2, <1>3, <3>1
  <2>3. more \in SUBSET ((Len(queries) + 1)..Len(queries')) /\ Bare' = Bare \union more
    BY <2>1, <2>2
  <2> HIDE DEF more
  <2> QED BY <2>3
<1>6. Table!Ask
  <2>1. Held' = Held /\ evidence' = evidence /\ cut' = cut
    BY DEF Held, handlerVars
  <2>2. Len(queries') \in {Len(queries) + 1, Len(queries) + 2}
    BY <1>3
  <2> QED BY <1>4, <1>5, <2>1, <2>2 DEF Table!Ask, Answered, Bare, Held
<1> QED BY <1>6 DEF Table!Next

\* The result of a query that is pending answers it, and of a pull its records
\* are in hand; so they are if somebody has been faster (complete_xdr_query).
LEMMA CompleteAnswers ==
  ASSUME QueryTypeOK, NEW h \in Handlers, Complete(h)
  PROVE  [Table!Next]_(Table!vars)
<1>1. PICK q \in reading[h] :
        /\ queries' = [queries EXCEPT ![q].status = "completed"]
        /\ storing' = [storing EXCEPT ![h] =
                         IF queries[q].type \notin Traces THEN @ \union {q} ELSE @]
  BY DEF Complete, complete_xdr_query
<1>2. q \in DOMAIN queries /\ q \in 1..Len(queries) /\ UNCHANGED <<evidence, cut>>
  BY LenProperties DEF Complete, QueryTypeOK
<1>3. /\ queries' \in Seq(Queries) /\ DOMAIN queries' = DOMAIN queries /\ QueriesGrow
      /\ \A r \in DOMAIN queries : Pending(r)' <=> Pending(r) /\ r # q
  BY <1>1, <1>2, CompleteKeeps DEF QueryTypeOK
<1>4. Bare' = Bare /\ Len(queries') = Len(queries)
  <2>1. Bare' = Bare
    BY <1>3 DEF Bare, QueriesGrow
  <2> QED BY <1>3, <2>1, LenProperties DEF QueryTypeOK
<1>5. Held' = IF q \in Bare THEN Held ELSE Held \union {q}
  <2>1. CASE q \in Bare
    <3>1. storing' = storing
      BY <1>1, <2>1 DEF Bare, QueryTypeOK
    <3> QED BY <2>1, <3>1 DEF Held
  <2>2. CASE q \notin Bare
    <3>1. \A k \in Handlers : storing'[k] = IF k = h THEN storing[k] \union {q} ELSE storing[k]
      BY <1>1, <1>2, <2>2 DEF Bare, QueryTypeOK
    <3> QED BY <2>2, <3>1 DEF Held
  <2> QED BY <2>1, <2>2
<1>6. CASE Pending(q)
  <2>1. Answered' = Answered \union {q} /\ q \in (1..Len(queries)) \ Answered
    BY <1>2, <1>3, <1>6 DEF Answered
  <2>2. Table!Answer
    BY <1>2, <1>4, <1>5, <2>1 DEF Table!Answer, Answered, Bare, Held
  <2> QED BY <2>2 DEF Table!Next
<1>7. CASE ~Pending(q)
  <2>1. Answered' = Answered /\ q \in Answered
    BY <1>2, <1>3, <1>7 DEF Answered
  <2>2. CASE q \in Bare
    <3>1. Held' = Held
      BY <1>5, <2>2
    <3> QED BY <1>2, <1>4, <2>1, <3>1 DEF Table!vars, Answered, Bare, Held
  <2>3. CASE q \notin Bare
    <3>1. Held' = Held \union {q} /\ q \in Answered \ Bare
      BY <1>5, <2>1, <2>3
    <3>2. Table!AnswerAgain
      BY <1>2, <1>4, <2>1, <3>1 DEF Table!AnswerAgain, Answered, Bare, Held
    <3> QED BY <3>2 DEF Table!Next
  <2> QED BY <2>2, <2>3
<1> QED BY <1>6, <1>7

\* A handler lets go of what it holds; another may still hold it.
LEMMA LetGo ==
  ASSUME QueryTypeOK, NEW h \in Handlers, NEW q \in storing[h],
         storing' = [storing EXCEPT ![h] = @ \ {q}]
  PROVE  q \in Held /\ Held' \in {Held, Held \ {q}}
<1>1. \A k \in Handlers : storing'[k] = IF k = h THEN storing[k] \ {q} ELSE storing[k]
  BY DEF QueryTypeOK
<1>2. Held' \subseteq Held /\ Held \ {q} \subseteq Held'
  BY <1>1 DEF Held
<1>3. Held' = Held \/ Held' = Held \ {q}
  BY <1>2
<1> QED BY <1>3 DEF Held

\* The calls between agents and server.
LEMMA QueryStepImplements ==
  ASSUME QueryTypeOK, QueryStep
  PROVE  [Table!Next]_(Table!vars)
<1>1. TimedOut \in Handlers /\ Agents \subseteq Handlers
  BY DEF Handlers
<1>2. ASSUME UNCHANGED <<queries, storing, evidence, cut>>
      PROVE  [Table!Next]_(Table!vars)
  <2>1. Held' = Held
    BY <1>2 DEF Held
  <2> QED BY <1>2, <2>1, TableVars
<1>3. ASSUME NEW a \in Agents, SendHeartbeat(a) \/ AgentRestarts(a) \/ Reply(a)
      PROVE  [Table!Next]_(Table!vars)
  BY <1>2, <1>3 DEF SendHeartbeat, AgentRestarts, Reply, handlerVars
\* Its caller gives up: a handler goes on under another name.
<1>4. ASSUME NEW a \in Agents, HeartbeatFails(a)
      PROVE  [Table!Next]_(Table!vars)
  <2>1. CASE UNCHANGED storing
    BY <1>2, <1>4, <2>1 DEF HeartbeatFails
  <2>2. CASE storing' = [storing EXCEPT ![a] = {}, ![TimedOut] = @ \union storing[a]]
    <3>1. /\ storing'[a] = {} /\ storing'[TimedOut] = storing[TimedOut] \union storing[a]
          /\ \A k \in Handlers \ {a, TimedOut} : storing'[k] = storing[k]
      BY <1>1, <2>2, QueryAssumption DEF QueryTypeOK
    <3>2. UNCHANGED <<queries, evidence, cut>>
      BY <1>4 DEF HeartbeatFails
    <3>3. ASSUME NEW q PROVE q \in Held' <=> q \in Held
      <4>1. ASSUME q \in Held' PROVE q \in Held
        <5>1. PICK k \in Handlers : q \in storing'[k]
          BY <4>1 DEF Held
        <5>2. q \in storing[k] \/ q \in storing[a]
          BY <1>1, <3>1, <5>1
        <5> QED BY <1>1, <5>2 DEF Held
      <4>2. ASSUME q \in Held PROVE q \in Held'
        <5>1. PICK k \in Handlers : q \in storing[k]
          BY <4>2 DEF Held
        <5>2. q \in storing'[k] \/ q \in storing'[TimedOut]
          BY <1>1, <3>1, <5>1
        <5> QED BY <1>1, <5>2 DEF Held
      <4> QED BY <4>1, <4>2
    <3>4. Held' = Held
      BY <3>3
    <3> QED BY <3>2, <3>4, TableVars
  <2> QED BY <1>4, <2>1, <2>2 DEF HeartbeatFails
<1>5. ASSUME NEW h \in Handlers, Ingest(h)
      PROVE  [Table!Next]_(Table!vars)
  <2>1. PICK q \in storing[h] :
          evidence' = evidence \union {q} /\ storing' = [storing EXCEPT ![h] = @ \ {q}]
    BY <1>5 DEF Ingest
  <2>2. q \in Held /\ Held' \in {Held, Held \ {q}} /\ UNCHANGED <<queries, cut>>
    BY <1>5, <2>1, LetGo DEF Ingest
  <2>3. Table!Keep
    BY <2>1, <2>2, TableRows DEF Table!Keep, Answered, Bare, Held
  <2> QED BY <2>3 DEF Table!Next
<1>6. ASSUME NEW h \in Handlers, IngestFails(h)
      PROVE  [Table!Next]_(Table!vars)
  <2>1. PICK q \in storing[h] :
          cut' = cut \union {q} /\ storing' = [storing EXCEPT ![h] = @ \ {q}]
    BY <1>6 DEF IngestFails
  <2>2. q \in Held /\ Held' \in {Held, Held \ {q}} /\ UNCHANGED <<queries, evidence>>
    BY <1>6, <2>1, LetGo DEF IngestFails
  <2>3. {q} \in SUBSET Held
    BY <2>2
  <2>4. Table!Lose
    BY <2>1, <2>2, <2>3, TableRows DEF Table!Lose, Answered, Bare, Held
  <2> QED BY <2>4 DEF Table!Next
<1>7. ASSUME NEW h \in Handlers, ReadQuery(h)
      PROVE  [Table!Next]_(Table!vars)
  BY <1>2, <1>7 DEF ReadQuery
<1>8. ASSUME NEW h \in Handlers, Complete(h)
      PROVE  [Table!Next]_(Table!vars)
  BY <1>8, CompleteAnswers
<1> QED BY <1>3, <1>4, <1>5, <1>6, <1>7, <1>8 DEF QueryStep, HandlerStep

\* Every step of the incidents is one of the table or leaves it as it is.
LEMMA XdrImplementsStep ==
  XdrInv /\ [Next]_vars => [Table!Next]_(Table!vars)
<1> SUFFICES ASSUME XdrInv, [Next]_vars
             PROVE  [Table!Next]_(Table!vars)
  OBVIOUS
<1> DEFINE Goal == [Table!Next]_(Table!vars)
<1>1. /\ QueryTypeOK /\ PullsAreStored /\ IncidentsType /\ OrchType /\ StepInv /\ AdminType
  BY TypeParts DEF XdrInv
<1>2. ASSUME UNCHANGED <<queries, evidence, agentVars, handlerVars, cut>>
      PROVE  Goal
  <2>1. Held' = Held
    BY <1>2 DEF Held, handlerVars
  <2> QED BY <1>2, <2>1, TableVars
<1>3. CASE QueryStep
  BY <1>1, <1>3, QueryStepImplements
\* One more query, for an agent of the first incident of the phase.
<1>4. ASSUME todo # <<>>, NEW t \in Traces \union OcsfPulls \union SurvPulls,
             enqueue_xdr_query(Head(todo), t, AgentOf(Head(todo), t)),
             UNCHANGED <<evidence, agentVars, handlerVars, cut, faults>>
      PROVE  Goal
  <2> DEFINE new == <<[incident |-> Head(todo), type |-> t, agent |-> AgentOf(Head(todo), t),
                       status |-> "pending"]>>
  <2>1. Head(todo) \in DOMAIN incidents /\ Head(todo) \in 1..MaxIncidents
    BY <1>1, <1>4, HeadTailProperties, IncidentsDomain DEF OrchType
  <2>2. AgentOf(Head(todo), t) \in Agents
    BY <1>1, <2>1, IncidentsDomain DEF AgentOf, Incidents
  <2>3. new \in Seq(Queries) /\ Len(new) = 1 /\ \A n \in DOMAIN new : new[n].status = "pending"
    BY <2>1, <2>2 DEF Queries
  <2>4. queries' = queries \o new
    BY <1>1, <1>4 DEF enqueue_xdr_query, QueryTypeOK
  <2> HIDE DEF new
  <2> QED BY <1>1, <1>4, <2>3, <2>4, TableAsks
<1>5. CASE Enqueue
  <2>1. SweepOrder[step + 1] \in Traces \union OcsfPulls \union SurvPulls
    BY <1>1, <1>5 DEF Enqueue, SweepOrder, OrchType, Traces, OcsfPulls
  <2> QED BY <1>4, <1>5, <2>1 DEF Enqueue
<1>6. CASE Pull
  <2>1. PullOrder[step + 1] \in Traces \union OcsfPulls \union SurvPulls
    BY <1>1, <1>6 DEF Pull, StepInv, PullOrder, SurvPulls
  <2> QED BY <1>2, <1>4, <1>6, <2>1 DEF Pull
<1>7. CASE PullManually
  <2>1. PICK ends \in {<<>>, <<"surv_dst">>, <<"surv_src">>, PullOrder} :
          queries' = queries \o
            [n \in DOMAIN ends |->
               [incident |-> asking, type |-> ends[n], agent |-> AgentOf(asking, ends[n]),
                status |-> "pending"]]
    BY <1>7 DEF PullManually
  <2> DEFINE new == [n \in DOMAIN ends |->
               [incident |-> asking, type |-> ends[n], agent |-> AgentOf(asking, ends[n]),
                status |-> "pending"]]
  <2>2. asking \in DOMAIN incidents /\ asking \in 1..MaxIncidents
    BY <1>1, <1>7, IncidentsDomain DEF PullManually, AdminType
  <2>3. \A t : AgentOf(asking, t) \in Agents
    BY <1>1, <2>2, IncidentsDomain DEF AgentOf, Incidents
  <2>4. ends \in Seq(SurvPulls) /\ Len(ends) \in {0, 1, 2}
    <3>1. CASE ends = <<>>
      BY <3>1
    <3>2. CASE ends = <<"surv_dst">>
      BY <3>2 DEF SurvPulls
    <3>3. CASE ends = <<"surv_src">>
      BY <3>3 DEF SurvPulls
    <3>4. CASE ends = <<"surv_dst", "surv_src">>
      BY <3>4 DEF SurvPulls
    <3> QED BY <3>1, <3>2, <3>3, <3>4 DEF PullOrder
  <2>5. /\ new \in Seq(Queries) /\ Len(new) = Len(ends)
        /\ \A n \in DOMAIN new : new[n].status = "pending"
    <3>1. DOMAIN ends = 1..Len(ends) /\ Len(ends) \in Nat /\ \A n \in DOMAIN ends : ends[n] \in SurvPulls
      BY <2>4, LenProperties
    <3>2. \A n \in 1..Len(ends) : new[n] \in Queries
      BY <2>2, <2>3, <3>1 DEF Queries
    <3>3. DOMAIN new = 1..Len(ends) /\ new = [n \in 1..Len(ends) |-> new[n]]
      BY <3>1
    <3> HIDE DEF new
    <3>4. new \in Seq(Queries) /\ Len(new) = Len(ends)
      BY <3>1, <3>2, <3>3
    <3> QED BY <3>4 DEF new
  <2>6. queries' = queries \o new /\ UNCHANGED <<evidence, agentVars, handlerVars, cut, faults>>
    BY <1>7, <2>1 DEF PullManually
  <2> HIDE DEF new
  <2>7. CASE Len(ends) \in {1, 2}
    BY <1>1, <2>5, <2>6, <2>7, TableAsks
  <2>8. CASE Len(ends) = 0
    <3>1. new = <<>>
      BY <2>5, <2>8, EmptySeq
    <3>2. queries' = queries
      BY <1>1, <2>6, <3>1, ConcatEmptySeq DEF QueryTypeOK
    <3> QED BY <1>2, <2>6, <3>2
  <2> QED BY <2>4, <2>7, <2>8
<1>8. CASE ServerRestarts
  <2>1. /\ UNCHANGED <<queries, evidence>> /\ storing' = [h \in Handlers |-> {}]
        /\ cut' = cut \union Held
    BY <1>8 DEF ServerRestarts, LoseHandlers, Held
  <2>2. Held' = Held \ Held /\ Held \in SUBSET Held
    BY <2>1 DEF Held
  <2>3. Table!Lose
    BY <2>1, <2>2, TableRows DEF Table!Lose, Answered, Bare, Held
  <2> QED BY <2>3 DEF Table!Next
<1>9. CASE \/ NextPhase \/ SetSweeping \/ Activate \/ LeaveSweeping \/ CloseStale \/ PhaseFails
  BY <1>2, <1>9 DEF NextPhase, SetSweeping, Activate, LeaveSweeping, CloseStale, PhaseFails, queryVars
<1>10. CASE \E d \in Detectors : DetectorStep(d)
  BY <1>2, <1>10 DEF DetectorStep, find_active_campaign, append_finding_to_incident,
       has_incident_for_finding, create_incident, RetypeVertical, DetectionFails, queryVars
<1>11. CASE \E i \in DOMAIN incidents : TimePasses(i) \/ close_incident(i) \/ AskForLogs(i)
  BY <1>2, <1>11 DEF TimePasses, close_incident, AskForLogs, queryVars
<1>12. CASE UNCHANGED vars
  BY <1>2, <1>12 DEF vars, queryVars
<1> QED BY <1>3, <1>5, <1>6, <1>7, <1>8, <1>9, <1>10, <1>11, <1>12 DEF Next, OrchestratorStep

LEMMA XdrImplementsInit == Init => Table!Init
<1> SUFFICES ASSUME Init PROVE Table!Init
  OBVIOUS
<1>1. queries = <<>> /\ evidence = {} /\ cut = {} /\ storing = [h \in Handlers |-> {}]
  BY DEF Init, QueryInit
<1>2. Len(queries) = 0 /\ DOMAIN queries = {}
  BY <1>1, EmptySeq
<1> QED BY <1>1, <1>2 DEF Table!Init

\* What handlers, agents and the ends of both make of each query is what the
\* table promises: one answer, and its records in hand until they are stored or
\* lost (complete_xdr_query, Heartbeat, _ingest_*).
THEOREM QueriesAreATable == Spec => ImplementsQueryTable
<1>1. XdrInv /\ [Next]_vars => [Table!Next]_(Table!vars)
  BY XdrImplementsStep
<1>2. Init => Table!Init
  BY XdrImplementsInit
<1> QED BY <1>1, <1>2, XdrInvariant, PTL DEF Spec, ImplementsQueryTable, Table!Spec

\* And so records are in hand, stored or lost for each pull that has been
\* answered and for no other query, by the invariant of the table alone.
THEOREM AnswersAreAccountedFor == Spec => []Table!Accounted
<1> DEFINE Inv == Len(queries) \in Nat /\ Answered \subseteq 1..Len(queries) /\ Table!Accounted
<1>1. Table!Init => Inv
  BY DEF Table!Init, Table!Accounted, Answered
<1>2. Inv /\ [Table!Next]_(Table!vars) => Inv'
  <2> SUFFICES ASSUME Inv, [Table!Next]_(Table!vars) PROVE Inv'
    OBVIOUS
  <2>1. Held \union evidence \union cut = Answered \ Bare
    BY DEF Table!Accounted, Held, Answered, Bare
  <2>2. ASSUME Held' \union evidence' \union cut' = Answered' \ Bare' PROVE Table!Accounted'
    BY <2>2 DEF Table!Accounted, Held, Answered, Bare
  <2>3. CASE Table!Ask
    <3>1. /\ Len(queries') \in {Len(queries) + 1, Len(queries) + 2} /\ Answered' = Answered
          /\ Held' = Held /\ evidence' = evidence /\ cut' = cut
      BY <2>3 DEF Table!Ask, Held, Answered
    <3>2. PICK new \in SUBSET ((Len(queries) + 1)..Len(queries')) : Bare' = Bare \union new
      BY <2>3 DEF Table!Ask, Bare
    <3>3. ASSUME NEW q \in new PROVE q \notin Answered
      <4>1. q \in (Len(queries) + 1)..Len(queries') /\ Len(queries) \in Nat /\ Len(queries') \in Nat
        BY <3>1
      <4>2. ~(q \in 1..Len(queries))
        BY <4>1
      <4> QED BY <4>2
    <3>4. Answered' \ Bare' = Answered \ Bare
      BY <3>1, <3>2, <3>3
    <3>5. Table!Accounted'
      BY <2>1, <2>2, <3>1, <3>4
    <3>6. Len(queries') \in Nat /\ Answered' \subseteq 1..Len(queries')
      BY <3>1
    <3> QED BY <3>5, <3>6
  <2>4. CASE Table!Answer
    <3>1. PICK q \in (1..Len(queries)) \ Answered :
            /\ Answered' = Answered \union {q}
            /\ Held' = IF q \in Bare THEN Held ELSE Held \union {q}
      BY <2>4 DEF Table!Answer, Held, Answered, Bare
    <3>2. Bare' = Bare /\ Len(queries') = Len(queries) /\ evidence' = evidence /\ cut' = cut
      BY <2>4 DEF Table!Answer, Bare
    <3> QED BY <2>1, <2>2, <3>1, <3>2
  <2>5. ASSUME /\ Answered' = Answered /\ Bare' = Bare /\ Len(queries') = Len(queries)
               /\ Held' \union evidence' \union cut' = Held \union evidence \union cut
        PROVE  Inv'
    BY <2>1, <2>2, <2>5
  <2>6. CASE Table!AnswerAgain
    <3>1. PICK q \in Answered \ Bare : Held' = Held \union {q}
      BY <2>6 DEF Table!AnswerAgain, Held, Answered, Bare
    <3>2. /\ Answered' = Answered /\ Bare' = Bare /\ Len(queries') = Len(queries)
          /\ evidence' = evidence /\ cut' = cut
      BY <2>6 DEF Table!AnswerAgain, Answered, Bare
    <3> QED BY <2>1, <2>5, <3>1, <3>2
  <2>7. CASE Table!Keep
    <3>1. PICK q \in Held : evidence' = evidence \union {q} /\ Held' \in {Held, Held \ {q}}
      BY <2>7 DEF Table!Keep, Held
    <3>2. Answered' = Answered /\ Bare' = Bare /\ Len(queries') = Len(queries) /\ cut' = cut
      BY <2>7 DEF Table!Keep, Answered, Bare
    <3> QED BY <2>5, <3>1, <3>2
  <2>8. CASE Table!Lose
    <3>1. PICK some \in SUBSET Held : cut' = cut \union some /\ Held' \in {Held, Held \ some}
      BY <2>8 DEF Table!Lose, Held
    <3>2. /\ Answered' = Answered /\ Bare' = Bare /\ Len(queries') = Len(queries)
          /\ evidence' = evidence
      BY <2>8 DEF Table!Lose, Answered, Bare
    <3> QED BY <2>5, <3>1, <3>2
  <2>9. CASE UNCHANGED Table!vars
    <3>1. /\ Answered' = Answered /\ Bare' = Bare /\ Len(queries') = Len(queries)
          /\ Held' = Held /\ evidence' = evidence /\ cut' = cut
      BY <2>9 DEF Table!vars, Held, Answered, Bare
    <3> QED BY <2>5, <3>1
  <2> QED BY <2>3, <2>4, <2>6, <2>7, <2>8, <2>9 DEF Table!Next
<1>3. Inv => Table!Accounted
  OBVIOUS
<1> HIDE DEF Inv
<1> QED BY <1>1, <1>2, <1>3, QueriesAreATable, PTL DEF ImplementsQueryTable, Table!Spec
=============================================================================
