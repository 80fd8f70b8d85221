\* Lateral movement between two agents, with a fault anywhere; the queries of
\* the sweep.
CONSTANTS
  a1 = a1
  a2 = a2
  lateral = lateral
  Agents = {a1, a2}
  TimedOut = TimedOut
  Findings = {lateral}
  Origin <- MCOrigin
  Target <- MCTarget
  Detectors = {d1}
  MaxIncidents = 1
  MaxFaults = 1
  MaxQueries = 4
  MaxManual = 0

SPECIFICATION FairSpec

INVARIANTS
  SweptIsAsked

PROPERTIES
  ImplementsQueryTable
  DetectedIsSettled
  QueriesAreAnswered
