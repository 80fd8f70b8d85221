\* Two escalations on one agent, pulls of its logs by the orchestrator and by
\* the administrator.
CONSTANTS
  a1 = a1
  a2 = a2
  lateral = lateral
  Agents = {a1}
  TimedOut = TimedOut
  Findings = {v1, v2}
  Origin <- MCOrigin
  Target <- MCTarget
  Detectors = {d1}
  MaxIncidents = 1
  MaxFaults = 0
  MaxQueries = 6
  MaxManual = 1

SPECIFICATION Spec

INVARIANTS
  PullsDoNotPileUp
