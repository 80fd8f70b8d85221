CONSTANTS
  i1 = i1  i2 = i2  dom = dom  f1 = f1  tmp = tmp  key = key
  u1 = u1  u2 = u2  daemon = daemon  x1 = x1
  Nothing = Nothing
  FilterCases <- SomeCases
  AgentPid = 3
  Ancestry <- SomeAncestry
  NoiseNames = {"noise"}
  TempFiles = {tmp}
  Caches = {"allow", "fast", "gate"}
  Enforcer = enforcer
  GraphWriter = writer
  Unheld = Unheld
  Interval = 2
  MaxLoad = 1
  MaxMonotonic = 6
  MaxVersions = 2
  MaxLoadFaults = 1
  PidSet = {1, 2, 3}
  Users = {u1, u2}
  Targets = {x1}
  Unset = Unset
  Histories <- SomeHistories
  Readers = {r1}
  PageSize = 2
  Ttl = 1
  MaxJobs = 1
  MaxTime = 3
  p1 = p1  sys = sys  d1 = d1  d2 = d2  f2 = f2  f3 = f3
  a1 = a1  a2 = a2  a3 = a3  a4 = a4  k1 = k1  proc = proc  an = an  t1 = t1  t2 = t2
  Platforms = {"linux", "windows", "macos"}
  Pids = {p1}
  Addresses = {x1}
  Domains = {d1, d2}
  Files = {f1, f2, f3}
  Occurs <- SomeOccurs
  Basename <- SomeBasenames
  Callers = {proc, an, t1, t2}
  None = None
  Workloads <- SomeWorkloads
  MaxCalls = 4
  MaxFaults = 1
  MaxSeconds = 1
  Processor = proc
  Analyzer = an
  Alerts = {a1, a2, a3, a4, k1}
  Scenarios <- SomeScenarios
  FastHits = {k1}
  Severity <- SomeSeverities
  Evidence <- SomeEvidence
  Allowed = {a2}
  Blocked = {k1}
  Protected = {sys}
  Modes = {"passive", "active", "unknown"}
SPECIFICATION Spec
CHECK_DEADLOCK FALSE
SYMMETRY Interchangeable
INVARIANT ChainsAreMatched
INVARIANT FastPathAgrees
INVARIANT RulesAreFresh
INVARIANT IndexCoversGraph
INVARIANT EventOnItsProcess
INVARIANT ReportedIsInForce
INVARIANT EvidenceIsKept
INVARIANT ModeIsObeyed
INVARIANT ActedIsRecorded
INVARIANT RestartKeepsMode
