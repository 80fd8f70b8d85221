CONSTANTS
  u2 = u2  ip1 = ip1  ip2 = ip2  dom = dom  key = key
  Nobody = Nobody
  Views <- SomeViews
  Orders <- SomeOrders
  MaxHops = 4
  MaxDepth = 2
  MaxChildren = 2
  ManyChildren = 1
  MaxDescendants = 2
  FilesPerNode = 2
  FilesShown = 2
  Moments <- SomeMoments
  Absent = Absent
  Archives <- SomeArchives
  Queries <- SomeQueries
  MaxLevels = 3
  MaxPids = 4
  MaxLiveLevels = 1
  MaxTraced = 2
  MaxRecords = 2
  PerAddress = 1
  Day = 4
  Hour = 6
  Now = 13
  Missing = Missing
  Rows <- SomeScripts
  EdgeTables = {"c", "r"}
  MaxEdges = 2
  FirstWindow = 1
  Window = 2
  Stale = 1
  Directories = {d1, d2, d3, d4, d5, d6}
  MaxSeconds = 2
  MaxWarmFaults = 1
  a1 = a1  sh = sh  curl = curl  cron = cron  u1 = u1  k1 = k1  geo = geo
  None = None
  MaxBatchEvents = 3
  Public = {a1}
  Baseline = {cron}
  Own = {}
  Threshold = 1
  Tree <- SomeTree
  Configured = TRUE
  ToolsEnabled = TRUE
  MaxIterations = 2
  Inquiries <- SomeInquiries
  ToolCalls = {t1, t2}
  Unreadable = {t2}
  Whereabouts = {None, geo}
  QueueCapacity = 1
  MaxFaults = 1
  Ids = {k1, f1, f2, f3, f4}
SPECIFICATION Spec
CHECK_DEADLOCK FALSE
INVARIANT LineageHolds
INVARIANT PullIsLatest
INVARIANT ServedIsWhole
INVARIANT DirectoriesAreCleared
INVARIANT GoodIsHeard
INVARIANT AnchoredInTree
PROPERTY DialogueEnds
PROPERTY RowsAreServed
