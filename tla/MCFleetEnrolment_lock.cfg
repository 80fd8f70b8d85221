CONSTANTS
  a1 = a1  a2 = a2  k1 = k1  k2 = k2  t1 = t1  t2 = t2  v0 = v0  v1 = v1  v2 = v2
  g1 = g1  r1 = r1  r2 = r2  i1 = i1
  w1 = w1  w2 = w2  h1 = h1  h2 = h2
  None = None
  Agents = {a1, a2}
  Keys = {k1, k2}
  Tags = {t1, t2}
  Values = {v0, v1, v2}
  Rules = {g1, r1, r2}
  Indicators = {i1}
  GlobalRules = {g1}
  MaxUses <- SomeMaxUses
  Alphabetical <- SomeOrder
  Workers = {w1, w2}
  Handlers = {h1, h2}
  Clients = {w1, w2, h1, h2}
  Scenes <- SomeScenes
SPECIFICATION EnrolSpec
CHECK_DEADLOCK FALSE
INVARIANT LockIsUnderWay
