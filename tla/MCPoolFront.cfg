SPECIFICATION FairFrontSpec
CONSTANTS
  a1 = a1
  p1 = p1
  NoOne = NoOne
  Agents = {a1}
  Pools = {p1}
  Reqs = {r1}
  Clears = {c1, c2}
  PoolOf <- MCPoolOf
  Capacity <- MCCapacity
  MaxLease = 1
  Cooldown = 1
  Grace = 1
  KeepRead = 1
  KeepUnread = 1
  ClearTimeout = 1
  ClearMark = 2
  MaxAttempts = 1
INVARIANTS FrontTypeOK  ClearsExclude
PROPERTIES ClearReturnsInTime
