SPECIFICATION FairSpec
CONSTANTS
  a1 = a1
  a2 = a2
  p1 = p1
  NoOne = NoOne
  Agents = {a1, a2}
  Pools = {p1}
  Reqs = {r1, r2}
  PoolOf <- MCPoolOf
  Capacity <- MCCapacity
  MaxLease = 1
  Cooldown = 1
  Grace = 1
  KeepRead = 1
  KeepUnread = 1
  ClearMark = 1
  MaxAttempts = 2
PROPERTIES DistrustHolds LeasePromise LeaseEnds SuspectRecovers
