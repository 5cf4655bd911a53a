SPECIFICATION ChannelSpec
CONSTANTS
  Agents = {g1, g2}
  Topics = {General, t1}
  General = General
  Posts = {p1}
  Unbound = Unbound
  MaxDrops = 1
  MaxUpdate = 3
  Voices = {1, 3}
  Poison = {1}
  Others = {}
  MaxAttempts = 1
  MaxCuts = 1
  Replies = {r1, r2}
  Inbound = {o1}
  MaxFaults = 1
  Asked = {a1, a2}
  Multi = {a2}
  Options = {x}
  MaxTaps = 3
  Senders = {s1, s2}
  PendingCap = 1
  MaxReplies = 2
  MaxCodes = 2
  MaxBatch = 2
  MaxCommands = 1
  MaxMisses = 1
  MaxMessages = 3
  DrainLimit = 1
  MaxSwitches = 3
INVARIANTS ChannelTypeOK  TopicsKeepApart AsksSafe PairingSafe
PROPERTIES  QuietHours
CHECK_DEADLOCK FALSE
