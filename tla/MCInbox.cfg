\* One session, a message of a peer and one of the pool.
SPECIFICATION InboxFairSpec
CONSTANTS
  Mail = {m1, m2}
  Unmarked = {m2}
  MaxConns = 2
  Permits = 2
INVARIANTS TypedOnce NoGap
PROPERTIES Delivered
CHECK_DEADLOCK FALSE
