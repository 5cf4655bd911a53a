SPECIFICATION SessionsSpec
CONSTANTS
  Processes = {p1, p2}
  Windows = {w1, w2}
  Talks = {c1}
  Given = {g1}
  NoNick = NoNick
  MaxTokens = 3
  MaxRenames = 2
  Callers = {k1}
  Sessions = {s1, s2}
  Names = {n1, n2}
  Unnamed = Unnamed
  NoSession = NoSession
  MaxMinted = 3
  MaxChanges = 4
  Entries = {e1, e2}
  Authors = {a1, a2}
  Nicknames = {m1, m2}
  Absent = Absent
  Nobody = Nobody
  MaxSent = 2
  MaxTurns = 4
  Heeded = {"hup", "term"}
  MaxDaemons = 3
  MaxOrders = 3
  Hosts = {d1}
  Local = Local
  None = None
  Attached = {t1}
  MaxIssued = 3
  MaxAdmin = 5
  MaxAsks = 2
  MaxVanish = 0
INVARIANTS SessionsTypeOK  RemindsOnce ServiceObeys RemoteSafe
PROPERTIES SessionEnds 
CHECK_DEADLOCK FALSE
