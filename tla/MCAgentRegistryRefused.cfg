SPECIFICATION Spec
CONSTANTS
  n1 = n1
  s1 = s1
  s2 = s2
  NoOne = NoOne
  Sessions = {s1, s2}
  Names = {n1, n2}
  Nick <- MCNick
  Chats = {k1}
  Renamed = {s2}
  Users = {u1}
  MaxConns <- MCMaxConns
INVARIANT SessionsReRegister
CHECK_DEADLOCK FALSE
