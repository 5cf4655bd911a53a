SPECIFICATION VSpec
CONSTANTS
  NoBody = NoBody
  Bodies = {b1, b2}
  Says = {}
  Lasting = {}
  FlagsOf <- MCPlain
  Revised <- MCPlain
  DedupWindow = 0
  Ttl = 1
  BranchLimit = 200
  Embedders = {e1, e2}
  MaxEntries = 2
  MaxLinks = 0
  KindsUsed = {}
INVARIANTS VectorOfItsText
CHECK_DEADLOCK FALSE
