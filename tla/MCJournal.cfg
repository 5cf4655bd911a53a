SPECIFICATION Spec
CONSTANTS
  t = t
  u = u
  v = v
  NoBody = NoBody
  Bodies = {t, u, v}
  Says = {v}
  Lasting = {t}
  FlagsOf <- MCFlagsOf
  DedupWindow = 0
  Ttl = 0
  BranchLimit = 200
  MaxEntries = 3
  MaxLinks = 2
  KindsUsed = {"implements", "verifies"}
  Revised <- MCRevised
PROPERTIES TodoNeedsEvidence BranchClosesAlone
CHECK_DEADLOCK FALSE
