SPECIFICATION StoresSpec
CONSTANTS
  d1 = d1
  d2 = d2
  r1 = r1
  b2 = b2
  Folders = {d1, d2}
  Repos = {r1}
  Repo <- RepoOf
  Scribes = {w1}
  Texts = {t1, t2, t3}
  MaxBoxes = 3
  Chains = FALSE
  NoBox = NoBox
  Notes = {"t1"}
  OldInsights <- OldInsightsOf
  Callers = {o1, o2}
  PageSize = 1
  Window = 0
  MaxNumber = 3
  MaxTime = 2
  MaxDeletes = 0
  MaxLoads = 1
  NoNote = NoNote
  Commands = {k1, k2}
  Conversations = {v1}
  Foreign = {v1}
  Projects = {f1, f2}
  Nobody = Nobody
  Paths = {p1, p2}
  Contents = {b1, b2}
  SizeOf <- Sizes
  Workers = {i1}
  MaxRow = 3
  NoContent = NoContent
  Books = {"p1", "p2"}
  NameOf <- NamesOf
  Likeness <- LikenessOf
  MaxDoc = 2
  MaxChunk = 3
  MaxIngests = 3
  MaxTop = 2
  HybridFactor = 2
  RrfK = 60
  None = None
  Writers = {s1}
  MaxMap = 1
  MapSize = 3
  MaxEntry = 2
  MaxEdits = 5
  Symbols = {1, 2, 3}
  MaxArrows = 3
  Boxes <- BoxesOf
  RefWidths = {0}
  MaxWords = 4
  WordSizes = {1, 2, 4, 7}
  MaxWidth = 3
  MaxLines = 2
  MaxNodes = 5
  NodeSizes <- NodeSizesOf
  Fetchers = {l1, l2}
  ModelSize = 3
  LeastSize = 2
  Archived = {"encoder", "tokens"}
  MaxBreaks = 3
  Openers = {x1, x2}
  Terminals = {"t1"}
  MaxKills = 1
INVARIANTS StoresTypeOK    DrawingsApart
CHECK_DEADLOCK FALSE
