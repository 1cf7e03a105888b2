SPECIFICATION MCSpec
CONSTANTS
  Catalog <- MCCatalog
  TestFiles <- MCTests
  Edges <- MCEdges
  Rankings <- MCRankings
  Requests <- MCRequests
  RRFK = 60
  VectorProtect = 2
  PPRProtect = 1
  IntentWindow = 2
  AnchorShare = 2
  AnchorAgreement = 2
  Reindexes = 1
  Stages = {"ranking", "answer"}
  Shown = {s1, s2, s3}
  Budgets = {9, 30}
  FullBodies = 2
  CompactAfter = 1
  MaxBodyLines = 5
  WindowLines = 3
  WindowStride = 2
  ContextLines = 1
  MaxWindows = 5
  WindowsPerResult = 2
  Calls = 2
  Changes = 1
SYMMETRY Renamed
INVARIANTS PoolRight LinesTrue ShownWithinCap
PROPERTIES CutRight
CHECK_DEADLOCK FALSE
