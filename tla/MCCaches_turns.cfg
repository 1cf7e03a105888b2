SPECIFICATION MCSpec
CONSTANTS
  s1 = s1
  s2 = s2
  q1 = q1
  q2 = q2
  Caches = {"vec", "graph"}
  Searchers = {s1, s2}
  Queries = {q1, q2}
  Concurrent = FALSE
  RemoveFails = FALSE
  Overlap = TRUE
  EmbedFails = TRUE
  MaxGen = 2
  MaxToken = 2
  MaxCrashes = 1
  MaxVersion = 2
SYMMETRY Symmetry
INVARIANTS ReadYourWrites SidecarCurrent
PROPERTY FreshReads
CHECK_DEADLOCK FALSE
