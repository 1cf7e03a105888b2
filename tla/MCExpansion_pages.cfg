SPECIFICATION MCSpec
CONSTANTS
  agent = agent
  agent2 = agent2
  Agents = {agent, agent2}
  Symbols <- OneName
  PageBytes = 3
  CursorLimit = 2
  Overlap = FALSE
  Reindexes = 2
  Searches = 1
INVARIANTS PagesJoin NameKept CursorsBounded
PROPERTY ExpansionEnds
CHECK_DEADLOCK FALSE
