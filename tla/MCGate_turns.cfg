SPECIFICATION FairSpec
CONSTANTS
  grep = grep
  grep2 = grep2
  Sessions = {"one"}
  Searches = {grep, grep2}
  gateBlockBudget = 3
  MaxBlocks = 7
  MaxLost = 1
INVARIANTS BlocksWithinBudget OpenStaysOpen
PROPERTY SearchGetsThrough
CHECK_DEADLOCK FALSE
