SPECIFICATION Spec
CONSTANTS
  MaxEdges = 3
  MaxLines = 5
  MaxTexts = 5
INVARIANTS PositionAnswered NeighboursTold RelatedTold TextsHeard CalleeTold CallerTold
CHECK_DEADLOCK FALSE
