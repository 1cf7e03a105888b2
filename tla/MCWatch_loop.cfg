SPECIFICATION FairSpec
CONSTANTS
  Root = root
  SubDirs = {sub}
  top = top
  nested = nested
  Files = {top, nested}
  DirOf <- MixedDirOf
  OddCase = {}
  MaxEdits = 3
  MaxFails = 1
  CanCancel = TRUE
INVARIANTS TypeOK SingleFlight NoLostChange
PROPERTY AnnouncedReachesIndex
CHECK_DEADLOCK FALSE
