SPECIFICATION Spec
CONSTANTS
  a = a
  y = y
  z = z
  Absent = Absent
  caller = caller
  caller2 = caller2
  caller3 = caller3
  callee = callee
  callee2 = callee2
  callee3 = callee3
  other = other
  twice = twice
  both = both
  WalkOrder <- AllFiles
  Contents <- AllContents
  Gone <- Absent
  Defs <- TheDefs
  Calls <- TheCalls
  Tests = {}
  Histories <- Edits
  MaxForced = 1
  SameSecond = FALSE
  MayFail <- AtRisk
  CanCancel = TRUE
  CanCrash = TRUE
  MaxFails = 1
INVARIANTS UnfailedIndexMatches CallGraphRight OwnVectors
PROPERTY OnlyGoneFilesLeave
CHECK_DEADLOCK FALSE
