SPECIFICATION Spec
CONSTANTS
  a = a
  y = y
  z = z
  Absent = Absent
  caller = caller
  caller2 = caller2
  caller3 = caller3
  callee = callee
  callee2 = callee2
  callee3 = callee3
  other = other
  twice = twice
  both = both
  WalkOrder <- AllFiles
  Contents <- AllContents
  Gone <- Absent
  Defs <- TheDefs
  Calls <- TheCalls
  Tests = {}
  Histories <- OneEdit
  MaxForced = 0
  SameSecond = FALSE
  MayFail = {}
  CanCancel = TRUE
  CanCrash = TRUE
  MaxFails = 1
INVARIANT IndexMatchesDisk
CHECK_DEADLOCK FALSE
