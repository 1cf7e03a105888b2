SPECIFICATION Spec
CONSTANTS
  call = call
  call2 = call2
  hook = hook
  hook2 = hook2
  Handlers = {call}
  Hooks = {hook}
  RingLimit = 2
  LogCap = 5
  MaxRequests = 3
  MaxLosses = 1
INVARIANTS RingConsistent CandidatesFirst SearchLabelsOnce
CHECK_DEADLOCK FALSE
