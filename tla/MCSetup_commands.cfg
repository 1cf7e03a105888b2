SPECIFICATION SetupSpec
CONSTANTS
  Commands = {"install", "enrich", "init"}
  Symbols <- MCSymbols
  Limits = {0}
  Workers = {"w1", "w2"}
  SaveEvery = 2
  AgentNames = {"b"}
  AgentBeside = FALSE
  Failures = 1
  Endings = 1
  MaxRuns = 2
  MaxEdits = 1
  Machines <- MCMachines
  Models <- MCModels
  Starts <- MCStarts
  Processes = {mcp}
  Chunks = 2
  Overlap = FALSE
  Corruptions = 1
  Deaths = 1
  HookInPath = FALSE
INVARIANTS RuntimeWhole HostsKept
PROPERTIES EnrichmentKept CommandsEnd
CHECK_DEADLOCK FALSE
