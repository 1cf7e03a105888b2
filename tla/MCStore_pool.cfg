SPECIFICATION Spec
CONSTANTS
  indexer = indexer
  reader = reader
  reader2 = reader2
  backfill = backfill
  Indexers = {indexer}
  Readers = {reader}
  Backfills = {}
  Paths = {a, b}
  Batches <- SomeBatches
  Overlap = TRUE
  MaxCalls = 5
  MaxRounds = 2
INVARIANT ReferencesHold
CHECK_DEADLOCK FALSE
