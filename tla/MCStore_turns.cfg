SPECIFICATION Spec
CONSTANTS
  indexer = indexer
  reader = reader
  reader2 = reader2
  backfill = backfill
  Indexers = {indexer}
  Readers = {reader}
  Backfills = {backfill}
  Paths = {a, b}
  Batches <- SomeBatches
  Overlap = FALSE
  MaxCalls = 6
  MaxRounds = 2
INVARIANTS ReferencesHold SearchableExactly NoOrphanVectors OwnContent
CHECK_DEADLOCK FALSE
