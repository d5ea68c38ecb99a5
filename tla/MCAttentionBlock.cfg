SPECIFICATION SpecAttention
CONSTANTS
  Families = {"falcon"}
  Sessions = {1, 2, 3}
  Batch <- MCBatch
  KVHeads = 2
  Groups = 2
  TableLength = 3
  ChunkLength = 1
  MaxLength = 4
  Feeds = {1, 3}
CHECK_DEADLOCK FALSE
INVARIANT
  OptimizedBlockMatches
