SPECIFICATION MCSpec
CONSTANTS
  s1 = s1
  s2 = s2
  s3 = s3
  a = a
  b = b
  Garbage = Garbage
  NoPeer = NoPeer
  Down = Down
  Peers <- MCPeers
  Serves <- MCServes
  Tokens <- MCTokens
  Chunks <- MCChunks
  NumBlocks = 3
  MaxLength = 3
  RetryLimits = {0, 2}
  MaxFaults = 2
CHECK_DEADLOCK FALSE
INVARIANT
  ResumedAnswersAreGreedy
