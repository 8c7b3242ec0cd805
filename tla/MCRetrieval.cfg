SPECIFICATION MCSpec
CONSTANTS
  t1 = t1
  NoThread = NoThread
  NoBudget = NoBudget
  Memories <- MCMemories
  TypeOf <- MCTypeOf
  ThreadOf <- MCThreadOf
  Words <- MCWords
  Threads = {t1}
  Indexes <- MCIndexes
  ChunkIndexes <- MCChunkIndexes
  TopK = 2
  OverFetch = 2
  RRFK = 60
  Minimum = 2
  ListLimit = 3
  MaxLength = 8
  MaxTokens = 2
  MaxMessages = 4
  PageLimit = 3
CHECK_DEADLOCK FALSE
INVARIANTS
  NearestFound
  FusionRespectsBoth
  ThreadExact
  ChunksCoverText
  SummaryLongestFit
PROPERTIES
  CardHasMinimum
