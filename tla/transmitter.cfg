\* The second process finds what the first one left, killed or shut down.
CONSTANTS
  BufferCount = 3
  BufferWords = 2
  FifoSize = 3
  Threshold = 2
  MaxStarts = 2
SPECIFICATION FairSpec
INVARIANTS TypeOK WordsJoin
PROPERTIES WordsInOrder PassesAreWhole GoesRound SyncEnds
CHECK_DEADLOCK FALSE
