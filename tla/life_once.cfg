CONSTANTS
  Handles = {1, 2, 3}
  Signals = {s1}
  Nested = FALSE
  MailboxErrors = TRUE
  MaxStarts = 3
SPECIFICATION Spec
INVARIANTS TypeOK DmaOverOwnMemory OthersKeepMemory ShutdownFreesSaved
PROPERTIES ReprogramsIdleChannel
CHECK_DEADLOCK FALSE
