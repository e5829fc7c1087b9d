CONSTANTS
  Handles = {1, 2}
  Signals = {s1}
  Nested = TRUE
  MailboxErrors = FALSE
  MaxStarts = 1
SPECIFICATION Spec
INVARIANT OthersKeepMemory
CHECK_DEADLOCK FALSE
