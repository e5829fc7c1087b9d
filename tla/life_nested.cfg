CONSTANTS
  Handles = {1, 2}
  Signals = {s1, s2}
  Nested = TRUE
  MailboxErrors = TRUE
  MaxStarts = 2
SPECIFICATION FairSpec
INVARIANT ShutdownStopsAll
PROPERTY SignalEnds
CHECK_DEADLOCK FALSE
