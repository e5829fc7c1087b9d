CONSTANTS
  BufferCount = 3
  BufferSize = 2
  FrameCount = 3
  SampleCountMod = 4
  SampleSize = 2
  PcmDisable = FALSE
  Input = "fifo"
  Chunks = {3, 4}
  MaxBytes = 44
  MinSleep = 1
  MaxSleep = 2
  Lag = 0
  ResumeLag = 0
SPECIFICATION PacedSpec
INVARIANT ChannelsAligned
CHECK_DEADLOCK FALSE
