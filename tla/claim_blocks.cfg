CONSTANTS
  BufferCount = 3
  BufferSize = 2
  FrameCount = 3
  SampleCountMod = 4
  SampleSize = 1
  PcmDisable = FALSE
  Input = "fifo"
  Chunks = {2}
  MaxBytes = 26
  MinSleep = 1
  MaxSleep = 2
  Lag = 0
  ResumeLag = 0
SPECIFICATION PacedSpec
PROPERTY BlocksUnbroken
CHECK_DEADLOCK FALSE
