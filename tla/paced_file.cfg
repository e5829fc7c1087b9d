CONSTANTS
  BufferCount = 3
  BufferSize = 2
  FrameCount = 3
  SampleCountMod = 4
  SampleSize = 1
  PcmDisable = FALSE
  Input = "file"
  Chunks = {2}
  MaxBytes = 50
  MinSleep = 1
  MaxSleep = 2
  Lag = 2
  ResumeLag = 0
SPECIFICATION PacedSpec
PROPERTIES ImplementsQueue BlocksUnbroken
CHECK_DEADLOCK FALSE
