\* Underruns at and within frames, closed at any moment or (a FIFO) never.
CONSTANTS
  BufferCount = 3
  BufferSize = 2
  FrameCount = 3
  SampleCountMod = 4
  SampleSize = 1
  PcmDisable = FALSE
  Input = "stdin"
  Chunks = {2, 3}
  MaxBytes = 22
  MinSleep = 1
  MaxSleep = 3
  Lag = 1
  ResumeLag = 0
SPECIFICATION FairSpec
PROPERTIES ImplementsQueue ProgramKeepsOffDma AudioUnbroken UnderrunEnds
           EncodedAudioIsHeard EndsWithInput
CHECK_DEADLOCK FALSE
