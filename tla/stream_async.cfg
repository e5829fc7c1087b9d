\* Pieces of any size, closed at any moment or (a FIFO) never, any relative speed.
CONSTANTS
  BufferCount = 3
  BufferSize = 2
  FrameCount = 3
  SampleCountMod = 4
  SampleSize = 2
  PcmDisable = TRUE
  Input = "stdin"
  Chunks = {3, 4}
  MaxBytes = 44
SPECIFICATION Spec
INVARIANTS TypeOK IdleIsSilent IdleLoopSeamless WaitsOnlyOnRunningDma
           NoUnsetSlotInPlay PreloadInOrder FramesWhole EndsAfterInput
CHECK_DEADLOCK FALSE
