\* Bytes at the edges of a sample's sign and of a nibble's code.
CONSTANTS
  FrameCount = 192
  Formats = {"s16le", "s24le"}
  Bytes = {0, 1, 127, 128, 240, 255}
SPECIFICATION Spec
INVARIANTS ChangesAtEveryBit LowBetweenSubframes
           SampleArrives StatusArrives
