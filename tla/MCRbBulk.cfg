SPECIFICATION RbSpec
CONSTANTS
  WriteLengths = {2, 5, 6}
  MaxWrites = 1
  Chunk = 3
  DmaMin = 2
  MaxWriteResets = 0
  MaxSdGiveUps = 0
  Outs = {"unpaced"}
INVARIANT WrittenAsSent
CHECK_DEADLOCK FALSE
