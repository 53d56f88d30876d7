SPECIFICATION SoundSpec
CONSTANTS
  FileSizes = {3}
  RingSize = 2
  Chunk = 2
  MaxTaken = 3
  MaxMoves = 2
  MaxOrders = 1
  Spoils = 0
INVARIANTS PoweredWhileUsed
CHECK_DEADLOCK FALSE
