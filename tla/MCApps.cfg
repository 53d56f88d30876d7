SPECIFICATION AppsSpec
CONSTANTS
  FileSizes = {3}
  RingSize = 2
  Chunk = 2
  MaxTaken = 3
  MaxMoves = 2
  MaxOrders = 2
  Spoils = 1
  None = None
  App = {a}
  Block = {b}
  MaxDepth = 4
  MaxOps = 2
  Fails = FALSE
  Day = 3
  SnoozeMin = 2
  RingMin = 1
  AlarmTimes = {2}
  MaxNotes = 3
  MaxNumber = 4
  Text = {Empty, Words}
  Empty = Empty
  NoFile = NoFile
  CardFails = TRUE
  MaxText = 4
  MaxLines = 3
  LineWidth = 3
  Width <- MCWidth
  TapTime = 1
  Multiline = TRUE
INVARIANTS CodecFollows OwnersLoaded
PROPERTIES PlayedWhole FileEnds RingsInTime NotesKept Edited
CHECK_DEADLOCK FALSE
