SPECIFICATION LogSpec
CONSTANTS
  Log = log
  Ui = ui
  None = None
  Mark = Mark
  Scenes <- MCSuspendScenes
  BufLines = 2
  RotateLines = 9
  MaxLines = 4
INVARIANTS HandedOver
