SPECIFICATION LogSpec
CONSTANTS
  Log = log
  Ui = ui
  None = None
  Mark = Mark
  Scenes <- MCSyncScenes
  BufLines = 2
  RotateLines = 9
  MaxLines = 4
PROPERTIES SyncFlushes
