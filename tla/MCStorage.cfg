SPECIFICATION StorageSpec
CONSTANTS
  Commands <- MCCommands
  CardFails = TRUE
  SlowCard = FALSE
  HostStops = TRUE
  MaxResets = 1
  Log = log
  Ui = ui
  None = None
  Mark = Mark
  Scenes <- MCScenes
  BufLines = 2
  RotateLines = 1
  MaxLines = 3
INVARIANTS NothingShared TakenOnce
PROPERTIES KeepsPromise Answered Logged
