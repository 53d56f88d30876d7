SPECIFICATION ScreensSpec
CONSTANTS
  None = None
  App = {a}
  Block = {b}
  MaxDepth = 4
  MaxOps = 2
  Fails = FALSE
  Day = 3
  SnoozeMin = 2
  RingMin = 1
  AlarmTimes = {2}
INVARIANTS RingHeard
CHECK_DEADLOCK FALSE
