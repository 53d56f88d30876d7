SPECIFICATION PartsSpec
CONSTANTS
  Data = {0, 1}
  Sectors = 3
  Window = 2
  CardBlocks = 3
  MaxBlocks = 2
  Tries = 3
  MaxCalls = 2
  Nav = {"UP"}
  QueueSize = 2
  RtcStarts <- MCStarts
  NewTimes <- MCTimes
  MaxSeconds = 3
  ReadSeconds = 2
  Acks = {TRUE, FALSE}
  Years <- MCYears
  HeapSize = 18
  MinSplit = 4
  Sizes = {1, 2, 4}
  User = {sd, audio}
  Busy = {50, 200, 500, 900}
  Quiet208 = 2
  Quiet104 = 3
  DelayTimes = {3}
  Thread = {t1, t2}
  Runnable = Runnable
  Forever = Forever
  Delays = {1, 4}
  Period = 3
  MinLoad = 1
  MaxSleep = 4
  MaxOff = 2
  Cycles = 26
  Ticks = 26
  ProgramBlocks = 2
  Records = 2
  FrameSlots = 5
  CommandSlots = 2
  ResultSlots = 3
  Dry = 4
  MaxFrames = 5
  SimCards <- MCCards
  NoCard = NoCard
  Commands <- MCCommands
  Nulls = 2
  MaxFifo = 2
INVARIANTS
  CacheCorrect TransferSafe NothingStuck ReadsATime CalendarAgrees HeapSound ClockSafe
  SleepsRight DspKept CardServed
PROPERTIES Returns SettlesLow TimeKept TimeoutsEnd
CHECK_DEADLOCK FALSE
