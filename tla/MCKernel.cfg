SPECIFICATION MCSpec
CONSTANTS
  idle = idle
  low = low
  mid = mid
  two = two
  high = high
  None = None
  Thread = {idle, low, mid, two, high}
  Idle = idle
  Boot = low
  BasePrio <- MCBasePrio
  Obj = {1, 2}
  Mutex = {1, 2}
  MaxPrio = 3
  SliceTicks = 2
  Waits = {1, 3, None}
  NewPrios = {3}
  MaxDepth = 2
  MaxTicks = 2
INVARIANTS TypeOK ScheduleRight OwnersAgree BoostEnds LockReportsOwnership
PROPERTIES TurnsInOrder TurnsAreFair
