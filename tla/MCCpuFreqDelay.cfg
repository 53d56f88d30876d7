SPECIFICATION FreqSpec
CONSTANTS
  User = {sd, audio}
  Busy = {50, 200, 500, 900}
  Quiet208 = 2
  Quiet104 = 3
  DelayTimes = {3}
INVARIANTS DelayLongEnough
