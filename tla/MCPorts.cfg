SPECIFICATION PortsSpec
CONSTANTS
  Stretches <- MCStretches
  RecStretches <- MCRecStretches
  MaxPlays = 3
  MaxRec = 6
  MaxErrors = 1
  MaxRequests = 8
  MaxResets = 1
  MaxGiveUps = 1
  WriteLengths = {2, 5, 6}
  MaxWrites = 2
  Chunk = 3
  DmaMin = 2
  MaxWriteResets = 1
  MaxSdGiveUps = 1
  Outs = {"off", "paced", "stuck", "unpaced"}
  idle = idle
  s1 = s1
  r1 = r1
  s2 = s2
  r2 = r2
  None = None
  Thread = {idle, s1, r1, s2, r2}
  Idle = idle
  Boot = r1
  BasePrio <- MCBasePrio
  Obj = {"items", "senders"}
  Mutex = {}
  MaxPrio = 4
  SliceTicks = 2
  Waits = {1, None}
  NewPrios = {}
  MaxDepth = 1
  MaxTicks = 1
  Msg = {"a", "b"}
  Sender = {s1, s2}
  Reader = {r1, r2}
  Capacity = 2
INVARIANTS PcmKept ControlKept BulkKept QueueSound
PROPERTIES RequestsAnswered WritesEnd ImplementsChannel
CHECK_DEADLOCK FALSE
