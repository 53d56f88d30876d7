----------------------------- MODULE PortProofs -----------------------------
(***************************************************************************)
(* The Rockbox port: the receives of its mass storage beside the writes of *)
(* its SD driver, its PCM sink and recorder on the codec's DMA, and the    *)
(* control endpoint of its USB driver.                                     *)
(***************************************************************************)
EXTENDS RbBulk, RbPcm, RbControl, SequenceTheorems, TLAPS

PacketType == [full : BOOLEAN, n : Nat]
EventType  == [of : {"none", "out", "in"}, ok : BOOLEAN]

EndpointType ==
  [busy : BOOLEAN, armed : BOOLEAN, next : BOOLEAN, wait : BOOLEAN, dma : BOOLEAN,
   len : Nat, done : Nat, base : Nat, sends : BOOLEAN]
ControllerType ==
  [on : BOOLEAN, rx : BOOLEAN, size : Nat, count : Nat, fifo : Seq(PacketType),
   sts : SUBSET {"done", "token"}, token : BOOLEAN, tx : BOOLEAN, sent : BOOLEAN,
   out : OutKinds]

BothType ==
  [kick : BOOLEAN, out : BOOLEAN, busy : BOOLEAN, broken : BOOLEAN, gave_up : BOOLEAN]

BulkTypes ==
  /\ e \in EndpointType /\ ep \in ControllerType /\ mem \in Seq(PacketType)
  /\ both \in BothType
  /\ sd \in {"idle", "wait", "run", "end"}
  /\ msc \in [at : {"cbw", "data", "last", "status", "lost"}, left : Nat, event : EventType]
  /\ peer \in [at : {"idle", "cbw", "data", "status", "reset", "seen"},
             len : Nat, sent : Nat, written : Nat, whole : BOOLEAN, good : BOOLEAN]

\* The two DMAs
Dmas ==
  /\ OneDma /\ FlagIsDma /\ HeldIsWaited
  /\ e.dma => e.busy /\ e.armed /\ ~e.wait
  /\ e.wait => e.busy /\ ~e.armed /\ e.done <= e.len

Away == peer.at \in {"reset", "seen"}
Quiet ==
  /\ Away => ep.sts = {} /\ ep.fifo = <<>> /\ ~ep.tx /\ ~ep.sent
  /\ peer.at = "seen" => ~e.busy /\ ~e.sends

Waits == msc.event.of = "none"
Got(ok) == msc.event.of = "out" /\ (msc.event.ok <=> ok)

\* nothing is armed
Still == ~e.busy /\ ~ep.rx /\ "done" \notin ep.sts

BulkSides ==
  /\ e.sends \/ ep.tx \/ ep.sent => msc.at = "status"
  /\ peer.at \in {"idle", "cbw"} => msc.at \in {"cbw", "status"}
  /\ peer.at \in {"cbw", "data"} => peer.len > 0
  /\ peer.at = "cbw" \/ (peer.at = "data" /\ msc.at = "cbw") => peer.sent = 0 /\ peer.written = 0

CommandPhase ==
  msc.at = "cbw" =>
    \/ /\ Waits /\ e.busy /\ e.armed /\ ~e.dma /\ ~e.wait /\ e.len = CbwLen /\ e.done = 0 /\ mem = <<>>
       /\ \/ peer.at \in {"idle", "cbw"} /\ ep.fifo = <<>> /\ ep.rx /\ "done" \notin ep.sts
             /\ ep.size = 1 /\ ep.count = 0
          \/ peer.at = "data" /\ ep.fifo = <<[full |-> FALSE, n |-> 0]>> /\ ~ep.rx
    \/ Got(TRUE) /\ Still /\ ep.fifo = <<>> /\ peer.at = "data"

Numbered(s, from) == \A i \in 1 .. Len(s) : s[i] = [full |-> TRUE, n |-> from + i]

\* what has come
Come ==
  /\ peer.len = peer.written + e.len + msc.left
  /\ peer.sent = peer.written + Len(mem) + Len(ep.fifo)
  /\ peer.sent <= peer.len
  /\ peer.at = IF peer.sent < peer.len THEN "data" ELSE "status"
  /\ ep.out # "unpaced" => Numbered(mem, peer.written)
  /\ ep.fifo = <<>> \/ ep.fifo = <<[full |-> TRUE, n |-> peer.written + Len(mem) + 1]>>

ByPacket ==
  /\ ~e.dma /\ ~e.wait /\ e.armed /\ e.done = Len(mem) /\ Len(mem) < e.len
  /\ ep.size = 1 /\ ep.count = Len(ep.fifo)
  /\ ep.rx <=> ep.fifo = <<>>
  /\ "done" \in ep.sts <=> ep.fifo # <<>>

ForDma ==
  /\ e.wait /\ e.done = Len(mem) /\ e.len - e.done >= DmaMin
  /\ ep.fifo = <<>> /\ ~ep.rx /\ "done" \notin ep.sts

ByDma ==
  /\ e.dma /\ e.base = e.done /\ e.len - e.base >= DmaMin /\ ep.size = e.len - e.base
  /\ ep.count = Len(mem) + Len(ep.fifo) - e.base /\ ep.count <= ep.size
  /\ IF ep.out # "stuck" THEN ep.fifo = <<>> ELSE Len(mem) = e.base
  /\ ep.rx <=> ep.count < ep.size
  /\ "done" \in ep.sts <=> ep.count = ep.size

DataPhase ==
  msc.at = "data" =>
    /\ peer.at \in {"data", "status"}
    /\ \/ Waits /\ e.busy /\ Come /\ (ByPacket \/ ForDma \/ ByDma)
       \/ Got(TRUE) /\ Still /\ Come /\ Len(mem) = e.len /\ ep.fifo = <<>>
       \/ Got(FALSE) /\ ~e.busy

StatusPhase ==
  /\ msc.at = "last" => Waits /\ Still /\ ep.fifo = <<>> /\ peer.at = "status" /\ peer.written = peer.len
  /\ msc.at = "lost" => Waits /\ ~e.busy /\ peer.at \in {"data", "status"}
  /\ msc.at = "status" =>
       /\ Still /\ ep.fifo = <<>>
       /\ \/ /\ e.sends /\ Waits
             /\ \/ ep.tx /\ ~ep.sent /\ peer.at = "status" /\ peer.written = peer.len
                \/ ~ep.tx /\ ep.sent /\ peer.at \in {"idle", "cbw"}
          \/ ~e.sends /\ ~ep.tx /\ ~ep.sent /\ msc.event.of = "in" /\ peer.at \in {"idle", "cbw"}

Phases == BulkSides /\ CommandPhase /\ DataPhase /\ StatusPhase

BulkInv == BulkTypes /\ Dmas /\ Quiet /\ WrittenRight /\ (~Away => Phases)

-----------------------------------------------------------------------------
USE RbBulkAssumption

\* What a receive of n packets does.
LEMMA ReceiveStep ==
  ASSUME NEW m, NEW n \in Nat, e \in EndpointType, ep \in ControllerType, both.broken \in BOOLEAN,
         Becomes2(Receives([Bulk EXCEPT !.msc = m], n))
  PROVE  /\ e' \in EndpointType /\ ep' \in ControllerType
         /\ e'.busy /\ e'.armed /\ ~e'.dma /\ e'.len = n /\ e'.done = 0
         /\ e'.wait = e.wait /\ e'.sends = e.sends
         /\ ep'.rx /\ ep'.size = 1 /\ ep'.count = 0 /\ ep'.fifo = ep.fifo /\ ep'.sts = ep.sts
         /\ ep'.tx = ep.tx /\ ep'.sent = ep.sent /\ ep'.out = ep.out
         /\ mem' = <<>> /\ both' = both /\ msc' = m
<1>1. /\ e' = [e EXCEPT !.busy = TRUE, !.armed = TRUE, !.len = n, !.done = 0,
                        !.dma = FALSE,
                        !.next = ep.out # "off" /\ ~both.broken /\ n >= DmaMin]
      /\ ep' = [ep EXCEPT !.rx = TRUE, !.size = 1, !.count = 0]
      /\ mem' = <<>> /\ both' = both /\ msc' = m
  BY DEF Becomes2, Receives, Bulk
<1>2. (ep.out # "off" /\ ~both.broken /\ n >= DmaMin) \in BOOLEAN
  OBVIOUS
<1> QED BY <1>1, <1>2 DEF EndpointType, ControllerType, BothType

\* The phases say nothing of the SD driver.
LEMMA PhasesSame ==
  ASSUME UNCHANGED <<e, ep, mem, msc, peer>>
  PROVE  (Quiet <=> Quiet') /\ (Phases <=> Phases') /\ (Away <=> Away')
BY DEF Quiet, Away, Phases, BulkSides, CommandPhase, DataPhase, StatusPhase, Waits, Got, Still, Come,
       Numbered, ByPacket, ForDma, ByDma

LEMMA SdGoKeeps == ASSUME BulkInv, SdGo PROVE BulkInv'
<1>1. UNCHANGED <<e, ep, mem, msc, peer>> /\ sd = "wait" /\ sd' = "run"
  BY DEF SdGo
<1>2. /\ both' \in BothType
      /\ both'.busy /\ both'.out = both.out /\ both'.kick = both.kick
      /\ both.out => both'.gave_up
  BY DEF SdGo, BulkInv, BulkTypes, BothType
<1>3. BulkTypes'
  BY <1>1, <1>2 DEF BulkInv, BulkTypes
<1>4. Dmas'
  BY <1>1, <1>2 DEF BulkInv, BulkTypes, Dmas, OneDma, FlagIsDma, HeldIsWaited
<1> QED BY <1>1, <1>3, <1>4, PhasesSame DEF BulkInv, WrittenRight

LEMMA SdEndsKeeps == ASSUME BulkInv, SdEnds PROVE BulkInv'
<1>1. UNCHANGED <<e, ep, mem, msc, peer>> /\ sd = "run" /\ sd' = "end"
  BY DEF SdEnds
<1>2. /\ both' \in BothType
      /\ ~both'.busy /\ both'.out = both.out /\ both'.kick = both.kick
  BY DEF SdEnds, BulkInv, BulkTypes, BothType
<1>3. BulkTypes'
  BY <1>1, <1>2 DEF BulkInv, BulkTypes
<1>4. Dmas'
  BY <1>1, <1>2 DEF BulkInv, BulkTypes, BothType, EndpointType, Dmas, OneDma, FlagIsDma, HeldIsWaited
<1> QED BY <1>1, <1>3, <1>4, PhasesSame DEF BulkInv, WrittenRight

\* What the start of the DMA does to a state d.
LEMMA DmaStartIs ==
  ASSUME NEW d, d.e \in EndpointType, d.ep \in ControllerType, d.e.done <= d.e.len,
         Becomes2(dma_start_out(d)),
         DOMAIN d = {"e", "ep", "mem", "both", "watch", "msc"},
         d.both \in BothType
  PROVE  /\ e' \in EndpointType /\ ep' \in ControllerType
         /\ both' \in BothType
         /\ e'.busy = d.e.busy /\ e'.armed /\ e'.dma /\ ~e'.wait /\ e'.len = d.e.len
         /\ e'.done = d.e.done /\ e'.base = d.e.done /\ e'.sends = d.e.sends
         /\ ep'.rx /\ ep'.size = d.e.len - d.e.done /\ ep'.count = 0 /\ ep'.fifo = d.ep.fifo
         /\ ep'.sts = {} /\ ep'.tx = d.ep.tx /\ ep'.sent = d.ep.sent /\ ep'.out = d.ep.out
         /\ mem' = d.mem /\ msc' = d.msc
         /\ both'.out /\ both'.busy = d.both.busy /\ both'.kick = d.both.kick
         /\ both'.gave_up = d.both.gave_up
<1>1. /\ e' = [d.e EXCEPT !.wait = FALSE, !.dma = TRUE, !.armed = TRUE, !.base = d.e.done]
      /\ ep' = [d.ep EXCEPT !.token = FALSE, !.sts = {}, !.rx = TRUE, !.count = 0,
                             !.size = d.e.len - d.e.done]
      /\ mem' = d.mem /\ both' = [d.both EXCEPT !.out = TRUE] /\ msc' = d.msc
  BY DEF Becomes2, dma_start_out
<1>2. d.e.len - d.e.done \in Nat
  BY DEF EndpointType
<1> QED BY <1>1, <1>2 DEF EndpointType, ControllerType, BothType

LEMMA SdIdleKeeps == ASSUME BulkInv, SdIdle PROVE BulkInv'
<1> DEFINE d == [Bulk EXCEPT !.both.kick = FALSE]
<1>1. /\ d.e = e /\ d.ep = ep /\ d.mem = mem /\ d.msc = msc
      /\ d.both = [both EXCEPT !.kick = FALSE]
      /\ DOMAIN d = {"e", "ep", "mem", "both", "watch", "msc"}
  BY DEF Bulk
<1>2. sd = "end" /\ sd' = "idle" /\ peer' = peer
  BY DEF SdIdle
<1>3. /\ e \in EndpointType /\ ep \in ControllerType /\ both \in BothType
      /\ d.both \in BothType /\ ~d.both.kick /\ d.both.out = both.out
      /\ d.both.busy = both.busy /\ d.both.gave_up = both.gave_up
  BY <1>1 DEF BulkInv, BulkTypes, BothType
<1>4. CASE both.kick /\ e.wait /\ e.busy
  <2>1. Becomes2(dma_start_out(d))
    BY <1>4 DEF SdIdle
  <2>2. e.done <= e.len
    BY <1>4 DEF BulkInv, Dmas
  <2> HIDE DEF d
  <2>3. /\ e' \in EndpointType /\ ep' \in ControllerType /\ both' \in BothType
        /\ e'.busy = e.busy /\ e'.armed /\ e'.dma /\ ~e'.wait /\ e'.len = e.len
        /\ e'.done = e.done /\ e'.base = e.done /\ e'.sends = e.sends
        /\ ep'.rx /\ ep'.size = e.len - e.done /\ ep'.count = 0 /\ ep'.fifo = ep.fifo
        /\ ep'.sts = {} /\ ep'.tx = ep.tx /\ ep'.sent = ep.sent /\ ep'.out = ep.out
        /\ mem' = mem /\ msc' = msc
        /\ both'.out /\ both'.busy = both.busy /\ ~both'.kick
    BY <2>1, <2>2, <1>1, <1>3, DmaStartIs
  <2>4. BulkTypes'
    BY <1>2, <2>3 DEF BulkInv, BulkTypes
  <2>5. Dmas'
    BY <1>2, <1>4, <2>3 DEF BulkInv, Dmas, OneDma, FlagIsDma, HeldIsWaited
  <2>6. Quiet'
    BY <1>2, <1>4, <2>3 DEF BulkInv, Quiet, Away
  <2>7. WrittenRight'
    BY <1>2, <2>3 DEF BulkInv, WrittenRight
  <2>8. ASSUME ~Away PROVE Phases'
    <3>1. Phases BY <2>8 DEF BulkInv
    <3>2. msc.at = "data" /\ Waits /\ Come /\ ForDma /\ peer.at \in {"data", "status"}
      BY <3>1, <1>4, <1>3 DEF Phases, CommandPhase, DataPhase, StatusPhase, Still, ByPacket, ByDma,
            Dmas, BulkInv, BulkTypes
    <3>3. Waits' /\ Come'
      BY <3>2, <2>3, <1>2 DEF Waits, Come, Numbered
    <3>4. ByDma'
      BY <3>2, <2>3, <1>3, RbBulkAssumption DEF ForDma, ByDma, EndpointType, BulkInv, BulkTypes
    <3>5. DataPhase'
      BY <3>2, <3>3, <3>4, <2>3, <1>2, <1>4 DEF DataPhase
    <3>6. BulkSides'
      BY <3>1, <3>2, <2>3, <1>2 DEF Phases, BulkSides
    <3> QED BY <3>2, <3>5, <3>6, <2>3 DEF Phases, CommandPhase, StatusPhase
  <2> QED BY <2>4, <2>5, <2>6, <2>7, <2>8, <1>2 DEF BulkInv, Away
<1>5. CASE ~(both.kick /\ e.wait /\ e.busy)
  <2>1. UNCHANGED <<e, ep, mem, msc, peer>> /\ both' = d.both
    BY <1>5, <1>1, <1>2 DEF SdIdle, Becomes2
  <2> HIDE DEF d
  <2>2. BulkTypes'
    BY <2>1, <1>2, <1>3 DEF BulkInv, BulkTypes
  <2>3. Dmas'
    BY <2>1, <1>2, <1>3 DEF BulkInv, Dmas, OneDma, FlagIsDma, HeldIsWaited
  <2> QED BY <2>1, <2>2, <2>3, PhasesSame DEF BulkInv, WrittenRight
<1> QED BY <1>4, <1>5

\* Without a receive that waits or that the DMA has, the SD driver is free.
LEMMA FreshReceive ==
  ASSUME BulkInv, ~e.busy, BulkTypes', both' = both, sd' \in {sd, "wait"}, sd' # sd => sd = "idle",
         e'.busy, e'.armed, ~e'.dma, e'.wait = e.wait
  PROVE  Dmas'
BY DEF BulkInv, BulkTypes, BothType, EndpointType, Dmas, OneDma, FlagIsDma, HeldIsWaited

LEMMA TakesCommandKeeps == ASSUME BulkInv, TakesCommand PROVE BulkInv'
<1> DEFINE n == Fewer(peer.len, Chunk)
           m == [at |-> "data", left |-> peer.len - n, event |-> NoEvent]
<1>1. /\ Becomes2(Receives([Bulk EXCEPT !.msc = m], n))
      /\ sd = "idle" /\ sd' = sd /\ peer' = peer /\ ~Away
      /\ msc.at = "cbw" /\ msc.event.of = "out"
  BY DEF TakesCommand, Now, Away
<1>2. Phases /\ BulkTypes
  BY <1>1 DEF BulkInv
<1>3. /\ Still /\ ep.fifo = <<>> /\ peer.at = "data"
      /\ peer.len > 0 /\ peer.sent = 0 /\ peer.written = 0 /\ ~e.sends /\ ~ep.tx /\ ~ep.sent
  BY <1>1, <1>2 DEF Phases, CommandPhase, BulkSides, Waits
<1>4. n \in Nat /\ n > 0 /\ n <= peer.len /\ peer.len - n \in Nat
  BY <1>2, <1>3, RbBulkAssumption DEF Fewer, BulkTypes
<1>5. m \in [at : {"cbw", "data", "last", "status", "lost"}, left : Nat, event : EventType]
      /\ m.at = "data" /\ m.left = peer.len - n /\ m.event = NoEvent
  BY <1>4 DEF EventType, NoEvent
<1> HIDE DEF n, m
<1>6. /\ e' \in EndpointType /\ ep' \in ControllerType
      /\ e'.busy /\ e'.armed /\ ~e'.dma /\ e'.len = n /\ e'.done = 0
      /\ e'.wait = e.wait /\ e'.sends = e.sends
      /\ ep'.rx /\ ep'.size = 1 /\ ep'.count = 0 /\ ep'.fifo = ep.fifo /\ ep'.sts = ep.sts
      /\ ep'.tx = ep.tx /\ ep'.sent = ep.sent /\ ep'.out = ep.out
      /\ mem' = <<>> /\ both' = both /\ msc' = m
  <2>1. both.broken \in BOOLEAN
    BY <1>2 DEF BulkTypes, BothType
  <2> QED BY <1>1, <1>2, <1>4, <2>1, ReceiveStep DEF BulkTypes
<1>7. BulkTypes'
  BY <1>1, <1>2, <1>5, <1>6 DEF BulkTypes
<1>8. Dmas'
  BY <1>1, <1>3, <1>6, <1>7, FreshReceive DEF Still
<1>9. ~e.wait
  BY <1>3 DEF BulkInv, Dmas, Still
<1>10. Waits' /\ Come'
  BY <1>1, <1>2, <1>3, <1>4, <1>5, <1>6 DEF Waits, NoEvent, Come, Numbered, BulkTypes
<1>11. ByPacket'
  BY <1>3, <1>4, <1>6, <1>9 DEF ByPacket, Still
<1>12. Phases'
  <2>1. DataPhase'
    BY <1>1, <1>3, <1>6, <1>10, <1>11 DEF DataPhase
  <2>2. BulkSides'
    BY <1>1, <1>3, <1>5, <1>6 DEF BulkSides
  <2> QED BY <2>1, <2>2, <1>5, <1>6 DEF Phases, CommandPhase, StatusPhase
<1>20. WrittenRight'
  BY <1>1, <1>2, <1>3, <1>6, <1>7, <1>8, <1>12 DEF BulkInv, WrittenRight
<1> QED BY <1>1, <1>3, <1>7, <1>8, <1>12, <1>20 DEF BulkInv, Quiet, Away

LEMMA TakesChunkKeeps == ASSUME BulkInv, TakesChunk PROVE BulkInv'
<1> DEFINE n == Fewer(msc.left, Chunk)
           m == [at |-> IF n = 0 THEN "last" ELSE "data", left |-> msc.left - n, event |-> NoEvent]
<1>1. /\ IF n = 0 THEN Becomes2([Bulk EXCEPT !.msc = m])
         ELSE Becomes2(Receives([Bulk EXCEPT !.msc = m], n))
      /\ sd = "idle" /\ sd' = "wait" /\ ~Away
      /\ msc.at = "data" /\ msc.event.of = "out" /\ msc.event.ok
      /\ peer' = [peer EXCEPT !.written = @ + Len(mem),
           !.whole = @ /\ Len(mem) = e.len,
           !.good = @ /\ \A i \in 1 .. Len(mem) : mem[i].n = peer.written + i /\ mem[i].full]
  BY DEF TakesChunk, Now, Away
<1>2. Phases /\ BulkTypes /\ WrittenRight
  BY <1>1 DEF BulkInv
<1>3. /\ Still /\ ep.fifo = <<>> /\ Come /\ Len(mem) = e.len
      /\ ~e.sends /\ ~ep.tx /\ ~ep.sent /\ peer.at \in {"data", "status"}
  BY <1>1, <1>2 DEF Phases, DataPhase, BulkSides, Waits, Got
<1>4. n \in Nat /\ msc.left - n \in Nat /\ (n = 0 => msc.left = 0)
  BY <1>2, RbBulkAssumption DEF Fewer, BulkTypes
<1>5. m \in [at : {"cbw", "data", "last", "status", "lost"}, left : Nat, event : EventType]
      /\ m.left = msc.left - n /\ m.event = NoEvent
      /\ m.at = IF n = 0 THEN "last" ELSE "data"
  BY <1>4 DEF EventType, NoEvent
<1>6. ASSUME ep.out # "unpaced", NEW i \in 1 .. Len(mem)
      PROVE  mem[i].n = peer.written + i /\ mem[i].full
  <2>1. mem[i] = [full |-> TRUE, n |-> peer.written + i]
    BY <1>3, <1>6 DEF Come, Numbered
  <2> QED BY <2>1
<1>7. /\ peer'.at = peer.at /\ peer'.len = peer.len /\ peer'.sent = peer.sent
      /\ peer'.whole /\ (ep.out # "unpaced" => peer'.good)
      /\ peer'.written = peer.written + Len(mem)
      /\ peer' \in [at : {"idle", "cbw", "data", "status", "reset", "seen"},
                  len : Nat, sent : Nat, written : Nat, whole : BOOLEAN, good : BOOLEAN]
  <2>1. Len(mem) \in Nat
    BY <1>2 DEF BulkTypes
  <2> DEFINE w == peer.whole /\ Len(mem) = e.len
             g == peer.good /\ \A i \in 1 .. Len(mem) : mem[i].n = peer.written + i /\ mem[i].full
  <2>2. peer' = [peer EXCEPT !.written = peer.written + Len(mem), !.whole = w, !.good = g]
    BY <1>1
  <2>3. w /\ w \in BOOLEAN /\ g \in BOOLEAN /\ (ep.out # "unpaced" => g)
    BY <1>2, <1>3, <1>6 DEF WrittenRight, BulkTypes
  <2> HIDE DEF w, g
  <2>4. peer.written + Len(mem) \in Nat
    BY <1>2, <2>1 DEF BulkTypes
  <2> QED BY <1>2, <2>2, <2>3, <2>4 DEF BulkTypes
<1>8. ~Away' /\ Quiet'
  BY <1>1, <1>7 DEF Away, Quiet
<1> HIDE DEF n, m
<1>9. CASE n = 0
  <2>1. UNCHANGED <<e, ep, mem, both>> /\ msc' = m
    BY <1>1, <1>9 DEF Becomes2, Bulk
  <2>2. BulkTypes'
    BY <1>1, <1>2, <1>5, <1>7, <2>1 DEF BulkTypes
  <2>3. Dmas'
    BY <1>1, <2>1 DEF BulkInv, BulkTypes, BothType, Dmas, OneDma, FlagIsDma, HeldIsWaited
  <2>4. peer'.written = peer.len /\ peer.at = "status"
    BY <1>2, <1>3, <1>4, <1>7, <1>9 DEF Come, BulkTypes, EndpointType
  <2>5. Waits' /\ Still'
    BY <1>3, <1>5, <2>1 DEF Waits, NoEvent, Still
  <2>6. Phases'
    BY <1>3, <1>5, <1>7, <1>9, <2>1, <2>4, <2>5
      DEF Phases, BulkSides, CommandPhase, DataPhase, StatusPhase
  <2>20. WrittenRight'
    BY <1>2, <1>7, <1>8, <2>1, <2>2, <2>3, <2>6 DEF BulkInv, WrittenRight
  <2> QED BY <1>7, <1>8, <2>2, <2>3, <2>6, <2>20 DEF BulkInv
<1>10. CASE n # 0
  <2>1. /\ e' \in EndpointType /\ ep' \in ControllerType
        /\ e'.busy /\ e'.armed /\ ~e'.dma /\ e'.len = n /\ e'.done = 0
        /\ e'.wait = e.wait /\ e'.sends = e.sends
        /\ ep'.rx /\ ep'.size = 1 /\ ep'.count = 0 /\ ep'.fifo = ep.fifo /\ ep'.sts = ep.sts
        /\ ep'.tx = ep.tx /\ ep'.sent = ep.sent /\ ep'.out = ep.out
        /\ mem' = <<>> /\ both' = both /\ msc' = m
    <3>1. both.broken \in BOOLEAN
      BY <1>2 DEF BulkTypes, BothType
    <3> QED BY <1>1, <1>2, <1>4, <1>10, <3>1, ReceiveStep DEF BulkTypes
  <2>2. BulkTypes'
    BY <1>1, <1>2, <1>5, <1>7, <2>1 DEF BulkTypes
  <2>3. Dmas'
    BY <1>1, <1>3, <2>1, <2>2, FreshReceive DEF Still
  <2>4. ~e.wait
    BY <1>3 DEF BulkInv, Dmas, Still
  <2>5. Waits' /\ Come'
    BY <1>2, <1>3, <1>4, <1>5, <1>7, <2>1, SMTT(20) DEF Waits, NoEvent, Come, Numbered, BulkTypes, EndpointType
  <2>6. ByPacket'
    BY <1>3, <1>4, <1>10, <2>1, <2>4 DEF ByPacket, Still
  <2>7. DataPhase'
    BY <1>3, <1>7, <2>1, <2>5, <2>6 DEF DataPhase
  <2>8. BulkSides'
    BY <1>2, <1>3, <1>5, <1>7, <1>10, <2>1 DEF Phases, BulkSides
  <2>9. Phases'
    BY <1>5, <1>10, <2>1, <2>7, <2>8 DEF Phases, CommandPhase, StatusPhase
  <2>20. WrittenRight'
    BY <1>2, <1>7, <1>8, <2>1, <2>2, <2>3, <2>9 DEF BulkInv, WrittenRight
  <2> QED BY <1>7, <1>8, <2>2, <2>3, <2>9, <2>20 DEF BulkInv
<1> QED BY <1>9, <1>10

LEMMA SendsStatusKeeps == ASSUME BulkInv, SendsStatus PROVE BulkInv'
<1>1. /\ e' = [e EXCEPT !.sends = TRUE] /\ ep' = [ep EXCEPT !.tx = TRUE, !.sent = FALSE]
      /\ msc' = [msc EXCEPT !.at = "status"]
      /\ UNCHANGED <<mem, both, sd, peer>> /\ msc.at = "last" /\ ~Away
  BY DEF SendsStatus, Now, Away, Becomes2, Bulk
<1>2. Phases /\ BulkTypes
  BY <1>1 DEF BulkInv
<1>3. /\ BulkTypes' /\ e'.sends /\ e'.busy = e.busy /\ e'.dma = e.dma /\ e'.wait = e.wait
      /\ e'.armed = e.armed /\ e'.done = e.done /\ e'.len = e.len
      /\ ep'.tx /\ ~ep'.sent /\ ep'.rx = ep.rx /\ ep'.sts = ep.sts /\ ep'.fifo = ep.fifo
      /\ msc'.at = "status" /\ msc'.event = msc.event
  BY <1>1, <1>2 DEF BulkTypes, EndpointType, ControllerType
<1>4. Dmas'
  BY <1>1, <1>3 DEF BulkInv, BulkTypes, BothType, EndpointType, Dmas, OneDma, FlagIsDma, HeldIsWaited
<1>5. Phases'
  BY <1>1, <1>2, <1>3 DEF Phases, BulkSides, CommandPhase, DataPhase, StatusPhase, Waits, Still
<1> QED BY <1>1, <1>3, <1>4, <1>5 DEF BulkInv, Quiet, Away, WrittenRight

LEMMA StatusSentKeeps == ASSUME BulkInv, StatusSent PROVE BulkInv'
<1> DEFINE m == [at |-> "cbw", left |-> 0, event |-> NoEvent]
<1>1. /\ Becomes2(Receives([Bulk EXCEPT !.msc = m], CbwLen))
      /\ sd = "idle" /\ sd' = sd /\ peer' = peer /\ ~Away
      /\ msc.at = "status" /\ msc.event.of = "in"
  BY DEF StatusSent, Now, Away
<1>2. Phases /\ BulkTypes
  BY <1>1 DEF BulkInv
<1>3. /\ Still /\ ep.fifo = <<>> /\ peer.at \in {"idle", "cbw"} /\ ~e.sends /\ ~ep.tx /\ ~ep.sent
  BY <1>1, <1>2 DEF Phases, StatusPhase, Waits
<1>4. /\ m \in [at : {"cbw", "data", "last", "status", "lost"}, left : Nat, event : EventType]
      /\ m.at = "cbw" /\ m.event = NoEvent
  BY DEF EventType, NoEvent
<1> HIDE DEF m
<1>5. /\ e' \in EndpointType /\ ep' \in ControllerType
      /\ e'.busy /\ e'.armed /\ ~e'.dma /\ e'.len = CbwLen /\ e'.done = 0
      /\ e'.wait = e.wait /\ e'.sends = e.sends
      /\ ep'.rx /\ ep'.size = 1 /\ ep'.count = 0 /\ ep'.fifo = ep.fifo /\ ep'.sts = ep.sts
      /\ ep'.tx = ep.tx /\ ep'.sent = ep.sent /\ ep'.out = ep.out
      /\ mem' = <<>> /\ both' = both /\ msc' = m
  <2>1. both.broken \in BOOLEAN /\ CbwLen \in Nat
    BY <1>2 DEF BulkTypes, BothType, CbwLen
  <2> QED BY <1>1, <1>2, <2>1, ReceiveStep DEF BulkTypes
<1>6. BulkTypes'
  BY <1>1, <1>2, <1>4, <1>5 DEF BulkTypes
<1>7. Dmas'
  BY <1>1, <1>3, <1>5, <1>6, FreshReceive DEF Still
<1>8. ~e.wait
  BY <1>3 DEF BulkInv, Dmas, Still
<1>9. CommandPhase'
  BY <1>1, <1>3, <1>4, <1>5, <1>8 DEF CommandPhase, Waits, NoEvent, Still
<1>10. BulkSides'
  BY <1>1, <1>2, <1>3, <1>4, <1>5 DEF Phases, BulkSides
<1>11. Phases'
  BY <1>4, <1>5, <1>9, <1>10 DEF Phases, DataPhase, StatusPhase
<1>20. WrittenRight'
  BY <1>1, <1>2, <1>3, <1>5, <1>6, <1>7, <1>11 DEF BulkInv, WrittenRight
<1> QED BY <1>1, <1>3, <1>6, <1>7, <1>11, <1>20 DEF BulkInv, Quiet, Away

LEMMA ReceiveFailedKeeps == ASSUME BulkInv, ReceiveFailed PROVE BulkInv'
<1>1. /\ UNCHANGED <<e, ep, mem, both, sd, peer>> /\ ~Away
      /\ msc' = [at |-> "lost", left |-> 0, event |-> NoEvent]
      /\ msc.at = "data" /\ msc.event.of = "out" /\ ~msc.event.ok
  BY DEF ReceiveFailed, Now, Away, Becomes2, Bulk
<1>2. Phases /\ BulkTypes
  BY <1>1 DEF BulkInv
<1>3. BulkTypes' /\ msc'.at = "lost" /\ Waits'
  BY <1>1, <1>2 DEF BulkTypes, EventType, NoEvent, Waits
<1>4. Dmas'
  BY <1>1 DEF BulkInv, Dmas, OneDma, FlagIsDma, HeldIsWaited
<1>5. ~e.busy /\ peer.at \in {"data", "status"}
  BY <1>1, <1>2 DEF Phases, DataPhase, Waits, Got
<1>6. Phases'
  BY <1>1, <1>2, <1>3, <1>5 DEF Phases, BulkSides, CommandPhase, DataPhase, StatusPhase
<1> QED BY <1>1, <1>3, <1>4, <1>6 DEF BulkInv, Quiet, Away, WrittenRight

LEMMA ReactivatesKeeps == ASSUME BulkInv, Reactivates PROVE BulkInv'
<1> DEFINE m == [at |-> "cbw", left |-> 0, event |-> NoEvent]
<1>1. /\ Becomes2(Receives([Bulk EXCEPT !.msc = m], CbwLen))
      /\ sd = "idle" /\ sd' = sd /\ peer' = [peer EXCEPT !.at = "idle"] /\ peer.at = "seen"
  BY DEF Reactivates
<1>2. BulkTypes /\ ~e.busy /\ ~e.sends /\ ep.sts = {} /\ ep.fifo = <<>> /\ ~ep.tx /\ ~ep.sent
  BY <1>1 DEF BulkInv, Quiet, Away
<1>3. /\ m \in [at : {"cbw", "data", "last", "status", "lost"}, left : Nat, event : EventType]
      /\ m.at = "cbw" /\ m.event = NoEvent
  BY DEF EventType, NoEvent
<1> HIDE DEF m
<1>4. /\ e' \in EndpointType /\ ep' \in ControllerType
      /\ e'.busy /\ e'.armed /\ ~e'.dma /\ e'.len = CbwLen /\ e'.done = 0
      /\ e'.wait = e.wait /\ e'.sends = e.sends
      /\ ep'.rx /\ ep'.size = 1 /\ ep'.count = 0 /\ ep'.fifo = ep.fifo /\ ep'.sts = ep.sts
      /\ ep'.tx = ep.tx /\ ep'.sent = ep.sent /\ ep'.out = ep.out
      /\ mem' = <<>> /\ both' = both /\ msc' = m
  <2>1. both.broken \in BOOLEAN /\ CbwLen \in Nat
    BY <1>2 DEF BulkTypes, BothType, CbwLen
  <2> QED BY <1>1, <1>2, <2>1, ReceiveStep DEF BulkTypes
<1>5. peer'.at = "idle" /\ peer'.whole = peer.whole /\ peer'.good = peer.good /\ BulkTypes'
  BY <1>1, <1>2, <1>3, <1>4 DEF BulkTypes
<1>6. Dmas'
  BY <1>1, <1>2, <1>4, <1>5, FreshReceive
<1>7. ~e.wait
  BY <1>2 DEF BulkInv, Dmas
<1>8. CommandPhase'
  BY <1>2, <1>3, <1>4, <1>5, <1>7 DEF CommandPhase, Waits, NoEvent
<1>9. Phases'
  BY <1>2, <1>3, <1>4, <1>5, <1>8 DEF Phases, BulkSides, DataPhase, StatusPhase
<1>20. WrittenRight'
  BY <1>1, <1>2, <1>4, <1>5, <1>6, <1>9 DEF BulkInv, WrittenRight
<1> QED BY <1>2, <1>5, <1>6, <1>9, <1>20 DEF BulkInv, Quiet, Away

LEMMA HostWritesKeeps == ASSUME BulkInv, HostWrites PROVE BulkInv'
<1>1. /\ UNCHANGED <<e, ep, mem, both, sd, msc>> /\ peer.at = "idle"
      /\ \E n \in WriteLengths :
           peer' = [peer EXCEPT !.at = "cbw", !.len = n, !.sent = 0, !.written = 0]
  BY DEF HostWrites
<1>2. BulkTypes /\ Phases
  BY <1>1 DEF BulkInv, Away
<1>3. /\ BulkTypes' /\ peer'.at = "cbw" /\ peer'.len > 0 /\ peer'.sent = 0 /\ peer'.written = 0
      /\ peer'.whole = peer.whole /\ peer'.good = peer.good
  <2>1. PICK n \in WriteLengths :
           peer' = [peer EXCEPT !.at = "cbw", !.len = n, !.sent = 0, !.written = 0]
    BY <1>1
  <2>2. n \in Nat /\ n > 0
    BY RbBulkAssumption
  <2> QED BY <1>1, <1>2, <2>1, <2>2 DEF BulkTypes
<1>4. Dmas'
  BY <1>1 DEF BulkInv, Dmas, OneDma, FlagIsDma, HeldIsWaited
<1>5. Phases'
  BY <1>1, <1>2, <1>3
    DEF Phases, BulkSides, CommandPhase, DataPhase, StatusPhase, Waits, Still, Got
<1>20. WrittenRight'
  BY <1>1, <1>2, <1>3, <1>4, <1>5 DEF BulkInv, WrittenRight
<1> QED BY <1>3, <1>4, <1>5, <1>20 DEF BulkInv, Quiet, Away

LEMMA HostTakesStatusKeeps == ASSUME BulkInv, HostTakesStatus PROVE BulkInv'
<1>1. /\ UNCHANGED <<e, mem, both, sd, msc>> /\ peer.at = "status" /\ ep.tx
      /\ ep' = [ep EXCEPT !.tx = FALSE, !.sent = TRUE]
      /\ peer' = [peer EXCEPT !.at = "idle", !.whole = @ /\ peer.written = peer.len]
  BY DEF HostTakesStatus
<1>2. BulkTypes /\ Phases /\ WrittenRight
  BY <1>1 DEF BulkInv, Away
<1>3. /\ msc.at = "status" /\ e.sends /\ Waits /\ Still /\ ep.fifo = <<>> /\ peer.written = peer.len
  BY <1>1, <1>2 DEF Phases, BulkSides, StatusPhase
<1>4. /\ BulkTypes' /\ peer'.at = "idle" /\ peer'.whole /\ peer'.good = peer.good /\ ep'.out = ep.out
      /\ ~ep'.tx /\ ep'.sent /\ ep'.rx = ep.rx /\ ep'.sts = ep.sts /\ ep'.fifo = ep.fifo
  <2>1. peer' = [peer EXCEPT !.at = "idle", !.whole = TRUE]
    BY <1>1, <1>2, <1>3 DEF WrittenRight
  <2> QED BY <1>1, <1>2, <2>1 DEF BulkTypes, ControllerType
<1>5. Dmas'
  BY <1>1 DEF BulkInv, Dmas, OneDma, FlagIsDma, HeldIsWaited
<1>6. Phases'
  BY <1>1, <1>3, <1>4
    DEF Phases, BulkSides, CommandPhase, DataPhase, StatusPhase, Waits, Still
<1> QED BY <1>4, <1>5, <1>6 DEF BulkInv, Quiet, Away, WrittenRight

LEMMA HostResetsKeeps == ASSUME BulkInv, HostResets PROVE BulkInv'
<1>1. /\ UNCHANGED <<e, mem, both, sd, msc>> /\ ep' = Wiped /\ peer' = [peer EXCEPT !.at = "reset"]
  BY DEF HostResets
<1>2. BulkTypes /\ WrittenRight
  BY DEF BulkInv
<1>3. <<>> \in Seq(PacketType)
  OBVIOUS
<1>4. /\ BulkTypes' /\ peer'.at = "reset" /\ WrittenRight'
      /\ ep'.sts = {} /\ ep'.fifo = <<>> /\ ~ep'.tx /\ ~ep'.sent
  BY <1>1, <1>2, <1>3 DEF BulkTypes, ControllerType, Wiped, WrittenRight
<1>5. Dmas'
  BY <1>1 DEF BulkInv, Dmas, OneDma, FlagIsDma, HeldIsWaited
<1> QED BY <1>4, <1>5 DEF BulkInv, Quiet, Away

LEMMA BusResetSeenKeeps == ASSUME BulkInv, BusResetSeen PROVE BulkInv'
<1>1. /\ UNCHANGED <<mem, sd, msc>> /\ peer' = [peer EXCEPT !.at = "seen"]
      /\ e' = [e EXCEPT !.dma = FALSE, !.wait = FALSE, !.busy = FALSE, !.sends = FALSE]
      /\ both' = [both EXCEPT !.out = IF e.dma THEN FALSE ELSE @, !.kick = FALSE]
      /\ ep' = [ep EXCEPT !.on = TRUE, !.rx = FALSE, !.tx = FALSE, !.size = 1,
                          !.fifo = <<>>, !.sts = {}, !.sent = FALSE, !.token = FALSE]
  BY DEF BusResetSeen, Becomes2, Cancelled, dma_stop, Bulk
<1>2. BulkTypes /\ WrittenRight /\ FlagIsDma
  BY DEF BulkInv, Dmas
<1>3. <<>> \in Seq(PacketType)
  OBVIOUS
<1>4. /\ e' \in EndpointType /\ ~e'.dma /\ ~e'.wait /\ ~e'.busy /\ ~e'.sends
      /\ peer'.at = "seen" /\ peer'.whole = peer.whole /\ peer'.good = peer.good
      /\ ep' \in ControllerType
      /\ ep'.sts = {} /\ ep'.fifo = <<>> /\ ~ep'.tx /\ ~ep'.sent
  BY <1>1, <1>2, <1>3 DEF BulkTypes, ControllerType, EndpointType
<1>5. both' \in BothType /\ ~both'.out /\ ~both'.kick /\ both'.busy = both.busy
  BY <1>1, <1>2 DEF BulkTypes, BothType, EndpointType, FlagIsDma
<1>6. BulkTypes'
  BY <1>1, <1>2, <1>4, <1>5 DEF BulkTypes
<1>7. Dmas'
  BY <1>1, <1>2, <1>4, <1>5 DEF EndpointType, BothType, BulkTypes, Dmas, OneDma, FlagIsDma, HeldIsWaited
<1>20. WrittenRight'
  BY <1>1, <1>2, <1>4, <1>6, <1>7 DEF BulkInv, WrittenRight, BulkTypes, ControllerType
<1> QED BY <1>2, <1>4, <1>6, <1>7, <1>20 DEF BulkInv, Quiet, Away

LEMMA WatchdogKeeps == ASSUME BulkInv, Watchdog PROVE BulkInv'
<1> DEFINE rx == IF e.dma THEN ep.count ELSE 0
<1>1. BulkTypes /\ WrittenRight /\ sd' = sd /\ peer' = peer /\ e.busy /\ (e.dma \/ e.wait)
  BY DEF BulkInv, Watchdog
<1>2. CASE both.kick \/ rx # watch.seen \/ ~watch.late
  <2>1. UNCHANGED <<e, ep, mem, both, msc>>
    BY <1>2 DEF Watchdog, Becomes2, Bulk
  <2>2. BulkTypes'
    BY <1>1, <2>1 DEF BulkTypes
  <2>3. Dmas'
    BY <1>1, <2>1 DEF BulkInv, Dmas, OneDma, FlagIsDma, HeldIsWaited
  <2> QED BY <1>1, <2>1, <2>2, <2>3, PhasesSame DEF BulkInv, WrittenRight
<1>3. CASE ~(both.kick \/ rx # watch.seen \/ ~watch.late)
  <2>1. /\ e' \in EndpointType /\ ~e'.dma /\ ~e'.wait /\ ~e'.busy /\ e'.sends = e.sends
        /\ ep' = [ep EXCEPT !.rx = FALSE, !.token = FALSE]
        /\ both' = [both EXCEPT !.out = IF e.dma THEN FALSE ELSE @, !.broken = TRUE]
        /\ msc' = [msc EXCEPT !.event = [of |-> "out", ok |-> FALSE]]
        /\ mem' = mem
    <3>1. Becomes2(complete([dma_stop(Bulk) EXCEPT
              !.both.broken = TRUE, !.ep.rx = FALSE, !.ep.token = FALSE,
              !.e.wait = FALSE, !.e.armed = FALSE, !.e.dma = FALSE], FALSE))
      BY <1>3 DEF Watchdog
    <3> DEFINE d == dma_stop(Bulk)
               f == [d EXCEPT !.both.broken = TRUE, !.ep.rx = FALSE, !.ep.token = FALSE,
                              !.e.wait = FALSE, !.e.armed = FALSE, !.e.dma = FALSE]
    <3>2. /\ DOMAIN d = {"e", "ep", "mem", "both", "watch", "msc"}
          /\ d.e = [e EXCEPT !.dma = FALSE] /\ d.ep = ep /\ d.mem = mem /\ d.msc = msc
          /\ d.both = [both EXCEPT !.out = IF e.dma THEN FALSE ELSE @]
      BY DEF Bulk, dma_stop
    <3> HIDE DEF d
    <3>3. /\ DOMAIN f = {"e", "ep", "mem", "both", "watch", "msc"}
          /\ f.e = [d.e EXCEPT !.wait = FALSE, !.armed = FALSE, !.dma = FALSE]
          /\ f.ep = [ep EXCEPT !.rx = FALSE, !.token = FALSE] /\ f.mem = mem /\ f.msc = msc
          /\ f.both = [d.both EXCEPT !.broken = TRUE]
      BY <3>2
    <3>4. Becomes2(complete(f, FALSE))
      BY <3>1 DEF d
    <3> HIDE DEF f
    <3>5. /\ e' = [f.e EXCEPT !.busy = FALSE] /\ ep' = f.ep /\ mem' = f.mem /\ both' = f.both
          /\ msc' = [f.msc EXCEPT !.event = [of |-> "out", ok |-> FALSE]]
      BY <3>3, <3>4 DEF Becomes2, complete
    <3>6. e' \in EndpointType /\ ~e'.dma /\ ~e'.wait /\ ~e'.busy /\ e'.sends = e.sends
      <4>1. d.e \in EndpointType /\ d.e.sends = e.sends
        BY <3>2, <1>1 DEF BulkTypes, EndpointType
      <4>2. f.e \in EndpointType /\ ~f.e.dma /\ ~f.e.wait /\ f.e.sends = d.e.sends
        BY <3>3, <4>1 DEF EndpointType
      <4> QED BY <3>5, <4>1, <4>2 DEF EndpointType
    <3>7. both' = [both EXCEPT !.out = IF e.dma THEN FALSE ELSE @, !.broken = TRUE]
      BY <3>2, <3>3, <3>5, <1>1 DEF BulkTypes, BothType
    <3> QED BY <3>3, <3>5, <3>6, <3>7
  <2>2. /\ e' \in EndpointType /\ ~e'.dma /\ ~e'.wait /\ ~e'.busy /\ e'.sends = e.sends
        /\ ep' \in ControllerType /\ ~ep'.rx
        /\ ep'.sts = ep.sts /\ ep'.fifo = ep.fifo /\ ep'.tx = ep.tx /\ ep'.sent = ep.sent /\ ep'.out = ep.out
    BY <1>1, <2>1 DEF BulkTypes, ControllerType, EndpointType
  <2>3. both' \in BothType /\ ~both'.out /\ both'.kick = both.kick /\ both'.busy = both.busy
    BY <1>1, <2>1 DEF BulkInv, Dmas, BulkTypes, BothType, EndpointType, FlagIsDma
  <2>4. /\ msc' \in [at : {"cbw", "data", "last", "status", "lost"}, left : Nat, event : EventType]
        /\ msc'.at = msc.at /\ Got(FALSE)'
    BY <1>1, <2>1 DEF BulkTypes, EventType, Got
  <2>5. BulkTypes'
    BY <1>1, <2>1, <2>2, <2>3, <2>4 DEF BulkTypes
  <2>6. ~both.kick /\ Dmas'
    BY <1>1, <1>3, <2>2, <2>3 DEF BulkInv, BulkTypes, BothType, EndpointType, Dmas, OneDma,
         FlagIsDma, HeldIsWaited
  <2>7. ASSUME ~Away PROVE Phases'
    <3>1. Phases
      BY <2>7 DEF BulkInv
    <3>2. msc.at = "data"
      BY <1>1, <3>1 DEF BulkInv, Dmas, BulkTypes, Phases, CommandPhase, StatusPhase, Still
    <3> QED BY <1>1, <2>2, <2>4, <3>1, <3>2
          DEF Phases, BulkSides, CommandPhase, DataPhase, StatusPhase
  <2>8. Quiet'
    BY <1>1, <2>2 DEF BulkInv, Quiet, Away
  <2>20. WrittenRight'
    BY <1>1, <2>2, <2>5, <2>6, <2>7, <2>8 DEF BulkInv, WrittenRight
  <2> QED BY <1>1, <2>5, <2>6, <2>7, <2>8, <2>20 DEF BulkInv, Away
<1> QED BY <1>2, <1>3

\* A packet that the controller refuses only latches the token.
LEMMA RefusedKeeps ==
  ASSUME BulkInv, peer.at \in {"cbw", "data"}, ep' = [ep EXCEPT !.sts = @ \cup {"token"}],
         UNCHANGED <<e, mem, both, sd, msc, peer>>
  PROVE  BulkInv'
<1>1. BulkTypes /\ ~Away /\ Phases
  BY DEF BulkInv, Away
<1>2. /\ ep' \in ControllerType /\ ep'.rx = ep.rx /\ ep'.size = ep.size /\ ep'.count = ep.count
      /\ ep'.fifo = ep.fifo /\ ep'.tx = ep.tx /\ ep'.sent = ep.sent /\ ep'.out = ep.out
      /\ ("done" \in ep'.sts <=> "done" \in ep.sts)
  BY <1>1 DEF BulkTypes, ControllerType
<1>3. BulkTypes'
  BY <1>1, <1>2 DEF BulkTypes
<1>4. Dmas'
  BY DEF BulkInv, Dmas, OneDma, FlagIsDma, HeldIsWaited
<1>5. Phases'
  BY <1>1, <1>2 DEF Phases, BulkSides, CommandPhase, DataPhase, StatusPhase, Waits, Got, Still, Come,
       Numbered, ByPacket, ForDma, ByDma
<1> QED BY <1>1, <1>3, <1>4, <1>5 DEF BulkInv, Quiet, Away, WrittenRight

\* The command block.
LEMMA CommandArrives ==
  ASSUME BulkInv, HostSends, peer.at = "cbw", ep.rx, ep.fifo = <<>>
  PROVE  BulkInv'
<1>1. BulkTypes /\ ~Away /\ Phases
  BY DEF BulkInv, Away
<1>2. /\ msc.at = "cbw" /\ Waits /\ e.busy /\ e.armed /\ ~e.dma /\ ~e.wait
      /\ e.len = CbwLen /\ e.done = 0 /\ mem = <<>> /\ ep.size = 1 /\ ep.count = 0
      /\ peer.sent = 0 /\ peer.written = 0 /\ peer.len > 0
  BY <1>1 DEF Phases, BulkSides, CommandPhase, StatusPhase, Still
<1>3. /\ UNCHANGED <<e, mem, both, sd, msc>>
      /\ ep' = [ep EXCEPT !.fifo = <<[full |-> FALSE, n |-> 0]>>, !.count = 1, !.rx = FALSE,
                          !.sts = @ \cup {"done"}]
      /\ peer' = [peer EXCEPT !.at = "data"]
  <2> DEFINE q == [full |-> peer.at = "data", n |-> IF peer.at = "data" THEN peer.sent + 1 ELSE 0]
             ended == ep.count + 1 >= ep.size \/ ~q.full
  <2>1. /\ UNCHANGED <<e, both, sd, msc>>
        /\ e.dma \/ mem' = mem
        /\ ep' = [ep EXCEPT !.fifo = IF e.dma /\ ep.out # "stuck" THEN <<>> ELSE <<q>>,
                            !.count = ep.count + 1, !.rx = ~ended,
                            !.sts = IF ended THEN @ \cup {"done"} ELSE @]
        /\ peer' = IF ~q.full THEN [peer EXCEPT !.at = "data"]
                 ELSE [peer EXCEPT !.sent = @ + 1,
                                 !.at = IF peer.sent + 1 = peer.len THEN "status" ELSE "data"]
    BY DEF HostSends
  <2>2. q = [full |-> FALSE, n |-> 0]
    OBVIOUS
  <2> HIDE DEF q
  <2>3. ~q.full
    BY <2>2
  <2>4. ended /\ (~ended) = FALSE
    BY <2>3
  <2> HIDE DEF ended
  <2>5. /\ (IF e.dma /\ ep.out # "stuck" THEN <<>> ELSE <<q>>) = <<q>> /\ ep.count + 1 = 1
        /\ (IF ended THEN ep.sts \cup {"done"} ELSE ep.sts) = ep.sts \cup {"done"}
    BY <1>2, <2>4
  <2> QED BY <1>2, <2>1, <2>2, <2>3, <2>4, <2>5
<1>4. /\ ep' \in ControllerType /\ ~ep'.rx /\ ep'.fifo = <<[full |-> FALSE, n |-> 0]>>
      /\ ep'.tx = ep.tx /\ ep'.sent = ep.sent /\ ep'.out = ep.out
  <2>1. <<[full |-> FALSE, n |-> 0]>> \in Seq(PacketType)
    BY DEF PacketType
  <2> QED BY <1>1, <1>3, <2>1 DEF BulkTypes, ControllerType
<1>5. /\ peer'.at = "data" /\ peer'.whole = peer.whole /\ peer'.good = peer.good /\ peer'.sent = peer.sent /\ peer'.len = peer.len
      /\ peer'.written = peer.written /\ BulkTypes'
  BY <1>1, <1>3, <1>4 DEF BulkTypes
<1>6. Dmas'
  BY <1>3 DEF BulkInv, Dmas, OneDma, FlagIsDma, HeldIsWaited
<1>7. Phases'
  BY <1>1, <1>2, <1>3, <1>4, <1>5 DEF Phases, BulkSides, CommandPhase, DataPhase, StatusPhase, Waits
<1>20. WrittenRight'
  BY <1>1, <1>4, <1>5, <1>6, <1>7 DEF BulkInv, WrittenRight
<1> QED BY <1>5, <1>6, <1>7, <1>20 DEF BulkInv, Quiet, Away

\* A packet of data.
LEMMA PacketArrives ==
  ASSUME BulkInv, HostSends, peer.at = "data", ep.rx, ep.fifo = <<>>
  PROVE  BulkInv'
<1> DEFINE p == [full |-> TRUE, n |-> peer.sent + 1]
           drains == e.dma /\ ep.out # "stuck"
           ended == ep.count + 1 >= ep.size
<1>1. BulkTypes /\ ~Away /\ Phases
  BY DEF BulkInv, Away
<1>2. /\ UNCHANGED <<e, both, sd, msc>>
      /\ IF drains THEN \E l \in Lands(p) : mem' = Append(mem, l) ELSE mem' = mem
      /\ ep' = [ep EXCEPT !.fifo = IF drains THEN <<>> ELSE <<p>>, !.count = ep.count + 1,
                          !.rx = ~ended, !.sts = IF ended THEN @ \cup {"done"} ELSE @]
      /\ peer' = [peer EXCEPT !.sent = @ + 1, !.at = IF peer.sent + 1 = peer.len THEN "status" ELSE "data"]
  BY DEF HostSends
<1>3. p \in PacketType /\ p = [full |-> TRUE, n |-> peer.sent + 1]
  BY <1>1 DEF PacketType, BulkTypes
<1>4. ended \in BOOLEAN /\ (ended <=> ep.count + 1 >= ep.size) /\ drains \in BOOLEAN
      /\ (drains <=> e.dma /\ ep.out # "stuck")
  BY <1>1 DEF BulkTypes, EndpointType, ControllerType
<1> HIDE DEF p, drains, ended
<1>5. /\ ep' \in ControllerType /\ ep'.fifo = (IF drains THEN <<>> ELSE <<p>>)
      /\ ep'.count = ep.count + 1 /\ (ep'.rx <=> ~ended) /\ ep'.size = ep.size
      /\ ("done" \in ep'.sts <=> ended \/ "done" \in ep.sts)
      /\ ep'.tx = ep.tx /\ ep'.sent = ep.sent /\ ep'.out = ep.out
  <2>1. (IF drains THEN <<>> ELSE <<p>>) \in Seq(PacketType)
    BY <1>3
  <2> DEFINE f == IF drains THEN <<>> ELSE <<p>>
             st == IF ended THEN ep.sts \cup {"done"} ELSE ep.sts
  <2>2. st \in SUBSET {"done", "token"} /\ ("done" \in st <=> ended \/ "done" \in ep.sts)
    BY <1>1, <1>4 DEF BulkTypes, ControllerType
  <2>3. ep' = [ep EXCEPT !.fifo = f, !.count = ep.count + 1, !.rx = ~ended, !.sts = st]
    BY <1>2
  <2>5. f \in Seq(PacketType) /\ ep.count + 1 \in Nat
    BY <1>1, <2>1 DEF BulkTypes, ControllerType
  <2> HIDE DEF f, st
  <2>4. /\ ep' \in ControllerType /\ ep'.fifo = f /\ ep'.count = ep.count + 1
        /\ (ep'.rx <=> ~ended) /\ ep'.size = ep.size /\ ep'.sts = st
        /\ ep'.tx = ep.tx /\ ep'.sent = ep.sent /\ ep'.out = ep.out
    BY <1>1, <1>4, <2>2, <2>3, <2>5 DEF BulkTypes, ControllerType
  <2> QED BY <2>2, <2>4 DEF f
<1>15. PICK l \in Lands(p) : mem' = IF drains THEN Append(mem, l) ELSE mem
  <2>1. p \in Lands(p)
    BY DEF Lands
  <2> QED BY <1>2, <2>1
<1>16. l \in PacketType /\ (ep.out # "unpaced" => l = p)
  <2>1. Garbage \in PacketType
    BY DEF Garbage, PacketType
  <2> QED BY <1>3, <1>15, <2>1 DEF Lands
<1>6. mem' \in Seq(PacketType)
  BY <1>1, <1>15, <1>16 DEF BulkTypes
<1>7. /\ peer' \in [at : {"idle", "cbw", "data", "status", "reset", "seen"},
                  len : Nat, sent : Nat, written : Nat, whole : BOOLEAN, good : BOOLEAN]
      /\ peer'.at = (IF peer.sent + 1 = peer.len THEN "status" ELSE "data") /\ peer'.whole = peer.whole /\ peer'.good = peer.good
      /\ peer'.sent = peer.sent + 1 /\ peer'.len = peer.len /\ peer'.written = peer.written
  <2> DEFINE a == IF peer.sent + 1 = peer.len THEN "status" ELSE "data"
  <2>1. peer' = [peer EXCEPT !.sent = peer.sent + 1, !.at = a]
    BY <1>2
  <2>2. a \in {"idle", "cbw", "data", "status", "reset", "seen"}
    OBVIOUS
  <2> HIDE DEF a
  <2>3. peer.sent + 1 \in Nat
    BY <1>1 DEF BulkTypes
  <2>4. /\ peer' \in [at : {"idle", "cbw", "data", "status", "reset", "seen"},
                     len : Nat, sent : Nat, written : Nat, whole : BOOLEAN, good : BOOLEAN]
        /\ peer'.at = a /\ peer'.whole = peer.whole /\ peer'.good = peer.good
        /\ peer'.sent = peer.sent + 1 /\ peer'.len = peer.len /\ peer'.written = peer.written
    BY <1>1, <2>1, <2>2, <2>3 DEF BulkTypes
  <2> QED BY <2>4 DEF a
<1>8. BulkTypes'
  BY <1>1, <1>2, <1>5, <1>6, <1>7 DEF BulkTypes
<1>9. Dmas'
  BY <1>2 DEF BulkInv, Dmas, OneDma, FlagIsDma, HeldIsWaited
<1>10. ~Away' /\ Quiet'
  BY <1>7 DEF Away, Quiet
<1>11. CASE msc.at = "lost" \/ Got(FALSE)
  <2>1. ~e.busy /\ msc.at \in {"data", "lost"} /\ (msc.at = "lost" => Waits)
        /\ (msc.at = "data" => Got(FALSE))
    BY <1>1, <1>11 DEF BulkTypes, Phases, CommandPhase, DataPhase, StatusPhase, Waits, Got, Still
  <2>2. Phases'
    BY <1>1, <1>2, <1>5, <1>7, <2>1
      DEF Phases, BulkSides, CommandPhase, DataPhase, StatusPhase, Waits, Got
  <2>20. WrittenRight'
    BY <1>1, <1>5, <1>7, <1>8, <1>9, <1>10, <2>2 DEF BulkInv, WrittenRight
  <2> QED BY <1>7, <1>8, <1>9, <1>10, <2>2, <2>20 DEF BulkInv
<1>12. CASE ~(msc.at = "lost" \/ Got(FALSE))
  <2>1. msc.at = "data" /\ Waits /\ e.busy /\ Come /\ (ByPacket \/ ByDma)
    BY <1>1, <1>12
      DEF BulkTypes, Phases, CommandPhase, DataPhase, StatusPhase, Still, ForDma
  <2>2. Len(mem) \in Nat /\ Len(<<>>) = 0 /\ Len(<<p>>) = 1 /\ Len(Append(mem, l)) = Len(mem) + 1
    BY <1>1, <1>3, <1>16 DEF BulkTypes
  <2>3. p = [full |-> TRUE, n |-> peer.written + Len(mem) + 1] /\ peer.sent = peer.written + Len(mem)
        /\ peer.sent < peer.len
    <3>1. Len(ep.fifo) = 0
      BY <2>2
    <3>2. peer.sent = peer.written + Len(mem)
      BY <1>1, <2>1, <2>2, <3>1 DEF Come, BulkTypes
    <3>3. peer.sent < peer.len
      BY <2>1 DEF Come
    <3> QED BY <1>3, <3>2, <3>3
  <2>4. Len(mem') + Len(ep'.fifo) = Len(mem) + 1
    BY <1>15, <1>5, <2>2
  <2>5. ASSUME ep.out # "unpaced" PROVE Numbered(mem, peer.written)'
    <3>1. Numbered(mem, peer.written)
      BY <2>1, <2>5 DEF Come
    <3>2. Numbered(Append(mem, p), peer.written)
      <4> SUFFICES ASSUME NEW i \in 1 .. Len(mem) + 1
                   PROVE  Append(mem, p)[i] = [full |-> TRUE, n |-> peer.written + i]
        BY <2>2 DEF Numbered
      <4>1. CASE i = Len(mem) + 1
        <5>1. Append(mem, p)[Len(mem) + 1] = p
          BY <1>1, <1>3 DEF BulkTypes
        <5>2. peer.written + i = peer.written + Len(mem) + 1
          BY <4>1, <1>1, <2>2 DEF BulkTypes
        <5> QED BY <4>1, <5>1, <5>2, <2>3
      <4>2. CASE i # Len(mem) + 1
        <5>1. i \in 1 .. Len(mem)
          BY <4>2, <2>2
        <5>2. Append(mem, p)[i] = mem[i]
          BY <5>1, <1>1, <1>3 DEF BulkTypes
        <5> QED BY <5>1, <5>2, <3>1 DEF Numbered
      <4> QED BY <4>1, <4>2
    <3> QED BY <3>1, <3>2, <2>5, <1>15, <1>16, <1>7
  <2>6. Come'
    <3>1. peer'.len = peer'.written + e'.len + msc'.left
      BY <1>2, <1>7, <2>1 DEF Come
    <3>2. /\ peer'.sent = peer'.written + Len(mem') + Len(ep'.fifo) /\ peer'.sent <= peer'.len
          /\ peer'.at = IF peer'.sent < peer'.len THEN "data" ELSE "status"
      <4>1. peer.written \in Nat /\ peer.len \in Nat /\ Len(mem') \in Nat /\ Len(ep'.fifo) \in Nat
        BY <1>1, <1>6, <1>5 DEF BulkTypes, ControllerType
      <4>2. /\ peer'.sent = peer.sent + 1 /\ peer'.written = peer.written /\ peer'.len = peer.len
            /\ peer'.at = IF peer.sent + 1 = peer.len THEN "status" ELSE "data"
        BY <1>7
      <4>3. peer'.sent = peer'.written + Len(mem') + Len(ep'.fifo)
        BY <4>1, <4>2, <2>3, <2>4, <2>2, SMTT(20)
      <4>4. peer.sent + 1 \in Nat /\ peer.sent + 1 <= peer.len
        BY <4>1, <1>1, <2>3 DEF BulkTypes
      <4>5. peer.sent + 1 = peer.len <=> ~(peer.sent + 1 < peer.len)
        BY ONLY <4>1, <4>4
      <4> QED BY <4>2, <4>3, <4>4, <4>5
    <3>3. ep'.fifo = <<>> \/ ep'.fifo = <<[full |-> TRUE, n |-> peer'.written + Len(mem') + 1]>>
      BY <1>15, <1>5, <1>7, <2>3
    <3> QED BY <3>1, <3>2, <3>3, <2>5, <1>5 DEF Come
  <2>10. BulkSides'
    BY <1>1, <1>2, <1>5, <1>7, <2>1 DEF Phases, BulkSides
  <2>7. ASSUME ByPacket PROVE Phases'
    <3>1. ~drains
      BY <1>4, <2>7 DEF ByPacket
    <3>2. ep'.fifo # <<>>
      BY <1>5, <3>1, <2>2
    <3>3. ep.count = 0 /\ ended
      BY <1>4, <2>7, <2>2 DEF ByPacket
    <3>4. ByPacket'
      BY <1>2, <1>15, <1>5, <2>7, <3>1, <3>2, <3>3, <2>2 DEF ByPacket
    <3>5. DataPhase' /\ Waits'
      BY <1>2, <1>7, <2>1, <2>6, <3>4 DEF DataPhase, Waits
    <3> QED BY <1>2, <2>1, <2>10, <3>5 DEF Phases, CommandPhase, StatusPhase
  <2>8. ASSUME ByDma PROVE Phases'
    <3>1. e.dma /\ (drains <=> ep.out # "stuck")
      BY <1>1, <1>4, <2>8 DEF ByDma, BulkTypes, EndpointType, ControllerType
    <3>2. ep.count < ep.size /\ ep.count = Len(mem) - e.base
      BY <1>1, <2>8, <2>2 DEF ByDma, BulkTypes, EndpointType, ControllerType
    <3>3. /\ ep'.count = Len(mem') + Len(ep'.fifo) - e.base /\ ep'.count <= ep'.size
      <4>1. Len(mem') \in Nat /\ Len(ep'.fifo) \in Nat /\ e.base \in Nat /\ ep.size \in Nat
        BY <1>1, <1>5, <1>6 DEF BulkTypes, EndpointType, ControllerType
      <4> QED BY <4>1, <1>5, <2>2, <2>4, <3>2, SMTT(20)
    <3>4. IF ep'.out # "stuck" THEN ep'.fifo = <<>> ELSE Len(mem') = e.base
      BY <1>15, <1>5, <3>1, <2>8 DEF ByDma
    <3>5. ep.count \in Nat /\ ep.size \in Nat
      BY <1>1 DEF BulkTypes, ControllerType
    <3>6. ended <=> ep'.count = ep'.size
      BY <1>4, <1>5, <3>2, <3>5
    <3>7. (ep'.rx <=> ep'.count < ep'.size) /\ ("done" \in ep'.sts <=> ep'.count = ep'.size)
      <4>1. "done" \notin ep.sts
        BY <2>8, <3>2, <3>5 DEF ByDma
      <4> QED BY <1>4, <1>5, <3>2, <3>5, <3>6, <4>1
    <3>8. ByDma'
      BY <1>2, <1>5, <2>8, <3>3, <3>4, <3>7 DEF ByDma
    <3>9. DataPhase' /\ Waits'
      BY <1>2, <1>7, <2>1, <2>6, <3>8 DEF DataPhase, Waits
    <3> QED BY <1>2, <2>1, <2>10, <3>9 DEF Phases, CommandPhase, StatusPhase
  <2>9. Phases'
    BY <2>1, <2>7, <2>8
  <2>20. WrittenRight'
    BY <1>1, <1>5, <1>7, <1>8, <1>9, <1>10, <2>9 DEF BulkInv, WrittenRight
  <2> QED BY <1>7, <1>8, <1>9, <1>10, <2>9, <2>20 DEF BulkInv
<1> QED BY <1>11, <1>12

LEMMA HostSendsKeeps == ASSUME BulkInv, HostSends PROVE BulkInv'
<1>1. peer.at \in {"cbw", "data"} /\ UNCHANGED <<e, both, sd, msc>>
  BY DEF HostSends
<1>2. CASE ~ep.rx \/ ep.fifo # <<>>
  <2>1. ep' = [ep EXCEPT !.sts = @ \cup {"token"}] /\ UNCHANGED <<mem, peer>>
    BY <1>2 DEF HostSends
  <2> QED BY <1>1, <2>1, RefusedKeeps
<1> QED BY <1>1, <1>2, CommandArrives, PacketArrives

\* The steps of the endpoint's interrupt: a status that was read, the latched events
\* taken, and a token.
IrqAfterIn == IF ep.sent THEN InDone([Bulk EXCEPT !.ep.sent = FALSE]) ELSE Bulk
IrqTaken ==
  IF "done" \in ep.sts \/ ("token" \in ep.sts /\ ep.token)
  THEN [IrqAfterIn EXCEPT !.ep.sts = {}] ELSE IrqAfterIn
IrqToken == IF "token" \in ep.sts /\ ep.token THEN Token(IrqTaken) ELSE IrqTaken

Record(d) == DOMAIN d = {"e", "ep", "mem", "both", "watch", "msc"}

\* d is the state but for what the interrupt has acknowledged.
Acknowledged(d) ==
  /\ Record(d) /\ d.mem = mem /\ d.both = both
  /\ d.e \in EndpointType /\ d.ep \in ControllerType
  /\ d.e.busy = e.busy /\ d.e.armed = e.armed /\ d.e.next = e.next /\ d.e.wait = e.wait
  /\ d.e.dma = e.dma /\ d.e.len = e.len /\ d.e.done = e.done /\ d.e.base = e.base
  /\ d.ep.rx = ep.rx /\ d.ep.size = ep.size /\ d.ep.count = ep.count /\ d.ep.fifo = ep.fifo
  /\ d.ep.tx = ep.tx /\ d.ep.out = ep.out

LEMMA TakenIs ==
  ASSUME BulkTypes, ep.sent => e.sends
  PROVE  /\ Acknowledged(IrqTaken) /\ ~IrqTaken.ep.sent
         /\ IF ep.sent THEN ~IrqTaken.e.sends /\ IrqTaken.msc = [msc EXCEPT !.event = [of |-> "in", ok |-> TRUE]]
            ELSE IrqTaken.e.sends = e.sends /\ IrqTaken.msc = msc
         /\ IF "done" \in ep.sts \/ ("token" \in ep.sts /\ ep.token) THEN IrqTaken.ep.sts = {}
            ELSE IrqTaken.ep.sts = ep.sts
<1> DEFINE i == IrqAfterIn
<1>1. /\ Acknowledged(i) /\ ~i.ep.sent /\ i.ep.sts = ep.sts
      /\ IF ep.sent THEN ~i.e.sends /\ i.msc = [msc EXCEPT !.event = [of |-> "in", ok |-> TRUE]]
         ELSE i.e.sends = e.sends /\ i.msc = msc
  <2>1. CASE ep.sent
    <3> DEFINE d == [Bulk EXCEPT !.ep.sent = FALSE]
    <3>1. /\ Record(d) /\ d.e = e /\ d.ep = [ep EXCEPT !.sent = FALSE] /\ d.mem = mem
          /\ d.both = both /\ d.msc = msc
      BY DEF Bulk, Record
    <3>2. i = InDone(d)
      BY <2>1 DEF IrqAfterIn
    <3> HIDE DEF d, i
    <3>3. i = [d EXCEPT !.e.sends = FALSE, !.msc.event = [of |-> "in", ok |-> TRUE]]
      BY <3>1, <3>2, <2>1 DEF InDone
    <3>4. /\ Record(i) /\ i.e = [e EXCEPT !.sends = FALSE] /\ i.ep = [ep EXCEPT !.sent = FALSE]
          /\ i.mem = mem /\ i.both = both /\ i.msc = [msc EXCEPT !.event = [of |-> "in", ok |-> TRUE]]
      BY <3>1, <3>3 DEF Record
    <3>5. Acknowledged(i) /\ ~i.ep.sent /\ i.ep.sts = ep.sts /\ ~i.e.sends
      BY <3>4 DEF Acknowledged, BulkTypes, EndpointType, ControllerType
    <3> QED BY <2>1, <3>4, <3>5
  <2>2. CASE ~ep.sent
    <3>1. Record(i) /\ i.e = e /\ i.ep = ep /\ i.mem = mem /\ i.both = both /\ i.msc = msc
      BY <2>2 DEF IrqAfterIn, Bulk, Record
    <3> HIDE DEF i
    <3> QED BY <2>2, <3>1 DEF Acknowledged, BulkTypes
  <2> QED BY <2>1, <2>2
<1>2. CASE "done" \in ep.sts \/ ("token" \in ep.sts /\ ep.token)
  <2>1. IrqTaken = [i EXCEPT !.ep.sts = {}]
    BY <1>2 DEF IrqTaken
  <2> HIDE DEF i
  <2>2. /\ Record(IrqTaken) /\ IrqTaken.e = i.e /\ IrqTaken.ep = [i.ep EXCEPT !.sts = {}]
        /\ IrqTaken.mem = i.mem /\ IrqTaken.both = i.both /\ IrqTaken.msc = i.msc
    BY <1>1, <2>1 DEF Record, Acknowledged
  <2>3. Acknowledged(IrqTaken) /\ ~IrqTaken.ep.sent /\ IrqTaken.ep.sts = {}
    BY <1>1, <2>2 DEF Acknowledged, ControllerType
  <2> QED BY <1>1, <1>2, <2>2, <2>3
<1>3. CASE ~("done" \in ep.sts \/ ("token" \in ep.sts /\ ep.token))
  <2>1. IrqTaken = i
    BY <1>3 DEF IrqTaken
  <2> QED BY <1>1, <1>3, <2>1
<1> QED BY <1>2, <1>3

\* A token of an endpoint whose receive does not wait is turned off.
LEMMA TokenUnwanted ==
  ASSUME BulkTypes, ep.sent => e.sends, ~e.wait \/ both.kick
  PROVE  /\ Acknowledged(IrqToken) /\ IrqToken.ep.sent = IrqTaken.ep.sent
         /\ IrqToken.e.sends = IrqTaken.e.sends /\ IrqToken.msc = IrqTaken.msc
         /\ IrqToken.ep.sts = IrqTaken.ep.sts
<1> DEFINE c == IrqTaken
           t == IrqToken
<1>1. Acknowledged(c)
  BY TakenIs
<1>2. CASE "token" \in ep.sts /\ ep.token
  <2>1. t = Token(c)
    BY <1>2 DEF IrqToken
  <2> HIDE DEF c, t
  <2>2. ~c.e.wait \/ c.both.kick
    BY <1>1 DEF Acknowledged
  <2>3. t = [c EXCEPT !.ep.token = FALSE]
    BY <2>1, <2>2 DEF Token
  <2>4. /\ Record(t) /\ t.e = c.e /\ t.ep = [c.ep EXCEPT !.token = FALSE]
        /\ t.mem = c.mem /\ t.both = c.both /\ t.msc = c.msc
    BY <1>1, <2>3 DEF Record, Acknowledged
  <2>5. Acknowledged(t) /\ t.ep.sent = c.ep.sent /\ t.ep.sts = c.ep.sts
    BY <1>1, <2>4 DEF Acknowledged, ControllerType
  <2> QED BY <2>4, <2>5 DEF c, t
<1>3. CASE ~("token" \in ep.sts /\ ep.token)
  <2>1. t = c
    BY <1>3 DEF IrqToken
  <2> QED BY <1>1, <2>1
<1> QED BY <1>2, <1>3

LEMMA IrqIs ==
  ASSUME BulkIrq
  PROVE  /\ Becomes2(IF "done" \in ep.sts THEN OutDone(IrqToken) ELSE IrqToken)
         /\ sd' = sd /\ peer' = peer
         /\ ep.sent \/ "done" \in ep.sts \/ ("token" \in ep.sts /\ ep.token)
BY DEF BulkIrq, IrqToken, IrqTaken, IrqAfterIn

LEMMA IrqStatusKeeps == ASSUME BulkInv, BulkIrq, ep.sent PROVE BulkInv'
<1>1. BulkTypes /\ WrittenRight /\ ~Away
  BY DEF BulkInv, Quiet
<1>2. Phases
  BY <1>1 DEF BulkInv
<1>3. /\ msc.at = "status" /\ Still /\ ep.fifo = <<>> /\ e.sends /\ ~ep.tx
      /\ peer.at \in {"idle", "cbw"} /\ ~e.wait
  BY <1>2 DEF BulkInv, Dmas, Phases, BulkSides, StatusPhase, Still
<1>4. /\ Acknowledged(IrqToken) /\ ~IrqToken.ep.sent /\ ~IrqToken.e.sends
      /\ IrqToken.msc = [msc EXCEPT !.event = [of |-> "in", ok |-> TRUE]]
      /\ "done" \notin IrqToken.ep.sts
  BY <1>1, <1>3, TakenIs, TokenUnwanted DEF Still
<1>5. Becomes2(IrqToken) /\ sd' = sd /\ peer' = peer
  BY <1>3, IrqIs DEF Still
<1>6. /\ e' \in EndpointType /\ ep' \in ControllerType /\ mem' = mem /\ both' = both
      /\ e'.busy = e.busy /\ e'.armed = e.armed /\ e'.wait = e.wait /\ e'.dma = e.dma
      /\ e'.len = e.len /\ e'.done = e.done
      /\ ~e'.sends /\ ep'.out = ep.out /\ ep'.rx = ep.rx /\ ep'.fifo = ep.fifo /\ ep'.tx = ep.tx /\ ~ep'.sent
      /\ "done" \notin ep'.sts
      /\ msc' = [msc EXCEPT !.event = [of |-> "in", ok |-> TRUE]]
  BY <1>4, <1>5 DEF Acknowledged, Becomes2
<1>7. msc'.at = msc.at /\ msc'.event.of = "in" /\ BulkTypes'
  BY <1>1, <1>5, <1>6 DEF BulkTypes, EventType
<1>8. Dmas'
  BY <1>5, <1>6 DEF BulkInv, Dmas, OneDma, FlagIsDma, HeldIsWaited
<1>9. Phases'
  BY <1>2, <1>3, <1>5, <1>6, <1>7 DEF Phases, BulkSides, CommandPhase, DataPhase, StatusPhase, Still
<1>20. WrittenRight'
  BY <1>1, <1>3, <1>5, <1>6, <1>7, <1>8, <1>9 DEF BulkInv, WrittenRight
<1> QED BY <1>1, <1>3, <1>5, <1>7, <1>8, <1>9, <1>20 DEF BulkInv, Quiet, Away

LEMMA IrqTokenKeeps == ASSUME BulkInv, BulkIrq, ~ep.sent, "done" \notin ep.sts PROVE BulkInv'
<1>1. BulkTypes /\ WrittenRight /\ ~Away
  BY IrqIs DEF BulkInv, Quiet
<1>2. Phases
  BY <1>1 DEF BulkInv
<1>3. Becomes2(IrqToken) /\ sd' = sd /\ peer' = peer /\ "token" \in ep.sts /\ ep.token
  BY IrqIs
<1>4. /\ Acknowledged(IrqTaken) /\ ~IrqTaken.ep.sent /\ IrqTaken.e.sends = e.sends
      /\ IrqTaken.msc = msc /\ IrqTaken.ep.sts = {}
  BY <1>1, <1>3, TakenIs
<1>5. IrqToken = Token(IrqTaken)
  BY <1>3 DEF IrqToken
<1> DEFINE c == IrqTaken
<1>6. Record(c) /\ c.both = both /\ c.e.wait = e.wait /\ c.e.busy = e.busy
  BY <1>4 DEF Acknowledged
<1>7. CASE ~e.wait \/ both.kick \/ both.busy
  <2>1. /\ Acknowledged(c) /\ ~c.ep.sent /\ c.e.sends = e.sends /\ c.msc = msc /\ c.ep.sts = {}
    BY <1>4
  <2>2. Becomes2(Token(c))
    BY <1>3, <1>5
  <2> HIDE DEF c
  <2>3. /\ e' = c.e /\ ep' = [c.ep EXCEPT !.token = FALSE] /\ mem' = c.mem /\ msc' = c.msc
        /\ both' = IF ~e.wait \/ ~e.busy \/ both.kick THEN both ELSE [both EXCEPT !.kick = TRUE]
    BY <1>6, <1>7, <2>2 DEF Token, Held, Becomes2, Record
  <2>4. /\ e' \in EndpointType /\ ep' \in ControllerType /\ mem' = mem /\ msc' = msc
        /\ e'.busy = e.busy /\ e'.armed = e.armed /\ e'.wait = e.wait
        /\ e'.dma = e.dma /\ e'.len = e.len /\ e'.done = e.done /\ e'.base = e.base
        /\ ep'.rx = ep.rx /\ ep'.size = ep.size /\ ep'.count = ep.count /\ ep'.fifo = ep.fifo
        /\ ep'.tx = ep.tx /\ ep'.out = ep.out
        /\ e'.sends = e.sends /\ ~ep'.sent /\ ep'.sts = {}
    BY <2>1, <2>3 DEF Acknowledged, ControllerType
  <2>5. /\ both' \in BothType /\ both'.out = both.out /\ both'.busy = both.busy
        /\ both'.gave_up = both.gave_up
        /\ both'.kick => both.kick \/ (e.wait /\ e.busy /\ both.busy)
    BY <1>1, <1>7, <2>3 DEF BulkTypes, BothType
  <2>6. BulkTypes'
    BY <1>1, <1>3, <2>4, <2>5 DEF BulkTypes
  <2>7. Dmas'
    BY <1>1, <1>3, <2>4, <2>5 DEF BulkTypes, BothType, EndpointType, BulkInv, Dmas, OneDma, FlagIsDma, HeldIsWaited
  <2>8. Phases'
    BY <1>2, <1>3, <2>4 DEF Phases, BulkSides, CommandPhase, DataPhase, StatusPhase, Waits, Got, Still, Come,
       Numbered, ByPacket, ForDma, ByDma
  <2>20. WrittenRight'
    BY <1>1, <1>3, <2>4, <2>6, <2>7, <2>8 DEF BulkInv, WrittenRight
  <2> QED BY <1>1, <1>3, <2>6, <2>7, <2>8, <2>20 DEF BulkInv, Quiet, Away
<1>8. CASE ~(~e.wait \/ both.kick \/ both.busy)
  <2>1. /\ e.wait /\ ~both.kick /\ ~both.busy /\ e.busy /\ ~e.armed /\ e.done <= e.len
        /\ sd # "run"
    BY <1>8, <1>1 DEF BulkInv, BulkTypes, BothType, Dmas, FlagIsDma
  <2>2. Becomes2(Token(c))
    BY <1>3, <1>5
  <2>3. /\ c.e \in EndpointType /\ c.ep \in ControllerType /\ c.both \in BothType
        /\ c.e.done <= c.e.len /\ DOMAIN c = {"e", "ep", "mem", "both", "watch", "msc"}
    BY <1>1, <1>4, <2>1 DEF Acknowledged, Record, BulkTypes
  <2> HIDE DEF c
  <2>4. Becomes2(dma_start_out(c))
    BY <1>6, <2>1, <2>2 DEF Token, Held
  <2>5. /\ e' \in EndpointType /\ ep' \in ControllerType
        /\ both' \in BothType
        /\ e'.busy = c.e.busy /\ e'.armed /\ e'.dma /\ ~e'.wait /\ e'.len = c.e.len
        /\ e'.done = c.e.done /\ e'.base = c.e.done /\ e'.sends = c.e.sends
        /\ ep'.rx /\ ep'.size = c.e.len - c.e.done /\ ep'.count = 0 /\ ep'.fifo = c.ep.fifo
        /\ ep'.sts = {} /\ ep'.tx = c.ep.tx /\ ep'.sent = c.ep.sent /\ ep'.out = c.ep.out
        /\ mem' = c.mem /\ msc' = c.msc
        /\ both'.out /\ both'.busy = c.both.busy /\ both'.kick = c.both.kick
        /\ both'.gave_up = c.both.gave_up
    BY <2>3, <2>4, DmaStartIs
  <2>6. /\ e'.busy = e.busy /\ e'.len = e.len /\ e'.done = e.done /\ e'.base = e.done
        /\ e'.sends = e.sends /\ ep'.size = e.len - e.done /\ ep'.fifo = ep.fifo
        /\ ep'.tx = ep.tx /\ ~ep'.sent /\ ep'.out = ep.out /\ mem' = mem /\ msc' = msc
        /\ both'.busy = both.busy /\ both'.kick = both.kick
    BY <1>4, <2>5 DEF Acknowledged, c
  <2>7. BulkTypes'
    BY <1>1, <1>3, <2>5, <2>6 DEF BulkTypes
  <2>8. Dmas'
    BY <1>3, <2>1, <2>5, <2>6 DEF BulkInv, Dmas, OneDma, FlagIsDma, HeldIsWaited, EndpointType, BothType
  <2>9. msc.at = "data" /\ Waits /\ Come /\ ForDma /\ peer.at \in {"data", "status"}
    BY <1>1, <1>2, <2>1 DEF Phases, CommandPhase, DataPhase, StatusPhase, Still, ByPacket, ByDma,
            Dmas, BulkInv, BulkTypes
  <2>10. Waits' /\ Come'
    BY <1>3, <2>6, <2>9 DEF Waits, Come, Numbered
  <2>11. ByDma'
    BY <1>1, <2>5, <2>6, <2>9, RbBulkAssumption DEF ForDma, ByDma, EndpointType, BulkTypes
  <2>12. DataPhase'
    BY <1>3, <2>1, <2>6, <2>9, <2>10, <2>11 DEF DataPhase
  <2>13. BulkSides'
    BY <1>2, <1>3, <2>6, <2>9 DEF Phases, BulkSides
  <2>14. Phases'
    BY <2>6, <2>9, <2>12, <2>13 DEF Phases, CommandPhase, StatusPhase
  <2>20. WrittenRight'
    BY <1>1, <1>3, <2>6, <2>7, <2>8, <2>14 DEF BulkInv, WrittenRight
  <2> QED BY <1>1, <1>3, <2>7, <2>8, <2>14, <2>20 DEF BulkInv, Quiet, Away
<1> QED BY <1>7, <1>8

\* The end of a receive by DMA that was counted to its full length.
LEMMA DmaDoneIs ==
  ASSUME NEW d, Record(d), d.e \in EndpointType, d.ep \in ControllerType, d.both \in BothType,
         d.e.busy, d.e.armed, d.e.dma, d.ep.count = d.e.len - d.e.base, Becomes2(OutDone(d))
  PROVE  /\ e' \in EndpointType /\ ~e'.busy /\ ~e'.dma /\ e'.wait = d.e.wait
         /\ e'.len = d.e.len /\ e'.sends = d.e.sends
         /\ ep' = d.ep /\ mem' = d.mem /\ msc' = [d.msc EXCEPT !.event = [of |-> "out", ok |-> TRUE]]
         /\ both' \in BothType /\ ~both'.out /\ both'.kick = d.both.kick /\ both'.busy = d.both.busy
<1> DEFINE s == dma_stop(d)
           t == [s EXCEPT !.e.armed = FALSE]
           u == [t EXCEPT !.e.done = d.e.len]
<1>1. Becomes2(complete(u, TRUE))
  <2>1. OutDone(d) = dma_out_done(d)
    BY DEF OutDone
  <2>2. dma_out_done(d) = complete(u, TRUE)
    BY DEF dma_out_done
  <2> QED BY <2>1, <2>2
<1>2. /\ Record(s) /\ s.e = [d.e EXCEPT !.dma = FALSE] /\ s.ep = d.ep /\ s.mem = d.mem
      /\ s.both = [d.both EXCEPT !.out = FALSE] /\ s.msc = d.msc
  BY DEF dma_stop, Record
<1> HIDE DEF s
<1>3. /\ Record(t) /\ t.e = [s.e EXCEPT !.armed = FALSE] /\ t.ep = d.ep /\ t.mem = d.mem
      /\ t.both = s.both /\ t.msc = d.msc
  BY <1>2 DEF Record
<1> HIDE DEF t
<1>4. /\ Record(u) /\ u.e = [t.e EXCEPT !.done = d.e.len] /\ u.ep = d.ep /\ u.mem = d.mem
      /\ u.both = s.both /\ u.msc = d.msc
  BY <1>3 DEF Record
<1> HIDE DEF u
<1>5. /\ e' = [u.e EXCEPT !.busy = FALSE] /\ ep' = d.ep /\ mem' = d.mem /\ both' = s.both
      /\ msc' = [d.msc EXCEPT !.event = [of |-> "out", ok |-> TRUE]]
  BY <1>1, <1>4 DEF Becomes2, complete, Record
<1>6. /\ s.e \in EndpointType /\ ~s.e.dma /\ s.e.wait = d.e.wait /\ s.e.len = d.e.len
      /\ s.e.sends = d.e.sends
  BY <1>2 DEF EndpointType
<1>7. /\ t.e \in EndpointType /\ ~t.e.dma /\ t.e.wait = d.e.wait /\ t.e.len = d.e.len
      /\ t.e.sends = d.e.sends
  BY <1>3, <1>6 DEF EndpointType
<1>8. /\ u.e \in EndpointType /\ ~u.e.dma /\ u.e.wait = d.e.wait /\ u.e.len = d.e.len
      /\ u.e.sends = d.e.sends
  BY <1>4, <1>7 DEF EndpointType
<1>9. /\ e' \in EndpointType /\ ~e'.busy /\ ~e'.dma /\ e'.wait = d.e.wait
      /\ e'.len = d.e.len /\ e'.sends = d.e.sends
  BY <1>5, <1>8 DEF EndpointType
<1>10. both' \in BothType /\ ~both'.out /\ both'.kick = d.both.kick /\ both'.busy = d.both.busy
  BY <1>2, <1>5 DEF BothType
<1> QED BY <1>5, <1>9, <1>10

\* The end of a receive of one packet: the last or a short one completes, the rest of
\* a long one waits for the DMA, anything else is armed again.
PacketDone(d, full, done) ==
  /\ e' \in EndpointType /\ ep' \in ControllerType /\ mem' \in Seq(PacketType)
  /\ e'.done = done /\ e'.len = d.e.len /\ ~e'.dma /\ e'.sends = d.e.sends
  /\ ep'.fifo = <<>> /\ ep'.tx = d.ep.tx /\ ep'.sent = d.ep.sent /\ ep'.out = d.ep.out
  /\ mem' = d.mem \o d.ep.fifo /\ both' = d.both
  /\ \/ /\ ~(full /\ d.e.len - done > 0) /\ ~e'.busy /\ e'.wait = d.e.wait
        /\ ep'.rx = d.ep.rx /\ ep'.sts = d.ep.sts
        /\ msc' = [d.msc EXCEPT !.event = [of |-> "out", ok |-> TRUE]]
     \/ /\ full /\ d.e.len - done >= DmaMin /\ e'.busy /\ ~e'.armed /\ e'.wait
        /\ ep'.rx = d.ep.rx /\ ep'.sts = d.ep.sts \ {"token"} /\ msc' = d.msc
     \/ /\ full /\ d.e.len - done > 0 /\ e'.busy /\ e'.armed /\ e'.wait = d.e.wait
        /\ ep'.rx /\ ep'.size = 1 /\ ep'.count = 0 /\ ep'.sts = d.ep.sts /\ msc' = d.msc

LEMMA PacketDoneIs ==
  ASSUME NEW d, Record(d), d.e \in EndpointType, d.ep \in ControllerType, d.both \in BothType,
         d.mem \in Seq(PacketType),
         d.e.busy, d.e.armed, ~d.e.dma, Becomes2(OutDone(d)),
         NEW full, full = (Len(d.ep.fifo) = 1 /\ d.ep.fifo[1].full), full \in BOOLEAN,
         NEW done \in Nat, done = (IF full THEN d.e.done + 1 ELSE d.e.done)
  PROVE  PacketDone(d, full, done)
<1> USE DEF PacketDone
<1> DEFINE t == [d EXCEPT !.e.armed = FALSE, !.e.done = done,
                          !.mem = @ \o d.ep.fifo, !.ep.fifo = <<>>]
           rest == t.e.len - t.e.done
           dma == d.e.next /\ ~d.both.broken /\ rest >= DmaMin
           again == [t EXCEPT !.e.next = FALSE]
<1>1. /\ Record(t) /\ t.e = [d.e EXCEPT !.armed = FALSE, !.done = done]
      /\ t.ep = [d.ep EXCEPT !.fifo = <<>>] /\ t.mem = d.mem \o d.ep.fifo
      /\ t.both = d.both /\ t.msc = d.msc
  BY DEF Record
<1>2. Becomes2(IF ~(full /\ rest > 0) THEN complete(again, TRUE)
               ELSE IF dma THEN dma_wait_out(again)
               ELSE [again EXCEPT !.e.armed = TRUE, !.ep.rx = TRUE, !.ep.size = 1, !.ep.count = 0])
  <2> DEFINE f == Len(d.ep.fifo) = 1 /\ d.ep.fifo[1].full
             t1 == [d EXCEPT !.e.armed = FALSE, !.e.done = IF f THEN @ + 1 ELSE @,
                             !.mem = @ \o d.ep.fifo, !.ep.fifo = <<>>]
  <2>1. t1 = t
    <3>1. (IF f THEN d.e.done + 1 ELSE d.e.done) = done
      OBVIOUS
    <3> QED BY <3>1
  <2> HIDE DEF t
  <2>2. OutDone(d) = IF ~(f /\ t1.e.len - t1.e.done > 0) THEN complete([t1 EXCEPT !.e.next = FALSE], TRUE)
               ELSE IF d.e.next /\ ~d.both.broken /\ t1.e.len - t1.e.done >= DmaMin
               THEN dma_wait_out([t1 EXCEPT !.e.next = FALSE])
               ELSE [[t1 EXCEPT !.e.next = FALSE] EXCEPT !.e.armed = TRUE, !.ep.rx = TRUE, !.ep.size = 1, !.ep.count = 0]
    BY DEF OutDone
  <2>3. f <=> full
    OBVIOUS
  <2> HIDE DEF t1, f
  <2> QED BY <2>1, <2>2, <2>3
<1> HIDE DEF t
<1>3. /\ Record(again) /\ again.e = [t.e EXCEPT !.next = FALSE] /\ again.ep = t.ep
      /\ again.mem = t.mem /\ again.both = t.both /\ again.msc = t.msc
  BY <1>1 DEF Record
<1> HIDE DEF again
<1>4. /\ t.e \in EndpointType /\ ~t.e.armed /\ t.e.done = done /\ t.e.len = d.e.len
      /\ t.e.busy /\ ~t.e.dma /\ t.e.wait = d.e.wait /\ t.e.sends = d.e.sends
  BY <1>1 DEF EndpointType
<1>5. /\ again.e \in EndpointType /\ ~again.e.armed /\ again.e.done = done /\ again.e.len = d.e.len
      /\ again.e.busy /\ ~again.e.dma /\ again.e.wait = d.e.wait /\ again.e.sends = d.e.sends
  BY <1>3, <1>4 DEF EndpointType
<1>6. /\ again.ep \in ControllerType /\ again.ep.fifo = <<>> /\ again.ep.tx = d.ep.tx
      /\ again.ep.sent = d.ep.sent /\ again.ep.out = d.ep.out /\ again.ep.rx = d.ep.rx
      /\ again.ep.sts = d.ep.sts
  <2>1. <<>> \in Seq(PacketType)
    OBVIOUS
  <2>2. again.ep = [d.ep EXCEPT !.fifo = <<>>]
    BY <1>1, <1>3
  <2> QED BY <2>1, <2>2 DEF ControllerType
<1>7. again.mem = d.mem \o d.ep.fifo /\ again.mem \in Seq(PacketType) /\ again.both = d.both
      /\ again.msc = d.msc /\ rest = d.e.len - done
  <2>1. d.ep.fifo \in Seq(PacketType)
    BY DEF ControllerType
  <2> QED BY <1>1, <1>3, <1>4, <2>1
<1> HIDE DEF rest
<1>8. CASE ~(full /\ rest > 0)
  <2>1. Becomes2(complete(again, TRUE))
    BY <1>2, <1>8
  <2>2. /\ e' = [again.e EXCEPT !.busy = FALSE] /\ ep' = again.ep /\ mem' = again.mem
        /\ both' = again.both /\ msc' = [again.msc EXCEPT !.event = [of |-> "out", ok |-> TRUE]]
    BY <1>3, <2>1 DEF Becomes2, complete, Record
  <2>3. /\ e' \in EndpointType /\ ~e'.busy /\ e'.done = done /\ e'.len = d.e.len /\ ~e'.dma
        /\ e'.wait = d.e.wait /\ e'.sends = d.e.sends
    BY <1>5, <2>2 DEF EndpointType
  <2> QED BY <1>6, <1>7, <1>8, <2>2, <2>3
<1>9. CASE full /\ rest > 0 /\ dma
  <2>1. Becomes2(dma_wait_out(again))
    BY <1>2, <1>9
  <2>2. /\ e' = [again.e EXCEPT !.wait = TRUE, !.armed = FALSE] /\ mem' = again.mem
        /\ ep' = [again.ep EXCEPT !.sts = @ \ {"token"}, !.token = TRUE]
        /\ both' = again.both /\ msc' = again.msc
    BY <1>3, <2>1 DEF Becomes2, dma_wait_out, Record
  <2>3. /\ e' \in EndpointType /\ e'.busy /\ e'.done = done /\ e'.len = d.e.len /\ ~e'.dma
        /\ e'.wait /\ ~e'.armed /\ e'.sends = d.e.sends
    BY <1>5, <2>2 DEF EndpointType
  <2>4. /\ ep' \in ControllerType /\ ep'.fifo = <<>> /\ ep'.tx = d.ep.tx
        /\ ep'.sent = d.ep.sent /\ ep'.out = d.ep.out /\ ep'.rx = d.ep.rx
        /\ ep'.sts = d.ep.sts \ {"token"}
    BY <1>6, <2>2 DEF ControllerType
  <2>5. d.e.len - done >= DmaMin
    BY <1>7, <1>9
  <2> QED BY <1>7, <1>9, <2>2, <2>3, <2>4, <2>5
<1>10. CASE full /\ rest > 0 /\ ~dma
  <2>1. Becomes2([again EXCEPT !.e.armed = TRUE, !.ep.rx = TRUE, !.ep.size = 1, !.ep.count = 0])
    BY <1>2, <1>10
  <2>2. /\ e' = [again.e EXCEPT !.armed = TRUE] /\ mem' = again.mem
        /\ ep' = [again.ep EXCEPT !.rx = TRUE, !.size = 1, !.count = 0]
        /\ both' = again.both /\ msc' = again.msc
    BY <1>3, <2>1 DEF Becomes2, Record
  <2>3. /\ e' \in EndpointType /\ e'.busy /\ e'.done = done /\ e'.len = d.e.len /\ ~e'.dma
        /\ e'.wait = d.e.wait /\ e'.armed /\ e'.sends = d.e.sends
    BY <1>5, <2>2 DEF EndpointType
  <2>4. /\ ep' \in ControllerType /\ ep'.fifo = <<>> /\ ep'.tx = d.ep.tx
        /\ ep'.sent = d.ep.sent /\ ep'.out = d.ep.out /\ ep'.rx
        /\ ep'.sts = d.ep.sts /\ ep'.size = 1 /\ ep'.count = 0
    BY <1>6, <2>2 DEF ControllerType
  <2> QED BY <1>7, <1>10, <2>2, <2>3, <2>4
<1> QED BY <1>8, <1>9, <1>10

LEMMA IrqDoneKeeps == ASSUME BulkInv, BulkIrq, ~ep.sent, "done" \in ep.sts PROVE BulkInv'
<1> DEFINE d == IrqToken
<1>1. BulkTypes /\ WrittenRight /\ ~Away
  BY DEF BulkInv, Quiet
<1>2. Phases
  BY <1>1 DEF BulkInv
<1>3. Becomes2(OutDone(d)) /\ sd' = sd /\ peer' = peer
  BY IrqIs
<1>4. ~e.wait
  BY <1>1, <1>2 DEF Phases, CommandPhase, DataPhase, StatusPhase, Still, ByPacket, ForDma, ByDma,
                    BulkInv, Dmas, BulkTypes
<1>5. /\ Acknowledged(d) /\ ~d.ep.sent /\ d.e.sends = e.sends /\ d.msc = msc /\ d.ep.sts = {}
  BY <1>1, <1>4, TakenIs, TokenUnwanted
<1> HIDE DEF d
<1>6. CASE ~(e.busy /\ e.armed)
  <2>1. OutDone(d) = d
    BY <1>5, <1>6 DEF OutDone, Acknowledged
  <2>2. /\ e' \in EndpointType /\ ep' \in ControllerType /\ mem' = mem /\ both' = both /\ msc' = msc
        /\ e'.busy = e.busy /\ e'.armed = e.armed /\ e'.wait = e.wait
        /\ e'.dma = e.dma /\ e'.len = e.len /\ e'.done = e.done /\ e'.base = e.base
        /\ ep'.rx = ep.rx /\ ep'.size = ep.size /\ ep'.count = ep.count /\ ep'.fifo = ep.fifo
        /\ ep'.tx = ep.tx /\ ep'.out = ep.out
        /\ e'.sends = e.sends /\ ~ep'.sent /\ ep'.sts = {}
    BY <1>3, <1>5, <2>1 DEF Acknowledged, Becomes2
  <2>3. BulkTypes'
    BY <1>1, <1>3, <2>2 DEF BulkTypes
  <2>4. Dmas'
    BY <1>3, <2>2 DEF BulkInv, Dmas, OneDma, FlagIsDma, HeldIsWaited
  <2>5. ~e.busy
    BY <1>1, <1>2, <1>6 DEF Phases, CommandPhase, DataPhase, StatusPhase, Still, ByPacket, ForDma, ByDma,
                    BulkInv, Dmas, BulkTypes
  <2>6. Phases'
    BY <1>2, <1>3, <2>2, <2>5 DEF Phases, BulkSides, CommandPhase, DataPhase, StatusPhase, Waits, Got, Still, Come,
       Numbered
  <2>20. WrittenRight'
    BY <1>1, <1>3, <2>2, <2>3, <2>4, <2>6 DEF BulkInv, WrittenRight
  <2> QED BY <1>1, <1>3, <2>3, <2>4, <2>6, <2>20 DEF BulkInv, Quiet, Away
<1>7. CASE e.busy /\ e.armed /\ e.dma
  <2>1. msc.at = "data" /\ Waits /\ Come /\ ByDma /\ peer.at \in {"data", "status"}
    BY <1>1, <1>2, <1>7 DEF Phases, CommandPhase, DataPhase, StatusPhase, Still, ByPacket, ForDma, BulkInv, Dmas, BulkTypes
  <2>2. ep.count = ep.size /\ ep.size = e.len - e.base /\ ~ep.rx
        /\ ep.count = Len(mem) + Len(ep.fifo) - e.base
    BY <1>1, <2>1 DEF ByDma, BulkTypes, EndpointType, ControllerType
  <2>3. /\ e' \in EndpointType /\ ~e'.busy /\ ~e'.dma /\ ~e'.wait
        /\ e'.len = e.len /\ e'.sends = e.sends
        /\ ep' = d.ep /\ mem' = mem /\ msc' = [msc EXCEPT !.event = [of |-> "out", ok |-> TRUE]]
        /\ both' \in BothType /\ ~both'.out /\ both'.kick = both.kick /\ both'.busy = both.busy
    <3>1. d.ep.count = d.e.len - d.e.base
      BY <1>5, <2>2 DEF Acknowledged
    <3>2. d.both \in BothType /\ d.e.wait = e.wait /\ d.e.busy /\ d.e.armed /\ d.e.dma
      BY <1>1, <1>5, <1>7 DEF Acknowledged, BulkTypes
    <3> QED BY <1>3, <1>4, <1>5, <3>1, <3>2, DmaDoneIs DEF Acknowledged
  <2>4. /\ ep' \in ControllerType /\ ep'.rx = ep.rx /\ ep'.fifo = ep.fifo /\ ep'.tx = ep.tx /\ ~ep'.sent
        /\ ep'.sts = {}
    BY <1>5, <2>3 DEF Acknowledged
  <2>5. ep.fifo = <<>> /\ Len(mem) = e.len
    <3>1. Len(mem) \in Nat /\ Len(ep.fifo) \in Nat /\ e.len \in Nat /\ e.base \in Nat
      BY <1>1 DEF BulkTypes, EndpointType, ControllerType
    <3>2. ep.fifo = <<>> => Len(ep.fifo) = 0
      OBVIOUS
    <3>3. Len(ep.fifo) <= 1
      <4> DEFINE r == [full |-> TRUE, n |-> peer.written + Len(mem) + 1]
      <4>1. ep.fifo = <<>> \/ ep.fifo = <<r>>
        BY <2>1 DEF Come
      <4> HIDE DEF r
      <4>2. Len(<<r>>) = 1
        OBVIOUS
      <4>3. Len(ep.fifo) = 0 \/ Len(ep.fifo) = 1
        BY <3>2, <4>1, <4>2, Zenon
      <4> DEFINE n == Len(ep.fifo)
      <4>4. n \in Nat /\ (n = 0 \/ n = 1)
        BY <3>1, <4>3
      <4> HIDE DEF n
      <4>5. n <= 1
        BY <4>4
      <4> QED BY <4>5 DEF n
    <3>4. ep.out # "stuck"
      BY <2>1, <2>2, <3>1, <3>3, RbBulkAssumption DEF ByDma
    <3>5. ep.fifo = <<>>
      BY <2>1, <3>4 DEF ByDma
    <3>6. Len(mem) = e.len
      BY <2>2, <3>1, <3>2, <3>5
    <3> QED BY <3>5, <3>6
  <2>6. /\ msc' \in [at : {"cbw", "data", "last", "status", "lost"}, left : Nat, event : EventType]
        /\ msc'.at = msc.at /\ msc'.left = msc.left /\ Got(TRUE)'
    BY <1>1, <2>3 DEF BulkTypes, EventType, Got
  <2>7. BulkTypes'
    BY <1>1, <1>3, <2>3, <2>4, <2>6 DEF BulkTypes
  <2>8. Dmas'
    BY <1>1, <1>3, <1>4, <2>3 DEF BulkTypes, BothType, EndpointType, BulkInv, Dmas, OneDma, FlagIsDma, HeldIsWaited
  <2>9. Come' /\ Still'
    BY <1>3, <1>5, <2>1, <2>2, <2>3, <2>4, <2>6 DEF Come, Numbered, Still, Acknowledged
  <2>10. Phases'
    BY <1>2, <1>3, <2>1, <2>3, <2>4, <2>5, <2>6, <2>9
      DEF Phases, BulkSides, CommandPhase, DataPhase, StatusPhase
  <2>20. WrittenRight'
    BY <1>1, <1>3, <1>5, <2>3, <2>7, <2>8, <2>10 DEF BulkInv, WrittenRight, Acknowledged
  <2> QED BY <1>1, <1>3, <2>7, <2>8, <2>10, <2>20 DEF BulkInv, Quiet, Away
<1>8. CASE e.busy /\ e.armed /\ ~e.dma
  <2> DEFINE full == Len(ep.fifo) = 1 /\ ep.fifo[1].full
             done == IF full THEN e.done + 1 ELSE e.done
  <2>1. \/ /\ msc.at = "cbw" /\ e.done = 0 /\ mem = <<>> /\ peer.at = "data"
           /\ ep.fifo = <<[full |-> FALSE, n |-> 0]>> /\ ~ep.rx
        \/ /\ msc.at = "data" /\ Waits /\ Come /\ ByPacket /\ peer.at \in {"data", "status"}
           /\ ep.fifo = <<[full |-> TRUE, n |-> peer.written + Len(mem) + 1]>> /\ ~ep.rx
    <3>1. CASE msc.at = "cbw"
      BY <1>2, <1>8, <3>1 DEF Phases, CommandPhase, Still
    <3>2. CASE msc.at = "data"
      BY <1>2, <1>4, <1>8, <3>2 DEF Phases, DataPhase, Still, Come, ByPacket, ForDma, ByDma
    <3>3. msc.at \in {"cbw", "data"}
      BY <1>1, <1>2, <1>8 DEF Phases, StatusPhase, Still, BulkTypes
    <3> QED BY <3>1, <3>2, <3>3
  <2>2. full <=> msc.at = "data"
    <3>1. CASE msc.at = "cbw"
      <4>1. ep.fifo[1] = [full |-> FALSE, n |-> 0]
        BY <2>1, <3>1
      <4>2. ~ep.fifo[1].full
        BY <4>1
      <4> QED BY <3>1, <4>2
    <3>2. CASE msc.at = "data"
      <4>3. ep.fifo = <<[full |-> TRUE, n |-> peer.written + Len(mem) + 1]>>
        BY <2>1, <3>2
      <4>1. ep.fifo[1] = [full |-> TRUE, n |-> peer.written + Len(mem) + 1] /\ Len(ep.fifo) = 1
        BY <4>3
      <4>2. ep.fifo[1].full
        BY <4>1
      <4> QED BY <3>2, <4>1, <4>2
    <3> QED BY <2>1, <3>1, <3>2
  <2>3. done = (IF msc.at = "data" THEN e.done + 1 ELSE e.done) /\ done \in Nat
    BY <1>1, <2>2 DEF BulkTypes, EndpointType
  <2>4. /\ Record(d) /\ d.e \in EndpointType /\ d.ep \in ControllerType /\ d.both \in BothType
        /\ d.mem \in Seq(PacketType) /\ d.e.busy /\ d.e.armed /\ ~d.e.dma
        /\ d.mem = mem /\ d.both = both /\ d.ep.fifo = ep.fifo /\ d.e.len = e.len /\ d.ep.rx = ep.rx
        /\ d.e.done = e.done /\ d.ep.tx = ep.tx /\ d.ep.out = ep.out /\ ~d.e.wait
    BY <1>1, <1>4, <1>5, <1>8 DEF Acknowledged, BulkTypes
  <2>5. full = (Len(d.ep.fifo) = 1 /\ d.ep.fifo[1].full) /\ full \in BOOLEAN
        /\ done = (IF full THEN d.e.done + 1 ELSE d.e.done)
    <3>1. full = (Len(d.ep.fifo) = 1 /\ d.ep.fifo[1].full)
      BY <2>4
    <3>2. done = (IF full THEN d.e.done + 1 ELSE d.e.done)
      BY <2>4
    <3>3. full \in BOOLEAN
      <4>1. ep.fifo \in Seq(PacketType)
        BY <1>1 DEF BulkTypes, ControllerType
      <4>2. Len(ep.fifo) = 1 => ep.fifo[1] \in PacketType
        BY <4>1
      <4> QED BY <4>2 DEF PacketType
    <3> QED BY <3>1, <3>2, <3>3
  <2> HIDE DEF full, done
  <2>6. /\ e' \in EndpointType /\ ep' \in ControllerType /\ mem' \in Seq(PacketType)
        /\ e'.done = done /\ e'.len = e.len /\ ~e'.dma /\ e'.sends = e.sends
        /\ ep'.fifo = <<>> /\ ep'.tx = ep.tx /\ ~ep'.sent /\ ep'.out = ep.out
        /\ mem' = mem \o ep.fifo /\ both' = both
        /\ \/ /\ ~(full /\ e.len - done > 0) /\ ~e'.busy /\ ~e'.wait
              /\ ep'.rx = ep.rx /\ ep'.sts = {}
              /\ msc' = [msc EXCEPT !.event = [of |-> "out", ok |-> TRUE]]
           \/ /\ full /\ e.len - done >= DmaMin /\ e'.busy /\ ~e'.armed /\ e'.wait
              /\ ep'.rx = ep.rx /\ ep'.sts = {} /\ msc' = msc
           \/ /\ full /\ e.len - done > 0 /\ e'.busy /\ e'.armed /\ ~e'.wait
              /\ ep'.rx /\ ep'.size = 1 /\ ep'.count = 0 /\ ep'.sts = {} /\ msc' = msc
    <3>1. PacketDone(d, full, done)
      BY <1>3, <2>3, <2>4, <2>5, PacketDoneIs, Zenon
    <3>2. {} \ {"token"} = {}
      OBVIOUS
    <3> QED BY <1>5, <2>4, <3>1, <3>2 DEF PacketDone
  <2>7. /\ msc' \in [at : {"cbw", "data", "last", "status", "lost"}, left : Nat, event : EventType]
        /\ msc'.at = msc.at /\ msc'.left = msc.left
        /\ IF e'.busy THEN msc' = msc ELSE Got(TRUE)'
    <3>1. CASE ~e'.busy
      <4>1. msc' = [msc EXCEPT !.event = [of |-> "out", ok |-> TRUE]]
        BY <2>6, <3>1
      <4> QED BY <1>1, <3>1, <4>1 DEF BulkTypes, EventType, Got
    <3>2. CASE e'.busy
      <4>1. msc' = msc
        BY <2>6, <3>2
      <4> QED BY <1>1, <3>2, <4>1 DEF BulkTypes
    <3> QED BY <3>1, <3>2
  <2>8. BulkTypes'
    BY <1>1, <1>3, <2>6, <2>7 DEF BulkTypes
  <2>9. Dmas'
    <3>1. ~both.kick /\ ~both.out
      BY <1>1, <1>4, <1>8 DEF BulkInv, Dmas, HeldIsWaited, FlagIsDma, BulkTypes, EndpointType, BothType
    <3>2. e'.wait => e'.busy /\ ~e'.armed /\ e'.done <= e'.len
      <4>1. e'.wait => full /\ e.len - done >= DmaMin
        BY <2>6
      <4>2. e'.wait => done <= e.len
        BY <4>1, <2>3, <1>1, RbBulkAssumption DEF BulkTypes, EndpointType
      <4> QED BY <2>6, <4>2
    <3> QED BY <1>1, <1>3, <1>4, <1>8, <2>6, <3>1, <3>2
         DEF BulkTypes, BothType, EndpointType, BulkInv, Dmas, OneDma, FlagIsDma, HeldIsWaited
  <2>10. BulkSides'
    BY <1>2, <1>3, <2>6, <2>7 DEF Phases, BulkSides
  <2>11. CASE msc.at = "cbw"
    <3>1. ~e'.busy /\ ~ep'.rx /\ ep'.sts = {} /\ ep'.fifo = <<>>
      BY <2>1, <2>2, <2>6, <2>11
    <3>2. CommandPhase'
      BY <1>3, <2>1, <2>7, <2>11, <3>1 DEF CommandPhase, Still
    <3>3. Phases'
      BY <2>7, <2>10, <2>11, <3>2 DEF Phases, DataPhase, StatusPhase
    <3>20. WrittenRight'
      BY <1>1, <1>3, <2>6, <2>8, <2>9, <3>3 DEF BulkInv, WrittenRight
    <3> QED BY <1>1, <1>3, <2>8, <2>9, <3>3, <3>20 DEF BulkInv, Quiet, Away
  <2>12. CASE msc.at = "data"
    <3>1. /\ Waits /\ Come /\ ByPacket /\ peer.at \in {"data", "status"} /\ ~ep.rx
          /\ ep.fifo = <<[full |-> TRUE, n |-> peer.written + Len(mem) + 1]>>
      BY <2>1, <2>12
    <3>2. full /\ done = Len(mem) + 1
      BY <2>2, <2>3, <2>12, <3>1 DEF ByPacket
    <3>3. Len(mem) \in Nat /\ Len(mem') = Len(mem) + 1 /\ Len(ep.fifo) = 1 /\ Len(ep'.fifo) = 0
      <4>1. mem \in Seq(PacketType) /\ ep.fifo \in Seq(PacketType)
        BY <1>1 DEF BulkTypes, ControllerType
      <4>2. Len(ep.fifo) = 1 /\ Len(ep'.fifo) = 0
        BY <2>6, <3>1
      <4>3. Len(mem \o ep.fifo) = Len(mem) + Len(ep.fifo) /\ Len(mem) \in Nat
        BY <4>1
      <4> QED BY <2>6, <4>2, <4>3
    <3>4. ASSUME ep.out # "unpaced" PROVE Numbered(mem, peer.written)'
      <4> SUFFICES ASSUME NEW j \in 1 .. Len(mem) + 1
                   PROVE  mem'[j] = [full |-> TRUE, n |-> peer.written + j]
        BY <1>3, <3>3 DEF Numbered
      <4>1. mem \in Seq(PacketType) /\ ep.fifo \in Seq(PacketType) /\ peer.written \in Nat
        BY <1>1 DEF BulkTypes, ControllerType
      <4>2. mem'[j] = IF j <= Len(mem) THEN mem[j] ELSE ep.fifo[j - Len(mem)]
        <5>1. j \in 1 .. Len(mem) + Len(ep.fifo)
          BY <3>3
        <5> QED BY <2>6, <4>1, <5>1, ConcatProperties
      <4>3. CASE j <= Len(mem)
        <5>1. j \in 1 .. Len(mem)
          BY <3>3, <4>3
        <5>2. mem[j] = [full |-> TRUE, n |-> peer.written + j]
          BY <3>1, <3>4, <5>1 DEF Come, Numbered
        <5> QED BY <4>2, <4>3, <5>2
      <4>4. CASE ~(j <= Len(mem))
        <5>1. j - Len(mem) = 1 /\ peer.written + j = peer.written + Len(mem) + 1
          <6>1. j \in Nat /\ j <= Len(mem) + 1 /\ Len(mem) \in Nat
            BY <3>3
          <6>2. j = Len(mem) + 1
            BY <4>4, <6>1
          <6>3. peer.written \in Nat
            BY <4>1
          <6> QED BY <6>1, <6>2, <6>3
        <5>2. ep.fifo[1] = [full |-> TRUE, n |-> peer.written + Len(mem) + 1]
          BY <3>1
        <5> QED BY <4>2, <4>4, <5>1, <5>2
      <4> QED BY <4>3, <4>4
    <3>5. Come'
      <4>1. peer'.sent = peer'.written + Len(mem') + Len(ep'.fifo)
        BY <1>1, <1>3, <3>1, <3>3 DEF Come, BulkTypes
      <4> QED BY <1>3, <2>6, <2>7, <3>1, <3>4, <4>1 DEF Come
    <3>6. e.len \in Nat /\ Len(mem) < e.len
      BY <1>1, <3>1 DEF ByPacket, BulkTypes, EndpointType
    <3>7. CASE ~e'.busy
      <4>1. Len(mem') = e'.len /\ ~ep'.rx /\ ep'.sts = {}
        BY <2>6, <3>1, <3>2, <3>3, <3>6, <3>7
      <4>2. DataPhase'
        BY <1>3, <2>6, <2>7, <3>1, <3>5, <3>7, <4>1 DEF DataPhase, Still
      <4>3. Phases'
        BY <2>7, <2>10, <2>12, <4>2 DEF Phases, CommandPhase, StatusPhase
      <4>20. WrittenRight'
        BY <1>1, <1>3, <2>6, <2>8, <2>9, <4>3 DEF BulkInv, WrittenRight
      <4> QED BY <1>1, <1>3, <2>8, <2>9, <4>3, <4>20 DEF BulkInv, Quiet, Away
    <3>8. CASE e'.busy /\ e'.wait
      <4>1. ForDma'
        BY <2>6, <3>1, <3>2, <3>3, <3>8 DEF ForDma
      <4>2. DataPhase'
        BY <1>3, <2>7, <3>1, <3>5, <3>8, <4>1 DEF DataPhase, Waits
      <4>3. Phases'
        BY <2>7, <2>10, <2>12, <4>2 DEF Phases, CommandPhase, StatusPhase
      <4>20. WrittenRight'
        BY <1>1, <1>3, <2>6, <2>8, <2>9, <4>3 DEF BulkInv, WrittenRight
      <4> QED BY <1>1, <1>3, <2>8, <2>9, <4>3, <4>20 DEF BulkInv, Quiet, Away
    <3>9. CASE e'.busy /\ ~e'.wait
      <4>1. ByPacket'
        BY <2>6, <3>1, <3>2, <3>3, <3>6, <3>9 DEF ByPacket
      <4>2. DataPhase'
        BY <1>3, <2>7, <3>1, <3>5, <3>9, <4>1 DEF DataPhase, Waits
      <4>3. Phases'
        BY <2>7, <2>10, <2>12, <4>2 DEF Phases, CommandPhase, StatusPhase
      <4>20. WrittenRight'
        BY <1>1, <1>3, <2>6, <2>8, <2>9, <4>3 DEF BulkInv, WrittenRight
      <4> QED BY <1>1, <1>3, <2>8, <2>9, <4>3, <4>20 DEF BulkInv, Quiet, Away
    <3> QED BY <3>7, <3>8, <3>9
  <2> QED BY <2>1, <2>11, <2>12
<1> QED BY <1>6, <1>7, <1>8

LEMMA BulkIrqKeeps == ASSUME BulkInv, BulkIrq PROVE BulkInv'
BY IrqStatusKeeps, IrqTokenKeeps, IrqDoneKeeps

LEMMA BulkInit == ASSUME RbInit PROVE BulkInv
<1> DEFINE none == [at |-> "cbw", left |-> 0, event |-> NoEvent]
<1>1. PICK out \in Outs :
        /\ e = [Unused EXCEPT !.busy = TRUE, !.armed = TRUE, !.len = CbwLen, !.done = 0,
                              !.dma = FALSE, !.next = ep.out # "off" /\ ~both.broken /\ CbwLen >= DmaMin]
        /\ ep \in ControllerType /\ ep.rx /\ ep.size = 1 /\ ep.count = 0 /\ ep.fifo = <<>>
        /\ ep.sts = {} /\ ~ep.tx /\ ~ep.sent
        /\ both = [kick |-> FALSE, out |-> FALSE, busy |-> FALSE, broken |-> FALSE, gave_up |-> FALSE]
        /\ mem = <<>> /\ msc = none
  <2> DEFINE S(out) ==
         [e |-> Unused, mem |-> <<>>, msc |-> none,
          ep |-> [on |-> TRUE, rx |-> FALSE, size |-> 0, count |-> 0, fifo |-> <<>>, sts |-> {},
                  token |-> FALSE, tx |-> FALSE, sent |-> FALSE, out |-> out],
          both |-> [kick |-> FALSE, out |-> FALSE, busy |-> FALSE, broken |-> FALSE,
                    gave_up |-> FALSE],
          watch |-> [seen |-> 0, late |-> FALSE]]
  <2>1. PICK out \in Outs :
          LET d == Receives(S(out), CbwLen)
          IN  e = d.e /\ ep = d.ep /\ mem = d.mem /\ both = d.both /\ msc = d.msc
    BY Zenon DEF RbInit
  <2> DEFINE s == S(out)
  <2>2. /\ Record(s) /\ s.e = Unused /\ s.msc = none
        /\ s.ep = [on |-> TRUE, rx |-> FALSE, size |-> 0, count |-> 0, fifo |-> <<>>, sts |-> {},
                   token |-> FALSE, tx |-> FALSE, sent |-> FALSE, out |-> out]
        /\ s.both = [kick |-> FALSE, out |-> FALSE, busy |-> FALSE, broken |-> FALSE,
                     gave_up |-> FALSE]
    BY DEF Record
  <2>3. /\ e = Receives(s, CbwLen).e /\ ep = Receives(s, CbwLen).ep
        /\ mem = Receives(s, CbwLen).mem /\ both = Receives(s, CbwLen).both
        /\ msc = Receives(s, CbwLen).msc
    BY <2>1
  <2> HIDE DEF s
  <2>4. /\ e = [Unused EXCEPT !.busy = TRUE, !.armed = TRUE, !.len = CbwLen, !.done = 0,
                        !.dma = FALSE, !.next = s.ep.out # "off" /\ ~s.both.broken /\ CbwLen >= DmaMin]
        /\ ep = [s.ep EXCEPT !.rx = TRUE, !.size = 1, !.count = 0]
        /\ mem = <<>> /\ both = s.both /\ msc = none
    BY <2>2, <2>3 DEF Receives, Record
  <2>5. /\ ep \in ControllerType /\ ep.rx /\ ep.size = 1 /\ ep.count = 0 /\ ep.fifo = <<>>
        /\ ep.sts = {} /\ ~ep.tx /\ ~ep.sent /\ ep.out = s.ep.out
    <3>1. <<>> \in Seq(PacketType)
      OBVIOUS
    <3>2. s.ep \in ControllerType /\ s.ep.fifo = <<>> /\ s.ep.sts = {} /\ ~s.ep.tx /\ ~s.ep.sent
      BY <2>2, <3>1 DEF ControllerType
    <3> QED BY <2>4, <3>2 DEF ControllerType
  <2>6. both = [kick |-> FALSE, out |-> FALSE, busy |-> FALSE, broken |-> FALSE, gave_up |-> FALSE]
    BY <2>2, <2>4
  <2>7. e = [Unused EXCEPT !.busy = TRUE, !.armed = TRUE, !.len = CbwLen, !.done = 0,
                    !.dma = FALSE, !.next = ep.out # "off" /\ ~both.broken /\ CbwLen >= DmaMin]
    BY <2>4, <2>5
  <2> HIDE DEF none
  <2> QED BY <2>4, <2>5, <2>6, <2>7
<1>2. /\ sd = "idle" /\ peer = [at |-> "idle", len |-> 0, sent |-> 0, written |-> 0, whole |-> TRUE, good |-> TRUE]
  BY DEF RbInit
<1>3. (ep.out # "off" /\ ~both.broken /\ CbwLen >= DmaMin) \in BOOLEAN /\ CbwLen \in Nat
  BY DEF CbwLen
<1>4. /\ e \in EndpointType /\ e.busy /\ e.armed /\ ~e.dma /\ ~e.wait /\ e.len = CbwLen
      /\ e.done = 0 /\ ~e.sends
  BY <1>1, <1>3 DEF Unused, EndpointType
<1>5. <<>> \in Seq(PacketType)
  OBVIOUS
<1>6. ep \in ControllerType /\ mem \in Seq(PacketType) /\ both \in BothType
  BY <1>1, <1>5 DEF ControllerType, BothType
<1>7. msc \in [at : {"cbw", "data", "last", "status", "lost"}, left : Nat, event : EventType]
      /\ msc.at = "cbw" /\ msc.event.of = "none"
  BY <1>1 DEF EventType, NoEvent
<1>8. BulkTypes
  BY <1>2, <1>4, <1>6, <1>7 DEF BulkTypes
<1>9. Dmas
  BY <1>1, <1>2, <1>4 DEF Dmas, OneDma, FlagIsDma, HeldIsWaited, EndpointType
<1>10. Phases
  BY <1>1, <1>2, <1>4, <1>7 DEF Phases, BulkSides, CommandPhase, DataPhase, StatusPhase, Waits
<1> QED BY <1>2, <1>8, <1>9, <1>10 DEF BulkInv, Quiet, Away, WrittenRight

LEMMA BulkStep == ASSUME BulkInv, [RbNext]_rbvars PROVE BulkInv'
<1>1. CASE UNCHANGED rbvars
  <2>1. UNCHANGED <<e, ep, mem, both, sd, msc, peer>>
    BY <1>1 DEF rbvars
  <2>2. BulkTypes' /\ Dmas' /\ WrittenRight'
    BY <2>1 DEF BulkInv, BulkTypes, Dmas, OneDma, FlagIsDma, HeldIsWaited, WrittenRight
  <2> QED BY <2>1, <2>2, PhasesSame DEF BulkInv
<1>2. CASE RbNext
  BY <1>2, BulkIrqKeeps, WatchdogKeeps, BusResetSeenKeeps, SdGoKeeps, SdEndsKeeps, SdIdleKeeps,
     TakesCommandKeeps, TakesChunkKeeps, SendsStatusKeeps, StatusSentKeeps, ReceiveFailedKeeps,
     ReactivatesKeeps, HostWritesKeeps, HostSendsKeeps, HostTakesStatusKeeps, HostResetsKeeps
     DEF RbNext, Msc, HostGivesUp, HostStops
<1> QED BY <1>1, <1>2

\* In Rockbox's mass storage the USB controller's DMA and the SD driver's never run
\* together, unless the SD driver has lost patience; a receive that is held back
\* is waited for on both sides; and what is written to the card is as long as what the
\* host sent, the status coming when all is written, and is what the host sent, in
\* order, unless the build has a DMA that reads the FIFO before a packet has come:
\* whatever the lengths of writes and chunks, and wherever resets and the watchdog
\* come in.
THEOREM WritesAreSafe == RbSpec => []BulkKept
<1>1. RbInit => BulkInv
  BY BulkInit
<1>2. BulkInv /\ [RbNext]_rbvars => BulkInv'
  BY BulkStep
<1>3. BulkInv => BulkKept
  BY DEF BulkInv, Dmas, BulkKept, WrittenRight
<1> QED BY <1>1, <1>2, <1>3, PTL DEF RbSpec
-----------------------------------------------------------------------------
(* Rockbox's PCM *)

RoomLeft == Seq(Nat \ {0})
SnkType  == [running : BOOLEAN, completed : SUBSET Both, eof : BOOLEAN, draining : BOOLEAN,
             left : Nat, given : Nat, from : Nat, units : 0 .. 2]
CapType  == [running : BOOLEAN, next : {0, 1}, size : Nat, last : Nat]
CoreType == [playing : BOOLEAN, more : RoomLeft, room : RoomLeft]

PcmTypes ==
  /\ snk \in SnkType /\ cap \in CapType /\ bank \in [{0, 1} -> Nat]
  /\ depth \in [Sides -> Nat] /\ rline \in BOOLEAN /\ rvbc \subseteq {"on", "play", "rec"}
  /\ rdma \in [Both \cup {"rec"} -> {"off", "busy", "done", "failed"}]
  /\ player \in CoreType
  /\ caller \in [at : {"idle", "locked", "done"}, op : {"start", "stop", "lock"}, side : Sides]
  /\ heard \in [Both -> Nat] /\ got \in [taken : Nat, full : Nat]
  /\ caller.at # "idle" => depth[caller.side] > 0

\* Where each channel is: one that is busy, or failed, has the plane before it; one that
\* has ended has played it, and is not armed again before the other.
Planes ==
  /\ ~snk.running => \A ch \in Both : rdma[ch] = "off"
  /\ snk.running => \A ch \in Both :
       /\ rdma[ch] \in {"busy", "failed"} => heard[ch] = snk.given - snk.units
       /\ rdma[ch] \in {"done", "off"} => heard[ch] = snk.given
       /\ rdma[ch] = "busy" => ch \notin snk.completed
  /\ snk.units > 0 => snk.from = snk.given - snk.units + 1
  /\ snk.running /\ snk.draining => snk.units = 0
  /\ snk.draining => \A ch \in Both : heard[ch] = snk.given

\* A bank that has ended is the one the driver looks at next.
Banks ==
  /\ cap.running /\ rdma["rec"] = "busy" => cap.last = got.full
  /\ rdma["rec"] = "done" => bank[cap.next] = got.full

PcmInv ==
  /\ PcmTypes /\ Planes /\ Banks /\ SharedRight
  /\ player.playing => snk.running

\* What fill_plane() has taken from a driver v0 and a core c0 so far.
Partly(f, v0, c0) ==
  /\ f \in [v : SnkType, c : CoreType]
  /\ f.v.given = v0.given + f.v.units
  /\ f.v.units > 0 => f.v.from = v0.given + 1
  /\ f.v.running = v0.running /\ f.v.completed = v0.completed /\ f.v.draining = v0.draining
  /\ f.c.room = c0.room /\ (f.c.playing => c0.playing)

LEMMA TakePartly ==
  ASSUME NEW v0 \in SnkType, NEW c0 \in CoreType, NEW f, Partly(f, v0, c0)
  PROVE  Partly(TakeOn(f), v0, c0)
<1>1. PICK v \in SnkType, c \in CoreType : v = f.v /\ c = f.c
  BY DEF Partly
<1>2. /\ v.given = v0.given + v.units /\ (v.units > 0 => v.from = v0.given + 1)
      /\ v.running = v0.running /\ v.completed = v0.completed /\ v.draining = v0.draining
      /\ c.room = c0.room /\ (c.playing => c0.playing)
      /\ v.units \in 0 .. 2 /\ v0.given \in Nat /\ v.left \in Nat /\ v.given \in Nat
  BY <1>1 DEF Partly, SnkType
<1>3. TakeOn(f) = Take(v, c)
  BY <1>1 DEF TakeOn
<1>4. SUFFICES Partly(Take(v, c), v0, c0)
  BY <1>3
<1>5. ASSUME NEW w \in SnkType, NEW d \in CoreType, Take(v, c) = [v |-> w, c |-> d],
             w.given = v0.given + w.units, w.units > 0 => w.from = v0.given + 1,
             w.running = v.running, w.completed = v.completed, w.draining = v.draining,
             d.room = c.room, d.playing => c.playing
      PROVE  Partly(Take(v, c), v0, c0)
  BY <1>2, <1>5 DEF Partly
<1>6. CASE v.units = 2 \/ (v.left = 0 /\ v.eof)
  <2>1. Take(v, c) = [v |-> v, c |-> c]
    BY <1>6 DEF Take
  <2>2. QED
    BY <1>2, <1>5, <2>1
<1>7. CASE ~(v.units = 2 \/ (v.left = 0 /\ v.eof)) /\ v.left > 0
  <2> DEFINE w == [v EXCEPT !.left = v.left - 1, !.given = v.given + 1, !.units = v.units + 1,
                            !.from = IF v.units = 0 THEN v.given + 1 ELSE v.from]
  <2>1. Take(v, c) = [v |-> w, c |-> c]
    BY <1>7, ZenonT(30) DEF Take
  <2>2. /\ v.left - 1 \in Nat /\ v.given + 1 \in Nat /\ v.units + 1 \in 0 .. 2
        /\ (IF v.units = 0 THEN v.given + 1 ELSE v.from) \in Nat
    BY <1>2, <1>7 DEF SnkType
  <2>3. /\ w \in SnkType /\ w.units = v.units + 1 /\ w.given = v.given + 1
        /\ w.from = IF v.units = 0 THEN v.given + 1 ELSE v.from
        /\ w.running = v.running /\ w.completed = v.completed /\ w.draining = v.draining
    BY <2>2, ZenonT(30) DEF SnkType
  <2> HIDE DEF w
  <2>4. w.given = v0.given + w.units /\ (w.units > 0 => w.from = v0.given + 1)
    BY <1>2, <2>3
  <2>5. QED
    BY <1>5, <2>1, <2>3, <2>4
<1>8. CASE ~(v.units = 2 \/ (v.left = 0 /\ v.eof)) /\ ~(v.left > 0) /\ c.more = <<>>
  <2> DEFINE w == [v EXCEPT !.eof = TRUE]
             d == [c EXCEPT !.playing = FALSE]
  <2>1. Take(v, c) = [v |-> w, c |-> d]
    BY <1>8, ZenonT(30) DEF Take
  <2>2. /\ w \in SnkType /\ w.units = v.units /\ w.given = v.given /\ w.from = v.from
        /\ w.running = v.running /\ w.completed = v.completed /\ w.draining = v.draining
    BY DEF SnkType
  <2>3. d \in CoreType /\ d.room = c.room /\ d.playing = FALSE
    BY DEF CoreType
  <2> HIDE DEF w, d
  <2>4. QED
    BY <1>2, <1>5, <2>1, <2>2, <2>3
<1>9. CASE ~(v.units = 2 \/ (v.left = 0 /\ v.eof)) /\ ~(v.left > 0) /\ c.more # <<>>
  <2> DEFINE w == [v EXCEPT !.left = Head(c.more)]
             d == [c EXCEPT !.more = Tail(c.more)]
  <2>1. Take(v, c) = [v |-> w, c |-> d]
    BY <1>9, ZenonT(30) DEF Take
  <2>2. Head(c.more) \in Nat /\ Tail(c.more) \in RoomLeft
    BY <1>9 DEF CoreType, RoomLeft
  <2>3. /\ w \in SnkType /\ w.units = v.units /\ w.given = v.given /\ w.from = v.from
        /\ w.running = v.running /\ w.completed = v.completed /\ w.draining = v.draining
    BY <2>2 DEF SnkType
  <2>4. d \in CoreType /\ d.room = c.room /\ d.playing = c.playing
    BY <2>2 DEF CoreType
  <2> HIDE DEF w, d
  <2>5. QED
    BY <1>2, <1>5, <2>1, <2>3, <2>4
<1>10. QED
  BY <1>6, <1>7, <1>8, <1>9

\* A plane holds the next units, and as many of them as were taken.
LEMMA PlaneFilled ==
  ASSUME NEW v0 \in SnkType, NEW c0 \in CoreType
  PROVE  Partly(fill_plane(v0, c0), v0, c0)
<1> DEFINE f == [v |-> [v0 EXCEPT !.units = 0], c |-> c0]
<1>1. Partly(f, v0, c0)
  <2>1. [v0 EXCEPT !.units = 0] \in SnkType
    BY DEF SnkType
  <2>2. QED
    BY <2>1 DEF Partly, SnkType
<1> HIDE DEF f
<1>2. Partly(TakeOn(f), v0, c0)
  BY <1>1, TakePartly
<1>3. Partly(TakeOn(TakeOn(f)), v0, c0)
  BY <1>2, TakePartly
<1>4. Partly(TakeOn(TakeOn(TakeOn(f))), v0, c0)
  BY <1>3, TakePartly
<1>5. Partly(TakeOn(TakeOn(TakeOn(TakeOn(f)))), v0, c0)
  BY <1>4, TakePartly
<1>6. Partly(TakeOn(TakeOn(TakeOn(TakeOn(TakeOn(f))))), v0, c0)
  BY <1>5, TakePartly
<1>7. QED
  BY <1>6 DEF fill_plane, f

LEMMA SilentType == Silent \in SnkType /\ IdleCap \in CapType
  BY DEF Silent, IdleCap, SnkType, CapType, Both

LEMMA PcmInitInv ==
  ASSUME RpcmInit
  PROVE  PcmInv
<1>1. player \in CoreType /\ player.playing = FALSE
  BY DEF RpcmInit, CoreType, RoomLeft
<1>2. /\ depth \in [Sides -> Nat] /\ bank \in [{0, 1} -> Nat] /\ heard \in [Both -> Nat]
      /\ rdma \in [Both \cup {"rec"} -> {"off", "busy", "done", "failed"}]
      /\ \A ch \in Both : rdma[ch] = "off" /\ heard[ch] = 0
      /\ rdma["rec"] = "off" /\ got \in [taken : Nat, full : Nat]
  BY DEF RpcmInit
<1>3. /\ caller \in [at : {"idle", "locked", "done"}, op : {"start", "stop", "lock"}, side : Sides]
      /\ caller.at = "idle"
  BY DEF RpcmInit, Sides
<1>4. PcmTypes
  BY <1>1, <1>2, <1>3, SilentType DEF RpcmInit, PcmTypes
<1>5. Planes /\ Banks
  BY <1>2 DEF RpcmInit, Planes, Banks, Silent, IdleCap
<1>6. SharedRight
  BY DEF RpcmInit, SharedRight, LineOf, Silent, IdleCap
<1>7. QED
  BY <1>1, <1>4, <1>5, <1>6 DEF PcmInv

\* What stop_hardware() leaves.
LEMMA PlaybackOff ==
  ASSUME PcmInv, NEW v \in SnkType, stop_hardware(v), UNCHANGED <<cap, depth>>
  PROVE  /\ snk' \in SnkType /\ ~snk'.running /\ snk'.draining = v.draining
         /\ snk'.units = v.units /\ snk'.given = v.given /\ snk'.from = v.from
         /\ rdma' \in [Both \cup {"rec"} -> {"off", "busy", "done", "failed"}]
         /\ rdma'["rec"] = rdma["rec"] /\ \A ch \in Both : rdma'[ch] = "off"
         /\ SharedRight' /\ rvbc' \subseteq {"on", "play", "rec"} /\ rline' \in BOOLEAN
<1>1. /\ snk' \in SnkType /\ snk'.running = FALSE /\ snk'.draining = v.draining
      /\ snk'.units = v.units /\ snk'.given = v.given /\ snk'.from = v.from
  BY DEF stop_hardware, SnkType
<1>2. /\ rdma' \in [Both \cup {"rec"} -> {"off", "busy", "done", "failed"}]
      /\ rdma'["rec"] = rdma["rec"] /\ \A ch \in Both : rdma'[ch] = "off"
  BY DEF stop_hardware, Channels, PcmInv, PcmTypes, Both
<1>3. rvbc' = VbcAfterStop(cap.running) /\ rline' = LineOf(FALSE, cap.running, depth)
  BY DEF stop_hardware
<1>4. cap.running \in BOOLEAN /\ rline' \in BOOLEAN /\ rvbc' \subseteq {"on", "play", "rec"}
  BY <1>3 DEF PcmInv, PcmTypes, CapType, VbcAfterStop, LineOf
<1>5. SharedRight'
  <2>1. /\ "on" \in rvbc' <=> cap.running
        /\ "play" \notin rvbc' /\ ("rec" \in rvbc' <=> cap.running)
    BY <1>3, <1>4 DEF PcmInv, SharedRight, VbcAfterStop
  <2>2. /\ "on" \in rvbc' <=> snk'.running \/ cap'.running
        /\ "play" \in rvbc' <=> snk'.running
        /\ "rec" \in rvbc' <=> cap'.running
    BY <1>1, <1>4, <2>1
  <2>3. rline' = LineOf(snk'.running, cap'.running, depth')
    BY <1>1, <1>3
  <2>4. QED
    BY <2>2, <2>3 DEF SharedRight
<1>6. QED
  BY <1>1, <1>2, <1>4, <1>5

LEMMA CaptureOff ==
  ASSUME PcmInv, NEW c \in CapType, rec_hw_stop(c), UNCHANGED <<snk, depth>>
  PROVE  /\ cap' \in CapType /\ ~cap'.running
         /\ rdma' \in [Both \cup {"rec"} -> {"off", "busy", "done", "failed"}]
         /\ rdma'["rec"] = "off" /\ \A ch \in Both : rdma'[ch] = rdma[ch]
         /\ SharedRight' /\ rvbc' \subseteq {"on", "play", "rec"} /\ rline' \in BOOLEAN
<1>1. cap' \in CapType /\ cap'.running = FALSE
  BY DEF rec_hw_stop, CapType
<1>2. /\ rdma' \in [Both \cup {"rec"} -> {"off", "busy", "done", "failed"}]
      /\ rdma'["rec"] = "off" /\ \A ch \in Both : rdma'[ch] = rdma[ch]
  BY DEF rec_hw_stop, PcmInv, PcmTypes, Both
<1>3. /\ rvbc' = IF snk.running THEN rvbc \ {"rec"} ELSE rvbc \ {"rec", "on"}
      /\ rline' = LineOf(snk.running, FALSE, depth)
  BY DEF rec_hw_stop
<1>4. snk.running \in BOOLEAN /\ rline' \in BOOLEAN /\ rvbc' \subseteq {"on", "play", "rec"}
  BY <1>3 DEF PcmInv, PcmTypes, SnkType, LineOf
<1>5. SharedRight'
  <2>1. /\ "on" \in rvbc' <=> snk.running
        /\ "rec" \notin rvbc' /\ ("play" \in rvbc' <=> snk.running)
    BY <1>3, <1>4 DEF PcmInv, SharedRight
  <2>2. /\ "on" \in rvbc' <=> snk'.running \/ cap'.running
        /\ "play" \in rvbc' <=> snk'.running
        /\ "rec" \in rvbc' <=> cap'.running
    BY <1>1, <1>4, <2>1
  <2>3. rline' = LineOf(snk'.running, cap'.running, depth')
    BY <1>1, <1>3
  <2>4. QED
    BY <2>2, <2>3 DEF SharedRight
<1>6. QED
  BY <1>1, <1>2, <1>4, <1>5

LEMMA PlayIrqInv ==
  ASSUME PcmInv, PlayIrq, rline, UNCHANGED <<depth, caller, heard>>
  PROVE  PcmInv'
<1> DEFINE ended == {ch \in Both : rdma[ch] \in {"done", "failed"}}
           failed == \E ch \in Both : rdma[ch] = "failed"
           done == snk.completed \cup {ch \in Both : rdma[ch] = "done"}
           v == [snk EXCEPT !.completed = done]
           f == fill_plane(v, player)
<1>1. ended # {} /\ UNCHANGED <<cap, bank, got>>
  BY DEF PlayIrq
<1>2. PcmTypes /\ Planes /\ Banks /\ SharedRight /\ (player.playing => snk.running)
  BY DEF PcmInv
<1>3. snk.running
  BY <1>1, <1>2 DEF Planes
<1>4. done \subseteq Both
  BY <1>2 DEF PcmTypes, SnkType
<1> HIDE DEF done
<1>5. /\ v \in SnkType /\ v.running = snk.running /\ v.draining = snk.draining /\ v.units = snk.units
      /\ v.given = snk.given /\ v.from = snk.from /\ v.completed = done
  BY <1>2, <1>4 DEF PcmTypes, SnkType
<1> HIDE DEF v
<1>6. CASE ~failed /\ ~AllDone(done) /\ snk' = v /\ rdma' = Channels(ended, "off")
           /\ UNCHANGED <<rline, rvbc, player>>
  <2>1. /\ rdma' \in [Both \cup {"rec"} -> {"off", "busy", "done", "failed"}]
        /\ rdma'["rec"] = rdma["rec"]
        /\ \A ch \in Both : rdma'[ch] = IF ch \in ended THEN "off" ELSE rdma[ch]
    BY <1>2, <1>6 DEF PcmTypes, Channels, Both
  <2>2. PcmTypes'
    BY <1>1, <1>2, <1>5, <1>6, <2>1 DEF PcmTypes
  <2>3. ASSUME NEW ch \in Both
        PROVE  /\ rdma'[ch] \in {"busy", "off"} /\ (rdma'[ch] = "busy" <=> rdma[ch] = "busy")
               /\ rdma'[ch] = "off" => rdma[ch] \in {"done", "off"}
               /\ ch \in done => ch \in snk.completed \/ rdma[ch] = "done"
    <3>1. rdma[ch] \in {"off", "busy", "done"}
      BY <1>2, <1>6 DEF PcmTypes
    <3>2. ch \in ended <=> rdma[ch] = "done"
      BY <3>1
    <3>3. ch \in done => ch \in snk.completed \/ rdma[ch] = "done"
      BY DEF done
    <3> HIDE DEF ended
    <3>4. QED
      BY <2>1, <3>1, <3>2, <3>3
  <2> HIDE DEF failed, ended, f
  <2>4. Planes'
    <3>1. snk' = v /\ heard' = heard
      BY <1>6
    <3>2. v.units > 0 => v.from = v.given - v.units + 1
      BY <1>2, <1>5 DEF Planes
    <3>3. v.draining => v.units = 0 /\ \A ch \in Both : heard[ch] = v.given
      BY <1>2, <1>3, <1>5 DEF Planes
    <3>4. ASSUME NEW ch \in Both
          PROVE  /\ rdma'[ch] \in {"busy", "failed"} => heard[ch] = v.given - v.units
                 /\ rdma'[ch] \in {"done", "off"} => heard[ch] = v.given
                 /\ rdma'[ch] = "busy" => ch \notin v.completed
      BY <1>2, <1>3, <1>5, <2>3 DEF Planes
    <3>5. QED
      BY <1>3, <1>5, <3>1, <3>2, <3>3, <3>4 DEF Planes
  <2>5. Banks' /\ SharedRight'
    BY <1>1, <1>2, <1>5, <1>6, <2>1 DEF Banks, SharedRight, LineOf
  <2>6. QED
    BY <1>2, <1>5, <1>6, <2>2, <2>4, <2>5 DEF PcmInv
<1>7. ASSUME NEW w \in SnkType, stop_hardware(w), player' = [player EXCEPT !.playing = FALSE],
             w.given = snk.given, w.draining => snk.draining,
             w.units > 0 => w.units = snk.units /\ w.from = snk.from
      PROVE  PcmInv'
  <2>1. player' \in CoreType /\ player'.playing = FALSE
    BY <1>2, <1>7 DEF PcmTypes, CoreType
  <2>2. PcmTypes' /\ SharedRight'
    BY <1>1, <1>2, <1>7, <2>1, PlaybackOff DEF PcmTypes, PcmInv
  <2>3. Planes' /\ Banks'
    BY <1>1, <1>2, <1>7, PlaybackOff DEF Planes, Banks
  <2>4. QED
    BY <2>1, <2>2, <2>3 DEF PcmInv
<1>8. CASE failed /\ stop_hardware([Silent EXCEPT !.given = v.given])
           /\ player' = [player EXCEPT !.playing = FALSE]
  <2> DEFINE w == [Silent EXCEPT !.given = v.given]
  <2>1. w \in SnkType /\ w.given = snk.given /\ w.draining = FALSE /\ w.units = 0
    BY <1>5, SilentType DEF SnkType, Silent
  <2> HIDE DEF w
  <2>2. stop_hardware(w)
    BY <1>8 DEF w
  <2>3. QED
    BY <1>7, <1>8, <2>1, <2>2
<1>9. CASE /\ ~failed /\ AllDone(done) /\ snk.draining
           /\ stop_hardware(IF player.playing THEN [Silent EXCEPT !.given = v.given] ELSE v)
           /\ player' = [player EXCEPT !.playing = FALSE]
  <2> DEFINE w == IF player.playing THEN [Silent EXCEPT !.given = v.given] ELSE v
  <2>1. /\ [Silent EXCEPT !.given = v.given] \in SnkType /\ [Silent EXCEPT !.given = v.given].given = snk.given
        /\ [Silent EXCEPT !.given = v.given].draining = FALSE /\ [Silent EXCEPT !.given = v.given].units = 0
    BY <1>5, SilentType DEF SnkType, Silent
  <2>2. /\ w \in SnkType /\ w.given = snk.given /\ (w.draining => snk.draining)
        /\ (w.units > 0 => w.units = snk.units /\ w.from = snk.from)
    BY <1>5, <2>1
  <2> HIDE DEF w
  <2>3. stop_hardware(w)
    BY <1>9 DEF w
  <2>4. QED
    BY <1>7, <1>9, <2>2, <2>3
<1>10. CASE /\ ~failed /\ AllDone(done) /\ ~snk.draining
            /\ snk' = [f.v EXCEPT !.draining = f.v.units = 0 /\ f.v.eof, !.completed = {}]
            /\ player' = f.c /\ rdma' = Channels(Both, "busy") /\ UNCHANGED <<rline, rvbc>>
  <2>1. Partly(f, v, player)
    BY <1>2, <1>5, PlaneFilled DEF PcmTypes
  <2> HIDE DEF f
  <2>2. /\ f.v \in SnkType /\ f.c \in CoreType /\ f.v.given = snk.given + f.v.units
        /\ (f.v.units > 0 => f.v.from = snk.given + 1) /\ f.v.running = TRUE
        /\ (f.c.playing => player.playing)
    BY <1>2, <1>3, <1>5, <2>1 DEF Partly, SnkType, PcmTypes
  <2>3. /\ snk' \in SnkType /\ snk'.given = snk.given + snk'.units /\ snk'.running = TRUE
        /\ (snk'.units > 0 => snk'.from = snk.given + 1) /\ (snk'.draining => snk'.units = 0)
        /\ snk'.units \in 0 .. 2 /\ snk.given \in Nat
    BY <1>2, <1>10, <2>2 DEF SnkType, PcmTypes
  <2>4. /\ rdma' \in [Both \cup {"rec"} -> {"off", "busy", "done", "failed"}]
        /\ rdma'["rec"] = rdma["rec"] /\ \A ch \in Both : rdma'[ch] = "busy"
    BY <1>2, <1>10 DEF PcmTypes, Channels, Both
  <2>5. \A ch \in Both : heard[ch] = snk.given
    <3>1. ASSUME NEW ch \in Both PROVE rdma[ch] \in {"done", "off"}
      <4>1. rdma[ch] # "failed" /\ rdma[ch] \in {"off", "busy", "done", "failed"}
        BY <1>2, <1>10 DEF PcmTypes
      <4>2. rdma[ch] = "busy" => ch \notin snk.completed
        BY <1>2, <1>3 DEF Planes
      <4>3. ch \in done
        BY <1>10 DEF AllDone
      <4>4. QED
        BY <4>1, <4>2, <4>3 DEF done
    <3>2. QED
      BY <1>2, <1>3, <3>1 DEF Planes
  <2>6. PcmTypes'
    BY <1>1, <1>2, <1>10, <2>2, <2>3, <2>4 DEF PcmTypes
  <2>7. Planes'
    BY <1>10, <2>3, <2>4, <2>5 DEF Planes, Both
  <2>8. Banks' /\ SharedRight'
    BY <1>1, <1>2, <1>3, <1>10, <2>3, <2>4 DEF Banks, SharedRight, LineOf
  <2>9. QED
    BY <1>10, <2>3, <2>6, <2>7, <2>8 DEF PcmInv
<1>11. QED
  BY <1>3, <1>6, <1>8, <1>9, <1>10 DEF PlayIrq, v, done

\* What Store() leaves of a recording.
LEMMA StoreOK ==
  ASSUME NEW c \in CapType, NEW room \in RoomLeft
  PROVE  /\ Store(c, room).c \in CapType /\ Store(c, room).room \in RoomLeft
         /\ Store(c, room).c.next = c.next /\ Store(c, room).c.running = c.running
<1>1. CASE c.size > 0
  <2>1. c.size - 1 \in Nat
    BY <1>1 DEF CapType
  <2>2. PICK d : d = [c EXCEPT !.size = c.size - 1]
    OBVIOUS
  <2>3. d \in CapType /\ d.next = c.next /\ d.running = c.running
    BY <2>1, <2>2 DEF CapType
  <2>4. Store(c, room) = [c |-> d, room |-> room, ok |-> TRUE]
    BY <1>1, <2>2, ZenonT(30) DEF Store
  <2>5. Store(c, room).c = d /\ Store(c, room).room = room
    BY ONLY <2>4
  <2>6. QED
    BY <2>3, <2>5
<1>2. CASE ~(c.size > 0) /\ room = <<>>
  <2>1. Store(c, room) = [c |-> c, room |-> room, ok |-> FALSE]
    BY <1>2, ZenonT(30) DEF Store
  <2>2. QED
    BY <2>1
<1>3. CASE ~(c.size > 0) /\ room # <<>>
  <2>1. Head(room) - 1 \in Nat /\ Tail(room) \in RoomLeft
    BY <1>3 DEF RoomLeft
  <2>2. PICK d : d = [c EXCEPT !.size = Head(room) - 1]
    OBVIOUS
  <2>3. d \in CapType /\ d.next = c.next /\ d.running = c.running
    BY <2>1, <2>2 DEF CapType
  <2>4. Store(c, room) = [c |-> d, room |-> Tail(room), ok |-> TRUE]
    BY <1>3, <2>2, ZenonT(30) DEF Store
  <2>5. Store(c, room).c = d /\ Store(c, room).room = Tail(room)
    BY ONLY <2>4
  <2>6. QED
    BY <2>1, <2>3, <2>5
<1>4. QED
  BY <1>1, <1>2, <1>3

LEMMA RecIrqInv ==
  ASSUME PcmInv, RecIrq, UNCHANGED <<depth, caller, heard>>
  PROVE  PcmInv'
<1>1. PcmTypes /\ Planes /\ Banks /\ SharedRight /\ (player.playing => snk.running)
      /\ UNCHANGED <<snk, bank, depth, caller, heard>>
  BY DEF PcmInv, RecIrq
<1>2. ASSUME NEW c \in CapType, rec_hw_stop(c), player' \in CoreType,
             player'.playing = player.playing, got' \in [taken : Nat, full : Nat]
      PROVE  PcmInv'
  <2>1. PcmTypes' /\ SharedRight'
    BY <1>1, <1>2, CaptureOff DEF PcmTypes
  <2>2. Planes' /\ Banks'
    BY <1>1, <1>2, CaptureOff DEF Planes, Banks
  <2>3. QED
    BY <1>1, <1>2, <2>1, <2>2 DEF PcmInv
<1>3. CASE rdma["rec"] = "failed" /\ rec_hw_stop(cap) /\ UNCHANGED <<player, got>>
  BY <1>1, <1>2, <1>3 DEF PcmTypes
<1> DEFINE zero == [cap EXCEPT !.next = 1 - cap.next]
           one == Store(zero, player.room)
           two == Store(one.c, one.room)
           n   == IF ~one.ok THEN 0 ELSE IF ~two.ok THEN 1 ELSE 2
           c   == [two.c EXCEPT !.last = bank[cap.next]]
<1>4. CASE /\ rdma["rec"] = "done"
           /\ player' = [player EXCEPT !.room = two.room]
           /\ got' = [got EXCEPT !.taken = got.taken + n]
           /\ IF n = 2
              THEN cap' = c /\ rdma' = [rdma EXCEPT !["rec"] = "busy"] /\ UNCHANGED <<rvbc, rline>>
              ELSE rec_hw_stop(c)
  <2>1. cap.next \in {0, 1} /\ 1 - cap.next \in {0, 1} /\ bank[cap.next] \in Nat /\ player.room \in RoomLeft
    BY <1>1 DEF PcmTypes, CapType, CoreType
  <2>2. zero \in CapType
    BY <1>1, <2>1 DEF PcmTypes, CapType
  <2>3. zero.running = cap.running
    BY <1>1 DEF PcmTypes, CapType
  <2> HIDE DEF zero
  <2>4. one.c \in CapType /\ one.room \in RoomLeft /\ one.c.running = cap.running
    BY <2>1, <2>2, <2>3, StoreOK
  <2> HIDE DEF one
  <2>5. two.c \in CapType /\ two.room \in RoomLeft /\ two.c.running = cap.running
    BY <2>4, StoreOK
  <2> HIDE DEF two
  <2>6. c \in CapType /\ c.last = bank[cap.next]
    BY <2>1, <2>5 DEF CapType
  <2>7. n \in 0 .. 2
    OBVIOUS
  <2> HIDE DEF n
  <2>8. player' \in CoreType /\ player'.playing = player.playing
    BY <1>1, <1>4, <2>5 DEF PcmTypes, CoreType
  <2>9. got' \in [taken : Nat, full : Nat] /\ got'.full = got.full
    BY <1>1, <1>4, <2>7 DEF PcmTypes
  <2>10. CASE n = 2 /\ cap' = c /\ rdma' = [rdma EXCEPT !["rec"] = "busy"] /\ UNCHANGED <<rvbc, rline>>
    <3>1. c.running = cap.running
      BY <2>5 DEF CapType
    <3> HIDE DEF c
    <3>2. /\ rdma' \in [Both \cup {"rec"} -> {"off", "busy", "done", "failed"}]
          /\ rdma'["rec"] = "busy" /\ \A ch \in Both : rdma'[ch] = rdma[ch]
      BY <1>1, <2>10 DEF PcmTypes, Both
    <3>3. PcmTypes'
      BY <1>1, <2>6, <2>8, <2>9, <2>10, <3>2 DEF PcmTypes
    <3>4. Planes' /\ Banks'
      BY <1>1, <1>4, <2>6, <2>9, <2>10, <3>2 DEF Planes, Banks
    <3>5. SharedRight'
      BY <1>1, <2>10, <3>1 DEF SharedRight, LineOf
    <3>6. QED
      BY <1>1, <2>8, <3>3, <3>4, <3>5 DEF PcmInv
  <2>11. CASE n # 2 /\ rec_hw_stop(c)
    <3> HIDE DEF c
    <3>1. QED
      BY <1>2, <2>6, <2>8, <2>9, <2>11
  <2>12. QED
    BY <1>4, <2>10, <2>11
<1>5. QED
  BY <1>3, <1>4 DEF RecIrq

\* What the DMA does on its own.
LEMMA DmaInv ==
  ASSUME PcmInv, RecEnds \/ (\E ch \in Both : PlayEnds(ch)) \/ (\E ch \in Both \cup {"rec"} : DmaFails(ch))
  PROVE  PcmInv'
<1>1. PcmTypes /\ Planes /\ Banks /\ SharedRight /\ (player.playing => snk.running)
  BY DEF PcmInv
<1>2. ASSUME RecEnds PROVE PcmInv'
  <2>1. /\ rdma["rec"] = "busy" /\ rdma' = [rdma EXCEPT !["rec"] = "done"]
        /\ got' = [got EXCEPT !.full = got.full + 2]
        /\ bank' = [bank EXCEPT ![cap.next] = got.full + 2]
        /\ UNCHANGED <<snk, cap, depth, rline, rvbc, player, caller, heard>>
    BY <1>2 DEF RecEnds
  <2>2. got.full + 2 \in Nat /\ cap.next \in {0, 1}
    BY <1>1 DEF PcmTypes, CapType
  <2>3. got' \in [taken : Nat, full : Nat] /\ got'.full = got.full + 2
    BY <1>1, <2>1, <2>2 DEF PcmTypes
  <2>4. bank' \in [{0, 1} -> Nat] /\ bank'[cap.next] = got.full + 2
    BY <1>1, <2>1, <2>2 DEF PcmTypes
  <2>5. /\ rdma' \in [Both \cup {"rec"} -> {"off", "busy", "done", "failed"}]
        /\ rdma'["rec"] = "done" /\ \A ch \in Both : rdma'[ch] = rdma[ch]
    BY <1>1, <2>1 DEF PcmTypes, Both
  <2>6. PcmTypes' /\ Planes'
    BY <1>1, <2>1, <2>3, <2>4, <2>5 DEF PcmTypes, Planes
  <2>7. Banks' /\ SharedRight'
    BY <1>1, <2>1, <2>3, <2>4, <2>5 DEF Banks, SharedRight, LineOf
  <2>8. QED
    BY <1>1, <2>1, <2>6, <2>7 DEF PcmInv
<1>3. ASSUME NEW ch \in Both, PlayEnds(ch) PROVE PcmInv'
  <2>1. /\ rdma[ch] = "busy" /\ rdma' = [rdma EXCEPT ![ch] = "done"]
        /\ heard' = [heard EXCEPT ![ch] = heard[ch] + snk.units]
        /\ UNCHANGED <<snk, cap, bank, depth, rline, rvbc, player, caller, got>>
    BY <1>3 DEF PlayEnds
  <2>2. snk.running /\ heard[ch] = snk.given - snk.units
    BY <1>1, <2>1 DEF Planes
  <2>3. snk.units \in 0 .. 2 /\ snk.given \in Nat /\ heard[ch] \in Nat
    BY <1>1 DEF PcmTypes, SnkType
  <2>4. heard' \in [Both -> Nat] /\ heard'[ch] = snk.given /\ \A co \in Both : co # ch => heard'[co] = heard[co]
    <3>1. heard[ch] + snk.units = snk.given /\ heard[ch] + snk.units \in Nat
      BY <2>2, <2>3
    <3>2. QED
      BY <1>1, <2>1, <3>1 DEF PcmTypes
  <2>5. /\ rdma' \in [Both \cup {"rec"} -> {"off", "busy", "done", "failed"}]
        /\ rdma'["rec"] = rdma["rec"] /\ rdma'[ch] = "done"
        /\ \A co \in Both : co # ch => rdma'[co] = rdma[co]
    BY <1>1, <2>1 DEF PcmTypes, Both
  <2>6. PcmTypes'
    BY <1>1, <2>1, <2>4, <2>5 DEF PcmTypes
  <2>7. Planes'
    <3>1. snk.draining => heard[ch] = snk.given
      BY <1>1 DEF Planes
    <3>2. QED
      BY <1>1, <2>1, <2>2, <2>4, <2>5 DEF Planes
  <2>8. Banks' /\ SharedRight'
    BY <1>1, <2>1, <2>5 DEF Banks, SharedRight, LineOf
  <2>9. QED
    BY <1>1, <2>1, <2>6, <2>7, <2>8 DEF PcmInv
<1>4. ASSUME NEW ch \in Both \cup {"rec"}, DmaFails(ch) PROVE PcmInv'
  <2>1. /\ rdma[ch] = "busy" /\ rdma' = [rdma EXCEPT ![ch] = "failed"]
        /\ UNCHANGED <<snk, cap, bank, depth, rline, rvbc, player, caller, heard, got>>
    BY <1>4 DEF DmaFails
  <2>2. /\ rdma' \in [Both \cup {"rec"} -> {"off", "busy", "done", "failed"}]
        /\ rdma'[ch] = "failed" /\ \A co \in Both \cup {"rec"} : co # ch => rdma'[co] = rdma[co]
    BY <1>1, <2>1 DEF PcmTypes
  <2>3. PcmTypes'
    BY <1>1, <2>1, <2>2 DEF PcmTypes
  <2>4. Planes'
    BY <1>1, <2>1, <2>2 DEF Planes
  <2>5. Banks' /\ SharedRight'
    BY <1>1, <2>1, <2>2 DEF Banks, SharedRight, LineOf
  <2>6. QED
    BY <1>1, <2>1, <2>3, <2>4, <2>5 DEF PcmInv
<1>5. QED
  BY <1>2, <1>3, <1>4

LEMMA PcmStartInv ==
  ASSUME PcmInv, PcmStart
  PROVE  PcmInv'
<1>1. PcmTypes /\ Planes /\ Banks /\ SharedRight
  BY DEF PcmInv
<1>2. PICK s \in Stretches : sink_play(Head(s), Tail(s))
  BY DEF PcmStart
<1>3. s \in Seq(Nat \ {0}) \ {<<>>}
  BY RbPcmAssumption
<1>4. Head(s) \in Nat /\ Tail(s) \in RoomLeft
  BY <1>3 DEF RoomLeft
<1> DEFINE v == [Silent EXCEPT !.left = Head(s)]
           c == [player EXCEPT !.more = Tail(s), !.playing = FALSE]
           f == fill_plane(v, c)
<1>5. /\ v \in SnkType /\ v.given = 0 /\ v.draining = FALSE /\ v.completed = {}
      /\ c \in CoreType
  BY <1>1, <1>4, SilentType DEF SnkType, Silent, PcmTypes, CoreType
<1> HIDE DEF v, c
<1>6. Partly(f, v, c)
  BY <1>5, PlaneFilled
<1>7. /\ snk' = [f.v EXCEPT !.running = TRUE] /\ player' = [f.c EXCEPT !.playing = TRUE]
      /\ rdma' = Channels(Both, "busy") /\ rvbc' = rvbc \cup {"on", "play"}
      /\ rline' = LineOf(TRUE, cap.running, depth) /\ heard' = [ch \in Both |-> 0]
      /\ UNCHANGED <<cap, bank, got, depth>>
  BY <1>2 DEF PcmStart, sink_play, v, c, Acts
<1>8. /\ caller.at = "locked" /\ caller' = [caller EXCEPT !.at = "done"]
  BY DEF PcmStart, Acts
<1> HIDE DEF f
<1>9. /\ snk' \in SnkType /\ snk'.running = TRUE /\ snk'.draining = FALSE /\ snk'.completed = {}
      /\ snk'.given = snk'.units /\ (snk'.units > 0 => snk'.from = 1) /\ player' \in CoreType
      /\ snk'.units \in 0 .. 2
  <2>1. /\ f.v \in SnkType /\ f.v.given = f.v.units /\ (f.v.units > 0 => f.v.from = 1)
        /\ f.v.draining = FALSE /\ f.v.completed = {} /\ f.v.units \in 0 .. 2 /\ f.c \in CoreType
    BY <1>5, <1>6 DEF Partly, SnkType
  <2>2. QED
    BY <1>7, <2>1 DEF SnkType, CoreType
<1>10. /\ rdma' \in [Both \cup {"rec"} -> {"off", "busy", "done", "failed"}]
       /\ rdma'["rec"] = rdma["rec"] /\ \A ch \in Both : rdma'[ch] = "busy"
  BY <1>1, <1>7 DEF PcmTypes, Channels, Both
<1>11. heard' \in [Both -> Nat] /\ \A ch \in Both : heard'[ch] = 0
  BY <1>7
<1>12. PcmTypes'
  <2>1. /\ caller' \in [at : {"idle", "locked", "done"}, op : {"start", "stop", "lock"}, side : Sides]
        /\ caller'.side = caller.side
    BY <1>1, <1>8 DEF PcmTypes
  <2>2. rline' \in BOOLEAN /\ rvbc' \subseteq {"on", "play", "rec"}
    BY <1>1, <1>7 DEF PcmTypes, LineOf
  <2>3. QED
    BY <1>1, <1>7, <1>8, <1>9, <1>10, <1>11, <2>1, <2>2 DEF PcmTypes
<1>13. Planes'
  BY <1>9, <1>10, <1>11 DEF Planes
<1>14. Banks' /\ SharedRight'
  BY <1>1, <1>7, <1>9, <1>10 DEF Banks, SharedRight, LineOf
<1>15. QED
  BY <1>9, <1>12, <1>13, <1>14 DEF PcmInv

\* What a thread in the core does under the lock, other than to start a playback.
LEMMA ActsOK ==
  ASSUME PcmInv, NEW o, NEW s, Acts(o, s)
  PROVE  /\ caller' \in [at : {"idle", "locked", "done"}, op : {"start", "stop", "lock"}, side : Sides]
         /\ (caller'.at # "idle" => depth'[caller'.side] > 0) /\ depth' = depth
  BY DEF PcmInv, PcmTypes, Acts

LEMMA ActsInv ==
  ASSUME PcmInv, PcmStop \/ RecStart \/ RecStop \/ JustLocks
  PROVE  PcmInv'
<1>1. PcmTypes /\ Planes /\ Banks /\ SharedRight /\ (player.playing => snk.running)
  BY DEF PcmInv
<1>2. /\ caller' \in [at : {"idle", "locked", "done"}, op : {"start", "stop", "lock"}, side : Sides]
      /\ (caller'.at # "idle" => depth'[caller'.side] > 0) /\ depth' = depth
  BY ActsOK DEF PcmStop, RecStart, RecStop, JustLocks
<1>3. ASSUME PcmStop PROVE PcmInv'
  <2> DEFINE w == [Silent EXCEPT !.given = snk.given]
  <2>1. w \in SnkType /\ w.given = snk.given /\ w.draining = FALSE /\ w.units = 0
    BY <1>1, SilentType DEF SnkType, Silent, PcmTypes
  <2> HIDE DEF w
  <2>2. /\ stop_hardware(w) /\ player' = [player EXCEPT !.playing = FALSE]
        /\ UNCHANGED <<cap, bank, heard, got>>
    BY <1>3 DEF PcmStop, w
  <2>3. player' \in CoreType /\ player'.playing = FALSE
    BY <1>1, <2>2 DEF PcmTypes, CoreType
  <2>4. PcmTypes' /\ SharedRight'
    BY <1>1, <1>2, <2>1, <2>2, <2>3, PlaybackOff DEF PcmTypes
  <2>5. Planes' /\ Banks'
    BY <1>1, <1>2, <2>1, <2>2, PlaybackOff DEF Planes, Banks
  <2>6. QED
    BY <2>3, <2>4, <2>5 DEF PcmInv
<1>4. ASSUME RecStart PROVE PcmInv'
  <2>1. PICK s \in RecStretches :
          /\ cap' = [running |-> TRUE, next |-> 0, size |-> Head(s), last |-> got.full]
          /\ player' = [player EXCEPT !.room = Tail(s)]
    BY <1>4 DEF RecStart
  <2>2. s \in Seq(Nat \ {0}) \ {<<>>}
    BY RbPcmAssumption
  <2>3. Head(s) \in Nat /\ Tail(s) \in RoomLeft
    BY <2>2 DEF RoomLeft
  <2>4. cap' \in CapType /\ cap'.running = TRUE /\ cap'.last = got.full
    BY <1>1, <2>1, <2>3 DEF CapType, PcmTypes
  <2>5. player' \in CoreType /\ player'.playing = player.playing
    BY <1>1, <2>1, <2>3 DEF CoreType, PcmTypes
  <2>6. /\ rdma' = [rdma EXCEPT !["rec"] = "busy"] /\ rvbc' = rvbc \cup {"on", "rec"}
        /\ rline' = LineOf(snk.running, TRUE, depth) /\ UNCHANGED <<snk, bank, heard, got>>
    BY <1>4 DEF RecStart
  <2>7. /\ rdma' \in [Both \cup {"rec"} -> {"off", "busy", "done", "failed"}]
        /\ rdma'["rec"] = "busy" /\ \A ch \in Both : rdma'[ch] = rdma[ch]
    BY <1>1, <2>6 DEF PcmTypes, Both
  <2>8. PcmTypes'
    BY <1>1, <1>2, <2>4, <2>5, <2>6, <2>7 DEF PcmTypes, LineOf
  <2>9. Planes' /\ Banks'
    BY <1>1, <2>4, <2>6, <2>7 DEF Planes, Banks
  <2>10. SharedRight'
    BY <1>1, <1>2, <2>4, <2>6 DEF SharedRight, LineOf
  <2>11. QED
    BY <1>1, <2>5, <2>6, <2>8, <2>9, <2>10 DEF PcmInv
<1>5. ASSUME RecStop PROVE PcmInv'
  <2>1. rec_hw_stop(cap) /\ UNCHANGED <<snk, bank, player, heard, got>> /\ cap \in CapType
    BY <1>1, <1>5 DEF RecStop, PcmTypes
  <2>2. PcmTypes' /\ SharedRight'
    BY <1>1, <1>2, <2>1, CaptureOff DEF PcmTypes
  <2>3. Planes' /\ Banks'
    BY <1>1, <2>1, <1>2, CaptureOff DEF Planes, Banks
  <2>4. QED
    BY <1>1, <2>1, <2>2, <2>3 DEF PcmInv
<1>6. ASSUME JustLocks PROVE PcmInv'
  <2>1. UNCHANGED <<snk, cap, bank, rline, rvbc, rdma, player, heard, got>>
    BY <1>6 DEF JustLocks
  <2>2. PcmTypes' /\ Planes' /\ Banks' /\ SharedRight'
    BY <1>1, <1>2, <2>1 DEF PcmTypes, Planes, Banks, SharedRight, LineOf
  <2>3. QED
    BY <1>1, <2>1, <2>2 DEF PcmInv
<1>7. QED
  BY <1>3, <1>4, <1>5, <1>6

LEMMA LocksInv ==
  ASSUME PcmInv, PcmLock \/ PcmUnlock
  PROVE  PcmInv'
<1>1. PcmTypes /\ Planes /\ Banks /\ SharedRight /\ (player.playing => snk.running)
      /\ UNCHANGED <<snk, cap, bank, rvbc, rdma, player, heard, got>>
  BY DEF PcmInv, PcmLock, PcmUnlock
<1>2. Planes' /\ Banks'
  BY <1>1 DEF Planes, Banks
<1>3. ASSUME PcmLock PROVE PcmInv'
  <2>1. PICK o \in PcmOps, n \in 1 .. 2 :
          /\ caller' = [at |-> "locked", op |-> o.op, side |-> o.side]
          /\ depth' = [depth EXCEPT ![o.side] = depth[o.side] + n]
    BY <1>3 DEF PcmLock
  <2>2. o.op \in {"start", "stop", "lock"} /\ o.side \in Sides
    BY DEF PcmOps
  <2>3. depth[o.side] + n \in Nat /\ depth[o.side] + n > 0
    BY <1>1, <2>2 DEF PcmTypes
  <2>4. depth' \in [Sides -> Nat] /\ depth'[o.side] > 0
    BY <1>1, <2>1, <2>2, <2>3 DEF PcmTypes
  <2>5. rline' = FALSE
    BY <1>3 DEF PcmLock
  <2>6. PcmTypes'
    BY <1>1, <2>1, <2>2, <2>4, <2>5 DEF PcmTypes
  <2>7. depth'["play"] # 0 \/ depth'["rec"] # 0
    BY <2>2, <2>4 DEF Sides
  <2>8. SharedRight'
    BY <1>1, <2>5, <2>7 DEF SharedRight, LineOf
  <2>9. QED
    BY <1>1, <1>2, <2>6, <2>8 DEF PcmInv
<1>4. ASSUME PcmUnlock PROVE PcmInv'
  <2>1. /\ caller.at = "done" /\ depth' = [depth EXCEPT ![caller.side] = depth[caller.side] - 1]
        /\ rline' = LineOf(snk.running, cap.running, depth')
        /\ caller' = [caller EXCEPT !.at = IF depth'[caller.side] = 0 THEN "idle" ELSE "done"]
    BY <1>4 DEF PcmUnlock
  <2>2. caller.side \in Sides /\ depth[caller.side] \in Nat /\ depth[caller.side] > 0
    BY <1>1, <2>1 DEF PcmTypes
  <2>3. depth[caller.side] - 1 \in Nat
    BY <2>2
  <2>4. depth' \in [Sides -> Nat]
    BY <1>1, <2>1, <2>2, <2>3 DEF PcmTypes
  <2>5. /\ caller' \in [at : {"idle", "locked", "done"}, op : {"start", "stop", "lock"}, side : Sides]
        /\ caller'.side = caller.side /\ (caller'.at # "idle" => depth'[caller.side] # 0)
    BY <1>1, <2>1 DEF PcmTypes
  <2>6. caller'.at # "idle" => depth'[caller'.side] > 0
    BY <2>2, <2>4, <2>5
  <2>7. PcmTypes'
    BY <1>1, <2>1, <2>4, <2>5, <2>6 DEF PcmTypes, LineOf
  <2>8. SharedRight'
    BY <1>1, <2>1 DEF SharedRight
  <2>9. QED
    BY <1>1, <1>2, <2>7, <2>8 DEF PcmInv
<1>5. QED
  BY <1>3, <1>4

LEMMA PcmStep ==
  ASSUME PcmInv, [RpcmNext]_rpcmvars
  PROVE  PcmInv'
<1>1. CASE Irq
  <2>1. /\ rline /\ (RecIrq \/ PlayIrq) /\ UNCHANGED <<depth, caller, heard>>
    BY <1>1 DEF Irq
  <2>2. QED
    BY <2>1, RecIrqInv, PlayIrqInv
<1>2. CASE RecEnds \/ (\E ch \in Both : PlayEnds(ch)) \/ (\E ch \in Both \cup {"rec"} : DmaFails(ch))
  BY <1>2, DmaInv
<1>3. CASE PcmStart
  BY <1>3, PcmStartInv
<1>4. CASE PcmStop \/ RecStart \/ RecStop \/ JustLocks
  BY <1>4, ActsInv
<1>5. CASE PcmLock \/ PcmUnlock
  BY <1>5, LocksInv
<1>6. CASE UNCHANGED rpcmvars
  BY <1>6 DEF rpcmvars, PcmInv, PcmTypes, Planes, Banks, SharedRight, LineOf
<1>7. QED
  BY <1>1, <1>2, <1>3, <1>4, <1>5, <1>6 DEF RpcmNext

LEMMA PcmInvKeeps == PcmInv => PcmKept
<1> SUFFICES ASSUME PcmInv PROVE PcmKept
  OBVIOUS
<1>1. PcmTypes /\ Planes /\ Banks /\ SharedRight /\ (player.playing => snk.running)
  BY DEF PcmInv
<1>2. PlaysNext
  <2> SUFFICES ASSUME NEW ch \in Both, rdma[ch] = "busy", snk.units > 0
               PROVE  snk.from = heard[ch] + 1
    BY DEF PlaysNext
  <2>1. snk.running /\ heard[ch] = snk.given - snk.units /\ snk.from = snk.given - snk.units + 1
    BY <1>1 DEF Planes
  <2>2. QED
    BY <2>1
<1>3. TakesLast
  BY <1>1 DEF TakesLast, Banks
<1>4. CoreAgrees
  BY <1>1 DEF CoreAgrees, Planes
<1>5. QED
  BY <1>1, <1>2, <1>3, <1>4 DEF PcmKept

\* Rockbox's PCM plays and records every unit once and in order, and its two sides share
\* the interrupt and the codec's interface, whatever is started and stopped in between
\* (pcm-sc6530c.c).
THEOREM PcmIsKept == RpcmSpec => []PcmKept
<1>1. RpcmInit => PcmInv
  BY PcmInitInv
<1>2. PcmInv /\ [RpcmNext]_rpcmvars => PcmInv'
  BY PcmStep
<1>3. QED
  BY <1>1, <1>2, PcmInvKeeps, PTL DEF RpcmSpec
-----------------------------------------------------------------------------
(* Rockbox's control endpoint *)

Requests == [kind : Kinds, id : Nat \ {0}]
Events   == Requests \cup {SetConfig}
Move     == [busy : BOOLEAN, armed : BOOLEAN, len : Nat, done : Nat, id : Nat]
UdcType  == [shows : BOOLEAN, stage : {"idle", "status_in", "data_in", "data_out"},
             setup : Requests \cup {NoRequest}, sts : SUBSET {"setup", "xact", "done"},
             tx : BOOLEAN, rx : BOOLEAN, stall : BOOLEAN, fifo : {<<>>} \cup (Nat \X Nat),
             trsize : Nat, sent : Nat, bulk : BOOLEAN]
DrvType  == [in : Move, out : Move, pending : BOOLEAN, wlength : Nat, config_seen : BOOLEAN,
             core_configured : BOOLEAN, enabled : BOOLEAN, stash : Requests \cup {NoRequest}]
CoreState == [queue : Seq(Events), sends : Nat, cfg : BOOLEAN, eps : BOOLEAN,
              armed : BOOLEAN, report : Nat]
HostType == [stage : {"reset", "opened", "again", "addressed", "configured"},
             req : Requests \cup {NoRequest}, got : Nat, ended : BOOLEAN, good : BOOLEAN,
             sent : Nat]

CtlTypes ==
  /\ udc \in UdcType /\ drv \in DrvType /\ usbcore \in CoreState /\ host \in HostType
  /\ made \in [requests : Nat, resets : Nat, giveups : Nat]
  /\ "done" \in udc.sts => "xact" \in udc.sts

\* The host's request, with data to it or from it; whether its SETUP is still latched,
\* and whether a packet of it is.
Reads     == host.req # NoRequest /\ ~Writes(host.req) /\ wLength(host.req) > 0
Writing   == host.req # NoRequest /\ Writes(host.req)
Latched   == "setup" \in udc.sts
PacketEnd == "xact" \in udc.sts
Due       == Least(Answer(host.req), wLength(host.req))

\* A SETUP that is latched keeps everything else from moving.
SetupFirst ==
  Latched =>
    /\ udc.setup \in Requests /\ udc.setup.id = made.requests /\ host.sent < udc.setup.id
    /\ host.req = udc.setup \/ (host.req = NoRequest /\ wLength(udc.setup) = 0)
    /\ usbcore.queue = <<>> /\ ~udc.tx /\ ~udc.rx /\ ~udc.stall /\ udc.sent = 0
    /\ host.got = 0 /\ ~host.ended

\* Where the request is on its way to the core: nothing has moved before it is there.
OnItsWay ==
  (Reads \/ Writing) /\ ~Latched =>
    /\ <<usbcore.queue, drv.stash>> \in
         {<<<<SetConfig, host.req>>, NoRequest>>, <<<<host.req>>, NoRequest>>,
          <<<<SetConfig>>, host.req>>, <<<<>>, host.req>>, <<<<>>, NoRequest>>}
    /\ usbcore.queue # <<>> \/ drv.stash # NoRequest =>
         /\ host.got = 0 /\ ~host.ended /\ udc.sent = 0 /\ ~udc.tx /\ ~udc.rx /\ udc.sts = {}
         /\ ~drv.in.busy /\ ~drv.out.busy /\ drv.wlength = wLength(host.req)

\* The answer: what the driver sends is the request's own, packet by packet.
Answered ==
  /\ Reads => udc.sent = host.got /\ (host.got > 0 => udc.trsize = Due /\ host.got <= Due)
  /\ Reads /\ udc.tx /\ udc.fifo # <<>> =>
       udc.fifo = <<host.req.id, host.got + 1>> /\ host.got < Due /\ udc.trsize = Due
  /\ Reads /\ ~Latched => ~(drv.out.busy /\ drv.out.armed)
  /\ Reads /\ ~Latched /\ drv.in.busy =>
       /\ drv.in.id = host.req.id /\ drv.in.len = Due /\ udc.trsize = Due
       /\ drv.in.done < Due /\ usbcore.sends = drv.in.id
       /\ PacketEnd => host.got = drv.in.done + 1 /\ ~(udc.tx /\ udc.fifo # <<>>)
       /\ ~PacketEnd => host.got = drv.in.done

\* A report with the core, or with its last packet latched and taken for what it is.
Arrived(n) ==
  \/ usbcore.report >= n
  \/ /\ drv.out.id = n /\ drv.out.busy /\ drv.out.armed /\ PacketEnd
     /\ drv.out.done + 1 = drv.out.len /\ ~drv.in.busy

\* The requests of the queue are younger than the n-th.
LaterThan(q, n) == \A i \in DOMAIN q : q[i] # SetConfig => q[i].id > n

\* Nothing in the queue activates a configuration.
Plain(q) == \A i \in DOMAIN q : q[i].kind \notin {"set_config", "configure"}

Reported ==
  /\ Writing /\ ~Latched => ~drv.in.busy
  /\ Writing /\ ~Latched /\ drv.out.busy /\ drv.out.armed =>
       /\ drv.out.id = host.req.id /\ drv.out.len = 2 /\ drv.out.done < 2
       /\ PacketEnd => host.got = drv.out.done + 1 /\ ~udc.rx
       /\ ~PacketEnd => host.got = drv.out.done
  /\ Writing /\ udc.rx => drv.out.busy /\ drv.out.armed
  /\ Writing /\ host.ended => Arrived(host.req.id)
  /\ host.sent # 0 => Arrived(host.sent)
  /\ drv.out.busy /\ drv.out.armed => drv.out.id >= host.sent
  /\ LaterThan(usbcore.queue, host.sent)
  /\ drv.stash # NoRequest => drv.stash.id > host.sent
  /\ host.sent <= made.requests /\ host.req.id <= made.requests

\* Nothing that activates a configuration is on its way to the core.
Settled ==
  /\ host.stage = "configured" /\ drv.config_seen /\ usbcore.eps
  /\ Plain(usbcore.queue)
  /\ ~(Latched /\ udc.setup.kind = "configure")

\* What the driver has seen of the host's enumeration.
Enumerated ==
  /\ usbcore.cfg => drv.core_configured
  /\ Latched /\ (NeedsConfig(udc.setup) \/ udc.setup.kind = "configure") => host.stage = "configured"
  /\ Latched /\ udc.setup.kind \in {"device", "address"} => host.stage # "configured"
  /\ host.stage \in {"opened", "again", "addressed"} /\ ~(Latched /\ udc.setup.kind = "device")
       => ~drv.config_seen
  /\ NeedsConfig(host.req) => host.stage = "configured" /\ (~Latched => drv.config_seen)
  /\ Settled => udc.bulk /\ usbcore.armed

CtlInv ==
  /\ CtlTypes /\ SetupFirst /\ OnItsWay /\ Answered /\ Reported /\ Enumerated
  /\ host.good

Parts == [udc : UdcType, drv : DrvType, usbcore : CoreState]

\* What a transfer of the control endpoint leaves alone.
UdcAsBefore(s, t) ==
  /\ t.udc.setup = s.udc.setup /\ t.udc.rx = s.udc.rx /\ t.udc.stall = s.udc.stall
  /\ t.udc.bulk = s.udc.bulk
DrvAsBefore(s, t) ==
  /\ t.drv.wlength = s.drv.wlength /\ t.drv.config_seen = s.drv.config_seen
  /\ t.drv.core_configured = s.drv.core_configured /\ t.drv.enabled = s.drv.enabled
  /\ t.drv.stash = s.drv.stash
CoreAsBefore(s, t) ==
  /\ t.usbcore.queue = s.usbcore.queue /\ t.usbcore.cfg = s.usbcore.cfg
  /\ t.usbcore.eps = s.usbcore.eps /\ t.usbcore.armed = s.usbcore.armed
  /\ t.usbcore.report = s.usbcore.report
AsBefore(s, t) == UdcAsBefore(s, t) /\ DrvAsBefore(s, t) /\ CoreAsBefore(s, t)

LEMMA AnswersAreFinite ==
  ASSUME NEW r \in Requests \cup {NoRequest}
  PROVE  /\ Answer(r) \in 0 .. 2 /\ wLength(r) \in 0 .. 3 /\ Least(Answer(r), wLength(r)) \in 0 .. 2
         /\ Writes(r) => wLength(r) = 2
         /\ Writes(r) \in BOOLEAN /\ NeedsConfig(r) \in BOOLEAN
         /\ r.kind = "odd" => Answer(r) = 0
         /\ ~Writes(r) /\ r # NoRequest /\ wLength(r) > 0 /\ r.kind # "odd" => Least(Answer(r), wLength(r)) > 0
         /\ wLength(r) = 0 => r.kind \in {"address", "configure"}
BY DEF Requests, Kinds, NoRequest, Answer, wLength, Least, Writes, NeedsConfig

LEMMA InPacket ==
  ASSUME NEW s \in Parts
  PROVE  LET t == in_packet(s) IN
         /\ t \in Parts /\ t.drv = s.drv /\ t.usbcore = s.usbcore
         /\ t.udc.sts = s.udc.sts \cap {"setup"} /\ t.udc.tx = TRUE
         /\ t.udc.fifo = <<s.drv.in.id, s.drv.in.done + 1>>
         /\ t.udc.setup = s.udc.setup /\ t.udc.rx = s.udc.rx /\ t.udc.stall = s.udc.stall
         /\ t.udc.trsize = s.udc.trsize /\ t.udc.sent = s.udc.sent /\ t.udc.bulk = s.udc.bulk
<1>1. s.udc \in UdcType /\ s.drv.in.id \in Nat /\ s.drv.in.done \in Nat
  BY DEF Parts, DrvType, Move
<1>2. PICK w : w = <<s.drv.in.id, s.drv.in.done + 1>>
  OBVIOUS
<1>3. w \in Nat \X Nat
  BY <1>1, <1>2
<1>4. PICK u : u = [s.udc EXCEPT !.sts = @ \cap {"setup"}, !.tx = TRUE, !.fifo = w]
  OBVIOUS
<1>5. in_packet(s) = [s EXCEPT !.udc = u]
  BY <1>2, <1>4 DEF in_packet, Parts
<1>6. /\ u \in UdcType
      /\ u.sts = s.udc.sts \cap {"setup"} /\ u.tx = TRUE /\ u.fifo = w
      /\ u.setup = s.udc.setup /\ u.rx = s.udc.rx /\ u.stall = s.udc.stall
      /\ u.trsize = s.udc.trsize /\ u.sent = s.udc.sent /\ u.bulk = s.udc.bulk
  BY <1>1, <1>3, <1>4 DEF UdcType
<1>7. QED
  BY <1>2, <1>5, <1>6 DEF Parts

LEMMA OutArmed ==
  ASSUME NEW s \in Parts
  PROVE  LET t == out_arm(s) IN
         /\ t \in Parts /\ t.usbcore = s.usbcore
         /\ t.udc = [s.udc EXCEPT !.rx = TRUE]
         /\ t.drv = [s.drv EXCEPT !.out = [@ EXCEPT !.armed = TRUE]]
<1>1. PICK u : u = [s.udc EXCEPT !.rx = TRUE]
  OBVIOUS
<1>2. PICK d : d = [s.drv EXCEPT !.out = [@ EXCEPT !.armed = TRUE]]
  OBVIOUS
<1>3. u \in UdcType /\ d \in DrvType
  BY <1>1, <1>2 DEF Parts, UdcType, DrvType, Move
<1>4. out_arm(s) = [s EXCEPT !.udc = u, !.drv = d]
  BY <1>1, <1>2 DEF out_arm, Parts
<1>5. QED
  BY <1>1, <1>2, <1>3, <1>4 DEF Parts

LEMMA StartSend ==
  ASSUME NEW s \in Parts, NEW r \in Requests
  PROVE  LET t == start_send(s, r)
             n == Least(Answer(r), s.drv.wlength)
         IN  /\ t \in Parts /\ AsBefore(s, t) /\ t.drv.out = s.drv.out
             /\ n = 0 => t = s
             /\ n # 0 => /\ t.drv.in = [busy |-> TRUE, armed |-> FALSE, len |-> n, done |-> 0, id |-> r.id]
                         /\ t.udc.sts = s.udc.sts \cap {"setup"} /\ t.udc.fifo = <<r.id, 1>>
                         /\ t.udc.trsize = n /\ t.udc.sent = 0 /\ t.usbcore.sends = r.id
<1> DEFINE n == Least(Answer(r), s.drv.wlength)
<1>1. n \in Nat /\ r.id \in Nat
  BY AnswersAreFinite DEF Least, Parts, DrvType, Requests
<1>2. CASE n = 0
  <2>1. start_send(s, r) = s
    BY <1>2 DEF start_send
  <2>2. QED
    BY <1>2, <2>1 DEF AsBefore, UdcAsBefore, DrvAsBefore, CoreAsBefore
<1>3. CASE n # 0
  <2>1. PICK i : i = [busy |-> TRUE, armed |-> FALSE, len |-> n, done |-> 0, id |-> r.id]
    OBVIOUS
  <2>2. i \in Move /\ i.id = r.id /\ i.done = 0
    BY <1>1, <2>1 DEF Move
  <2>3. PICK w : w = [s EXCEPT !.drv = [@ EXCEPT !.in = i], !.udc = [@ EXCEPT !.trsize = n, !.sent = 0],
                               !.usbcore = [@ EXCEPT !.sends = r.id]]
    OBVIOUS
  <2>4. start_send(s, r) = in_packet(w)
    <3>1. w = [s EXCEPT !.drv.in = i, !.udc.trsize = n, !.udc.sent = 0, !.usbcore.sends = r.id]
      BY <2>3 DEF Parts, UdcType
    <3>2. QED
      BY <1>3, <2>1, <3>1 DEF start_send, TrSize
  <2>5. w.drv = [s.drv EXCEPT !.in = i] /\ w.usbcore = [s.usbcore EXCEPT !.sends = r.id]
        /\ w.udc = [s.udc EXCEPT !.trsize = n, !.sent = 0]
    BY <2>3 DEF Parts
  <2>. HIDE DEF n
  <2>a. w.drv \in DrvType
    BY <2>2, <2>5 DEF Parts, DrvType
  <2>b. w.usbcore \in CoreState
    BY <1>1, <2>5 DEF Parts, CoreState
  <2>c. w.udc \in UdcType
    <3>1. w.udc = [s.udc EXCEPT !.trsize = n, !.sent = 0] /\ s.udc \in UdcType /\ n \in Nat
      BY <1>1, <2>5 DEF Parts
    <3>2. PICK u : u = [s.udc EXCEPT !.trsize = n]
      OBVIOUS
    <3>3. u \in UdcType
      BY ONLY <3>1, <3>2 DEF UdcType
    <3>4. w.udc = [u EXCEPT !.sent = 0]
      BY ONLY <3>1, <3>2 DEF UdcType
    <3>5. QED
      BY ONLY <3>3, <3>4 DEF UdcType
  <2>6. w.drv \in DrvType /\ w.usbcore \in CoreState /\ w.udc \in UdcType
    BY <2>a, <2>b, <2>c
  <2>7. w \in Parts
    BY <2>3, <2>6 DEF Parts
  <2>8. /\ w.drv.in = i /\ w.usbcore.sends = r.id /\ w.drv.out = s.drv.out
        /\ w.udc.sts = s.udc.sts /\ w.udc.trsize = n /\ w.udc.sent = 0
        /\ AsBefore(s, w)
    BY <2>5 DEF Parts, DrvType, CoreState, UdcType, AsBefore, UdcAsBefore, DrvAsBefore, CoreAsBefore
  <2>9. PICK t : t = in_packet(w)
    OBVIOUS
  <2>10. /\ t \in Parts /\ t.drv = w.drv /\ t.usbcore = w.usbcore
         /\ t.udc.sts = w.udc.sts \cap {"setup"} /\ t.udc.fifo = <<w.drv.in.id, w.drv.in.done + 1>>
         /\ t.udc.setup = w.udc.setup /\ t.udc.rx = w.udc.rx /\ t.udc.stall = w.udc.stall
         /\ t.udc.trsize = w.udc.trsize /\ t.udc.sent = w.udc.sent /\ t.udc.bulk = w.udc.bulk
    BY <2>7, <2>9, InPacket
  <2>11. t.udc.fifo = <<r.id, 1>>
    BY <2>2, <2>8, <2>10
  <2>12. AsBefore(s, t) /\ t.drv.out = s.drv.out
    BY <2>8, <2>10 DEF AsBefore, UdcAsBefore, DrvAsBefore, CoreAsBefore
  <2>13. QED
    BY <1>3, <2>1, <2>4, <2>8, <2>9, <2>10, <2>11, <2>12 DEF n
<1>4. QED
  BY <1>2, <1>3

LEMMA StatusArmed ==
  ASSUME NEW s \in Parts
  PROVE  LET t == ReceiveStatus(s) IN
         /\ t \in Parts /\ t.udc = s.udc /\ t.usbcore = s.usbcore
         /\ AsBefore(s, t) /\ t.drv.in = s.drv.in
         /\ t.drv.out = s.drv.out \/ ~t.drv.out.armed
<1>1. CASE s.drv.in.busy
  <2>1. PICK o : o = [s.drv.out EXCEPT !.busy = TRUE, !.armed = FALSE, !.len = 0, !.done = 0]
    OBVIOUS
  <2>2. PICK d : d = [s.drv EXCEPT !.pending = TRUE, !.out = o]
    OBVIOUS
  <2>3. o \in Move /\ ~o.armed
    BY <2>1 DEF Parts, DrvType, Move
  <2>4. d \in DrvType /\ d.out = o /\ d.pending = TRUE
    BY <2>2, <2>3 DEF Parts, DrvType
  <2>5. ReceiveStatus(s) = [s EXCEPT !.drv = d]
    BY <1>1, <2>1, <2>2 DEF ReceiveStatus, Parts
  <2>6. QED
    BY <2>2, <2>3, <2>4, <2>5, ZenonT(40) DEF Parts, DrvType, AsBefore, UdcAsBefore, DrvAsBefore, CoreAsBefore
<1>2. CASE ~s.drv.in.busy
  <2>1. ReceiveStatus(s) = s
    BY <1>2 DEF ReceiveStatus
  <2>2. QED
    BY <2>1 DEF AsBefore, UdcAsBefore, DrvAsBefore, CoreAsBefore
<1>3. QED
  BY <1>1, <1>2

LEMMA ReceiveArmed ==
  ASSUME NEW s \in Parts, NEW r \in Requests
  PROVE  LET t == Receive(s, r) IN
         /\ t \in Parts /\ t.usbcore = s.usbcore
         /\ t.udc = [s.udc EXCEPT !.rx = TRUE]
         /\ DrvAsBefore(s, t) /\ t.drv.in = s.drv.in
         /\ t.drv.out.busy /\ t.drv.out.armed /\ t.drv.out.len = wLength(r) /\ t.drv.out.done = 0
         /\ t.drv.out.id = r.id
<1>1. PICK o : o = [busy |-> TRUE, armed |-> FALSE, len |-> wLength(r), done |-> 0, id |-> r.id]
  OBVIOUS
<1>a. wLength(r) \in Nat /\ r.id \in Nat
  BY AnswersAreFinite DEF Requests
<1>d. o \in Move
  BY ONLY <1>1, <1>a, Zenon DEF Move
<1>b. PICK a : a = [o EXCEPT !.armed = TRUE]
  OBVIOUS
<1>2. a.busy /\ a.armed /\ a.len = wLength(r) /\ a.done = 0 /\ a.id = r.id
  BY ONLY <1>1, <1>b, <1>d DEF Move
<1>3. PICK d : d = [s.drv EXCEPT !.out = o]
  OBVIOUS
<1>4. d \in DrvType /\ d.out = o
  BY <1>3, <1>d DEF Parts, DrvType
<1>5. PICK w : w = [s EXCEPT !.drv = d]
  OBVIOUS
<1>6. w \in Parts /\ w.udc = s.udc /\ w.drv = d /\ w.usbcore = s.usbcore
  BY <1>4, <1>5 DEF Parts
<1>7. Receive(s, r) = out_arm(w)
  BY <1>1, <1>3, <1>5 DEF Receive, Parts
<1>8. PICK t : t = out_arm(w)
  OBVIOUS
<1>9. /\ t \in Parts /\ t.usbcore = w.usbcore /\ t.udc = [w.udc EXCEPT !.rx = TRUE]
      /\ t.drv = [w.drv EXCEPT !.out = [@ EXCEPT !.armed = TRUE]]
  BY <1>6, <1>8, OutArmed
<1>c. t.drv = [d EXCEPT !.out = a]
  BY <1>4, <1>6, <1>9, <1>b
<1>10. t.drv.out = a /\ t.drv.in = s.drv.in /\ DrvAsBefore(s, t)
  BY <1>3, <1>4, <1>c DEF Parts, DrvType, DrvAsBefore
<1>11. QED
  BY <1>2, <1>6, <1>7, <1>8, <1>9, <1>10

LEMMA Stalled ==
  ASSUME NEW s \in Parts
  PROVE  LET t == Stall(s) IN
         /\ t \in Parts /\ t.usbcore = s.usbcore /\ t.udc = [s.udc EXCEPT !.stall = TRUE]
         /\ t.drv = [s.drv EXCEPT !.in = [@ EXCEPT !.busy = FALSE], !.out = [@ EXCEPT !.busy = FALSE],
                                  !.pending = FALSE]
<1>1. PICK u : u = [s.udc EXCEPT !.stall = TRUE]
  OBVIOUS
<1>2. PICK d : d = [s.drv EXCEPT !.in = [@ EXCEPT !.busy = FALSE], !.out = [@ EXCEPT !.busy = FALSE],
                                 !.pending = FALSE]
  OBVIOUS
<1>3. u \in UdcType /\ d \in DrvType
  BY <1>1, <1>2, ZenonT(40) DEF Parts, UdcType, DrvType, Move
<1>4. Stall(s) = [s EXCEPT !.udc = u, !.drv = d]
  BY <1>1, <1>2 DEF Stall, Parts, DrvType
<1>5. QED
  BY <1>1, <1>2, <1>3, <1>4 DEF Parts

\* A packet of the answer is out.
PacketSent(s, t) ==
  LET more == s.drv.in.done + 1 < s.drv.in.len IN
  /\ t \in Parts
  /\ AsBefore(s, t) /\ t.udc.trsize = s.udc.trsize /\ t.udc.sent = s.udc.sent
  /\ t.udc.sts = IF more THEN s.udc.sts \cap {"setup"} ELSE s.udc.sts
  /\ more => t.udc.tx = TRUE /\ t.udc.fifo = <<s.drv.in.id, s.drv.in.done + 2>>
  /\ ~more => t.udc.tx = s.udc.tx /\ t.udc.fifo = s.udc.fifo
  /\ t.usbcore.sends = IF more THEN s.usbcore.sends ELSE 0
  /\ t.drv.in.id = s.drv.in.id /\ t.drv.in.len = s.drv.in.len
  /\ t.drv.in.done = s.drv.in.done + 1 /\ (t.drv.in.busy <=> s.drv.in.busy /\ more)
  /\ more => t.drv.out = s.drv.out
  /\ t.drv.out.busy => t.drv.out = s.drv.out
  /\ (t.drv.out.armed <=> s.drv.out.armed) /\ t.drv.out.id = s.drv.out.id

LEMMA AnswerPacket ==
  ASSUME NEW s \in Parts, NEW t, t = in_done(s)
  PROVE  PacketSent(s, t)
<1> USE DEF PacketSent
<1>1. PICK i : i = [s.drv.in EXCEPT !.done = @ + 1]
  OBVIOUS
<1>2. PICK d : d = [s.drv EXCEPT !.in = i]
  OBVIOUS
<1>3. PICK w : w = [s EXCEPT !.drv = d]
  OBVIOUS
<1>4. i \in Move /\ i.done = s.drv.in.done + 1 /\ i.id = s.drv.in.id /\ i.len = s.drv.in.len
      /\ (i.busy <=> s.drv.in.busy)
  BY <1>1 DEF Parts, DrvType, Move
<1>5. d \in DrvType /\ d.in = i /\ d.out = s.drv.out /\ d.pending = s.drv.pending
  BY <1>2, <1>4 DEF Parts, DrvType
<1>6. w \in Parts /\ w.udc = s.udc /\ w.drv = d /\ w.usbcore = s.usbcore
  BY <1>3, <1>5 DEF Parts
<1>7. w = [s EXCEPT !.drv.in.done = @ + 1]
  BY <1>1, <1>2, <1>3 DEF Parts, DrvType
<1>8. CASE s.drv.in.done + 1 < s.drv.in.len
  <2>1. in_done(s) = in_packet(w)
    BY <1>4, <1>5, <1>6, <1>7, <1>8, ZenonT(30) DEF in_done
  <2>2. t = in_packet(w)
    BY <2>1
  <2>w. w \in Parts
    BY <1>6
  <2>3. /\ t \in Parts /\ t.drv = w.drv /\ t.usbcore = w.usbcore
        /\ t.udc.sts = w.udc.sts \cap {"setup"} /\ t.udc.tx = TRUE
        /\ t.udc.fifo = <<w.drv.in.id, w.drv.in.done + 1>>
        /\ t.udc.setup = w.udc.setup /\ t.udc.rx = w.udc.rx /\ t.udc.stall = w.udc.stall
        /\ t.udc.trsize = w.udc.trsize /\ t.udc.sent = w.udc.sent /\ t.udc.bulk = w.udc.bulk
    BY ONLY <2>w, <2>2, InPacket
  <2>4. t.udc.fifo = <<s.drv.in.id, s.drv.in.done + 2>>
    <3>1. s.drv.in.done + 1 + 1 = s.drv.in.done + 2
      BY DEF Parts, DrvType, Move
    <3>2. QED
      BY ONLY <3>1, <2>3, <1>4, <1>5, <1>6
  <2>5. DrvAsBefore(s, t)
    BY <1>2, <1>6, <2>3 DEF Parts, DrvType, DrvAsBefore
  <2>6. UdcAsBefore(s, t) /\ CoreAsBefore(s, t)
    BY <1>6, <2>3 DEF UdcAsBefore, CoreAsBefore
  <2>7. QED
    BY <1>4, <1>5, <1>6, <1>8, <2>1, <2>2, <2>3, <2>4, <2>5, <2>6 DEF AsBefore
<1>9. CASE ~(s.drv.in.done + 1 < s.drv.in.len)
  <2>1. PICK j : j = [i EXCEPT !.busy = FALSE]
    OBVIOUS
  <2>2. PICK o : o = [s.drv.out EXCEPT !.busy = @ /\ ~s.drv.pending]
    OBVIOUS
  <2>3. PICK f : f = [d EXCEPT !.in = j, !.pending = FALSE, !.out = o]
    OBVIOUS
  <2>4. PICK c : c = [s.usbcore EXCEPT !.sends = 0]
    OBVIOUS
  <2>5. PICK z : z = [w EXCEPT !.drv = f, !.usbcore = c]
    OBVIOUS
  <2>6. j \in Move /\ o \in Move /\ (o.armed <=> s.drv.out.armed) /\ o.id = s.drv.out.id
        /\ (o.busy => o = s.drv.out) /\ ~j.busy /\ j.done = i.done /\ j.id = i.id /\ j.len = i.len
    BY <1>4, <2>1, <2>2, ZenonT(40) DEF Parts, DrvType, Move
  <2>7. f \in DrvType /\ f.in = j /\ f.out = o /\ f.pending = FALSE /\ c \in CoreState
    BY <1>5, <2>3, <2>4, <2>6 DEF Parts, DrvType, CoreState
  <2>8. z \in Parts /\ z.udc = s.udc /\ z.drv = f /\ z.usbcore = c
    BY <1>6, <2>5, <2>7 DEF Parts
  <2>9. z = [w EXCEPT !.drv.in.busy = FALSE, !.usbcore.sends = 0, !.drv.pending = FALSE,
                      !.drv.out.busy = @ /\ ~s.drv.pending]
    BY <1>5, <1>6, <2>1, <2>2, <2>3, <2>4, <2>5 DEF Parts, DrvType
  <2>10. t = z
    BY <1>4, <1>5, <1>6, <1>7, <1>9, <2>9, ZenonT(30) DEF in_done
  <2>a. /\ d.wlength = s.drv.wlength /\ d.config_seen = s.drv.config_seen /\ d.stash = s.drv.stash
        /\ d.core_configured = s.drv.core_configured /\ d.enabled = s.drv.enabled
    BY <1>2 DEF Parts, DrvType
  <2>b. /\ f.wlength = d.wlength /\ f.config_seen = d.config_seen /\ f.stash = d.stash
        /\ f.core_configured = d.core_configured /\ f.enabled = d.enabled
    BY <1>5, <2>3 DEF DrvType
  <2>c. t.drv = f
    BY <2>8, <2>10
  <2>11. DrvAsBefore(s, t)
    BY ONLY <2>a, <2>b, <2>c DEF DrvAsBefore
  <2>12. UdcAsBefore(s, t) /\ CoreAsBefore(s, t) /\ t.usbcore.sends = 0
    BY <2>4, <2>8, <2>10 DEF UdcAsBefore, CoreAsBefore, Parts, CoreState
  <2>13. QED
    BY <1>4, <1>9, <2>6, <2>7, <2>8, <2>10, <2>11, <2>12 DEF AsBefore
<1>10. QED
  BY <1>8, <1>9

\* A packet from the host is in.
PacketTaken(s, t) ==
  LET on   == s.drv.out.busy /\ s.drv.out.armed
      more == s.drv.out.done + 1 < s.drv.out.len
  IN
  /\ t \in Parts
  /\ ~on => t = s
  /\ DrvAsBefore(s, t) /\ t.drv.in = s.drv.in
  /\ on => /\ t.udc = IF more THEN [s.udc EXCEPT !.rx = TRUE] ELSE s.udc
           /\ t.usbcore = IF more THEN s.usbcore ELSE [s.usbcore EXCEPT !.report = s.drv.out.id]
           /\ t.drv.out.id = s.drv.out.id /\ t.drv.out.len = s.drv.out.len
           /\ t.drv.out.done = s.drv.out.done + 1
           /\ (t.drv.out.busy <=> more) /\ (t.drv.out.armed <=> more)

LEMMA ReportPacket ==
  ASSUME NEW s \in Parts, NEW t, t = out_done(s)
  PROVE  PacketTaken(s, t)
<1> USE DEF PacketTaken
<1> DEFINE on == s.drv.out.busy /\ s.drv.out.armed
           more == s.drv.out.done + 1 < s.drv.out.len
<1>1. PICK o : o = [s.drv.out EXCEPT !.done = @ + 1, !.armed = FALSE]
  OBVIOUS
<1>2. PICK d : d = [s.drv EXCEPT !.out = o]
  OBVIOUS
<1>3. PICK w : w = [s EXCEPT !.drv = d]
  OBVIOUS
<1>4. o \in Move /\ o.id = s.drv.out.id /\ o.len = s.drv.out.len /\ o.done = s.drv.out.done + 1
      /\ (o.busy <=> s.drv.out.busy) /\ ~o.armed
  <2>1. s.drv.out \in Move
    BY DEF Parts, DrvType
  <2>2. PICK m : m = [s.drv.out EXCEPT !.done = @ + 1]
    OBVIOUS
  <2>3. m \in Move /\ m.id = s.drv.out.id /\ m.len = s.drv.out.len /\ m.done = s.drv.out.done + 1
        /\ (m.busy <=> s.drv.out.busy)
    BY ONLY <2>1, <2>2 DEF Move
  <2>4. o = [m EXCEPT !.armed = FALSE]
    BY ONLY <1>1, <2>1, <2>2 DEF Move
  <2>5. QED
    BY ONLY <2>3, <2>4 DEF Move
<1>5. d \in DrvType /\ d.out = o /\ d.in = s.drv.in
  BY <1>2, <1>4 DEF Parts, DrvType
<1>6. w \in Parts /\ w.udc = s.udc /\ w.drv = d /\ w.usbcore = s.usbcore
  BY <1>3, <1>5 DEF Parts
<1>7. w = [s EXCEPT !.drv.out.done = @ + 1, !.drv.out.armed = FALSE]
  BY <1>1, <1>2, <1>3 DEF Parts, DrvType
<1>8. DrvAsBefore(s, w)
  BY <1>2, <1>6 DEF DrvAsBefore, Parts, DrvType
<1>9. CASE ~on
  <2>1. out_done(s) = s
    BY <1>9, ZenonT(30) DEF out_done
  <2>2. QED
    BY <1>9, <2>1 DEF DrvAsBefore
<1>10. CASE on /\ more
  <2>1. out_done(s) = out_arm(w)
    BY <1>4, <1>5, <1>6, <1>7, <1>10, ZenonT(30) DEF out_done
  <2>2. t = out_arm(w)
    BY <2>1
  <2>3. /\ t \in Parts /\ t.usbcore = w.usbcore /\ t.udc = [w.udc EXCEPT !.rx = TRUE]
        /\ t.drv = [w.drv EXCEPT !.out = [@ EXCEPT !.armed = TRUE]]
    BY <1>6, <2>2, OutArmed
  <2>4. PICK a : a = [o EXCEPT !.armed = TRUE]
    OBVIOUS
  <2>5. a.id = o.id /\ a.len = o.len /\ a.done = o.done /\ a.busy = o.busy /\ a.armed
    BY <1>4, <2>4 DEF Move
  <2>6. t.drv = [d EXCEPT !.out = a]
    BY <1>5, <1>6, <2>3, <2>4
  <2>7. t.drv.out = a /\ t.drv.in = s.drv.in /\ DrvAsBefore(w, t)
    BY <1>5, <1>6, <2>6 DEF DrvType, DrvAsBefore
  <2>8. QED
    BY <1>4, <1>6, <1>8, <1>10, <2>1, <2>2, <2>3, <2>5, <2>7 DEF DrvAsBefore
<1>11. CASE on /\ ~more
  <2>1. PICK a : a = [o EXCEPT !.busy = FALSE]
    OBVIOUS
  <2>2. PICK f : f = [d EXCEPT !.out = a]
    OBVIOUS
  <2>3. PICK c : c = [s.usbcore EXCEPT !.report = s.drv.out.id]
    OBVIOUS
  <2>4. PICK z : z = [w EXCEPT !.drv = f, !.usbcore = c]
    OBVIOUS
  <2>5. a \in Move /\ a.id = o.id /\ a.len = o.len /\ a.done = o.done /\ ~a.busy /\ ~a.armed
    BY <1>4, <2>1 DEF Move
  <2>6. f \in DrvType /\ f.out = a /\ f.in = s.drv.in /\ c \in CoreState
    BY <1>4, <1>5, <2>2, <2>3, <2>5 DEF Parts, DrvType, CoreState, Move
  <2>7. z \in Parts /\ z.udc = s.udc /\ z.drv = f /\ z.usbcore = c
    BY <1>6, <2>4, <2>6 DEF Parts
  <2>8. z = [w EXCEPT !.drv.out.busy = FALSE, !.usbcore.report = s.drv.out.id]
    BY <1>5, <1>6, <2>1, <2>2, <2>3, <2>4 DEF Parts, DrvType
  <2>9. t = z
    BY <1>4, <1>5, <1>6, <1>7, <1>11, <2>8, ZenonT(30) DEF out_done
  <2>10. DrvAsBefore(w, t)
    BY <1>5, <1>6, <2>2, <2>7, <2>9 DEF DrvType, DrvAsBefore
  <2>11. QED
    BY <1>4, <1>8, <1>11, <2>3, <2>5, <2>6, <2>7, <2>9, <2>10 DEF DrvAsBefore
<1>12. QED
  BY <1>9, <1>10, <1>11

LEMMA RequestEnded ==
  ASSUME NEW s \in Parts
  PROVE  LET t == Ended(s) IN
         /\ t \in Parts /\ t.usbcore = s.usbcore
         /\ t.udc = [s.udc EXCEPT !.stall = FALSE, !.tx = FALSE, !.rx = FALSE]
         /\ ~t.drv.in.busy /\ ~t.drv.out.busy /\ t.drv.stash = NoRequest
         /\ t.drv.out.id = s.drv.out.id
         /\ t.drv.wlength = s.drv.wlength /\ t.drv.config_seen = s.drv.config_seen
         /\ t.drv.core_configured = s.drv.core_configured /\ t.drv.enabled = s.drv.enabled
<1>1. PICK i : i = [s.drv.in EXCEPT !.busy = FALSE]
  OBVIOUS
<1>2. PICK o : o = [s.drv.out EXCEPT !.busy = FALSE]
  OBVIOUS
<1>3. i \in Move /\ o \in Move /\ ~i.busy /\ ~o.busy /\ o.id = s.drv.out.id
  BY <1>1, <1>2 DEF Parts, DrvType, Move
<1>4. PICK d : d = [s.drv EXCEPT !.out = o, !.in = i, !.pending = FALSE, !.stash = NoRequest]
  OBVIOUS
<1>5. d \in DrvType /\ d.out = o /\ d.in = i /\ d.stash = NoRequest
      /\ d.wlength = s.drv.wlength /\ d.config_seen = s.drv.config_seen
      /\ d.core_configured = s.drv.core_configured /\ d.enabled = s.drv.enabled
  BY <1>3, <1>4 DEF Parts, DrvType
<1>6. PICK u : u = [s.udc EXCEPT !.stall = FALSE, !.tx = FALSE, !.rx = FALSE]
  OBVIOUS
<1>7. u \in UdcType
  BY <1>6 DEF Parts, UdcType
<1>8. d = [s.drv EXCEPT !.out.busy = FALSE, !.in.busy = FALSE, !.pending = FALSE, !.stash = NoRequest]
  BY <1>1, <1>2, <1>4 DEF Parts, DrvType
<1>9. Ended(s) = [s EXCEPT !.udc = u, !.drv = d]
  BY <1>6, <1>8 DEF Ended
<1>10. QED
  BY <1>3, <1>5, <1>6, <1>7, <1>9 DEF Parts

LEMMA Queued ==
  ASSUME NEW s \in Parts, NEW x \in Events
  PROVE  LET t == Queue(s, x) IN
         /\ t \in Parts /\ t.udc = s.udc /\ t.drv = s.drv
         /\ t.usbcore.queue = Append(s.usbcore.queue, x) /\ t.usbcore.sends = s.usbcore.sends
         /\ t.usbcore.cfg = s.usbcore.cfg /\ t.usbcore.eps = s.usbcore.eps
         /\ t.usbcore.armed = s.usbcore.armed /\ t.usbcore.report = s.usbcore.report
<1>1. PICK q : q = Append(s.usbcore.queue, x)
  OBVIOUS
<1>2. q \in Seq(Events)
  BY <1>1, AppendProperties DEF Parts, CoreState
<1>3. PICK c : c = [s.usbcore EXCEPT !.queue = q]
  OBVIOUS
<1>4. /\ c \in CoreState /\ c.queue = q /\ c.sends = s.usbcore.sends /\ c.cfg = s.usbcore.cfg
      /\ c.eps = s.usbcore.eps /\ c.armed = s.usbcore.armed /\ c.report = s.usbcore.report
  BY <1>2, <1>3 DEF Parts, CoreState
<1>5. Queue(s, x) = [s EXCEPT !.usbcore = c]
  BY <1>1, <1>3 DEF Queue, Parts
<1>6. QED
  BY <1>1, <1>4, <1>5 DEF Parts

\* The news of the configuration is none of the requests.
LEMMA EventKinds ==
  /\ SetConfig \in Events /\ SetConfig.id = 0 /\ SetConfig.kind = "set_config"
  /\ \A r \in Requests : r \in Events /\ r # NoRequest /\ r # SetConfig /\ r.id # 0 /\ r.kind # "none"
                         /\ r.kind # "set_config"
  /\ NoRequest.id = 0 /\ NoRequest.kind = "none" /\ wLength(NoRequest) = 1 /\ ~Writes(NoRequest)
  /\ ~NeedsConfig(NoRequest)
BY DEF SetConfig, Events, Requests, Kinds, NoRequest, wLength, Writes, NeedsConfig

LEMMA ShortQueues ==
  ASSUME NEW x, NEW y
  PROVE  Append(<<>>, x) = <<x>> /\ Append(<<x>>, y) = <<x, y>>
<1>1. Append(<<>>, x) = <<x>>
  OBVIOUS
<1>2. <<x>> \in Seq({x, y}) /\ <<x, y>> \in Seq({x, y})
  OBVIOUS
<1>3. Append(<<x>>, y) = <<x, y>>
  <2>1. PICK q : q = Append(<<x>>, y)
    OBVIOUS
  <2>2. q \in Seq({x, y}) /\ Len(q) = 2 /\ q[1] = x /\ q[2] = y
    BY <1>2, <2>1, AppendProperties
  <2>3. Len(<<x, y>>) = 2
    OBVIOUS
  <2>4. \A i \in 1 .. 2 : q[i] = <<x, y>>[i]
    BY <2>2
  <2>5. q = <<x, y>>
    BY <1>2, <2>2, <2>3, <2>4, SeqEqual
  <2>6. QED
    BY <2>1, <2>5
<1>4. QED
  BY <1>1, <1>3

LEMMA ShortTails ==
  ASSUME NEW x, NEW y
  PROVE  /\ Head(<<x>>) = x /\ Tail(<<x>>) = <<>>
         /\ Head(<<x, y>>) = x /\ Tail(<<x, y>>) = <<y>>
<1>1. Head(<<x>>) = x /\ Tail(<<x>>) = <<>>
  OBVIOUS
<1>2. Head(<<x, y>>) = x
  OBVIOUS
<1>3. Tail(<<x, y>>) = <<y>>
  <2>1. PICK q : q = Tail(<<x, y>>)
    OBVIOUS
  <2>2. <<x, y>> \in Seq({x, y}) /\ <<y>> \in Seq({x, y}) /\ Len(<<x, y>>) = 2 /\ Len(<<y>>) = 1
    OBVIOUS
  <2>3. q \in Seq({x, y}) /\ Len(q) = 1 /\ q[1] = y
    BY <2>1, <2>2, HeadTailProperties
  <2>4. q = <<y>>
    BY <2>2, <2>3, SeqEqual
  <2>5. QED
    BY <2>1, <2>4
<1>4. QED
  BY <1>1, <1>2, <1>3

LEMMA ResetSeen ==
  ASSUME NEW s \in Parts
  PROVE  LET t == bus_reset_seen(s) IN
         /\ t \in Parts
         /\ t.udc = [s.udc EXCEPT !.bulk = s.drv.enabled]
         /\ t.drv = [s.drv EXCEPT !.config_seen = FALSE]
         /\ t.usbcore = [s.usbcore EXCEPT !.armed = FALSE]
<1>1. PICK u : u = [s.udc EXCEPT !.bulk = s.drv.enabled]
  OBVIOUS
<1>2. PICK d : d = [s.drv EXCEPT !.config_seen = FALSE]
  OBVIOUS
<1>3. PICK c : c = [s.usbcore EXCEPT !.armed = FALSE]
  OBVIOUS
<1>4. u \in UdcType
  BY <1>1 DEF Parts, UdcType, DrvType
<1>5. d \in DrvType /\ c \in CoreState
  BY <1>2, <1>3 DEF Parts, DrvType, CoreState
<1>6. bus_reset_seen(s) = [s EXCEPT !.udc = u, !.drv = d, !.usbcore = c]
  BY <1>1, <1>2, <1>3 DEF bus_reset_seen, Parts
<1>7. QED
  BY <1>1, <1>2, <1>3, <1>4, <1>5, <1>6 DEF Parts

\* What becomes of a SETUP that finds the core's queue empty.
SetupTakes(s, t, r) ==
  LET back == Resets(r, s)
      seen == s.drv.config_seen /\ ~back
  IN
  /\ t \in Parts
  /\ t.udc.setup = s.udc.setup /\ t.udc.sts = s.udc.sts /\ t.udc.trsize = s.udc.trsize
  /\ t.udc.sent = s.udc.sent /\ ~t.udc.tx /\ ~t.udc.rx /\ ~t.udc.stall
  /\ t.udc.bulk = IF back THEN s.drv.enabled ELSE s.udc.bulk
  /\ ~t.drv.in.busy /\ ~t.drv.out.busy /\ t.drv.out.id = s.drv.out.id
  /\ t.drv.core_configured = s.drv.core_configured
  /\ t.usbcore.sends = s.usbcore.sends /\ t.usbcore.cfg = s.usbcore.cfg
  /\ t.usbcore.eps = s.usbcore.eps /\ t.usbcore.report = s.usbcore.report
  /\ t.usbcore.armed = IF back THEN FALSE ELSE s.usbcore.armed
  /\ r.kind = "address" => t.usbcore.queue = <<>> /\ t.drv.stash = NoRequest /\ ~t.drv.config_seen
  /\ r.kind # "address" => t.drv.wlength = wLength(r)
  /\ r.kind = "configure" => t.usbcore.queue = <<r>> /\ t.drv.stash = NoRequest /\ t.drv.config_seen
  /\ r.kind \notin {"address", "configure"} /\ (seen \/ ~NeedsConfig(r)) =>
       t.usbcore.queue = <<r>> /\ t.drv.stash = NoRequest /\ (t.drv.config_seen <=> seen)
  /\ r.kind \notin {"address", "configure"} /\ ~seen /\ NeedsConfig(r) =>
       /\ t.drv.config_seen
       /\ s.drv.core_configured => t.usbcore.queue = <<SetConfig>> /\ t.drv.stash = r
       /\ ~s.drv.core_configured => t.usbcore.queue = <<SetConfig, r>> /\ t.drv.stash = NoRequest

LEMMA SetupTaken ==
  ASSUME NEW s \in Parts, NEW r \in Requests, s.usbcore.queue = <<>>, NEW t, t = ep0_setup(s, r)
  PROVE  SetupTakes(s, t, r)
<1> USE DEF SetupTakes
<1> DEFINE back == Resets(r, s)
           seen == s.drv.config_seen /\ ~back
<1>1. PICK b : b = Ended(s)
  OBVIOUS
<1>2. /\ b \in Parts /\ b.usbcore = s.usbcore
      /\ b.udc = [s.udc EXCEPT !.stall = FALSE, !.tx = FALSE, !.rx = FALSE]
      /\ ~b.drv.in.busy /\ ~b.drv.out.busy /\ b.drv.stash = NoRequest
      /\ b.drv.out.id = s.drv.out.id
      /\ b.drv.wlength = s.drv.wlength /\ b.drv.config_seen = s.drv.config_seen
      /\ b.drv.core_configured = s.drv.core_configured /\ b.drv.enabled = s.drv.enabled
  BY <1>1, RequestEnded
<1>3. PICK a : a = IF back THEN bus_reset_seen(b) ELSE b
  OBVIOUS
<1>4. /\ a \in Parts /\ ~a.drv.in.busy /\ ~a.drv.out.busy /\ a.drv.stash = NoRequest
      /\ a.drv.out.id = s.drv.out.id /\ (a.drv.config_seen <=> seen)
      /\ a.drv.core_configured = s.drv.core_configured
      /\ a.usbcore.armed = IF back THEN FALSE ELSE s.usbcore.armed
      /\ a.usbcore.queue = <<>> /\ a.usbcore.sends = s.usbcore.sends /\ a.usbcore.cfg = s.usbcore.cfg
      /\ a.usbcore.eps = s.usbcore.eps /\ a.usbcore.report = s.usbcore.report
  <2>1. CASE back
    <3>1. /\ a \in Parts /\ a.udc = [b.udc EXCEPT !.bulk = b.drv.enabled]
          /\ a.drv = [b.drv EXCEPT !.config_seen = FALSE] /\ a.usbcore = [b.usbcore EXCEPT !.armed = FALSE]
      BY <1>2, <1>3, <2>1, ResetSeen
    <3>2. QED
      BY <1>2, <2>1, <3>1 DEF Parts, DrvType, CoreState
  <2>2. CASE ~back
    BY <1>2, <1>3, <2>2
  <2>3. QED
    BY <2>1, <2>2
<1>5. /\ a.udc.setup = s.udc.setup /\ a.udc.sts = s.udc.sts /\ a.udc.trsize = s.udc.trsize
      /\ a.udc.sent = s.udc.sent /\ ~a.udc.tx /\ ~a.udc.rx /\ ~a.udc.stall
      /\ a.udc.bulk = IF back THEN s.drv.enabled ELSE s.udc.bulk
  <2>1. /\ b.udc.setup = s.udc.setup /\ b.udc.sts = s.udc.sts /\ b.udc.trsize = s.udc.trsize
        /\ b.udc.sent = s.udc.sent /\ ~b.udc.tx /\ ~b.udc.rx /\ ~b.udc.stall /\ b.udc.bulk = s.udc.bulk
    BY <1>2 DEF Parts, UdcType
  <2>2. CASE back
    <3>1. a.udc = [b.udc EXCEPT !.bulk = b.drv.enabled]
      BY <1>2, <1>3, <2>2, ResetSeen
    <3>2. QED
      BY <1>2, <2>1, <2>2, <3>1 DEF Parts, UdcType
  <2>3. CASE ~back
    BY <1>3, <2>1, <2>3
  <2>4. QED
    BY <2>2, <2>3
<1>6. PICK d : d = [a.drv EXCEPT !.wlength = wLength(r)]
  OBVIOUS
<1>7. PICK w : w = [a EXCEPT !.drv = d]
  OBVIOUS
<1>8. /\ d \in DrvType /\ d.wlength = wLength(r) /\ ~d.in.busy /\ ~d.out.busy /\ d.stash = NoRequest
      /\ d.out.id = s.drv.out.id /\ (d.config_seen <=> seen) /\ d.core_configured = s.drv.core_configured
  <2>1. wLength(r) \in Nat
    BY AnswersAreFinite
  <2>2. QED
    BY <1>4, <1>6, <2>1 DEF Parts, DrvType
<1>9. w \in Parts /\ w.udc = a.udc /\ w.drv = d /\ w.usbcore = a.usbcore
  BY <1>4, <1>7, <1>8 DEF Parts
<1>10. PICK f : f = [d EXCEPT !.config_seen = TRUE]
  OBVIOUS
<1>11. /\ f \in DrvType /\ f.wlength = wLength(r) /\ ~f.in.busy /\ ~f.out.busy /\ f.stash = NoRequest
       /\ f.out.id = s.drv.out.id /\ f.config_seen /\ f.core_configured = s.drv.core_configured
  BY <1>8, <1>10 DEF DrvType
<1>12. PICK v : v = [w EXCEPT !.drv = f]
  OBVIOUS
<1>13. v \in Parts /\ v.udc = a.udc /\ v.drv = f /\ v.usbcore = a.usbcore
  BY <1>9, <1>11, <1>12 DEF Parts
<1>14. w = [a EXCEPT !.drv.wlength = wLength(r)] /\ v = [w EXCEPT !.drv.config_seen = TRUE]
  BY <1>6, <1>7, <1>9, <1>10, <1>12
<1>15. PICK c : c = Queue(v, SetConfig)
  OBVIOUS
<1>16. c \in Parts /\ c.udc = a.udc /\ c.drv = f /\ c.usbcore.queue = <<SetConfig>>
       /\ c.usbcore.sends = a.usbcore.sends
       /\ c.usbcore.cfg = a.usbcore.cfg /\ c.usbcore.eps = a.usbcore.eps
       /\ c.usbcore.armed = a.usbcore.armed /\ c.usbcore.report = a.usbcore.report
  <2>1. /\ c \in Parts /\ c.udc = v.udc /\ c.drv = v.drv
        /\ c.usbcore.queue = Append(v.usbcore.queue, SetConfig) /\ c.usbcore.sends = v.usbcore.sends
        /\ c.usbcore.cfg = v.usbcore.cfg /\ c.usbcore.eps = v.usbcore.eps
        /\ c.usbcore.armed = v.usbcore.armed /\ c.usbcore.report = v.usbcore.report
    BY <1>13, <1>15, Queued, EventKinds
  <2>2. c.usbcore.queue = <<SetConfig>>
    BY ONLY <1>4, <1>13, <2>1, ShortQueues
  <2>3. QED
    BY <1>13, <2>1, <2>2
<1>17. r \in Events /\ r.kind # "none"
  BY EventKinds
<1>18. (Stashes(s) <=> s.drv.core_configured) /\ Writes(r) \in BOOLEAN
  BY AnswersAreFinite DEF Stashes
<1> HIDE DEF seen, back
<1>19. CASE r.kind = "address"
  <2>1. ep0_setup(s, r) = a
    BY ONLY <1>1, <1>3, <1>19, ZenonT(30) DEF ep0_setup, back
  <2>2. ~seen
    BY <1>19 DEF seen, back, Resets
  <2>3. QED
    BY <1>4, <1>5, <1>19, <2>1, <2>2 DEF seen, back
<1>20. CASE r.kind = "configure"
  <2>1. ep0_setup(s, r) = Queue(v, r)
    BY <1>1, <1>3, <1>14, <1>20, ZenonT(30) DEF ep0_setup, back
  <2>2. t = Queue(v, r)
    BY <2>1
  <2>3. /\ t \in Parts /\ t.udc = v.udc /\ t.drv = v.drv
        /\ t.usbcore.queue = Append(v.usbcore.queue, r) /\ t.usbcore.sends = v.usbcore.sends
        /\ t.usbcore.cfg = v.usbcore.cfg /\ t.usbcore.eps = v.usbcore.eps
        /\ t.usbcore.armed = v.usbcore.armed /\ t.usbcore.report = v.usbcore.report
    <3>1. v \in Parts /\ r \in Events
      BY <1>13, <1>17
    <3>2. QED
      BY ONLY <3>1, <2>2, Queued
  <2>4. t.usbcore.queue = <<r>>
    BY <1>4, <1>13, <1>16, <2>3
  <2>5. QED
    BY <1>4, <1>5, <1>11, <1>20, <1>13, <2>1, <2>2, <2>3, <2>4 DEF seen, back
<1>21. CASE r.kind \notin {"address", "configure"} /\ (seen \/ ~NeedsConfig(r))
  <2>1. ep0_setup(s, r) = Queue(w, r)
    BY <1>1, <1>3, <1>4, <1>14, <1>21, ZenonT(30) DEF ep0_setup, back
  <2>2. t = Queue(w, r)
    BY <2>1
  <2>3. /\ t \in Parts /\ t.udc = w.udc /\ t.drv = w.drv
        /\ t.usbcore.queue = Append(w.usbcore.queue, r) /\ t.usbcore.sends = w.usbcore.sends
        /\ t.usbcore.cfg = w.usbcore.cfg /\ t.usbcore.eps = w.usbcore.eps
        /\ t.usbcore.armed = w.usbcore.armed /\ t.usbcore.report = w.usbcore.report
    <3>1. w \in Parts /\ r \in Events
      BY <1>9, <1>17
    <3>2. QED
      BY ONLY <3>1, <2>2, Queued
  <2>4. t.usbcore.queue = <<r>>
    BY <1>4, <1>9, <1>16, <2>3
  <2>5. QED
    BY <1>4, <1>5, <1>8, <1>21, <1>9, <2>1, <2>2, <2>3, <2>4 DEF seen, back
<1>22. CASE r.kind \notin {"address", "configure"} /\ ~seen /\ NeedsConfig(r) /\ s.drv.core_configured
  <2>1. ep0_setup(s, r) = [c EXCEPT !.drv.stash = r]
    BY <1>1, <1>3, <1>4, <1>14, <1>15, <1>18, <1>22, ZenonT(30) DEF ep0_setup, back
  <2>2. PICK h : h = [f EXCEPT !.stash = r]
    OBVIOUS
  <2>3. /\ h \in DrvType /\ h.wlength = wLength(r) /\ ~h.in.busy /\ ~h.out.busy /\ h.stash = r
        /\ h.out.id = s.drv.out.id /\ h.config_seen /\ h.core_configured = s.drv.core_configured
    BY <1>11, <2>2 DEF DrvType
  <2>4. t = [c EXCEPT !.drv = h]
    BY <1>16, <2>1, <2>2
  <2>5. t \in Parts /\ t.udc = a.udc /\ t.drv = h /\ t.usbcore = c.usbcore
    BY <1>16, <2>3, <2>4 DEF Parts
  <2>7. QED
    BY <1>4, <1>5, <1>16, <1>22, <2>3, <2>5, ZenonT(40) DEF seen, back
<1>23. CASE r.kind \notin {"address", "configure"} /\ ~seen /\ NeedsConfig(r) /\ ~s.drv.core_configured
  <2>1. ep0_setup(s, r) = Queue(c, r)
    BY <1>1, <1>3, <1>4, <1>14, <1>15, <1>18, <1>23, ZenonT(30) DEF ep0_setup, back
  <2>2. t = Queue(c, r)
    BY <2>1
  <2>3. /\ t \in Parts /\ t.udc = c.udc /\ t.drv = c.drv
        /\ t.usbcore.queue = Append(c.usbcore.queue, r) /\ t.usbcore.sends = c.usbcore.sends
        /\ t.usbcore.cfg = c.usbcore.cfg /\ t.usbcore.eps = c.usbcore.eps
        /\ t.usbcore.armed = c.usbcore.armed /\ t.usbcore.report = c.usbcore.report
    <3>1. c \in Parts /\ r \in Events
      BY <1>16, <1>17
    <3>2. QED
      BY ONLY <3>1, <2>2, Queued
  <2>4. t.usbcore.queue = <<SetConfig, r>>
    BY ONLY <1>16, <2>3, ShortQueues
  <2>5. QED
    BY <1>4, <1>5, <1>11, <1>23, <1>16, <2>1, <2>2, <2>3, <2>4 DEF seen, back
<1>24. QED
  BY <1>19, <1>20, <1>21, <1>22, <1>23

LEMMA StashDelivered ==
  ASSUME NEW s \in Parts
  PROVE  LET t == deliver_stashed_setup(s) IN
         /\ t \in Parts /\ t.udc = s.udc /\ t.drv.in = s.drv.in /\ t.drv.out = s.drv.out
         /\ t.drv.wlength = s.drv.wlength /\ t.drv.config_seen = s.drv.config_seen
         /\ t.drv.core_configured = s.drv.core_configured /\ t.drv.stash = NoRequest
         /\ t.usbcore.queue = IF s.drv.stash = NoRequest THEN s.usbcore.queue
                               ELSE Append(s.usbcore.queue, s.drv.stash)
         /\ t.usbcore.sends = s.usbcore.sends
         /\ t.usbcore.cfg = s.usbcore.cfg /\ t.usbcore.eps = s.usbcore.eps
         /\ t.usbcore.armed = s.usbcore.armed /\ t.usbcore.report = s.usbcore.report
<1>1. CASE s.drv.stash = NoRequest
  <2>1. deliver_stashed_setup(s) = s
    BY <1>1 DEF deliver_stashed_setup
  <2>2. QED
    BY <1>1, <2>1
<1>2. CASE s.drv.stash # NoRequest
  <2>1. PICK d : d = [s.drv EXCEPT !.stash = NoRequest]
    OBVIOUS
  <2>2. /\ d \in DrvType /\ d.in = s.drv.in /\ d.out = s.drv.out
        /\ d.wlength = s.drv.wlength /\ d.config_seen = s.drv.config_seen
        /\ d.core_configured = s.drv.core_configured /\ d.stash = NoRequest
    BY <2>1 DEF Parts, DrvType
  <2>3. PICK w : w = [s EXCEPT !.drv = d]
    OBVIOUS
  <2>4. w \in Parts /\ w.udc = s.udc /\ w.drv = d /\ w.usbcore = s.usbcore
    BY <2>2, <2>3 DEF Parts
  <2>5. s.drv.stash \in Events
    BY <1>2 DEF Parts, DrvType, Events
  <2>6. PICK t : t = Queue(w, s.drv.stash)
    OBVIOUS
  <2>7. deliver_stashed_setup(s) = t
    BY <1>2, <2>1, <2>3, <2>6 DEF deliver_stashed_setup, Parts
  <2>8. /\ t \in Parts /\ t.udc = w.udc /\ t.drv = w.drv
        /\ t.usbcore.queue = Append(w.usbcore.queue, s.drv.stash) /\ t.usbcore.sends = w.usbcore.sends
        /\ t.usbcore.cfg = w.usbcore.cfg /\ t.usbcore.eps = w.usbcore.eps
        /\ t.usbcore.armed = w.usbcore.armed /\ t.usbcore.report = w.usbcore.report
    BY <2>4, <2>5, <2>6, Queued
  <2>9. QED
    BY <1>2, <2>2, <2>4, <2>7, <2>8
<1>3. QED
  BY <1>1, <1>2

\* The core has activated a configuration.
ConfiguredAs(s, t, eps) ==
  LET left == IF s.usbcore.cfg THEN <<>> ELSE s.usbcore.queue IN
  /\ t \in Parts
  /\ t.udc.setup = s.udc.setup /\ t.udc.rx = s.udc.rx /\ t.udc.stall = s.udc.stall
  /\ t.udc.sts = s.udc.sts /\ t.udc.tx = s.udc.tx /\ t.udc.fifo = s.udc.fifo
  /\ t.udc.trsize = s.udc.trsize /\ t.udc.sent = s.udc.sent /\ t.udc.bulk = eps
  /\ t.drv.in = s.drv.in /\ t.drv.out = s.drv.out
  /\ t.drv.wlength = s.drv.wlength /\ t.drv.config_seen = s.drv.config_seen
  /\ (t.drv.core_configured <=> s.drv.core_configured \/ eps)
  /\ t.drv.stash = IF eps THEN NoRequest ELSE s.drv.stash
  /\ t.usbcore.queue = IF eps /\ s.drv.stash # NoRequest THEN Append(left, s.drv.stash) ELSE left
  /\ t.usbcore.sends = s.usbcore.sends /\ t.usbcore.report = s.usbcore.report
  /\ t.usbcore.cfg = TRUE /\ t.usbcore.eps = eps /\ t.usbcore.armed = eps

LEMMA ConfigurationActivated ==
  ASSUME NEW s \in Parts, NEW eps \in BOOLEAN, NEW t, t = Activated(s, eps)
  PROVE  ConfiguredAs(s, t, eps)
<1> USE DEF ConfiguredAs
<1>1. PICK left : left = IF s.usbcore.cfg THEN <<>> ELSE s.usbcore.queue
  OBVIOUS
<1>2. left \in Seq(Events)
  <2>1. s.usbcore.queue \in Seq(Events) /\ <<>> \in Seq(Events)
    BY DEF Parts, CoreState
  <2>2. QED
    BY <1>1, <2>1
<1>3. PICK c : c = [s.usbcore EXCEPT !.queue = left, !.cfg = TRUE, !.eps = eps, !.armed = eps]
  OBVIOUS
<1>4. /\ c \in CoreState /\ c.queue = left /\ c.sends = s.usbcore.sends
      /\ c.report = s.usbcore.report /\ c.cfg = TRUE /\ c.eps = eps /\ c.armed = eps
  BY <1>2, <1>3 DEF Parts, CoreState
<1>5. PICK u : u = [s.udc EXCEPT !.bulk = eps]
  OBVIOUS
<1>6. /\ u \in UdcType
      /\ u.setup = s.udc.setup /\ u.rx = s.udc.rx /\ u.stall = s.udc.stall
      /\ u.sts = s.udc.sts /\ u.tx = s.udc.tx /\ u.fifo = s.udc.fifo
      /\ u.trsize = s.udc.trsize /\ u.sent = s.udc.sent /\ u.bulk = eps
  BY <1>5 DEF Parts, UdcType
<1>7. PICK d : d = [s.drv EXCEPT !.enabled = eps]
  OBVIOUS
<1>8. /\ d \in DrvType /\ d.in = s.drv.in /\ d.out = s.drv.out
      /\ d.wlength = s.drv.wlength /\ d.config_seen = s.drv.config_seen
      /\ d.core_configured = s.drv.core_configured /\ d.stash = s.drv.stash
  BY <1>7 DEF Parts, DrvType
<1>9. PICK w : w = [s EXCEPT !.usbcore = c, !.drv = d, !.udc = u]
  OBVIOUS
<1>10. w \in Parts /\ w.udc = u /\ w.drv = d /\ w.usbcore = c
  BY <1>4, <1>6, <1>8, <1>9 DEF Parts
<1>11. w = [s EXCEPT !.usbcore.queue = left, !.usbcore.cfg = TRUE, !.usbcore.eps = eps,
                     !.usbcore.armed = eps, !.drv.enabled = eps, !.udc.bulk = eps]
  BY <1>3, <1>5, <1>7, <1>9 DEF Parts
<1>12. CASE eps
  <2>1. PICK f : f = [d EXCEPT !.core_configured = TRUE]
    OBVIOUS
  <2>2. /\ f \in DrvType /\ f.in = s.drv.in /\ f.out = s.drv.out
        /\ f.wlength = s.drv.wlength /\ f.config_seen = s.drv.config_seen
        /\ f.core_configured = TRUE /\ f.stash = s.drv.stash
    BY <1>8, <2>1 DEF DrvType
  <2>3. PICK v : v = [w EXCEPT !.drv = f]
    OBVIOUS
  <2>4. v \in Parts /\ v.udc = u /\ v.drv = f /\ v.usbcore = c
    BY <1>10, <2>2, <2>3 DEF Parts
  <2>5. v = [w EXCEPT !.drv.core_configured = TRUE]
    BY <1>10, <2>1, <2>3
  <2>6. Activated(s, eps) = deliver_stashed_setup(v)
    BY <1>1, <1>11, <1>12, <2>5, ZenonT(30) DEF Activated
  <2>7. t = deliver_stashed_setup(v)
    BY <2>6
  <2>8. /\ t \in Parts /\ t.udc = v.udc /\ t.drv.in = v.drv.in /\ t.drv.out = v.drv.out
        /\ t.drv.wlength = v.drv.wlength /\ t.drv.config_seen = v.drv.config_seen
        /\ t.drv.core_configured = v.drv.core_configured /\ t.drv.stash = NoRequest
        /\ t.usbcore.queue = IF v.drv.stash = NoRequest THEN v.usbcore.queue
                              ELSE Append(v.usbcore.queue, v.drv.stash)
        /\ t.usbcore.sends = v.usbcore.sends
        /\ t.usbcore.cfg = v.usbcore.cfg /\ t.usbcore.eps = v.usbcore.eps
        /\ t.usbcore.armed = v.usbcore.armed /\ t.usbcore.report = v.usbcore.report
    BY <2>4, <2>7, StashDelivered
  <2>9. QED
    BY <1>1, <1>4, <1>6, <1>12, <2>2, <2>4, <2>6, <2>7, <2>8, ZenonT(40)
<1>13. CASE ~eps
  <2>1. Activated(s, eps) = w
    BY <1>1, <1>11, <1>13, ZenonT(30) DEF Activated
  <2>2. QED
    BY <1>1, <1>4, <1>6, <1>8, <1>10, <1>13, <2>1
<1>14. QED
  BY <1>12, <1>13

LEMMA QueueShrinks ==
  ASSUME NEW q \in Seq(Events), NEW n \in Nat, q # <<>>
  PROVE  /\ Head(q) \in Events /\ Tail(q) \in Seq(Events)
         /\ LaterThan(q, n) => LaterThan(Tail(q), n) /\ (Head(q) # SetConfig => Head(q).id > n)
         /\ Plain(Tail(q)) /\ Head(q).kind \notin {"set_config", "configure"} => Plain(q)
<1>1. /\ Head(q) \in Events /\ Tail(q) \in Seq(Events)
  BY HeadTailProperties
<1>2. DOMAIN q = 1 .. Len(q) /\ Len(q) \in Nat \ {0} /\ Head(q) = q[1]
      /\ DOMAIN Tail(q) = 1 .. Len(q) - 1 /\ \A i \in 1 .. Len(q) - 1 : Tail(q)[i] = q[i + 1]
  BY HeadTailProperties, EmptySeq
<1>3. ASSUME LaterThan(q, n)
      PROVE  LaterThan(Tail(q), n) /\ (Head(q) # SetConfig => Head(q).id > n)
  <2>1. Head(q) # SetConfig => Head(q).id > n
    BY <1>2, <1>3 DEF LaterThan
  <2>2. ASSUME NEW i \in DOMAIN Tail(q), Tail(q)[i] # SetConfig
        PROVE  Tail(q)[i].id > n
    <3>1. i + 1 \in DOMAIN q /\ Tail(q)[i] = q[i + 1]
      BY <1>2
    <3>2. QED
      BY <1>3, <2>2, <3>1 DEF LaterThan
  <2>3. QED
    BY <2>1, <2>2 DEF LaterThan
<1>4. ASSUME Plain(Tail(q)), Head(q).kind \notin {"set_config", "configure"}
      PROVE  Plain(q)
  <2>1. ASSUME NEW i \in DOMAIN q
        PROVE  q[i].kind \notin {"set_config", "configure"}
    <3>1. CASE i = 1
      BY <1>2, <1>4, <3>1
    <3>2. CASE i # 1
      <4>1. i - 1 \in 1 .. Len(q) - 1 /\ Tail(q)[i - 1] = q[(i - 1) + 1] /\ (i - 1) + 1 = i
        BY <1>2, <3>2
      <4>2. QED
        BY <1>2, <1>4, <4>1 DEF Plain
    <3>3. QED
      BY <3>1, <3>2
  <2>2. QED
    BY <2>1 DEF Plain
<1>5. QED
  BY <1>1, <1>3, <1>4

LEMMA QueueGrows ==
  ASSUME NEW q \in Seq(Events), NEW n \in Nat, NEW x \in Events, LaterThan(q, n),
         x # SetConfig => x.id > n
  PROVE  LaterThan(Append(q, x), n)
<1>1. DOMAIN q = 1 .. Len(q) /\ Len(q) \in Nat /\ DOMAIN Append(q, x) = 1 .. Len(q) + 1
      /\ Append(q, x)[Len(q) + 1] = x /\ \A i \in 1 .. Len(q) : Append(q, x)[i] = q[i]
  BY AppendProperties
<1>2. ASSUME NEW i \in DOMAIN Append(q, x), Append(q, x)[i] # SetConfig
      PROVE  Append(q, x)[i].id > n
  BY <1>1, <1>2 DEF LaterThan
<1>3. QED
  BY <1>2 DEF LaterThan

LEMMA QueuesOfASetup ==
  ASSUME NEW x \in Requests, NEW n \in Nat
  PROVE  /\ LaterThan(<<>>, n) /\ LaterThan(<<SetConfig>>, n) /\ Plain(<<>>)
         /\ x.id > n => LaterThan(<<x>>, n) /\ LaterThan(<<SetConfig, x>>, n)
         /\ ~Plain(<<SetConfig>>) /\ ~Plain(<<SetConfig, x>>)
         /\ x.kind = "configure" => ~Plain(<<x>>)
<1>1. LaterThan(<<>>, n) /\ Plain(<<>>)
  BY DEF LaterThan, Plain
<1>2. LaterThan(<<SetConfig>>, n)
  BY DEF LaterThan
<1>3. ASSUME x.id > n
      PROVE  LaterThan(<<x>>, n) /\ LaterThan(<<SetConfig, x>>, n)
  BY <1>3 DEF LaterThan
<1>4. ~Plain(<<SetConfig>>)
  <2>1. 1 \in DOMAIN <<SetConfig>> /\ <<SetConfig>>[1].kind = "set_config"
    BY DEF SetConfig
  <2>2. QED
    BY <2>1 DEF Plain
<1>5. ~Plain(<<SetConfig, x>>)
  <2>1. 1 \in DOMAIN <<SetConfig, x>> /\ <<SetConfig, x>>[1].kind = "set_config"
    BY DEF SetConfig
  <2>2. QED
    BY <2>1 DEF Plain
<1>6. x.kind = "configure" => ~Plain(<<x>>)
  <2>1. 1 \in DOMAIN <<x>> /\ <<x>>[1] = x
    OBVIOUS
  <2>2. QED
    BY <2>1 DEF Plain
<1>7. QED
  BY <1>1, <1>2, <1>3, <1>4, <1>5, <1>6

LEMMA TheParts ==
  ASSUME CtlTypes
  PROVE  State \in Parts /\ State.udc = udc /\ State.drv = drv /\ State.usbcore = usbcore
BY DEF CtlTypes, State, Parts

LEMMA CtlInvInit ==
  ASSUME RcInit
  PROVE  CtlInv
<1> USE DEF RcInit
<1>1. CtlTypes
  <2>1. udc \in UdcType
    BY DEF UdcType, NoRequest
  <2>2. NoTransfer \in Move
    BY DEF NoTransfer, Move
  <2>3. drv \in DrvType
    BY <2>2 DEF DrvType, NoRequest
  <2>4. usbcore \in CoreState
    BY DEF CoreState
  <2>5. host \in HostType /\ made \in [requests : Nat, resets : Nat, giveups : Nat]
    BY DEF HostType, NoRequest
  <2>6. QED
    BY <2>1, <2>3, <2>4, <2>5 DEF CtlTypes
<1>2. SetupFirst /\ OnItsWay /\ Answered
  BY DEF SetupFirst, OnItsWay, Answered, Reads, Writing, Latched
<1>3. Reported
  BY DEF Reported, Reads, Writing, Latched, Arrived, LaterThan, NoRequest, NoTransfer
<1>4. Enumerated
  BY DEF Enumerated, Settled, Latched, NoRequest, NeedsConfig
<1>5. QED
  BY <1>1, <1>2, <1>3, <1>4 DEF CtlInv

LEMMA SendReturnsInv ==
  ASSUME CtlInv, SendReturns
  PROVE  CtlInv'
<1>1. CtlTypes
  BY DEF CtlInv
<1>2. PICK i : i = [drv.in EXCEPT !.busy = FALSE]
  OBVIOUS
<1>3. i \in Move /\ ~i.busy
  BY <1>1, <1>2 DEF CtlTypes, DrvType, Move
<1>4. udc' = udc /\ drv' = [drv EXCEPT !.in = i] /\ usbcore' = [usbcore EXCEPT !.sends = 0]
      /\ host' = host /\ made' = made
  BY <1>2, <1>1 DEF SendReturns, Becomes, State, CtlTypes, DrvType
<1>5. /\ drv'.in = i /\ drv'.out = drv.out /\ drv'.wlength = drv.wlength
      /\ drv'.config_seen = drv.config_seen /\ drv'.core_configured = drv.core_configured
      /\ drv'.stash = drv.stash /\ drv' \in DrvType
  BY <1>1, <1>3, <1>4 DEF CtlTypes, DrvType
<1>6. /\ usbcore'.queue = usbcore.queue /\ usbcore'.cfg = usbcore.cfg /\ usbcore'.eps = usbcore.eps
      /\ usbcore'.armed = usbcore.armed /\ usbcore'.report = usbcore.report /\ usbcore' \in CoreState
  BY <1>1, <1>4 DEF CtlTypes, CoreState
<1>7. CtlTypes'
  BY <1>1, <1>4, <1>5, <1>6 DEF CtlTypes
<1>8. SetupFirst'
  BY <1>4, <1>5, <1>6 DEF CtlInv, SetupFirst, Latched
<1>9. OnItsWay'
  BY <1>3, <1>4, <1>5, <1>6 DEF CtlInv, OnItsWay, Reads, Writing, Latched
<1>10. Answered'
  BY <1>3, <1>4, <1>5, <1>6 DEF CtlInv, Answered, Reads, Latched, Due
<1>11. Reported'
  BY <1>3, <1>4, <1>5, <1>6 DEF CtlInv, Reported, Writing, Latched, PacketEnd, Arrived
<1>12. Enumerated'
  BY <1>4, <1>5, <1>6 DEF CtlInv, Enumerated, Latched, Settled
<1>13. QED
  BY <1>4, <1>7, <1>8, <1>9, <1>10, <1>11, <1>12 DEF CtlInv

LEMMA HostInInv ==
  ASSUME CtlInv, HostIn
  PROVE  CtlInv'
<1>1. CtlTypes
  BY DEF CtlInv
<1>2. Reads /\ ~host.ended
  BY <1>1, AnswersAreFinite DEF HostIn, Asking, Reads, CtlTypes, HostType
<1>3. drv' = drv /\ usbcore' = usbcore /\ made' = made
  BY DEF HostIn
<1>4. ~Writing
  BY <1>2 DEF Reads, Writing
<1>5. CASE udc.trsize > 0 /\ udc.sent >= udc.trsize
  <2>1. udc' = udc /\ host' = [host EXCEPT !.ended = TRUE, !.good = @ /\ host.got = Due]
    BY <1>5 DEF HostIn, Due
  <2>2. host.got = Due
    BY <1>1, <1>2, <1>5, AnswersAreFinite DEF CtlInv, Answered, CtlTypes, UdcType, HostType, Due
  <2>3. /\ host' \in HostType /\ host'.stage = host.stage /\ host'.req = host.req /\ host'.got = host.got
        /\ host'.sent = host.sent /\ host'.good
    BY <1>1, <2>1, <2>2 DEF CtlInv, CtlTypes, HostType
  <2>4. host.got > 0
    BY <1>1, <1>2, <1>5 DEF CtlInv, Answered, CtlTypes, UdcType, HostType
  <2>5. ~Latched /\ (usbcore.queue = <<>> /\ drv.stash = NoRequest)
    BY <1>1, <1>2, <2>4 DEF CtlInv, OnItsWay, SetupFirst, CtlTypes, HostType
  <2>6. CtlTypes'
    BY <1>1, <1>3, <2>1, <2>3 DEF CtlTypes
  <2>7. SetupFirst' /\ OnItsWay'
    BY <1>2, <1>3, <2>1, <2>3, <2>5 DEF CtlInv, SetupFirst, OnItsWay, Reads, Writing, Latched
  <2>8. Answered'
    BY <1>3, <2>1, <2>3 DEF CtlInv, Answered, Reads, Latched, PacketEnd, Due
  <2>9. Reported'
    BY <1>3, <1>4, <2>1, <2>3 DEF CtlInv, Reported, Writing, Latched, PacketEnd, Arrived
  <2>10. Enumerated'
    BY <1>3, <2>1, <2>3 DEF CtlInv, Enumerated, Latched, Settled
  <2>11. QED
    BY <2>3, <2>6, <2>7, <2>8, <2>9, <2>10 DEF CtlInv
<1>6. CASE ~(udc.trsize > 0 /\ udc.sent >= udc.trsize)
  <2>1. /\ udc.tx /\ udc.fifo # <<>>
        /\ host' = [host EXCEPT !.got = @ + 1, !.ended = Full,
                                !.good = @ /\ udc.fifo = <<host.req.id, host.got + 1>>]
        /\ LET all == udc.sent + 1 >= udc.trsize IN
           udc' = [udc EXCEPT !.fifo = <<>>, !.sent = @ + 1, !.tx = ~all,
                              !.sts = @ \cup IF all THEN {"xact", "done"} ELSE {"xact"}]
    BY <1>6 DEF HostIn
  <2>2. ~Latched
    BY <2>1 DEF CtlInv, SetupFirst
  <2>3. /\ udc.fifo = <<host.req.id, host.got + 1>> /\ host.got < Due /\ udc.trsize = Due
        /\ udc.sent = host.got
    BY <1>2, <2>1 DEF CtlInv, Answered
  <2>4. usbcore.queue = <<>> /\ drv.stash = NoRequest
    BY <1>2, <2>1, <2>2 DEF CtlInv, OnItsWay
  <2>5. /\ host' \in HostType /\ host'.stage = host.stage /\ host'.req = host.req
        /\ host'.got = host.got + 1 /\ host'.sent = host.sent /\ host'.good
    <3>1. Full \in BOOLEAN /\ host.got \in Nat /\ host \in HostType /\ host.good
      BY <1>1 DEF Full, CtlTypes, HostType, CtlInv
    <3>2. PICK n : n = host.got + 1
      OBVIOUS
    <3>3. PICK f \in BOOLEAN : f = Full
      BY <3>1
    <3>4. host' = [host EXCEPT !.got = n, !.ended = f, !.good = TRUE]
      BY <2>1, <2>3, <3>1, <3>2, <3>3
    <3>5. n \in Nat
      BY <3>1, <3>2
    <3>6. QED
      BY <3>1, <3>2, <3>4, <3>5 DEF HostType
  <2>6. /\ udc' \in UdcType /\ udc'.setup = udc.setup /\ udc'.rx = udc.rx /\ udc'.stall = udc.stall
        /\ udc'.fifo = <<>> /\ udc'.sent = udc.sent + 1 /\ udc'.trsize = udc.trsize
        /\ udc'.bulk = udc.bulk /\ "setup" \notin udc'.sts /\ "xact" \in udc'.sts
    <3>1. PICK b \in BOOLEAN : b = ~(udc.sent + 1 >= udc.trsize)
      OBVIOUS
    <3>2. PICK a : a = udc.sts \cup (IF udc.sent + 1 >= udc.trsize THEN {"xact", "done"} ELSE {"xact"})
      OBVIOUS
    <3>3. a \in SUBSET {"setup", "xact", "done"} /\ "setup" \notin a /\ "xact" \in a
      BY <1>1, <2>2, <3>2 DEF CtlTypes, UdcType, Latched
    <3>4. PICK n : n = udc.sent + 1
      OBVIOUS
    <3>5. udc' = [udc EXCEPT !.fifo = <<>>, !.sent = n, !.tx = b, !.sts = a]
      BY <2>1, <3>1, <3>2, <3>4
    <3>6. n \in Nat /\ udc \in UdcType
      BY <1>1, <3>4 DEF CtlTypes, UdcType
    <3>7. QED
      BY <3>1, <3>3, <3>4, <3>5, <3>6 DEF UdcType
  <2>7. CtlTypes'
    BY <1>1, <1>3, <2>5, <2>6 DEF CtlTypes
  <2>8. SetupFirst' /\ OnItsWay'
    BY <1>3, <2>2, <2>4, <2>5, <2>6 DEF SetupFirst, OnItsWay, Latched
  <2>9. Answered'
    <3>1. ~(drv.out.busy /\ drv.out.armed)
      BY <1>2, <2>2 DEF CtlInv, Answered
    <3>2. drv.in.busy => /\ drv.in.id = host.req.id /\ drv.in.len = Due
                         /\ drv.in.done < Due /\ usbcore.sends = drv.in.id /\ host.got = drv.in.done
      BY <1>2, <2>1, <2>2 DEF CtlInv, Answered
    <3>3. Due' = Due /\ (Reads' <=> Reads) /\ PacketEnd' /\ Due \in Nat /\ host.got \in Nat
      BY <1>1, <2>5, <2>6, AnswersAreFinite DEF Due, Reads, PacketEnd, CtlTypes, HostType
    <3>4. host'.got <= Due /\ host'.got > 0
      BY <2>3, <2>5, <3>3
    <3>5. QED
      BY <1>3, <2>3, <2>5, <2>6, <3>1, <3>2, <3>3, <3>4 DEF Answered
  <2>10. Reported'
    BY <1>3, <1>4, <2>5, <2>6 DEF CtlInv, Reported, Writing, Latched, PacketEnd, Arrived
  <2>11. Enumerated'
    BY <1>3, <2>2, <2>5, <2>6 DEF CtlInv, Enumerated, Latched, Settled
  <2>12. QED
    BY <2>5, <2>7, <2>8, <2>9, <2>10, <2>11 DEF CtlInv
<1>7. QED
  BY <1>5, <1>6

LEMMA HostOutInv ==
  ASSUME CtlInv, HostOut
  PROVE  CtlInv'
<1>1. CtlTypes
  BY DEF CtlInv
<1>2. Writing /\ ~Reads /\ ~host.ended /\ udc.rx
  BY <1>1, AnswersAreFinite DEF HostOut, Asking, Reads, Writing, CtlTypes, HostType
<1>3. ~Latched
  BY <1>2 DEF CtlInv, SetupFirst
<1>4. /\ drv.out.busy /\ drv.out.armed /\ drv.out.id = host.req.id /\ drv.out.len = 2
      /\ drv.out.done < 2 /\ ~PacketEnd /\ host.got = drv.out.done /\ ~drv.in.busy
  BY <1>2, <1>3 DEF CtlInv, Reported
<1>5. usbcore.queue = <<>> /\ drv.stash = NoRequest
  BY <1>2, <1>3 DEF CtlInv, OnItsWay
<1>6. drv' = drv /\ usbcore' = usbcore /\ made' = made
  BY DEF HostOut
<1>7. /\ udc' \in UdcType /\ udc'.setup = udc.setup /\ ~udc'.rx /\ udc'.stall = udc.stall
      /\ udc'.fifo = udc.fifo /\ udc'.sent = udc.sent /\ udc'.trsize = udc.trsize
      /\ udc'.bulk = udc.bulk /\ udc'.tx = udc.tx /\ "setup" \notin udc'.sts /\ "xact" \in udc'.sts
  BY <1>1, <1>3 DEF HostOut, CtlTypes, UdcType, Latched
<1>8. /\ host' \in HostType /\ host'.stage = host.stage /\ host'.req = host.req /\ host'.good = host.good
      /\ host'.got = host.got + 1 /\ host'.sent = host.sent /\ (host'.ended <=> host.got + 1 = 2)
  <2>1. wLength(host.req) = 2
    BY <1>2 DEF Writing, Writes, wLength
  <2>2. PICK f \in BOOLEAN : f <=> host.got + 1 = 2
    OBVIOUS
  <2>3. PICK n : n = host.got + 1
    OBVIOUS
  <2>4. host' = [host EXCEPT !.got = n, !.ended = f]
    BY <2>1, <2>2, <2>3 DEF HostOut, Full
  <2>5. n \in Nat /\ host \in HostType
    BY <1>1, <2>3 DEF CtlTypes, HostType
  <2>6. /\ host' \in HostType /\ host'.stage = host.stage /\ host'.req = host.req
        /\ host'.good = host.good /\ host'.got = n /\ host'.sent = host.sent /\ host'.ended = f
    BY ONLY <2>2, <2>4, <2>5 DEF HostType
  <2>7. QED
    BY ONLY <2>2, <2>3, <2>6
<1>9. CtlTypes'
  BY <1>1, <1>6, <1>7, <1>8 DEF CtlTypes
<1>10. SetupFirst' /\ OnItsWay'
  BY <1>5, <1>6, <1>7, <1>8 DEF SetupFirst, OnItsWay, Latched
<1>11. Answered'
  BY <1>2, <1>8 DEF Answered, Reads
<1>12. Reported'
  <2>1. host.got \in Nat /\ drv.out.done \in Nat
    BY <1>1 DEF CtlTypes, HostType, DrvType, Move
  <2>2. (Writing /\ host.ended)' => Arrived(host.req.id)'
    BY <1>4, <1>6, <1>7, <1>8, <2>1 DEF Arrived, PacketEnd
  <2>3. host.sent # 0 => Arrived(host.sent)'
    BY <1>6, <1>7, <1>8 DEF CtlInv, Reported, Arrived, PacketEnd
  <2>4. QED
    BY <1>2, <1>4, <1>6, <1>7, <1>8, <2>2, <2>3 DEF CtlInv, Reported, Writing, Latched, PacketEnd, Arrived
<1>13. Enumerated'
  BY <1>3, <1>6, <1>7, <1>8 DEF CtlInv, Enumerated, Latched, Settled
<1>14. QED
  BY <1>8, <1>9, <1>10, <1>11, <1>12, <1>13 DEF CtlInv

LEMMA HostEndsInv ==
  ASSUME CtlInv, HostEnds
  PROVE  CtlInv'
<1>1. CtlTypes
  BY DEF CtlInv
<1>2. drv' = drv /\ usbcore' = usbcore /\ made' = made /\ host.req # NoRequest
  BY DEF HostEnds
<1>3. PICK n : n = IF Writes(host.req) /\ host.ended THEN host.req.id ELSE host.sent
  OBVIOUS
<1>4. n \in Nat
  BY <1>1, <1>2, <1>3 DEF CtlTypes, HostType, Requests
<1>5. /\ host' \in HostType /\ host'.stage = host.stage /\ host'.req = NoRequest /\ host'.good = host.good
      /\ host'.got = host.got /\ host'.sent = n /\ host'.ended = host.ended
  <2>1. host' = [host EXCEPT !.req = NoRequest, !.sent = n]
    BY <1>3 DEF HostEnds
  <2>2. QED
    BY <1>1, <1>4, <2>1 DEF CtlTypes, HostType
<1>6. /\ udc' \in UdcType /\ udc'.setup = udc.setup /\ udc'.rx = udc.rx /\ udc'.stall = udc.stall
      /\ udc'.fifo = udc.fifo /\ udc'.sent = udc.sent /\ udc'.trsize = udc.trsize
      /\ udc'.bulk = udc.bulk /\ udc'.tx = udc.tx /\ udc'.sts = udc.sts
  BY <1>1 DEF HostEnds, CtlTypes, UdcType
<1>7. ~Reads' /\ ~Writing'
  BY <1>5 DEF Reads, Writing
<1>8. CtlTypes'
  BY <1>1, <1>2, <1>5, <1>6 DEF CtlTypes
<1>9. SetupFirst'
  <2>1. Latched => n = host.sent
    BY <1>3 DEF CtlInv, SetupFirst
  <2>2. Latched => wLength(udc.setup) = 0
    BY <1>2 DEF CtlInv, SetupFirst, HostEnds
  <2>3. QED
    BY <1>2, <1>5, <1>6, <2>1, <2>2 DEF CtlInv, SetupFirst, Latched
<1>10. OnItsWay' /\ Answered'
  BY <1>7 DEF OnItsWay, Answered
<1>11. Reported'
  <2>1. CASE Writes(host.req) /\ host.ended
    <3>1. Writing /\ ~Latched /\ n = host.req.id
      BY <1>2, <1>3, <2>1 DEF Writing, CtlInv, SetupFirst
    <3>2. usbcore.queue = <<>> /\ drv.stash = NoRequest
      BY <2>1, <3>1 DEF CtlInv, OnItsWay
    <3>3. Arrived(n) /\ n <= made.requests
      BY <2>1, <3>1 DEF CtlInv, Reported
    <3>4. drv.out.busy /\ drv.out.armed => drv.out.id = n
      BY <3>1 DEF CtlInv, Reported
    <3>5. LaterThan(usbcore.queue, n)
      BY <3>2 DEF LaterThan
    <3>6. Arrived(n)'
      BY <1>2, <1>6, <3>3 DEF Arrived, PacketEnd
    <3>7. host'.req.id <= made.requests
      BY <1>1, <1>5 DEF NoRequest, CtlTypes
    <3>8. QED
      BY <1>2, <1>4, <1>5, <1>7, <3>2, <3>3, <3>4, <3>5, <3>6, <3>7 DEF Reported
  <2>2. CASE ~(Writes(host.req) /\ host.ended)
    <3>1. n = host.sent
      BY <1>3, <2>2
    <3>2. host.sent # 0 => Arrived(host.sent)'
      BY <1>2, <1>5, <1>6, <3>1 DEF CtlInv, Reported, Arrived, PacketEnd
    <3>3. host'.req.id <= made.requests
      BY <1>1, <1>5 DEF NoRequest, CtlTypes
    <3>4. QED
      BY <1>2, <1>5, <1>7, <3>1, <3>2, <3>3 DEF CtlInv, Reported
  <2>3. QED
    BY <2>1, <2>2
<1>12. Enumerated'
  BY <1>2, <1>5, <1>6, EventKinds DEF CtlInv, Enumerated, Latched, Settled
<1>13. QED
  BY <1>5, <1>8, <1>9, <1>10, <1>11, <1>12 DEF CtlInv

LEMMA BusResetInv ==
  ASSUME CtlInv, BusReset
  PROVE  CtlInv'
<1>1. CtlTypes
  BY DEF CtlInv
<1>2. drv' = drv /\ made'.requests = made.requests /\ made' \in [requests : Nat, resets : Nat, giveups : Nat]
  BY <1>1 DEF BusReset, CtlTypes
<1>3. /\ usbcore' \in CoreState /\ usbcore'.queue = usbcore.queue /\ usbcore'.cfg = usbcore.cfg
  BY <1>1 DEF BusReset, CtlTypes, CoreState
<1>4. PICK g : g = IF host.stage = "opened" THEN "again" ELSE "reset"
  OBVIOUS
<1>5. /\ host' \in HostType /\ host'.stage = g /\ host'.req = NoRequest /\ host'.good = host.good
      /\ host'.sent = 0
  <2>1. host' = [host EXCEPT !.stage = g, !.req = NoRequest, !.sent = 0]
    BY <1>4 DEF BusReset
  <2>2. g \in {"again", "reset"}
    BY <1>4
  <2>3. QED
    BY <1>1, <2>1, <2>2 DEF CtlTypes, HostType
<1>6. udc' \in UdcType /\ udc'.sts = {} /\ udc.sts = {}
  BY <1>1 DEF BusReset, CtlTypes, UdcType
<1>7. ~Reads' /\ ~Writing' /\ ~Latched' /\ ~Latched
  BY <1>5, <1>6 DEF Reads, Writing, Latched
<1>8. CtlTypes'
  BY <1>1, <1>2, <1>3, <1>5, <1>6 DEF CtlTypes
<1>9. SetupFirst' /\ OnItsWay' /\ Answered'
  BY <1>7 DEF SetupFirst, OnItsWay, Answered
<1>10. Reported'
  <2>1. LaterThan(usbcore.queue, 0)
    <3>1. ASSUME NEW i \in DOMAIN usbcore.queue, usbcore.queue[i] # SetConfig
          PROVE  usbcore.queue[i].id > 0
      <4>1. usbcore.queue[i] \in Events
        BY <1>1, ElementOfSeq DEF CtlTypes, CoreState
      <4>2. QED
        BY <3>1, <4>1 DEF Events, Requests
    <3>2. QED
      BY <3>1 DEF LaterThan
  <2>2. drv.stash # NoRequest => drv.stash.id > 0
    BY <1>1 DEF CtlTypes, DrvType, Requests
  <2>3. drv.out.id >= 0
    BY <1>1 DEF CtlTypes, DrvType, Move
  <2>4. 0 <= made.requests
    BY <1>1 DEF CtlTypes
  <2>5. QED
    BY <1>2, <1>3, <1>5, <1>7, <2>1, <2>2, <2>3, <2>4, EventKinds DEF Reported
<1>11. Enumerated'
  <2>1. g \in {"again", "reset"} /\ (g = "again" => host.stage = "opened")
    BY <1>4
  <2>2. QED
    BY <1>2, <1>3, <1>5, <1>7, <2>1, EventKinds DEF CtlInv, Enumerated, Settled
<1>12. QED
  BY <1>5, <1>8, <1>9, <1>10, <1>11 DEF CtlInv

LEMMA HostSetupInv ==
  ASSUME CtlInv, HostSetup
  PROVE  CtlInv'
<1>1. CtlTypes
  BY DEF CtlInv
<1>2. drv' = drv /\ usbcore' = usbcore /\ usbcore.queue = <<>> /\ ~Latched
  BY DEF HostSetup, Latched
<1>3. /\ made'.requests = made.requests + 1 /\ made' \in [requests : Nat, resets : Nat, giveups : Nat]
  <2>1. PICK a : a = made.requests + 1
    OBVIOUS
  <2>2. PICK b : b = IF host.req = NoRequest THEN made.giveups ELSE made.giveups + 1
    OBVIOUS
  <2>3. made' = [made EXCEPT !.requests = a, !.giveups = b]
    BY <2>1, <2>2 DEF HostSetup
  <2>4. made \in [requests : Nat, resets : Nat, giveups : Nat] /\ a \in Nat /\ b \in Nat
    BY <1>1, <2>1, <2>2 DEF CtlTypes
  <2>5. made' \in [requests : Nat, resets : Nat, giveups : Nat] /\ made'.requests = a
    BY ONLY <2>3, <2>4
  <2>6. QED
    BY <2>1, <2>5
<1>4. PICK kind \in Asks(host.stage) :
        LET r     == [kind |-> kind, id |-> made.requests + 1]
            shows == udc.shows \/ kind \notin {"address", "configure"}
        IN
        /\ udc' = [udc EXCEPT
             !.tx = FALSE, !.rx = FALSE, !.stall = FALSE, !.fifo = <<>>, !.sent = 0,
             !.setup = r, !.sts = IF shows THEN @ \cup {"setup"} ELSE @,
             !.stage = IF wLength(r) = 0 THEN "status_in"
                       ELSE IF Writes(r) THEN "data_out" ELSE "data_in"]
        /\ host' = [host EXCEPT !.stage = After(@, kind), !.req = r, !.got = 0, !.ended = FALSE]
  BY DEF HostSetup
<1>5. PICK r : r = [kind |-> kind, id |-> made.requests + 1]
  OBVIOUS
<1>6. kind \in Kinds
  BY <1>1, <1>4 DEF CtlTypes, HostType, Asks, Kinds
<1>7. r \in Requests /\ r.kind = kind /\ r.id = made.requests + 1 /\ r # NoRequest
  <2>1. made.requests + 1 \in Nat \ {0}
    BY <1>1 DEF CtlTypes
  <2>2. QED
    BY <1>5, <1>6, <2>1, EventKinds DEF Requests
<1>8. PICK g : g = After(host.stage, kind)
  OBVIOUS
<1>9. /\ g \in {"reset", "opened", "again", "addressed", "configured"}
      /\ g \in {"opened", "again", "addressed"} /\ kind # "device" =>
            host.stage \in {"opened", "again", "addressed"}
      /\ g = "configured" => kind \notin {"device", "address"}
      /\ NeedsConfig(r) \/ kind = "configure" => g = "configured"
      /\ g = "configured" => host.stage = "configured" \/ (kind = "configure" /\ host.stage = "addressed")
  BY <1>1, <1>4, <1>7, <1>8 DEF CtlTypes, HostType, Asks, After, NeedsConfig
<1>10. /\ host' \in HostType /\ host'.stage = g /\ host'.req = r /\ host'.good = host.good
       /\ host'.got = 0 /\ host'.sent = host.sent /\ ~host'.ended
  <2>1. host' = [host EXCEPT !.stage = g, !.req = r, !.got = 0, !.ended = FALSE]
    BY <1>4, <1>5, <1>8
  <2>2. QED
    BY <1>1, <1>7, <1>9, <2>1 DEF CtlTypes, HostType
<1>11. PICK shows \in BOOLEAN : shows <=> (udc.shows \/ kind \notin {"address", "configure"})
  BY <1>1 DEF CtlTypes, UdcType
<1>12. /\ udc' \in UdcType /\ udc'.setup = r /\ ~udc'.rx /\ ~udc'.stall /\ ~udc'.tx
       /\ udc'.fifo = <<>> /\ udc'.sent = 0 /\ udc'.trsize = udc.trsize /\ udc'.bulk = udc.bulk
       /\ ("setup" \in udc'.sts <=> shows) /\ ("xact" \in udc'.sts <=> "xact" \in udc.sts)
       /\ ("done" \in udc'.sts <=> "done" \in udc.sts)
  <2>1. PICK a : a = IF shows THEN udc.sts \cup {"setup"} ELSE udc.sts
    OBVIOUS
  <2>2. PICK h : h = IF wLength(r) = 0 THEN "status_in" ELSE IF Writes(r) THEN "data_out" ELSE "data_in"
    OBVIOUS
  <2>3. h \in {"idle", "status_in", "data_in", "data_out"}
    BY <2>2
  <2>4. /\ a \in SUBSET {"setup", "xact", "done"} /\ ("setup" \in a <=> shows)
        /\ ("xact" \in a <=> "xact" \in udc.sts) /\ ("done" \in a <=> "done" \in udc.sts)
    BY <1>1, <1>2, <2>1 DEF CtlTypes, UdcType, Latched
  <2>5. udc' = [udc EXCEPT !.tx = FALSE, !.rx = FALSE, !.stall = FALSE, !.fifo = <<>>, !.sent = 0,
                           !.setup = r, !.sts = a, !.stage = h]
    BY <1>4, <1>5, <1>11, <2>1, <2>2
  <2>6. QED
    BY <1>1, <1>7, <2>3, <2>4, <2>5 DEF CtlTypes, UdcType
<1>13. ~shows => ~Reads' /\ ~Writing'
  BY <1>7, <1>10, <1>11 DEF Reads, Writing, wLength, Writes
<1>14. CtlTypes'
  BY <1>1, <1>2, <1>3, <1>10, <1>12 DEF CtlTypes
<1>15. made.requests \in Nat /\ host.sent \in Nat /\ host.sent <= made.requests
  BY <1>1 DEF CtlInv, Reported, CtlTypes, HostType
<1>16. SetupFirst'
  BY <1>2, <1>3, <1>7, <1>10, <1>12, <1>15 DEF SetupFirst, Latched
<1>17. OnItsWay' /\ Answered'
  BY <1>10, <1>12, <1>13 DEF OnItsWay, Answered, Latched
<1>18. Reported'
  <2>1. host.sent # 0 => Arrived(host.sent)'
    BY <1>2, <1>10, <1>12 DEF CtlInv, Reported, Arrived, PacketEnd
  <2>2. host.sent <= made'.requests /\ r.id <= made'.requests
    BY <1>3, <1>7, <1>15
  <2>3. QED
    BY <1>2, <1>10, <1>12, <1>13, <2>1, <2>2 DEF CtlInv, Reported, Latched
<1>19. Enumerated'
  <2>2. host'.stage \in {"opened", "again", "addressed"} /\ ~(Latched' /\ udc'.setup.kind = "device")
          => ~drv.config_seen
    BY <1>2, <1>7, <1>9, <1>10, <1>11, <1>12 DEF CtlInv, Enumerated, Latched
  <2>3. NeedsConfig(r) => Latched'
    BY <1>7, <1>11, <1>12 DEF NeedsConfig, Latched
  <2>4. Settled' => Settled
    BY <1>2, <1>7, <1>9, <1>10, <1>11, <1>12 DEF CtlInv, Enumerated, Settled, Latched
  <2>5. QED
    BY <1>2, <1>7, <1>9, <1>10, <1>12, <2>2, <2>3, <2>4 DEF CtlInv, Enumerated, Latched
<1>20. QED
  BY <1>10, <1>14, <1>16, <1>17, <1>18, <1>19 DEF CtlInv

\* The step of the driver that a state of its parts describes.
LEMMA PartsBecome ==
  ASSUME NEW t \in Parts, CtlTypes, Becomes(t), "done" \in t.udc.sts => "xact" \in t.udc.sts
  PROVE  /\ udc' = t.udc /\ drv' = t.drv /\ usbcore' = t.usbcore /\ host' = host /\ made' = made
         /\ CtlTypes'
BY DEF Becomes, CtlTypes, Parts

LEMMA StashTickInv ==
  ASSUME CtlInv, StashTick
  PROVE  CtlInv'
<1>1. CtlTypes /\ State \in Parts /\ State.udc = udc /\ State.drv = drv /\ State.usbcore = usbcore
  BY TheParts DEF CtlInv
<1>2. PICK t : t = deliver_stashed_setup(State)
  OBVIOUS
<1>3. udc.sts = {} /\ drv.stash # NoRequest /\ Becomes(t)
  BY <1>2 DEF StashTick
<1>4. /\ t \in Parts /\ t.udc = udc /\ t.drv.in = drv.in /\ t.drv.out = drv.out
      /\ t.drv.wlength = drv.wlength /\ t.drv.config_seen = drv.config_seen
      /\ t.drv.core_configured = drv.core_configured /\ t.drv.stash = NoRequest
      /\ t.usbcore.queue = Append(usbcore.queue, drv.stash) /\ t.usbcore.sends = usbcore.sends
      /\ t.usbcore.cfg = usbcore.cfg /\ t.usbcore.eps = usbcore.eps
      /\ t.usbcore.armed = usbcore.armed /\ t.usbcore.report = usbcore.report
  <2>1. LET u == deliver_stashed_setup(State) IN
        /\ u \in Parts /\ u.udc = State.udc /\ u.drv.in = State.drv.in /\ u.drv.out = State.drv.out
        /\ u.drv.wlength = State.drv.wlength /\ u.drv.config_seen = State.drv.config_seen
        /\ u.drv.core_configured = State.drv.core_configured /\ u.drv.stash = NoRequest
        /\ u.usbcore.queue = IF State.drv.stash = NoRequest THEN State.usbcore.queue
                             ELSE Append(State.usbcore.queue, State.drv.stash)
        /\ u.usbcore.sends = State.usbcore.sends
        /\ u.usbcore.cfg = State.usbcore.cfg /\ u.usbcore.eps = State.usbcore.eps
        /\ u.usbcore.armed = State.usbcore.armed /\ u.usbcore.report = State.usbcore.report
    BY ONLY <1>1, StashDelivered
  <2>2. QED
    BY <1>1, <1>2, <1>3, <2>1
<1>5. udc' = t.udc /\ drv' = t.drv /\ usbcore' = t.usbcore /\ host' = host /\ made' = made /\ CtlTypes'
  BY <1>1, <1>3, <1>4, PartsBecome
<1>6. drv.stash \in Requests /\ drv.stash \in Events /\ drv.stash # SetConfig /\ usbcore.queue \in Seq(Events)
      /\ host.sent \in Nat
  BY <1>1, <1>3, EventKinds DEF CtlTypes, DrvType, CoreState, HostType
<1>7. ~Latched /\ ~Latched'
  BY <1>3, <1>4, <1>5 DEF Latched
<1>8. SetupFirst'
  BY <1>7 DEF SetupFirst
<1>9. OnItsWay'
  <2>1. SUFFICES ASSUME Reads \/ Writing PROVE OnItsWay'
    BY <1>5 DEF OnItsWay, Reads, Writing
  <2>2. usbcore.queue # <<SetConfig>>
    <3>1. ASSUME usbcore.queue = <<SetConfig>> PROVE FALSE
      <4>1. 1 \in DOMAIN usbcore.queue /\ usbcore.queue[1] = SetConfig
        BY <3>1
      <4>2. QED
        BY <4>1 DEF StashTick
    <3>2. QED
      BY <3>1
  <2>3. usbcore.queue = <<>> /\ drv.stash = host.req
    <3>1. <<usbcore.queue, drv.stash>> \in
         {<<<<SetConfig, host.req>>, NoRequest>>, <<<<host.req>>, NoRequest>>,
          <<<<SetConfig>>, host.req>>, <<<<>>, host.req>>, <<<<>>, NoRequest>>}
      BY <1>7, <2>1 DEF CtlInv, OnItsWay
    <3>2. QED
      BY <1>3, <2>2, <3>1
  <2>4. t.usbcore.queue = <<host.req>>
    BY <1>4, <2>3, ShortQueues
  <2>5. QED
    BY <1>3, <1>4, <1>5, <1>7, <2>1, <2>4 DEF CtlInv, OnItsWay, Reads, Writing
<1>10. Answered'
  BY <1>3, <1>4, <1>5 DEF CtlInv, Answered, Reads, Latched, Due, PacketEnd
<1>11. Reported'
  <2>1. LaterThan(t.usbcore.queue, host.sent)
    BY <1>3, <1>4, <1>6, QueueGrows DEF CtlInv, Reported
  <2>2. QED
    BY <1>4, <1>5, <2>1 DEF CtlInv, Reported, Writing, Latched, PacketEnd, Arrived
<1>12. Enumerated'
  <2>1. Plain(t.usbcore.queue) => Plain(usbcore.queue)
    <3>1. DOMAIN usbcore.queue \subseteq DOMAIN Append(usbcore.queue, drv.stash)
          /\ \A i \in DOMAIN usbcore.queue : Append(usbcore.queue, drv.stash)[i] = usbcore.queue[i]
      BY <1>6, AppendProperties
    <3>2. QED
      BY <1>4, <3>1 DEF Plain
  <2>2. QED
    BY <1>4, <1>5, <2>1 DEF CtlInv, Enumerated, Latched, Settled
<1>13. QED
  BY <1>5, <1>8, <1>9, <1>10, <1>11, <1>12 DEF CtlInv

\* The core has taken the first event of its queue: nothing is latched, and nothing of a
\* request that has just come has moved.
LEMMA CoreTakes ==
  ASSUME CtlInv, NEW x \in Events, Handles(x)
  PROVE  /\ Taken \in Parts /\ Taken.udc = udc /\ Taken.drv = drv
         /\ Taken.usbcore.queue = Tail(usbcore.queue) /\ Taken.usbcore.sends = 0
         /\ Taken.usbcore.cfg = usbcore.cfg /\ Taken.usbcore.eps = usbcore.eps
         /\ Taken.usbcore.armed = usbcore.armed /\ Taken.usbcore.report = usbcore.report
         /\ Tail(usbcore.queue) \in Seq(Events)
         /\ udc.sts = {} /\ ~Latched /\ ~PacketEnd
         /\ LaterThan(Tail(usbcore.queue), host.sent) /\ (x # SetConfig => x.id > host.sent)
         /\ Plain(Tail(usbcore.queue)) /\ x.kind \notin {"set_config", "configure"} => Plain(usbcore.queue)
         /\ Reads \/ Writing =>
              /\ \/ x = SetConfig /\ <<Tail(usbcore.queue), drv.stash>> \in
                      {<<<<host.req>>, NoRequest>>, <<<<>>, host.req>>}
                 \/ x = host.req /\ x # SetConfig /\ Tail(usbcore.queue) = <<>> /\ drv.stash = NoRequest
              /\ host.got = 0 /\ ~host.ended /\ udc.sent = 0 /\ ~udc.tx /\ ~udc.rx
              /\ ~drv.in.busy /\ ~drv.out.busy /\ drv.wlength = wLength(host.req)
         /\ host.sent # 0 => usbcore.report >= host.sent
<1>1. CtlTypes /\ State \in Parts /\ State.udc = udc /\ State.drv = drv /\ State.usbcore = usbcore
  BY TheParts DEF CtlInv
<1>2. udc.sts = {} /\ usbcore.sends = 0 /\ usbcore.queue # <<>> /\ Head(usbcore.queue) = x
  BY DEF Handles
<1>3. usbcore.queue \in Seq(Events) /\ host.sent \in Nat
  BY <1>1 DEF CtlTypes, CoreState, HostType
<1>4. /\ Tail(usbcore.queue) \in Seq(Events)
      /\ LaterThan(usbcore.queue, host.sent) =>
            LaterThan(Tail(usbcore.queue), host.sent) /\ (x # SetConfig => x.id > host.sent)
      /\ Plain(Tail(usbcore.queue)) /\ x.kind \notin {"set_config", "configure"} => Plain(usbcore.queue)
  BY <1>2, <1>3, QueueShrinks
<1>5. LaterThan(usbcore.queue, host.sent)
  BY DEF CtlInv, Reported
<1>6. PICK q : q = Tail(usbcore.queue)
  OBVIOUS
<1>7. PICK c : c = [usbcore EXCEPT !.queue = q]
  OBVIOUS
<1>8. /\ c \in CoreState /\ c.queue = q /\ c.sends = usbcore.sends /\ c.cfg = usbcore.cfg
      /\ c.eps = usbcore.eps /\ c.armed = usbcore.armed /\ c.report = usbcore.report
  BY <1>1, <1>4, <1>6, <1>7 DEF CtlTypes, CoreState
<1>9. Taken = [State EXCEPT !.usbcore = c]
  BY <1>1, <1>6, <1>7 DEF Taken
<1>10. Taken \in Parts /\ Taken.udc = udc /\ Taken.drv = drv /\ Taken.usbcore = c
  BY <1>1, <1>8, <1>9 DEF Parts
<1>11. ~Latched /\ ~PacketEnd
  BY <1>2 DEF Latched, PacketEnd
<1>12. host.sent # 0 => usbcore.report >= host.sent
  BY <1>11 DEF CtlInv, Reported, Arrived
<1>13. ASSUME Reads \/ Writing
       PROVE  /\ \/ x = SetConfig /\ <<Tail(usbcore.queue), drv.stash>> \in
                      {<<<<host.req>>, NoRequest>>, <<<<>>, host.req>>}
                 \/ x = host.req /\ x # SetConfig /\ Tail(usbcore.queue) = <<>> /\ drv.stash = NoRequest
              /\ host.got = 0 /\ ~host.ended /\ udc.sent = 0 /\ ~udc.tx /\ ~udc.rx
              /\ ~drv.in.busy /\ ~drv.out.busy /\ drv.wlength = wLength(host.req)
  <2>1. <<usbcore.queue, drv.stash>> \in
         {<<<<SetConfig, host.req>>, NoRequest>>, <<<<host.req>>, NoRequest>>,
          <<<<SetConfig>>, host.req>>, <<<<>>, host.req>>, <<<<>>, NoRequest>>}
    BY <1>11, <1>13 DEF CtlInv, OnItsWay
  <2>2. host.req \in Requests /\ host.req # SetConfig
    BY <1>1, <1>13, EventKinds DEF Reads, Writing, CtlTypes, HostType
  <2>3. \/ usbcore.queue = <<SetConfig, host.req>> /\ drv.stash = NoRequest
        \/ usbcore.queue = <<host.req>> /\ drv.stash = NoRequest
        \/ usbcore.queue = <<SetConfig>> /\ drv.stash = host.req
    BY <1>2, <2>1
  <2>4. \/ x = SetConfig /\ <<Tail(usbcore.queue), drv.stash>> \in
                      {<<<<host.req>>, NoRequest>>, <<<<>>, host.req>>}
        \/ x = host.req /\ x # SetConfig /\ Tail(usbcore.queue) = <<>> /\ drv.stash = NoRequest
    <3>1. CASE usbcore.queue = <<SetConfig, host.req>> /\ drv.stash = NoRequest
      <4>1. x = SetConfig /\ Tail(usbcore.queue) = <<host.req>>
        BY ONLY <1>2, <3>1, ShortTails
      <4>2. QED
        BY <3>1, <4>1
    <3>2. CASE usbcore.queue = <<host.req>> /\ drv.stash = NoRequest
      <4>1. x = host.req /\ Tail(usbcore.queue) = <<>>
        BY ONLY <1>2, <3>2, ShortTails
      <4>2. QED
        BY <2>2, <3>2, <4>1
    <3>3. CASE usbcore.queue = <<SetConfig>> /\ drv.stash = host.req
      <4>1. x = SetConfig /\ Tail(usbcore.queue) = <<>>
        BY ONLY <1>2, <3>3, ShortTails
      <4>2. QED
        BY <3>3, <4>1
    <3>4. QED
      BY <2>3, <3>1, <3>2, <3>3
  <2>5. QED
    BY <1>2, <1>11, <1>13, <2>4 DEF CtlInv, OnItsWay
<1>14. QED
  BY <1>2, <1>4, <1>5, <1>6, <1>8, <1>10, <1>11, <1>12, <1>13

\* Activating a configuration drops at most what is queued, and sends on what is stashed.
LEMMA ActivatedInv ==
  ASSUME CtlInv, NEW x \in Events, Handles(x), x.kind \in {"set_config", "configure"},
         NEW eps \in BOOLEAN, drv.core_configured \/ eps, Becomes(Activated(Taken, eps))
  PROVE  CtlInv'
<1>1. CtlTypes
  BY DEF CtlInv
<1>2. /\ Taken \in Parts /\ Taken.udc = udc /\ Taken.drv = drv
      /\ Taken.usbcore.queue = Tail(usbcore.queue) /\ Taken.usbcore.sends = 0
      /\ Taken.usbcore.report = usbcore.report
      /\ Tail(usbcore.queue) \in Seq(Events)
      /\ udc.sts = {} /\ ~Latched /\ ~PacketEnd
      /\ LaterThan(Tail(usbcore.queue), host.sent)
      /\ Reads \/ Writing =>
           /\ \/ x = SetConfig /\ <<Tail(usbcore.queue), drv.stash>> \in
                   {<<<<host.req>>, NoRequest>>, <<<<>>, host.req>>}
              \/ x = host.req /\ x # SetConfig /\ Tail(usbcore.queue) = <<>> /\ drv.stash = NoRequest
           /\ host.got = 0 /\ ~host.ended /\ udc.sent = 0 /\ ~udc.tx /\ ~udc.rx
           /\ ~drv.in.busy /\ ~drv.out.busy /\ drv.wlength = wLength(host.req)
      /\ host.sent # 0 => usbcore.report >= host.sent
  BY CoreTakes
<1>3. PICK s : s = Taken
  OBVIOUS
<1>4. PICK t : t = Activated(s, eps)
  OBVIOUS
<1>5. PICK left : left = IF s.usbcore.cfg THEN <<>> ELSE s.usbcore.queue
  OBVIOUS
<1>6. /\ t \in Parts
      /\ t.udc.setup = s.udc.setup /\ t.udc.rx = s.udc.rx /\ t.udc.stall = s.udc.stall
      /\ t.udc.sts = s.udc.sts /\ t.udc.tx = s.udc.tx /\ t.udc.fifo = s.udc.fifo
      /\ t.udc.trsize = s.udc.trsize /\ t.udc.sent = s.udc.sent /\ t.udc.bulk = eps
      /\ t.drv.in = s.drv.in /\ t.drv.out = s.drv.out
      /\ t.drv.wlength = s.drv.wlength /\ t.drv.config_seen = s.drv.config_seen
      /\ (t.drv.core_configured <=> s.drv.core_configured \/ eps)
      /\ t.drv.stash = IF eps THEN NoRequest ELSE s.drv.stash
      /\ t.usbcore.queue = IF eps /\ s.drv.stash # NoRequest THEN Append(left, s.drv.stash) ELSE left
      /\ t.usbcore.sends = s.usbcore.sends /\ t.usbcore.report = s.usbcore.report
      /\ t.usbcore.cfg = TRUE /\ t.usbcore.eps = eps /\ t.usbcore.armed = eps
  <2>1. s \in Parts /\ eps \in BOOLEAN
    BY <1>2, <1>3
  <2>2. QED
    <3>1. ConfiguredAs(s, t, eps)
      BY <2>1, <1>4, ConfigurationActivated
    <3>2. QED
      BY ONLY <3>1, <1>5 DEF ConfiguredAs
<1>7. Becomes(t)
  BY <1>3, <1>4
<1>8. udc' = t.udc /\ drv' = t.drv /\ usbcore' = t.usbcore /\ host' = host /\ made' = made /\ CtlTypes'
  BY <1>1, <1>2, <1>3, <1>6, <1>7, PartsBecome
<1>9. ~Latched' /\ ~PacketEnd'
  BY <1>2, <1>3, <1>6, <1>8 DEF Latched, PacketEnd
<1>10. left = <<>> \/ left = Tail(usbcore.queue)
  BY <1>2, <1>3, <1>5
<1>11. SetupFirst'
  BY <1>9 DEF SetupFirst
<1>12. OnItsWay'
  <2>1. SUFFICES ASSUME Reads \/ Writing PROVE OnItsWay'
    BY <1>8 DEF OnItsWay, Reads, Writing
  <2>2. host.req \in Requests /\ wLength(host.req) # 0
    BY <1>1, <2>1, AnswersAreFinite DEF Reads, Writing, CtlTypes, HostType
  <2>3. x # host.req
    <3>1. x = host.req => x.kind = "configure" /\ wLength(x) = 0
      BY <2>2, EventKinds DEF wLength
    <3>2. QED
      BY <2>2, <3>1
  <2>4. \/ Tail(usbcore.queue) = <<host.req>> /\ drv.stash = NoRequest
        \/ Tail(usbcore.queue) = <<>> /\ drv.stash = host.req
    BY <1>2, <2>1, <2>3
  <2>5. drv.stash = host.req => left = <<>> /\ host.req # NoRequest
    BY <1>10, <2>2, <2>4, EventKinds
  <2>6. \/ t.usbcore.queue = <<host.req>> /\ t.drv.stash = NoRequest
        \/ t.usbcore.queue = <<>> /\ t.drv.stash \in {NoRequest, host.req}
    <3>1. CASE drv.stash = NoRequest
      <4>1. t.usbcore.queue = left /\ t.drv.stash = NoRequest
        BY <1>2, <1>3, <1>6, <3>1
      <4>2. Tail(usbcore.queue) = <<host.req>> \/ Tail(usbcore.queue) = <<>>
        BY <2>4
      <4>3. QED
        BY <1>10, <4>1, <4>2
    <3>2. CASE drv.stash # NoRequest
      <4>1. drv.stash = host.req /\ left = <<>>
        BY <2>4, <2>5, <3>2
      <4>2. Append(left, drv.stash) = <<host.req>>
        BY ONLY <4>1, ShortQueues
      <4>3. CASE eps
        BY <1>2, <1>3, <1>6, <3>2, <4>2, <4>3
      <4>4. CASE ~eps
        BY <1>2, <1>3, <1>6, <4>1, <4>4
      <4>5. QED
        BY <4>3, <4>4
    <3>3. QED
      BY <3>1, <3>2
  <2>7. QED
    BY <1>2, <1>3, <1>6, <1>8, <2>1, <2>6 DEF OnItsWay
<1>13. Answered'
  BY <1>2, <1>3, <1>6, <1>8 DEF CtlInv, Answered, Reads, Latched, Due, PacketEnd
<1>14. Reported'
  <2>1. host.sent \in Nat /\ drv.stash \in Requests \cup {NoRequest}
    BY <1>1 DEF CtlTypes, HostType, DrvType
  <2>2. left \in Seq(Events) /\ LaterThan(left, host.sent)
    <3>1. <<>> \in Seq(Events) /\ LaterThan(<<>>, host.sent)
      BY DEF LaterThan
    <3>2. QED
      BY <1>2, <1>10, <3>1
  <2>3. drv.stash # NoRequest => drv.stash \in Events /\ drv.stash.id > host.sent
    BY <2>1, EventKinds DEF CtlInv, Reported
  <2>4. drv.stash # NoRequest => LaterThan(Append(left, drv.stash), host.sent)
    BY <2>1, <2>2, <2>3, QueueGrows
  <2>5. LaterThan(t.usbcore.queue, host.sent)
    BY <1>2, <1>3, <1>6, <2>2, <2>4
  <2>6. t.drv.stash # NoRequest => t.drv.stash.id > host.sent
    BY <1>2, <1>3, <1>6, <2>3
  <2>7. host.sent # 0 => Arrived(host.sent)'
    BY <1>2, <1>3, <1>6, <1>8 DEF Arrived
  <2>8. QED
    BY <1>2, <1>3, <1>6, <1>8, <1>9, <2>5, <2>6, <2>7 DEF CtlInv, Reported, Writing, Latched, PacketEnd
<1>15. Enumerated'
  BY <1>2, <1>3, <1>6, <1>8 DEF CtlInv, Enumerated, Latched, Settled
<1>16. QED
  BY <1>8, <1>11, <1>12, <1>13, <1>14, <1>15 DEF CtlInv

LEMMA CoreConfiguresInv ==
  ASSUME CtlInv, CoreConfigures
  PROVE  CtlInv'
<1>1. PICK eps \in BOOLEAN : (~drv.core_configured => eps) /\ Becomes(Activated(Taken, eps))
  BY DEF CoreConfigures
<1>2. Handles(SetConfig)
  BY DEF CoreConfigures
<1>3. QED
  BY <1>1, <1>2, EventKinds, ActivatedInv

\* What the core does with a request leaves the rest of the driver alone.
LEMMA CoreLeaves ==
  ASSUME CtlInv, NEW r \in Requests, Handles(r), r.kind # "configure",
         NEW t \in Parts, Becomes(t), t.udc.sts = {}, t.udc.bulk = udc.bulk,
         DrvAsBefore(Taken, t), CoreAsBefore(Taken, t),
         t.drv.out.busy /\ t.drv.out.armed => t.drv.out.id >= host.sent
  PROVE  /\ CtlTypes' /\ SetupFirst' /\ OnItsWay' /\ Enumerated' /\ host.good'
         /\ ~Reads /\ ~Writing => Answered' /\ Reported'
         /\ ~Writing => Reported'
         /\ Writing /\ ~host.ended' /\ ~t.drv.in.busy
            /\ (t.udc.rx => t.drv.out.busy /\ t.drv.out.armed)
            /\ (t.drv.out.busy /\ t.drv.out.armed =>
                  t.drv.out.id = host.req.id /\ t.drv.out.len = 2 /\ t.drv.out.done = 0)
            => Reported'
<1>1. CtlTypes
  BY DEF CtlInv
<1>2. /\ Taken.udc = udc /\ Taken.drv = drv
      /\ Taken.usbcore.queue = Tail(usbcore.queue)
      /\ Taken.usbcore.cfg = usbcore.cfg /\ Taken.usbcore.eps = usbcore.eps
      /\ Taken.usbcore.armed = usbcore.armed /\ Taken.usbcore.report = usbcore.report
      /\ ~Latched /\ ~PacketEnd
      /\ LaterThan(Tail(usbcore.queue), host.sent)
      /\ Plain(Tail(usbcore.queue)) /\ r.kind \notin {"set_config", "configure"} => Plain(usbcore.queue)
      /\ Reads \/ Writing =>
           /\ \/ r = SetConfig /\ <<Tail(usbcore.queue), drv.stash>> \in
                   {<<<<host.req>>, NoRequest>>, <<<<>>, host.req>>}
              \/ r = host.req /\ r # SetConfig /\ Tail(usbcore.queue) = <<>> /\ drv.stash = NoRequest
           /\ host.got = 0 /\ ~host.ended /\ udc.sent = 0 /\ ~udc.tx /\ ~udc.rx
           /\ ~drv.in.busy /\ ~drv.out.busy /\ drv.wlength = wLength(host.req)
      /\ host.sent # 0 => usbcore.report >= host.sent
  BY CoreTakes, EventKinds
<1>3. udc' = t.udc /\ drv' = t.drv /\ usbcore' = t.usbcore /\ host' = host /\ made' = made /\ CtlTypes'
  BY <1>1, PartsBecome
<1>4. /\ t.drv.wlength = drv.wlength /\ t.drv.config_seen = drv.config_seen
      /\ t.drv.core_configured = drv.core_configured /\ t.drv.stash = drv.stash
      /\ t.usbcore.queue = Tail(usbcore.queue) /\ t.usbcore.cfg = usbcore.cfg
      /\ t.usbcore.eps = usbcore.eps /\ t.usbcore.armed = usbcore.armed
      /\ t.usbcore.report = usbcore.report
  BY <1>2 DEF DrvAsBefore, CoreAsBefore
<1>5. ~Latched' /\ ~PacketEnd'
  BY <1>3 DEF Latched, PacketEnd
<1>6. r # SetConfig /\ r.kind \notin {"set_config", "configure"}
  BY EventKinds
<1>7. SetupFirst'
  BY <1>5 DEF SetupFirst
<1>8. OnItsWay'
  BY <1>2, <1>3, <1>4, <1>6 DEF OnItsWay, Reads, Writing
<1>9. Enumerated'
  BY <1>2, <1>3, <1>4, <1>5, <1>6 DEF CtlInv, Enumerated, Settled
<1>10. host.good'
  BY <1>3 DEF CtlInv
<1>11. ~Reads => Answered'
  BY <1>3 DEF Answered, Reads
<1>12. host.sent # 0 => Arrived(host.sent)'
  BY <1>2, <1>3, <1>4 DEF Arrived
<1>13. /\ LaterThan(t.usbcore.queue, host.sent)
       /\ t.drv.stash # NoRequest => t.drv.stash.id > host.sent
       /\ host.sent <= made.requests /\ host.req.id <= made.requests
  BY <1>2, <1>4 DEF CtlInv, Reported
<1>14. ~Writing => Reported'
  BY <1>3, <1>12, <1>13 DEF Reported, Writing
<1>15. ASSUME Writing, ~host.ended', ~t.drv.in.busy, t.udc.rx => t.drv.out.busy /\ t.drv.out.armed,
              t.drv.out.busy /\ t.drv.out.armed =>
                  t.drv.out.id = host.req.id /\ t.drv.out.len = 2 /\ t.drv.out.done = 0
       PROVE  Reported'
  BY <1>2, <1>3, <1>5, <1>12, <1>13, <1>15 DEF Reported, Writing
<1>16. QED
  BY <1>3, <1>7, <1>8, <1>9, <1>10, <1>11, <1>14, <1>15

LEMMA CoreAnswersInv ==
  ASSUME CtlInv, CoreAnswers
  PROVE  CtlInv'
<1>1. CtlTypes
  BY DEF CtlInv
<1>2. PICK r \in {usbcore.queue[i] : i \in DOMAIN usbcore.queue} \ {SetConfig} :
        /\ Handles(r)
        /\ IF r.kind = "odd" \/ (NeedsConfig(r) /\ ~usbcore.cfg) THEN Becomes(Stall(Taken))
           ELSE IF r.kind = "configure" THEN Becomes(Activated(Taken, TRUE))
           ELSE IF Writes(r) THEN Becomes(Receive(Taken, r))
           ELSE \/ Becomes(ReceiveStatus(start_send(Taken, r)))
                \/ Becomes(start_send(ReceiveStatus(Taken), r))
  BY DEF CoreAnswers
<1>3. r \in Requests /\ r \in Events /\ Handles(r)
  <2>1. usbcore.queue \in Seq(Events)
    BY <1>1 DEF CtlTypes, CoreState
  <2>2. r \in Events
    BY <1>2, <2>1, ElementOfSeq
  <2>3. QED
    BY <1>2, <2>2 DEF Events
<1>4. /\ Taken \in Parts /\ Taken.udc = udc /\ Taken.drv = drv
      /\ Taken.usbcore.queue = Tail(usbcore.queue) /\ Taken.usbcore.sends = 0
      /\ Taken.usbcore.report = usbcore.report
      /\ udc.sts = {} /\ ~Latched /\ ~PacketEnd
      /\ r.id > host.sent
      /\ Reads \/ Writing =>
           /\ r = host.req
           /\ host.got = 0 /\ ~host.ended /\ udc.sent = 0 /\ ~udc.tx /\ ~udc.rx
           /\ ~drv.in.busy /\ ~drv.out.busy /\ drv.wlength = wLength(host.req)
  BY <1>3, CoreTakes, EventKinds
<1>5. PICK s : s = Taken
  OBVIOUS
<1>7. ASSUME r.kind = "configure"
      PROVE  CtlInv'
  <2>1. Becomes(Activated(Taken, TRUE))
    BY <1>2, <1>7 DEF NeedsConfig
  <2>2. QED
    BY <1>3, <1>7, <2>1, ActivatedInv
<1>8. ASSUME r.kind # "configure", r.kind = "odd" \/ (NeedsConfig(r) /\ ~usbcore.cfg)
      PROVE  CtlInv'
  <2>1. PICK t : t = Stall(s)
    OBVIOUS
  <2>2. /\ t \in Parts /\ t.usbcore = s.usbcore /\ t.udc = [s.udc EXCEPT !.stall = TRUE]
        /\ t.drv = [s.drv EXCEPT !.in = [@ EXCEPT !.busy = FALSE], !.out = [@ EXCEPT !.busy = FALSE],
                                 !.pending = FALSE]
    BY <1>4, <1>5, <2>1, Stalled
  <2>3. /\ t.udc.sts = {} /\ t.udc.bulk = udc.bulk /\ t.udc.rx = udc.rx /\ t.udc.tx = udc.tx
        /\ t.udc.fifo = udc.fifo /\ t.udc.sent = udc.sent /\ t.udc.trsize = udc.trsize
        /\ DrvAsBefore(s, t) /\ CoreAsBefore(s, t)
        /\ ~t.drv.in.busy /\ ~t.drv.out.busy
    BY <1>1, <1>4, <1>5, <2>2, SMTT(20) DEF CtlTypes, UdcType, DrvType, Move, DrvAsBefore, CoreAsBefore
  <2>4. Becomes(t)
    BY <1>2, <1>5, <1>8, <2>1
  <2>5. /\ CtlTypes' /\ SetupFirst' /\ OnItsWay' /\ Enumerated' /\ host.good'
        /\ ~Reads /\ ~Writing => Answered' /\ Reported'
        /\ ~Writing => Reported'
        /\ Writing /\ ~host.ended' /\ ~t.udc.rx => Reported'
    BY <1>3, <1>5, <1>8, <2>2, <2>3, <2>4, CoreLeaves
  <2>6. udc' = t.udc /\ drv' = t.drv /\ usbcore' = t.usbcore /\ host' = host
    BY <2>4 DEF Becomes
  <2>7. Answered'
    BY <1>4, <2>3, <2>6 DEF CtlInv, Answered, Reads, Latched, Due, PacketEnd
  <2>8. Writing => Reported'
    BY <1>4, <2>3, <2>5, <2>6
  <2>9. QED
    BY <2>5, <2>7, <2>8 DEF CtlInv
<1>9. ASSUME r.kind # "configure", ~(r.kind = "odd" \/ (NeedsConfig(r) /\ ~usbcore.cfg)), Writes(r)
      PROVE  CtlInv'
  <2>1. PICK t : t = Receive(s, r)
    OBVIOUS
  <2>2. /\ t \in Parts /\ t.usbcore = s.usbcore
        /\ t.udc = [s.udc EXCEPT !.rx = TRUE]
        /\ DrvAsBefore(s, t) /\ t.drv.in = s.drv.in
        /\ t.drv.out.busy /\ t.drv.out.armed /\ t.drv.out.len = wLength(r) /\ t.drv.out.done = 0
        /\ t.drv.out.id = r.id
    BY <1>3, <1>4, <1>5, <2>1, ReceiveArmed
  <2>3. t.udc.sts = {} /\ t.udc.bulk = udc.bulk /\ CoreAsBefore(s, t) /\ wLength(r) = 2
        /\ t.udc.sent = udc.sent /\ t.drv.out.id >= host.sent
    <3>1. t.udc.sts = {} /\ t.udc.bulk = udc.bulk /\ t.udc.sent = udc.sent
      BY <1>1, <1>4, <1>5, <2>2 DEF CtlTypes, UdcType
    <3>2. host.sent \in Nat /\ r.id \in Nat
      BY <1>1, <1>3 DEF CtlTypes, HostType, Requests
    <3>3. QED
      BY <1>4, <1>9, <2>2, <3>1, <3>2 DEF CoreAsBefore, wLength, Writes
  <2>4. Becomes(t)
    BY <1>2, <1>5, <1>9, <2>1
  <2>5. /\ CtlTypes' /\ SetupFirst' /\ OnItsWay' /\ Enumerated' /\ host.good'
        /\ ~Reads /\ ~Writing => Answered' /\ Reported'
        /\ ~Writing => Reported'
        /\ Writing /\ ~host.ended' /\ ~t.drv.in.busy /\ t.drv.out.id = host.req.id => Reported'
    BY <1>3, <1>5, <1>9, <2>2, <2>3, <2>4, CoreLeaves
  <2>6. udc' = t.udc /\ drv' = t.drv /\ usbcore' = t.usbcore /\ host' = host
    BY <2>4 DEF Becomes
  <2>7. ~Reads
    BY <1>4, <1>9 DEF Reads
  <2>8. Writing => Reported'
    BY <1>4, <1>5, <2>2, <2>5, <2>6
  <2>9. QED
    BY <2>5, <2>6, <2>7, <2>8 DEF CtlInv, Answered, Reads
<1>10. ASSUME r.kind # "configure", ~(r.kind = "odd" \/ (NeedsConfig(r) /\ ~usbcore.cfg)), ~Writes(r)
       PROVE  CtlInv'
  <2>1. PICK t \in {ReceiveStatus(start_send(s, r)), start_send(ReceiveStatus(s), r)} : Becomes(t)
    BY <1>2, <1>5, <1>10
  <2>2. PICK n : n = Least(Answer(r), s.drv.wlength)
    OBVIOUS
  <2>3. /\ t \in Parts /\ DrvAsBefore(s, t) /\ CoreAsBefore(s, t) /\ UdcAsBefore(s, t)
        /\ t.drv.out = s.drv.out \/ ~t.drv.out.armed
        /\ n = 0 => t.udc = s.udc /\ t.drv.in = s.drv.in
        /\ n # 0 => /\ t.drv.in = [busy |-> TRUE, armed |-> FALSE, len |-> n, done |-> 0, id |-> r.id]
                    /\ t.udc.sts = s.udc.sts \cap {"setup"} /\ t.udc.fifo = <<r.id, 1>>
                    /\ t.udc.trsize = n /\ t.udc.sent = 0 /\ t.usbcore.sends = r.id
    <3>1. CASE t = ReceiveStatus(start_send(s, r))
      <4>1. PICK m : m = start_send(s, r)
        OBVIOUS
      <4>2. /\ m \in Parts /\ AsBefore(s, m) /\ m.drv.out = s.drv.out
            /\ n = 0 => m = s
            /\ n # 0 => /\ m.drv.in = [busy |-> TRUE, armed |-> FALSE, len |-> n, done |-> 0, id |-> r.id]
                        /\ m.udc.sts = s.udc.sts \cap {"setup"} /\ m.udc.fifo = <<r.id, 1>>
                        /\ m.udc.trsize = n /\ m.udc.sent = 0 /\ m.usbcore.sends = r.id
        BY <1>3, <1>4, <1>5, <2>2, <4>1, StartSend
      <4>3. /\ t \in Parts /\ t.udc = m.udc /\ t.usbcore = m.usbcore
            /\ AsBefore(m, t) /\ t.drv.in = m.drv.in
            /\ t.drv.out = m.drv.out \/ ~t.drv.out.armed
        BY <3>1, <4>1, <4>2, StatusArmed
      <4>4. QED
        BY <4>2, <4>3 DEF AsBefore, UdcAsBefore, DrvAsBefore, CoreAsBefore
    <3>2. CASE t = start_send(ReceiveStatus(s), r)
      <4>1. PICK m : m = ReceiveStatus(s)
        OBVIOUS
      <4>2. /\ m \in Parts /\ m.udc = s.udc /\ m.usbcore = s.usbcore
            /\ AsBefore(s, m) /\ m.drv.in = s.drv.in
            /\ m.drv.out = s.drv.out \/ ~m.drv.out.armed
        BY <1>4, <1>5, <4>1, StatusArmed
      <4>3. n = Least(Answer(r), m.drv.wlength)
        BY <2>2, <4>2 DEF AsBefore, DrvAsBefore
      <4>4. /\ t \in Parts /\ AsBefore(m, t) /\ t.drv.out = m.drv.out
            /\ n = 0 => t = m
            /\ n # 0 => /\ t.drv.in = [busy |-> TRUE, armed |-> FALSE, len |-> n, done |-> 0, id |-> r.id]
                        /\ t.udc.sts = m.udc.sts \cap {"setup"} /\ t.udc.fifo = <<r.id, 1>>
                        /\ t.udc.trsize = n /\ t.udc.sent = 0 /\ t.usbcore.sends = r.id
        BY <1>3, <3>2, <4>1, <4>2, <4>3, StartSend
      <4>5. QED
        BY <4>2, <4>4 DEF AsBefore, UdcAsBefore, DrvAsBefore, CoreAsBefore
    <3>3. QED
      BY <2>1, <3>1, <3>2
  <2>4. t.udc.sts = {} /\ t.udc.bulk = udc.bulk /\ t.udc.rx = udc.rx
    BY <1>4, <1>5, <2>3 DEF UdcAsBefore
  <2>5. t.drv.out.busy /\ t.drv.out.armed => drv.out.busy /\ drv.out.armed /\ t.drv.out.id >= host.sent
    BY <1>4, <1>5, <2>3 DEF CtlInv, Reported
  <2>6. /\ CtlTypes' /\ SetupFirst' /\ OnItsWay' /\ Enumerated' /\ host.good'
        /\ ~Reads /\ ~Writing => Answered' /\ Reported'
        /\ ~Writing => Reported'
    BY <1>3, <1>5, <1>10, <2>1, <2>3, <2>4, <2>5, CoreLeaves
  <2>7. udc' = t.udc /\ drv' = t.drv /\ usbcore' = t.usbcore /\ host' = host
    BY <2>1 DEF Becomes
  <2>8. ~Writing
    BY <1>4, <1>10 DEF Writing
  <2>9. Reads => Answered'
    <3>1. SUFFICES ASSUME Reads PROVE Answered'
      OBVIOUS
    <3>2. r = host.req /\ n = Due /\ host.got = 0 /\ ~host.ended /\ ~drv.out.busy
      BY <1>4, <1>5, <2>2, <3>1 DEF Due
    <3>3. n \in Nat /\ n > 0
      <4>1. r # NoRequest /\ wLength(r) > 0
        BY <3>1, <3>2 DEF Reads
      <4>2. QED
        BY <1>3, <1>10, <3>2, <4>1, AnswersAreFinite DEF Due
    <3>4. /\ t.drv.in.busy /\ t.drv.in.len = n /\ t.drv.in.done = 0 /\ t.drv.in.id = r.id
          /\ t.udc.fifo = <<r.id, 1>> /\ t.udc.trsize = n /\ t.udc.sent = 0 /\ t.usbcore.sends = r.id
      BY <2>3, <3>3
    <3>5. Due' = Due /\ ~PacketEnd'
      BY <2>4, <2>7 DEF Due, PacketEnd
    <3>6. ~(t.drv.out.busy /\ t.drv.out.armed)
      BY <2>5, <3>2
    <3>7. QED
      BY <2>7, <3>2, <3>3, <3>4, <3>5, <3>6 DEF Answered
  <2>10. QED
    BY <2>6, <2>8, <2>9 DEF CtlInv
<1>11. QED
  BY <1>7, <1>8, <1>9, <1>10

\* What the interrupt does with a packet that has ended: the answer's next packet goes, and
\* a report that is whole is the core's.
LEMMA PacketCompleted ==
  ASSUME CtlInv, udc.sts # {}, NEW t, t = Completed([State EXCEPT !.udc.sts = {}], udc.sts)
  PROVE  /\ t \in Parts /\ t.udc.sts = {} /\ t.udc.setup = udc.setup /\ t.udc.stall = udc.stall
         /\ t.udc.bulk = udc.bulk /\ t.udc.sent = udc.sent
         /\ DrvAsBefore(State, t) /\ t.usbcore.queue = usbcore.queue /\ t.usbcore.cfg = usbcore.cfg
         /\ t.usbcore.eps = usbcore.eps /\ t.usbcore.armed = usbcore.armed
         /\ host.sent # 0 => t.usbcore.report >= host.sent
         /\ t.drv.out.busy /\ t.drv.out.armed => drv.out.busy /\ drv.out.armed /\ t.drv.out.id = drv.out.id
         /\ Reads /\ ~Latched =>
              /\ ~(t.drv.out.busy /\ t.drv.out.armed)
              /\ t.udc.tx /\ t.udc.fifo # <<>> =>
                   t.udc.fifo = <<host.req.id, host.got + 1>> /\ host.got < Due /\ t.udc.trsize = Due
              /\ host.got > 0 => t.udc.trsize = Due
              /\ t.drv.in.busy =>
                   /\ t.drv.in.id = host.req.id /\ t.drv.in.len = Due /\ t.udc.trsize = Due
                   /\ t.drv.in.done < Due /\ t.usbcore.sends = t.drv.in.id
                   /\ host.got = t.drv.in.done
         /\ Writing /\ ~Latched =>
              /\ ~t.drv.in.busy
              /\ t.drv.out.busy /\ t.drv.out.armed =>
                   /\ t.drv.out.id = host.req.id /\ t.drv.out.len = 2 /\ t.drv.out.done < 2
                   /\ host.got = t.drv.out.done
              /\ t.udc.rx => t.drv.out.busy /\ t.drv.out.armed
              /\ host.ended => t.usbcore.report >= host.req.id
<1>1. CtlTypes /\ State \in Parts /\ State.udc = udc /\ State.drv = drv /\ State.usbcore = usbcore
  BY TheParts DEF CtlInv
<1>2. PICK u : u = [udc EXCEPT !.sts = {}]
  OBVIOUS
<1>3. /\ u \in UdcType /\ u.sts = {} /\ u.setup = udc.setup /\ u.rx = udc.rx /\ u.stall = udc.stall
      /\ u.tx = udc.tx /\ u.fifo = udc.fifo /\ u.trsize = udc.trsize /\ u.sent = udc.sent
      /\ u.bulk = udc.bulk
  BY <1>1, <1>2 DEF CtlTypes, UdcType
<1>4. PICK s : s = [State EXCEPT !.udc = u]
  OBVIOUS
<1>5. s \in Parts /\ s.udc = u /\ s.drv = drv /\ s.usbcore = usbcore
  BY <1>1, <1>3, <1>4 DEF Parts
<1>6. t = Completed(s, udc.sts)
  BY <1>1, <1>2, <1>4
<1>7. PacketEnd <=> udc.sts \cap {"xact", "done"} # {}
  BY <1>1 DEF PacketEnd, CtlTypes, UdcType
<1>8. ~Latched => PacketEnd
  BY <1>1 DEF PacketEnd, Latched, CtlTypes, UdcType
<1>9. /\ host.got \in Nat /\ host.sent \in Nat /\ host.req.id \in Nat /\ usbcore.report \in Nat
      /\ drv.in.done \in Nat /\ drv.in.len \in Nat /\ drv.out.done \in Nat /\ drv.out.len \in Nat
      /\ drv.out.id \in Nat
  <2>1. host \in HostType /\ drv \in DrvType /\ usbcore \in CoreState
    BY <1>1 DEF CtlTypes
  <2>2. host.got \in Nat /\ host.sent \in Nat /\ host.req.id \in Nat
    BY ONLY <2>1 DEF HostType, Requests, NoRequest
  <2>3. drv.in \in Move /\ drv.out \in Move /\ usbcore.report \in Nat
    BY ONLY <2>1 DEF DrvType, CoreState
  <2>4. QED
    BY ONLY <2>2, <2>3 DEF Move
<1>10. CASE PacketEnd /\ drv.in.busy
  <2>1. t = in_done(s)
    BY <1>5, <1>6, <1>7, <1>10 DEF Completed
  <2>2. PICK more \in BOOLEAN : more <=> drv.in.done + 1 < drv.in.len
    OBVIOUS
  <2>3. /\ t \in Parts
        /\ AsBefore(s, t) /\ t.udc.trsize = s.udc.trsize /\ t.udc.sent = s.udc.sent
        /\ t.udc.sts = IF more THEN s.udc.sts \cap {"setup"} ELSE s.udc.sts
        /\ more => t.udc.tx = TRUE /\ t.udc.fifo = <<s.drv.in.id, s.drv.in.done + 2>>
        /\ ~more => t.udc.tx = s.udc.tx /\ t.udc.fifo = s.udc.fifo
        /\ t.usbcore.sends = IF more THEN s.usbcore.sends ELSE 0
        /\ t.drv.in.id = s.drv.in.id /\ t.drv.in.len = s.drv.in.len
        /\ t.drv.in.done = s.drv.in.done + 1 /\ (t.drv.in.busy <=> s.drv.in.busy /\ more)
        /\ more => t.drv.out = s.drv.out
        /\ t.drv.out.busy => t.drv.out = s.drv.out
        /\ (t.drv.out.armed <=> s.drv.out.armed) /\ t.drv.out.id = s.drv.out.id
    <3>1. PacketSent(s, t)
      BY <1>5, <2>1, AnswerPacket
    <3>2. QED
      BY ONLY <3>1, <1>5, <2>2 DEF PacketSent
  <2>4. /\ t.udc.sts = {} /\ t.udc.setup = udc.setup /\ t.udc.stall = udc.stall
        /\ t.udc.bulk = udc.bulk /\ t.udc.sent = udc.sent /\ t.udc.rx = udc.rx
        /\ t.udc.trsize = udc.trsize
        /\ DrvAsBefore(State, t) /\ t.usbcore.queue = usbcore.queue /\ t.usbcore.cfg = usbcore.cfg
        /\ t.usbcore.eps = usbcore.eps /\ t.usbcore.armed = usbcore.armed
        /\ t.usbcore.report = usbcore.report
    BY <1>1, <1>3, <1>5, <2>3 DEF AsBefore, UdcAsBefore, DrvAsBefore, CoreAsBefore
  <2>5. host.sent # 0 => t.usbcore.report >= host.sent
    BY <1>10, <2>4 DEF CtlInv, Reported, Arrived
  <2>6. t.drv.out.busy /\ t.drv.out.armed => drv.out.busy /\ drv.out.armed /\ t.drv.out.id = drv.out.id
    BY <1>5, <2>3
  <2>7. Writing => Latched
    BY <1>10 DEF CtlInv, Reported
  <2>8. ASSUME Reads, ~Latched
        PROVE  /\ ~(t.drv.out.busy /\ t.drv.out.armed)
               /\ t.udc.tx /\ t.udc.fifo # <<>> =>
                    t.udc.fifo = <<host.req.id, host.got + 1>> /\ host.got < Due /\ t.udc.trsize = Due
               /\ host.got > 0 => t.udc.trsize = Due
               /\ t.drv.in.busy =>
                    /\ t.drv.in.id = host.req.id /\ t.drv.in.len = Due /\ t.udc.trsize = Due
                    /\ t.drv.in.done < Due /\ t.usbcore.sends = t.drv.in.id
                    /\ host.got = t.drv.in.done
    <3>1. /\ drv.in.id = host.req.id /\ drv.in.len = Due /\ udc.trsize = Due
          /\ drv.in.done < Due /\ usbcore.sends = drv.in.id
          /\ host.got = drv.in.done + 1 /\ ~(udc.tx /\ udc.fifo # <<>>)
          /\ ~(drv.out.busy /\ drv.out.armed)
      BY <1>10, <2>8 DEF CtlInv, Answered
    <3>2. CASE more
      <4>1. drv.in.done + 2 = host.got + 1 /\ host.got < Due
        BY ONLY <1>9, <2>2, <3>1, <3>2
      <4>2. t.udc.fifo = <<host.req.id, host.got + 1>>
        BY <1>5, <2>3, <3>1, <3>2, <4>1
      <4>3. QED
        BY <1>5, <2>3, <2>4, <2>6, <3>1, <3>2, <4>1, <4>2
    <3>3. CASE ~more
      BY <1>3, <1>5, <2>3, <2>4, <2>6, <3>1, <3>3
    <3>4. QED
      BY <3>2, <3>3
  <2>9. QED
    BY <2>3, <2>4, <2>5, <2>6, <2>7, <2>8
<1>11. CASE PacketEnd /\ ~drv.in.busy /\ drv.out.busy /\ drv.out.armed
  <2>1. t = out_done(s)
    BY <1>5, <1>6, <1>7, <1>11 DEF Completed
  <2>2. PICK more \in BOOLEAN : more <=> drv.out.done + 1 < drv.out.len
    OBVIOUS
  <2>3. /\ t \in Parts
        /\ DrvAsBefore(s, t) /\ t.drv.in = s.drv.in
        /\ t.udc = IF more THEN [s.udc EXCEPT !.rx = TRUE] ELSE s.udc
        /\ t.usbcore = IF more THEN s.usbcore ELSE [s.usbcore EXCEPT !.report = s.drv.out.id]
        /\ t.drv.out.id = s.drv.out.id /\ t.drv.out.len = s.drv.out.len
        /\ t.drv.out.done = s.drv.out.done + 1
        /\ (t.drv.out.busy <=> more) /\ (t.drv.out.armed <=> more)
    <3>1. PacketTaken(s, t)
      BY <1>5, <2>1, ReportPacket
    <3>2. QED
      BY ONLY <3>1, <1>5, <1>11, <2>2 DEF PacketTaken
  <2>4. /\ t.udc.sts = {} /\ t.udc.setup = udc.setup /\ t.udc.stall = udc.stall
        /\ t.udc.bulk = udc.bulk /\ t.udc.sent = udc.sent /\ t.udc.tx = udc.tx
        /\ t.udc.trsize = udc.trsize /\ t.udc.fifo = udc.fifo
        /\ more => t.udc.rx
        /\ ~more => t.udc.rx = udc.rx
    BY <1>3, <1>5, <2>3 DEF UdcType
  <2>5. /\ t.usbcore.queue = usbcore.queue /\ t.usbcore.cfg = usbcore.cfg
        /\ t.usbcore.eps = usbcore.eps /\ t.usbcore.armed = usbcore.armed
        /\ t.usbcore.report = IF more THEN usbcore.report ELSE drv.out.id
    BY <1>1, <1>5, <2>3 DEF CtlTypes, CoreState
  <2>6. DrvAsBefore(State, t)
    BY <1>1, <1>5, <2>3 DEF DrvAsBefore
  <2>7. host.sent # 0 => t.usbcore.report >= host.sent
    <3>1. drv.out.id >= host.sent
      BY <1>11 DEF CtlInv, Reported
    <3>2. more /\ host.sent # 0 => usbcore.report >= host.sent
      BY <1>9, <2>2 DEF CtlInv, Reported, Arrived
    <3>3. QED
      BY <2>5, <3>1, <3>2
  <2>8. t.drv.out.busy /\ t.drv.out.armed => drv.out.busy /\ drv.out.armed /\ t.drv.out.id = drv.out.id
    BY <1>5, <1>11, <2>3
  <2>9. Reads => Latched
    BY <1>11 DEF CtlInv, Answered
  <2>10. ASSUME Writing, ~Latched
         PROVE  /\ ~t.drv.in.busy
                /\ t.drv.out.busy /\ t.drv.out.armed =>
                     /\ t.drv.out.id = host.req.id /\ t.drv.out.len = 2 /\ t.drv.out.done < 2
                     /\ host.got = t.drv.out.done
                /\ t.udc.rx => t.drv.out.busy /\ t.drv.out.armed
                /\ host.ended => t.usbcore.report >= host.req.id
    <3>1. /\ drv.out.id = host.req.id /\ drv.out.len = 2 /\ drv.out.done < 2
          /\ host.got = drv.out.done + 1 /\ ~udc.rx
      BY <1>11, <2>10 DEF CtlInv, Reported
    <3>2. host.ended => usbcore.report >= host.req.id \/ ~more
      BY <1>9, <2>2, <2>10 DEF CtlInv, Reported, Arrived
    <3>3. host.ended => t.usbcore.report >= host.req.id
      <4>1. host.req.id >= host.req.id
        BY <1>9
      <4>2. QED
        BY <2>5, <3>1, <3>2, <4>1
    <3>4. QED
      BY <1>5, <1>11, <2>2, <2>3, <2>4, <3>1, <3>3
  <2>11. QED
    BY <2>3, <2>4, <2>5, <2>6, <2>7, <2>8, <2>9, <2>10
<1>12. CASE ~PacketEnd \/ (~drv.in.busy /\ ~(drv.out.busy /\ drv.out.armed))
  <2>1. t = s
    <3>1. CASE ~PacketEnd
      BY <1>6, <1>7, <3>1 DEF Completed
    <3>2. CASE PacketEnd /\ ~drv.in.busy /\ ~(drv.out.busy /\ drv.out.armed)
      <4>1. PICK z : z = out_done(s)
        OBVIOUS
      <4>2. PacketTaken(s, z)
        BY <1>5, <4>1, ReportPacket
      <4>3. z = s
        BY <1>5, <3>2, <4>2 DEF PacketTaken
      <4>4. QED
        BY <1>5, <1>6, <1>7, <3>2, <4>1, <4>3 DEF Completed
    <3>3. QED
      BY <1>12, <3>1, <3>2
  <2>2. host.sent # 0 => usbcore.report >= host.sent
    BY <1>12 DEF CtlInv, Reported, Arrived
  <2>3. ~Latched => ~drv.in.busy /\ ~(drv.out.busy /\ drv.out.armed)
    BY <1>8, <1>12
  <2>4. Writing /\ ~Latched => ~udc.rx /\ (host.ended => usbcore.report >= host.req.id)
    BY <2>3 DEF CtlInv, Reported, Arrived
  <2>5. DrvAsBefore(State, t)
    BY <1>1, <1>5, <2>1 DEF DrvAsBefore
  <2>6. Reads /\ ~Latched =>
              /\ udc.tx /\ udc.fifo # <<>> =>
                   udc.fifo = <<host.req.id, host.got + 1>> /\ host.got < Due /\ udc.trsize = Due
              /\ host.got > 0 => udc.trsize = Due
    BY DEF CtlInv, Answered
  <2>7. QED
    BY <1>3, <1>5, <2>1, <2>2, <2>3, <2>4, <2>5, <2>6
<1>13. QED
  BY <1>10, <1>11, <1>12

LEMMA USB_UDCInv ==
  ASSUME CtlInv, USB_UDC
  PROVE  CtlInv'
<1>1. CtlTypes /\ State \in Parts /\ State.udc = udc /\ State.drv = drv /\ State.usbcore = usbcore
  BY TheParts DEF CtlInv
<1>2. PICK t : t = Completed([State EXCEPT !.udc.sts = {}], udc.sts)
  OBVIOUS
<1>3. udc.sts # {} /\ Becomes(udc_service(State))
  BY DEF USB_UDC
<1>4. /\ t \in Parts /\ t.udc.sts = {} /\ t.udc.setup = udc.setup /\ t.udc.stall = udc.stall
      /\ t.udc.bulk = udc.bulk /\ t.udc.sent = udc.sent
      /\ DrvAsBefore(State, t) /\ t.usbcore.queue = usbcore.queue /\ t.usbcore.cfg = usbcore.cfg
      /\ t.usbcore.eps = usbcore.eps /\ t.usbcore.armed = usbcore.armed
      /\ host.sent # 0 => t.usbcore.report >= host.sent
      /\ t.drv.out.busy /\ t.drv.out.armed => drv.out.busy /\ drv.out.armed /\ t.drv.out.id = drv.out.id
      /\ Reads /\ ~Latched =>
           /\ ~(t.drv.out.busy /\ t.drv.out.armed)
           /\ t.udc.tx /\ t.udc.fifo # <<>> =>
                t.udc.fifo = <<host.req.id, host.got + 1>> /\ host.got < Due /\ t.udc.trsize = Due
           /\ host.got > 0 => t.udc.trsize = Due
           /\ t.drv.in.busy =>
                /\ t.drv.in.id = host.req.id /\ t.drv.in.len = Due /\ t.udc.trsize = Due
                /\ t.drv.in.done < Due /\ t.usbcore.sends = t.drv.in.id
                /\ host.got = t.drv.in.done
      /\ Writing /\ ~Latched =>
           /\ ~t.drv.in.busy
           /\ t.drv.out.busy /\ t.drv.out.armed =>
                /\ t.drv.out.id = host.req.id /\ t.drv.out.len = 2 /\ t.drv.out.done < 2
                /\ host.got = t.drv.out.done
           /\ t.udc.rx => t.drv.out.busy /\ t.drv.out.armed
           /\ host.ended => t.usbcore.report >= host.req.id
  BY <1>2, <1>3, PacketCompleted
<1>5. /\ t.drv.wlength = drv.wlength /\ t.drv.config_seen = drv.config_seen
      /\ t.drv.core_configured = drv.core_configured /\ t.drv.stash = drv.stash
      /\ t.drv.enabled = drv.enabled
  BY <1>1, <1>4 DEF DrvAsBefore
<1>6. CASE ~Latched
  <2>1. Becomes(t)
    BY <1>1, <1>2, <1>3, <1>6 DEF udc_service, Latched
  <2>2. udc' = t.udc /\ drv' = t.drv /\ usbcore' = t.usbcore /\ host' = host /\ made' = made /\ CtlTypes'
    BY <1>1, <1>4, <2>1, PartsBecome
  <2>3. ~Latched' /\ ~PacketEnd'
    BY <1>4, <2>2 DEF Latched, PacketEnd
  <2>4. Reads \/ Writing => usbcore.queue = <<>> /\ drv.stash = NoRequest
    BY <1>3, <1>6 DEF CtlInv, OnItsWay
  <2>5. SetupFirst'
    BY <2>3 DEF SetupFirst
  <2>6. OnItsWay'
    BY <1>4, <1>5, <2>2, <2>4 DEF OnItsWay, Reads, Writing
  <2>7. Answered'
    <3>1. SUFFICES ASSUME Reads PROVE Answered'
      BY <2>2 DEF Answered, Reads
    <3>2. udc.sent = host.got /\ (host.got > 0 => host.got <= Due) /\ Due' = Due
      BY <2>2, <3>1 DEF CtlInv, Answered, Due
    <3>3. QED
      BY <1>4, <1>6, <2>2, <2>3, <3>1, <3>2 DEF Answered
  <2>8. Reported'
    <3>1. /\ LaterThan(usbcore.queue, host.sent)
          /\ drv.stash # NoRequest => drv.stash.id > host.sent
          /\ host.sent <= made.requests /\ host.req.id <= made.requests
          /\ drv.out.busy /\ drv.out.armed => drv.out.id >= host.sent
      BY DEF CtlInv, Reported
    <3>2. host.sent # 0 => Arrived(host.sent)'
      BY <1>4, <2>2 DEF Arrived
    <3>3. Writing /\ host.ended => Arrived(host.req.id)'
      BY <1>4, <1>6, <2>2 DEF Arrived
    <3>4. QED
      BY <1>4, <1>5, <1>6, <2>2, <2>3, <3>1, <3>2, <3>3 DEF Reported, Writing
  <2>9. Enumerated'
    BY <1>4, <1>5, <1>6, <2>2, <2>3 DEF CtlInv, Enumerated, Settled
  <2>10. QED
    BY <2>2, <2>5, <2>6, <2>7, <2>8, <2>9 DEF CtlInv
<1>7. CASE Latched
  <2>1. PICK r : r = udc.setup
    OBVIOUS
  <2>2. /\ r \in Requests /\ r.id = made.requests /\ host.sent < r.id
        /\ host.req = r \/ (host.req = NoRequest /\ wLength(r) = 0)
        /\ usbcore.queue = <<>> /\ udc.sent = 0 /\ host.got = 0 /\ ~host.ended
    BY <1>7, <2>1 DEF CtlInv, SetupFirst
  <2>3. PICK v : v = ep0_setup(t, r)
    OBVIOUS
  <2>4. PICK back \in BOOLEAN : back <=> Resets(r, t)
    OBVIOUS
  <2>5. PICK seen \in BOOLEAN : seen <=> drv.config_seen /\ ~back
    OBVIOUS
  <2>6. /\ v \in Parts
        /\ v.udc.setup = udc.setup /\ v.udc.sts = {} /\ v.udc.sent = 0
        /\ ~v.udc.tx /\ ~v.udc.rx /\ ~v.udc.stall
        /\ ~back => v.udc.bulk = udc.bulk /\ v.usbcore.armed = usbcore.armed
        /\ ~v.drv.in.busy /\ ~v.drv.out.busy
        /\ v.drv.core_configured = drv.core_configured
        /\ v.usbcore.cfg = usbcore.cfg
        /\ v.usbcore.eps = usbcore.eps /\ v.usbcore.report = t.usbcore.report
        /\ r.kind = "address" => v.usbcore.queue = <<>> /\ v.drv.stash = NoRequest /\ ~v.drv.config_seen
        /\ r.kind # "address" => v.drv.wlength = wLength(r)
        /\ r.kind = "configure" => v.usbcore.queue = <<r>> /\ v.drv.stash = NoRequest /\ v.drv.config_seen
        /\ r.kind \notin {"address", "configure"} /\ (seen \/ ~NeedsConfig(r)) =>
             v.usbcore.queue = <<r>> /\ v.drv.stash = NoRequest /\ (v.drv.config_seen <=> seen)
        /\ r.kind \notin {"address", "configure"} /\ ~seen /\ NeedsConfig(r) =>
             /\ v.drv.config_seen
             /\ \/ v.usbcore.queue = <<SetConfig>> /\ v.drv.stash = r
                \/ v.usbcore.queue = <<SetConfig, r>> /\ v.drv.stash = NoRequest
    <3>1. SetupTakes(t, v, r)
      BY <1>4, <2>2, <2>3, SetupTaken
    <3>2. QED
      BY ONLY <1>4, <1>5, <2>2, <2>4, <2>5, <3>1 DEF SetupTakes
  <2>7. Becomes(v)
    BY <1>1, <1>2, <1>3, <1>7, <2>1, <2>3 DEF udc_service, Latched
  <2>8. udc' = v.udc /\ drv' = v.drv /\ usbcore' = v.usbcore /\ host' = host /\ made' = made /\ CtlTypes'
    BY <1>1, <2>6, <2>7, PartsBecome
  <2>9. ~Latched' /\ ~PacketEnd'
    BY <2>6, <2>8 DEF Latched, PacketEnd
  <2>10. Reads \/ Writing => host.req = r /\ r.kind \notin {"address", "configure"}
    BY <2>2, AnswersAreFinite DEF Reads, Writing, Writes, wLength
  <2>11. SetupFirst'
    BY <2>9 DEF SetupFirst
  <2>12. OnItsWay'
    BY <2>2, <2>6, <2>8, <2>10 DEF OnItsWay, Reads, Writing
  <2>13. Answered'
    BY <2>2, <2>6, <2>8 DEF Answered, Reads
  <2>14. Reported'
    <3>1. host.sent \in Nat /\ r.id > host.sent
      BY <1>1, <2>2 DEF CtlTypes, HostType, Requests
    <3>2. LaterThan(<<>>, host.sent) /\ LaterThan(<<SetConfig>>, host.sent)
          /\ LaterThan(<<r>>, host.sent) /\ LaterThan(<<SetConfig, r>>, host.sent)
      BY <2>2, <3>1, QueuesOfASetup
    <3>3. v.usbcore.queue \in {<<>>, <<SetConfig>>, <<r>>, <<SetConfig, r>>}
          /\ v.drv.stash \in {NoRequest, r}
      BY <2>6
    <3>4. LaterThan(v.usbcore.queue, host.sent) /\ (v.drv.stash # NoRequest => v.drv.stash.id > host.sent)
      BY <3>1, <3>2, <3>3
    <3>5. host.sent # 0 => Arrived(host.sent)'
      BY <1>4, <2>6, <2>8 DEF Arrived
    <3>6. host.sent <= made.requests /\ host.req.id <= made.requests
      BY DEF CtlInv, Reported
    <3>7. QED
      BY <2>2, <2>6, <2>8, <3>4, <3>5, <3>6 DEF Reported, Writing
  <2>15. Enumerated'
    <3>1. v.usbcore.cfg => v.drv.core_configured
      BY <2>6 DEF CtlInv, Enumerated
    <3>2. host.stage \in {"opened", "again", "addressed"} => ~v.drv.config_seen
      <4>1. SUFFICES ASSUME host.stage \in {"opened", "again", "addressed"} PROVE ~v.drv.config_seen
        OBVIOUS
      <4>2. ~NeedsConfig(r) /\ r.kind # "configure"
        BY <1>7, <2>1, <4>1 DEF CtlInv, Enumerated
      <4>3. r.kind # "device" => ~drv.config_seen
        BY <1>7, <2>1, <4>1 DEF CtlInv, Enumerated
      <4>4. r.kind = "device" => ~seen
        BY <1>5, <2>4, <2>5 DEF Resets
      <4>5. QED
        BY <2>5, <2>6, <4>2, <4>3, <4>4
    <3>3. NeedsConfig(host.req) => host.stage = "configured" /\ v.drv.config_seen
      <4>1. NeedsConfig(host.req) => host.req = r
        BY <2>2, EventKinds
      <4>2. NeedsConfig(r) => r.kind \notin {"address", "configure"}
        BY DEF NeedsConfig
      <4>3. NeedsConfig(host.req) => host.stage = "configured"
        BY DEF CtlInv, Enumerated
      <4>4. QED
        BY <2>6, <4>1, <4>2, <4>3
    <3>4. Settled' => udc.bulk /\ usbcore.armed /\ ~back
      <4>1. SUFFICES ASSUME Settled' PROVE udc.bulk /\ usbcore.armed /\ ~back
        OBVIOUS
      <4>2. host.stage = "configured" /\ v.drv.config_seen /\ usbcore.eps /\ Plain(v.usbcore.queue)
        BY <2>6, <2>8, <4>1 DEF Settled
      <4>3. r.kind # "address" /\ r.kind # "configure" /\ (seen \/ ~NeedsConfig(r))
        BY <2>2, <2>6, <4>2, QueuesOfASetup, EventKinds
      <4>4. seen
        BY <2>6, <4>2, <4>3
      <4>5. Settled
        BY <2>1, <2>2, <2>5, <4>2, <4>3, <4>4 DEF Settled, Plain
      <4>6. QED
        BY <2>5, <4>4, <4>5 DEF CtlInv, Enumerated
    <3>5. QED
      BY <2>6, <2>8, <2>9, <3>1, <3>2, <3>3, <3>4 DEF Enumerated
  <2>16. QED
    BY <2>8, <2>11, <2>12, <2>13, <2>14, <2>15 DEF CtlInv
<1>8. QED
  BY <1>6, <1>7

LEMMA CtlStep ==
  ASSUME CtlInv, [RcNext]_rcvars
  PROVE  CtlInv'
<1>1. CASE UNCHANGED rcvars
  BY <1>1 DEF rcvars, CtlInv, CtlTypes, SetupFirst, OnItsWay, Answered, Reported, Enumerated,
              Reads, Writing, Latched, PacketEnd, Due, Arrived, Settled
<1>2. CASE USB_UDC
  BY <1>2, USB_UDCInv
<1>3. CASE StashTick
  BY <1>3, StashTickInv
<1>4. CASE SendReturns
  BY <1>4, SendReturnsInv
<1>5. CASE CoreConfigures
  BY <1>5, CoreConfiguresInv
<1>6. CASE CoreAnswers
  BY <1>6, CoreAnswersInv
<1>7. CASE BusReset
  BY <1>7, BusResetInv
<1>8. CASE HostSetup
  BY <1>8, HostSetupInv
<1>9. CASE HostIn
  BY <1>9, HostInInv
<1>10. CASE HostOut
  BY <1>10, HostOutInv
<1>11. CASE HostEnds
  BY <1>11, HostEndsInv
<1>12. QED
  BY <1>1, <1>2, <1>3, <1>4, <1>5, <1>6, <1>7, <1>8, <1>9, <1>10, <1>11
     DEF RcNext, HostGoesOn, CoreGoesOn

\* The three promises follow: an answer has begun only when the queue is empty.
LEMMA CtlInvKeeps ==
  ASSUME CtlInv
  PROVE  ControlKept
<1>1. CtlTypes
  BY DEF CtlInv
<1>2. OwnAnswers
  BY DEF CtlInv, OwnAnswers
<1>3. ReportKept
  BY DEF CtlInv, Reported, Arrived, PacketEnd, ReportKept
<1>4. Reconfigured
  <2>1. SUFFICES ASSUME host.req # NoRequest, host.req.kind = "class", host.got = 1, usbcore.eps
                 PROVE  udc.bulk /\ usbcore.armed
    BY DEF Reconfigured
  <2>2. Reads /\ NeedsConfig(host.req)
    BY <2>1 DEF Reads, Writes, wLength, NeedsConfig
  <2>3. ~Latched
    BY <2>1 DEF CtlInv, SetupFirst
  <2>4. usbcore.queue = <<>>
    BY <2>1, <2>2, <2>3 DEF CtlInv, OnItsWay
  <2>5. Settled
    BY <2>1, <2>2, <2>3, <2>4 DEF CtlInv, Enumerated, Settled, Plain
  <2>6. QED
    BY <2>5 DEF CtlInv, Enumerated
<1>5. QED
  BY <1>2, <1>3, <1>4 DEF ControlKept

\* Whatever a host asks, gives up and resets: it is given all of the answer to its own
\* request and nothing else, a report it has sent is not lost to the next SETUP, and what
\* needs a configuration is answered by a core that has activated one since the last reset
\* (ep0_setup(), deliver_stashed_setup()).
THEOREM ControlIsKept == RcSpec => []ControlKept
<1>1. RcInit => CtlInv
  BY CtlInvInit
<1>2. CtlInv /\ [RcNext]_rcvars => CtlInv'
  BY CtlStep
<1>3. CtlInv => ControlKept
  BY CtlInvKeeps
<1>4. QED
  BY <1>1, <1>2, <1>3, PTL DEF RcSpec
=============================================================================
