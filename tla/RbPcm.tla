------------------------------- MODULE RbPcm -------------------------------
(***************************************************************************)
(* Rockbox on the phone: playback and recording (pcm-sc6530c.c of the port)  *)
(* under Rockbox's PCM core, which is not part of the repository: the core    *)
(* asks for a stretch to be played or recorded, is called back from the       *)
(* interrupt for the next one, and locks the interrupt out around all it does.*)
(*                                                                         *)
(* Playback and recording share the interrupt's line, each with a lock depth  *)
(* of its own, and the enable bit of the codec's interface (the VBC).         *)
(* Samples are counted in units of half a plane (or bank): a plane is what    *)
(* one DMA block plays, and a stretch of the core's need not fill one.        *)
(***************************************************************************)
EXTENDS Integers, Sequences

CONSTANTS
  Stretches,     \* what the core has to play: sequences of lengths in units
  RecStretches,  \* the buffers it gives a recording: sequences of lengths
  MaxPlays,      \* bound: how often the core starts, stops or only locks
  MaxRec,        \* bound: the units that are recorded
  MaxErrors      \* bound: DMA errors

ASSUME RbPcmAssumption ==
  /\ Stretches \cup RecStretches \subseteq Seq(Nat \ {0}) \ {<<>>}
  /\ {MaxPlays, MaxRec, MaxErrors} \subseteq Nat

VARIABLES
  snk,    \* the port's playback: running, completed, eof, draining, source_frames
          \* (left), the units given so far and those in the plane
  cap,    \* its recording: rec_running, rec_next, rec_size, and the last unit taken
  bank,   \* the last unit in each recording bank
  depth,  \* lock_depth and rec_lock_depth
  rline,  \* the interrupt's line is enabled
  rvbc,   \* the bits of VBC_CTRL that are set
  rdma,   \* the three channels: off, busy, done or failed
  player, \* the core: pcm_playing, what is left to play, and to record into
  caller, \* the thread in the core: what it is about to do under the lock
  heard,  \* the units each channel has played since the last start
  got,    \* the units recorded, and those of banks that are complete
  budget  \* what is left of the bounds

rpcmvars == <<snk, cap, bank, depth, rline, rvbc, rdma, player, caller, heard, got, budget>>

Both    == {"left", "right"}
Sides   == {"play", "rec"}
Silent  == [running |-> FALSE, completed |-> {}, eof |-> FALSE, draining |-> FALSE, left |-> 0,
            given |-> 0, from |-> 0, units |-> 0]
IdleCap == [running |-> FALSE, next |-> 0, size |-> 0, last |-> 0]

RpcmInit ==
  /\ snk = Silent /\ cap = IdleCap /\ bank = [b \in {0, 1} |-> 0]
  /\ depth = [s \in Sides |-> 0] /\ rline = FALSE /\ rvbc = {}
  /\ rdma = [ch \in Both \cup {"rec"} |-> "off"]
  /\ player = [playing |-> FALSE, more |-> <<>>, room |-> <<>>]
  /\ caller = [at |-> "idle", op |-> "lock", side |-> "play"]
  /\ heard = [ch \in Both |-> 0] /\ got = [taken |-> 0, full |-> 0]
  /\ budget = [plays |-> MaxPlays, errors |-> MaxErrors]
-----------------------------------------------------------------------------
(* The port *)

\* dma_irq_update()
LineOf(p, r, d) == (p \/ r) /\ d["play"] = 0 /\ d["rec"] = 0

\* Mutant: the enable bit goes with the playback.
VbcAlwaysOff(recording) == {"rec"} \cap rvbc

\* What stop_hardware() leaves of VBC_CTRL.
VbcAfterStop(recording) == IF recording THEN rvbc \ {"play"} ELSE rvbc \ {"play", "on"}

Channels(chs, state) == [ch \in DOMAIN rdma |-> IF ch \in chs THEN state ELSE rdma[ch]]

\* stop_hardware(), in a driver that goes on as v.
stop_hardware(v) ==
  /\ snk' = [v EXCEPT !.running = FALSE, !.completed = {}]
  /\ rvbc' = VbcAfterStop(cap.running)
  /\ rdma' = Channels(Both, "off")
  /\ rline' = LineOf(FALSE, cap.running, depth)

\* fill_plane(): the units of one plane.  A stretch that is used up makes it ask
\* the core for the next; the core, with none left, stops, and sink_stop() lets
\* it, as `requesting' is set.
Take(v, c) ==
  IF v.units = 2 \/ (v.left = 0 /\ v.eof) THEN [v |-> v, c |-> c]
  ELSE IF v.left > 0
       THEN [v |-> [v EXCEPT !.left = @ - 1, !.given = @ + 1, !.units = @ + 1,
                             !.from = IF v.units = 0 THEN v.given + 1 ELSE @],
             c |-> c]
  ELSE IF c.more = <<>> THEN [v |-> [v EXCEPT !.eof = TRUE],
                              c |-> [c EXCEPT !.playing = FALSE]]
  ELSE [v |-> [v EXCEPT !.left = Head(c.more)], c |-> [c EXCEPT !.more = Tail(@)]]

\* Each unit may need a stretch, and then itself.
TakeOn(f) == Take(f.v, f.c)
fill_plane(v, c) ==
  TakeOn(TakeOn(TakeOn(TakeOn(TakeOn([v |-> [v EXCEPT !.units = 0], c |-> c])))))

\* sink_play(): the first plane, whatever is in it.
sink_play(first, more) ==
  LET f == fill_plane([Silent EXCEPT !.left = first],
                      [player EXCEPT !.more = more, !.playing = FALSE])
  IN  /\ snk' = [f.v EXCEPT !.running = TRUE]
      \* pcm_play_data() sets pcm_playing after ops.play(), even if that ran dry.
      /\ player' = [f.c EXCEPT !.playing = TRUE]
      /\ rdma' = Channels(Both, "busy") /\ rvbc' = rvbc \cup {"on", "play"}
      /\ rline' = LineOf(TRUE, cap.running, depth)
      /\ heard' = [ch \in Both |-> 0]

\* Mutant: one channel is enough.
AnyDone(completed) == completed # {}

AllDone(completed) == completed = Both

\* DMA() after rec_irq(): pending channels are acknowledged, even when nothing
\* runs.  The next plane is filled when both have ended; one without any sample
\* flushes what the VBC still holds.
PlayIrq ==
  LET ended     == {ch \in Both : rdma[ch] \in {"done", "failed"}}
      failed    == \E ch \in Both : rdma[ch] = "failed"
      completed == snk.completed \cup {ch \in Both : rdma[ch] = "done"}
      v         == [snk EXCEPT !.completed = completed]
      f         == fill_plane(v, player)
  IN
  /\ ended # {}
  /\ \/ /\ ~snk.running \/ (~failed /\ ~AllDone(completed))
        /\ snk' = v /\ rdma' = Channels(ended, "off") /\ UNCHANGED <<rline, rvbc, player>>
     \/ /\ snk.running /\ failed /\ stop_hardware([Silent EXCEPT !.given = v.given])
        /\ player' = [player EXCEPT !.playing = FALSE]
     \/ /\ snk.running /\ ~failed /\ AllDone(completed) /\ snk.draining
        /\ stop_hardware(IF player.playing THEN [Silent EXCEPT !.given = v.given] ELSE v)
        /\ player' = [player EXCEPT !.playing = FALSE]
     \/ /\ snk.running /\ ~failed /\ AllDone(completed) /\ ~snk.draining
        /\ snk' = [f.v EXCEPT !.draining = f.v.units = 0 /\ f.v.eof, !.completed = {}]
        /\ player' = f.c /\ rdma' = Channels(Both, "busy") /\ UNCHANGED <<rline, rvbc>>
  /\ UNCHANGED <<cap, bank, got>>

\* rec_hw_stop()
rec_hw_stop(c) ==
  /\ cap' = [c EXCEPT !.running = FALSE]
  /\ rdma' = [rdma EXCEPT !["rec"] = "off"]
  /\ rvbc' = IF snk.running THEN rvbc \ {"rec"} ELSE rvbc \ {"rec", "on"}
  /\ rline' = LineOf(snk.running, FALSE, depth)

\* The two units of a bank go to the core's buffer, and on into its next one.
Store(c, room) ==
  IF c.size > 0 THEN [c |-> [c EXCEPT !.size = @ - 1], room |-> room, ok |-> TRUE]
  ELSE IF room = <<>> THEN [c |-> c, room |-> room, ok |-> FALSE]
  ELSE [c |-> [c EXCEPT !.size = Head(room) - 1], room |-> Tail(room), ok |-> TRUE]

\* rec_irq(): the other bank is armed before this one is copied.
RecIrq ==
  LET one == Store([cap EXCEPT !.next = 1 - @], player.room)
      two == Store(one.c, one.room)
      n   == IF ~one.ok THEN 0 ELSE IF ~two.ok THEN 1 ELSE 2
  IN
  /\ \/ /\ rdma["rec"] = "failed" /\ rec_hw_stop(cap) /\ UNCHANGED <<player, got>>
     \/ /\ rdma["rec"] = "done"
        /\ player' = [player EXCEPT !.room = two.room]
        /\ got' = [got EXCEPT !.taken = @ + n]
        /\ LET c == [two.c EXCEPT !.last = bank[cap.next]] IN
           IF n = 2
           THEN /\ cap' = c /\ rdma' = [rdma EXCEPT !["rec"] = "busy"]
                /\ UNCHANGED <<rvbc, rline>>
           ELSE rec_hw_stop(c)
  /\ UNCHANGED <<snk, bank>>

Irq ==
  /\ rline /\ (RecIrq \/ (rdma["rec"] \notin {"done", "failed"} /\ PlayIrq))
  /\ UNCHANGED <<depth, caller, heard, budget>>
-----------------------------------------------------------------------------
(* The DMA and the codec *)

PlayEnds(ch) ==
  /\ rdma[ch] = "busy" /\ {"on", "play"} \subseteq rvbc
  /\ rdma' = [rdma EXCEPT ![ch] = "done"]
  /\ heard' = [heard EXCEPT ![ch] = @ + snk.units]
  /\ UNCHANGED <<snk, cap, bank, depth, rline, rvbc, player, caller, got, budget>>

\* Without anybody to take a bank, what comes next is lost in the FIFO.
RecEnds ==
  /\ rdma["rec"] = "busy" /\ {"on", "rec"} \subseteq rvbc /\ got.full < MaxRec
  /\ rdma' = [rdma EXCEPT !["rec"] = "done"]
  /\ got' = [got EXCEPT !.full = @ + 2]
  /\ bank' = [bank EXCEPT ![cap.next] = got.full + 2]
  /\ UNCHANGED <<snk, cap, depth, rline, rvbc, player, caller, heard, budget>>

DmaFails(ch) ==
  /\ rdma[ch] = "busy" /\ budget.errors > 0
  /\ rdma' = [rdma EXCEPT ![ch] = "failed"]
  /\ budget' = [budget EXCEPT !.errors = @ - 1]
  /\ UNCHANGED <<snk, cap, bank, depth, rline, rvbc, player, caller, heard, got>>
-----------------------------------------------------------------------------
(* A thread in the core: lock, act, unlock *)

PcmOps == {[op |-> o, side |-> s] : o \in {"start", "stop", "lock"}, s \in Sides}

\* sink_lock() or pcm_rec_lock(); the mixer's caller already holds it.
PcmLock ==
  /\ caller.at = "idle" /\ budget.plays > 0
  /\ \E o \in PcmOps, n \in 1 .. 2 :
       /\ caller' = [at |-> "locked", op |-> o.op, side |-> o.side]
       /\ depth' = [depth EXCEPT ![o.side] = @ + n]
  /\ rline' = FALSE
  /\ budget' = [budget EXCEPT !.plays = @ - 1]
  /\ UNCHANGED <<snk, cap, bank, rvbc, rdma, player, heard, got>>

Acts(o, s) ==
  /\ caller.at = "locked" /\ caller.op = o /\ caller.side = s
  /\ caller' = [caller EXCEPT !.at = "done"]
  /\ UNCHANGED <<depth, budget>>

\* pcm_play_data(): sink_stop() is the beginning of sink_play().
PcmStart ==
  /\ Acts("start", "play")
  /\ \E s \in Stretches : sink_play(Head(s), Tail(s))
  /\ UNCHANGED <<cap, bank, got>>

PcmStop ==
  /\ Acts("stop", "play")
  /\ stop_hardware([Silent EXCEPT !.given = snk.given])
  /\ player' = [player EXCEPT !.playing = FALSE]
  /\ UNCHANGED <<cap, bank, heard, got>>

\* pcm_rec_dma_start(): rec_hw_stop() first.
RecStart ==
  /\ Acts("start", "rec")
  /\ \E s \in RecStretches :
       /\ cap' = [running |-> TRUE, next |-> 0, size |-> Head(s), last |-> got.full]
       /\ player' = [player EXCEPT !.room = Tail(s)]
  /\ rdma' = [rdma EXCEPT !["rec"] = "busy"] /\ rvbc' = rvbc \cup {"on", "rec"}
  /\ rline' = LineOf(snk.running, TRUE, depth)
  /\ UNCHANGED <<snk, bank, heard, got>>

RecStop ==
  /\ Acts("stop", "rec") /\ rec_hw_stop(cap)
  /\ UNCHANGED <<snk, bank, player, heard, got>>

JustLocks ==
  /\ \E s \in Sides : Acts("lock", s)
  /\ UNCHANGED <<snk, cap, bank, rline, rvbc, rdma, player, heard, got>>

PcmUnlock ==
  /\ caller.at = "done"
  /\ LET d == [depth EXCEPT ![caller.side] = @ - 1] IN
     /\ depth' = d /\ rline' = LineOf(snk.running, cap.running, d)
     /\ caller' = [caller EXCEPT !.at = IF d[caller.side] = 0 THEN "idle" ELSE "done"]
  /\ UNCHANGED <<snk, cap, bank, rvbc, rdma, player, heard, got, budget>>

RpcmNext ==
  \/ Irq \/ RecEnds
  \/ \E ch \in Both : PlayEnds(ch)
  \/ \E ch \in Both \cup {"rec"} : DmaFails(ch)
  \/ PcmLock \/ PcmStart \/ PcmStop \/ RecStart \/ RecStop \/ JustLocks \/ PcmUnlock

RpcmSpec == RpcmInit /\ [][RpcmNext]_rpcmvars
-----------------------------------------------------------------------------
\* What a busy channel plays is what comes next: no unit is lost or played twice,
\* and no plane is refilled while a channel still reads it.
PlaysNext ==
  \A ch \in Both : rdma[ch] = "busy" /\ snk.units > 0 => snk.from = heard[ch] + 1

\* The last bank that was complete is the one that was taken.
TakesLast == cap.running /\ rdma["rec"] = "busy" => cap.last = got.full

\* The VBC is on exactly for who runs, and the line is open exactly then.
SharedRight ==
  /\ "on" \in rvbc <=> snk.running \/ cap.running
  /\ "play" \in rvbc <=> snk.running
  /\ "rec" \in rvbc <=> cap.running
  /\ rline = LineOf(snk.running, cap.running, depth)

\* The core does not go on believing in a playback that has ended, and one that
\* runs dry has played everything it was given.
CoreAgrees ==
  /\ caller.at = "idle" /\ player.playing => snk.running
  /\ snk.draining => \A ch \in Both : heard[ch] = snk.given

PcmKept == PlaysNext /\ TakesLast /\ SharedRight /\ CoreAgrees
=============================================================================
