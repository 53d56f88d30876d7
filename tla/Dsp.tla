-------------------------------- MODULE Dsp --------------------------------
(***************************************************************************)
(* The DSP driver (os/drivers/dsp.c): the program goes to the boot ROM block *)
(* by block, then layer 1 is fed through rings in share memory.  The DSP runs *)
(* beside the driver and answers when it likes, or never; its half of the     *)
(* download is the emulator's (sc6530_dsp.c), with the answers delayed.       *)
(*                                                                         *)
(* A ring has two indexes, each written by one side only: in is the slot      *)
(* written last, out the slot read last.  Slots and indexes are single words  *)
(* of share memory, so each access is a step of its own.                      *)
(***************************************************************************)
EXTENDS Integers, Sequences

CONSTANTS
  ProgramBlocks,    \* the program's blocks
  Records,   \* its parameter records
  FrameSlots, CommandSlots, ResultSlots,  \* FI_SLOTS, CMD_SLOTS, PM_SLOTS
  Dry,       \* the filling from which post_fi() asks for an interrupt (6)
  MaxFrames  \* bound: the frames posted after a start of layer 1

ASSUME DspAssumption ==
  /\ ProgramBlocks \in Nat \ {0} /\ Records \in Nat
  /\ {FrameSlots, Dry, CommandSlots, ResultSlots} \subseteq Nat
  /\ FrameSlots > Dry /\ Dry > 3 /\ CommandSlots > 1 /\ ResultSlots > 1

VARIABLES
  drv,    \* the thread in the driver: where it is, the block or record it is at, the
          \* ring indexes it has read; dsp_info.state, cpu_held
  sm,     \* share memory: arm_ctl, dsp_ctl, the block at +8, the record at +0x6f6
  ring,   \* the three rings: in, out and slots
  rom,    \* the DSP: held in reset, running, the edge it has to answer, the blocks it has
          \* copied, the frames posted and carried out, the records taken, the results it
          \* gave and those the driver has read
  irq     \* the DSP's interrupt: latched, its line enabled, dsp_info.irqs has moved

dspvars == <<drv, sm, ring, rom, irq>>

At(p) == drv.pc = p
Goto(p) == drv' = [drv EXCEPT !.pc = p]

\* Outside the driver nothing but the state is kept.
Outside(d) == [d EXCEPT !.pc = "out", !.n = 0, !.r = "fi", !.in = 0, !.out = 0]
Leave == drv' = Outside(drv)

Slots == [fi |-> FrameSlots, cmd |-> CommandSlots, pm |-> ResultSlots]
Cleared == [r \in DOMAIN Slots |->
              [in |-> 0, out |-> 0, slot |-> [i \in 0 .. Slots[r] - 1 |-> [n |-> 0, more |-> FALSE]]]]

Fresh == [runs |-> FALSE, l1 |-> FALSE, ask |-> "none", copied |-> <<>>,
          posted |-> 0, frames |-> <<>>, records |-> <<>>, results |-> 0, got |-> <<>>]

DspInit ==
  /\ drv = [pc |-> "out", n |-> 0, r |-> "fi", in |-> 0, out |-> 0,
            state |-> "off", held |-> FALSE]
  /\ sm = [arm |-> {}, ctl |-> {}, data |-> 0, rec |-> 0]
  /\ ring = Cleared
  /\ rom = [reset |-> TRUE, d |-> Fresh]
  /\ irq = [latch |-> FALSE, line |-> FALSE, moved |-> FALSE]
-----------------------------------------------------------------------------
(* The registers *)

\* A write of arm_ctl: the DSP answers the edges of DATA_READY and START_COPY.
ArmEdge(old, new) ==
  IF "data" \in new \ old THEN "data" ELSE IF "start" \in new \ old THEN "start" ELSE "none"

SetArm(bits, data) ==
  /\ sm' = [sm EXCEPT !.arm = bits, !.data = data]
  /\ rom' = IF rom.reset \/ ArmEdge(sm.arm, bits) = "none" THEN rom
            ELSE [rom EXCEPT !.d.ask = ArmEdge(sm.arm, bits)]

\* APB_EB0_SET, bit 16
HoldReset == rom' = [reset |-> TRUE, d |-> Fresh]
-----------------------------------------------------------------------------
(* The download, in the thread of the DSP boot screen *)

\* dsp_boot(): dsp_stop(), then the clock is held.
Boot ==
  /\ At("out") /\ drv.state # "booting"
  /\ drv' = [drv EXCEPT !.pc = "load", !.n = 1, !.state = "booting", !.held = TRUE]
  /\ IF drv.state = "running" THEN HoldReset ELSE UNCHANGED rom
  /\ irq' = [irq EXCEPT !.line = FALSE, !.latch = @ /\ drv.state # "running"]
  /\ UNCHANGED <<sm, ring>>

\* load_program() finds the image and the room to decode it; download() begins with
\* the reset held.
Load ==
  /\ At("load")
  /\ ring' = Cleared
  /\ HoldReset
  /\ sm' = [sm EXCEPT !.arm = {"ready"}, !.ctl = {}, !.data = 0]
  /\ Goto("release")
  /\ UNCHANGED <<irq>>

\* The reset is released, and the interrupt of an earlier attempt forgotten.
ReleaseReset ==
  /\ At("release")
  /\ rom' = [rom EXCEPT !.reset = FALSE, !.d.ask = "boot"]
  /\ irq' = [irq EXCEPT !.latch = FALSE]
  /\ Goto("ready")
  /\ UNCHANGED <<sm, ring>>

\* What wait_dsp() writes again while it waits.
Keepalive ==
  CASE At("ready") -> {"ready"} [] At("rtc") -> {"ready", "data"} [] At("done") -> {"start"}
Keep ==
  /\ drv.pc \in {"ready", "rtc", "done"}
  /\ SetArm(Keepalive, sm.data)
  /\ UNCHANGED <<drv, ring, irq>>

\* download_block(): the block and DATA_READY; READY_TO_COPY, START_COPY; COPY_DONE
\* and the interrupt.
PutBlock ==
  /\ At("block") /\ drv.n <= ProgramBlocks
  /\ SetArm({"ready", "data"}, drv.n)
  /\ Goto("rtc")
  /\ UNCHANGED <<ring, irq>>

Seen(bit) == bit \in sm.ctl

SeesReady ==
  /\ At("ready") /\ Seen("ready") /\ Goto("block")
  /\ UNCHANGED <<sm, ring, rom, irq>>

SeesReadyToCopy ==
  /\ At("rtc") /\ Seen("rtc") /\ Goto("done")
  /\ SetArm((sm.arm \ {"data"}) \cup {"start"}, sm.data)
  /\ UNCHANGED <<ring, irq>>

SeesCopied ==
  /\ At("done") /\ Seen("done") /\ Goto("irq")
  /\ UNCHANGED <<sm, ring, rom, irq>>

SeesInterrupt ==
  /\ At("irq") /\ irq.latch
  /\ irq' = [irq EXCEPT !.latch = FALSE]
  /\ SetArm(sm.arm \ {"start"}, sm.data)
  /\ drv' = [drv EXCEPT !.pc = "block", !.n = @ + 1]
  /\ UNCHANGED <<ring>>

\* BOOT_DONE, 13 ms, and a second reset that starts the program.
Start ==
  /\ At("block") /\ drv.n > ProgramBlocks
  /\ sm' = [sm EXCEPT !.arm = {"boot"}]
  /\ rom' = [rom EXCEPT !.d.ask = "none", !.d.runs = TRUE]
  /\ drv' = Outside([drv EXCEPT !.state = "running"])
  /\ UNCHANGED <<ring, irq>>

\* No image, no memory, or a wait that timed out.
Fail ==
  /\ drv.pc \in {"load", "ready", "rtc", "done", "irq"}
  /\ HoldReset
  /\ drv' = Outside([drv EXCEPT !.state = "failed", !.held = FALSE])
  /\ UNCHANGED <<sm, ring, irq>>

\* dsp_stop()
DspStop ==
  /\ At("out") /\ drv.state # "off"
  /\ IF drv.state = "running" THEN HoldReset ELSE UNCHANGED rom
  /\ irq' = [irq EXCEPT !.line = FALSE, !.latch = @ /\ drv.state # "running"]
  /\ drv' = [drv EXCEPT !.state = IF @ = "failed" THEN @ ELSE "off", !.held = FALSE]
  /\ UNCHANGED <<sm, ring>>
-----------------------------------------------------------------------------
(* The boot ROM *)

Answers(a) == ~rom.reset /\ rom.d.ask = a

RomReady ==
  /\ Answers("boot")
  /\ sm' = [sm EXCEPT !.ctl = {"ready"}]
  /\ rom' = [rom EXCEPT !.d.ask = "none"]
  /\ UNCHANGED <<drv, ring, irq>>

RomReadyToCopy ==
  /\ Answers("data")
  /\ sm' = [sm EXCEPT !.ctl = {"rtc"}]
  /\ rom' = [rom EXCEPT !.d.ask = "none"]
  /\ UNCHANGED <<drv, ring, irq>>

RomCopy ==
  /\ Answers("start")
  /\ sm' = [sm EXCEPT !.ctl = {"done"}]
  /\ rom' = [rom EXCEPT !.d.ask = "none", !.d.copied = Append(@, sm.data)]
  /\ irq' = [irq EXCEPT !.latch = TRUE]
  /\ UNCHANGED <<drv, ring>>

Rom == RomReady \/ RomReadyToCopy \/ RomCopy
-----------------------------------------------------------------------------
(* Layer 1 *)

NextSlot(r, i) == (i + 1) % Slots[r]

\* l1_start(): share memory cleared, the line on, the start mark.
L1Start ==
  /\ At("out") /\ drv.state = "running"
  /\ ring' = Cleared
  /\ irq' = [irq EXCEPT !.latch = FALSE, !.line = TRUE]
  /\ rom' = [rom EXCEPT !.d = [Fresh EXCEPT !.copied = rom.d.copied, !.runs = TRUE, !.l1 = TRUE]]
  /\ drv' = [drv EXCEPT !.pc = "records", !.n = 1]
  /\ UNCHANGED <<sm>>

\* send_records(): the body of the next record, and the count of interrupts.
PutRecord ==
  /\ At("records") /\ drv.n <= Records
  /\ sm' = [sm EXCEPT !.rec = drv.n]
  /\ irq' = [irq EXCEPT !.moved = FALSE]
  /\ drv' = [drv EXCEPT !.pc = "post", !.r = "cmd"]
  /\ UNCHANGED <<ring, rom>>

RecordsSent ==
  /\ At("records") /\ drv.n > Records /\ Leave
  /\ UNCHANGED <<sm, ring, rom, irq>>

\* A frame instruction of l1_pm_post() or l1_idle_post(), only posted while the DSP
\* runs, and after l1_start() (dsp.h).
PostFrame ==
  /\ At("out") /\ drv.state = "running" /\ rom.d.l1 /\ rom.d.posted < MaxFrames
  /\ drv' = [drv EXCEPT !.pc = "post", !.r = "fi", !.n = rom.d.posted + 1]
  /\ UNCHANGED <<sm, ring, rom, irq>>

\* post_cmd(), post_fi(): both indexes are read; a full ring ends it.
PostRead ==
  /\ At("post")
  /\ LET q == ring[drv.r]
         full == NextSlot(drv.r, q.in) = q.out
     IN  drv' = [drv EXCEPT !.pc = IF full THEN "out" ELSE "slot",
                            !.in = NextSlot(drv.r, q.in), !.out = q.out]
  /\ UNCHANGED <<sm, ring, rom, irq>>

\* Mutant: the index is moved before the slot is written.
PostIndexFirst ==
  /\ At("slot")
  /\ ring' = [ring EXCEPT ![drv.r].in = drv.in]
  /\ Goto("in")
  /\ UNCHANGED <<sm, rom, irq>>

\* The slot is written, then the index.
PostSlot ==
  /\ At("slot")
  /\ ring' = [ring EXCEPT ![drv.r].slot[drv.in] = [n |-> drv.n, more |-> FALSE]]
  /\ Goto("in")
  /\ UNCHANGED <<sm, rom, irq>>

Filled == (drv.in + Slots.fi - drv.out) % Slots.fi

PostIn ==
  /\ At("in")
  /\ ring' = [ring EXCEPT ![drv.r].in = drv.in]
  /\ IF drv.r = "cmd" THEN Goto("taken") /\ UNCHANGED rom
     ELSE /\ IF Filled >= Dry THEN Goto("ask") ELSE Leave
          /\ rom' = [rom EXCEPT !.d.posted = drv.n]
  /\ UNCHANGED <<sm, irq>>

\* FI_ASK_MORE in the third frame before the last.
AskMore ==
  /\ At("ask")
  /\ ring' = [ring EXCEPT !.fi.slot[(drv.in + Slots.fi - 3) % Slots.fi].more = TRUE]
  /\ Leave
  /\ UNCHANGED <<sm, rom, irq>>

\* wait_cmd_taken(): the DSP's out caught up, or it interrupted since.
RecordTaken ==
  /\ At("taken") /\ (ring.cmd.out = ring.cmd.in \/ irq.moved)
  /\ drv' = [drv EXCEPT !.pc = "records", !.n = @ + 1]
  /\ UNCHANGED <<sm, ring, rom, irq>>

NotTaken ==
  /\ At("taken") /\ Leave
  /\ UNCHANGED <<sm, ring, rom, irq>>

\* l1_pm_read(): the indexes, up to max results, and the index again.
ReadBegin ==
  /\ At("out") /\ drv.state = "running" /\ rom.d.l1
  /\ \E max \in 1 .. 2 :
       drv' = [drv EXCEPT !.pc = "read", !.in = ring.pm.in, !.out = ring.pm.out, !.n = max]
  /\ UNCHANGED <<sm, ring, rom, irq>>

ReadOne ==
  /\ At("read") /\ drv.out # drv.in /\ drv.n > 0
  /\ LET i == NextSlot("pm", drv.out)
     IN  /\ drv' = [drv EXCEPT !.out = i, !.n = @ - 1]
         /\ rom' = [rom EXCEPT !.d.got = Append(@, ring.pm.slot[i].n)]
  /\ UNCHANGED <<sm, ring, irq>>

ReadEnd ==
  /\ At("read") /\ (drv.out = drv.in \/ drv.n = 0)
  /\ ring' = [ring EXCEPT !.pm.out = drv.out]
  /\ Leave
  /\ UNCHANGED <<sm, rom, irq>>
-----------------------------------------------------------------------------
(* The DSP's program, from how the driver uses it, and the interrupt *)

Layer1 == ~rom.reset /\ rom.d.runs /\ rom.d.l1

DspFrame ==
  /\ Layer1 /\ ring.fi.out # ring.fi.in
  /\ LET i == NextSlot("fi", ring.fi.out)
         f == ring.fi.slot[i]
     IN  /\ ring' = [ring EXCEPT !.fi.out = i]
         /\ rom' = [rom EXCEPT !.d.frames = Append(@, f.n)]
         /\ irq' = [irq EXCEPT !.latch = @ \/ f.more]
  /\ UNCHANGED <<drv, sm>>

DspCommand ==
  /\ Layer1 /\ ring.cmd.out # ring.cmd.in
  /\ ring' = [ring EXCEPT !.cmd.out = NextSlot("cmd", @)]
  /\ rom' = [rom EXCEPT !.d.records = Append(@, sm.rec)]
  /\ irq' = [irq EXCEPT !.latch = TRUE]
  /\ UNCHANGED <<drv, sm>>

DspResult ==
  /\ Layer1 /\ NextSlot("pm", ring.pm.in) # ring.pm.out /\ rom.d.results < Len(rom.d.frames)
  /\ LET i == NextSlot("pm", ring.pm.in)
     IN  ring' = [ring EXCEPT !.pm.slot[i].n = rom.d.results + 1, !.pm.in = i]
  /\ rom' = [rom EXCEPT !.d.results = @ + 1]
  /\ UNCHANGED <<drv, sm, irq>>

\* dsp_isr(): the line is shut off for good after 200 interrupts in one tick.
DspIsr ==
  /\ irq.line /\ irq.latch
  /\ \E storm \in BOOLEAN : irq' = [latch |-> FALSE, line |-> ~storm, moved |-> TRUE]
  /\ UNCHANGED <<drv, sm, ring, rom>>

DspDriver ==
  \/ Boot \/ Load \/ ReleaseReset \/ Keep \/ PutBlock \/ SeesReady \/ SeesReadyToCopy \/ SeesCopied
  \/ SeesInterrupt \/ Start \/ Fail \/ DspStop
  \/ L1Start \/ PutRecord \/ RecordsSent \/ PostFrame \/ PostRead \/ PostSlot \/ PostIn
  \/ AskMore \/ RecordTaken \/ NotTaken \/ ReadBegin \/ ReadOne \/ ReadEnd

\* The handler runs before the thread goes on.
Preempted == irq.line /\ irq.latch

DspNext == (~Preempted /\ DspDriver) \/ Rom \/ DspFrame \/ DspCommand \/ DspResult \/ DspIsr

DspSpec == DspInit /\ [][DspNext]_dspvars
-----------------------------------------------------------------------------
\* The first n numbers, in order.
Upto(n) == [i \in 1 .. n |-> i]
InOrder(s) == s = Upto(Len(s))

\* A DSP that runs has the whole program, whatever attempt before was given up and
\* wherever; otherwise it is held in reset, and the clock is only held for one that
\* runs or boots.
Downloaded ==
  /\ drv.state = "running" => rom.d.copied = Upto(ProgramBlocks)
  /\ drv.state \in {"off", "failed"} => rom.reset
  /\ drv.held <=> drv.state \in {"running", "booting"}

\* The DSP carries out the frames and takes the records as they were posted, each
\* once, and a record is only overwritten when it has been taken; and the results
\* are read as they were measured, however the two sides are interleaved.
RingsKept ==
  /\ InOrder(rom.d.frames) /\ Len(rom.d.frames) <= rom.d.posted
  /\ InOrder(rom.d.records) /\ (At("records") => Len(rom.d.records) = drv.n - 1)
  /\ Layer1 => InOrder(rom.d.got) /\ Len(rom.d.got) <= rom.d.results

\* The DSP runs its whole program and nothing on its rings is lost or repeated.
DspKept == Downloaded /\ RingsKept
=============================================================================
