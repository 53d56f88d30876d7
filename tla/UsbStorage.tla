---------------------------- MODULE UsbStorage ----------------------------
(***************************************************************************)
(* A USB storage session: the session thread of os/drivers/usb_msc.c, which  *)
(* speaks the Bulk-Only Transport, the driver's interrupt (UsbBulk), the     *)
(* screen that starts and stops the session (os/apps/usb.c), and outside     *)
(* the code the card and a host that follows the transport's rules.          *)
(*                                                                         *)
(* Any step of the host may fall between any two of the thread.  A thread    *)
(* section with interrupts off, or that touches nothing shared, is one       *)
(* step; a call of the SD driver is a step that begins it and one that ends  *)
(* it.  A chunk is one block of two packets, so that a command of three      *)
(* blocks uses each of the two buffers again.                                *)
(***************************************************************************)
EXTENDS UsbBulk, FiniteSets

CONSTANTS
  Commands,     \* Commands[i]: what a host's i-th command can be, [op, n, len, in]
                \* with len in packets
  CardFails,    \* whether a card operation can fail
  SlowCard,     \* whether one can take longer than usb_stop waits (10 s)
  HostStops,    \* whether a host may end its data early
  MaxResets     \* bound: how often a host gives up

Ops == {"read", "write", "reply", "nothing", "refused", "invalid"}

ASSUME UsbAssumption ==
  /\ Commands \in Seq(SUBSET [op : Ops, n : 0 .. 3, len : 0 .. 6, in : BOOLEAN])
  /\ {CardFails, SlowCard, HostStops} \subseteq BOOLEAN
  /\ MaxResets \in Nat

VARIABLES
  u,      \* the driver's data and the controller (UsbBulk)
  th,     \* the session thread: where it is and usb_msc_run's variables
  ui,     \* the screen: "out", "in", or in usb_stop ("stop", "wait")
  running, exited,  \* usb.c's running and the semaphore exited
  card,   \* the card's blocks
  h,      \* the host
  sent, resets  \* counters for the bounds

vars == <<u, th, ui, running, exited, card, h, sent, resets>>

Blocks == 0 .. 2
Junk   == <<"junk", 0, 0>>
Halves(t, b) == <<<<"data", t, 2 * b + 1>>, <<"data", t, 2 * b + 2>>>>
Old(b) == <<<<"card", b, 1>>, <<"card", b, 2>>>>

NoCommand == [op |-> "nothing", n |-> 0, len |-> 0, in |-> FALSE]
Buffers == [b \in {"0", "1", "cbw", "small"} |->
              IF b \in {"0", "1"} THEN <<Junk, Junk>> ELSE <<NoPacket>>]

\* Mutant: both chunks go through one buffer.
SameBuffer(b) == b

Other(b) == IF b = "0" THEN "1" ELSE "0"

Off == [pc |-> "off", gen |-> 0, armed |-> FALSE, c |-> NoCommand, tag |-> 0, cur |-> "0",
        n |-> 0, lba |-> 0, residue |-> 0, ended |-> FALSE, st |-> "good", err |-> FALSE]

Init ==
  /\ u = IdleDriver(Buffers)
  /\ th = Off /\ ui = "out" /\ running = FALSE /\ exited = FALSE
  /\ card = [b \in Blocks |-> Old(b)]
  /\ h = [pc |-> "gone", c |-> NoCommand, tag |-> 0, left |-> 0, rx |-> <<>>,
          answer |-> "none", residue |-> 0]
  /\ sent = 0 /\ resets = 0

counters == <<sent, resets>>
screen   == <<ui, running, exited>>
outside  == <<screen, card, h, counters>>  \* of the thread, but for SD calls
-----------------------------------------------------------------------------
(* The interrupt; after a storm of them the thread polls instead *)

Waiting ==
  \/ th.pc \in {"replying", "sending", "zlp", "status"} /\ u.ep_in.busy
  \/ th.pc \in {"cbw", "receiving", "drain"} /\ u.ep_out.busy
  \/ th.pc = "unhalt" \/ (th.pc = "top" /\ ~u.configured)

Isr ==
  /\ Pending(u)
  /\ u.polled => Waiting
  /\ u' = udc_service(u)
  /\ UNCHANGED <<th, outside>>

\* usb_irq gives the line up when it stays asserted with nothing to do (here:
\* between two commands).
Storm ==
  /\ th.pc = "top" /\ ~u.polled
  /\ u' = [u EXCEPT !.polled = TRUE]
  /\ UNCHANGED <<th, outside>>
-----------------------------------------------------------------------------
(* The session thread: usb_msc_run.  A pending interrupt is taken first.     *)

At(p) == th.pc = p /\ (~Pending(u) \/ u.polled)
Goto(p) == th' = [th EXCEPT !.pc = p]

\* The top of the loop, after every command and every abort: only gen and armed
\* outlive an iteration.
Again(armed) == th' = [Off EXCEPT !.pc = "top", !.gen = th.gen, !.armed = armed]

\* What a command has left in the buffers means nothing to the next.
Forgotten == [u EXCEPT !.mem = [Buffers EXCEPT !["cbw"] = u.mem["cbw"]]]

Top ==
  /\ At("top")
  /\ \/ /\ u.stop /\ UNCHANGED u
        /\ Goto("hw_stop")
     \/ /\ ~u.stop /\ u' = Forgotten /\ th.armed
        /\ th' = [th EXCEPT !.pc = "cbw", !.armed = FALSE]
     \/ /\ ~u.stop /\ u' = Forgotten /\ ~th.armed /\ u.configured
        /\ th' = [th EXCEPT !.pc = "arm", !.gen = u.gen]
  /\ UNCHANGED outside

Arm ==
  /\ At("arm")
  /\ IF CanStart(u, th.gen, u.ep_out)
     THEN u' = usb_bulk_start_out(u, "cbw", 1) /\ Goto("cbw")
     ELSE Again(FALSE) /\ UNCHANGED u
  /\ UNCHANGED outside

Fits(c) == 2 * c.n <= c.len

\* The data stage a command begins with, or its status when it has none: a read or
\* a write of no blocks is answered at once.
Execute(c, t) ==
  LET T == [th EXCEPT !.c = c, !.tag = t, !.residue = c.len, !.ended = FALSE, !.st = "good",
                      !.err = FALSE, !.cur = "0", !.lba = 0, !.n = c.n]
      Phase == [T EXCEPT !.pc = "end", !.st = "phase"]
      op == IF c.op \in {"read", "write"} /\ c.n = 0 THEN "nothing" ELSE c.op
  IN  CASE op = "read"    -> IF ~(c.in /\ Fits(c)) THEN Phase
                             ELSE [T EXCEPT !.pc = "read_first"]
        [] op = "write"   -> IF c.in \/ ~Fits(c) THEN Phase
                             ELSE [T EXCEPT !.pc = "receive"]
        [] op = "reply"   -> IF c.len = 0 THEN [T EXCEPT !.pc = "end"]
                             ELSE IF ~c.in THEN Phase ELSE [T EXCEPT !.pc = "reply"]
        [] op = "refused" -> [T EXCEPT !.pc = "end", !.st = "fail"]
        [] op = "nothing" -> [T EXCEPT !.pc = "end"]

Filling(b) == [u EXCEPT !.mem[b] = <<Junk, Junk>>]  \* sd_read has begun

Cbw ==
  /\ At("cbw") /\ WaitOver(u, u.ep_out)
  /\ LET v == [u EXCEPT !.ep_out = Waited]
         p == u.mem["cbw"][1]
     IN  IF Result(u.ep_out) = EABORT \/ ~usb_gen_valid(u, th.gen)
         THEN Again(FALSE) /\ u' = v
         ELSE IF p[1] # "cbw" \/ p[3].op = "invalid"
         THEN Goto("halt_in") /\ u' = v
         ELSE LET T == Execute(p[3], p[2])
              IN th' = T /\ u' = IF T.pc = "read_first" THEN Filling("0") ELSE v
  /\ UNCHANGED outside

HaltIn  == At("halt_in") /\ u' = halt_set_in(u) /\ Goto("halt_out") /\ UNCHANGED outside
HaltOut == At("halt_out") /\ u' = halt_set_out(u) /\ Goto("unhalt") /\ UNCHANGED outside

Unhalt ==
  /\ At("unhalt")
  /\ ~(u.halted_in \/ u.halted_out) \/ ~usb_gen_valid(u, th.gen)
  /\ Again(FALSE)
  /\ UNCHANGED <<u, outside>>

\* Start an IN transfer and go to p, or give the command up.
Send(buf, len, p, v) ==
  IF CanStart(v, th.gen, v.ep_in)
  THEN u' = usb_bulk_start_in(v, buf, len) /\ th' = p
  ELSE Again(FALSE) /\ UNCHANGED u

Receive(buf, len, p) ==
  IF CanStart(u, th.gen, u.ep_out)
  THEN u' = usb_bulk_start_out(u, buf, len) /\ th' = p
  ELSE Again(FALSE) /\ UNCHANGED u

Small(p) == [u EXCEPT !.mem["small"] = <<p>>]
To(p) == [th EXCEPT !.pc = p]

\* The end of bulk_wait on IN: the thread goes on as p when all was sent.
Sent(p) ==
  /\ WaitOver(u, u.ep_in)
  /\ u' = [u EXCEPT !.ep_in = Waited]
  /\ IF Result(u.ep_in) = EABORT THEN Again(FALSE) ELSE th' = p

Reply ==
  /\ \/ /\ At("reply")
        /\ Send("small", 1, To("replying"), Small(<<"reply", th.tag, 0>>))
     \/ /\ At("replying")
        /\ Sent([th EXCEPT !.pc = "end", !.residue = @ - 1, !.ended = TRUE])
  /\ UNCHANGED outside

\* cmd_read: the SD call into buf[0], or into the other buffer while the
\* interrupt sends this one.
SdRead(b, T) ==
  \/ /\ u' = [u EXCEPT !.mem[b] = card[T.lba]]
     /\ th' = T
  \/ /\ CardFails /\ UNCHANGED u
     /\ th' = IF th.pc = "read_first" THEN [T EXCEPT !.pc = "end", !.st = "fail"]
              ELSE [T EXCEPT !.err = TRUE]

ReadFirst ==
  /\ At("read_first")
  /\ SdRead("0", To("send"))
  /\ UNCHANGED outside

SendChunk ==
  /\ At("send")
  /\ LET T == [th EXCEPT !.n = @ - 1, !.lba = @ + 1,
                         !.pc = IF th.n > 1 THEN "read_ahead" ELSE "sending"]
         v == IF th.n > 1 THEN Filling(Other(th.cur)) ELSE u
     IN  Send(th.cur, 2, T, v)
  /\ UNCHANGED outside

ReadAhead ==
  /\ At("read_ahead")
  /\ SdRead(Other(th.cur), To("sending"))
  /\ UNCHANGED outside

Sending ==
  /\ At("sending")
  /\ Sent([th EXCEPT !.residue = @ - 2, !.cur = Other(@),
                     !.st = IF th.n > 0 /\ th.err THEN "fail" ELSE @,
                     !.pc = IF th.n = 0 \/ th.err THEN "end" ELSE "send"])
  /\ UNCHANGED outside

\* cmd_write: what has arrived is written while the next chunk arrives.
ReceiveFirst == At("receive") /\ Receive("0", 2, To("receiving")) /\ UNCHANGED outside

Receiving ==
  /\ At("receiving") /\ WaitOver(u, u.ep_out)
  /\ u' = [u EXCEPT !.ep_out = Waited]
  /\ LET r == Result(u.ep_out)
         T == [th EXCEPT !.residue = @ - r]
     IN  IF r = EABORT THEN Again(FALSE)
         ELSE IF r # 2 THEN th' = [T EXCEPT !.ended = TRUE, !.st = "phase", !.pc = "end"]
         ELSE th' = [T EXCEPT !.n = @ - 1,
                       !.pc = IF th.n > 1 THEN "receive_next" ELSE "write"]
  /\ UNCHANGED outside

ReceiveNext ==
  /\ At("receive_next")
  /\ Receive(Other(th.cur), 2, To("write"))
  /\ UNCHANGED outside

\* Mutant: an error of the card is forgotten with the next chunk.
WriteForgets ==
  /\ At("write")
  /\ \E bad \in {FALSE, CardFails} :
       /\ card' = IF bad THEN card ELSE [card EXCEPT ![th.lba] = u.mem[th.cur]]
       /\ th' = [th EXCEPT !.lba = @ + 1, !.cur = Other(@), !.err = bad,
                           !.st = IF th.n = 0 /\ bad THEN "fail" ELSE @,
                           !.pc = IF th.n = 0 THEN "end" ELSE "receiving"]
  /\ UNCHANGED <<u, screen, h, counters>>

\* After an error the rest of the data is still taken, but not written.
Write ==
  /\ At("write")
  /\ \E bad \in {FALSE, CardFails \/ th.err} :
       /\ th.err => bad
       /\ card' = IF bad THEN card ELSE [card EXCEPT ![th.lba] = u.mem[th.cur]]
       /\ th' = [th EXCEPT !.lba = @ + 1, !.cur = Other(@), !.err = bad,
                           !.st = IF th.n = 0 /\ bad THEN "fail" ELSE @,
                           !.pc = IF th.n = 0 THEN "end" ELSE "receiving"]
  /\ UNCHANGED <<u, screen, h, counters>>

Csw(st, residue) == <<"csw", th.tag, [st |-> st, residue |-> residue]>>
SendCsw == Send("small", 1, To("arm_next"), Small(Csw(th.st, th.residue)))

\* What one transfer of the drain asks for.
Part(n) == IF n < 2 THEN n ELSE 2

\* Mutant: the status follows at once.
EndAtOnce == At("end") /\ SendCsw /\ UNCHANGED outside

\* The data stage the host still expects ends with a packet of length zero, or
\* with its data read and dropped.
End ==
  /\ At("end")
  /\ IF th.residue = 0 \/ th.ended THEN SendCsw
     ELSE IF th.c.in THEN Send("small", 0, To("zlp"), u)
     ELSE Receive("0", Part(th.residue),
                  [th EXCEPT !.pc = "drain", !.n = th.residue])
  /\ UNCHANGED outside

ZlpSent == At("zlp") /\ Sent(To("csw")) /\ UNCHANGED outside

Drained ==
  /\ At("drain") /\ WaitOver(u, u.ep_out)
  /\ u' = [u EXCEPT !.ep_out = Waited]
  /\ LET r == Result(u.ep_out)
         left == th.n - r
         short == r < Part(th.n)
     IN  IF r = EABORT THEN Again(FALSE)
         ELSE th' = [th EXCEPT !.n = left,
                       !.pc = IF left = 0 \/ short THEN "csw" ELSE "drain_next"]
  /\ UNCHANGED outside

DrainNext ==
  /\ At("drain_next")
  /\ Receive("0", Part(th.n), To("drain"))
  /\ UNCHANGED outside

CswStart == At("csw") /\ SendCsw /\ UNCHANGED outside

\* The next CBW may arrive as soon as the CSW has gone.
ArmNext ==
  /\ At("arm_next")
  /\ LET ok == CanStart(u, th.gen, u.ep_out)
     IN  /\ u' = IF ok THEN usb_bulk_start_out(u, "cbw", 1) ELSE u
         /\ th' = [th EXCEPT !.pc = "status", !.armed = ok]
  /\ UNCHANGED outside

StatusSent ==
  /\ At("status") /\ WaitOver(u, u.ep_in)
  /\ u' = [u EXCEPT !.ep_in = Waited]
  /\ Again(th.armed)
  /\ UNCHANGED outside

MscRun ==
  \/ Top \/ Arm \/ Cbw \/ HaltIn \/ HaltOut \/ Unhalt \/ Reply
  \/ ReadFirst \/ SendChunk \/ ReadAhead \/ Sending
  \/ ReceiveFirst \/ Receiving \/ ReceiveNext \/ Write
  \/ End \/ ZlpSent \/ Drained \/ DrainNext \/ CswStart \/ ArmNext \/ StatusSent
-----------------------------------------------------------------------------
(* The session and the screen *)

\* session(): 300 ms of bring-up, then the pull-up, unless it is over already.
HwConnect ==
  /\ th.pc = "starting"
  /\ Goto(IF u.stop THEN "hw_stop" ELSE "top")
  /\ UNCHANGED <<u, outside>>

Connected == th.pc \notin {"off", "starting"}

HwStop ==
  /\ th.pc = "hw_stop"
  /\ u' = [bulk_cancel(u) EXCEPT !.configured = FALSE, !.polled = FALSE,
                                 !.setup = "none", !.pin = FALSE, !.pout = FALSE]
  /\ h' = [h EXCEPT !.pc = "gone"]
  /\ th' = Off /\ exited' = TRUE
  /\ UNCHANGED <<ui, running, card, counters>>

\* usb_enter after fs_suspend.  usb_start finds a session that is still running
\* and leaves it.  Generations are counted from the session's start: nothing
\* compares one with those of an earlier session.
Enter ==
  /\ ui = "out" /\ ui' = "in"
  /\ IF running THEN UNCHANGED <<u, th, running, exited>>
     ELSE /\ u' = IdleDriver(Buffers)
          /\ th' = [Off EXCEPT !.pc = "starting"]
          /\ running' = TRUE /\ exited' = FALSE
  /\ UNCHANGED <<card, h, counters>>

\* usb_leave, when the user goes back or the cable is pulled: usb_stop.
Leave ==
  /\ ui = "in"
  /\ ui' = "stop" /\ u' = [u EXCEPT !.stop = TRUE]
  /\ UNCHANGED <<th, running, exited, card, h, counters>>

StopCancels ==
  /\ ui = "stop"
  /\ ui' = "wait" /\ u' = bulk_cancel_sw(u)
  /\ UNCHANGED <<th, running, exited, card, h, counters>>

InCard == th.pc \in {"read_first", "read_ahead", "write"}

\* The card is mounted again (fs_resume) when the thread has exited, or when it
\* has not for 10 s.
StopReturns ==
  /\ ui = "wait" /\ ui' = "out"
  /\ \/ exited /\ exited' = FALSE /\ running' = FALSE
     \/ SlowCard /\ InCard /\ ~exited /\ UNCHANGED <<running, exited>>
  /\ UNCHANGED <<u, th, card, h, counters>>
-----------------------------------------------------------------------------
(* The host *)

Control(rq, p) ==
  /\ u.setup = "none" /\ u' = [u EXCEPT !.setup = rq]
  /\ h' = [h EXCEPT !.pc = p]
  /\ UNCHANGED <<sent, resets>>

\* A bus reset wipes the controller's endpoints; enumeration follows.
BusReset(from) ==
  /\ h.pc \in from /\ Connected
  /\ u' = [u EXCEPT !.fin = NoPacket, !.fout = NoPacket, !.rx = FALSE, !.setup = "none"]
  /\ h' = [h EXCEPT !.pc = "reset"]
  /\ UNCHANGED sent

Enumerate ==
  \/ h.pc = "reset" /\ Control("descriptor", "addressed")
  \/ h.pc = "addressed" /\ (Control("set_config", "config") \/ Control("get_max_lun", "idle"))
  \/ h.pc = "config" /\ Control("get_max_lun", "idle")

Recover ==
  \/ h.pc = "recover" /\ Control("bot_reset", "clear_in")
  \/ h.pc = "clear_in" /\ Control("clear_in", "clear_out")
  \/ h.pc = "clear_out" /\ Control("clear_out", "idle")

SendCbw ==
  /\ h.pc = "idle" /\ u.setup = "none" /\ sent < Len(Commands)
  /\ u.rx /\ ~u.halted_out
  /\ sent' = sent + 1
  /\ \E c \in Commands[sent'] :
       /\ u' = [u EXCEPT !.rx = FALSE, !.pout = TRUE, !.fout = <<"cbw", sent', c>>]
       /\ h' = [pc |-> IF c.len = 0 THEN "status" ELSE IF c.in THEN "data_in" ELSE "data_out",
                c |-> c, tag |-> sent', left |-> c.len, rx |-> <<>>,
                answer |-> "none", residue |-> 0]
  /\ UNCHANGED resets

\* A halted endpoint answers STALL; a host in its data stage or its status stage
\* starts the recovery.
Stalled ==
  /\ \/ h.pc \in {"idle", "data_out"} /\ u.halted_out
     \/ h.pc \in {"data_in", "status"} /\ u.halted_in
  /\ h' = [h EXCEPT !.pc = "recover"]
  /\ UNCHANGED <<u, sent, resets>>

SendData ==
  /\ h.pc = "data_out" /\ u.setup = "none" /\ u.rx /\ ~u.halted_out
  /\ \E early \in {FALSE, HostStops} :
       /\ u' = [u EXCEPT !.rx = FALSE, !.pout = TRUE,
                         !.fout = IF early THEN Zlp
                                  ELSE <<"data", h.tag, h.c.len - h.left + 1>>]
       /\ h' = [h EXCEPT !.left = @ - 1,
                         !.pc = IF early \/ h.left = 1 THEN "status" ELSE @]
  /\ UNCHANGED <<sent, resets>>

TakePacket == u.setup = "none" /\ u.fin # NoPacket /\ ~u.halted_in

TakeData ==
  /\ h.pc = "data_in" /\ TakePacket
  /\ u' = [u EXCEPT !.fin = NoPacket, !.pin = TRUE]
  /\ h' = [h EXCEPT !.left = @ - 1, !.rx = Append(@, u.fin),
                    !.pc = IF Full(u.fin) /\ h.left > 1 THEN @ ELSE "status"]
  /\ UNCHANGED <<sent, resets>>

TakeStatus ==
  /\ h.pc = "status" /\ TakePacket
  /\ u' = [u EXCEPT !.fin = NoPacket, !.pin = TRUE]
  /\ h' = IF u.fin[1] = "csw" /\ u.fin[2] = h.tag
           THEN [h EXCEPT !.pc = "idle", !.answer = u.fin[3].st, !.residue = u.fin[3].residue]
           ELSE [h EXCEPT !.pc = "recover", !.answer = "stray"]
  /\ UNCHANGED <<sent, resets>>

InCommand == h.pc \in {"data_in", "data_out", "status"}

\* The host may lose patience with a command at any time.
GiveUp ==
  /\ resets < MaxResets /\ resets' = resets + 1
  /\ \/ BusReset({"idle", "data_in", "data_out", "status"})
     \/ InCommand /\ h' = [h EXCEPT !.pc = "recover"] /\ UNCHANGED <<u, sent>>

Attach == BusReset({"gone"}) /\ th.pc # "hw_stop" /\ UNCHANGED resets

HostStep == Enumerate \/ Recover \/ Stalled \/ SendData \/ TakeData \/ TakeStatus

Host ==
  /\ SendCbw \/ GiveUp \/ Attach \/ HostStep
  /\ UNCHANGED <<th, screen, card>>
-----------------------------------------------------------------------------
Next ==
  \/ Isr \/ Storm \/ MscRun
  \/ HwConnect \/ HwStop \/ Enter \/ Leave \/ StopCancels \/ StopReturns
  \/ Host

\* The interrupt and the thread (PRIO_HIGH; every wait of it has a timeout) go
\* on, a host finishes what it began, and usb_stop returns.
Fairness ==
  /\ WF_vars(Isr) /\ WF_vars(MscRun \/ HwConnect \/ HwStop)
  /\ WF_vars(HostStep /\ UNCHANGED <<th, screen, card>>)
  /\ WF_vars(StopCancels \/ StopReturns)

Spec == Init /\ [][Next]_vars /\ Fairness
-----------------------------------------------------------------------------
TypeOK ==
  /\ u.ep_in.done \in 0 .. u.ep_in.len /\ u.ep_out.done \in 0 .. u.ep_out.len
  /\ th.residue \in 0 .. th.c.len /\ th.n \in 0 .. th.c.len \cup {th.c.n}
  /\ h.left \in 0 .. h.c.len /\ Len(h.rx) <= h.c.len
  /\ \A b \in Blocks : Len(card[b]) = 2

\* The interrupt and the card never work on one buffer: while the card fills a
\* chunk buffer nothing sends it, and while the card takes one nothing fills it
\* (usb_msc.c:191 and :238), also when a reset has come in between.
OwnBuffer ==
  /\ TypeOK
  /\ th.pc = "read_first" => ~(u.ep_in.busy /\ u.ep_in.buf = "0")
  /\ th.pc = "read_ahead" => ~(u.ep_in.busy /\ u.ep_in.buf = Other(th.cur))
  /\ th.pc = "write"      => ~(u.ep_out.busy /\ u.ep_out.buf = th.cur)

\* What the session promises its host (BlockDevice): no torn block reaches the
\* card, whatever is cut off by a reset; a good status is true; and a status is
\* the one of the host's own command, never a leftover of one before a reset.
Promise == INSTANCE BlockDevice WITH
  Commands <- UNION {Commands[i] : i \in DOMAIN Commands},
  Data <- Halves, Given <- LAMBDA t, b : Old(b),
  disk <- card, tag <- h.tag, c <- h.c, open <- InCommand,
  rx <- h.rx, answer <- h.answer, residue <- h.residue

KeepsPromise == Promise!Spec

\* Nobody waits for ever: a command the host does not give up is answered,
\* whatever host and device think of the length of its data, and usb_stop ends,
\* as every wait of the session thread sees stop_req.
Answered ==
  /\ InCommand ~> ~InCommand
  /\ ui \in {"stop", "wait"} ~> ui = "out"

\* With the card mounted again (fs_resume in usb_leave) no session works on it
\* ("returns when mass storage has finished with the card", usb.h:51).
CardReturned == ui = "out" => th.pc = "off"

\* The two together: nobody works on what another has, be it a buffer or the card.
NothingShared == OwnBuffer /\ CardReturned
=============================================================================
