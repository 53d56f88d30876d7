------------------------------- MODULE RbBulk -------------------------------
(***************************************************************************)
(* Rockbox on the phone: a host writes the card over USB.  The bulk OUT        *)
(* endpoint of usb-drv-sc6530c.c, built with its DMA or without, and the SD     *)
(* driver (sd-sc6530c.c) must never use their DMAs at once, which freezes the  *)
(* phone: each waits for the other.                                           *)
(*                                                                         *)
(* Rockbox's mass storage, which is not in the repository, receives the next   *)
(* chunk while it writes the last to the card.  Lengths are in packets; a      *)
(* command block is a short packet.                                          *)
(***************************************************************************)
EXTENDS Integers, Sequences

CONSTANTS
  Outs,           \* what bulk OUT by DMA may be (ep.out)
  WriteLengths,   \* the packets a write command may have
  MaxWrites,      \* bound: the commands of the host
  Chunk,          \* the packets mass storage receives at once
  DmaMin,         \* USB_DMA_MIN
  MaxWriteResets, \* bound: bus resets the host has no reason for
  MaxSdGiveUps    \* bound: how often the SD driver does not wait for the end of a DMA

\* No DMA in the build (USB_SC6530_DMA_OUT 0, the default); a channel that drains each
\* packet as it lands, as dma_start_out() takes it to; one that never moves; one that
\* reads the FIFO whether a packet is there or not, as measured on the phone.
OutKinds == {"off", "paced", "stuck", "unpaced"}

ASSUME RbBulkAssumption ==
  /\ Outs \subseteq OutKinds
  /\ WriteLengths \subseteq Nat \ {0} /\ {MaxWrites, MaxWriteResets, MaxSdGiveUps} \subseteq Nat
  /\ Chunk \in Nat \ {0} /\ DmaMin \in Nat \ {0, 1}  \* 512 bytes are eight packets

VARIABLES
  e,      \* endpoints[2][DIR_OUT], and busy of the IN endpoint (`sends')
  ep,     \* the controller: buffer ready (rx), TRANS_SIZE and count, the packet in the
          \* FIFO, latched events, the enabled token event, a status to be read (tx);
          \* `out': the DMA it has
  mem,    \* the packets in the buffer of the receive
  both,   \* out_kick_ep, sc6530_usb_out_dma, sd_busy_now, dma_broken; gave_up: the SD
          \* driver has not waited
  watch,  \* dma_out_seen, and whether the deadline is over at the next tick
  sd,     \* where sd_write_sectors() is
  msc,    \* mass storage: where it is, what it has still to receive, the queued event
  peer,   \* the host: where it is, its command, the packets sent; whether what was
          \* written is all of it (`whole') and what was sent (`good')
  wbudget \* commands and resets so far

rbvars == <<e, ep, mem, both, watch, sd, msc, peer, wbudget>>

CbwLen  == 2
NoEvent == [of |-> "none", ok |-> TRUE]
Unused  == [busy |-> FALSE, armed |-> FALSE, next |-> FALSE, wait |-> FALSE, dma |-> FALSE,
            len |-> 0, done |-> 0, base |-> 0, sends |-> FALSE]
Fewer(a, b) == IF a < b THEN a ELSE b

\* usb_drv_recv_nonblocking() of n packets.
Receives(d, n) ==
  [d EXCEPT !.e = [@ EXCEPT !.busy = TRUE, !.armed = TRUE, !.len = n, !.done = 0,
                            !.dma = FALSE, !.next = d.ep.out # "off" /\ ~d.both.broken /\ n >= DmaMin],
            !.ep = [@ EXCEPT !.rx = TRUE, !.size = 1, !.count = 0], !.mem = <<>>]

Bulk == [e |-> e, ep |-> ep, mem |-> mem, both |-> both, watch |-> watch, msc |-> msc]
Becomes2(d) ==
  e' = d.e /\ ep' = d.ep /\ mem' = d.mem /\ both' = d.both /\ watch' = d.watch /\ msc' = d.msc

\* The configuration is active: mass storage waits for a command block.
RbInit ==
  /\ \E out \in Outs :
     LET d == Receives(
       [e |-> Unused, mem |-> <<>>, msc |-> [at |-> "cbw", left |-> 0, event |-> NoEvent],
        ep |-> [on |-> TRUE, rx |-> FALSE, size |-> 0, count |-> 0, fifo |-> <<>>, sts |-> {},
                token |-> FALSE, tx |-> FALSE, sent |-> FALSE, out |-> out],
        both |-> [kick |-> FALSE, out |-> FALSE, busy |-> FALSE, broken |-> FALSE,
                  gave_up |-> FALSE],
        watch |-> [seen |-> 0, late |-> FALSE]], CbwLen)
     IN  e = d.e /\ ep = d.ep /\ mem = d.mem /\ both = d.both /\ watch = d.watch /\ msc = d.msc
  /\ sd = "idle"
  /\ peer = [at |-> "idle", len |-> 0, sent |-> 0, written |-> 0, whole |-> TRUE, good |-> TRUE]
  /\ wbudget = [commands |-> 0, resets |-> 0, giveups |-> 0]
-----------------------------------------------------------------------------
(* The endpoint, on a state d; each runs with interrupts off *)

\* usb_core_transfer_complete() queues an event for mass storage.
complete(d, ok) ==
  [d EXCEPT !.e.busy = FALSE, !.msc.event = [of |-> "out", ok |-> ok]]

dma_stop(d) == [d EXCEPT !.both.out = IF d.e.dma THEN FALSE ELSE @, !.e.dma = FALSE]

dma_wait_out(d) ==
  [d EXCEPT !.e.wait = TRUE, !.e.armed = FALSE, !.watch = [seen |-> 0, late |-> FALSE],
            !.ep.sts = @ \ {"token"}, !.ep.token = TRUE]

\* TRANS_SIZE is all that is left.
dma_start_out(d) ==
  [d EXCEPT !.e = [@ EXCEPT !.wait = FALSE, !.dma = TRUE, !.armed = TRUE, !.base = d.e.done],
            !.both.out = TRUE, !.watch = [seen |-> 0, late |-> FALSE],
            !.ep = [@ EXCEPT !.token = FALSE, !.sts = {}, !.rx = TRUE, !.count = 0,
                             !.size = d.e.len - d.e.done]]

\* Only the full count is a success.
dma_out_done(d) ==
  LET t == [dma_stop(d) EXCEPT !.e.armed = FALSE] IN
  IF d.ep.count # d.e.len - d.e.base
  THEN complete([t EXCEPT !.both.broken = TRUE], FALSE)
  ELSE complete([t EXCEPT !.e.done = d.e.len], TRUE)

\* out_done(): the first full packet of a long receive hands the rest to the DMA.
OutDone(d) ==
  LET full  == Len(d.ep.fifo) = 1 /\ d.ep.fifo[1].full
      t     == [d EXCEPT !.e.armed = FALSE, !.e.done = IF full THEN @ + 1 ELSE @,
                         !.mem = @ \o d.ep.fifo, !.ep.fifo = <<>>]
      rest  == t.e.len - t.e.done
      dma   == d.e.next /\ ~d.both.broken /\ rest >= DmaMin
      again == [t EXCEPT !.e.next = FALSE]
  IN
  IF ~(d.e.busy /\ d.e.armed) THEN d
  ELSE IF d.e.dma THEN dma_out_done(d)
  ELSE IF ~(full /\ rest > 0) THEN complete(again, TRUE)
  ELSE IF dma THEN dma_wait_out(again)
  ELSE [again EXCEPT !.e.armed = TRUE, !.ep.rx = TRUE, !.ep.size = 1, !.ep.count = 0]

\* Mutant: the DMA starts whatever the SD driver does.
NeverHeld(d) == FALSE

\* The SD driver's DMA runs: start when it ends.
Held(d) == d.both.busy

\* A refused send that is waited for; any other enabled one is turned off.
Token(d) ==
  IF ~d.e.wait \/ ~d.e.busy \/ d.both.kick THEN [d EXCEPT !.ep.token = FALSE]
  ELSE IF Held(d) THEN [d EXCEPT !.ep.token = FALSE, !.both.kick = TRUE]
  ELSE dma_start_out(d)

\* in_done() of the status.
InDone(d) ==
  IF ~d.e.sends THEN d
  ELSE [d EXCEPT !.e.sends = FALSE, !.msc.event = [of |-> "in", ok |-> TRUE]]

\* udc_service() for the bulk endpoints: EP2 after EP1 or EP3.  A token is latched
\* even while its interrupt is off.
BulkIrq ==
  /\ ep.sent \/ "done" \in ep.sts \/ ("token" \in ep.sts /\ ep.token)
  /\ LET i == IF ep.sent THEN InDone([Bulk EXCEPT !.ep.sent = FALSE]) ELSE Bulk
         o == "done" \in ep.sts \/ ("token" \in ep.sts /\ ep.token)
         c == IF o THEN [i EXCEPT !.ep.sts = {}] ELSE i
         t == IF "token" \in ep.sts /\ ep.token THEN Token(c) ELSE c
     IN  Becomes2(IF "done" \in ep.sts THEN OutDone(t) ELSE t)
  /\ UNCHANGED <<sd, peer, wbudget>>

\* dma_watchdog(): nothing has come for a second.
Watchdog ==
  /\ e.busy /\ (e.dma \/ e.wait)
  /\ LET rx == IF e.dma THEN ep.count ELSE 0 IN
     Becomes2(
       IF both.kick \/ rx # watch.seen
       THEN [Bulk EXCEPT !.watch = [seen |-> IF both.kick THEN watch.seen ELSE rx, late |-> FALSE]]
       ELSE IF ~watch.late THEN [Bulk EXCEPT !.watch.late = TRUE]
       ELSE complete([dma_stop(Bulk) EXCEPT
              !.both.broken = TRUE, !.ep.rx = FALSE, !.ep.token = FALSE,
              !.e.wait = FALSE, !.e.armed = FALSE, !.e.dma = FALSE], FALSE))
  /\ UNCHANGED <<sd, peer, wbudget>>

\* usb_drv_cancel_all_transfers() of bus_reset_seen(), which programs the endpoints
\* again.
Cancelled(d) ==
  [dma_stop(d) EXCEPT !.e = [@ EXCEPT !.wait = FALSE, !.dma = FALSE, !.busy = FALSE, !.sends = FALSE],
                      !.both.kick = FALSE,
                      !.ep = [@ EXCEPT !.on = TRUE, !.rx = FALSE, !.tx = FALSE, !.size = 1,
                                       !.fifo = <<>>, !.sts = {}, !.sent = FALSE,
                                       !.token = FALSE]]

BusResetSeen ==
  /\ peer.at = "reset" /\ peer' = [peer EXCEPT !.at = "seen"] /\ Becomes2(Cancelled(Bulk))
  /\ UNCHANGED <<sd, wbudget>>
-----------------------------------------------------------------------------
(* The SD driver, in the thread of mass storage *)

\* transfer_sectors() waits while a DMA of USB runs, up to two seconds.
SdGo ==
  /\ sd = "wait"
  /\ \/ ~both.out /\ both' = [both EXCEPT !.busy = TRUE] /\ UNCHANGED wbudget
     \/ /\ both.out /\ wbudget.giveups < MaxSdGiveUps
        /\ both' = [both EXCEPT !.busy = TRUE, !.gave_up = TRUE]
        /\ wbudget' = [wbudget EXCEPT !.giveups = @ + 1]
  /\ sd' = "run"
  /\ UNCHANGED <<e, ep, mem, watch, msc, peer>>

\* The chunk is on the card.
SdEnds ==
  /\ sd = "run" /\ sd' = "end"
  /\ both' = [both EXCEPT !.busy = FALSE]
  /\ UNCHANGED <<e, ep, mem, watch, msc, peer, wbudget>>

\* Mutant: nobody starts what was held back.
IdleForgets == sd = "end" /\ sd' = "idle"
               /\ UNCHANGED <<e, ep, mem, both, watch, msc, peer, wbudget>>

\* sc6530_usb_sd_idle()
SdIdle ==
  /\ sd = "end" /\ sd' = "idle"
  /\ LET d == [Bulk EXCEPT !.both.kick = FALSE] IN
     Becomes2(IF both.kick /\ e.wait /\ e.busy THEN dma_start_out(d) ELSE d)
  /\ UNCHANGED <<peer, wbudget>>
-----------------------------------------------------------------------------
(* Mass storage *)

Now(from) == sd = "idle" /\ msc.at = from /\ peer.at \notin {"reset", "seen"}

\* A command block: a write receives its first chunk.
TakesCommand ==
  /\ Now("cbw") /\ msc.event = [of |-> "out", ok |-> TRUE]
  /\ LET n == Fewer(peer.len, Chunk) IN
     Becomes2(Receives([Bulk EXCEPT
       !.msc = [at |-> "data", left |-> peer.len - n, event |-> NoEvent]], n))
  /\ UNCHANGED <<sd, peer, wbudget>>

\* A chunk: the next is received while this one is written.
TakesChunk ==
  /\ Now("data") /\ msc.event = [of |-> "out", ok |-> TRUE]
  /\ LET n == Fewer(msc.left, Chunk)
         d == [Bulk EXCEPT !.msc = [at |-> IF n = 0 THEN "last" ELSE "data", left |-> msc.left - n,
                                    event |-> NoEvent]]
     IN  Becomes2(IF n = 0 THEN d ELSE Receives(d, n))
  /\ sd' = "wait"
  /\ peer' = [peer EXCEPT !.written = @ + Len(mem),
       !.whole = @ /\ Len(mem) = e.len,
       !.good = @ /\ \A i \in 1 .. Len(mem) : mem[i].n = peer.written + i /\ mem[i].full]
  /\ UNCHANGED wbudget

\* The status goes out when all is written: start_send() of one packet.
SendsStatus ==
  /\ Now("last")
  /\ Becomes2([Bulk EXCEPT !.e.sends = TRUE, !.ep.tx = TRUE, !.ep.sent = FALSE, !.msc.at = "status"])
  /\ UNCHANGED <<sd, peer, wbudget>>

StatusSent ==
  /\ Now("status") /\ msc.event.of = "in"
  /\ Becomes2(Receives([Bulk EXCEPT !.msc = [at |-> "cbw", left |-> 0, event |-> NoEvent]], CbwLen))
  /\ UNCHANGED <<sd, peer, wbudget>>

\* A receive that failed: nothing of it is written, and the host has to reset.
ReceiveFailed ==
  /\ Now("data") /\ msc.event = [of |-> "out", ok |-> FALSE]
  /\ Becomes2([Bulk EXCEPT !.msc = [at |-> "lost", left |-> 0, event |-> NoEvent]])
  /\ UNCHANGED <<sd, peer, wbudget>>

\* The core activates its configuration again and drops what was queued.
Reactivates ==
  /\ peer.at = "seen" /\ sd = "idle"
  /\ Becomes2(Receives([Bulk EXCEPT !.msc = [at |-> "cbw", left |-> 0, event |-> NoEvent]], CbwLen))
  /\ peer' = [peer EXCEPT !.at = "idle"]
  /\ UNCHANGED <<sd, wbudget>>

Msc == TakesCommand \/ TakesChunk \/ SendsStatus \/ StatusSent \/ ReceiveFailed \/ Reactivates
-----------------------------------------------------------------------------
(* The host and the controller *)

HostWrites ==
  /\ peer.at = "idle" /\ wbudget.commands < MaxWrites
  /\ \E n \in WriteLengths :
       peer' = [peer EXCEPT !.at = "cbw", !.len = n, !.sent = 0, !.written = 0]
  /\ wbudget' = [wbudget EXCEPT !.commands = @ + 1]
  /\ UNCHANGED <<e, ep, mem, both, watch, sd, msc>>

\* What reading an empty FIFO returns: a word of the packet before, again and again.
Garbage == [full |-> TRUE, n |-> 0]

\* What a DMA puts into the buffer for a packet.  One that is not paced may have read
\* before the packet came.
Lands(packet) == IF ep.out = "unpaced" THEN {packet, Garbage} ELSE {packet}

\* host_out(): refused without buffer ready, or with a packet in the FIFO.  A DMA that
\* moves drains a packet as it lands, and the controller counts it in any case.
HostSends ==
  /\ peer.at \in {"cbw", "data"}
  /\ LET packet == [full |-> peer.at = "data", n |-> IF peer.at = "data" THEN peer.sent + 1 ELSE 0]
         count  == ep.count + 1
         ended  == count >= ep.size \/ ~packet.full
         moved  == e.dma /\ ep.out # "stuck"
     IN
     IF ~ep.on THEN FALSE
     ELSE IF ~ep.rx \/ ep.fifo # <<>>
     THEN /\ "token" \notin ep.sts /\ ~ep.rx
          /\ ep' = [ep EXCEPT !.sts = @ \cup {"token"}] /\ UNCHANGED <<mem, peer>>
     ELSE /\ IF moved THEN \E p \in Lands(packet) : mem' = Append(mem, p) ELSE UNCHANGED mem
          /\ ep' = [ep EXCEPT !.fifo = IF moved THEN <<>> ELSE <<packet>>,
                              !.count = count, !.rx = ~ended,
                              !.sts = IF ended THEN @ \cup {"done"} ELSE @]
          /\ peer' = IF ~packet.full THEN [peer EXCEPT !.at = "data"]
                   ELSE [peer EXCEPT !.sent = @ + 1,
                                   !.at = IF peer.sent + 1 = peer.len THEN "status" ELSE "data"]
  /\ UNCHANGED <<e, both, watch, sd, msc, wbudget>>

\* host_in() of the status: the command is done.
HostTakesStatus ==
  /\ peer.at = "status" /\ ep.on /\ ep.tx
  /\ ep' = [ep EXCEPT !.tx = FALSE, !.sent = TRUE]
  /\ peer' = [peer EXCEPT !.at = "idle", !.whole = @ /\ peer.written = peer.len]
  /\ UNCHANGED <<e, mem, both, watch, sd, msc, wbudget>>

\* host_bus_reset(): the controller forgets its endpoints.
Wiped == [ep EXCEPT !.on = FALSE, !.rx = FALSE, !.tx = FALSE, !.size = 0, !.fifo = <<>>,
                    !.sts = {}, !.sent = FALSE, !.token = FALSE]
HostResets ==
  /\ peer.at \in {"cbw", "data", "status"}
  /\ ep' = Wiped /\ peer' = [peer EXCEPT !.at = "reset"]
  /\ UNCHANGED <<e, mem, both, watch, sd, msc>>

\* A host resets a device that does not go on, and may do so without a reason.
HostGivesUp == HostResets /\ msc.at = "lost" /\ UNCHANGED wbudget
HostStops ==
  /\ HostResets /\ wbudget.resets < MaxWriteResets
  /\ wbudget' = [wbudget EXCEPT !.resets = @ + 1]

RbNext ==
  \/ BulkIrq \/ Watchdog \/ BusResetSeen \/ SdGo \/ SdEnds \/ SdIdle \/ Msc
  \/ HostWrites \/ HostSends \/ HostTakesStatus \/ HostGivesUp \/ HostStops

HostGoes == HostSends \/ HostTakesStatus \/ HostGivesUp \/ BusResetSeen

\* Interrupt, tick, thread and card go on, and a host with what it has begun.
RbSpec ==
  /\ RbInit /\ [][RbNext]_rbvars
  /\ WF_rbvars(BulkIrq) /\ WF_rbvars(Watchdog) /\ WF_rbvars(SdGo \/ SdEnds \/ SdIdle)
  /\ WF_rbvars(Msc) /\ WF_rbvars(HostGoes)
-----------------------------------------------------------------------------
\* The two DMAs never run together, unless the SD driver has lost patience.
OneDma == sd = "run" /\ e.dma => both.gave_up

\* The flag the SD driver waits for is up exactly while the DMA runs.
FlagIsDma == both.out = e.dma /\ both.busy = (sd = "run")

\* What is written to the card is as long as what the host sent, and the status comes
\* when all of it is written.  In a build without the DMA (as shipped), with a DMA that
\* is paced, and with one that gets stuck it is also what the host sent, in order; a DMA
\* that is not paced is WrittenAsSent's matter.
WrittenRight == peer.whole /\ (ep.out # "unpaced" => peer.good)

\* "Only the full count is a success; anything else fails the receive, so nothing of it
\* reaches the card" (usb-drv-sc6530c.c:655): what a write leaves on the card is what the
\* host sent.  With the DMA that was measured on the phone it is not: the count is full
\* (usb-drv-sc6530c.c:486).
WrittenAsSent == peer.good

\* One that is held back is waited for by a receive, and by the SD driver.
HeldIsWaited == both.kick => e.wait /\ e.busy /\ sd \in {"run", "end"}

BulkKept == OneDma /\ FlagIsDma /\ WrittenRight /\ HeldIsWaited

\* A command of the host ends: it is answered, or the host resets the bus.
WritesEnd == peer.at # "idle" ~> peer.at = "idle"
=============================================================================
