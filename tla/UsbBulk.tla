------------------------------ MODULE UsbBulk ------------------------------
(***************************************************************************)
(* The device side of the USB driver, os/drivers/usb.c: the two bulk         *)
(* endpoints, the generation that tells a transfer of before a reset from    *)
(* one of after it, and the interrupt handler.  Everything here runs with    *)
(* interrupts off, so each operator maps the driver's data u to its next     *)
(* value in one go.                                                          *)
(*                                                                         *)
(* Lengths count 64-byte packets.  A packet is <<kind, tag, number>>; only   *)
(* "data" and "card" packets are full ones, every other kind is short.       *)
(***************************************************************************)
EXTENDS Integers, Sequences

EABORT == -1

NoPacket == <<"none", 0, 0>>
Zlp      == <<"zlp", 0, 0>>
Full(p)  == p[1] \in {"data", "card"}

IdleEp == [busy |-> FALSE, buf |-> "cbw", len |-> 0, done |-> 0, last |-> 0,
           armed |-> FALSE, zlp |-> FALSE, result |-> 0]

(* u.fin is the packet in the IN FIFO, u.fout the one in the OUT FIFO, u.rx   *)
(* whether the hardware takes an OUT packet; u.pin, u.pout and u.setup are    *)
(* the interrupts that are pending, u.mem the buffers.                        *)
IdleDriver(buffers) ==
  [gen |-> 0, configured |-> FALSE, seen |-> FALSE, stop |-> FALSE, polled |-> FALSE,
   halted_in |-> FALSE, halted_out |-> FALSE, ep_in |-> IdleEp, ep_out |-> IdleEp,
   fin |-> NoPacket, fout |-> NoPacket, rx |-> FALSE,
   pin |-> FALSE, pout |-> FALSE, setup |-> "none", mem |-> buffers]

Pending(u) == u.pin \/ u.pout \/ u.setup # "none"
-----------------------------------------------------------------------------
\* Nobody looks at the other fields of an endpoint again before its next transfer.
Over(result) == [IdleEp EXCEPT !.result = result]

complete(e) == Over(e.done)

cancel(e) == IF e.busy THEN Over(EABORT) ELSE e

in_packet(u) ==
  LET e == u.ep_in
      n == IF e.done < e.len THEN 1 ELSE 0
  IN  [u EXCEPT !.ep_in.last = n, !.ep_in.zlp = @ /\ n # 0, !.pin = FALSE,
                !.fin = IF n = 1 THEN u.mem[e.buf][e.done + 1] ELSE Zlp]

out_arm(u) == [u EXCEPT !.ep_out.armed = TRUE, !.rx = TRUE]

in_done(u) ==
  LET v == [u EXCEPT !.ep_in.done = @ + u.ep_in.last]
  IN  IF ~u.ep_in.busy THEN u
      ELSE IF v.ep_in.done < v.ep_in.len \/ v.ep_in.zlp THEN in_packet(v)
      ELSE [v EXCEPT !.ep_in = complete(@)]

\* A short packet ends the transfer; only full packets count in its result.
\* A CBW is short and is looked at as a whole.
out_done(u) ==
  LET e == u.ep_out
      n == IF Full(u.fout) THEN 1 ELSE 0
      v == [u EXCEPT !.ep_out.armed = FALSE, !.fout = NoPacket, !.ep_out.done = @ + n,
                     !.mem[e.buf] = IF n = 1 \/ e.buf = "cbw"
                                    THEN [@ EXCEPT ![e.done + 1] = u.fout] ELSE @]
  IN  IF ~e.busy \/ ~e.armed THEN u
      ELSE IF v.ep_out.done < e.len /\ n = 1 THEN out_arm(v)
      ELSE [v EXCEPT !.ep_out = complete(@)]
-----------------------------------------------------------------------------
bulk_cancel_sw(u) ==
  [u EXCEPT !.gen = @ + 1, !.ep_in = cancel(@), !.ep_out = cancel(@)]

bulk_cancel(u) ==
  [bulk_cancel_sw(u) EXCEPT !.fin = NoPacket, !.fout = NoPacket, !.rx = FALSE]

unhalt(u) == [u EXCEPT !.halted_in = FALSE, !.halted_out = FALSE]

\* ep_program clears the interrupts of a bulk endpoint.
ep_program(u) == [u EXCEPT !.pin = FALSE, !.pout = FALSE]

configure(u) ==
  [unhalt(ep_program(bulk_cancel(u))) EXCEPT !.configured = TRUE, !.seen = TRUE]

bus_reset_seen(u) ==
  LET v == bulk_cancel(u)
  IN  [unhalt(IF u.configured THEN ep_program(v) ELSE v) EXCEPT !.seen = FALSE]

halt_set_in(u)  == [u EXCEPT !.halted_in = TRUE]
halt_set_out(u) == [u EXCEPT !.halted_out = TRUE]

\* A transfer that was queued behind the halt starts now.
halt_clear(u, in) ==
  LET v == IF in THEN [u EXCEPT !.halted_in = FALSE] ELSE [u EXCEPT !.halted_out = FALSE]
  IN  IF in THEN IF u.halted_in /\ u.ep_in.busy THEN in_packet(v) ELSE v
      ELSE IF u.halted_out /\ u.ep_out.busy /\ ~u.ep_out.armed THEN out_arm(v) ELSE v

\* The requests that change the driver's state.  The 64-byte read of the device
\* descriptor stands for the bus reset before it; SET_CONFIGURATION does not
\* reach the driver on the phone, so the first request for an interface or an
\* endpoint configures the device.
ep0_setup(u) ==
  LET rq == u.setup
      v  == [u EXCEPT !.setup = "none"]
      w  == IF v.seen THEN v ELSE configure(v)
  IN  CASE rq = "descriptor"  -> IF v.seen THEN bus_reset_seen(v) ELSE v
        [] rq = "set_config"  -> configure(v)
        [] rq = "get_max_lun" -> w
        [] rq = "bot_reset"   -> unhalt(bulk_cancel(w))
        [] rq = "clear_in"    -> halt_clear(w, TRUE)
        [] rq = "clear_out"   -> halt_clear(w, FALSE)
        [] rq = "none"        -> v

\* udc_service: the control endpoint first, then IN, then OUT.
udc_service(u) ==
  LET v == ep0_setup(u)
      w == IF v.pin THEN in_done([v EXCEPT !.pin = FALSE]) ELSE v
  IN  IF w.pout THEN out_done([w EXCEPT !.pout = FALSE]) ELSE w
-----------------------------------------------------------------------------
(* For mass storage *)

usb_gen_valid(u, g) == g = u.gen /\ ~u.stop

CanStart(u, g, e) == usb_gen_valid(u, g) /\ ~e.busy

Transfer(buf, len) == [IdleEp EXCEPT !.busy = TRUE, !.buf = buf, !.len = len]

\* While the endpoint is halted the transfer waits for halt_clear.
usb_bulk_start_in(u, buf, len) ==
  LET v == [u EXCEPT !.ep_in = [Transfer(buf, len) EXCEPT !.zlp = len = 0]]
  IN  IF u.halted_in THEN v ELSE in_packet(v)

usb_bulk_start_out(u, buf, len) ==
  LET v == [u EXCEPT !.ep_out = Transfer(buf, len)]
  IN  IF u.halted_out THEN v ELSE out_arm(v)

\* bulk_wait is over: the transfer is, or the session is to stop.
WaitOver(u, e) == ~e.busy \/ u.stop

\* Its result: a transfer still in flight is given up.
Result(e) == IF e.busy THEN EABORT ELSE e.result

Waited == IdleEp
=============================================================================
