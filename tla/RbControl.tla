----------------------------- MODULE RbControl -----------------------------
(***************************************************************************)
(* Rockbox on the phone: the control endpoint of its USB driver               *)
(* (usb-drv-sc6530c.c of the port) between a host, the controller as the      *)
(* emulator has it (sc6530_usb.c), and Rockbox's USB core, which is not part  *)
(* of the repository: the driver's calls queue events for the core's thread.  *)
(*                                                                         *)
(* The controller answers SET_ADDRESS, SET_CONFIGURATION and every status     *)
(* stage itself, and tells nobody of a bus reset.  The driver infers both     *)
(* from the requests around them.                                            *)
(***************************************************************************)
EXTENDS Integers, Sequences

CONSTANTS
  MaxRequests,  \* bound: how many requests the host makes
  MaxResets,    \* bound: how often it resets the bus after the first time
  MaxGiveUps    \* bound: how often it makes a request before the last is answered

ASSUME RbControlAssumption == {MaxRequests, MaxResets, MaxGiveUps} \subseteq Nat

VARIABLES
  udc,   \* the controller's EP0; `bulk': its other endpoints are programmed; `shows':
         \* it raises a SETUP for what it answers itself
  drv,   \* endpoints[0], and the variables of the control endpoint
  usbcore,  \* the core: its thread's events, the request it is sending the answer of,
         \* cfg (a configuration is active), eps (it has endpoints), armed (its
         \* class drivers have transfers on them), the last report it has got
  host,  \* the host: how far enumeration is, its request, what it got of it,
         \* whether that was right, and the last report it has sent
  made   \* how many requests, resets and given-up requests there were

rcvars == <<udc, drv, usbcore, host, made>>

\* The packets the core has to say to a request, those the host asks for or sends
\* (wLength), and whether the request is for an interface or of a class.
Kinds == {"device", "head", "config", "class", "report", "odd", "address", "configure"}
Answer(r)  == CASE r.kind \in {"head", "config"} -> 2 [] r.kind \in {"device", "class"} -> 1
                [] OTHER -> 0
wLength(r) == CASE r.kind = "config" -> 3 [] r.kind = "report" -> 2
                [] r.kind \in {"address", "configure"} -> 0 [] OTHER -> 1
NeedsConfig(r) == r.kind \in {"class", "report"}
Writes(r)      == r.kind = "report"

Least(a, b) == IF a < b THEN a ELSE b
NoRequest  == [kind |-> "none", id |-> 0]
NoTransfer == [busy |-> FALSE, armed |-> FALSE, len |-> 0, done |-> 0, id |-> 0]

\* usb_drv_init() and a host that has found the device and reset it.
RcInit ==
  /\ \E shows \in BOOLEAN :
     udc = [shows |-> shows, stage |-> "idle", setup |-> NoRequest, sts |-> {}, tx |-> FALSE,
            rx |-> FALSE, stall |-> FALSE, fifo |-> <<>>, trsize |-> 0, sent |-> 0,
            bulk |-> FALSE]
  /\ drv = [in |-> NoTransfer, out |-> NoTransfer, pending |-> FALSE, wlength |-> 0,
            config_seen |-> FALSE, core_configured |-> FALSE, enabled |-> FALSE,
            stash |-> NoRequest]
  /\ usbcore = [queue |-> <<>>, sends |-> 0, cfg |-> FALSE, eps |-> FALSE, armed |-> FALSE,
             report |-> 0]
  /\ host = [stage |-> "reset", req |-> NoRequest, got |-> 0, ended |-> FALSE, good |-> TRUE,
             sent |-> 0]
  /\ made = [requests |-> 0, resets |-> 0, giveups |-> 0]
-----------------------------------------------------------------------------
(* The driver, on a state s of controller, driver and core *)

\* The event of usb_core_notify_set_config().
SetConfig == [kind |-> "set_config", id |-> 0]
Queue(s, e) == [s EXCEPT !.usbcore.queue = Append(@, e)]

\* in_packet() for EP0: SETUP stays latched.
in_packet(s) ==
  [s EXCEPT !.udc.sts = @ \cap {"setup"}, !.udc.tx = TRUE,
            !.udc.fifo = <<s.drv.in.id, s.drv.in.done + 1>>]

out_arm(s) == [s EXCEPT !.drv.out.armed = TRUE, !.udc.rx = TRUE]

\* Mutant: TR_SIZE is set to what each packet holds.
TrSizePerPacket(n) == Least(n, 1)

TrSize(n) == n

\* start_send() for EP0.
start_send(s, r) ==
  LET n == Least(Answer(r), s.drv.wlength) IN
  IF n = 0 THEN s
  ELSE in_packet([s EXCEPT
         !.drv.in = [busy |-> TRUE, armed |-> FALSE, len |-> n, done |-> 0, id |-> r.id],
         !.udc.trsize = TrSize(n), !.udc.sent = 0, !.usbcore.sends = r.id])

\* usb_drv_recv_nonblocking() for the status stage of a control read.
ReceiveStatus(s) ==
  IF s.drv.in.busy
  THEN [s EXCEPT !.drv.pending = TRUE,
                 !.drv.out = [@ EXCEPT !.busy = TRUE, !.armed = FALSE, !.len = 0, !.done = 0]]
  ELSE s

\* usb_drv_recv_nonblocking() for the data of a control write.
Receive(s, r) ==
  out_arm([s EXCEPT !.drv.out = [busy |-> TRUE, armed |-> FALSE, len |-> wLength(r),
                                 done |-> 0, id |-> r.id]])

\* usb_drv_stall() for EP0.
Stall(s) ==
  [s EXCEPT !.drv.in.busy = FALSE, !.drv.out.busy = FALSE, !.drv.pending = FALSE,
            !.udc.stall = TRUE]

in_done(s) ==
  LET t == [s EXCEPT !.drv.in.done = @ + 1] IN
  IF t.drv.in.done < t.drv.in.len THEN in_packet(t)
  ELSE [t EXCEPT !.drv.in.busy = FALSE, !.usbcore.sends = 0, !.drv.pending = FALSE,
                 !.drv.out.busy = @ /\ ~s.drv.pending]

\* The interrupt's result of an OUT packet; a whole report is an event of the core.
out_done(s) ==
  LET t == [s EXCEPT !.drv.out.done = @ + 1, !.drv.out.armed = FALSE] IN
  IF ~(s.drv.out.busy /\ s.drv.out.armed) THEN s
  ELSE IF t.drv.out.done < t.drv.out.len THEN out_arm(t)
  ELSE [t EXCEPT !.drv.out.busy = FALSE, !.usbcore.report = s.drv.out.id]

\* usb_drv_cancel_all_transfers() and the endpoints in use programmed again: nobody
\* tells the core.
bus_reset_seen(s) ==
  [s EXCEPT !.udc.bulk = s.drv.enabled, !.usbcore.armed = FALSE, !.drv.config_seen = FALSE]

\* The beginning of ep0_setup(): a SETUP ends the request before it, stall and
\* stashed request included.
Ended(s) ==
  [s EXCEPT !.udc = [@ EXCEPT !.stall = FALSE, !.tx = FALSE, !.rx = FALSE],
            !.drv = [@ EXCEPT !.out.busy = FALSE, !.in.busy = FALSE, !.pending = FALSE,
                              !.stash = NoRequest]]

\* A 64-byte read of the device descriptor opens an enumeration.
Resets(r, s) == r.kind = "address" \/ (r.kind = "device" /\ s.drv.config_seen)

\* Mutant: the request goes to the core right behind the news of the configuration.
StashNever(s) == FALSE

\* Activating a configuration again drops all that is queued, so that the request
\* waits; the first activation has nothing to drop.
Stashes(s) == s.drv.core_configured

ep0_setup(s, r) ==
  LET t == IF Resets(r, s) THEN bus_reset_seen(Ended(s)) ELSE Ended(s)
      w == [t EXCEPT !.drv.wlength = wLength(r)]
      c == Queue([w EXCEPT !.drv.config_seen = TRUE], SetConfig)
  IN  IF r.kind = "address" THEN t
      ELSE IF r.kind = "configure" THEN Queue([w EXCEPT !.drv.config_seen = TRUE], r)
      ELSE IF t.drv.config_seen \/ ~NeedsConfig(r) THEN Queue(w, r)
      ELSE IF Stashes(s) THEN [c EXCEPT !.drv.stash = r]
      ELSE Queue(c, r)

deliver_stashed_setup(s) ==
  IF s.drv.stash = NoRequest THEN s
  ELSE Queue([s EXCEPT !.drv.stash = NoRequest], s.drv.stash)

\* udc_service() for EP0: completions first, then the SETUP that ends their request.
Completed(s, sts) ==
  IF sts \cap {"xact", "done"} = {} THEN s
  ELSE IF s.drv.in.busy THEN in_done(s) ELSE IF s.drv.out.armed THEN out_done(s) ELSE s

udc_service(s) ==
  LET t == Completed([s EXCEPT !.udc.sts = {}], s.udc.sts)
  IN  IF "setup" \in s.udc.sts THEN ep0_setup(t, s.udc.setup) ELSE t

State == [udc |-> udc, drv |-> drv, usbcore |-> usbcore]
Becomes(s) == udc' = s.udc /\ drv' = s.drv /\ usbcore' = s.usbcore /\ UNCHANGED <<host, made>>

USB_UDC == udc.sts # {} /\ Becomes(udc_service(State))

\* stash_tick(), for a configuration without endpoints: HZ/5 is longer than the core
\* takes to activate one, and a SETUP never waits that long for the interrupt.
StashTick ==
  /\ udc.sts = {} /\ drv.stash # NoRequest
  /\ \A i \in DOMAIN usbcore.queue : usbcore.queue[i] # SetConfig
  /\ Becomes(deliver_stashed_setup(State))
-----------------------------------------------------------------------------
(* The core's thread, when no interrupt is pending *)

\* Its blocking send returns when the answer is out, and after a second when it was
\* abandoned: the host takes an answer it still wants within that.
SendReturns ==
  /\ usbcore.sends # 0 /\ host.req.id # usbcore.sends
  /\ Becomes([State EXCEPT !.usbcore.sends = 0, !.drv.in.busy = FALSE])

Handles(e) == udc.sts = {} /\ usbcore.sends = 0 /\ usbcore.queue # <<>> /\ Head(usbcore.queue) = e
Taken == [State EXCEPT !.usbcore.queue = Tail(@)]

\* The endpoints of the old configuration go (usb_drv_ep_deinit), those of the new
\* come (usb_drv_ep_init).  The first configuration has some.
Activated(s, eps) ==
  LET t == [s EXCEPT !.usbcore.queue = IF s.usbcore.cfg THEN <<>> ELSE @,
                     !.usbcore.cfg = TRUE, !.usbcore.eps = eps, !.usbcore.armed = eps,
                     !.drv.enabled = eps, !.udc.bulk = eps]
  IN  IF eps THEN deliver_stashed_setup([t EXCEPT !.drv.core_configured = TRUE]) ELSE t

CoreConfigures ==
  /\ Handles(SetConfig)
  /\ \E eps \in BOOLEAN :
       /\ ~drv.core_configured => eps
       /\ Becomes(Activated(Taken, eps))

\* The core arms the status stage of a read before or after the data; it refuses
\* what it does not know, and what needs a configuration while there is none.
CoreAnswers ==
  \E r \in {usbcore.queue[i] : i \in DOMAIN usbcore.queue} \ {SetConfig} :
    /\ Handles(r)
    /\ IF r.kind = "odd" \/ (NeedsConfig(r) /\ ~usbcore.cfg) THEN Becomes(Stall(Taken))
       ELSE IF r.kind = "configure" THEN Becomes(Activated(Taken, TRUE))
       ELSE IF Writes(r) THEN Becomes(Receive(Taken, r))
       ELSE \/ Becomes(ReceiveStatus(start_send(Taken, r)))
            \/ Becomes(start_send(ReceiveStatus(Taken), r))
-----------------------------------------------------------------------------
(* The controller and the host *)

\* host_bus_reset(): EP0's SETUP interrupt stays enabled.  A reset takes 10 ms, and
\* nobody gives up a request sooner: what was latched before has been served.
BusReset ==
  /\ made.resets < MaxResets /\ udc.sts = {}
  /\ udc' = [udc EXCEPT !.stage = "idle", !.sts = {}, !.tx = FALSE, !.rx = FALSE,
                        !.stall = FALSE, !.fifo = <<>>, !.bulk = FALSE]
  /\ host' = [host EXCEPT !.stage = IF @ = "opened" THEN "again" ELSE "reset",
                          !.req = NoRequest, !.sent = 0]
  /\ made' = [made EXCEPT !.resets = @ + 1]
  /\ usbcore' = [usbcore EXCEPT !.armed = FALSE]
  /\ UNCHANGED drv

\* What a host may ask, and how far it is then.  It opens an enumeration with a
\* 64-byte read of the device descriptor; after that it may reset the bus again.
Asks(stage) ==
  CASE stage = "reset" -> {"device"} [] stage \in {"opened", "again"} -> {"address"}
    [] stage = "addressed" -> {"head", "config", "odd", "configure"}
    [] stage = "configured" -> {"config", "odd", "class", "report"}
After(stage, kind) ==
  CASE kind = "device" -> "opened" [] kind = "address" -> "addressed"
    [] kind = "configure" -> "configured" [] OTHER -> stage

\* host_setup(), for a controller that shows SET_ADDRESS and SET_CONFIGURATION or not.
\* The core has taken up what was queued before: that takes it no time a host would
\* lose patience over.
HostSetup ==
  /\ made.requests < MaxRequests /\ "setup" \notin udc.sts
  /\ usbcore.queue = <<>>
  /\ host.req # NoRequest => made.giveups < MaxGiveUps /\ udc.sts = {}
  /\ made' = [made EXCEPT !.requests = @ + 1,
                          !.giveups = IF host.req = NoRequest THEN @ ELSE @ + 1]
  /\ \E kind \in Asks(host.stage) :
       LET r     == [kind |-> kind, id |-> made.requests + 1]
           shows == udc.shows \/ kind \notin {"address", "configure"}
       IN
       /\ udc' = [udc EXCEPT
            !.tx = FALSE, !.rx = FALSE, !.stall = FALSE, !.fifo = <<>>, !.sent = 0,
            !.setup = r, !.sts = IF shows THEN @ \cup {"setup"} ELSE @,
            !.stage = IF wLength(r) = 0 THEN "status_in"
                      ELSE IF Writes(r) THEN "data_out" ELSE "data_in"]
       /\ host' = [host EXCEPT !.stage = After(@, kind), !.req = r, !.got = 0, !.ended = FALSE]
  /\ UNCHANGED <<drv, usbcore>>

Asking(in) == host.req # NoRequest /\ ~host.ended /\ Writes(host.req) = ~in /\ wLength(host.req) > 0
Full == host.got + 1 = wLength(host.req)

\* host_in(): nothing, an empty packet once TR_SIZE is out, or what is in the FIFO.
HostIn ==
  /\ Asking(TRUE) /\ ~udc.stall
  /\ IF udc.trsize > 0 /\ udc.sent >= udc.trsize
     THEN /\ host' = [host EXCEPT !.ended = TRUE,
                        !.good = @ /\ host.got = Least(Answer(host.req), wLength(host.req))]
          /\ UNCHANGED udc
     ELSE /\ udc.tx /\ udc.fifo # <<>>
          /\ host' = [host EXCEPT !.got = @ + 1, !.ended = Full,
                        !.good = @ /\ udc.fifo = <<host.req.id, host.got + 1>>]
          /\ LET out == udc.sent + 1 >= udc.trsize IN
             udc' = [udc EXCEPT !.fifo = <<>>, !.sent = @ + 1, !.tx = ~out,
                                !.sts = @ \cup IF out THEN {"xact", "done"} ELSE {"xact"}]
  /\ UNCHANGED <<drv, usbcore, made>>

\* host_out()
HostOut ==
  /\ Asking(FALSE) /\ udc.rx /\ ~udc.stall
  /\ udc' = [udc EXCEPT !.rx = FALSE, !.sts = @ \cup {"xact", "done"}]
  /\ host' = [host EXCEPT !.got = @ + 1, !.ended = Full]
  /\ UNCHANGED <<drv, usbcore, made>>

\* The status stage, which the controller answers, or a stall.
HostEnds ==
  /\ host.req # NoRequest
  /\ host.ended \/ wLength(host.req) = 0 \/ udc.stall
  /\ udc' = [udc EXCEPT !.stage = "idle"]
  /\ host' = [host EXCEPT !.req = NoRequest,
                          !.sent = IF Writes(host.req) /\ host.ended THEN host.req.id ELSE @]
  /\ UNCHANGED <<drv, usbcore, made>>

HostGoesOn == HostIn \/ HostOut \/ HostEnds
CoreGoesOn == SendReturns \/ CoreConfigures \/ CoreAnswers

RcNext == USB_UDC \/ StashTick \/ CoreGoesOn \/ BusReset \/ HostSetup \/ HostGoesOn

\* The interrupt, the tick and the core's thread go on, and the host with its request.
RcSpec ==
  /\ RcInit /\ [][RcNext]_rcvars
  /\ WF_rcvars(USB_UDC) /\ WF_rcvars(StashTick) /\ WF_rcvars(CoreGoesOn)
  /\ WF_rcvars(HostGoesOn)
-----------------------------------------------------------------------------
\* A host is given all of the answer to its own request and nothing else, whatever
\* it asked or gave up before (ep0_setup(), deliver_stashed_setup()).
OwnAnswers == host.good

\* A report that has been sent reaches the core, or its last packet is latched: the
\* next SETUP, which ends the request, does not cut it off.
ReportKept ==
  host.sent # 0 =>
    \/ usbcore.report >= host.sent
    \/ drv.out.id = host.sent /\ drv.out.busy /\ drv.out.armed /\ "xact" \in udc.sts

\* When a request that needs a configuration is answered, the core has activated one
\* since the last bus reset, and the endpoints are programmed.
Reconfigured ==
  host.req # NoRequest /\ host.req.kind = "class" /\ host.got = 1 /\ usbcore.eps
    => udc.bulk /\ usbcore.armed

ControlKept == OwnAnswers /\ ReportKept /\ Reconfigured

\* Every request is answered, refused or given up: none is lost on its way to the
\* core, not even when a bus reset makes the core activate its configuration again.
RequestsAnswered == host.req # NoRequest ~> host.req = NoRequest
=============================================================================
