------------------------------ MODULE MCPorts ------------------------------
(***************************************************************************)
(* The parts of the Rockbox port and the kernel's message queue, which share   *)
(* no state: which of them moves is chosen at the start.                      *)
(***************************************************************************)
EXTENDS RbPcm, RbControl, RbBulk, KernelQueue

CONSTANTS idle, s1, r1, s2, r2

VARIABLE part
portsvars == <<part, rpcmvars, rcvars, rbvars, qvars>>

\* Two senders and two readers of four priorities; s1, the least urgent, sleeps only
\* until it is woken.
MCBasePrio == [t \in {idle, s1, r1, s2, r2} |->
                 CASE t = idle -> 0 [] t = s1 -> 1 [] t = r1 -> 2 [] t = s2 -> 3 [] t = r2 -> 4]

MCStretches    == {<<1>>, <<2, 3>>, <<1, 1, 2>>}
MCRecStretches == {<<2>>, <<3, 3>>}

\* Part p moves, the others do not.
Still(p, v) == IF part = p THEN TRUE ELSE UNCHANGED v
Only(p) ==
  /\ part = p /\ UNCHANGED part
  /\ Still("pcm", rpcmvars) /\ Still("control", rcvars) /\ Still("bulk", rbvars)
  /\ Still("queue", qvars)

PortsInit ==
  /\ part \in {"pcm", "control", "bulk", "queue"} /\ RpcmInit /\ RcInit /\ RbInit /\ QInit
  /\ part # "control" => udc.shows
  /\ part # "bulk" => ep.out = "paced"

PortsNext ==
  \/ Only("pcm") /\ RpcmNext
  \/ Only("control") /\ RcNext
  \/ Only("bulk") /\ RbNext
  \/ Only("queue") /\ QNext /\ k'.wake[s1] = 0

\* The fairness of RbControl and RbBulk, one condition for one of each: part never
\* changes, so it speaks of one of them.
PortsSpec ==
  /\ PortsInit /\ [][PortsNext]_portsvars
  /\ WF_portsvars((Only("control") /\ USB_UDC) \/ (Only("bulk") /\ BulkIrq))
  /\ WF_portsvars((Only("control") /\ StashTick) \/ (Only("bulk") /\ Watchdog))
  /\ WF_portsvars((Only("control") /\ CoreGoesOn) \/ (Only("bulk") /\ Msc))
  /\ WF_portsvars((Only("control") /\ HostGoesOn) \/ (Only("bulk") /\ HostGoes))
  /\ WF_portsvars(Only("bulk") /\ (SdGo \/ SdEnds \/ SdIdle))
=============================================================================
