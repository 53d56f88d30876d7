----------------------------- MODULE MCStorage -----------------------------
(***************************************************************************)
(* What the phone does with its card besides playing from it: the USB storage *)
(* session and the card log.  They share no state: which of them moves is     *)
(* chosen at the start.                                                      *)
(***************************************************************************)
EXTENDS UsbStorage, MCCardLog

VARIABLE part
storagevars == <<part, vars, logvars>>

Cmd(op, n, len, in) == [op |-> op, n |-> n, len |-> len, in |-> in]

\* A host's first command: of those whose data it and the device agree on, and of
\* those of which one expects more than the other.
First ==
  {Cmd("read", 3, 6, TRUE), Cmd("read", 1, 3, TRUE),
   Cmd("write", 2, 4, FALSE), Cmd("write", 1, 1, TRUE), Cmd("reply", 0, 2, TRUE),
   Cmd("refused", 0, 3, FALSE), Cmd("invalid", 0, 0, TRUE)}

Second == {Cmd("write", 0, 0, TRUE)}

MCCommands == <<First, Second>>

StorageInit ==
  /\ part \in {"usb", "log"} /\ Init /\ LogInit
  /\ part # "log" => scene = Quiet

Still(p, v) == IF part = p THEN TRUE ELSE UNCHANGED v
Only(p) ==
  part = p /\ UNCHANGED part /\ Still("usb", vars) /\ Still("log", logvars)

StorageNext ==
  \/ Only("usb") /\ Next
  \/ Only("log") /\ LogNext

SessionStep ==
  \/ Isr \/ MscRun \/ HwConnect \/ HwStop \/ StopCancels \/ StopReturns
  \/ HostStep /\ UNCHANGED <<th, screen, card>>

\* The fairness of UsbStorage and of CardLog, of which less is asked here: of the
\* parties of a session, that one of them moves while any can.  part never changes.
StorageSpec ==
  /\ StorageInit /\ [][StorageNext]_storagevars
  /\ WF_storagevars(\/ Only("usb") /\ SessionStep
                    \/ Only("log") /\ LogFlush /\ UNCHANGED scene)
  /\ WF_storagevars(Only("log") /\ FlushStep(Log) /\ UNCHANGED scene)
=============================================================================
