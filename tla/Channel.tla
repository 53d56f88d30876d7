------------------------------ MODULE Channel ------------------------------
(***************************************************************************)
(* What a message queue promises its users (os/include/os/kernel.h): a      *)
(* bounded first-in first-out channel.  A send puts one message at the end  *)
(* if there is room; a receive takes the first one and hands it to its      *)
(* caller.  Blocking, timeouts and who runs when are not part of it.        *)
(***************************************************************************)
EXTENDS Naturals, Sequences

CONSTANTS
  Msg,        \* the messages
  NoMsg,      \* no message yet; not in Msg
  Capacity    \* the number of messages the channel can hold

VARIABLES
  ch,      \* the messages under way, oldest first
  in,      \* the message that was sent last
  out      \* the message that was received last

Init == ch = <<>> /\ in = NoMsg /\ out = NoMsg

Send(m) ==
  /\ Len(ch) < Capacity
  /\ ch' = Append(ch, m)
  /\ in' = m
  /\ UNCHANGED out

Receive ==
  /\ ch # <<>>
  /\ ch' = Tail(ch)
  /\ out' = Head(ch)
  /\ UNCHANGED in

Next == (\E m \in Msg : Send(m)) \/ Receive

Spec == Init /\ [][Next]_<<ch, in, out>>
=============================================================================
