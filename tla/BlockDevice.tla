---------------------------- MODULE BlockDevice ----------------------------
(***************************************************************************)
(* What a USB storage session promises its host, without transport, buffers  *)
(* or interrupts: a command changes whole blocks of its own and nothing      *)
(* else, what the host is told was done was done, and what it was given is   *)
(* on the card.  A host may give a command up; then some of its blocks may   *)
(* be written, and some still are after that.                                *)
(***************************************************************************)
EXTENDS Naturals, Sequences

CONSTANTS Blocks, Commands, Data(_, _), Given(_, _)

VARIABLES disk, tag, c, open, rx, answer, residue

vars == <<disk, tag, c, open, rx, answer, residue>>

Init ==
  /\ disk = [b \in Blocks |-> Given(0, b)]
  /\ tag = 0 /\ open = FALSE /\ rx = <<>> /\ answer = "none" /\ residue = 0

Issue ==
  /\ ~open /\ open' = TRUE
  /\ tag' = tag + 1 /\ c' \in Commands /\ rx' = <<>> /\ answer' = "none"
  /\ residue' = 0
  /\ UNCHANGED disk

\* A block arrives as a whole, and as this command's.
Store ==
  /\ c.op = "write" /\ ~c.in
  /\ \E b \in Blocks : b < c.n /\ disk' = [disk EXCEPT ![b] = Data(tag, b)]
  /\ UNCHANGED <<tag, c, open, rx, answer, residue>>

Get ==
  /\ open /\ c.in /\ Len(rx) < c.len
  /\ Len(rx') = Len(rx) + 1 /\ SubSeq(rx', 1, Len(rx)) = rx
  /\ UNCHANGED <<disk, tag, c, open, answer, residue>>

Moved == SelectSeq(rx, LAMBDA p : p[1] # "zlp")

\* What a good status says.
Done ==
  CASE c.op = "write" -> /\ c.n > 0 => ~c.in
                         /\ \A b \in Blocks : b < c.n => disk[b] = Data(tag, b)
                         /\ residue' = c.len - 2 * c.n
    [] c.op = "read"  -> /\ Len(Moved) = 2 * c.n
                         /\ \A i \in DOMAIN Moved : Moved[i] = disk[(i - 1) \div 2][((i - 1) % 2) + 1]
    [] OTHER -> TRUE

Answer ==
  /\ open /\ open' = FALSE
  /\ answer' \in {"good", "fail", "phase"}
  /\ residue' \in 0 .. c.len
  /\ answer' = "good" => Done
  /\ c.in => residue' = c.len - Len(Moved)
  /\ UNCHANGED <<disk, tag, c, rx>>

GiveUp == open /\ open' = FALSE /\ UNCHANGED <<disk, tag, c, rx, answer, residue>>

Next == Issue \/ Store \/ Get \/ Answer \/ GiveUp

Spec == Init /\ [][Next]_vars
=============================================================================
