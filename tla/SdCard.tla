------------------------------- MODULE SdCard -------------------------------
(***************************************************************************)
(* A block transfer of os/drivers/sd.c through the controller of             *)
(* os/drivers/sdio.c: chunks through the bounce buffer, retries, CMD12 and    *)
(* CMD13, and the keypad scan that must be off while the DMA moves data.      *)
(*                                                                         *)
(* The caller holds sd.c's mutex.  The controller and the card are outside    *)
(* the code: the DMA moves a block at a time, a block or a command can fail,  *)
(* and the card can stay busy for longer than the driver waits.               *)
(***************************************************************************)
EXTENDS Integers

CONSTANTS
  CardBlocks,   \* the card's blocks are 0 .. CardBlocks - 1
  MaxBlocks,    \* MAX_BLOCKS: the most blocks of one command
  Tries,        \* TRIES: how often a chunk is tried
  MaxCalls      \* bound: calls of sd_read and sd_write

ASSUME SdAssumption ==
  CardBlocks \in Nat \ {0} /\ MaxBlocks \in Nat \ {0} /\ Tries \in Nat \ {0} /\ MaxCalls \in Nat

VARIABLES
  x,       \* the call: transfer, chunk and command, with their variables
  disk,    \* what the card holds
  state,   \* the card's: "tran", "data", "rcv" or "prg"
  dma,     \* the controller: the blocks moved of those to move, and int_st
  bounce,  \* BOUNCE
  data,    \* the caller's buffer
  scan,    \* the keypad controller scans
  calls

sdvars == <<x, disk, state, dma, bounce, data, scan, calls>>

Junk == -1
Idle == [pc |-> "idle", write |-> FALSE, lba |-> 0, at |-> 0, count |-> 0, n |-> 0,
         tries |-> 0, rc |-> 0, ok |-> FALSE]
NoDma == [on |-> FALSE, moved |-> 0, err |-> FALSE, complete |-> FALSE]

SdInit ==
  /\ x = Idle /\ disk = [b \in 0 .. CardBlocks - 1 |-> 0] /\ state = "tran" /\ dma = NoDma
  /\ bounce = [i \in 0 .. MaxBlocks - 1 |-> Junk]
  /\ data = [i \in 0 .. CardBlocks - 1 |-> Junk]
  /\ scan = TRUE /\ calls = 0

\* Data is under way between BOUNCE and the card.
Moving == dma.on /\ dma.moved < x.n /\ ~dma.err
-----------------------------------------------------------------------------
(* sd_read and sd_write *)

\* The k-th call writes k to each of its blocks.
Call ==
  /\ x.pc = "idle" /\ calls < MaxCalls /\ calls' = calls + 1
  /\ \E w \in BOOLEAN, a \in 0 .. CardBlocks - 1 : \E c \in 1 .. CardBlocks - a :
       /\ x' = [Idle EXCEPT !.pc = "chunk", !.write = w, !.lba = a, !.at = a, !.count = c]
       /\ data' = [i \in DOMAIN data |-> IF w THEN calls' ELSE Junk]
  /\ UNCHANGED <<disk, state, dma, bounce, scan>>

\* keypad_pause, and the command.  A card that is not in transfer state does
\* not take it, nor does it always otherwise.
Chunk ==
  /\ x.pc = "chunk"
  /\ LET n == IF x.count > MaxBlocks THEN MaxBlocks ELSE x.count
     IN  /\ x' = [x EXCEPT !.pc = "spin", !.n = n]
         /\ bounce' = IF x.write
                      THEN [i \in DOMAIN bounce |-> IF i < n THEN data[x.at - x.lba + i] ELSE bounce[i]]
                      ELSE bounce
  /\ scan' = FALSE
  /\ \/ /\ state = "tran"
        /\ state' = IF x.write THEN "rcv" ELSE "data"
        /\ dma' = [NoDma EXCEPT !.on = TRUE]
     \/ /\ dma' = [NoDma EXCEPT !.err = TRUE]
        /\ UNCHANGED state
  /\ UNCHANGED <<disk, data, calls>>

Over == dma.err \/ dma.complete

\* A single block: the card may take long, and its data does not go by in the wait.
ResumesInWait == x.n = 1

\* The first look at the status, about 40 us.  A block to write has been clocked
\* out by then; the card may take far longer to find a block to read.
SpinOver ==
  /\ x.pc = "spin" /\ ~Over
  /\ x.write /\ x.n = 1 => ~Moving
  /\ x' = [x EXCEPT !.pc = "wait"]
  /\ scan' = IF ResumesInWait THEN TRUE ELSE scan
  /\ UNCHANGED <<disk, state, dma, bounce, data, calls>>

\* Mutant: a damaged block does not make a transfer fail.
DoneAnyway(d) == d.complete

Done(d) == d.complete /\ ~d.err

\* The end of command(), also when 1500 ms have passed, and of sdio_transfer
\* but for CMD12: the lines are reset, so that the DMA stops.
CommandOver ==
  /\ x.pc = "wait" \/ (x.pc = "spin" /\ Over)
  /\ x' = [x EXCEPT !.pc = IF x.n > 1 THEN "stop" ELSE "copy",
                    !.ok = Done(dma)]
  /\ scan' = IF x.pc = "wait" /\ ResumesInWait THEN FALSE ELSE scan
  /\ dma' = NoDma
  /\ UNCHANGED <<disk, state, bounce, data, calls>>

\* CMD12, if it gets through (nobody looks).
Stopped == \/ state \in {"data", "rcv"} /\ state' = "tran"
           \/ UNCHANGED state

Stop ==
  /\ x.pc = "stop"
  /\ Stopped
  /\ x' = [x EXCEPT !.pc = "copy"]
  /\ UNCHANGED <<disk, dma, bounce, data, scan, calls>>

\* The end of chunk: copy what was read, keypad_resume.
Copy ==
  /\ x.pc = "copy"
  /\ data' = IF x.ok /\ ~x.write
            THEN [i \in DOMAIN data |-> LET j == i - (x.at - x.lba)
                                       IN IF j \in 0 .. x.n - 1 THEN bounce[j] ELSE data[i]]
            ELSE data
  /\ scan' = TRUE
  /\ x' = [x EXCEPT !.pc = IF x.n > 1 THEN "ready" ELSE "tried"]
  /\ UNCHANGED <<disk, state, dma, bounce, calls>>

\* Mutant: every failure is retried.
ForEver(tries) == FALSE

GivesUp(tries) == tries >= Tries

\* The loop of transfer after a chunk.
Tried ==
  /\ x.pc = "tried"
  /\ x' = IF x.ok
          THEN [x EXCEPT !.at = @ + x.n, !.count = @ - x.n, !.tries = 0,
                         !.pc = IF x.count = x.n THEN "done" ELSE "chunk"]
          ELSE IF GivesUp(x.tries + 1) THEN [x EXCEPT !.rc = -1, !.pc = "done"]
          ELSE [x EXCEPT !.tries = IF x.tries < Tries THEN @ + 1 ELSE @, !.pc = "ready_again"]
  /\ UNCHANGED <<disk, state, dma, bounce, data, scan, calls>>

\* wait_ready: CMD13 until the card is in transfer state, CMD12 if it is in the
\* middle of a transfer, for at most a second.
WaitReady ==
  /\ x.pc \in {"ready", "ready_again"}
  /\ \/ x' = [x EXCEPT !.pc = IF x.pc = "ready" THEN "tried" ELSE "chunk"] /\ UNCHANGED state
     \/ state \in {"data", "rcv"} /\ state' = "tran" /\ UNCHANGED x
  /\ UNCHANGED <<disk, dma, bounce, data, scan, calls>>

Return ==
  /\ x.pc = "done" /\ x' = Idle
  /\ UNCHANGED <<disk, state, dma, bounce, data, scan, calls>>
-----------------------------------------------------------------------------
(* The DMA and the card *)

\* One block moves.  With the last one a read is complete; a single block to
\* write has to be programmed first.
Move ==
  /\ Moving
  /\ IF x.write
     THEN disk' = [disk EXCEPT ![x.at + dma.moved] = bounce[dma.moved]] /\ UNCHANGED bounce
     ELSE bounce' = [bounce EXCEPT ![dma.moved] = disk[x.at + dma.moved]] /\ UNCHANGED disk
  /\ LET last == dma.moved + 1 = x.n
     IN  /\ dma' = [dma EXCEPT !.moved = @ + 1, !.complete = last /\ (~x.write \/ x.n > 1)]
         /\ state' = IF ~last \/ x.n > 1 THEN state ELSE IF x.write THEN "prg" ELSE "tran"
  /\ UNCHANGED <<x, data, scan, calls>>

\* A block goes wrong: its data is lost, or arrives damaged and is read on.
BlockFails ==
  /\ Moving
  /\ dma' = [dma EXCEPT !.err = TRUE,
                        !.complete = dma.moved + 1 = x.n /\ ~x.write]
  /\ bounce' = IF x.write THEN bounce ELSE [bounce EXCEPT ![dma.moved] = Junk]
  /\ state' = IF x.n = 1 THEN "tran" ELSE state
  /\ UNCHANGED <<x, disk, data, scan, calls>>

\* The card has programmed a block.
Programmed ==
  /\ state = "prg" /\ state' = "tran"
  /\ dma' = IF dma.on THEN [dma EXCEPT !.complete = TRUE] ELSE dma
  /\ UNCHANGED <<x, disk, bounce, data, scan, calls>>

\* A single block nobody waits for any more has gone by.
Drops ==
  /\ state \in {"data", "rcv"} /\ ~dma.on /\ x.n = 1 /\ state' = "tran"
  /\ UNCHANGED <<x, disk, dma, bounce, data, scan, calls>>

Driver == Chunk \/ SpinOver \/ CommandOver \/ Stop \/ Copy \/ Tried \/ WaitReady \/ Return
Hardware == Move \/ BlockFails \/ Programmed \/ Drops

SdNext == Call \/ Driver \/ Hardware

\* The driver goes on, whatever the card does: every wait of it is bounded.  The
\* controller clocks out what it has to.
SdSpec == SdInit /\ [][SdNext]_sdvars /\ WF_sdvars(Driver) /\ WF_sdvars(Move \/ BlockFails)
-----------------------------------------------------------------------------
Asked == x.lba .. x.at - 1   \* the blocks the call is done with

\* What a call has got through is right, whatever failed on the way: the blocks
\* it wrote hold what it was given, and its buffer holds the blocks it read.
Transferred ==
  \A b \in Asked : disk[b] = data[b - x.lba]

\* The keypad scan is off while data of a write or of several blocks moves ("the
\* keypad scan is paused around each SDIO DMA", sd.c:5), and on whenever no call is
\* under way, also after failures.
ScanPaused ==
  /\ Moving /\ (x.write \/ x.n > 1) => ~scan
  /\ x.pc \in {"idle", "done"} => scan

\* The two together: what a caller of sd_read and sd_write, and the user at the keys,
\* count on.
TransferSafe == Transferred /\ ScanPaused

\* sd_read and sd_write return, although the card may never answer.
Returns == []<>(x.pc = "idle")
=============================================================================
