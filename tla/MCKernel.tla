------------------------------ MODULE MCKernel ------------------------------
(***************************************************************************)
(* Bounded instances of Kernel: a low thread, two of a middle priority, a    *)
(* high one and idle.  Which of the two parts runs is chosen at the start.   *)
(* In "locks" two is not created; two mutexes nest, or one is taken twice,   *)
(* priority changes make a thread the peer of another, and two waiters of    *)
(* one mutex change places while an owner is lent a priority.  In "turns"    *)
(* mid and two are peers between low, which can hold the mutex they keep it  *)
(* from giving up, and high, which sleeps longer than a slice; two waits for *)
(* the mutex only, and without a timeout.                                    *)
(***************************************************************************)
EXTENDS Kernel

CONSTANTS idle, low, mid, two, high

VARIABLE part
partvars == <<part, vars>>

MCBasePrio == [t \in {idle, low, mid, two, high} |->
                 CASE t = idle -> 0 [] t = low -> 1 [] t = high -> 3 [] OTHER -> 2]

\* The waits of each part: 1 tick, or 3.
WaitsLast(n) == \A t \in Thread : k'.wake[t] > k.wake[t] => k'.wake[t] = n

MCInit == Init /\ part \in {"locks", "turns"}

MCNext ==
  /\ Next /\ UNCHANGED part
  /\ IF part = "locks"
     THEN /\ WaitsLast(1) /\ k'.state[two] = "none" /\ k'.depth[1] + k'.depth[2] <= 2
     ELSE /\ WaitsLast(3) /\ irq' < 2 /\ k'.base = BasePrio
          /\ k'.owner[2] = None /\ k'.depth[1] < 2 /\ k'.wake[two] = 0

\* FairSpec's fairness; in "turns" nobody takes mutex 2.
MCSpec == MCInit /\ [][MCNext]_partvars /\ WF_vars(Tick) /\ GivesUp(1)

\* Who never blocks shares the CPU, and the most urgent thread gets out of its waits,
\* while that thread sleeps longer than a slice.
TurnsAreFair == part = "turns" => FairTurns
=============================================================================
