------------------------------- MODULE Kernel -------------------------------
(***************************************************************************)
(* Threads, the tick and mutexes with priority inheritance: the calls of    *)
(* os/kernel/thread.c and os/kernel/sync.c that the running thread makes,    *)
(* and the timer interrupt between any two of them.  Interrupts are the     *)
(* kernel's only lock, so a call is one step up to the point where it gives *)
(* up the CPU; what a call does after k_block() returned is a second step   *)
(* of the same thread, which it takes when it is scheduled again.           *)
(***************************************************************************)
EXTENDS ThreadOps

CONSTANTS
  Boot,       \* the first thread ("ui"), created by kmain
  BasePrio,   \* the priority each thread is created with
  Waits,      \* the timeouts in ticks that calls use; None is WAIT_FOREVER
  NewPrios,   \* the priorities thread_set_priority is called with
  MaxDepth,   \* bound: how deep an owner takes the same mutex again
  MaxTicks    \* bound: the ticks one timer interrupt can catch up with

ASSUME KernelAssumption ==
  /\ Boot \in Thread \ {Idle}
  /\ BasePrio \in [Thread -> Prio]
  /\ \A t \in Thread : BasePrio[t] = 0 <=> t = Idle
  /\ Waits \subseteq (Nat \ {0}) \cup {None}
  /\ NewPrios \subseteq Prio \ {0}
  /\ MaxDepth \in Nat \ {0}
  /\ MaxTicks \in Nat \ {0}

VARIABLES
  k,      \* the kernel's data
  call,   \* the mutex a thread's mutex_lock call blocks for, until it returns
  irq     \* 0, or the number of ticks the running timer interrupt advances by

vars == <<k, call, irq>>

Init ==
  /\ k = [state     |-> [t \in Thread |-> IF t \in {Boot, Idle} THEN "ready" ELSE "none"],
          prio      |-> BasePrio,
          base      |-> BasePrio,
          ready     |-> [p \in Prio |-> IF p = BasePrio[Boot] THEN <<Boot>>
                                        ELSE IF p = 0 THEN <<Idle>> ELSE <<>>],
          waitq     |-> [q \in Obj |-> <<>>],
          on        |-> [t \in Thread |-> None],
          timeouts  |-> <<>>,
          wake      |-> [t \in Thread |-> 0],
          result    |-> [t \in Thread |-> "ok"],
          blockedOn |-> [t \in Thread |-> None],
          owner     |-> [m \in Mutex |-> None],
          depth     |-> [m \in Mutex |-> 0],
          held      |-> [t \in Thread |-> {}],
          cur |-> Boot, need |-> FALSE, rotate |-> FALSE, slice |-> SliceTicks]
  /\ call = [t \in Thread |-> None]
  /\ irq = 0

\* The running thread is in its own code: no interrupt, no unfinished call.
Free(t) == irq = 0 /\ k.cur = t /\ call[t] = None
Threads == Thread \ {Idle}
-----------------------------------------------------------------------------
(* Mutexes *)

Own(d, t, m) == [d EXCEPT !.owner[m] = t, !.depth[m] = 1, !.held[t] = @ \cup {m}]

LockFree(t, m) ==
  /\ k.owner[m] = None
  /\ k' = Own(k, t, m)
  /\ UNCHANGED call

LockAgain(t, m) ==
  /\ k.owner[m] = t
  /\ k.depth[m] < MaxDepth
  /\ k' = [k EXCEPT !.depth[m] = @ + 1]
  /\ UNCHANGED call

\* A poll of a taken mutex (timeout 0) changes nothing and is left out.
LockBlock(t, m, ms) ==
  /\ k.owner[m] \notin {None, t}
  /\ LET k1 == [k EXCEPT !.blockedOn[t] = m]
         k2 == IF k.prio[t] > k.prio[k.owner[m]]
               THEN SetPrio(k1, k.owner[m], k.prio[t]) ELSE k1
     IN  k' = Block(k2, m, ms)
  /\ call' = [call EXCEPT ![t] = m]

\* Callers nest mutexes in one order (FatFs volume, then SD card).
Lock(t, m) ==
  /\ Free(t)
  /\ \A h \in k.held[t] : h <= m
  /\ \/ LockFree(t, m)
     \/ LockAgain(t, m)
     \/ \E ms \in Waits : LockBlock(t, m, ms)
  /\ UNCHANGED irq

\* mutex_lock after k_block: a wait that timed out gives back the priority
\* it lent.
LockReturn(t) ==
  /\ irq = 0 /\ k.cur = t /\ call[t] # None
  /\ LET m  == call[t]
         k1 == [k EXCEPT !.blockedOn[t] = None]
         o  == k.owner[m]
     IN  k' = IF k.result[t] # "ok" /\ o # None
              THEN SetPrio(k1, o, Ceiling(k1, o)) ELSE k1
  /\ call' = [call EXCEPT ![t] = None]
  /\ UNCHANGED irq

\* Mutant: the first waiter gets the chance to take the mutex.
HandOverChance(d, m) ==
  LET w == Head(d.waitq[m])
  IN  Wake([d EXCEPT !.owner[m] = None, !.blockedOn[w] = None], w, "ok")

\* The first waiter gets the mutex itself, not only the chance to take it.
HandOver(d, m) ==
  LET w  == Head(d.waitq[m])
      d1 == Wake([d EXCEPT !.owner[m] = w, !.depth[m] = 1, !.blockedOn[w] = None],
                 w, "ok")
      d2 == [d1 EXCEPT !.held[w] = @ \cup {m}]
  IN  SetPrio(d2, w, Ceiling(d2, w))

\* Mutant: no held_remove().
UnlockStaysHeld(t, m) ==
  /\ Free(t) /\ k.owner[m] = t
  /\ LET k1 == [k EXCEPT !.depth[m] = @ - 1]
         k2 == IF k1.waitq[m] # <<>> THEN HandOver(k1, m)
               ELSE [k1 EXCEPT !.owner[m] = None]
     IN  k' = IF k1.depth[m] > 0 THEN k1
              ELSE Preempt(SetPrio(k2, t, Ceiling(k2, t)), FALSE)
  /\ UNCHANGED <<call, irq>>

\* Mutant: the caller keeps the priority its waiters lent it.
UnlockStaysBoosted(t, m) ==
  /\ Free(t) /\ k.owner[m] = t
  /\ LET k1 == [k EXCEPT !.depth[m] = @ - 1, !.held[t] = @ \ {m}]
         k2 == IF k1.waitq[m] # <<>> THEN HandOver(k1, m)
               ELSE [k1 EXCEPT !.owner[m] = None]
     IN  k' = IF k1.depth[m] > 0 THEN [k EXCEPT !.depth[m] = @ - 1]
              ELSE Preempt(k2, FALSE)
  /\ UNCHANGED <<call, irq>>

Unlock(t, m) ==
  /\ Free(t)
  /\ k.owner[m] = t
  /\ LET k0 == [k EXCEPT !.depth[m] = @ - 1]
         k1 == [k0 EXCEPT !.held[t] = @ \ {m}]
         k2 == IF k1.waitq[m] # <<>> THEN HandOver(k1, m)
               ELSE [k1 EXCEPT !.owner[m] = None]
     IN  k' = IF k0.depth[m] > 0 THEN k0
              ELSE Preempt(SetPrio(k2, t, Ceiling(k2, t)), FALSE)
  /\ UNCHANGED <<call, irq>>
-----------------------------------------------------------------------------
(* Threads *)

Create(t, n) ==
  /\ Free(t)
  /\ k.state[n] = "none"
  /\ k' = Preempt(ReadyAdd([k EXCEPT !.prio[n] = BasePrio[n], !.base[n] = BasePrio[n]],
                           n, FALSE), FALSE)
  /\ UNCHANGED <<call, irq>>

\* A thread ends with no mutex held (every caller unlocks before it returns).
Exit(t) ==
  /\ Free(t)
  /\ k.held[t] = {}
  /\ k' = Reschedule([ReadyRemove(k, t) EXCEPT !.state[t] = "dead"])
  /\ UNCHANGED <<call, irq>>

\* The idle thread frees the zombies, whose memory can become new threads.
Reap ==
  /\ Free(Idle)
  /\ \E t \in Thread : k.state[t] = "dead"
  /\ k' = [k EXCEPT !.state = [t \in Thread |-> IF @[t] = "dead" THEN "none" ELSE @[t]]]
  /\ UNCHANGED <<call, irq>>

Sleep(t, ms) ==
  /\ Free(t)
  /\ k' = Block(k, None, ms)
  /\ UNCHANGED <<call, irq>>

Yield(t) ==
  /\ Free(t)
  /\ k' = Reschedule([k EXCEPT !.rotate = TRUE])
  /\ UNCHANGED <<call, irq>>

SetPriority(t, u, p) ==
  /\ Free(t)
  /\ k.state[u] \in {"ready", "blocked"}
  /\ LET k1 == [k EXCEPT !.base[u] = p]
     IN  k' = Preempt(SetPrio(k1, u, Ceiling(k1, u)), FALSE)
  /\ UNCHANGED <<call, irq>>
-----------------------------------------------------------------------------
(* The timer interrupt: advance() by n ticks, then the exit of the handler.  *)
(* Its loop over the timeouts that have passed is one step per iteration.    *)

\* Mutant: the time that is left runs below zero.
TickBeginWraps ==
  /\ irq = 0
  /\ irq' \in 1 .. MaxTicks
  /\ k' = [k EXCEPT !.wake = [t \in Thread |-> @[t] - irq']]
  /\ UNCHANGED call

TickBegin ==
  /\ irq = 0
  /\ irq' \in 1 .. MaxTicks
  /\ k' = [k EXCEPT !.wake = [t \in Thread |-> IF @[t] > irq' THEN @[t] - irq' ELSE 0]]
  /\ UNCHANGED call

Due == k.timeouts # <<>> /\ k.wake[Head(k.timeouts)] = 0

TickWake ==
  /\ irq > 0 /\ Due
  /\ k' = Wake(k, Head(k.timeouts), "timeout")
  /\ UNCHANGED <<call, irq>>

\* The list with the element after t as its head.
PastOf(s, t) ==
  LET i == CHOOSE j \in DOMAIN s : s[j] = t
  IN  SubSeq(s, i + 1, Len(s)) \o SubSeq(s, 1, i)

\* Mutant: the end of a slice only starts the next one.
SliceWithoutTurn(d, n) ==
  [d EXCEPT !.slice = IF @ > n THEN @ - n ELSE SliceTicks]

\* The running thread's slice: at its end the next of its priority runs.
Slice(d, n) ==
  LET p == d.prio[d.cur]
  IN  IF d.slice > n THEN [d EXCEPT !.slice = @ - n]
      ELSE IF Len(d.ready[p]) > 1
      THEN [d EXCEPT !.slice = SliceTicks, !.ready[p] = PastOf(@, d.cur), !.need = TRUE]
      ELSE [d EXCEPT !.slice = SliceTicks]

TickEnd ==
  /\ irq > 0 /\ ~Due
  /\ k' = IrqExit(Slice(k, irq))
  /\ irq' = 0
  /\ UNCHANGED call
-----------------------------------------------------------------------------
Run(t) ==
  \/ \E m \in Mutex : Lock(t, m) \/ Unlock(t, m)
  \/ LockReturn(t)
  \/ \E n \in Threads : Create(t, n)
  \/ \E ms \in Waits \ {None} : Sleep(t, ms)
  \/ Yield(t)
  \/ Exit(t)
  \/ \E u \in Threads, p \in NewPrios : SetPriority(t, u, p)

Tick == TickBegin \/ TickWake \/ TickEnd

Next == (\E t \in Threads : Run(t)) \/ Reap \/ Tick

Spec == Init /\ [][Next]_vars

\* The timer never stops, and every critical section takes a finite amount of
\* its owner's time: an owner that again and again has the CPU gives the mutex
\* up.  Nothing else is promised; a thread that holds no mutex may spin for
\* ever, and an owner that is not scheduled need not do anything.
OwnerRuns(m) == irq = 0 /\ k.cur = k.owner[m]

Released(m) == k.owner[m] # None /\ k'.owner[m] # k.owner[m]

GivesUp(m) == []<>OwnerRuns(m) => []<><<Released(m)>>_vars

FairSpec == Spec /\ WF_vars(Tick) /\ \A m \in Mutex : GivesUp(m)
-----------------------------------------------------------------------------
(* Type correctness of the kernel's data. *)
TypeOK ==
  /\ k \in KernelType
  /\ call \in [Thread -> Mutex \cup {None}]
  /\ irq \in Nat

\* Every list agrees with the thread's own fields, wait lists fall in priority
\* (thread.c's waitq_add; k_wake takes the head) and the timeout list rises in
\* time (advance() looks at its head only).
ListsAgree ==
  /\ ReadyLists(k) /\ WaitLists(k) /\ TimeoutList(k)
  /\ \A q \in Obj : \A i, j \in DOMAIN k.waitq[q] :
       i < j => k.prio[k.waitq[q][i]] >= k.prio[k.waitq[q][j]]
  /\ \A i, j \in DOMAIN k.timeouts :
       i < j => k.wake[k.timeouts[i]] <= k.wake[k.timeouts[j]]

\* Whenever interrupts are on, the running thread is the head of the highest
\* non-empty ready list: no call leaves a more urgent thread waiting for the
\* next interrupt.
HighestRuns ==
  irq = 0 => k.cur = Head(k.ready[HighestReady(k)])

\* Ownership seen from the mutex and from the thread is the same, and only a
\* taken mutex has waiters, none of which is its owner.
OwnersAgree ==
  /\ \A t \in Thread : k.held[t] = {m \in Mutex : k.owner[m] = t}
  /\ \A m \in Mutex :
       /\ k.owner[m] = None <=> k.depth[m] = 0
       /\ \A w \in Elems(k.waitq[m]) : /\ k.owner[m] \notin {None, w}
                                       /\ k.blockedOn[w] = m

\* Priority inheritance: an owner is at least as urgent as every waiter, so
\* no thread between the two can hold the waiter up.
NoInversion ==
  \A m \in Mutex : \A w \in Elems(k.waitq[m]) : k.prio[k.owner[m]] >= k.prio[w]

\* Who runs is right, and what it is chosen from: the lists a call leaves to the next
\* one, and the priorities the owners of mutexes are lent.
ScheduleRight == HighestRuns /\ ListsAgree /\ NoInversion

\* No call makes a thread less urgent than its own priority, and a boost ends
\* with the last mutex: who holds none runs at its own priority.
BoostEnds ==
  \A t \in Thread :
    /\ k.prio[t] >= k.base[t]
    /\ k.state[t] \in {"ready", "blocked"} /\ k.held[t] = {} => k.prio[t] = k.base[t]

\* What mutex_lock is about to report is the truth: WAIT_OK exactly when the
\* mutex was handed over, WAIT_TIMEOUT exactly when it was not.
LockReportsOwnership ==
  \A t \in Thread : call[t] # None /\ k.state[t] = "ready"
                    => (k.result[t] = "ok" <=> k.owner[call[t]] = t)

\* Ahead(s, a, b): a comes before b in s.
Ahead(s, a, b) == \E i, j \in DOMAIN s : i < j /\ s[i] = a /\ s[j] = b

\* A thread goes behind others of its priority only when it yields or its
\* slice is over: preemption by a more urgent thread, a boost, or the wake-up
\* of a third thread cost nobody its turn.
TurnsInOrder ==
  [][\A p \in Prio : \A a, b \in Elems(k.ready[p]) :
       Ahead(k.ready[p], a, b) /\ Ahead(k'.ready[p], b, a)
         => a = k.cur /\ (Yield(a) \/ (irq > 0 /\ k.slice <= irq))]_vars

Peers(a, b) == k.state[a] = "ready" /\ k.state[b] = "ready" /\ k.prio[a] = k.prio[b]

\* Round robin within a priority (kernel.h:3): of two threads that stay ready
\* at one priority, the CPU does not go to one again and again and never to
\* the other.
RoundRobin ==
  \A a \in Threads : \A b \in Threads \ {a} :
    <>[]Peers(a, b) /\ []<>(k.cur = a) => []<>(k.cur = b)

MostUrgent == {t \in Threads : \A u \in Threads \ {t} : BasePrio[u] < BasePrio[t]}

\* The most urgent thread of all gets out of every wait in mutex_lock, whatever
\* the threads between it and the owner do with the CPU.
UrgentWaitEnds ==
  \A m \in Mutex : \A t \in MostUrgent : []<>(k.on[t] # m)

\* The two together: what priorities promise, to peers and to the most urgent.
FairTurns == RoundRobin /\ UrgentWaitEnds
=============================================================================
