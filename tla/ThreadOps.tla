----------------------------- MODULE ThreadOps -----------------------------
(***************************************************************************)
(* The thread structures of os/kernel/thread.c and the helpers that change  *)
(* them with interrupts off.  The kernel's data is one record k, and every  *)
(* C helper is an operator that takes k and gives the changed k, so that a  *)
(* kernel call is the composition of its helpers in the order of the code.  *)
(*                                                                         *)
(* A circular ready list is the sequence that starts at its head; a wait    *)
(* list and the timeout list are the sequences of their links.  k.wake[t]   *)
(* is t->wake - ticks, the ticks that remain: only that difference is ever  *)
(* compared.  A thread is on the timeout list exactly when t->timed is set. *)
(***************************************************************************)
EXTENDS Naturals, Sequences, FiniteSets

CONSTANTS
  Thread,      \* the thread control blocks
  Idle,        \* idle_thread, created by kernel_start
  Obj,         \* everything with a wait list: mutexes, semaphores, senders
  Mutex,       \* the mutexes among them, numbered in the order they nest
  None,        \* a NULL pointer
  MaxPrio,     \* PRIO_MAX
  SliceTicks   \* SLICE_TICKS

ASSUME ThreadAssumption ==
  /\ Idle \in Thread
  /\ None \notin Thread \cup Obj
  /\ Mutex \subseteq Obj
  /\ Mutex \subseteq Nat
  /\ MaxPrio \in Nat \ {0}
  /\ SliceTicks \in Nat \ {0}

Prio == 0 .. MaxPrio
States == {"none", "ready", "blocked", "dead"}
Results == {"ok", "timeout"}

Elems(s) == {s[i] : i \in DOMAIN s}

\* The kernel's data.  held[t] is the set of mutexes on t's held list.
KernelType ==
  [state : [Thread -> States], prio : [Thread -> Prio], base : [Thread -> Prio],
   ready : [Prio -> Seq(Thread)], waitq : [Obj -> Seq(Thread)],
   on : [Thread -> Obj \cup {None}], timeouts : Seq(Thread),
   wake : [Thread -> Nat], result : [Thread -> Results],
   blockedOn : [Thread -> Mutex \cup {None}],
   owner : [Mutex -> Thread \cup {None}], depth : [Mutex -> Nat],
   held : [Thread -> SUBSET Mutex],
   cur : Thread, need : BOOLEAN, rotate : BOOLEAN, slice : 0 .. SliceTicks]
-----------------------------------------------------------------------------
(* Lists *)

Without(s, t) ==
  IF t \in Elems(s)
  THEN LET i == CHOOSE j \in DOMAIN s : s[j] = t
       IN  [j \in 1 .. Len(s) - 1 |-> IF j < i THEN s[j] ELSE s[j + 1]]
  ELSE s

\* s with t put in front of the first element for which key is over limit,
\* at the end if there is none.
InsertBefore(s, t, over) ==
  LET i == CHOOSE j \in 1 .. Len(s) + 1 :
             /\ \A l \in 1 .. j - 1 : s[l] \notin over
             /\ j <= Len(s) => s[j] \in over
  IN  [j \in 1 .. Len(s) + 1 |->
         IF j < i THEN s[j] ELSE IF j = i THEN t ELSE s[j - 1]]

ReadyAdd(k, t, atHead) ==
  [k EXCEPT !.state[t] = "ready",
            !.ready[k.prio[t]] = IF atHead THEN <<t>> \o @ ELSE Append(@, t)]

ReadyRemove(k, t) == [k EXCEPT !.ready[k.prio[t]] = Without(@, t)]

HighestReady(k) ==
  CHOOSE p \in Prio : /\ k.ready[p] # <<>>
                      /\ \A q \in Prio : k.ready[q] # <<>> => q <= p

WaitqAdd(k, q, t) ==
  [k EXCEPT !.waitq[q] = InsertBefore(@, t, {u \in Thread : k.prio[u] < k.prio[t]}),
            !.on[t] = q]

WaitqRemove(k, t) ==
  [k EXCEPT !.waitq[k.on[t]] = Without(@, t), !.on[t] = None]

TimeoutAdd(k, t, ms) ==
  LET w == IF ms = 0 THEN 1 ELSE ms
  IN  [k EXCEPT !.timeouts = InsertBefore(@, t, {u \in Thread : k.wake[u] > w}),
                !.wake[t] = w]

TimeoutRemove(k, t) ==
  [k EXCEPT !.timeouts = Without(@, t), !.wake[t] = 0]
-----------------------------------------------------------------------------
(* The scheduler *)

\* Mutant: a thread that loses the CPU goes to the end of its list.
RescheduleToEnd(k) ==
  LET p == k.prio[k.cur]
      next == Head(k.ready[HighestReady(k)])
      r == [k EXCEPT !.rotate = FALSE, !.need = FALSE,
                     !.ready[p] = IF k.state[k.cur] = "ready" /\ next # k.cur
                                  THEN Append(Without(@, k.cur), k.cur) ELSE @]
  IN  IF next = k.cur THEN r
      ELSE [r EXCEPT !.cur = next, !.slice = SliceTicks]

\* "rotate" moves the running thread's list on, then the head of the highest
\* list runs; a thread that gets the CPU gets a fresh slice.
Reschedule(k) ==
  LET p    == k.prio[k.cur]
      rot  == /\ k.rotate
              /\ k.state[k.cur] = "ready"
              /\ Head(k.ready[p]) = k.cur
      r    == [k EXCEPT !.ready[p] = IF rot THEN Append(Tail(@), k.cur) ELSE @,
                        !.rotate = FALSE, !.need = FALSE]
      next == Head(r.ready[HighestReady(r)])
  IN  IF next = k.cur THEN r
      ELSE [r EXCEPT !.cur = next, !.slice = SliceTicks]

\* k_preempt() from a thread; an interrupt handler only sets need_resched.
Preempt(k, inIrq) ==
  LET n == [k EXCEPT !.need = @ \/ HighestReady(k) > k.prio[k.cur]]
  IN  IF n.need /\ ~inIrq THEN Reschedule(n) ELSE n

IrqExit(k) == IF k.need THEN Reschedule(k) ELSE k

\* k_block: q is None for a sleep; ms is None for WAIT_FOREVER.  The code
\* after arch_yield() is the caller's next step, once the thread runs again.
Block(k, q, ms) ==
  LET t  == k.cur
      k1 == [ReadyRemove(k, t) EXCEPT !.state[t] = "blocked", !.result[t] = "ok"]
      k2 == IF q # None THEN WaitqAdd(k1, q, t) ELSE k1
      k3 == IF ms # None THEN TimeoutAdd(k2, t, ms) ELSE k2
  IN  Reschedule(k3)

Wake(k, t, result) ==
  LET k1 == IF k.on[t] # None THEN WaitqRemove(k, t) ELSE k
      k2 == IF t \in Elems(k.timeouts) THEN TimeoutRemove(k1, t) ELSE k1
      k3 == ReadyAdd([k2 EXCEPT !.result[t] = result], t, FALSE)
  IN  [k3 EXCEPT !.need = @ \/ k.prio[t] > k.prio[k.cur]]
-----------------------------------------------------------------------------
(* Priorities: k_set_prio calls k_mutex_inherit for the owner of the mutex   *)
(* a blocked thread waits for, which calls k_set_prio in turn.               *)

\* Mutant: k_set_prio does not go on to the owner the thread waits for.
InheritsNothing(k, u, v, p) == FALSE

\* One link of that chain: v owns the mutex the blocked u waits for, and p
\* is higher than v's priority.
Inherits(k, u, v, p) ==
  /\ k.state[u] = "blocked"
  /\ k.blockedOn[u] # None
  /\ v = k.owner[k.blockedOn[u]]
  /\ p > k.prio[v]

\* The threads k_set_prio(t, p) gives priority p: t and every thread the
\* chain of calls reaches (the least set closed under Inherits).
Reached(k, t, p) ==
  {u \in Thread :
     \A S \in SUBSET Thread :
        (/\ t \in S
         /\ \A a \in S, b \in Thread : Inherits(k, a, b, p) => b \in S) => u \in S}

\* The chain goes on only from blocked threads, so it ends at the one ready
\* thread it can contain; and with mutexes taken in their order, no two of
\* its threads wait on the same list.
SetPrio(k, t, p) ==
  LET R       == Reached(k, t, p)
      prio    == [u \in Thread |-> IF u \in R THEN p ELSE k.prio[u]]
      Moved(q) == {u \in R : k.state[u] = "blocked" /\ k.on[u] = q}
      waitq   == [q \in Obj |->
                    IF Moved(q) = {} THEN k.waitq[q]
                    ELSE LET u == CHOOSE v \in Moved(q) : TRUE
                         IN  InsertBefore(Without(k.waitq[q], u), u,
                                          {v \in Thread : prio[v] < p})]
      Queued  == {u \in R : k.state[u] = "ready"}
      k1      == [k EXCEPT !.prio = prio, !.waitq = waitq]
      k2      == IF Queued = {} THEN k1
                 ELSE LET u  == CHOOSE v \in Queued : TRUE
                          hd == Head(k.ready[k.prio[u]]) = u /\ u = k.cur
                      IN  ReadyAdd([k1 EXCEPT !.ready[k.prio[u]] = Without(@, u)],
                                   u, hd)
      need    == \/ k.cur \in R /\ HighestReady(k2) > p
                 \/ \E u \in R \ {k.cur} : k.state[u] = "ready" /\ p > prio[k.cur]
  IN  IF k.prio[t] = p THEN k ELSE [k2 EXCEPT !.need = @ \/ need]

\* k_mutex_ceiling: the thread's own priority or that of the first waiter of
\* a mutex it holds, whichever is highest.
Ceiling(k, t) ==
  LET P == {k.base[t]} \cup
           {k.prio[Head(k.waitq[m])] : m \in {h \in k.held[t] : k.waitq[h] # <<>>}}
  IN  CHOOSE p \in P : \A q \in P : q <= p
-----------------------------------------------------------------------------
(* How the lists agree with the threads' own fields. *)

Inj(s) == \A i, j \in DOMAIN s : s[i] = s[j] => i = j

\* A ready thread is once on the list of its effective priority.
ReadyLists(k) ==
  \A p \in Prio :
     /\ Inj(k.ready[p])
     /\ Elems(k.ready[p]) = {t \in Thread : k.state[t] = "ready" /\ k.prio[t] = p}

\* A waiting thread is once on the list it names, and blocked.
WaitLists(k) ==
  /\ \A q \in Obj : /\ Inj(k.waitq[q])
                    /\ Elems(k.waitq[q]) = {t \in Thread : k.on[t] = q}
  /\ \A t \in Thread : k.on[t] # None => k.state[t] = "blocked"

TimeoutList(k) ==
  /\ Inj(k.timeouts)
  /\ \A t \in Elems(k.timeouts) : k.state[t] = "blocked"
=============================================================================
