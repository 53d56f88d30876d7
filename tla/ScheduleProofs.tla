--------------------------- MODULE ScheduleProofs ---------------------------
(***************************************************************************)
(* ScheduleRight for every number of threads, priorities and mutexes: the    *)
(* most urgent ready thread runs, every list is in its order, and no owner   *)
(* of a mutex is less urgent than a thread that waits for it.  On top of     *)
(* KernelProofs' IInv this takes what SInv adds: who may run while an         *)
(* interrupt handler is under way, and that chains of waiting threads end,   *)
(* since each waits for a mutex numbered above those it owns.                *)
(***************************************************************************)
EXTENDS KernelProofs

\* The pairs of threads that may follow each other in a list that falls, or
\* rises, in f.
Fall(f) == {r \in Thread \X Thread : f[r[1]] >= f[r[2]]}
Rise(f) == {r \in Thread \X Thread : f[r[1]] <= f[r[2]]}

\* Wait lists fall in priority, and the timeout list rises in time.
Sorted(d) ==
  /\ \A q \in Obj : Ordered(d.waitq[q], Fall(d.prio))
  /\ Ordered(d.timeouts, Rise(d.wake))

\* Owners outside X are as urgent as those that wait for their mutexes.
Lent(d, X) ==
  \A m \in Mutex, w \in Thread :
    d.on[w] = m /\ d.owner[m] \notin X => d.prio[d.owner[m]] >= d.prio[w]

\* A thread waits for a mutex above all that it owns: the callers' order.
Nested(d) ==
  \A m, h \in Mutex, w \in Thread : d.on[w] = m /\ d.owner[h] = w => h < m

\* Threads wait for mutexes only, and note the one they wait for.
Chained(d) ==
  \A t \in Thread :
    /\ d.on[t] \in Mutex \cup {None}
    /\ d.state[t] = "blocked" /\ d.blockedOn[t] # None => d.on[t] = d.blockedOn[t]

\* What is noted is what mutex_lock was called for.
Noted(d, c) == \A t \in Thread : d.blockedOn[t] # None => c[t] = d.blockedOn[t]

\* No thread that ended, or was never created, owns a mutex.
OwnersLive(d) == \A t \in Thread : d.held[t] # {} => d.state[t] \in {"ready", "blocked"}

\* The running thread is the first of its priority, and no other is higher.
Front(d) == Head(d.ready[d.prio[d.cur]]) = d.cur
Urgent(d) == \A u \in Thread : d.state[u] = "ready" => d.prio[u] <= d.prio[d.cur]
First(d) == Front(d) /\ Urgent(d)

\* The same as far as need_resched, which a switch obeys, does not say otherwise.
Led(d) == d.need \/ Front(d)
Pending(d) == d.need \/ First(d)
-----------------------------------------------------------------------------
(* The scheduler. *)

\* The highest list is that of the running thread when no thread is above it.
LEMMA HighestUrgent ==
  ASSUME NEW d, Lists(d), d.state[d.cur] = "ready"
  PROVE  /\ HighestReady(d) \in Prio /\ d.prio[d.cur] \in Prio
         /\ Urgent(d) <=> ~(HighestReady(d) > d.prio[d.cur])
         /\ Urgent(d) <=> HighestReady(d) = d.prio[d.cur]
<1> DEFINE h == HighestReady(d)
           p == d.prio[d.cur]
<1>0. d.cur \in Thread /\ d.prio \in [Thread -> Prio] /\ Prio \subseteq Nat
  BY ThreadAssumption DEF Lists, KernelType, Prio
<1>1. /\ h \in Prio /\ d.ready[h] # <<>> /\ Head(d.ready[h]) \in Thread
      /\ \A q \in Prio : d.ready[q] # <<>> => q <= h
  BY <1>0, HighestList
<1>2. \E u \in Thread : d.state[u] = "ready" /\ d.prio[u] = h
  <2>1. d.ready[h] \in Seq(Thread)
    BY <1>1 DEF Lists, KernelType
  <2>2. Head(d.ready[h]) \in Elems(d.ready[h])
    <3>1. Len(d.ready[h]) \in Nat /\ Len(d.ready[h]) >= 1 BY <1>1, <2>1
    <3> QED BY <3>1, <2>1 DEF Elems
  <2> QED BY <1>1, <2>2 DEF Lists, ReadyLists
<1>3. \A u \in Thread : d.state[u] = "ready" => d.prio[u] <= h
  <2> SUFFICES ASSUME NEW u \in Thread, d.state[u] = "ready" PROVE d.prio[u] <= h
    OBVIOUS
  <2>1. d.prio[u] \in Prio /\ u \in Elems(d.ready[d.prio[u]])
    BY <1>0 DEF Lists, ReadyLists
  <2>2. d.ready[d.prio[u]] # <<>>
    BY <2>1 DEF Elems
  <2> QED BY <1>1, <2>1, <2>2
<1> HIDE DEF h
<1>4. h \in Nat /\ p \in Nat /\ p <= h
  BY <1>0, <1>1, <1>3
<1>5. Urgent(d) <=> h <= p
  <2>1. ASSUME Urgent(d) PROVE h <= p
    BY <1>2, <2>1 DEF Urgent
  <2>2. ASSUME h <= p, NEW u \in Thread, d.state[u] = "ready" PROVE d.prio[u] <= p
    <3>1. d.prio[u] \in Nat BY <1>0
    <3> QED BY <1>3, <1>4, <2>2, <3>1
  <2> QED BY <2>1, <2>2 DEF Urgent
<1> QED BY <1>0, <1>1, <1>4, <1>5 DEF h

LEMMA HighestFirst ==
  ASSUME NEW d, Lists(d), d.state[d.cur] = "ready"
  PROVE  First(d) <=> d.cur = Head(d.ready[HighestReady(d)])
<1> DEFINE h == HighestReady(d)
<1>1. Urgent(d) <=> h = d.prio[d.cur]
  BY HighestUrgent
<1>2. ASSUME d.cur = Head(d.ready[h]) PROVE h = d.prio[d.cur]
  <2>1. d.cur \in Thread /\ h \in Prio /\ d.ready[h] # <<>>
    <3>1. d.cur \in Thread BY DEF Lists, KernelType
    <3> QED BY <3>1, HighestList
  <2> HIDE DEF h
  <2>2. d.ready[h] \in Seq(Thread)
    BY <2>1 DEF Lists, KernelType
  <2>3. d.cur \in Elems(d.ready[h])
    <3>1. Len(d.ready[h]) \in Nat /\ Len(d.ready[h]) >= 1 BY <2>1, <2>2
    <3> QED BY <3>1, <2>2, <1>2 DEF Elems
  <2> QED BY <2>1, <2>3 DEF Lists, ReadyLists
<1> HIDE DEF h
<1>3. First(d) <=> d.cur = Head(d.ready[h])
  BY <1>1, <1>2 DEF First, Front
<1> QED BY <1>3 DEF h

\* Two records that agree in what the scheduler looks at agree in who is first.
SameRun(d, e) ==
  e.state = d.state /\ e.prio = d.prio /\ e.ready = d.ready /\ e.cur = d.cur

LEMMA SameFirst ==
  ASSUME NEW d, NEW e, SameRun(d, e)
  PROVE  (Front(e) <=> Front(d)) /\ (Urgent(e) <=> Urgent(d)) /\ (First(e) <=> First(d))
BY DEF SameRun, Front, Urgent, First

SameWaits(d, e) ==
  e.waitq = d.waitq /\ e.timeouts = d.timeouts /\ e.wake = d.wake

\* kernel_reschedule() lets the right thread run.
LEMMA RescheduleFirst ==
  ASSUME NEW d, Lists(d), \E t \in Thread : d.state[t] = "ready"
  PROVE  /\ Switched(d, Reschedule(d)) /\ SameWaits(d, Reschedule(d))
         /\ First(Reschedule(d))
<1> DEFINE p == d.prio[d.cur]
           rot == d.rotate /\ d.state[d.cur] = "ready" /\ Head(d.ready[p]) = d.cur
           s == [d.ready EXCEPT ![p] = IF rot THEN Append(Tail(@), d.cur) ELSE @]
           r == [d EXCEPT !.ready[p] = IF rot THEN Append(Tail(@), d.cur) ELSE @,
                          !.rotate = FALSE, !.need = FALSE]
           next == Head(r.ready[HighestReady(r)])
           e == IF next = d.cur THEN r ELSE [r EXCEPT !.cur = next, !.slice = SliceTicks]
<1>1. e = Reschedule(d)
  BY DEF Reschedule
<1>2. /\ r = [d EXCEPT !.ready = s, !.rotate = FALSE, !.need = FALSE]
      /\ d \in KernelType
  BY DEF Lists, KernelType
<1> HIDE DEF s, r
<1>3. r.cur = d.cur /\ SameWaits(d, r)
  BY <1>2 DEF KernelType, SameWaits
<1>4. /\ e.cur = next /\ e.ready = r.ready /\ SameWaits(d, e)
  <2>1. CASE next = d.cur
    BY <2>1, <1>3
  <2>2. CASE next # d.cur
    <3>1. e = [d EXCEPT !.ready = s, !.rotate = FALSE, !.need = FALSE,
                        !.cur = next, !.slice = SliceTicks]
      BY <2>2, <1>2
    <3>2. r.ready = s
      BY <1>2 DEF KernelType
    <3> HIDE DEF e, next
    <3> QED BY <3>1, <3>2, <1>2 DEF KernelType, SameWaits
  <2> QED BY <2>1, <2>2
<1>5. HighestReady(e) = HighestReady(r)
  <2> HIDE DEF e
  <2> QED BY <1>4 DEF HighestReady
<1>6. e.cur = Head(e.ready[HighestReady(e)])
  <2> HIDE DEF e
  <2> QED BY <1>4, <1>5
<1> HIDE DEF e
<1>7. Switched(d, e)
  BY <1>1, RescheduleEffect
<1>8. First(e)
  BY <1>6, <1>7, HighestFirst DEF Switched
<1> QED BY <1>1, <1>4, <1>7, <1>8

\* k_preempt() from a thread: need_resched, or a higher list, makes the switch.
LEMMA PreemptFirst ==
  ASSUME NEW d, Lists(d), d.state[d.cur] = "ready", Led(d)
  PROVE  /\ Switched(d, Preempt(d, FALSE)) /\ SameWaits(d, Preempt(d, FALSE))
         /\ First(Preempt(d, FALSE))
<1> DEFINE b == d.need \/ HighestReady(d) > d.prio[d.cur]
           n == [d EXCEPT !.need = b]
           e == Preempt(d, FALSE)
<1>0. d \in KernelType /\ d.cur \in Thread /\ d.need \in BOOLEAN
  BY DEF Lists, KernelType
<1>1. n = [d EXCEPT !.need = @ \/ HighestReady(d) > d.prio[d.cur]]
  OBVIOUS
<1>2. b \in BOOLEAN
  OBVIOUS
<1>3. ~b <=> ~d.need /\ Urgent(d)
  <2>1. Urgent(d) <=> ~(HighestReady(d) > d.prio[d.cur])
    BY HighestUrgent
  <2> QED BY <2>1
<1> HIDE DEF b
<1>4. /\ n.need = b /\ SameWaits(d, n) /\ SameRun(d, n) /\ n \in KernelType
      /\ n.on = d.on
  BY <1>0, <1>2 DEF KernelType, SameWaits, SameRun
<1>5. e = IF n.need THEN Reschedule(n) ELSE n
  BY <1>1 DEF Preempt
<1> HIDE DEF n
<1>6. Lists(n)
  BY <1>4, SameLists DEF SameRun, SameWaits
<1>7. Switched(d, e)
  BY PreemptEffect
<1>8. CASE b
  <2>1. n.state[d.cur] = "ready" /\ e = Reschedule(n)
    BY <1>4, <1>5, <1>8 DEF SameRun
  <2>2. SameWaits(n, Reschedule(n)) /\ First(Reschedule(n))
    BY <2>1, <1>0, <1>6, RescheduleFirst
  <2> HIDE DEF e
  <2> QED BY <2>1, <2>2, <1>4, <1>7 DEF SameWaits, e
<1>9. CASE ~b
  <2>1. First(d)
    BY <1>3, <1>9 DEF Led, First
  <2>2. e = n
    BY <1>4, <1>5, <1>9
  <2> HIDE DEF e
  <2>3. First(e)
    BY <2>1, <2>2, <1>4, SameFirst
  <2> QED BY <2>2, <2>3, <1>4, <1>7 DEF e
<1> QED BY <1>8, <1>9

LEMMA IrqExitFirst ==
  ASSUME NEW d, Lists(d), d.state[d.cur] = "ready", Pending(d)
  PROVE  /\ Switched(d, IrqExit(d)) /\ SameWaits(d, IrqExit(d)) /\ First(IrqExit(d))
<1>0. d.cur \in Thread
  BY DEF Lists, KernelType
<1>1. CASE d.need
  BY <1>0, <1>1, RescheduleFirst DEF IrqExit
<1>2. CASE ~d.need
  <2>1. IrqExit(d) = d
    BY <1>2 DEF IrqExit
  <2>2. First(d)
    BY <1>2 DEF Pending
  <2> QED BY <2>1, <2>2, IrqExitEffect DEF SameWaits
<1> QED BY <1>1, <1>2

\* The list of the running thread is not empty.
LEMMA OwnList ==
  ASSUME NEW d, Lists(d), NEW t \in Thread, d.state[t] = "ready"
  PROVE  /\ d.prio[t] \in Prio /\ d.ready[d.prio[t]] \in Seq(Thread)
         /\ d.ready[d.prio[t]] # <<>>
<1>1. d.prio[t] \in Prio /\ d.ready \in [Prio -> Seq(Thread)]
  BY DEF Lists, KernelType
<1>2. t \in Elems(d.ready[d.prio[t]])
  BY <1>1 DEF Lists, ReadyLists
<1>3. d.ready[d.prio[t]] # <<>>
  BY <1>2 DEF Elems
<1> QED BY <1>1, <1>3

\* A thread that becomes ready goes behind the running one, and asks for a switch
\* when it is more urgent.
LEMMA WakeFirst ==
  ASSUME NEW d, NEW e, Lists(d), d.state[d.cur] = "ready",
         NEW t \in Thread, d.state[t] # "ready", e.prio = d.prio, e.cur = d.cur,
         e.state = [d.state EXCEPT ![t] = "ready"],
         e.ready = [d.ready EXCEPT ![d.prio[t]] = Append(@, t)],
         e.need = (d.need \/ d.prio[t] > d.prio[d.cur])
  PROVE  (Front(d) => Front(e)) /\ (Led(d) => Led(e)) /\ (Pending(d) => Pending(e))
<1>0. /\ d.cur \in Thread /\ d.state \in [Thread -> States] /\ d.prio \in [Thread -> Prio]
      /\ d.ready \in [Prio -> Seq(Thread)] /\ Prio \subseteq Nat
  <2>1. Prio \subseteq Nat
    BY ThreadAssumption DEF Prio
  <2> QED BY <2>1 DEF Lists, KernelType
<1> DEFINE s == d.ready[d.prio[d.cur]]
<1>1. s \in Seq(Thread) /\ s # <<>> /\ d.prio[d.cur] \in Prio
  BY <1>0, OwnList
<1>2. Front(d) => Front(e)
  <2>1. e.ready[d.prio[d.cur]] = IF d.prio[d.cur] = d.prio[t] THEN Append(s, t) ELSE s
    BY <1>0
  <2> HIDE DEF s
  <2>2. Head(Append(s, t)) = Head(s)
    BY <1>1, GrownHead
  <2>3. Head(e.ready[d.prio[d.cur]]) = Head(s)
    BY <2>1, <2>2
  <2> QED BY <2>3 DEF Front, s
<1>3. ASSUME Urgent(d), ~(d.prio[t] > d.prio[d.cur]) PROVE Urgent(e)
  <2> SUFFICES ASSUME NEW u \in Thread, e.state[u] = "ready"
               PROVE  e.prio[u] <= e.prio[e.cur]
    BY DEF Urgent
  <2>1. u = t \/ d.state[u] = "ready"
    BY <1>0
  <2>2. d.prio[t] \in Nat /\ d.prio[d.cur] \in Nat
    BY <1>0
  <2> QED BY <2>1, <2>2, <1>3 DEF Urgent
<1>4. (d.need => e.need) /\ (~e.need => ~(d.prio[t] > d.prio[d.cur]))
  OBVIOUS
<1> QED BY <1>2, <1>3, <1>4 DEF Led, Pending, First
-----------------------------------------------------------------------------
(* The chain of a change of priority. *)

\* Reached from a is a and what is reached from the next link.
LEMMA ReachedStep ==
  ASSUME NEW d, NEW p, NEW a \in Thread, NEW b \in Thread, Inherits(d, a, b, p)
  PROVE  Reached(d, a, p) \subseteq {a} \cup Reached(d, b, p)
<1> DEFINE T == {a} \cup Reached(d, b, p)
<1>1. /\ Reached(d, b, p) \subseteq Thread /\ b \in Reached(d, b, p)
      /\ Closed(d, p, Reached(d, b, p))
  BY ReachedClosed
<1>2. ASSUME NEW x \in T, NEW y \in Thread, Inherits(d, x, y, p) PROVE y \in T
  <2>1. CASE x = a
    <3>1. y = b BY <2>1, <1>2 DEF Inherits
    <3> QED BY <3>1, <1>1
  <2>2. CASE x \in Reached(d, b, p)
    BY <2>2, <1>1, <1>2 DEF Closed
  <2> QED BY <2>1, <2>2
<1>3. T \in SUBSET Thread /\ a \in T
  BY <1>1
<1> HIDE DEF T
<1>4. Closed(d, p, T)
  BY <1>2 DEF Closed
<1>5. Reached(d, a, p) \subseteq T
  BY <1>3, <1>4, ReachedLeast
<1> QED BY <1>5 DEF T

\* It is a chain: of two links, one is reached from the other.
LEMMA ReachedLinear ==
  ASSUME NEW d, NEW p, NEW t \in Thread,
         NEW x \in Reached(d, t, p), NEW y \in Reached(d, t, p)
  PROVE  y \in Reached(d, x, p) \/ x \in Reached(d, y, p)
<1> DEFINE S == {u \in Thread : u \in Reached(d, x, p) \/ x \in Reached(d, u, p)}
<1>0. x \in Thread /\ y \in Thread
  BY ReachedClosed
<1>1. ASSUME NEW a \in S, NEW b \in Thread, Inherits(d, a, b, p) PROVE b \in S
  <2>1. a \in Thread
    OBVIOUS
  <2>2. CASE a \in Reached(d, x, p)
    <3>1. b \in Reached(d, x, p)
      BY <2>2, <1>0, <1>1, ReachedClosed DEF Closed
    <3> QED BY <3>1
  <2>3. CASE x \in Reached(d, a, p)
    <3>1. Reached(d, a, p) \subseteq {a} \cup Reached(d, b, p)
      BY <2>1, <1>1, ReachedStep
    <3>2. CASE x = a
      <4>1. a \in Reached(d, x, p)
        BY <3>2, <1>0, ReachedClosed
      <4> QED BY <4>1, <2>2
    <3>3. CASE x # a
      BY <3>1, <3>3, <2>3
    <3> QED BY <3>2, <3>3
  <2> QED BY <2>2, <2>3
<1>2. S \in SUBSET Thread /\ t \in S
  OBVIOUS
<1> HIDE DEF S
<1>3. Closed(d, p, S)
  BY <1>1 DEF Closed
<1>4. y \in S
  BY <1>2, <1>3, ReachedLeast
<1> QED BY <1>4 DEF S

\* Along it the mutexes waited for rise, so no two links wait for the same one.
LEMMA OneWaiter ==
  ASSUME NEW d, d \in KernelType, Nested(d), Chained(d), NEW p, NEW t \in Thread,
         NEW x \in Reached(d, t, p), NEW y \in Reached(d, t, p),
         NEW q \in Obj, d.state[x] = "blocked", d.on[x] = q,
         d.state[y] = "blocked", d.on[y] = q
  PROVE  x = y
<1>0. /\ x \in Thread /\ y \in Thread /\ q \in Mutex /\ Mutex \subseteq Nat
      /\ None \notin Mutex
  <2>1. x \in Thread /\ y \in Thread
    BY ReachedClosed
  <2> QED BY <2>1, ThreadAssumption DEF Chained
<1>1. ASSUME NEW u \in Thread, d.state[u] = "blocked", d.on[u] = q,
             NEW v \in Reached(d, u, p), d.on[v] = q
      PROVE  v = u
  <2> DEFINE T == {u} \cup {w \in Thread : \E h \in Mutex : d.owner[h] = w /\ h >= q}
  <2>1. ASSUME NEW a \in T, NEW b \in Thread, Inherits(d, a, b, p) PROVE b \in T
    <3>1. /\ a \in Thread /\ d.blockedOn[a] \in Mutex /\ d.on[a] = d.blockedOn[a]
          /\ b = d.owner[d.on[a]]
      BY <2>1 DEF Inherits, KernelType, Chained
    <3>2. CASE a = u
      <4>1. b = d.owner[q] BY <3>1, <3>2, <1>1
      <4>2. q >= q BY <1>0
      <4> QED BY <4>1, <4>2, <1>0
    <3>3. CASE a # u
      <4>1. PICK h \in Mutex : d.owner[h] = a /\ h >= q
        BY <3>3
      <4>2. h < d.on[a]
        BY <3>1, <4>1 DEF Nested
      <4>3. d.on[a] \in Mutex /\ d.on[a] >= q
        <5>1. d.on[a] \in Mutex BY <3>1
        <5>2. \A i, j, l \in Nat : i >= j /\ i < l => l >= j OBVIOUS
        <5> QED BY <5>1, <5>2, <4>1, <4>2, <1>0
      <4> QED BY <3>1, <4>3
    <3> QED BY <3>2, <3>3
  <2>2. T \in SUBSET Thread /\ u \in T
    OBVIOUS
  <2> HIDE DEF T
  <2>3. Closed(d, p, T)
    BY <2>1 DEF Closed
  <2>4. v \in T
    BY <2>2, <2>3, ReachedLeast
  <2>5. ASSUME v # u PROVE FALSE
    <3>1. PICK h \in Mutex : v \in Thread /\ d.owner[h] = v /\ h >= q
      BY <2>4, <2>5 DEF T
    <3>2. h < q
      BY <3>1, <1>0, <1>1 DEF Nested
    <3> QED BY <3>1, <3>2, <1>0
  <2> QED BY <2>5
<1>2. y \in Reached(d, x, p) \/ x \in Reached(d, y, p)
  BY ReachedLinear
<1> QED BY <1>0, <1>1, <1>2
-----------------------------------------------------------------------------
(* Orders. *)

\* An order depends on the elements' own values only.
LEMMA SameOrder ==
  ASSUME NEW s \in Seq(Thread), NEW f, NEW g, \A u \in Elems(s) : f[u] = g[u]
  PROVE  /\ Ordered(s, Fall(f)) => Ordered(s, Fall(g))
         /\ Ordered(s, Rise(f)) => Ordered(s, Rise(g))
<1>1. \A i \in DOMAIN s : s[i] \in Elems(s) /\ s[i] \in Thread
  BY DEF Elems
<1> QED BY <1>1 DEF Ordered, Fall, Rise

LEMMA FallInsert ==
  ASSUME NEW s \in Seq(Thread), NEW t \in Thread, NEW f \in [Thread -> Nat],
         Ordered(s, Fall(f)), NEW over, \A u \in Elems(s) : u \in over <=> f[u] < f[t]
  PROVE  Ordered(InsertBefore(s, t, over), Fall(f))
<1>0. \A u \in Elems(s) : u \in Thread
  BY DEF Elems
<1>1. \A u \in Elems(s) : u \notin over => <<u, t>> \in Fall(f)
  BY <1>0 DEF Fall
<1>2. \A u \in Elems(s) : u \in over => <<t, u>> \in Fall(f)
  BY <1>0 DEF Fall
<1>3. \A u, v \in Elems(s) : u \in over /\ <<u, v>> \in Fall(f) => v \in over
  BY <1>0 DEF Fall
<1> QED BY <1>1, <1>2, <1>3, InsertOrdered

LEMMA RiseInsert ==
  ASSUME NEW s \in Seq(Thread), NEW t \in Thread, NEW f \in [Thread -> Nat],
         Ordered(s, Rise(f)), NEW over, \A u \in Elems(s) : u \in over <=> f[u] > f[t]
  PROVE  Ordered(InsertBefore(s, t, over), Rise(f))
<1>0. \A u \in Elems(s) : u \in Thread
  BY DEF Elems
<1>1. \A u \in Elems(s) : u \notin over => <<u, t>> \in Rise(f)
  BY <1>0 DEF Rise
<1>2. \A u \in Elems(s) : u \in over => <<t, u>> \in Rise(f)
  BY <1>0 DEF Rise
<1>3. \A u, v \in Elems(s) : u \in over /\ <<u, v>> \in Rise(f) => v \in over
  BY <1>0 DEF Rise
<1> QED BY <1>1, <1>2, <1>3, InsertOrdered

\* Types the lemmas on orders need.
LEMMA ListTypes ==
  ASSUME NEW d, Lists(d)
  PROVE  /\ d.prio \in [Thread -> Nat] /\ d.wake \in [Thread -> Nat]
         /\ d.timeouts \in Seq(Thread) /\ d.cur \in Thread
         /\ \A q \in Obj : /\ d.waitq[q] \in Seq(Thread) /\ Inj(d.waitq[q])
                           /\ Elems(d.waitq[q]) = {u \in Thread : d.on[u] = q}
         /\ \A u \in Thread : d.on[u] # None => d.state[u] = "blocked"
         /\ None \notin Obj /\ Mutex \subseteq Obj /\ Prio \subseteq Nat
<1>1. Prio \subseteq Nat /\ None \notin Obj /\ Mutex \subseteq Obj
  BY ThreadAssumption DEF Prio
<1>2. /\ d.prio \in [Thread -> Prio] /\ d.wake \in [Thread -> Nat]
      /\ d.timeouts \in Seq(Thread) /\ d.cur \in Thread
      /\ d.waitq \in [Obj -> Seq(Thread)]
  BY DEF Lists, KernelType
<1>3. d.prio \in [Thread -> Nat]
  BY <1>1, <1>2
<1> QED BY <1>1, <1>2, <1>3 DEF Lists, WaitLists

\* Who waits keeps the place its priority gives it.
LEMMA SetPrioSorted ==
  ASSUME NEW d, Lists(d), Sorted(d), Nested(d), Chained(d),
         NEW t \in Thread, NEW p \in Prio
  PROVE  Sorted(SetPrio(d, t, p))
<1> DEFINE e == SetPrio(d, t, p)
           R == Reached(d, t, p)
<1>1. Raised(d, e, t, p) /\ IF d.prio[t] = p THEN e = d ELSE Spread(d, e, t, p)
  BY SetPrioEffect
<1> HIDE DEF e
<1>2. CASE d.prio[t] = p
  BY <1>1, <1>2 DEF e
<1>3. CASE d.prio[t] # p
  <2>1. /\ \A u \in Thread : e.prio[u] = IF u \in R THEN p ELSE d.prio[u]
        /\ Replaced(d, R, p, e.prio, e.waitq)
        /\ e.timeouts = d.timeouts /\ e.wake = d.wake
    BY <1>1, <1>3 DEF Spread
  <2>2. R \subseteq Thread
    BY ReachedClosed
  <2>3. \A x, y \in R : \A q \in Obj :
          d.state[x] = "blocked" /\ d.on[x] = q /\ d.state[y] = "blocked" /\ d.on[y] = q
            => x = y
    BY OneWaiter DEF Lists
  <2> HIDE DEF R
  <2>4. ASSUME NEW q \in Obj PROVE Ordered(e.waitq[q], Fall(e.prio))
    <3> DEFINE s == d.waitq[q]
    <3>1. /\ s \in Seq(Thread) /\ Ordered(s, Fall(d.prio)) /\ Inj(s)
          /\ \A u \in Elems(s) : u \in Thread /\ d.on[u] = q /\ d.state[u] = "blocked"
      BY ListTypes DEF Sorted
    <3> HIDE DEF s
    <3>2. CASE /\ e.waitq[q] = s
               /\ \A u \in R : ~(d.state[u] = "blocked" /\ d.on[u] = q)
      <4>1. \A u \in Elems(s) : d.prio[u] = e.prio[u]
        BY <3>1, <3>2, <2>1
      <4> QED BY <4>1, <3>1, <3>2, SameOrder
    <3>3. CASE \E u \in R : /\ d.state[u] = "blocked" /\ d.on[u] = q
                            /\ e.waitq[q] = InsertBefore(Without(s, u), u,
                                                {v \in Thread : e.prio[v] < p})
      <4>1. PICK u \in R : /\ d.state[u] = "blocked" /\ d.on[u] = q
                           /\ e.waitq[q] = InsertBefore(Without(s, u), u,
                                               {v \in Thread : e.prio[v] < p})
        BY <3>3
      <4> DEFINE w == Without(s, u)
                 over == {v \in Thread : e.prio[v] < p}
      <4>2. /\ w \in Seq(Thread) /\ Ordered(w, Fall(d.prio))
            /\ Elems(w) = Elems(s) \ {u}
        BY <3>1, WithoutElems, WithoutInj, WithoutOrdered
      <4>3. e.waitq[q] = InsertBefore(w, u, over)
        BY <4>1
      <4> HIDE DEF w
      <4>4. \A v \in Elems(w) : v \in Thread /\ d.prio[v] = e.prio[v]
        BY <4>1, <4>2, <3>1, <2>1, <2>3
      <4>5. Ordered(w, Fall(e.prio))
        BY <4>2, <4>4, SameOrder
      <4>6. e.prio \in [Thread -> Nat] /\ e.prio[u] = p /\ u \in Thread
        BY <4>1, <2>1, <2>2, <1>1, ListTypes DEF Raised
      <4>7. \A v \in Elems(w) : v \in over <=> e.prio[v] < e.prio[u]
        BY <4>4, <4>6
      <4> HIDE DEF over
      <4> QED BY <4>2, <4>3, <4>5, <4>6, <4>7, FallInsert
    <3> QED BY <3>2, <3>3, <2>1 DEF Replaced, s
  <2>5. Ordered(e.timeouts, Rise(e.wake))
    BY <2>1 DEF Sorted
  <2> QED BY <2>4, <2>5 DEF Sorted, e
<1> QED BY <1>2, <1>3

\* What lends t its priority p is passed on along the chain.
LEMMA SetPrioLent ==
  ASSUME NEW d, Lists(d), Owners(d), Chained(d), NEW t \in Thread, NEW p \in Prio,
         NEW X, Lent(d, X),
         \A m \in Mutex, w \in Thread : d.on[w] = m /\ d.owner[m] = t => p >= d.prio[w]
  PROVE  Lent(SetPrio(d, t, p), X \ {t})
<1> DEFINE e == SetPrio(d, t, p)
           R == Reached(d, t, p)
<1>1. Raised(d, e, t, p) /\ IF d.prio[t] = p THEN e = d ELSE Spread(d, e, t, p)
  BY SetPrioEffect
<1>2. /\ p \in Nat /\ None \notin Mutex /\ d.owner \in [Mutex -> Thread \cup {None}]
      /\ \A u \in Thread : d.prio[u] \in Nat
  BY ListTypes DEF Lists, KernelType
<1> HIDE DEF e
<1>3. CASE d.prio[t] = p
  <2>1. e = d BY <1>1, <1>3
  <2>2. Lent(d, X \ {t})
    BY <1>3 DEF Lent
  <2> QED BY <2>1, <2>2 DEF e
<1>4. CASE d.prio[t] # p
  <2>1. \A u \in Thread : e.prio[u] = IF u \in R THEN p ELSE d.prio[u]
    BY <1>1, <1>4 DEF Spread
  <2>2. t \in R /\ Closed(d, p, R)
    BY ReachedClosed
  <2> HIDE DEF R
  <2>3. ASSUME NEW m \in Mutex, NEW w \in Thread, e.on[w] = m,
               e.owner[m] \notin X \ {t}
        PROVE  e.prio[e.owner[m]] >= e.prio[w]
    <3> DEFINE v == d.owner[m]
    <3>1. /\ d.on[w] = m /\ e.owner = d.owner /\ d.state[w] = "blocked"
          /\ v \in Thread /\ d.blockedOn[w] = m
      BY <1>1, <1>2, <2>3, ListTypes DEF Raised, SameThreads, SameMutexes, Owners
    <3>2. e.prio[v] = (IF v \in R THEN p ELSE d.prio[v]) /\ d.prio[v] \in Nat
      BY <2>1, <1>2, <3>1
    <3>3. e.prio[w] = (IF w \in R THEN p ELSE d.prio[w]) /\ d.prio[w] \in Nat
      BY <2>1, <1>2
    <3>4. CASE v = t
      <4>1. p >= d.prio[w] BY <3>1, <3>4
      <4> QED BY <4>1, <3>1, <3>2, <3>3, <3>4, <2>2, <1>2
    <3>5. CASE v # t
      <4>1. d.prio[v] >= d.prio[w]
        BY <2>3, <3>1, <3>5 DEF Lent
      <4>2. v \in R => v = t \/ p > d.prio[v]
        BY <3>1, ReachedOwner DEF R, Lists
      <4>3. w \in R /\ p > d.prio[v] => v \in R
        BY <2>2, <3>1, <1>2 DEF Closed, Inherits
      <4> HIDE DEF v
      <4>4. e.prio[v] >= e.prio[w]
        BY <4>1, <4>2, <4>3, <3>2, <3>3, <3>5, <1>2
      <4> QED BY <4>4, <3>1 DEF v
    <3> QED BY <3>4, <3>5
  <2> QED BY <2>3 DEF Lent, e
<1> QED BY <1>3, <1>4

\* The ceiling is as high as whoever waits for a mutex of the thread.
LEMMA CeilingLends ==
  ASSUME NEW d, Lists(d), Owners(d), Sorted(d), NEW t \in Thread,
         NEW m \in Mutex, NEW w \in Thread, d.on[w] = m, d.owner[m] = t
  PROVE  Ceiling(d, t) >= d.prio[w]
<1> DEFINE s == d.waitq[m]
<1>1. /\ s \in Seq(Thread) /\ w \in Elems(s) /\ Ordered(s, Fall(d.prio))
      /\ d.prio \in [Thread -> Nat]
  BY ListTypes DEF Sorted
<1>2. /\ Ceiling(d, t) \in Nat
      /\ s # <<>> => d.prio[Head(s)] <= Ceiling(d, t)
  <2>1. m \in d.held[t] BY DEF Owners
  <2> QED BY <2>1, CeilingEffect, ListTypes
<1> HIDE DEF s
<1>3. PICK i \in DOMAIN s : s[i] = w
  BY <1>1 DEF Elems
<1>4. s # <<>> /\ Head(s) = s[1] /\ Head(s) \in Thread /\ 1 \in DOMAIN s /\ i \in Nat /\ i >= 1
  BY <1>1, <1>3
<1>5. d.prio[Head(s)] >= d.prio[w]
  <2>1. CASE i = 1
    BY <2>1, <1>1, <1>3, <1>4
  <2>2. CASE i # 1
    <3>1. <<s[1], s[i]>> \in Fall(d.prio)
      BY <2>2, <1>1, <1>4 DEF Ordered
    <3> QED BY <3>1, <1>3, <1>4 DEF Fall
  <2> QED BY <2>1, <2>2
<1>6. d.prio[Head(s)] \in Nat /\ d.prio[w] \in Nat
  BY <1>1, <1>4
<1> QED BY <1>2, <1>4, <1>5, <1>6

\* A change of priorities leaves the running thread where it is: it moves only
\* from the head of one list to the head of another, and the rest go behind.
LEMMA SetPrioFront ==
  ASSUME NEW d, Lists(d), d.state[d.cur] = "ready", Front(d),
         NEW t \in Thread, NEW p \in Prio
  PROVE  Front(SetPrio(d, t, p))
<1> DEFINE e == SetPrio(d, t, p)
           R == Reached(d, t, p)
           c == d.cur
           g == d.prio[c]
           s == d.ready[g]
<1>1. Raised(d, e, t, p) /\ IF d.prio[t] = p THEN e = d ELSE Spread(d, e, t, p)
  BY SetPrioEffect
<1> HIDE DEF e
<1>2. /\ c \in Thread /\ g \in Prio /\ s \in Seq(Thread) /\ s # <<>> /\ Head(s) = c
      /\ d.ready \in [Prio -> Seq(Thread)] /\ d.prio \in [Thread -> Prio]
  <2>1. c \in Thread
    BY ListTypes
  <2>2. d.prio[c] \in Prio /\ d.ready[d.prio[c]] \in Seq(Thread) /\ d.ready[d.prio[c]] # <<>>
    BY <2>1, OwnList
  <2>3. d.ready \in [Prio -> Seq(Thread)] /\ d.prio \in [Thread -> Prio]
    BY DEF Lists, KernelType
  <2> QED BY <2>1, <2>2, <2>3 DEF Front
<1>3. CASE d.prio[t] = p
  BY <1>1, <1>3 DEF e
<1>4. CASE d.prio[t] # p
  <2>1. /\ \A u \in Thread : e.prio[u] = IF u \in R THEN p ELSE d.prio[u]
        /\ Relisted(d, R, p, e.ready) /\ e.cur = c
    BY <1>1, <1>4 DEF Spread, Raised
  <2>2. /\ R \subseteq Thread
        /\ \A u, v \in R : d.state[u] = "ready" /\ d.state[v] = "ready" => u = v
    <3>1. \A u, v \in R : d.state[u] # "blocked" /\ d.state[v] # "blocked" => u = v
      BY ReachedEnd
    <3> QED BY <3>1, ReachedClosed
  <2> HIDE DEF R
  <2>3. CASE e.ready = d.ready /\ \A u \in R : d.state[u] # "ready"
    <3>1. e.prio[c] = g
      BY <2>1, <2>3, <1>2
    <3> QED BY <2>1, <2>3, <3>1, <1>2 DEF Front, e
  <2>4. ASSUME NEW u \in R, d.state[u] = "ready", Rejoined(d, u, p, e.ready)
        PROVE  Front(e)
    <3> DEFINE r == [d.ready EXCEPT ![d.prio[u]] = Without(@, u)]
               atHead == Head(d.ready[d.prio[u]]) = u /\ u = d.cur
    <3>a. e.ready = [r EXCEPT ![p] = IF atHead THEN <<u>> \o @ ELSE Append(@, u)]
      BY <2>4 DEF Rejoined
    <3>b. r = [d.ready EXCEPT ![d.prio[u]] = Without(@, u)]
      OBVIOUS
    <3>c. atHead <=> Head(d.ready[d.prio[u]]) = u /\ u = c
      OBVIOUS
    <3> HIDE DEF r, atHead
    <3>0. u \in Thread /\ d.prio[u] \in Prio
      BY <2>2, <1>2
    <3>1. r \in [Prio -> Seq(Thread)]
      <4>1. Without(d.ready[d.prio[u]], u) \in Seq(Thread)
        BY <3>0, <1>2, WithoutElems
      <4> QED BY <4>1, <3>b, <1>2
    <3>2. CASE u = c
      <4>1. e.prio[c] = p
        BY <2>1, <3>0, <3>2, <2>4
      <4>2. e.ready[p] = <<c>> \o r[p]
        <5>1. atHead BY <3>c, <3>2, <1>2
        <5>2. e.ready = [r EXCEPT ![p] = <<u>> \o @] BY <5>1, <3>a
        <5> QED BY <5>2, <3>1, <3>2
      <4>3. r[p] \in Seq(Thread)
        BY <3>1
      <4> HIDE DEF c
      <4>4. Head(<<c>> \o r[p]) = c
        BY <4>3, <1>2, GrownHead
      <4> QED BY <4>1, <4>2, <4>4, <2>1 DEF Front
    <3>3. CASE u # c
      <4>1. e.prio[c] = g
        BY <2>1, <2>2, <2>4, <3>3, <1>2 DEF c
      <4>2. e.ready = [r EXCEPT ![p] = Append(@, u)]
        BY <3>a, <3>c, <3>3
      <4>3. r[g] = IF g = d.prio[u] THEN Without(s, u) ELSE s
        BY <3>b, <1>2, <3>0
      <4>4. e.ready[g] = IF g = p THEN Append(r[g], u) ELSE r[g]
        BY <4>2, <3>1, <1>2
      <4> HIDE DEF s, c, g
      <4>5. Without(s, u) # <<>> /\ Head(Without(s, u)) = Head(s)
        BY <1>2, <3>3, WithoutHead
      <4>6. r[g] # <<>> /\ Head(r[g]) = c /\ r[g] \in Seq(Thread)
        BY <4>3, <4>5, <3>1, <1>2
      <4>7. Head(Append(r[g], u)) = Head(r[g])
        BY <4>6, <3>0, GrownHead
      <4>8. Head(e.ready[g]) = c
        BY <4>4, <4>6, <4>7
      <4> QED BY <4>1, <4>8, <2>1 DEF Front
    <3> QED BY <3>2, <3>3
  <2>5. Relisted(d, R, p, e.ready)
    BY <2>1
  <2> QED BY <2>3, <2>4, <2>5 DEF Relisted, e
<1> QED BY <1>3, <1>4

LEMMA SetPrioLed ==
  ASSUME NEW d, Lists(d), d.state[d.cur] = "ready", Led(d),
         NEW t \in Thread, NEW p \in Prio
  PROVE  Led(SetPrio(d, t, p))
<1> DEFINE e == SetPrio(d, t, p)
<1>1. Front(d) => Front(e)
  BY SetPrioFront
<1>2. IF d.prio[t] = p THEN e = d ELSE Spread(d, e, t, p)
  BY SetPrioEffect
<1> HIDE DEF e
<1>3. d.need => e.need
  BY <1>2 DEF Spread
<1> QED BY <1>1, <1>3 DEF Led, e

\* A thread that waits, or is not the running one, may give back a priority
\* without another becoming the first.
LEMMA LowerFirst ==
  ASSUME NEW d, Lists(d), Chained(d), Lent(d, {}), d.state[d.cur] = "ready", First(d),
         NEW t \in Thread, t # d.cur, NEW p \in Prio, p <= d.prio[t]
  PROVE  First(SetPrio(d, t, p))
<1> DEFINE e == SetPrio(d, t, p)
           R == Reached(d, t, p)
<1>1. Raised(d, e, t, p) /\ IF d.prio[t] = p THEN e = d ELSE Spread(d, e, t, p)
  BY SetPrioEffect
<1>2. Front(e)
  BY SetPrioFront DEF First
<1> HIDE DEF e
<1>0. /\ d.prio \in [Thread -> Nat] /\ p \in Nat /\ None \notin Mutex
      /\ d.blockedOn \in [Thread -> Mutex \cup {None}] /\ d.cur \in Thread
  BY ListTypes DEF Lists, KernelType
<1>3. CASE d.prio[t] = p
  BY <1>1, <1>3 DEF e
<1>4. CASE d.prio[t] # p
  <2>1. ASSUME NEW b \in Thread, Inherits(d, t, b, p) PROVE FALSE
    <3>1. /\ d.on[t] \in Mutex /\ b = d.owner[d.on[t]] /\ p > d.prio[b]
      BY <2>1, <1>0 DEF Inherits, Chained
    <3>2. d.prio[b] >= d.prio[t]
      BY <3>1 DEF Lent
    <3> QED BY <3>1, <3>2, <1>0
  <2>2. Closed(d, p, {t})
    BY <2>1 DEF Closed
  <2>3. R \subseteq {t}
    BY <2>2, ReachedLeast
  <2> HIDE DEF R
  <2>4. \A u \in Thread : e.prio[u] <= d.prio[u] /\ (u # t => e.prio[u] = d.prio[u])
    <3>1. \A u \in Thread : e.prio[u] = IF u \in R THEN p ELSE d.prio[u]
      BY <1>1, <1>4 DEF Spread, R
    <3> QED BY <3>1, <2>3, <1>0
  <2>5. e.state = d.state /\ e.cur = d.cur /\ e.prio[d.cur] = d.prio[d.cur]
    BY <1>0, <1>1, <2>4 DEF Raised, SameThreads
  <2>6. ASSUME NEW u \in Thread, e.state[u] = "ready" PROVE e.prio[u] <= e.prio[e.cur]
    <3>1. d.prio[u] <= d.prio[d.cur]
      BY <2>5, <2>6 DEF First, Urgent
    <3>2. u # t => e.prio[u] = d.prio[u]
      BY <2>4
    <3>3. u = t => e.prio[u] = p
      BY <1>1 DEF Raised
    <3> QED BY <3>1, <3>2, <3>3, <2>5, <1>0
  <2>7. Urgent(e)
    BY <2>6 DEF Urgent
  <2> QED BY <1>2, <2>7 DEF First, e
<1> QED BY <1>3, <1>4

\* k_block() puts the running thread in its place, and the first of the rest runs.
LEMMA BlockOrder ==
  ASSUME NEW d, Lists(d), Sorted(d), d.state[d.cur] = "ready",
         d.cur # Idle, d.state[Idle] = "ready",
         NEW q \in Obj \cup {None}, NEW ms \in Nat \cup {None}
  PROVE  Sorted(Block(d, q, ms)) /\ First(Block(d, q, ms))
<1> DEFINE t  == d.cur
           k1 == Leave(d, t, "blocked", "ok")
           k2 == IF q # None THEN WaitqAdd(k1, q, t) ELSE k1
           k3 == IF ms # None THEN TimeoutAdd(k2, t, ms) ELSE k2
           e  == Reschedule(k3)
<1>0. /\ d \in KernelType /\ t \in Thread /\ Idle \in Thread
      /\ d.waitq \in [Obj -> Seq(Thread)] /\ d.prio \in [Thread -> Nat]
      /\ d.wake \in [Thread -> Nat] /\ d.timeouts \in Seq(Thread)
      /\ t \notin Elems(d.timeouts) /\ d.state \in [Thread -> States]
  BY ThreadAssumption, ListTypes, ReadyWaitsNot DEF Lists, KernelType
<1>1. Block(d, q, ms) = e
  BY DEF Block, Leave
<1>2. Waiting(d, k3, t, q)
  <2>1. k3 = Queue(d, t, q, ms)
    BY DEF Queue
  <2>2. Waiting(d, Queue(d, t, q, ms), t, q)
    BY <1>0, QueueEffect
  <2> HIDE DEF k3
  <2> QED BY <2>1, <2>2
<1>3. /\ SameWaits(d, k1) /\ k1.prio = d.prio
      /\ "on" \in DOMAIN k1 /\ "waitq" \in DOMAIN k1 /\ "timeouts" \in DOMAIN k1
      /\ "wake" \in DOMAIN k1
  BY <1>0 DEF Leave, ReadyRemove, SameWaits, KernelType
<1> HIDE DEF k1, t
<1>4. /\ \A o \in Obj : Ordered(k2.waitq[o], Fall(d.prio))
      /\ k2.timeouts = d.timeouts /\ k2.wake = d.wake
      /\ "timeouts" \in DOMAIN k2 /\ "wake" \in DOMAIN k2
  <2>1. CASE q # None
    <3> DEFINE over == {u \in Thread : k1.prio[u] < k1.prio[t]}
               w == InsertBefore(d.waitq[q], t, over)
    <3>0. q \in Obj BY <2>1
    <3>1. k2 = [k1 EXCEPT !.waitq = [d.waitq EXCEPT ![q] = w], !.on[t] = q]
      BY <2>1, <1>3 DEF WaitqAdd, SameWaits
    <3>2. Ordered(w, Fall(d.prio))
      <4>1. d.waitq[q] \in Seq(Thread) /\ Ordered(d.waitq[q], Fall(d.prio))
        BY <3>0, <1>0 DEF Sorted
      <4>2. \A u \in Elems(d.waitq[q]) : u \in over <=> d.prio[u] < d.prio[t]
        BY <4>1, <1>3 DEF Elems
      <4> HIDE DEF over
      <4> QED BY <4>1, <4>2, <1>0, FallInsert
    <3> HIDE DEF w, k2
    <3>3. k2.waitq = [d.waitq EXCEPT ![q] = w] /\ k2.timeouts = k1.timeouts /\ k2.wake = k1.wake
          /\ "timeouts" \in DOMAIN k2 /\ "wake" \in DOMAIN k2
      BY <3>1, <1>3
    <3>4. \A o \in Obj : k2.waitq[o] = IF o = q THEN w ELSE d.waitq[o]
      BY <3>0, <3>3, <1>0
    <3> QED BY <3>2, <3>3, <3>4, <1>3 DEF Sorted, SameWaits
  <2>2. CASE q = None
    <3>1. k2 = k1 BY <2>2
    <3> HIDE DEF k2
    <3> QED BY <3>1, <1>3 DEF SameWaits, Sorted
  <2> QED BY <2>1, <2>2
<1>5. k2.waitq = k3.waitq /\ Ordered(k3.timeouts, Rise(k3.wake))
  <2>1. CASE ms # None
    <3> DEFINE v == IF ms = 0 THEN 1 ELSE ms
               over == {u \in Thread : d.wake[u] > v}
               w == InsertBefore(d.timeouts, t, over)
               f == [d.wake EXCEPT ![t] = v]
    <3>0. v \in Nat /\ f \in [Thread -> Nat] /\ f[t] = v
      BY <2>1, <1>0
    <3> HIDE DEF k2
    <3>1. k3 = [k2 EXCEPT !.timeouts = w, !.wake = f]
      BY <2>1, <1>4 DEF TimeoutAdd
    <3>2. Ordered(w, Rise(f))
      <4>1. \A u \in Elems(d.timeouts) : u \in Thread /\ u # t
        BY <1>0 DEF Elems
      <4> HIDE DEF v
      <4>2. \A u \in Elems(d.timeouts) : f[u] = d.wake[u]
        BY <4>1, <1>0
      <4>3. \A u \in Elems(d.timeouts) : u \in over <=> f[u] > f[t]
        BY <4>1, <4>2, <3>0
      <4> HIDE DEF over, f
      <4>4. Ordered(d.timeouts, Rise(f))
        BY <4>2, <1>0, SameOrder DEF Sorted
      <4> QED BY <4>3, <4>4, <1>0, <3>0, RiseInsert
    <3> HIDE DEF w, f, k3
    <3>3. k3.timeouts = w /\ k3.wake = f /\ k3.waitq = k2.waitq
      BY <3>1, <1>4
    <3> QED BY <3>2, <3>3
  <2>2. CASE ms = None
    <3>1. k3 = k2 BY <2>2
    <3> HIDE DEF k2, k3
    <3> QED BY <3>1, <1>4 DEF Sorted
  <2> QED BY <2>1, <2>2
<1> HIDE DEF k2, k3
<1>6. Lists(k3) /\ k3.prio = d.prio /\ k3.state[Idle] = "ready"
  BY <1>0, <1>2 DEF Waiting, t
<1>7. Switched(k3, e) /\ SameWaits(k3, e) /\ First(e)
  BY <1>0, <1>6, RescheduleFirst
<1> HIDE DEF e
<1>8. Sorted(e)
  BY <1>4, <1>5, <1>6, <1>7 DEF Sorted, SameWaits, Switched
<1> QED BY <1>1, <1>7, <1>8
-----------------------------------------------------------------------------
(* The order of the lists and of the mutexes as one. *)

Order(d, X) == Sorted(d) /\ Lent(d, X) /\ Nested(d) /\ Chained(d) /\ OwnersLive(d)

LEMMA SameChains ==
  ASSUME NEW d, NEW e, e.on = d.on, e.owner = d.owner, e.state = d.state,
         e.blockedOn = d.blockedOn, e.held = d.held
  PROVE  /\ Nested(d) => Nested(e)
         /\ Chained(d) => Chained(e)
         /\ OwnersLive(d) => OwnersLive(e)
BY DEF Nested, Chained, OwnersLive

\* It depends on the lists of waiting threads and on their own fields only.
LEMMA SameOrders ==
  ASSUME NEW d, NEW e, NEW X, Order(d, X), SameWaits(d, e), e.on = d.on,
         e.owner = d.owner, e.state = d.state, e.blockedOn = d.blockedOn,
         e.held = d.held, e.prio = d.prio
  PROVE  Order(e, X)
<1>1. Sorted(e) /\ Lent(e, X)
  BY DEF Order, Sorted, Lent, SameWaits
<1> QED BY <1>1, SameChains DEF Order

LEMMA SwitchedOrder ==
  ASSUME NEW d, NEW e, NEW X, Order(d, X), Switched(d, e), SameWaits(d, e)
  PROVE  Order(e, X)
BY SameOrders DEF Switched, SameThreads, SameMutexes

\* A thread that gets what its waiters lend it needs no exception.
LEMMA LendOrder ==
  ASSUME NEW d, Lists(d), Owners(d), NEW X, Order(d, X),
         NEW t \in Thread, NEW p \in Prio,
         \A m \in Mutex, w \in Thread : d.on[w] = m /\ d.owner[m] = t => p >= d.prio[w]
  PROVE  Order(SetPrio(d, t, p), X \ {t})
<1> DEFINE e == SetPrio(d, t, p)
<1>1. Raised(d, e, t, p)
  BY SetPrioEffect
<1>2. Sorted(e) /\ Lent(e, X \ {t})
  BY SetPrioSorted, SetPrioLent DEF Order
<1> HIDE DEF e
<1>3. Nested(e) /\ Chained(e) /\ OwnersLive(e)
  BY <1>1, SameChains DEF Order, Raised, SameThreads, SameMutexes
<1> QED BY <1>2, <1>3 DEF Order, e

LEMMA RestoreOrder ==
  ASSUME NEW d, Lists(d), Owners(d), NEW X, Order(d, X), NEW t \in Thread
  PROVE  Order(SetPrio(d, t, Ceiling(d, t)), X \ {t})
<1> DEFINE p == Ceiling(d, t)
<1>1. p \in Prio
  BY CeilingEffect
<1>2. \A m \in Mutex, w \in Thread : d.on[w] = m /\ d.owner[m] = t => p >= d.prio[w]
  BY CeilingLends DEF Order
<1> HIDE DEF p
<1>3. Order(SetPrio(d, t, p), X \ {t})
  BY <1>1, <1>2, LendOrder
<1> QED BY <1>3 DEF p

\* The lists that a woken thread leaves keep their order.
LEMMA RequeuedSorted ==
  ASSUME NEW d, NEW e, Lists(d), Sorted(d), NEW t \in Thread, Requeued(d, e, t),
         e.prio = d.prio
  PROVE  Sorted(e)
<1>1. ASSUME NEW q \in Obj PROVE Ordered(e.waitq[q], Fall(e.prio))
  <2>1. d.waitq[q] \in Seq(Thread) /\ Ordered(d.waitq[q], Fall(d.prio))
    BY ListTypes DEF Sorted
  <2>2. Ordered(Without(d.waitq[q], t), Fall(d.prio))
    BY <2>1, WithoutOrdered
  <2> QED BY <2>1, <2>2 DEF Requeued
<1>2. Ordered(e.timeouts, Rise(e.wake))
  <2> DEFINE s == d.timeouts
             w == Without(s, t)
  <2>1. s \in Seq(Thread) /\ Inj(s) /\ Ordered(s, Rise(d.wake))
    BY ListTypes DEF Lists, TimeoutList, Sorted
  <2> HIDE DEF s
  <2>2. w \in Seq(Thread) /\ Elems(w) = Elems(s) \ {t} /\ Ordered(w, Rise(d.wake))
    BY <2>1, WithoutElems, WithoutInj, WithoutOrdered
  <2>3. e.timeouts = w
    BY DEF Requeued, s
  <2> HIDE DEF w
  <2>4. \A u \in Elems(w) : d.wake[u] = e.wake[u]
    <3>1. \A u \in Elems(w) : u \in Thread \ {t}
      BY <2>2 DEF Elems
    <3> QED BY <3>1 DEF Requeued
  <2>5. Ordered(w, Rise(e.wake))
    BY <2>2, <2>4, SameOrder
  <2> QED BY <2>3, <2>5
<1> QED BY <1>1, <1>2 DEF Sorted

LEMMA WakeOrder ==
  ASSUME NEW d, Lists(d), NEW X, Order(d, X), NEW t \in Thread, d.state[t] = "blocked",
         NEW result \in Results
  PROVE  Order(Wake(d, t, result), X)
<1> DEFINE e == Wake(d, t, result)
<1>1. WokenUp(d, e, t, result) /\ Requeued(d, e, t)
  BY WakeEffect
<1> HIDE DEF e
<1>2. d.on \in [Thread -> Obj \cup {None}] /\ d.state \in [Thread -> States]
      /\ None \notin Mutex
  BY ThreadAssumption DEF Lists, KernelType
<1>3. Sorted(e)
  BY <1>1, RequeuedSorted DEF WokenUp, Order
<1>4. /\ \A u \in Thread : e.on[u] # None => u # t /\ e.on[u] = d.on[u]
      /\ \A u \in Thread : e.on[u] = None \/ e.on[u] = d.on[u]
      /\ \A u \in Thread : e.state[u] = IF u = t THEN "ready" ELSE d.state[u]
      /\ e.prio = d.prio /\ e.owner = d.owner /\ e.held = d.held
      /\ e.blockedOn = d.blockedOn
  BY <1>1, <1>2 DEF WokenUp, SameMutexes
<1>5. Lent(e, X)
  BY <1>2, <1>4 DEF Order, Lent
<1>6. Nested(e)
  BY <1>2, <1>4 DEF Order, Nested
<1>7. Chained(e)
  <2> SUFFICES ASSUME NEW u \in Thread
               PROVE  /\ e.on[u] \in Mutex \cup {None}
                      /\ e.state[u] = "blocked" /\ e.blockedOn[u] # None
                           => e.on[u] = e.blockedOn[u]
    BY DEF Chained
  <2>1. u # t => e.on[u] = d.on[u]
    BY <1>1, <1>2 DEF WokenUp
  <2> QED BY <2>1, <1>4 DEF Order, Chained
<1>8. OwnersLive(e)
  BY <1>4 DEF Order, OwnersLive
<1> QED BY <1>3, <1>5, <1>6, <1>7, <1>8 DEF Order, e
-----------------------------------------------------------------------------
(* One lemma per action. *)

\* What every call leaves, and what the interrupt handler leaves for its exit.
Settled(d, c) == Order(d, {}) /\ Noted(d, c) /\ First(d)

\* The inductive invariant.
SInv ==
  /\ IInv
  /\ Order(k, {}) /\ Noted(k, call) /\ Pending(k)
  /\ irq = 0 => First(k)

LEMMA InitSettled == Init => Settled(k, call)
<1> SUFFICES ASSUME Init PROVE Settled(k, call)
  OBVIOUS
<1>1. /\ Boot \in Thread \ {Idle} /\ Idle \in Thread /\ BasePrio \in [Thread -> Prio]
      /\ BasePrio[Idle] = 0 /\ BasePrio[Boot] # 0 /\ None \notin Obj
      /\ None \notin Thread /\ Mutex \subseteq Obj /\ Prio \subseteq Nat
  BY ThreadAssumption, KernelAssumption DEF Prio
<1>2. /\ k.state = [t \in Thread |-> IF t \in {Boot, Idle} THEN "ready" ELSE "none"]
      /\ k.prio = BasePrio
      /\ k.ready = [p \in Prio |-> IF p = BasePrio[Boot] THEN <<Boot>>
                                   ELSE IF p = 0 THEN <<Idle>> ELSE <<>>]
      /\ k.waitq = [q \in Obj |-> <<>>] /\ k.on = [t \in Thread |-> None]
      /\ k.timeouts = <<>> /\ k.blockedOn = [t \in Thread |-> None]
      /\ k.held = [t \in Thread |-> {}] /\ k.cur = Boot
  BY DEF Init
<1>3. Sorted(k)
  BY <1>2 DEF Sorted, Ordered
<1>4. Lent(k, {}) /\ Nested(k) /\ Chained(k) /\ OwnersLive(k) /\ Noted(k, call)
  BY <1>1, <1>2 DEF Lent, Nested, Chained, OwnersLive, Noted
<1>5. Front(k)
  BY <1>1, <1>2 DEF Front
<1>6. Urgent(k)
  <2>1. BasePrio[Boot] \in Nat BY <1>1
  <2> QED BY <2>1, <1>1, <1>2 DEF Urgent
<1> QED BY <1>3, <1>4, <1>5, <1>6 DEF Settled, Order, First

\* A free mutex has no waiters, and its new owner runs.
LEMMA LockFreeSettled ==
  ASSUME IInv, Settled(k, call), NEW t \in Threads, NEW m \in Mutex,
         Free(t), LockFree(t, m)
  PROVE  Settled(k', call')
<1>0. /\ Good(k, call, {}) /\ t \in Thread /\ k.cur = t /\ k.owner[m] = None
      /\ call' = call /\ k' = Own(k, t, m) /\ k.state[t] = "ready" /\ k.on[t] = None
  BY GoodTypes DEF IInv, Threads, Free, LockFree
<1>1. /\ k.owner \in [Mutex -> Thread \cup {None}] /\ k.held \in [Thread -> SUBSET Mutex]
      /\ k \in KernelType /\ None \notin Mutex
      /\ \A w \in Thread : k.on[w] # m
  BY <1>0, GoodTypes DEF Good, Owners
<1> DEFINE e == Own(k, t, m)
<1>2. /\ SameRun(k, e) /\ SameWaits(k, e) /\ e.on = k.on /\ e.blockedOn = k.blockedOn
      /\ e.owner = [k.owner EXCEPT ![m] = t] /\ e.held = [k.held EXCEPT ![t] = @ \cup {m}]
  BY <1>0, <1>1 DEF Own, KernelType, SameRun, SameWaits
<1> HIDE DEF e
<1>3. /\ \A n \in Mutex : n # m => e.owner[n] = k.owner[n]
      /\ e.owner[m] = t /\ e.prio = k.prio /\ e.state = k.state
      /\ \A u \in Thread : u # t => e.held[u] = k.held[u]
  BY <1>0, <1>1, <1>2 DEF SameRun
<1>4. Sorted(e) /\ Chained(e) /\ Noted(e, call)
  BY <1>2, <1>3 DEF Settled, Order, Sorted, Chained, Noted, SameWaits
<1>5. Lent(e, {})
  BY <1>1, <1>2, <1>3 DEF Settled, Order, Lent
<1>6. Nested(e)
  BY <1>0, <1>1, <1>2, <1>3 DEF Settled, Order, Nested
<1>7. OwnersLive(e)
  BY <1>0, <1>3 DEF Settled, Order, OwnersLive
<1>8. First(e)
  BY <1>2, SameFirst DEF Settled
<1> QED BY <1>0, <1>4, <1>5, <1>6, <1>7, <1>8 DEF Settled, Order, e

\* Nothing that an order looks at changes.
LEMMA SameSettled ==
  ASSUME NEW d, NEW e, NEW c, Settled(d, c), SameRun(d, e), SameWaits(d, e),
         e.on = d.on, e.owner = d.owner, e.blockedOn = d.blockedOn, e.held = d.held
  PROVE  Settled(e, c)
<1>1. Order(e, {})
  BY SameOrders DEF Settled, SameRun
<1>2. First(e)
  BY SameFirst DEF Settled
<1> QED BY <1>1, <1>2 DEF Settled, Noted

LEMMA LockAgainSettled ==
  ASSUME IInv, Settled(k, call), NEW t \in Threads, NEW m \in Mutex, LockAgain(t, m)
  PROVE  Settled(k', call')
<1> DEFINE e == [k EXCEPT !.depth[m] = @ + 1]
<1>0. k \in KernelType /\ k' = e /\ call' = call
  BY GoodTypes DEF IInv, LockAgain
<1>1. /\ SameRun(k, e) /\ SameWaits(k, e) /\ e.on = k.on /\ e.owner = k.owner
      /\ e.blockedOn = k.blockedOn /\ e.held = k.held
  BY <1>0 DEF KernelType, SameRun, SameWaits
<1> HIDE DEF e
<1>2. Settled(e, call)
  BY <1>1, SameSettled
<1> QED BY <1>0, <1>2

\* A thread that starts to wait, for a mutex above all it owns and whose owner is as
\* urgent, or for none.
LEMMA WaitingOrder ==
  ASSUME NEW d, NEW e, NEW c, Good(d, c, {}), Order(d, {}),
         NEW q \in Mutex \cup {None}, d.blockedOn[d.cur] = q, Waiting(d, e, d.cur, q),
         Sorted(e), d.held[d.cur] # {} => d.state[d.cur] \in {"ready", "blocked"},
         q # None => /\ d.prio[d.owner[q]] >= d.prio[d.cur]
                     /\ \A h \in Mutex : d.owner[h] = d.cur => h < q
  PROVE  Order(e, {})
<1> DEFINE t == d.cur
<1>0. /\ t \in Thread /\ d.on \in [Thread -> Obj \cup {None}]
      /\ d.state \in [Thread -> States] /\ None \notin Mutex
  BY GoodTypes
<1>1. /\ e.prio = d.prio /\ e.owner = d.owner /\ e.held = d.held
      /\ e.blockedOn = d.blockedOn
      /\ \A u \in Thread : e.on[u] = IF u = t THEN q ELSE d.on[u]
      /\ \A u \in Thread : e.state[u] = IF u = t THEN "blocked" ELSE d.state[u]
  BY <1>0 DEF Waiting, SameMutexes
<1> HIDE DEF t
<1>2. Lent(e, {})
  BY <1>0, <1>1 DEF Order, Lent, t
<1>3. Nested(e)
  BY <1>0, <1>1 DEF Order, Nested, t
<1>4. Chained(e)
  BY <1>0, <1>1 DEF Order, Chained, t
<1>5. OwnersLive(e)
  BY <1>0, <1>1 DEF Order, OwnersLive, t
<1> QED BY <1>2, <1>3, <1>4, <1>5 DEF Order

LEMMA SleepSettled ==
  ASSUME IInv, Settled(k, call), NEW t \in Threads, NEW ms \in Waits \ {None}, Sleep(t, ms)
  PROVE  Settled(k', call')
<1> DEFINE e == Block(k, None, ms)
<1>0. /\ Good(k, call, {}) /\ Lists(k) /\ t \in Thread /\ t # Idle /\ k.cur = t
      /\ call[t] = None /\ ms \in Nat \cup {None} /\ k' = e /\ call' = call
      /\ k.state[k.cur] = "ready" /\ k.state[Idle] = "ready"
  BY KernelAssumption DEF IInv, Threads, Free, Sleep, Good, Alive
<1>1. k.blockedOn[t] = None
  BY <1>0 DEF Settled, Noted
<1>2. Waiting(k, e, k.cur, None)
  BY <1>0, BlockEffect
<1>3. Sorted(e) /\ First(e)
  BY <1>0, BlockOrder DEF Settled, Order
<1> HIDE DEF e
<1>4. Order(e, {})
  BY <1>0, <1>1, <1>2, <1>3, WaitingOrder DEF Settled
<1>5. Noted(e, call)
  BY <1>2 DEF Settled, Noted, Waiting, SameMutexes
<1> QED BY <1>0, <1>3, <1>4, <1>5 DEF Settled

\* What LockBlock does before it waits: the owner gets the caller's priority.
LEMMA LendSettled ==
  ASSUME NEW d, Lists(d), Owners(d), Order(d, {}), NEW t \in Thread, d.state[t] = "ready",
         NEW o \in Thread, d.prio[t] > d.prio[o]
  PROVE  LET e == SetPrio(d, o, d.prio[t])
         IN  /\ Order(e, {}) /\ Raised(d, e, o, d.prio[t]) /\ e.prio[o] >= e.prio[t]
<1> DEFINE p == d.prio[t]
           e == SetPrio(d, o, p)
<1>0. /\ p \in Prio /\ Prio \subseteq Nat /\ d.prio \in [Thread -> Nat]
      /\ d \in KernelType
  BY ListTypes DEF Lists, KernelType
<1>1. \A m \in Mutex, w \in Thread : d.on[w] = m /\ d.owner[m] = o => p >= d.prio[w]
  <2> SUFFICES ASSUME NEW m \in Mutex, NEW w \in Thread, d.on[w] = m, d.owner[m] = o
               PROVE  p >= d.prio[w]
    OBVIOUS
  <2>1. d.prio[o] >= d.prio[w]
    BY DEF Order, Lent
  <2>2. p \in Nat /\ d.prio[o] \in Nat /\ d.prio[w] \in Nat
    BY <1>0
  <2> QED BY <2>1, <2>2
<1>2. Raised(d, e, o, p) /\ IF d.prio[o] = p THEN e = d ELSE Spread(d, e, o, p)
  BY <1>0, SetPrioEffect
<1>3. p # d.prio[o]
  BY <1>0
<1>a. p = d.prio[t]
  OBVIOUS
<1> HIDE DEF p, e
<1>4. Order(e, {})
  <2>1. Order(SetPrio(d, o, p), {} \ {o})
    BY <1>0, <1>1, LendOrder
  <2>2. {} \ {o} = {}
    OBVIOUS
  <2> QED BY <2>1, <2>2 DEF e
<1>5. e.prio[t] = p
  <2>1. e.prio[t] = IF t \in Reached(d, o, p) THEN p ELSE d.prio[t]
    BY <1>2, <1>3 DEF Spread
  <2> QED BY <2>1, <1>a
<1>6. e.prio[o] = p /\ p >= p
  BY <1>0, <1>2 DEF Raised
<1> QED BY <1>2, <1>4, <1>5, <1>6 DEF e, p

\* mutex_lock of a taken mutex: the owner is as urgent as the caller from then on.
LEMMA LockBlockSettled ==
  ASSUME IInv, Settled(k, call), NEW t \in Threads, NEW m \in Mutex, NEW ms \in Waits,
         Free(t), \A h \in k.held[t] : h <= m, LockBlock(t, m, ms)
  PROVE  Settled(k', call')
<1> DEFINE k1 == [k EXCEPT !.blockedOn[k.cur] = m]
           o  == k.owner[m]
           k2 == IF k.prio[t] > k.prio[o] THEN SetPrio(k1, o, k.prio[t]) ELSE k1
           e  == Block(k2, m, ms)
<1>0. /\ Good(k, call, {}) /\ t \in Thread /\ t # Idle /\ k.cur = t /\ call[t] = None
      /\ k.owner[m] \notin {None, t} /\ m \in Obj \cup {None} /\ ms \in Nat \cup {None}
      /\ call' = [call EXCEPT ![t] = m] /\ k.state[t] = "ready" /\ k \in KernelType
      /\ m # None
  BY KernelAssumption, ThreadAssumption, GoodTypes DEF IInv, Threads, Free, LockBlock
<1>1. k' = e
  BY <1>0 DEF LockBlock
<1>2. o \in Thread /\ k.prio[t] \in Nat /\ k.prio[o] \in Nat
  <2>1. o \in Thread
    BY <1>0, GoodTypes
  <2> QED BY <2>1, <1>0, ListTypes DEF Good
<1>3. Good(k1, call, {}) /\ k1.blockedOn[t] = m
  BY <1>0, BlockedOnGood
<1>4. /\ SameRun(k, k1) /\ SameWaits(k, k1) /\ k1.on = k.on /\ k1.owner = k.owner
      /\ k1.held = k.held /\ k1.blockedOn = [k.blockedOn EXCEPT ![t] = m]
  BY <1>0 DEF KernelType, SameRun, SameWaits
<1> HIDE DEF k1
<1>5. Order(k1, {})
  <2>1. \A u \in Thread : u # t => k1.blockedOn[u] = k.blockedOn[u]
    BY <1>4
  <2>2. Chained(k1)
    BY <2>1, <1>0, <1>4 DEF Settled, Order, Chained, SameRun
  <2> QED BY <2>2, <1>4 DEF Settled, Order, Sorted, Lent, Nested, OwnersLive,
                             SameRun, SameWaits
<1> HIDE DEF o
<1>6. /\ Order(k2, {}) /\ Lists(k2) /\ Owners(k2) /\ k2.prio[o] >= k2.prio[t]
      /\ k2.state = k.state /\ k2.cur = t /\ k2.owner = k.owner /\ k2.held = k.held
      /\ k2.blockedOn = k1.blockedOn /\ Good(k2, call, {})
  <2>1. CASE k.prio[t] > k.prio[o]
    <3> DEFINE d == SetPrio(k1, o, k1.prio[t])
    <3>1. k2 = d
      BY <2>1, <1>4 DEF SameRun
    <3>2. Lists(k1) /\ Owners(k1) /\ k1.state[t] = "ready" /\ k1.prio[t] > k1.prio[o]
      BY <2>1, <1>0, <1>3, <1>4 DEF Good, SameRun
    <3>3. Order(d, {}) /\ Raised(k1, d, o, k1.prio[t]) /\ d.prio[o] >= d.prio[t]
      BY <3>2, <1>2, <1>5, LendSettled, <1>0
    <3> HIDE DEF k2, d
    <3>4. /\ Lists(d) /\ d.owner = k1.owner /\ d.held = k1.held /\ d.on = k1.on
          /\ d.state = k1.state /\ d.cur = k1.cur /\ d.blockedOn = k1.blockedOn
          /\ d.depth = k1.depth
      BY <3>3 DEF Raised, SameThreads, SameMutexes
    <3>5. Owners(d)
      BY <3>2, <3>4 DEF Owners
    <3>6. Good(d, call, {})
      <4>1. k1.held[o] # {}
        <5>1. m \in k1.held[o]
          BY <3>2, <1>2, <1>4 DEF Owners, o
        <5> QED BY <5>1
      <4>2. k1.prio[t] >= k1.base[o]
        <5>1. k1.prio[o] >= k1.base[o] /\ k1.base[o] \in Prio /\ k1.prio[o] \in Prio
              /\ k1.prio[t] \in Prio /\ Prio \subseteq Nat
          <6>1. k1.prio \in [Thread -> Prio] /\ k1.base \in [Thread -> Prio]
            BY <1>3, GoodTypes
          <6>2. Prio \subseteq Nat
            BY ThreadAssumption DEF Prio
          <6> QED BY <6>1, <6>2, <1>0, <1>2, <1>3 DEF Good, Boosts
        <5>2. \A i, j, l \in Nat : i > j /\ j >= l => i >= l
          OBVIOUS
        <5> QED BY <5>1, <5>2, <3>2
      <4>3. Good(d, call, {} \ {o})
        BY <4>1, <4>2, <3>3, <1>2, <1>3, RaisedGood
      <4>4. {} \ {o} = {}
        OBVIOUS
      <4> QED BY <4>3, <4>4
    <3> QED BY <3>1, <3>3, <3>4, <3>5, <3>6, <1>0, <1>4 DEF SameRun
  <2>2. CASE ~(k.prio[t] > k.prio[o])
    <3>1. k2 = k1
      BY <2>2
    <3>2. k.prio[o] >= k.prio[t]
      BY <2>2, <1>2
    <3> HIDE DEF k2
    <3> QED BY <3>1, <3>2, <1>0, <1>3, <1>4, <1>5 DEF Good, SameRun
  <2> QED BY <2>1, <2>2
<1> HIDE DEF k2
<1>7. Waiting(k2, e, k2.cur, m) /\ Sorted(e) /\ First(e)
  <2>1. /\ k2.state[k2.cur] = "ready" /\ k2.cur # Idle /\ k2.state[Idle] = "ready"
        /\ Sorted(k2)
    BY <1>0, <1>6 DEF Good, Alive, Order
  <2> QED BY <2>1, <1>0, <1>6, BlockEffect, BlockOrder
<1> HIDE DEF e
<1>8. \A h \in Mutex : k2.owner[h] = k2.cur => h < m
  <2> SUFFICES ASSUME NEW h \in Mutex, k2.owner[h] = k2.cur PROVE h < m
    OBVIOUS
  <2>1. h \in k.held[t] /\ h # m
    BY <1>0, <1>6 DEF Good, Owners
  <2>2. h \in Nat /\ m \in Nat
    BY ThreadAssumption
  <2> QED BY <2>1, <2>2
<1>9. Order(e, {})
  <2>1. k2.blockedOn[k2.cur] = m /\ k2.prio[k2.owner[m]] >= k2.prio[k2.cur]
        /\ k2.state[k2.cur] \in {"ready", "blocked"}
    BY <1>0, <1>3, <1>6 DEF o
  <2> QED BY <2>1, <1>6, <1>7, <1>8, WaitingOrder
<1>10. Noted(e, call')
  <2>1. e.blockedOn = [k.blockedOn EXCEPT ![t] = m]
    BY <1>4, <1>6, <1>7 DEF Waiting, SameMutexes
  <2>2. \A u \in Thread : /\ call'[u] = IF u = t THEN m ELSE call[u]
                          /\ e.blockedOn[u] = IF u = t THEN m ELSE k.blockedOn[u]
    BY <2>1, <1>0, GoodTypes
  <2> QED BY <2>2 DEF Settled, Noted
<1> QED BY <1>1, <1>7, <1>9, <1>10 DEF Settled

\* Nobody who waits for a thread's mutex makes its ceiling higher than it already is.
LEMMA CeilingLow ==
  ASSUME NEW d, NEW c, Good(d, c, {}), Order(d, {}), NEW t \in Thread
  PROVE  Ceiling(d, t) <= d.prio[t]
<1>1. /\ \/ Ceiling(d, t) = d.base[t]
         \/ \E m \in d.held[t] : /\ d.waitq[m] # <<>>
                                 /\ Ceiling(d, t) = d.prio[Head(d.waitq[m])]
      /\ Ceiling(d, t) \in Prio
  BY CeilingEffect DEF Good
<1>2. /\ d.prio[t] \in Nat /\ d.base[t] \in Nat /\ d.held[t] \subseteq Mutex
      /\ d.prio[t] >= d.base[t] /\ Lists(d)
  <2>1. d.prio \in [Thread -> Prio] /\ d.base \in [Thread -> Prio] /\ Prio \subseteq Nat
        /\ d.held \in [Thread -> SUBSET Mutex]
    BY GoodTypes, ListTypes DEF Good
  <2> QED BY <2>1 DEF Good, Boosts
<1>3. CASE Ceiling(d, t) = d.base[t]
  BY <1>2, <1>3
<1>4. ASSUME NEW m \in d.held[t], d.waitq[m] # <<>>,
             Ceiling(d, t) = d.prio[Head(d.waitq[m])]
      PROVE  Ceiling(d, t) <= d.prio[t]
  <2> DEFINE s == d.waitq[m]
             w == Head(s)
  <2>1. /\ m \in Mutex /\ m \in Obj /\ d.owner[m] = t /\ s \in Seq(Thread) /\ s # <<>>
        /\ Elems(s) = {u \in Thread : d.on[u] = m}
    BY <1>2, <1>4, ListTypes DEF Good, Owners
  <2> HIDE DEF s
  <2>2. w \in Elems(s)
    <3>1. Len(s) \in Nat /\ Len(s) >= 1
      BY <2>1
    <3> QED BY <3>1, <2>1 DEF Elems
  <2>3. w \in Thread /\ d.on[w] = m /\ Ceiling(d, t) = d.prio[w]
    BY <2>1, <2>2, <1>4 DEF s
  <2> HIDE DEF w
  <2>4. d.prio[t] >= d.prio[w]
    BY <2>1, <2>3 DEF Order, Lent
  <2>5. d.prio[w] \in Nat
    BY <2>3, <1>2, ListTypes
  <2> QED BY <2>3, <2>4, <2>5, <1>2
<1> QED BY <1>1, <1>3, <1>4

\* mutex_lock after its wait: an owner that gives back what was lent to it does not
\* run, so the caller stays the most urgent thread.
LEMMA LockReturnSettled ==
  ASSUME IInv, Settled(k, call), NEW t \in Threads, LockReturn(t)
  PROVE  Settled(k', call')
<1> DEFINE m  == call[t]
           k1 == [k EXCEPT !.blockedOn[k.cur] = None]
           o  == k.owner[m]
           e  == IF k.result[t] # "ok" /\ o # None THEN SetPrio(k1, o, Ceiling(k1, o))
                                                  ELSE k1
           c  == [call EXCEPT ![t] = None]
<1>0. /\ Good(k, call, {}) /\ t \in Thread /\ k.cur = t /\ m \in Mutex /\ m # None
      /\ k' = e /\ call' = c /\ k.state[t] = "ready" /\ k \in KernelType
  BY GoodTypes DEF IInv, Threads, LockReturn
<1>1. Good(k1, call, {}) /\ k1.blockedOn[t] = None
  BY <1>0, BlockedOnGood
<1>2. /\ SameRun(k, k1) /\ SameWaits(k, k1) /\ k1.on = k.on /\ k1.owner = k.owner
      /\ k1.held = k.held /\ k1.blockedOn = [k.blockedOn EXCEPT ![t] = None]
  BY <1>0 DEF KernelType, SameRun, SameWaits
<1> HIDE DEF k1
<1>3. Order(k1, {}) /\ First(k1)
  <2>1. \A u \in Thread : u # t => k1.blockedOn[u] = k.blockedOn[u]
    BY <1>2
  <2>2. Chained(k1)
    BY <2>1, <1>0, <1>2 DEF Settled, Order, Chained, SameRun
  <2>3. First(k1)
    BY <1>2, SameFirst DEF Settled
  <2> QED BY <2>2, <2>3, <1>2 DEF Settled, Order, Sorted, Lent, Nested, OwnersLive,
                                  SameRun, SameWaits
<1>4. Noted(k1, c)
  <2>1. \A u \in Thread :
          /\ c[u] = IF u = t THEN None ELSE call[u]
          /\ k1.blockedOn[u] = IF u = t THEN None ELSE k.blockedOn[u]
    BY <1>0, <1>2, GoodTypes
  <2> QED BY <2>1 DEF Settled, Noted
<1>5. k.result[t] # "ok" => o # t
  BY <1>0 DEF Good, Calls
<1>6. Settled(e, c)
  <2>1. CASE k.result[t] # "ok" /\ o # None
    <3>1. o \in Thread /\ o # t
      BY <2>1, <1>0, <1>5, GoodTypes
    <3>2. e = SetPrio(k1, o, Ceiling(k1, o))
      BY <2>1
    <3> HIDE DEF e, o, c
    <3>3. /\ Lists(k1) /\ Owners(k1) /\ Chained(k1) /\ Lent(k1, {})
          /\ k1.state[k1.cur] = "ready" /\ k1.cur = t
      BY <1>0, <1>1, <1>2, <1>3 DEF Good, Alive, Order, SameRun
    <3> DEFINE p == Ceiling(k1, o)
    <3>4. p <= k1.prio[o] /\ p \in Prio
      BY <3>1, <3>3, <1>1, <1>3, CeilingLow, CeilingEffect
    <3> HIDE DEF p
    <3>5. First(SetPrio(k1, o, p))
      BY <3>1, <3>3, <3>4, <1>3, LowerFirst
    <3>6. Order(SetPrio(k1, o, Ceiling(k1, o)), {} \ {o})
      BY <3>1, <3>3, <1>3, RestoreOrder
    <3>7. {} \ {o} = {}
      OBVIOUS
    <3>8. Raised(k1, SetPrio(k1, o, p), o, p)
      BY <3>1, <3>3, <3>4, SetPrioEffect
    <3>9. Noted(SetPrio(k1, o, p), c)
      BY <3>8, <1>4 DEF Noted, Raised, SameMutexes
    <3> QED BY <3>2, <3>5, <3>6, <3>7, <3>9 DEF Settled, p
  <2>2. CASE ~(k.result[t] # "ok" /\ o # None)
    <3>1. e = k1
      BY <2>2
    <3> HIDE DEF e, c
    <3> QED BY <3>1, <1>3, <1>4 DEF Settled
  <2> QED BY <2>1, <2>2
<1> QED BY <1>0, <1>6

\* What is left of mutex_unlock once the mutex is free or handed over: the caller's
\* own priority, and the switch to a more urgent thread.
LEMMA RestoreSettled ==
  ASSUME NEW d, NEW c, NEW X, Good(d, c, X), Order(d, {}), Noted(d, c), Led(d),
         NEW t \in Thread
  PROVE  Settled(Preempt(SetPrio(d, t, Ceiling(d, t)), FALSE), c)
<1> DEFINE p == Ceiling(d, t)
           e == SetPrio(d, t, p)
           f == Preempt(e, FALSE)
<1>1. /\ Lists(d) /\ Owners(d) /\ d.state[d.cur] = "ready" /\ p \in Prio
  BY CeilingEffect DEF Good, Alive
<1> HIDE DEF p
<1>2. Raised(d, e, t, p) /\ Led(e)
  BY <1>1, SetPrioEffect, SetPrioLed
<1>3. Order(e, {})
  <2>1. Order(SetPrio(d, t, Ceiling(d, t)), {} \ {t})
    BY <1>1, RestoreOrder
  <2>2. {} \ {t} = {}
    OBVIOUS
  <2> QED BY <2>1, <2>2 DEF p
<1> HIDE DEF e
<1>4. Lists(e) /\ e.state[e.cur] = "ready" /\ e.blockedOn = d.blockedOn
  BY <1>1, <1>2 DEF Raised, SameThreads, SameMutexes
<1>5. Switched(e, f) /\ SameWaits(e, f) /\ First(f)
  BY <1>2, <1>4, PreemptFirst
<1> HIDE DEF f
<1>6. Order(f, {})
  BY <1>3, <1>5, SwitchedOrder
<1>7. Noted(f, c)
  BY <1>4, <1>5 DEF Noted, Switched, SameMutexes
<1> QED BY <1>5, <1>6, <1>7 DEF Settled, f, e, p

\* A mutex nobody waits for is free again.
LEMMA ReleaseSettled ==
  ASSUME NEW d, NEW c, Good(d, c, {}), Settled(d, c), NEW t \in Thread,
         NEW m \in Mutex, d.owner[m] = t, d.waitq[m] = <<>>,
         NEW e, e = [d EXCEPT !.depth[m] = 0, !.held[t] = @ \ {m}, !.owner[m] = None]
  PROVE  Order(e, {}) /\ Noted(e, c) /\ Led(e)
<1>0. /\ d \in KernelType /\ None \notin Thread /\ None \notin Mutex
      /\ d.held \in [Thread -> SUBSET Mutex]
      /\ d.owner \in [Mutex -> Thread \cup {None}]
  BY GoodTypes
<1>1. /\ SameRun(d, e) /\ SameWaits(d, e) /\ e.on = d.on /\ e.blockedOn = d.blockedOn
      /\ e.owner = [d.owner EXCEPT ![m] = None] /\ e.held = [d.held EXCEPT ![t] = @ \ {m}]
  BY <1>0 DEF KernelType, SameRun, SameWaits
<1>2. /\ \A n \in Mutex : n # m => e.owner[n] = d.owner[n]
      /\ e.owner[m] = None /\ e.prio = d.prio /\ e.state = d.state
      /\ \A u \in Thread : e.held[u] \subseteq d.held[u]
  BY <1>0, <1>1 DEF SameRun
<1>3. \A w \in Thread : d.on[w] # m
  <2>1. Elems(d.waitq[m]) = {} /\ m \in Obj
    BY ThreadAssumption DEF Elems
  <2> QED BY <2>1 DEF Good, Lists, WaitLists
<1>4. Sorted(e) /\ Chained(e) /\ Noted(e, c)
  BY <1>1, <1>2 DEF Settled, Order, Sorted, Chained, Noted, SameWaits
<1>5. Lent(e, {})
  BY <1>1, <1>2, <1>3 DEF Settled, Order, Lent
<1>6. Nested(e)
  BY <1>0, <1>1, <1>2 DEF Settled, Order, Nested
<1>7. OwnersLive(e)
  BY <1>2 DEF Settled, Order, OwnersLive
<1>8. First(e)
  BY <1>1, SameFirst DEF Settled
<1> QED BY <1>4, <1>5, <1>6, <1>7, <1>8 DEF Order, First, Led

\* The first waiter owns the mutex: it leaves the list, and those behind it wait for it.
LEMMA HandedSettled ==
  ASSUME NEW d, NEW c, Good(d, c, {}), Settled(d, c), NEW t \in Thread, t = d.cur,
         NEW m \in Mutex, NEW w, NEW e, Handed(d, e, t, m, w)
  PROVE  Order(e, {w}) /\ Noted(e, c) /\ Led(e)
<1>0. /\ d \in KernelType /\ Lists(d) /\ None \notin Thread /\ None \notin Mutex
      /\ d.held \in [Thread -> SUBSET Mutex] /\ d.state[d.cur] = "ready"
      /\ d.owner \in [Mutex -> Thread \cup {None}]
      /\ d.on \in [Thread -> Obj \cup {None}] /\ d.state \in [Thread -> States]
      /\ d.blockedOn \in [Thread -> Mutex \cup {None}] /\ w \in Thread /\ w # t
      /\ d.state[w] = "blocked" /\ d.on[w] = m
  BY GoodTypes DEF Good, Handed
<1>1. /\ e.prio = d.prio /\ e.cur = d.cur /\ Requeued(d, e, w)
      /\ e.state = [d.state EXCEPT ![w] = "ready"] /\ e.owner[m] = w
      /\ \A n \in Mutex : n # m => e.owner[n] = d.owner[n]
      /\ \A u \in Thread : u # w => /\ e.on[u] = d.on[u] /\ e.state[u] = d.state[u]
                                    /\ e.blockedOn[u] = d.blockedOn[u]
                                    /\ e.held[u] \subseteq d.held[u]
      /\ e.on[w] = None /\ e.state[w] = "ready" /\ e.blockedOn[w] = None
  BY <1>0 DEF Handed
<1>2. Sorted(e)
  BY <1>0, <1>1, RequeuedSorted DEF Settled, Order
<1>3. Lent(e, {w})
  BY <1>0, <1>1 DEF Settled, Order, Lent
<1>4. Nested(e)
  BY <1>0, <1>1 DEF Settled, Order, Nested
<1>5. Chained(e)
  BY <1>0, <1>1 DEF Settled, Order, Chained
<1>6. OwnersLive(e)
  BY <1>0, <1>1 DEF Settled, Order, OwnersLive
<1>7. Noted(e, c)
  BY <1>0, <1>1 DEF Settled, Noted
<1>8. Led(e)
  <2>1. Led(d)
    BY DEF Settled, First, Led
  <2>2. /\ e.ready = [d.ready EXCEPT ![d.prio[w]] = Append(@, w)]
        /\ e.need = (d.need \/ d.prio[w] > d.prio[d.cur])
    BY <1>1 DEF Requeued
  <2>3. d.state[w] # "ready"
    BY <1>0
  <2> QED BY <2>1, <2>2, <2>3, <1>0, <1>1, WakeFirst
<1> QED BY <1>2, <1>3, <1>4, <1>5, <1>6, <1>7, <1>8 DEF Order

\* mutex_unlock: one level less, a free mutex, or a new owner.
LEMMA UnlockSettled ==
  ASSUME IInv, Settled(k, call), NEW t \in Threads, NEW m \in Mutex, Unlock(t, m)
  PROVE  Settled(k', call')
<1> DEFINE k0 == [k EXCEPT !.depth[m] = @ - 1]
           k1 == [k0 EXCEPT !.held[t] = @ \ {m}]
           k2 == IF k1.waitq[m] # <<>> THEN HandOver(k1, m)
                 ELSE [k1 EXCEPT !.owner[m] = None]
           e  == IF k0.depth[m] > 0 THEN k0
                 ELSE Preempt(SetPrio(k2, t, Ceiling(k2, t)), FALSE)
<1>0. /\ Good(k, call, {}) /\ t \in Thread /\ k.cur = t /\ call[t] = None
      /\ k.owner[m] = t /\ k' = e /\ call' = call
  BY DEF IInv, Threads, Free, Unlock
<1>1. /\ k \in KernelType /\ k.depth \in [Mutex -> Nat] /\ k.depth[m] # 0
  BY <1>0, GoodTypes DEF Good, Owners
<1>2. k0.depth[m] = k.depth[m] - 1
  BY <1>1 DEF KernelType
<1>3. CASE k0.depth[m] > 0
  <2>1. /\ SameRun(k, k0) /\ SameWaits(k, k0) /\ k0.on = k.on /\ k0.owner = k.owner
        /\ k0.blockedOn = k.blockedOn /\ k0.held = k.held
    BY <1>1 DEF KernelType, SameRun, SameWaits
  <2>2. e = k0
    BY <1>3
  <2> HIDE DEF e, k0
  <2>3. Settled(k0, call)
    BY <2>1, SameSettled
  <2> QED BY <1>0, <2>2, <2>3
<1>4. CASE ~(k0.depth[m] > 0)
  <2>1. k1 = [k EXCEPT !.depth[m] = 0, !.held[t] = @ \ {m}]
    <3>1. k.depth[m] - 1 = 0
      BY <1>1, <1>2, <1>4
    <3> QED BY <3>1, <1>1 DEF KernelType
  <2>2. k1.waitq = k.waitq
    BY <1>1, <2>1 DEF KernelType
  <2>3. e = Preempt(SetPrio(k2, t, Ceiling(k2, t)), FALSE)
    BY <1>4
  <2> HIDE DEF e, k0, k1
  <2>4. Good(k2, call, {t}) /\ Order(k2, {}) /\ Noted(k2, call) /\ Led(k2)
    <3>1. CASE k.waitq[m] # <<>>
      <4>1. k2 = HandOver(k1, m)
        BY <3>1, <2>2
      <4> HIDE DEF k2
      <4>2. Dropped(k, k1, t, m)
        BY <2>1, <1>0 DEF Dropped
      <4>3. HandsOver(k, k1, call, t, m) /\ Good(HandOver(k1, m), call, {t})
        BY <4>2, <3>1, <1>0, HandedGood, HandOverGood
      <4>4. PICK d, w : /\ Good(d, call, {t}) /\ Handed(k, d, t, m, w)
                        /\ HandOver(k1, m) = SetPrio(d, w, Ceiling(d, w))
        BY <4>3 DEF HandsOver
      <4>5. Order(d, {w}) /\ Noted(d, call) /\ Led(d)
        BY <4>4, <1>0, HandedSettled
      <4> DEFINE p == Ceiling(d, w)
      <4>6. /\ Lists(d) /\ Owners(d) /\ d.state[d.cur] = "ready" /\ w \in Thread
        BY <4>4 DEF Good, Alive, Handed
      <4>7. p \in Prio
        BY <4>6, CeilingEffect
      <4>8. Order(SetPrio(d, w, Ceiling(d, w)), {w} \ {w})
        BY <4>5, <4>6, RestoreOrder
      <4>9. {w} \ {w} = {}
        OBVIOUS
      <4>10. k2 = SetPrio(d, w, p)
        BY <4>1, <4>4
      <4> HIDE DEF p
      <4>11. Led(SetPrio(d, w, p)) /\ Raised(d, SetPrio(d, w, p), w, p)
        BY <4>5, <4>6, <4>7, SetPrioLed, SetPrioEffect
      <4>12. Noted(SetPrio(d, w, p), call)
        BY <4>5, <4>11 DEF Noted, Raised, SameMutexes
      <4> QED BY <4>1, <4>3, <4>8, <4>9, <4>10, <4>11, <4>12 DEF p
    <3>2. CASE k.waitq[m] = <<>>
      <4>1. k2 = [k EXCEPT !.depth[m] = 0, !.held[t] = @ \ {m}, !.owner[m] = None]
        BY <3>2, <2>1, <2>2, <1>1 DEF KernelType
      <4> HIDE DEF k2
      <4>2. Good(k2, call, {t})
        BY <3>2, <4>1, <1>0, ReleaseGood
      <4>3. Order(k2, {}) /\ Noted(k2, call) /\ Led(k2)
        BY <3>2, <4>1, <1>0, ReleaseSettled
      <4> QED BY <4>2, <4>3
    <3> QED BY <3>1, <3>2
  <2> HIDE DEF k2
  <2>5. Settled(Preempt(SetPrio(k2, t, Ceiling(k2, t)), FALSE), call)
    BY <2>4, <1>0, RestoreSettled
  <2> QED BY <1>0, <2>3, <2>5
<1> QED BY <1>3, <1>4

\* thread_create: the new thread owns nothing and waits for nothing.
LEMMA CreateSettled ==
  ASSUME IInv, Settled(k, call), NEW t \in Threads, NEW n \in Threads, Create(t, n)
  PROVE  Settled(k', call')
<1> DEFINE e == Created(k, n)
           b == BasePrio[n]
<1>0. /\ Good(k, call, {}) /\ n \in Thread /\ k.state[n] = "none" /\ Lists(k) /\ Owners(k)
      /\ k' = Preempt(e, FALSE) /\ call' = call /\ b \in Prio
      /\ k.state[k.cur] = "ready"
  BY KernelAssumption DEF IInv, Threads, Create, Created, Good, Alive
<1>1. Good(e, call, {}) /\ Creation(k, e, n)
  BY <1>0, CreatedGood
<1>2. /\ k.prio \in [Thread -> Nat] /\ k.ready \in [Prio -> Seq(Thread)]
      /\ k.state \in [Thread -> States] /\ k.cur \in Thread /\ None \notin Mutex
      /\ None \notin Thread
      /\ k.on[n] = None /\ n \notin Elems(k.timeouts)
      /\ \A q \in Obj : n \notin Elems(k.waitq[q])
  BY <1>0, GoodTypes, ListTypes, ReadyWaitsNot DEF Lists, KernelType
<1> HIDE DEF e, b
<1>3. /\ \A u \in Thread : u # n => e.prio[u] = k.prio[u] /\ e.state[u] = k.state[u]
      /\ e.state[n] = "ready" /\ e.on = k.on /\ e.owner = k.owner /\ e.held = k.held
      /\ e.blockedOn = k.blockedOn /\ e.cur = k.cur /\ SameWaits(k, e)
  BY <1>0, <1>1, <1>2 DEF Creation, SameWaits
<1>4. k.held[n] = {} /\ \A m \in Mutex : k.owner[m] # n
  BY <1>0 DEF Settled, Order, OwnersLive, Owners
<1>5. Sorted(e)
  <2>1. ASSUME NEW q \in Obj PROVE Ordered(e.waitq[q], Fall(e.prio))
    <3>1. k.waitq[q] \in Seq(Thread) /\ Ordered(k.waitq[q], Fall(k.prio))
      BY <1>0, ListTypes DEF Settled, Order, Sorted
    <3>2. \A u \in Elems(k.waitq[q]) : k.prio[u] = e.prio[u]
      BY <3>1, <1>2, <1>3 DEF Elems
    <3> QED BY <3>1, <3>2, <1>3, SameOrder DEF SameWaits
  <2> QED BY <2>1, <1>3 DEF Settled, Order, Sorted, SameWaits
<1>6. Lent(e, {})
  <2> SUFFICES ASSUME NEW m \in Mutex, NEW w \in Thread, e.on[w] = m
               PROVE  e.prio[e.owner[m]] >= e.prio[w]
    BY DEF Lent
  <2>1. w # n /\ k.owner[m] # n /\ k.owner[m] \in Thread
    BY <1>0, <1>2, <1>3, <1>4, GoodTypes DEF Owners
  <2> QED BY <2>1, <1>3 DEF Settled, Order, Lent
<1>7. Nested(e)
  BY <1>3 DEF Settled, Order, Nested
<1>8. Chained(e)
  BY <1>2, <1>3 DEF Settled, Order, Chained
<1>9. OwnersLive(e)
  BY <1>3, <1>4 DEF Settled, Order, OwnersLive
<1>10. Led(e)
  <2> DEFINE g == k.prio[k.cur]
             s == k.ready[g]
  <2>1. s \in Seq(Thread) /\ s # <<>> /\ g \in Prio /\ Head(s) = k.cur
    BY <1>0, <1>2, OwnList DEF Settled, First, Front
  <2>2. e.ready = [k.ready EXCEPT ![b] = Append(@, n)]
    BY <1>1 DEF Creation, b
  <2>3. e.ready[g] = IF g = b THEN Append(s, n) ELSE s
    BY <2>1, <2>2, <1>0, <1>2
  <2> HIDE DEF s
  <2>4. Head(e.ready[g]) = k.cur
    BY <2>1, <2>3, <1>0, GrownHead
  <2>5. k.cur # n
    BY <1>0
  <2> QED BY <2>4, <2>5, <1>2, <1>3 DEF Led, Front
<1>11. Order(e, {})
  BY <1>5, <1>6, <1>7, <1>8, <1>9 DEF Order
<1>12. /\ Switched(e, Preempt(e, FALSE)) /\ SameWaits(e, Preempt(e, FALSE))
       /\ First(Preempt(e, FALSE))
  BY <1>1, <1>10, PreemptFirst DEF Good, Alive
<1>13. Order(Preempt(e, FALSE), {})
  BY <1>11, <1>12, SwitchedOrder
<1>14. Noted(Preempt(e, FALSE), call)
  BY <1>3, <1>12 DEF Settled, Noted, Switched, SameMutexes
<1> QED BY <1>0, <1>12, <1>13, <1>14 DEF Settled

\* thread_exit: a thread that ends is on no list, and owns nothing.
LEMMA ExitSettled ==
  ASSUME IInv, Settled(k, call), NEW t \in Threads, Exit(t)
  PROVE  Settled(k', call')
<1> DEFINE d == Leave(k, t, "dead", k.result[t])
<1>0. /\ Good(k, call, {}) /\ Lists(k) /\ t \in Thread /\ t # Idle /\ k.cur = t
      /\ k.held[t] = {} /\ call' = call /\ k \in KernelType
      /\ k.state[t] = "ready" /\ k.state[Idle] = "ready" /\ Idle \in Thread
      /\ k.state \in [Thread -> States] /\ k.result \in [Thread -> Results]
      /\ k.on[t] = None
  BY GoodTypes DEF IInv, Threads, Free, Exit, Good, Alive
<1>1. k' = Reschedule(d)
  <2>1. [k.result EXCEPT ![t] = k.result[t]] = k.result
    BY <1>0
  <2>2. d = [ReadyRemove(k, t) EXCEPT !.state[t] = "dead"]
    BY <1>0, <2>1 DEF Leave, ReadyRemove, KernelType
  <2> QED BY <2>2 DEF Exit
<1>2. Left(k, d, t, "dead", k.result[t])
  <2>1. k.result[t] \in Results /\ "dead" \in {"blocked", "dead"}
    BY <1>0
  <2> QED BY <2>1, <1>0, LeaveEffect
<1>3. SameWaits(k, d)
  BY <1>0 DEF Leave, ReadyRemove, SameWaits, KernelType
<1> HIDE DEF d
<1>4. /\ Lists(d) /\ d.prio = k.prio /\ d.on = k.on /\ d.owner = k.owner
      /\ d.held = k.held /\ d.blockedOn = k.blockedOn
      /\ \A u \in Thread : d.state[u] = IF u = t THEN "dead" ELSE k.state[u]
  BY <1>0, <1>2 DEF Left, SameMutexes
<1>5. Order(d, {})
  <2>1. Sorted(d) /\ Lent(d, {}) /\ Nested(d)
    BY <1>3, <1>4 DEF Settled, Order, Sorted, Lent, Nested, SameWaits
  <2>2. Chained(d)
    BY <1>4 DEF Settled, Order, Chained
  <2>3. OwnersLive(d)
    BY <1>0, <1>4 DEF Settled, Order, OwnersLive
  <2> QED BY <2>1, <2>2, <2>3 DEF Order
<1>6. d.state[Idle] = "ready"
  BY <1>0, <1>4
<1>7. Switched(d, Reschedule(d)) /\ SameWaits(d, Reschedule(d)) /\ First(Reschedule(d))
  BY <1>0, <1>4, <1>6, RescheduleFirst
<1>8. Order(Reschedule(d), {})
  BY <1>5, <1>7, SwitchedOrder
<1>9. Noted(Reschedule(d), call)
  BY <1>4, <1>7 DEF Settled, Noted, Switched, SameMutexes
<1> QED BY <1>0, <1>1, <1>7, <1>8, <1>9 DEF Settled

\* idle_main: a dead thread waits for nothing and owns nothing.
LEMMA ReapSettled ==
  ASSUME IInv, Settled(k, call), Reap
  PROVE  Settled(k', call')
<1> DEFINE s == [t \in Thread |-> IF k.state[t] = "dead" THEN "none" ELSE k.state[t]]
           e == [k EXCEPT !.state = s]
<1>0. /\ k \in KernelType /\ call' = call /\ k.cur \in Thread
  BY GoodTypes DEF IInv, Reap
<1>1. k' = e
  BY <1>0 DEF Reap, KernelType
<1>2. \A t \in Thread : /\ s[t] = "ready" <=> k.state[t] = "ready"
                        /\ s[t] = "blocked" <=> k.state[t] = "blocked"
  OBVIOUS
<1> HIDE DEF s
<1>3. /\ e.state = s /\ SameWaits(k, e) /\ e.prio = k.prio /\ e.ready = k.ready
      /\ e.cur = k.cur /\ e.on = k.on /\ e.owner = k.owner /\ e.held = k.held
      /\ e.blockedOn = k.blockedOn
  BY <1>0 DEF KernelType, SameWaits
<1> HIDE DEF e
<1>4. Sorted(e) /\ Lent(e, {}) /\ Nested(e) /\ Noted(e, call)
  BY <1>3 DEF Settled, Order, Sorted, Lent, Nested, Noted, SameWaits
<1>5. Chained(e)
  BY <1>2, <1>3 DEF Settled, Order, Chained
<1>6. OwnersLive(e)
  BY <1>2, <1>3 DEF Settled, Order, OwnersLive
<1>7. First(e)
  BY <1>2, <1>3 DEF Settled, First, Front, Urgent
<1> QED BY <1>0, <1>1, <1>4, <1>5, <1>6, <1>7 DEF Settled, Order

LEMMA YieldSettled ==
  ASSUME IInv, Settled(k, call), NEW t \in Threads, Yield(t)
  PROVE  Settled(k', call')
<1> DEFINE d == [k EXCEPT !.rotate = TRUE]
<1>0. /\ Good(k, call, {}) /\ Lists(k) /\ call' = call /\ k.state[k.cur] = "ready"
      /\ k \in KernelType /\ k.cur \in Thread /\ k' = Reschedule(d)
  BY GoodTypes DEF IInv, Yield, Good, Alive
<1>1. /\ d \in KernelType /\ SameRun(k, d) /\ SameWaits(k, d) /\ d.on = k.on
      /\ d.owner = k.owner /\ d.blockedOn = k.blockedOn /\ d.held = k.held
  BY <1>0 DEF KernelType, SameRun, SameWaits
<1> HIDE DEF d
<1>2. Lists(d) /\ d.state[d.cur] = "ready" /\ d.cur \in Thread
  BY <1>0, <1>1, SameLists DEF SameRun, SameWaits
<1>3. Settled(d, call)
  BY <1>1, SameSettled
<1>4. Switched(d, Reschedule(d)) /\ SameWaits(d, Reschedule(d)) /\ First(Reschedule(d))
  BY <1>2, RescheduleFirst
<1>5. Order(Reschedule(d), {})
  BY <1>3, <1>4, SwitchedOrder DEF Settled
<1>6. Noted(Reschedule(d), call)
  BY <1>3, <1>4 DEF Settled, Noted, Switched, SameMutexes
<1> QED BY <1>0, <1>4, <1>5, <1>6 DEF Settled, d

LEMMA SetPrioritySettled ==
  ASSUME IInv, Settled(k, call), NEW t \in Threads, NEW u \in Threads,
         NEW p \in NewPrios, SetPriority(t, u, p)
  PROVE  Settled(k', call')
<1> DEFINE d == [k EXCEPT !.base[u] = p]
<1>0. /\ Good(k, call, {}) /\ call' = call /\ u \in Thread /\ p \in Prio
      /\ k' = Preempt(SetPrio(d, u, Ceiling(d, u)), FALSE)
      /\ k \in KernelType /\ k.base \in [Thread -> Prio]
  BY KernelAssumption, GoodTypes DEF IInv, SetPriority, Threads
<1>1. /\ d \in KernelType /\ SameRun(k, d) /\ SameWaits(k, d) /\ d.on = k.on
      /\ d.owner = k.owner /\ d.blockedOn = k.blockedOn /\ d.held = k.held
      /\ d.depth = k.depth /\ d.result = k.result /\ d.base = [k.base EXCEPT ![u] = p]
  BY <1>0 DEF KernelType, SameRun, SameWaits
<1> HIDE DEF d
<1>2. Good(d, call, {u})
  <2>1. Lists(d)
    BY <1>0, <1>1, SameLists DEF Good, SameRun, SameWaits
  <2>2. Owners(d) /\ Calls(d, call) /\ Alive(d)
    BY <1>0, <1>1 DEF Good, Owners, Calls, Alive, SameRun
  <2>3. Boosts(d, {u})
    BY <1>0, <1>1 DEF Good, Boosts, SameRun
  <2> QED BY <2>1, <2>2, <2>3, <1>0 DEF Good
<1>3. Settled(d, call)
  BY <1>1, SameSettled
<1>4. Order(d, {}) /\ Noted(d, call) /\ Led(d)
  BY <1>3 DEF Settled, First, Led
<1>5. Settled(Preempt(SetPrio(d, u, Ceiling(d, u)), FALSE), call)
  BY <1>0, <1>2, <1>4, RestoreSettled
<1> QED BY <1>0, <1>5 DEF d

\* advance(), first part: what is left shrinks for all alike.
LEMMA TickBeginOrder ==
  ASSUME SInv, TickBegin
  PROVE  Order(k', {}) /\ Noted(k', call') /\ Pending(k')
<1> DEFINE w == [t \in Thread |-> IF k.wake[t] > irq' THEN k.wake[t] - irq' ELSE 0]
           e == [k EXCEPT !.wake = w]
<1>0. /\ Lists(k) /\ call' = call /\ irq' \in Nat /\ k \in KernelType
      /\ k.wake \in [Thread -> Nat] /\ k.timeouts \in Seq(Thread)
  <2>1. Lists(k) /\ call' = call /\ irq' \in Nat
    BY KernelAssumption DEF SInv, IInv, TickBegin, Good
  <2> QED BY <2>1, ListTypes DEF Lists
<1>1. k' = e
  BY <1>0 DEF TickBegin, KernelType
<1>2. \A t, u \in Thread : k.wake[t] <= k.wake[u] => w[t] <= w[u]
  <2> SUFFICES ASSUME NEW t \in Thread, NEW u \in Thread, k.wake[t] <= k.wake[u]
               PROVE  w[t] <= w[u]
    OBVIOUS
  <2> DEFINE a == k.wake[t]
             b == k.wake[u]
             n == irq'
  <2>1. a \in Nat /\ b \in Nat /\ n \in Nat /\ a <= b
    BY <1>0
  <2>2. w[t] = (IF a > n THEN a - n ELSE 0) /\ w[u] = (IF b > n THEN b - n ELSE 0)
    OBVIOUS
  <2> HIDE DEF a, b, n, w
  <2>3. (IF a > n THEN a - n ELSE 0) <= (IF b > n THEN b - n ELSE 0)
    BY <2>1
  <2> QED BY <2>2, <2>3
<1> HIDE DEF w
<1>3. /\ SameRun(k, e) /\ e.waitq = k.waitq /\ e.timeouts = k.timeouts /\ e.wake = w
      /\ e.on = k.on /\ e.owner = k.owner /\ e.held = k.held
      /\ e.blockedOn = k.blockedOn /\ e.need = k.need
  BY <1>0 DEF KernelType, SameRun
<1> HIDE DEF e
<1>4. Ordered(k.timeouts, Rise(w))
  <2>1. \A i \in DOMAIN k.timeouts : k.timeouts[i] \in Thread
    BY <1>0
  <2>2. Ordered(k.timeouts, Rise(k.wake))
    BY DEF SInv, Order, Sorted
  <2> QED BY <2>1, <2>2, <1>2 DEF Ordered, Rise
<1>5. Order(e, {})
  <2>1. Sorted(e) /\ Lent(e, {})
    BY <1>3, <1>4 DEF SInv, Order, Sorted, Lent, SameRun
  <2> QED BY <2>1, <1>3, SameChains DEF SInv, Order, SameRun
<1>6. Noted(e, call) /\ Pending(e)
  BY <1>3, SameFirst DEF SInv, Noted, Pending
<1> QED BY <1>0, <1>1, <1>5, <1>6

\* advance(), one wake-up.
LEMMA TickWakeOrder ==
  ASSUME SInv, TickWake
  PROVE  Order(k', {}) /\ Noted(k', call') /\ Pending(k')
<1> DEFINE t == Head(k.timeouts)
           e == Wake(k, t, "timeout")
<1>0. /\ Good(k, call, {}) /\ Lists(k) /\ call' = call /\ k' = e
      /\ k.timeouts # <<>> /\ k.timeouts \in Seq(Thread) /\ k.state[k.cur] = "ready"
  BY ListTypes DEF SInv, IInv, TickWake, Due, Good, Alive
<1>1. t \in Thread /\ k.state[t] = "blocked"
  <2>1. t \in Thread /\ t \in Elems(k.timeouts)
    BY <1>0 DEF Elems
  <2> QED BY <2>1, <1>0 DEF Lists, TimeoutList
<1> HIDE DEF t
<1>2. /\ WokenUp(k, e, t, "timeout") /\ Requeued(k, e, t) /\ Order(e, {})
  <2>1. "timeout" \in Results
    BY DEF Results
  <2> QED BY <2>1, <1>0, <1>1, WakeEffect, WakeOrder DEF SInv
<1> HIDE DEF e
<1>3. Noted(e, call)
  BY <1>2 DEF SInv, Noted, WokenUp, SameMutexes
<1>4. Pending(e)
  <2>1. /\ e.prio = k.prio /\ e.cur = k.cur /\ e.state = [k.state EXCEPT ![t] = "ready"]
        /\ e.ready = [k.ready EXCEPT ![k.prio[t]] = Append(@, t)]
        /\ e.need = (k.need \/ k.prio[t] > k.prio[k.cur]) /\ k.state[t] # "ready"
    BY <1>1, <1>2 DEF WokenUp, Requeued
  <2> QED BY <2>1, <1>0, <1>1, WakeFirst DEF SInv
<1> QED BY <1>0, <1>2, <1>3, <1>4

\* The end of a slice asks for a switch when it moves the running thread's list on.
LEMMA SliceKeeps ==
  ASSUME NEW d, d \in KernelType, Pending(d), NEW n
  PROVE  /\ Pending(Slice(d, n)) /\ SameWaits(d, Slice(d, n))
<1> DEFINE e == Slice(d, n)
           p == d.prio[d.cur]
<1>1. CASE d.slice > n
  <2>1. e = [d EXCEPT !.slice = d.slice - n]
    BY <1>1 DEF Slice, KernelType
  <2> HIDE DEF e
  <2>2. SameRun(d, e) /\ SameWaits(d, e) /\ e.need = d.need
    BY <2>1 DEF KernelType, SameRun, SameWaits
  <2> QED BY <2>2, SameFirst DEF Pending, e
<1>2. CASE ~(d.slice > n) /\ Len(d.ready[p]) > 1
  <2>1. e = [d EXCEPT !.slice = SliceTicks, !.ready[p] = PastOf(@, d.cur), !.need = TRUE]
    BY <1>2 DEF Slice
  <2>2. e.need = TRUE /\ SameWaits(d, e)
    BY <2>1 DEF KernelType, SameWaits
  <2> HIDE DEF e
  <2> QED BY <2>2 DEF Pending, e
<1>3. CASE ~(d.slice > n) /\ ~(Len(d.ready[p]) > 1)
  <2>1. e = [d EXCEPT !.slice = SliceTicks]
    BY <1>3 DEF Slice
  <2> HIDE DEF e
  <2>2. SameRun(d, e) /\ SameWaits(d, e) /\ e.need = d.need
    BY <2>1 DEF KernelType, SameRun, SameWaits
  <2> QED BY <2>2, SameFirst DEF Pending, e
<1> QED BY <1>1, <1>2, <1>3

LEMMA TickEndSettled ==
  ASSUME SInv, TickEnd
  PROVE  Settled(k', call')
<1> DEFINE d == Slice(k, irq)
           e == IrqExit(d)
<1>0. /\ Lists(k) /\ k \in KernelType /\ k.state[k.cur] = "ready" /\ irq \in Nat
      /\ Pending(k) /\ call' = call /\ k' = e
  BY DEF SInv, IInv, TickEnd, Good, Alive, Lists
<1>1. Switched(k, d) /\ Pending(d) /\ SameWaits(k, d)
  BY <1>0, SliceEffect, SliceKeeps
<1> HIDE DEF d
<1>2. Lists(d) /\ d.state[d.cur] = "ready"
  BY <1>1 DEF Switched
<1>3. Switched(d, e) /\ SameWaits(d, e) /\ First(e)
  BY <1>1, <1>2, IrqExitFirst
<1> HIDE DEF e
<1>4. Order(e, {})
  BY <1>1, <1>3, SwitchedOrder DEF SInv
<1>5. Noted(e, call)
  BY <1>1, <1>3 DEF SInv, Noted, Switched, SameMutexes
<1> QED BY <1>0, <1>3, <1>4, <1>5 DEF Settled
-----------------------------------------------------------------------------
(* Every step keeps SInv, and SInv gives ScheduleRight. *)

LEMMA RunSettled ==
  ASSUME IInv, Settled(k, call), NEW t \in Threads, Run(t)
  PROVE  Settled(k', call')
<1>1. CASE \E m \in Mutex : Lock(t, m) \/ Unlock(t, m)
  <2>1. PICK m \in Mutex : Lock(t, m) \/ Unlock(t, m)
    BY <1>1
  <2>2. CASE Lock(t, m)
    <3>1. Free(t) /\ \A h \in k.held[t] : h <= m
      BY <2>2 DEF Lock
    <3>2. CASE LockFree(t, m)
      BY <3>1, <3>2, LockFreeSettled
    <3>3. CASE LockAgain(t, m)
      BY <3>3, LockAgainSettled
    <3>4. CASE \E ms \in Waits : LockBlock(t, m, ms)
      BY <3>1, <3>4, LockBlockSettled
    <3> QED BY <2>2, <3>2, <3>3, <3>4 DEF Lock
  <2>3. CASE Unlock(t, m)
    BY <2>3, UnlockSettled
  <2> QED BY <2>1, <2>2, <2>3
<1>2. CASE LockReturn(t)
  BY <1>2, LockReturnSettled
<1>3. CASE \E n \in Threads : Create(t, n)
  BY <1>3, CreateSettled
<1>4. CASE \E ms \in Waits \ {None} : Sleep(t, ms)
  BY <1>4, SleepSettled
<1>5. CASE Yield(t)
  BY <1>5, YieldSettled
<1>6. CASE Exit(t)
  BY <1>6, ExitSettled
<1>7. CASE \E u \in Threads, p \in NewPrios : SetPriority(t, u, p)
  BY <1>7, SetPrioritySettled, SMTT(30)
<1> QED BY <1>1, <1>2, <1>3, <1>4, <1>5, <1>6, <1>7 DEF Run

\* A thread makes its calls while no interrupt handler is under way.
LEMMA RunIrq ==
  ASSUME NEW t \in Threads, Run(t)
  PROVE  irq = 0 /\ irq' = irq
BY DEF Run, Lock, Unlock, LockReturn, Create, Sleep, Yield, Exit, SetPriority, Free

LEMMA NextSInv == SInv /\ [Next]_vars => SInv'
<1> SUFFICES ASSUME SInv, [Next]_vars PROVE SInv'
  OBVIOUS
<1>1. IInv'
  BY NextGood DEF SInv
<1>2. irq = 0 => Settled(k, call)
  BY DEF SInv, Settled
<1>3. ASSUME Settled(k', call') PROVE SInv'
  BY <1>1, <1>3 DEF SInv, Settled, Pending
<1>4. CASE \E t \in Threads : Run(t)
  <2>1. PICK t \in Threads : Run(t)
    BY <1>4
  <2>2. irq = 0
    BY <2>1, RunIrq
  <2> QED BY <2>1, <2>2, <1>2, <1>3, RunSettled DEF SInv
<1>5. CASE Reap
  <2>1. irq = 0
    BY <1>5 DEF Reap, Free
  <2> QED BY <2>1, <1>2, <1>3, <1>5, ReapSettled DEF SInv
<1>6. CASE TickBegin
  <2>1. irq' # 0
    BY <1>6, KernelAssumption DEF TickBegin
  <2> QED BY <2>1, <1>1, <1>6, TickBeginOrder DEF SInv
<1>7. CASE TickWake
  <2>1. irq' # 0
    BY <1>7 DEF TickWake, SInv, IInv
  <2> QED BY <2>1, <1>1, <1>7, TickWakeOrder DEF SInv
<1>8. CASE TickEnd
  BY <1>3, <1>8, TickEndSettled
<1>9. CASE UNCHANGED vars
  BY <1>1, <1>9 DEF vars, SInv
<1> QED BY <1>4, <1>5, <1>6, <1>7, <1>8, <1>9 DEF Next, Tick

LEMMA SInductive == Spec => []SInv
<1>1. Init => SInv
  BY InitGood, InitSettled DEF SInv, Settled, Pending
<1>2. SInv /\ [Next]_vars => SInv'
  BY NextSInv
<1> QED BY <1>1, <1>2, PTL DEF Spec

\* The running thread is always the first of the most urgent ready ones, every list is
\* complete and in its order, and an owner is as urgent as each thread it keeps waiting:
\* for any number of threads, mutexes nested to any depth, and any timeouts.
THEOREM ScheduleIsRight == Spec => []ScheduleRight
<1>1. SInv => ScheduleRight
  <2> SUFFICES ASSUME SInv PROVE ScheduleRight
    OBVIOUS
  <2>0. Lists(k) /\ k.state[k.cur] = "ready" /\ Mutex \subseteq Obj
    BY ThreadAssumption DEF SInv, IInv, Good, Alive
  <2>1. HighestRuns
    BY <2>0, HighestFirst DEF HighestRuns, SInv
  <2>2. ListsAgree
    <3>1. \A q \in Obj : \A i, j \in DOMAIN k.waitq[q] :
            i < j => k.prio[k.waitq[q][i]] >= k.prio[k.waitq[q][j]]
      BY DEF SInv, Order, Sorted, Ordered, Fall
    <3>2. \A i, j \in DOMAIN k.timeouts :
            i < j => k.wake[k.timeouts[i]] <= k.wake[k.timeouts[j]]
      BY DEF SInv, Order, Sorted, Ordered, Rise
    <3> QED BY <2>0, <3>1, <3>2 DEF ListsAgree, Lists
  <2>3. NoInversion
    <3>1. \A m \in Mutex : \A w \in Elems(k.waitq[m]) : w \in Thread /\ k.on[w] = m
      BY <2>0, ListTypes
    <3> QED BY <3>1 DEF NoInversion, SInv, Order, Lent
  <2> QED BY <2>1, <2>2, <2>3 DEF ScheduleRight
<1> QED BY <1>1, SInductive, PTL
-----------------------------------------------------------------------------
(* Turns: who is before whom in a ready list stays there. *)

\* The pairs of threads that may follow each other in a list in which nobody who was
\* ahead in s has fallen behind; and those in which only c may have.
Turns(s) == {r \in Thread \X Thread : ~Ahead(s, r[2], r[1])}
TurnsBut(s, c) == {r \in Thread \X Thread : ~Ahead(s, r[2], r[1]) \/ r[2] = c}

\* The ready lists s keep the turns of the ready lists r.
Kept(r, s) == \A p \in Prio : Ordered(s[p], Turns(r[p]))

LEMMA TurnsSame ==
  ASSUME NEW s \in Seq(Thread), Inj(s)
  PROVE  Ordered(s, Turns(s))
<1> SUFFICES ASSUME NEW i \in DOMAIN s, NEW j \in DOMAIN s, i < j
             PROVE  <<s[i], s[j]>> \in Turns(s)
  BY DEF Ordered
<1>1. s[i] \in Thread /\ s[j] \in Thread
  OBVIOUS
<1>2. ASSUME Ahead(s, s[j], s[i]) PROVE FALSE
  <2>1. PICK x, y \in DOMAIN s : x < y /\ s[x] = s[j] /\ s[y] = s[i]
    BY <1>2 DEF Ahead
  <2>2. x = j /\ y = i
    BY <2>1 DEF Inj
  <2> QED BY <2>1, <2>2
<1> QED BY <1>1, <1>2 DEF Turns

LEMMA AppendOrdered ==
  ASSUME NEW s \in Seq(Thread), NEW t \in Thread, NEW B, Ordered(s, B),
         \A u \in Elems(s) : <<u, t>> \in B
  PROVE  Ordered(Append(s, t), B)
<1> DEFINE a == Append(s, t)
<1>1. /\ Len(s) \in Nat /\ DOMAIN s = 1 .. Len(s) /\ DOMAIN a = 1 .. Len(s) + 1
      /\ \A i \in 1 .. Len(s) : a[i] = s[i] /\ s[i] \in Elems(s)
      /\ a[Len(s) + 1] = t
  BY DEF Elems
<1> HIDE DEF a
<1> SUFFICES ASSUME NEW i \in 1 .. Len(s) + 1, NEW j \in 1 .. Len(s) + 1, i < j
             PROVE  <<a[i], a[j]>> \in B
  BY <1>1 DEF Ordered, a
<1>2. i \in 1 .. Len(s) /\ (j \in 1 .. Len(s) \/ j = Len(s) + 1)
  BY <1>1
<1> QED BY <1>1, <1>2 DEF Ordered

LEMMA PrependOrdered ==
  ASSUME NEW s \in Seq(Thread), NEW t \in Thread, NEW B, Ordered(s, B),
         \A u \in Elems(s) : <<t, u>> \in B
  PROVE  Ordered(<<t>> \o s, B)
<1> DEFINE a == <<t>> \o s
<1>1. /\ Len(s) \in Nat /\ DOMAIN s = 1 .. Len(s) /\ DOMAIN a = 1 .. Len(s) + 1
      /\ \A i \in 1 .. Len(s) : s[i] \in Elems(s)
      /\ a[1] = t /\ \A i \in 2 .. Len(s) + 1 : a[i] = s[i - 1]
  BY DEF Elems
<1> HIDE DEF a
<1> SUFFICES ASSUME NEW i \in 1 .. Len(s) + 1, NEW j \in 1 .. Len(s) + 1, i < j
             PROVE  <<a[i], a[j]>> \in B
  BY <1>1 DEF Ordered, a
<1>2. /\ j \in 2 .. Len(s) + 1 /\ j - 1 \in 1 .. Len(s)
      /\ i = 1 \/ (i \in 2 .. Len(s) + 1 /\ i - 1 \in 1 .. Len(s) /\ i - 1 < j - 1)
  BY <1>1
<1> QED BY <1>1, <1>2 DEF Ordered

\* A thread that was not in the list takes nobody's turn there, at either end.
LEMMA JoinTurns ==
  ASSUME NEW s \in Seq(Thread), NEW t \in Thread, NEW o, Ordered(s, Turns(o)),
         t \notin Elems(o)
  PROVE  Ordered(Append(s, t), Turns(o)) /\ Ordered(<<t>> \o s, Turns(o))
<1>1. \A u : ~Ahead(o, u, t) /\ ~Ahead(o, t, u)
  BY DEF Ahead, Elems
<1>2. \A u \in Elems(s) : u \in Thread
  BY DEF Elems
<1>3. \A u \in Elems(s) : <<u, t>> \in Turns(o) /\ <<t, u>> \in Turns(o)
  BY <1>1, <1>2 DEF Turns
<1> QED BY <1>3, AppendOrdered, PrependOrdered

\* Moved on by one, a list has only its old head behind others.
LEMMA TurnedBut ==
  ASSUME NEW s \in Seq(Thread), Inj(s), s # <<>>, NEW r \in Seq(Thread),
         Turned(r, s, 1, Len(s))
  PROVE  Ordered(r, TurnsBut(s, Head(s)))
<1> DEFINE n == Len(s)
<1>1. /\ n \in Nat /\ n >= 1 /\ DOMAIN s = 1 .. n /\ DOMAIN r = 1 .. n /\ Head(s) = s[1]
      /\ \A j \in 1 .. n : s[j] \in Thread /\ r[j] \in Thread
  BY DEF Turned
<1>2. /\ \A j \in 1 .. n : j <= n - 1 => r[j] = s[1 + j]
      /\ r[n] = s[1]
  BY <1>1 DEF Turned
<1> SUFFICES ASSUME NEW i \in 1 .. n, NEW j \in 1 .. n, i < j
             PROVE  <<r[i], r[j]>> \in TurnsBut(s, Head(s))
  BY <1>1 DEF Ordered
<1> HIDE DEF n
<1>3. CASE j = n
  BY <1>1, <1>2, <1>3 DEF TurnsBut
<1>4. CASE j # n
  <2>1. 1 + i \in 1 .. n /\ 1 + j \in 1 .. n /\ 1 + i < 1 + j /\ i <= n - 1 /\ j <= n - 1
    BY <1>1, <1>4
  <2>2. Ordered(s, Turns(s))
    BY TurnsSame
  <2>3. <<s[1 + i], s[1 + j]>> \in Turns(s)
    BY <2>1, <2>2, <1>1 DEF Ordered
  <2>4. <<r[i], r[j]>> \in Turns(s)
    BY <2>1, <2>3, <1>2
  <2> QED BY <2>4 DEF Turns, TurnsBut
<1> QED BY <1>3, <1>4
-----------------------------------------------------------------------------
(* What the kernel's operations do to the turns, while no thread has asked to give
   up its own. *)

\* kernel_reschedule() moves no list on that nobody asked to be moved on.
LEMMA RescheduleTurns ==
  ASSUME NEW d, d \in KernelType, ~d.rotate
  PROVE  Reschedule(d).ready = d.ready /\ ~Reschedule(d).rotate
<1> DEFINE p == d.prio[d.cur]
           r == [d EXCEPT !.ready[p] = IF FALSE THEN Append(Tail(@), d.cur) ELSE @,
                          !.rotate = FALSE, !.need = FALSE]
           next == Head(r.ready[HighestReady(r)])
           e == IF next = d.cur THEN r ELSE [r EXCEPT !.cur = next, !.slice = SliceTicks]
<1>1. Reschedule(d) = e
  BY DEF Reschedule
<1>2. r.ready = d.ready /\ ~r.rotate /\ "rotate" \in DOMAIN r /\ "ready" \in DOMAIN r
      /\ "cur" \in DOMAIN r /\ "slice" \in DOMAIN r
  BY DEF KernelType
<1> HIDE DEF r, next
<1> QED BY <1>1, <1>2

LEMMA PreemptTurns ==
  ASSUME NEW d, d \in KernelType, ~d.rotate
  PROVE  Preempt(d, FALSE).ready = d.ready /\ ~Preempt(d, FALSE).rotate
<1> DEFINE b == d.need \/ HighestReady(d) > d.prio[d.cur]
           n == [d EXCEPT !.need = b]
<1>1. n = [d EXCEPT !.need = @ \/ HighestReady(d) > d.prio[d.cur]]
  OBVIOUS
<1>2. b \in BOOLEAN
  BY DEF KernelType
<1>3. Preempt(d, FALSE) = IF n.need THEN Reschedule(n) ELSE n
  BY <1>1 DEF Preempt
<1> HIDE DEF b
<1>4. n \in KernelType /\ n.ready = d.ready /\ ~n.rotate
  BY <1>2 DEF KernelType
<1> HIDE DEF n
<1>5. Reschedule(n).ready = n.ready /\ ~Reschedule(n).rotate
  BY <1>4, RescheduleTurns
<1> QED BY <1>3, <1>4, <1>5

\* k_set_prio(): a thread goes to the list of another priority, where it has no turn.
LEMMA SetPrioTurns ==
  ASSUME NEW d, Lists(d), NEW t \in Thread, NEW p \in Prio, NEW r, Kept(r, d.ready),
         \A u \in Reached(d, t, p) : d.state[u] = "ready" => u \notin Elems(r[p])
  PROVE  Kept(r, SetPrio(d, t, p).ready)
<1> DEFINE e == SetPrio(d, t, p)
           R == Reached(d, t, p)
<1>1. Raised(d, e, t, p) /\ IF d.prio[t] = p THEN e = d ELSE Spread(d, e, t, p)
  BY SetPrioEffect
<1> HIDE DEF e
<1>2. d.ready \in [Prio -> Seq(Thread)] /\ d.prio \in [Thread -> Prio] /\ R \subseteq Thread
  BY ReachedClosed DEF Lists, KernelType
<1>3. CASE d.prio[t] = p
  BY <1>1, <1>3 DEF e
<1>4. CASE d.prio[t] # p
  <2>1. Relisted(d, R, p, e.ready)
    BY <1>1, <1>4 DEF Spread
  <2> HIDE DEF R
  <2>2. CASE e.ready = d.ready
    BY <2>2 DEF e
  <2>3. ASSUME NEW u \in R, d.state[u] = "ready", Rejoined(d, u, p, e.ready)
        PROVE  Kept(r, e.ready)
    <3> DEFINE l == [d.ready EXCEPT ![d.prio[u]] = Without(@, u)]
               atHead == Head(d.ready[d.prio[u]]) = u /\ u = d.cur
    <3>1. e.ready = [l EXCEPT ![p] = IF atHead THEN <<u>> \o @ ELSE Append(@, u)]
      BY <2>3 DEF Rejoined
    <3>2. u \in Thread /\ d.prio[u] \in Prio /\ u \notin Elems(r[p])
      BY <2>3, <1>2 DEF R
    <3>3. ASSUME NEW q \in Prio
          PROVE  l[q] \in Seq(Thread) /\ Ordered(l[q], Turns(r[q]))
      <4>1. l[q] = IF q = d.prio[u] THEN Without(d.ready[q], u) ELSE d.ready[q]
        BY <1>2, <3>2
      <4>2. d.ready[q] \in Seq(Thread) /\ Ordered(d.ready[q], Turns(r[q]))
        BY <1>2 DEF Kept
      <4> HIDE DEF l
      <4>3. /\ Without(d.ready[q], u) \in Seq(Thread)
            /\ Ordered(Without(d.ready[q], u), Turns(r[q]))
        BY <4>2, WithoutElems, WithoutOrdered
      <4> QED BY <4>1, <4>2, <4>3
    <3>4. DOMAIN l = Prio
      BY <1>2
    <3> HIDE DEF l, atHead
    <3>5. /\ Ordered(Append(l[p], u), Turns(r[p]))
          /\ Ordered(<<u>> \o l[p], Turns(r[p]))
      BY <3>2, <3>3, JoinTurns
    <3>6. \A q \in Prio : e.ready[q] = IF q = p THEN IF atHead THEN <<u>> \o l[p]
                                                   ELSE Append(l[p], u)
                                              ELSE l[q]
      BY <3>1, <3>4
    <3> QED BY <3>3, <3>5, <3>6 DEF Kept
  <2> QED BY <2>1, <2>2, <2>3 DEF Relisted, e
<1> QED BY <1>3, <1>4

\* Of those it reaches, only t can have been in the list of priority p already, and a
\* thread in that list is not moved.
LEMMA NewTurns ==
  ASSUME NEW d, Lists(d), NEW t \in Thread, NEW p \in Prio, d.prio[t] # p,
         NEW u \in Reached(d, t, p)
  PROVE  u \notin Elems(d.ready[p])
<1>1. u \in Thread /\ (u = t \/ p > d.prio[u])
  BY ReachedClosed, ReachedOwner DEF Lists
<1>2. d.prio[u] # p
  <2>1. d.prio[u] \in Nat /\ p \in Nat
    BY <1>1, ListTypes
  <2> QED BY <1>1, <2>1
<1> QED BY <1>2 DEF Lists, ReadyLists

LEMMA SetPrioRotate ==
  ASSUME NEW d, "rotate" \in DOMAIN d, NEW t, NEW p
  PROVE  SetPrio(d, t, p).rotate = d.rotate
<1> DEFINE R       == Reached(d, t, p)
           prio    == [u \in Thread |-> IF u \in R THEN p ELSE d.prio[u]]
           Moved(q) == {u \in R : d.state[u] = "blocked" /\ d.on[u] = q}
           waitq   == [q \in Obj |->
                        IF Moved(q) = {} THEN d.waitq[q]
                        ELSE LET u == CHOOSE v \in Moved(q) : TRUE
                             IN  InsertBefore(Without(d.waitq[q], u), u,
                                              {v \in Thread : prio[v] < p})]
           Queued  == {u \in R : d.state[u] = "ready"}
           k1      == [d EXCEPT !.prio = prio, !.waitq = waitq]
           u0      == CHOOSE v \in Queued : TRUE
           hd      == Head(d.ready[d.prio[u0]]) = u0 /\ u0 = d.cur
           k0      == [k1 EXCEPT !.ready[d.prio[u0]] = Without(@, u0)]
           k2      == IF Queued = {} THEN k1 ELSE ReadyAdd(k0, u0, hd)
           need    == \/ d.cur \in R /\ HighestReady(k2) > p
                      \/ \E u \in R \ {d.cur} : d.state[u] = "ready" /\ p > prio[d.cur]
           e       == [k2 EXCEPT !.need = @ \/ need]
<1>1. SetPrio(d, t, p) = IF d.prio[t] = p THEN d ELSE e
  BY Zenon DEF SetPrio
<1> HIDE DEF prio, waitq
<1>2. k1.rotate = d.rotate /\ DOMAIN k1 = DOMAIN d
  OBVIOUS
<1> HIDE DEF k1
<1>3. k0.rotate = d.rotate /\ DOMAIN k0 = DOMAIN d
  BY <1>2
<1> HIDE DEF k0, u0, hd
<1>4. k2.rotate = d.rotate /\ DOMAIN k2 = DOMAIN d
  <2>1. ReadyAdd(k0, u0, hd).rotate = d.rotate /\ DOMAIN ReadyAdd(k0, u0, hd) = DOMAIN d
    BY <1>2, <1>3 DEF ReadyAdd
  <2> QED BY <2>1, <1>2
<1> HIDE DEF k2, need
<1>5. e.rotate = d.rotate
  BY <1>2, <1>4
<1> QED BY <1>1, <1>5

LEMMA WakeRotate ==
  ASSUME NEW d, "rotate" \in DOMAIN d, NEW t, NEW result
  PROVE  Wake(d, t, result).rotate = d.rotate /\ "rotate" \in DOMAIN Wake(d, t, result)
<1> DEFINE k1 == IF d.on[t] # None THEN WaitqRemove(d, t) ELSE d
           k2 == IF t \in Elems(d.timeouts) THEN TimeoutRemove(k1, t) ELSE k1
           k3 == ReadyAdd([k2 EXCEPT !.result[t] = result], t, FALSE)
           e  == [k3 EXCEPT !.need = @ \/ d.prio[t] > d.prio[d.cur]]
<1>1. Wake(d, t, result) = e
  BY DEF Wake
<1>2. k1.rotate = d.rotate /\ DOMAIN k1 = DOMAIN d
  BY DEF WaitqRemove
<1> HIDE DEF k1
<1>3. k2.rotate = d.rotate /\ DOMAIN k2 = DOMAIN d
  BY <1>2 DEF TimeoutRemove
<1> HIDE DEF k2
<1>4. k3.rotate = d.rotate /\ DOMAIN k3 = DOMAIN d
  BY <1>3 DEF ReadyAdd
<1> HIDE DEF k3
<1> QED BY <1>1, <1>4

\* Who becomes ready goes behind those that were ready before.
LEMMA JoinKept ==
  ASSUME NEW d, Lists(d), NEW e, NEW t \in Thread, NEW q \in Prio,
         e.ready = [d.ready EXCEPT ![q] = Append(@, t)],
         NEW r, Kept(r, d.ready), t \notin Elems(r[q])
  PROVE  Kept(r, e.ready)
<1>1. d.ready \in [Prio -> Seq(Thread)]
  BY DEF Lists, KernelType
<1>2. Ordered(Append(d.ready[q], t), Turns(r[q]))
  <2>1. d.ready[q] \in Seq(Thread) /\ Ordered(d.ready[q], Turns(r[q]))
    BY <1>1 DEF Kept
  <2> QED BY <2>1, JoinTurns
<1>3. \A h \in Prio : e.ready[h] = IF h = q THEN Append(d.ready[q], t) ELSE d.ready[h]
  BY <1>1
<1> QED BY <1>2, <1>3 DEF Kept

\* A thread that leaves its list, to wait or for good, leaves the others their turns.
LEMMA LeaveTurns ==
  ASSUME NEW d, Lists(d), NEW t \in Thread, NEW st, NEW result, NEW r, Kept(r, d.ready)
  PROVE  /\ Kept(r, Leave(d, t, st, result).ready)
         /\ Leave(d, t, st, result).rotate = d.rotate
<1> DEFINE e == Leave(d, t, st, result)
           q == d.prio[t]
<1>1. q \in Prio /\ d.ready \in [Prio -> Seq(Thread)] /\ d \in KernelType
  BY DEF Lists, KernelType
<1>2. e.ready = [d.ready EXCEPT ![q] = Without(@, t)] /\ e.rotate = d.rotate
  BY <1>1 DEF Leave, ReadyRemove, KernelType
<1>3. Ordered(Without(d.ready[q], t), Turns(r[q]))
  <2>1. d.ready[q] \in Seq(Thread) /\ Ordered(d.ready[q], Turns(r[q]))
    BY <1>1 DEF Kept
  <2> QED BY <2>1, WithoutOrdered
<1> HIDE DEF e, q
<1>4. \A h \in Prio : e.ready[h] = IF h = q THEN Without(d.ready[q], t) ELSE d.ready[h]
  BY <1>1, <1>2
<1>5. Kept(r, e.ready)
  BY <1>3, <1>4 DEF Kept
<1> QED BY <1>2, <1>5 DEF e

LEMMA BlockTurns ==
  ASSUME NEW d, Lists(d), d.state[d.cur] = "ready", ~d.rotate,
         NEW q \in Obj \cup {None}, NEW ms \in Nat \cup {None}, NEW r, Kept(r, d.ready)
  PROVE  Kept(r, Block(d, q, ms).ready) /\ ~Block(d, q, ms).rotate
<1> DEFINE t  == d.cur
           k1 == Leave(d, t, "blocked", "ok")
           k2 == IF q # None THEN WaitqAdd(k1, q, t) ELSE k1
           k3 == IF ms # None THEN TimeoutAdd(k2, t, ms) ELSE k2
<1>0. t \in Thread
  BY ListTypes
<1>1. Block(d, q, ms) = Reschedule(k3)
  BY DEF Block, Leave
<1>2. k3 \in KernelType
  <2>1. k3 = Queue(d, t, q, ms)
    BY DEF Queue
  <2>2. Waiting(d, Queue(d, t, q, ms), t, q)
    BY <1>0, QueueEffect
  <2> HIDE DEF k3
  <2> QED BY <2>1, <2>2 DEF Waiting, Lists
<1>3. Kept(r, k1.ready) /\ k1.rotate = d.rotate
  BY <1>0, LeaveTurns
<1>4. DOMAIN k1 = DOMAIN d /\ "ready" \in DOMAIN d /\ "rotate" \in DOMAIN d
  BY DEF Leave, ReadyRemove, Lists, KernelType
<1> HIDE DEF k1, t
<1>5. k2.ready = k1.ready /\ k2.rotate = k1.rotate /\ DOMAIN k2 = DOMAIN k1
  BY <1>4 DEF WaitqAdd
<1> HIDE DEF k2
<1>6. k3.ready = k1.ready /\ k3.rotate = k1.rotate
  BY <1>4, <1>5 DEF TimeoutAdd
<1> HIDE DEF k3
<1>7. Reschedule(k3).ready = k3.ready /\ ~Reschedule(k3).rotate
  BY <1>2, <1>3, <1>6, RescheduleTurns
<1> QED BY <1>1, <1>3, <1>6, <1>7
-----------------------------------------------------------------------------
(* The calls. *)

\* Between two steps nobody has asked for the running thread to be moved on, and it is
\* the first of its list even while an interrupt handler wakes others.
TurnInv == SInv /\ Front(k) /\ ~k.rotate

\* A step that leaves everybody their turn.
Fair(d, e) == Kept(d.ready, e.ready) /\ ~e.rotate

LEMMA SameTurns ==
  ASSUME NEW d, Lists(d), NEW e, e.ready = d.ready
  PROVE  Kept(d.ready, e.ready)
<1>1. \A p \in Prio : d.ready[p] \in Seq(Thread) /\ Inj(d.ready[p])
  BY DEF Lists, KernelType, ReadyLists
<1> QED BY <1>1, TurnsSame DEF Kept

LEMMA TurnFacts ==
  ASSUME TurnInv
  PROVE  /\ Good(k, call, {}) /\ Lists(k) /\ k \in KernelType /\ ~k.rotate
         /\ k.cur \in Thread /\ k.state[k.cur] = "ready" /\ Kept(k.ready, k.ready)
         /\ k.prio \in [Thread -> Prio]
<1>1. Good(k, call, {}) /\ Lists(k) /\ k \in KernelType /\ ~k.rotate
  BY DEF TurnInv, SInv, IInv, Good, Lists
<1>2. Kept(k.ready, k.ready)
  BY <1>1, SameTurns
<1> QED BY <1>1, <1>2, GoodTypes, ListTypes DEF Good, Alive, KernelType

LEMMA LockTurns ==
  ASSUME TurnInv, NEW t \in Threads, NEW m \in Mutex, Lock(t, m)
  PROVE  Fair(k, k')
<1>0. /\ Good(k, call, {}) /\ Lists(k) /\ k \in KernelType /\ ~k.rotate
      /\ k.cur = t /\ k.state[t] = "ready" /\ Kept(k.ready, k.ready) /\ t \in Thread
  BY TurnFacts DEF Lock, Free, Threads
<1>1. CASE LockFree(t, m) \/ LockAgain(t, m)
  <2>1. k'.ready = k.ready /\ k'.rotate = k.rotate
    BY <1>0, <1>1 DEF LockFree, LockAgain, Own, KernelType
  <2> QED BY <2>1, <1>0 DEF Fair
<1>2. ASSUME NEW ms \in Waits, LockBlock(t, m, ms) PROVE Fair(k, k')
  <2> DEFINE k1 == [k EXCEPT !.blockedOn[t] = m]
             o  == k.owner[m]
             p  == k.prio[t]
             k2 == IF p > k.prio[o] THEN SetPrio(k1, o, p) ELSE k1
  <2>1. /\ k' = Block(k2, m, ms) /\ o \notin {None, t} /\ ms \in Nat \cup {None}
        /\ m \in Obj \cup {None} /\ m # None
    BY <1>2, KernelAssumption, ThreadAssumption DEF LockBlock
  <2>2. o \in Thread /\ p \in Prio /\ p \in Nat /\ k.prio[o] \in Nat
    <3>1. o \in Thread
      BY <2>1, <1>0, GoodTypes
    <3>2. p \in Prio /\ Prio \subseteq Nat /\ k.prio \in [Thread -> Prio]
      BY <1>0, ListTypes DEF KernelType
    <3> QED BY <3>1, <3>2
  <2>3. Good(k1, call, {}) /\ Lists(k1)
    <3>1. call[t] = None
      BY DEF Lock, Free
    <3>2. Good([k EXCEPT !.blockedOn[k.cur] = m], call, {})
      BY <1>0, <3>1, BlockedOnGood
    <3> QED BY <3>2, <1>0 DEF Good
  <2>4. /\ k1.ready = k.ready /\ k1.rotate = k.rotate /\ k1.prio = k.prio
        /\ k1.state = k.state /\ k1.cur = k.cur
    BY <1>0 DEF KernelType
  <2> HIDE DEF k1, o, p
  <2>5. /\ Lists(k2) /\ k2.state[k2.cur] = "ready" /\ ~k2.rotate
        /\ Kept(k.ready, k2.ready)
    <3>1. CASE p > k.prio[o]
      <4> DEFINE e == SetPrio(k1, o, p)
      <4>1. k1.prio[o] # p
        BY <3>1, <2>2, <2>4
      <4>2. Raised(k1, e, o, p) /\ e.rotate = k1.rotate
        <5>1. "rotate" \in DOMAIN k1
          BY <2>3 DEF Lists, KernelType
        <5> QED BY <5>1, <2>2, <2>3, SetPrioEffect, SetPrioRotate
      <4>3. \A u \in Reached(k1, o, p) : u \notin Elems(k.ready[p])
        BY <4>1, <2>2, <2>3, <2>4, NewTurns
      <4>4. Kept(k.ready, e.ready)
        BY <4>3, <2>2, <2>3, <2>4, <1>0, SetPrioTurns
      <4>5. k2 = e
        BY <3>1
      <4> HIDE DEF e, k2
      <4> QED BY <4>2, <4>4, <4>5, <2>4, <1>0 DEF Raised, SameThreads
    <3>2. CASE ~(p > k.prio[o])
      BY <3>2, <2>3, <2>4, <1>0
    <3> QED BY <3>1, <3>2
  <2> HIDE DEF k2
  <2> QED BY <2>1, <2>5, BlockTurns DEF Fair
<1> QED BY <1>1, <1>2 DEF Lock

LEMMA LockReturnTurns ==
  ASSUME TurnInv, NEW t \in Threads, LockReturn(t)
  PROVE  Fair(k, k')
<1> DEFINE m  == call[t]
           d  == [k EXCEPT !.blockedOn[t] = None]
           o  == k.owner[m]
           p  == Ceiling(d, o)
<1>0. /\ Good(k, call, {}) /\ Lists(k) /\ k \in KernelType /\ ~k.rotate
      /\ k.cur = t /\ k.state[t] = "ready" /\ Kept(k.ready, k.ready) /\ t \in Thread
      /\ m # None /\ m \in Mutex
      /\ k' = IF k.result[t] # "ok" /\ o # None THEN SetPrio(d, o, p) ELSE d
  <2>1. /\ Good(k, call, {}) /\ Lists(k) /\ k \in KernelType /\ ~k.rotate
        /\ k.state[k.cur] = "ready" /\ Kept(k.ready, k.ready) /\ t \in Thread
    BY TurnFacts DEF Threads
  <2>2. m \in Mutex \cup {None}
    BY <2>1, GoodTypes
  <2> QED BY <2>1, <2>2 DEF LockReturn
<1> HIDE DEF m
<1>1. /\ SameRun(k, d) /\ SameWaits(k, d) /\ d.on = k.on /\ d.rotate = k.rotate
      /\ d \in KernelType
  <2>1. None \in Mutex \cup {None}
    OBVIOUS
  <2> QED BY <1>0, <2>1 DEF KernelType, SameRun, SameWaits
<1>2. Lists(d)
  BY <1>0, <1>1, SameLists DEF SameRun, SameWaits
<1>3. CASE k.result[t] # "ok" /\ o # None
  <2>1. k' = SetPrio(d, o, p)
    BY <1>0, <1>3
  <2>2. o \in Thread
    BY <1>0, <1>3 DEF KernelType
  <2>3. p \in Prio
    BY <2>2, <1>2, CeilingEffect
  <2> HIDE DEF p, o, d
  <2>4. SetPrio(d, o, p).rotate = d.rotate
    <3>1. "rotate" \in DOMAIN d
      BY <1>1 DEF KernelType
    <3> QED BY <3>1, SetPrioRotate
  <2>5. CASE d.prio[o] = p
    <3>1. SetPrio(d, o, p) = d
      BY <2>5 DEF SetPrio
    <3> QED BY <3>1, <2>1, <1>0, <1>1 DEF Fair, SameRun
  <2>6. CASE d.prio[o] # p
    <3>1. \A u \in Reached(d, o, p) : u \notin Elems(d.ready[p])
      BY <2>2, <2>3, <2>6, <1>2, NewTurns
    <3>2. d.ready = k.ready
      BY <1>1 DEF SameRun
    <3>3. Kept(k.ready, SetPrio(d, o, p).ready)
      BY <3>1, <3>2, <2>2, <2>3, <1>0, <1>2, SetPrioTurns
    <3> QED BY <3>3, <2>1, <2>4, <1>0, <1>1 DEF Fair
  <2> QED BY <2>5, <2>6
<1>4. CASE ~(k.result[t] # "ok" /\ o # None)
  <2>1. k' = d
    BY <1>0, <1>4
  <2> QED BY <2>1, <1>0, <1>1 DEF Fair, SameRun
<1> QED BY <1>3, <1>4

\* A ready thread waits for no mutex, so its change of priority reaches no other.
LEMMA ReadyTurns ==
  ASSUME NEW d, Lists(d), NEW t \in Thread, d.state[t] = "ready", NEW p \in Prio,
         NEW r, Kept(r, d.ready), d.prio[t] # p => t \notin Elems(r[p])
  PROVE  /\ Kept(r, SetPrio(d, t, p).ready)
         /\ \A u \in Thread \ {t} : SetPrio(d, t, p).prio[u] = d.prio[u]
<1> DEFINE e == SetPrio(d, t, p)
<1>1. Reached(d, t, p) \subseteq {t}
  <2>1. Closed(d, p, {t})
    BY DEF Closed, Inherits
  <2> QED BY <2>1, ReachedLeast
<1>2. IF d.prio[t] = p THEN e = d ELSE Spread(d, e, t, p)
  BY SetPrioEffect
<1>3. CASE d.prio[t] = p
  BY <1>2, <1>3
<1>4. CASE d.prio[t] # p
  <2>1. Kept(r, e.ready)
    BY <1>1, <1>4, SetPrioTurns
  <2> HIDE DEF e
  <2>2. \A u \in Thread \ {t} : e.prio[u] = d.prio[u]
    BY <1>1, <1>2, <1>4 DEF Spread
  <2> QED BY <2>1, <2>2 DEF e
<1> QED BY <1>3, <1>4

\* mutex_unlock: the new owner was not ready, and neither it nor the caller comes before
\* anyone in a list it was in.
LEMMA UnlockTurns ==
  ASSUME TurnInv, NEW t \in Threads, NEW m \in Mutex, Unlock(t, m)
  PROVE  Fair(k, k')
<1> DEFINE k0 == [k EXCEPT !.depth[m] = @ - 1]
           k1 == [k0 EXCEPT !.held[t] = @ \ {m}]
           k2 == IF k1.waitq[m] # <<>> THEN HandOver(k1, m)
                 ELSE [k1 EXCEPT !.owner[m] = None]
           p  == Ceiling(k2, t)
           e  == IF k0.depth[m] > 0 THEN k0 ELSE Preempt(SetPrio(k2, t, p), FALSE)
<1>0. /\ Good(k, call, {}) /\ Lists(k) /\ k \in KernelType /\ ~k.rotate
      /\ k.cur = t /\ k.state[t] = "ready" /\ Kept(k.ready, k.ready) /\ t \in Thread
      /\ k.prio \in [Thread -> Prio] /\ k.owner[m] = t /\ call[t] = None /\ k' = e
  BY TurnFacts DEF Unlock, Free, Threads
<1>1. k.depth \in [Mutex -> Nat] /\ k.depth[m] # 0
  BY <1>0, GoodTypes DEF Good, Owners
<1>2. k0.depth[m] = k.depth[m] - 1
  BY <1>0, <1>1 DEF KernelType
<1>3. CASE k0.depth[m] > 0
  <2>1. k0.ready = k.ready /\ k0.rotate = k.rotate
    BY <1>0 DEF KernelType
  <2>2. e = k0
    BY <1>3
  <2> HIDE DEF e, k0
  <2> QED BY <2>1, <2>2, <1>0 DEF Fair
<1>4. CASE ~(k0.depth[m] > 0)
  <2>1. k1 = [k EXCEPT !.depth[m] = 0, !.held[t] = @ \ {m}]
    <3>1. k.depth[m] - 1 = 0
      BY <1>1, <1>2, <1>4
    <3> QED BY <3>1, <1>0 DEF KernelType
  <2>2. k1.waitq = k.waitq /\ k1.rotate = k.rotate /\ DOMAIN k1 = DOMAIN k
        /\ "rotate" \in DOMAIN k
    BY <1>0, <2>1 DEF KernelType
  <2>3. e = Preempt(SetPrio(k2, t, p), FALSE)
    BY <1>4
  <2> HIDE DEF e, k0, k1, p
  <2>4. /\ Lists(k2) /\ k2.state[t] = "ready" /\ Kept(k.ready, k2.ready)
        /\ k2.prio[t] = k.prio[t] /\ k2.rotate = k.rotate
    <3>1. CASE k.waitq[m] # <<>>
      <4>1. k2 = HandOver(k1, m)
        BY <3>1, <2>2
      <4> HIDE DEF k2
      <4>2. Dropped(k, k1, t, m)
        BY <2>1, <1>0 DEF Dropped
      <4>3. HandsOver(k, k1, call, t, m)
        BY <4>2, <3>1, <1>0, HandedGood
      <4>4. PICK d, w : /\ Good(d, call, {t}) /\ Handed(k, d, t, m, w)
                        /\ HandOver(k1, m) = SetPrio(d, w, Ceiling(d, w))
        BY <4>3 DEF HandsOver
      <4> DEFINE g == Ceiling(d, w)
      <4>5. /\ w \in Thread /\ w # t /\ k.state[w] = "blocked" /\ d.prio = k.prio
            /\ d.state[w] = "ready" /\ d.state[t] = "ready" /\ Lists(d)
            /\ d.ready = [k.ready EXCEPT ![k.prio[w]] = Append(@, w)]
        BY <4>4, <1>0, GoodTypes DEF Handed, Good, Requeued
      <4>6. g \in Prio /\ k.prio[w] \in Prio
        BY <4>5, <1>0, CeilingEffect
      <4>7. \A q \in Prio : w \notin Elems(k.ready[q])
        BY <4>5, <1>0 DEF Lists, ReadyLists
      <4>8. Kept(k.ready, d.ready)
        BY <4>5, <4>6, <4>7, <1>0, JoinKept
      <4> HIDE DEF g
      <4> DEFINE f == SetPrio(d, w, g)
      <4>9. /\ Kept(k.ready, f.ready) /\ f.prio[t] = k.prio[t]
        BY <4>5, <4>6, <4>7, <4>8, <1>0, ReadyTurns
      <4>10. Raised(d, f, w, g)
        BY <4>5, <4>6, SetPrioEffect
      <4>11. k2 = f
        BY <4>1, <4>4 DEF g
      <4> HIDE DEF f
      <4>12. Lists(k2) /\ k2.state[t] = "ready"
        BY <4>5, <4>10, <4>11 DEF Raised, SameThreads
      <4>13. HandOver(k1, m).rotate = k.rotate
        <5> DEFINE v  == Head(k1.waitq[m])
                   d1 == [k1 EXCEPT !.owner[m] = v, !.depth[m] = 1, !.blockedOn[v] = None]
                   d2 == Wake(d1, v, "ok")
                   d3 == [d2 EXCEPT !.held[v] = @ \cup {m}]
        <5>1. HandOver(k1, m) = SetPrio(d3, v, Ceiling(d3, v))
          BY DEF HandOver
        <5>2. d1.rotate = k.rotate /\ "rotate" \in DOMAIN d1
          BY <2>2
        <5> HIDE DEF d1, v
        <5>3. d2.rotate = k.rotate /\ "rotate" \in DOMAIN d2
          BY <5>2, WakeRotate
        <5> HIDE DEF d2
        <5>4. d3.rotate = k.rotate /\ "rotate" \in DOMAIN d3
          BY <5>3
        <5> HIDE DEF d3
        <5> QED BY <5>1, <5>4, SetPrioRotate
      <4> QED BY <4>1, <4>9, <4>11, <4>12, <4>13
    <3>2. CASE k.waitq[m] = <<>>
      <4>1. k2 = [k EXCEPT !.depth[m] = 0, !.held[t] = @ \ {m}, !.owner[m] = None]
        BY <3>2, <2>1, <2>2, <1>0 DEF KernelType
      <4> HIDE DEF k2
      <4>2. Good(k2, call, {t})
        BY <3>2, <4>1, <1>0, ReleaseGood
      <4>3. /\ k2.ready = k.ready /\ k2.prio = k.prio /\ k2.state = k.state
            /\ k2.rotate = k.rotate
        BY <4>1, <1>0 DEF KernelType
      <4> QED BY <4>2, <4>3, <1>0 DEF Good
    <3> QED BY <3>1, <3>2
  <2> HIDE DEF k2
  <2>5. p \in Prio
    BY <2>4, <1>0, CeilingEffect DEF p
  <2>6. k2.prio[t] # p => t \notin Elems(k.ready[p])
    BY <2>4, <2>5, <1>0 DEF Lists, ReadyLists
  <2> DEFINE f == SetPrio(k2, t, p)
  <2>7. Kept(k.ready, f.ready)
    BY <2>4, <2>5, <2>6, <1>0, ReadyTurns
  <2>8. f \in KernelType
    BY <2>4, <2>5, <1>0, SetPrioEffect DEF Raised, Lists
  <2>9. f.rotate = k.rotate
    <3>1. "rotate" \in DOMAIN k2
      BY <2>4 DEF Lists, KernelType
    <3> QED BY <3>1, <2>4, SetPrioRotate
  <2> HIDE DEF f
  <2>10. Preempt(f, FALSE).ready = f.ready /\ ~Preempt(f, FALSE).rotate
    BY <2>8, <2>9, <1>0, PreemptTurns
  <2> QED BY <2>3, <2>7, <2>10, <1>0 DEF Fair, f
<1> QED BY <1>3, <1>4

LEMMA CreateTurns ==
  ASSUME TurnInv, NEW t \in Threads, NEW n \in Threads, Create(t, n)
  PROVE  Fair(k, k')
<1> DEFINE d == Created(k, n)
           b == BasePrio[n]
<1>0. /\ Good(k, call, {}) /\ Lists(k) /\ k \in KernelType /\ ~k.rotate
      /\ Kept(k.ready, k.ready) /\ n \in Thread /\ k.state[n] = "none"
      /\ k' = Preempt(d, FALSE) /\ b \in Prio
  BY TurnFacts, KernelAssumption DEF Create, Created, Threads
<1>1. Good(d, call, {}) /\ Creation(k, d, n)
  BY <1>0, CreatedGood
<1>2. d.rotate = k.rotate
  BY <1>0 DEF Created, ReadyAdd, KernelType
<1> HIDE DEF d
<1>3. d.ready = [k.ready EXCEPT ![b] = Append(@, n)] /\ d \in KernelType
  BY <1>1 DEF Creation, Good, Lists
<1>4. n \notin Elems(k.ready[b])
  BY <1>0 DEF Lists, ReadyLists
<1> HIDE DEF b
<1>5. Kept(k.ready, d.ready)
  BY <1>0, <1>3, <1>4, JoinKept
<1>6. Preempt(d, FALSE).ready = d.ready /\ ~Preempt(d, FALSE).rotate
  BY <1>0, <1>2, <1>3, PreemptTurns
<1> QED BY <1>0, <1>5, <1>6 DEF Fair

LEMMA SleepTurns ==
  ASSUME TurnInv, NEW t \in Threads, NEW ms \in Waits \ {None}, Sleep(t, ms)
  PROVE  Fair(k, k')
<1>1. k' = Block(k, None, ms) /\ None \in Obj \cup {None} /\ ms \in Nat \cup {None}
  BY KernelAssumption DEF Sleep
<1> QED BY <1>1, TurnFacts, BlockTurns DEF Fair

LEMMA ExitTurns ==
  ASSUME TurnInv, NEW t \in Threads, Exit(t)
  PROVE  Fair(k, k')
<1> DEFINE d == Leave(k, t, "dead", k.result[t])
<1>0. /\ Good(k, call, {}) /\ Lists(k) /\ k \in KernelType /\ ~k.rotate /\ t \in Thread
      /\ k.state[t] = "ready" /\ Kept(k.ready, k.ready) /\ k.result \in [Thread -> Results]
      /\ k.result[t] \in Results /\ "dead" \in {"blocked", "dead"}
  BY TurnFacts, GoodTypes DEF Exit, Free, Threads
<1>1. k' = Reschedule(d)
  <2>1. [k.result EXCEPT ![t] = k.result[t]] = k.result
    BY <1>0
  <2>2. d = [ReadyRemove(k, t) EXCEPT !.state[t] = "dead"]
    BY <1>0, <2>1 DEF Leave, ReadyRemove, KernelType
  <2> QED BY <2>2 DEF Exit
<1>2. d \in KernelType
  BY <1>0, LeaveEffect DEF Left, Lists
<1>3. Kept(k.ready, d.ready) /\ d.rotate = k.rotate
  BY <1>0, LeaveTurns
<1> HIDE DEF d
<1>4. Reschedule(d).ready = d.ready /\ ~Reschedule(d).rotate
  BY <1>0, <1>2, <1>3, RescheduleTurns
<1> QED BY <1>1, <1>3, <1>4 DEF Fair

LEMMA SetPriorityTurns ==
  ASSUME TurnInv, NEW t \in Threads, NEW u \in Threads, NEW p \in NewPrios,
         SetPriority(t, u, p)
  PROVE  Fair(k, k')
<1> DEFINE d == [k EXCEPT !.base[u] = p]
           g == Ceiling(d, u)
           e == SetPrio(d, u, g)
<1>0. /\ Lists(k) /\ k \in KernelType /\ ~k.rotate /\ Kept(k.ready, k.ready)
      /\ k' = Preempt(e, FALSE) /\ u \in Thread /\ p \in Prio
      /\ k.base \in [Thread -> Prio]
  BY TurnFacts, KernelAssumption DEF SetPriority, Threads, KernelType
<1>1. /\ d \in KernelType /\ SameRun(k, d) /\ SameWaits(k, d) /\ d.on = k.on
      /\ d.rotate = k.rotate /\ "rotate" \in DOMAIN d
  BY <1>0 DEF KernelType, SameRun, SameWaits
<1> HIDE DEF d
<1>2. Lists(d) /\ d.ready = k.ready
  BY <1>0, <1>1, SameLists DEF SameRun, SameWaits
<1>3. g \in Prio
  BY <1>0, <1>2, CeilingEffect
<1> HIDE DEF g
<1>4. Kept(k.ready, e.ready)
  <2>1. CASE d.prio[u] = g
    <3>1. e = d
      BY <2>1 DEF SetPrio
    <3> QED BY <3>1, <1>0, <1>2
  <2>2. CASE d.prio[u] # g
    <3>1. \A v \in Reached(d, u, g) : v \notin Elems(d.ready[g])
      BY <2>2, <1>0, <1>2, <1>3, NewTurns
    <3> QED BY <3>1, <1>0, <1>2, <1>3, SetPrioTurns
  <2> QED BY <2>1, <2>2
<1>5. e \in KernelType /\ e.rotate = k.rotate
  BY <1>0, <1>1, <1>2, <1>3, SetPrioEffect, SetPrioRotate DEF Raised, Lists
<1> HIDE DEF e
<1>6. Preempt(e, FALSE).ready = e.ready /\ ~Preempt(e, FALSE).rotate
  BY <1>0, <1>5, PreemptTurns
<1> QED BY <1>0, <1>4, <1>6 DEF Fair

LEMMA SameListsTurns ==
  ASSUME TurnInv, Reap \/ TickBegin
  PROVE  Fair(k, k') /\ k'.ready = k.ready /\ k'.cur = k.cur /\ k'.prio = k.prio
<1>1. k'.ready = k.ready /\ k'.rotate = k.rotate /\ k'.cur = k.cur /\ k'.prio = k.prio
  BY TurnFacts DEF Reap, TickBegin, KernelType
<1> QED BY <1>1, TurnFacts DEF Fair

LEMMA TickWakeTurns ==
  ASSUME TurnInv, TickWake
  PROVE  Fair(k, k') /\ Front(k')
<1> DEFINE t == Head(k.timeouts)
           e == Wake(k, t, "timeout")
<1>0. /\ Lists(k) /\ k \in KernelType /\ ~k.rotate /\ Kept(k.ready, k.ready)
      /\ k.timeouts # <<>> /\ k.timeouts \in Seq(Thread) /\ k.state[k.cur] = "ready"
      /\ k' = e /\ "timeout" \in Results /\ "rotate" \in DOMAIN k
      /\ k.prio \in [Thread -> Prio]
  BY TurnFacts, ListTypes DEF TickWake, Due, Results, KernelType
<1>1. t \in Thread /\ k.state[t] = "blocked"
  <2>1. t \in Thread /\ t \in Elems(k.timeouts)
    BY <1>0 DEF Elems
  <2> QED BY <2>1, <1>0 DEF Lists, TimeoutList
<1> HIDE DEF t
<1>2. WokenUp(k, e, t, "timeout") /\ Requeued(k, e, t) /\ e.rotate = k.rotate
  BY <1>0, <1>1, WakeEffect, WakeRotate
<1> HIDE DEF e
<1>3. /\ e.prio = k.prio /\ e.cur = k.cur /\ e.state = [k.state EXCEPT ![t] = "ready"]
      /\ e.ready = [k.ready EXCEPT ![k.prio[t]] = Append(@, t)]
      /\ e.need = (k.need \/ k.prio[t] > k.prio[k.cur]) /\ k.state[t] # "ready"
  BY <1>1, <1>2 DEF WokenUp, Requeued
<1>4. Front(e)
  BY <1>0, <1>1, <1>3, WakeFirst DEF TurnInv
<1>5. t \notin Elems(k.ready[k.prio[t]]) /\ k.prio[t] \in Prio
  BY <1>0, <1>1 DEF Lists, ReadyLists
<1>6. Kept(k.ready, e.ready)
  BY <1>0, <1>1, <1>3, <1>5, JoinKept
<1> QED BY <1>0, <1>2, <1>4, <1>6 DEF Fair
-----------------------------------------------------------------------------
(* Who gives up its turn. *)

\* Nobody but c has fallen behind.
Given(r, s, c) == \A p \in Prio : Ordered(s[p], TurnsBut(r[p], c))

\* A list whose head goes to its end, the others staying as they are.
LEMMA HeadGiven ==
  ASSUME NEW d, Lists(d), NEW p \in Prio, d.ready[p] # <<>>, NEW s \in Seq(Thread),
         Turned(s, d.ready[p], 1, Len(d.ready[p])),
         NEW r, r = [d.ready EXCEPT ![p] = s]
  PROVE  Given(d.ready, r, Head(d.ready[p]))
<1> DEFINE c == Head(d.ready[p])
<1>1. /\ d.ready \in [Prio -> Seq(Thread)] /\ \A q \in Prio : Inj(d.ready[q])
  BY DEF Lists, KernelType, ReadyLists
<1>2. Ordered(s, TurnsBut(d.ready[p], c))
  BY <1>1, TurnedBut
<1>3. ASSUME NEW q \in Prio PROVE Ordered(d.ready[q], TurnsBut(d.ready[q], c))
  <2>1. Ordered(d.ready[q], Turns(d.ready[q]))
    BY <1>1, TurnsSame
  <2> HIDE DEF c
  <2> QED BY <2>1 DEF Ordered, Turns, TurnsBut
<1> HIDE DEF c
<1>4. \A q \in Prio : r[q] = IF q = p THEN s ELSE d.ready[q]
  BY <1>1
<1> QED BY <1>2, <1>3, <1>4 DEF Given, c

\* thread_yield: the caller was the first, and is the last.
LEMMA YieldTurns ==
  ASSUME TurnInv, NEW t \in Threads, Yield(t)
  PROVE  Given(k.ready, k'.ready, k.cur) /\ ~k'.rotate
<1> DEFINE d == [k EXCEPT !.rotate = TRUE]
           p == k.prio[k.cur]
           s == k.ready[p]
           a == Append(Tail(s), k.cur)
           r == [d EXCEPT !.ready[p] = IF TRUE THEN Append(Tail(@), d.cur) ELSE @,
                          !.rotate = FALSE, !.need = FALSE]
           next == Head(r.ready[HighestReady(r)])
           e == IF next = d.cur THEN r ELSE [r EXCEPT !.cur = next, !.slice = SliceTicks]
<1>0. /\ Lists(k) /\ k \in KernelType /\ k.cur \in Thread /\ k.state[k.cur] = "ready"
      /\ Head(s) = k.cur
  BY TurnFacts DEF TurnInv, Front
<1>1. p \in Prio /\ s \in Seq(Thread) /\ s # <<>> /\ k.ready \in [Prio -> Seq(Thread)]
  BY <1>0, OwnList DEF KernelType
<1>2. k' = e
  <2>1. d.rotate = TRUE /\ d.cur = k.cur /\ d.state = k.state /\ d.ready = k.ready
        /\ d.prio = k.prio
    BY <1>0 DEF KernelType
  <2>2. d.rotate /\ d.state[d.cur] = "ready" /\ Head(d.ready[p]) = d.cur
    BY <2>1, <1>0
  <2>3. k' = Reschedule(d)
    BY DEF Yield
  <2> HIDE DEF d
  <2> QED BY <2>1, <2>2, <2>3 DEF Reschedule
<1>3. /\ r.ready = [k.ready EXCEPT ![p] = a] /\ ~r.rotate /\ "rotate" \in DOMAIN r
      /\ "ready" \in DOMAIN r
  BY <1>0, <1>1 DEF KernelType
<1> HIDE DEF r, next, a
<1>4. e.ready = r.ready /\ ~e.rotate
  BY <1>3
<1> HIDE DEF e
<1>5. Turned(a, s, 1, Len(s)) /\ a \in Seq(Thread)
  <2> HIDE DEF s
  <2>1. /\ Tail(s) \in Seq(Thread) /\ Len(Tail(s)) = Len(s) - 1 /\ Len(s) \in Nat
        /\ Len(s) >= 1 /\ \A j \in 1 .. Len(s) - 1 : Tail(s)[j] = s[1 + j]
        /\ k.cur = s[1]
    BY <1>0, <1>1
  <2> DEFINE x == Tail(s)
  <2> HIDE DEF x
  <2>2. /\ Append(x, k.cur) \in Seq(Thread) /\ Len(Append(x, k.cur)) = Len(x) + 1
        /\ \A j \in 1 .. Len(x) : Append(x, k.cur)[j] = x[j]
        /\ Append(x, k.cur)[Len(x) + 1] = k.cur
    BY <2>1, <1>0 DEF x
  <2>3. a = Append(x, k.cur) /\ x = Tail(s)
    BY DEF a, x
  <2>4. \A j \in 1 .. Len(s) : a[j] = IF j <= Len(s) - 1 THEN s[1 + j] ELSE s[j - (Len(s) - 1)]
    <3> SUFFICES ASSUME NEW j \in 1 .. Len(s)
                 PROVE  a[j] = IF j <= Len(s) - 1 THEN s[1 + j] ELSE s[j - (Len(s) - 1)]
      OBVIOUS
    <3>1. CASE j <= Len(s) - 1
      <4>1. j \in 1 .. Len(s) - 1
        BY <3>1, <2>1
      <4> QED BY <4>1, <3>1, <2>1, <2>2, <2>3
    <3>2. CASE ~(j <= Len(s) - 1)
      <4>1. j = Len(s) /\ j - (Len(s) - 1) = 1 /\ Len(x) + 1 = j
        <5>1. Len(s) \in Nat /\ Len(x) = Len(s) - 1
          BY <2>1, <2>3
        <5> QED BY <5>1, <3>2
      <4> QED BY <4>1, <3>2, <2>1, <2>2, <2>3
    <3> QED BY <3>1, <3>2
  <2>5. Len(a) = Len(s) /\ a \in Seq(Thread)
    BY <2>1, <2>2, <2>3
  <2> QED BY <2>4, <2>5 DEF Turned
<1>6. Given(k.ready, r.ready, Head(k.ready[p]))
  <2> HIDE DEF p
  <2> QED BY <1>0, <1>1, <1>3, <1>5, HeadGiven DEF s
<1> QED BY <1>0, <1>2, <1>4, <1>6

\* The timer: the first of the list goes behind the others when its slice is over, and
\* no other moves.
LEMMA TickEndTurns ==
  ASSUME TurnInv, TickEnd
  PROVE  /\ ~k'.rotate
         /\ \/ Kept(k.ready, k'.ready)
            \/ irq > 0 /\ k.slice <= irq /\ Given(k.ready, k'.ready, k.cur)
<1> DEFINE d == Slice(k, irq)
           p == k.prio[k.cur]
           s == k.ready[p]
           i == CHOOSE j \in DOMAIN s : s[j] = k.cur
           x == SubSeq(s, i + 1, Len(s)) \o SubSeq(s, 1, i)
<1>0. /\ Lists(k) /\ k \in KernelType /\ k.cur \in Thread /\ k.state[k.cur] = "ready"
      /\ Head(s) = k.cur /\ ~k.rotate /\ Kept(k.ready, k.ready) /\ irq \in Nat /\ irq > 0
      /\ k' = IrqExit(d) /\ k.slice \in Nat
  <2>1. k.slice \in Nat
    BY TurnFacts, ThreadAssumption DEF KernelType
  <2> QED BY <2>1, TurnFacts DEF TurnInv, Front, TickEnd, SInv, IInv
<1>1. p \in Prio /\ s \in Seq(Thread) /\ s # <<>> /\ k.ready \in [Prio -> Seq(Thread)]
      /\ Inj(s)
  BY <1>0, OwnList DEF KernelType, Lists, ReadyLists
<1>2. d \in KernelType
  BY <1>0, SliceEffect DEF Switched, Lists
<1>3. ~d.rotate /\ (d.ready = k.ready \/ (k.slice <= irq /\ d.ready = [k.ready EXCEPT ![p] = x]))
  <2>1. CASE k.slice > irq
    <3>1. d = [k EXCEPT !.slice = @ - irq]
      BY <2>1 DEF Slice
    <3> QED BY <3>1, <1>0 DEF KernelType
  <2>2. CASE ~(k.slice > irq) /\ Len(s) > 1
    <3>1. d = [k EXCEPT !.slice = SliceTicks, !.ready[p] = PastOf(@, k.cur), !.need = TRUE]
      BY <2>2 DEF Slice
    <3>2. PastOf(s, k.cur) = x
      BY DEF PastOf
    <3> HIDE DEF x, d
    <3>3. d.ready = [k.ready EXCEPT ![p] = x] /\ d.rotate = k.rotate
      BY <3>1, <3>2, <1>0, <1>1 DEF KernelType
    <3> QED BY <3>3, <2>2, <1>0
  <2>3. CASE ~(k.slice > irq) /\ ~(Len(s) > 1)
    <3>1. d = [k EXCEPT !.slice = SliceTicks]
      BY <2>3 DEF Slice
    <3> QED BY <3>1, <1>0 DEF KernelType
  <2> QED BY <2>1, <2>2, <2>3
<1> HIDE DEF d
<1>4. k'.ready = d.ready /\ ~k'.rotate
  <2>1. Reschedule(d).ready = d.ready /\ ~Reschedule(d).rotate
    BY <1>2, <1>3, RescheduleTurns
  <2> QED BY <2>1, <1>0, <1>3 DEF IrqExit
<1>5. x \in Seq(Thread) /\ Turned(x, s, 1, Len(s))
  <2> HIDE DEF s
  <2>1. 1 \in DOMAIN s /\ s[1] = k.cur
    BY <1>0, <1>1
  <2>2. i \in DOMAIN s /\ s[i] = k.cur
    BY <2>1
  <2>3. i = 1
    BY <2>1, <2>2, <1>1 DEF Inj
  <2> HIDE DEF i
  <2> QED BY <2>1, <2>3, <1>1, PastElems
<1> HIDE DEF x
<1>6. Given(k.ready, [k.ready EXCEPT ![p] = x], k.cur)
  <2> HIDE DEF p
  <2>1. Given(k.ready, [k.ready EXCEPT ![p] = x], Head(k.ready[p]))
    BY <1>0, <1>1, <1>5, HeadGiven DEF s
  <2> QED BY <2>1, <1>0 DEF s
<1> QED BY <1>0, <1>3, <1>4, <1>6
-----------------------------------------------------------------------------
(* Every step keeps the turns, or is one that gives up a turn. *)

\* What TurnsInOrder says of a step.
InOrder ==
  \A p \in Prio : \A a, b \in Elems(k.ready[p]) :
    Ahead(k.ready[p], a, b) /\ Ahead(k'.ready[p], b, a)
      => a = k.cur /\ (Yield(a) \/ (irq > 0 /\ k.slice <= irq))

\* A pair that changes places is one that the order of the new list rules out.
LEMMA PassedBy ==
  ASSUME NEW r, NEW s, NEW a, NEW b, Ahead(r, a, b), Ahead(s, b, a)
  PROVE  ~Ordered(s, Turns(r)) /\ \A c : Ordered(s, TurnsBut(r, c)) => a = c
<1>1. PICK i, j \in DOMAIN s : i < j /\ s[i] = b /\ s[j] = a
  BY DEF Ahead
<1> QED BY <1>1 DEF Ordered, Turns, TurnsBut

LEMMA FairInOrder ==
  ASSUME Kept(k.ready, k'.ready)
  PROVE  InOrder
BY PassedBy DEF InOrder, Kept

LEMMA StepTurns ==
  ASSUME TurnInv, [Next]_vars
  PROVE  InOrder /\ ~k'.rotate /\ Front(k')
<1>0. SInv'
  BY NextSInv DEF TurnInv
<1>1. ASSUME irq' = 0 PROVE Front(k')
  BY <1>0, <1>1 DEF SInv, First
<1>2. CASE \E t \in Threads : Run(t)
  <2>1. PICK t \in Threads : Run(t)
    BY <1>2
  <2>2. irq = 0 /\ irq' = irq
    BY <2>1, RunIrq
  <2>3. CASE Yield(t)
    <3>1. Given(k.ready, k'.ready, k.cur) /\ ~k'.rotate /\ t = k.cur
      BY <2>3, YieldTurns DEF Yield, Free
    <3>2. InOrder
      BY <3>1, <2>3, PassedBy DEF InOrder, Given
    <3> QED BY <3>1, <3>2, <2>2, <1>1
  <2>4. CASE ~Yield(t)
    <3>1. Fair(k, k')
      <4>1. CASE \E m \in Mutex : Lock(t, m) \/ Unlock(t, m)
        BY <4>1, LockTurns, UnlockTurns
      <4>2. CASE LockReturn(t)
        BY <4>2, LockReturnTurns
      <4>3. CASE \E n \in Threads : Create(t, n)
        BY <4>3, CreateTurns
      <4>4. CASE \E ms \in Waits \ {None} : Sleep(t, ms)
        BY <4>4, SleepTurns
      <4>5. CASE Exit(t)
        BY <4>5, ExitTurns
      <4>6. CASE \E u \in Threads, p \in NewPrios : SetPriority(t, u, p)
        BY <4>6, SetPriorityTurns
      <4> QED BY <4>1, <4>2, <4>3, <4>4, <4>5, <4>6, <2>1, <2>4 DEF Run
    <3> QED BY <3>1, <2>2, <1>1, FairInOrder DEF Fair
  <2> QED BY <2>3, <2>4
<1>3. CASE Reap \/ TickBegin
  <2>1. Fair(k, k') /\ k'.ready = k.ready /\ k'.cur = k.cur /\ k'.prio = k.prio
    BY <1>3, SameListsTurns
  <2> QED BY <2>1, FairInOrder DEF Fair, Front, TurnInv
<1>4. CASE TickWake
  BY <1>4, TickWakeTurns, FairInOrder DEF Fair
<1>5. CASE TickEnd
  <2>1. /\ ~k'.rotate
        /\ \/ Kept(k.ready, k'.ready)
           \/ irq > 0 /\ k.slice <= irq /\ Given(k.ready, k'.ready, k.cur)
    BY <1>5, TickEndTurns
  <2>2. CASE Kept(k.ready, k'.ready)
    BY <2>1, <2>2, <1>1, <1>5, FairInOrder DEF TickEnd
  <2>3. CASE irq > 0 /\ k.slice <= irq /\ Given(k.ready, k'.ready, k.cur)
    <3>1. InOrder
      BY <2>3, PassedBy DEF InOrder, Given
    <3> QED BY <3>1, <2>1, <1>1, <1>5 DEF TickEnd
  <2> QED BY <2>1, <2>2, <2>3
<1>6. CASE UNCHANGED vars
  <2>1. k' = k
    BY <1>6 DEF vars
  <2> QED BY <2>1, TurnFacts, FairInOrder DEF TurnInv
<1> QED BY <1>2, <1>3, <1>4, <1>5, <1>6 DEF Next, Tick

\* Whatever the threads and the timer do, with whatever priorities lent and given back:
\* of two ready threads of one priority, the one that comes first loses its place only by
\* running, and then only when it yields or its slice is over.
THEOREM TurnsTaken == Spec => TurnsInOrder
<1>1. Init => TurnInv
  <2> SUFFICES ASSUME Init PROVE TurnInv
    OBVIOUS
  <2>1. SInv /\ Front(k)
    BY InitGood, InitSettled DEF SInv, Settled, Pending, First
  <2>2. ~k.rotate
    BY DEF Init
  <2> QED BY <2>1, <2>2 DEF TurnInv
<1>2. TurnInv /\ [Next]_vars => TurnInv'
  BY NextSInv, StepTurns DEF TurnInv
<1>3. TurnInv /\ [Next]_vars =>
        [\A p \in Prio : \A a, b \in Elems(k.ready[p]) :
           Ahead(k.ready[p], a, b) /\ Ahead(k'.ready[p], b, a)
             => a = k.cur /\ (Yield(a) \/ (irq > 0 /\ k.slice <= irq))]_vars
  BY StepTurns DEF InOrder
<1> QED BY <1>1, <1>2, <1>3, PTL DEF Spec, TurnsInOrder
=============================================================================
