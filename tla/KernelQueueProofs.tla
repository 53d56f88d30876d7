------------------------- MODULE KernelQueueProofs -------------------------
(***************************************************************************)
(* Theorems about KernelQueue, for every number of threads, messages and     *)
(* slots: the semaphore counts each message once and nobody waits for what   *)
(* is there (QueueSound), and the queue is a bounded first-in first-out      *)
(* channel (ImplementsChannel).                                             *)
(***************************************************************************)
EXTENDS KernelQueue, KernelProofs, FiniteSetTheorems

Points == {"out", "room", "post", "item", "take"}

Waiters(d, o) == {t \in Thread : d.on[t] = o}

\* Where a thread is in its call agrees with what the kernel knows of it.
Places ==
  \A t \in Thread :
    /\ pc[t] \in {"room", "post"} => t \in Sender
    /\ pc[t] \in {"item", "take"} => t \in Reader
    /\ pc[t] \in {"post", "take"} => k.state[t] = "ready"
    /\ pc[t] = "room" => k.state[t] = "ready" \/ k.on[t] = "senders"
    /\ pc[t] = "item" => k.state[t] = "ready" \/ k.on[t] = "items"
    /\ k.on[t] = "senders" => pc[t] = "room"
    /\ k.on[t] = "items" => pc[t] = "item"

QueueType ==
  /\ q \in [buf : [Slot -> Msg \cup {None}], head : Slot, count : 0 .. Capacity, items : Nat]
  /\ pc \in [Thread -> Points]

Counts ==
  /\ IsFiniteSet(Taking) /\ IsFiniteSet(Posting) /\ IsFiniteSet(Retrying)
  /\ q.count = q.items + Cardinality(Taking) + Cardinality(Posting)
  /\ q.items > 0 => Waiters(k, "items") = {}
  /\ Waiters(k, "senders") # {} => q.count + Cardinality(Retrying) >= Capacity

\* The inductive invariant.
QInv ==
  /\ Good(k, call, {}) /\ irq \in Nat
  /\ QueueType /\ Places /\ Counts
-----------------------------------------------------------------------------
(* What the kernel's helpers do when there is no mutex. *)

LEMMA SpareGood ==
  ASSUME NEW d, NEW e, NEW c, Good(d, c, {}), Lists(e), SameMutexes(d, e),
         e.prio = d.prio, Alive(e)
  PROVE  Good(e, c, {})
<1>1. Mutex = {}
  BY QueueAssumption
<1>2. Owners(e)
  BY <1>1 DEF Good, Owners, SameMutexes
<1>3. Boosts(e, {})
  BY DEF Good, Boosts, SameMutexes
<1>4. Calls(e, c)
  BY <1>1 DEF Good, Calls
<1> QED BY <1>2, <1>3, <1>4 DEF Good

\* From d to e the first waiter of list o, if there is one, was woken.
Offered(d, e, o) ==
  \/ Waiters(d, o) = {} /\ SameThreads(d, e)
  \/ \E h \in Waiters(d, o) :
       /\ e.state = [d.state EXCEPT ![h] = "ready"]
       /\ e.on = [d.on EXCEPT ![h] = None]
       /\ e.result = [d.result EXCEPT ![h] = "ok"]

LEMMA OfferEffect ==
  ASSUME NEW d, NEW c, Good(d, c, {}), NEW o \in Obj
  PROVE  LET e == IF d.waitq[o] # <<>> THEN Wake(d, Head(d.waitq[o]), "ok") ELSE d
         IN  /\ Good(e, c, {}) /\ Offered(d, e, o)
             /\ d.waitq[o] = <<>> <=> Waiters(d, o) = {}
<1> DEFINE h == Head(d.waitq[o])
           e == IF d.waitq[o] # <<>> THEN Wake(d, h, "ok") ELSE d
<1>1. /\ Lists(d) /\ d.waitq[o] \in Seq(Thread) /\ Elems(d.waitq[o]) = Waiters(d, o)
      /\ \A t \in Thread : d.on[t] # None => d.state[t] = "blocked"
      /\ o # None /\ d.cur \in Thread /\ Idle \in Thread
      /\ d.state[d.cur] = "ready" /\ d.state[Idle] = "ready"
      /\ d.state \in [Thread -> States]
  BY ThreadAssumption, GoodTypes DEF Good, Alive, Lists, WaitLists, Waiters, KernelType
<1>2. CASE d.waitq[o] = <<>>
  <2>1. Waiters(d, o) = {}
    BY <1>1, <1>2 DEF Elems
  <2> QED BY <1>2, <2>1 DEF Offered, SameThreads
<1>3. CASE d.waitq[o] # <<>>
  <2>1. h \in Waiters(d, o)
    BY <1>1, <1>3 DEF Elems
  <2>2. h \in Thread /\ d.state[h] = "blocked"
    BY <1>1, <2>1 DEF Waiters
  <2>3. WokenUp(d, Wake(d, h, "ok"), h, "ok")
    <3>1. "ok" \in Results
      BY DEF Results
    <3> HIDE DEF h
    <3> QED BY <1>1, <2>2, <3>1, WakeEffect
  <2> HIDE DEF h
  <2>4. e = Wake(d, h, "ok")
    BY <1>3
  <2>5. Alive(Wake(d, h, "ok"))
    BY <1>1, <2>2, <2>3 DEF WokenUp, Alive
  <2>6. Good(Wake(d, h, "ok"), c, {})
    BY <2>3, <2>5, SpareGood DEF WokenUp
  <2>7. Offered(d, Wake(d, h, "ok"), o)
    BY <2>1, <2>3 DEF Offered, WokenUp
  <2>8. Waiters(d, o) # {} /\ Good(e, c, {}) /\ Offered(d, e, o)
    <3> HIDE DEF e
    <3> QED BY <2>1, <2>4, <2>6, <2>7
  <2> QED BY <1>3, <2>8 DEF h
<1> QED BY <1>2, <1>3

\* The scheduler changes nothing of that.
LEMMA OfferedSwitched ==
  ASSUME NEW d, NEW e, NEW f, NEW c, NEW o, Good(e, c, {}), Offered(d, e, o), Switched(e, f)
  PROVE  Good(f, c, {}) /\ Offered(d, f, o)
<1>1. Good(f, c, {})
  BY SwitchedGood
<1>2. Offered(d, f, o)
  BY DEF Offered, Switched, SameThreads
<1> QED BY <1>1, <1>2

LEMMA QueueFacts ==
  ASSUME QInv
  PROVE  /\ Capacity \in Nat /\ Capacity > 0 /\ Slot = 0 .. Capacity - 1
         /\ q.buf \in [Slot -> Msg \cup {None}] /\ q.head \in Nat /\ q.head < Capacity
         /\ q.count \in Nat /\ q.count <= Capacity /\ q.items \in Nat
         /\ pc \in [Thread -> Points]
         /\ Cardinality(Taking) \in Nat /\ Cardinality(Posting) \in Nat
         /\ Cardinality(Retrying) \in Nat
         /\ Sender \subseteq Thread \ {Idle} /\ Reader \subseteq Thread \ {Idle}
         /\ "items" \in Obj /\ "senders" \in Obj /\ None \notin Obj
<1>1. Capacity \in Nat /\ Capacity > 0 /\ Slot = 0 .. Capacity - 1
  BY QueueAssumption DEF Slot
<1>2. q \in [buf : [Slot -> Msg \cup {None}], head : Slot, count : 0 .. Capacity, items : Nat]
  BY DEF QInv, QueueType
<1>3. q.head \in Slot /\ q.count \in 0 .. Capacity /\ q.items \in Nat
      /\ q.buf \in [Slot -> Msg \cup {None}]
  BY <1>2
<1>4. Cardinality(Taking) \in Nat /\ Cardinality(Posting) \in Nat /\ Cardinality(Retrying) \in Nat
  BY FS_CardinalityType DEF QInv, Counts
<1>5. pc \in [Thread -> Points]
  BY DEF QInv, QueueType
<1> QED BY <1>1, <1>3, <1>4, <1>5, QueueAssumption, ThreadAssumption

\* Who runs is ready and on no list.
LEMMA Running ==
  ASSUME QInv, NEW t \in Thread, NEW p, At(t, p)
  PROVE  pc[t] = p /\ t = k.cur /\ k.state[t] = "ready" /\ k.on[t] = None /\ irq = 0
BY GoodTypes DEF QInv, At, Free

\* Every number, modulo the capacity, is a slot.
LEMMA InSlots ==
  ASSUME QInv
  PROVE  \A n \in Nat : n % Capacity \in Slot /\ n % Capacity \in Nat
<1>1. \A c \in Nat \ {0}, n \in Nat : n % c \in 0 .. c - 1 /\ n % c \in Nat
  OBVIOUS
<1>2. Capacity \in Nat \ {0} /\ Slot = 0 .. Capacity - 1
  BY QueueFacts
<1> QED BY <1>1, <1>2

\* A put takes the slot after the last message.
LEMMA PutType ==
  ASSUME QInv, q.count < Capacity, NEW m \in Msg
  PROVE  /\ Put(m) \in [buf : [Slot -> Msg \cup {None}], head : Slot, count : 0 .. Capacity, items : Nat]
         /\ Put(m).items = q.items /\ Put(m).count = q.count + 1 /\ Put(m).head = q.head
         /\ (q.head + q.count) % Capacity \in Slot
         /\ Put(m).buf = [q.buf EXCEPT ![(q.head + q.count) % Capacity] = m]
<1> DEFINE tail == (q.head + q.count) % Capacity
<1>1. tail \in Slot
  <2>1. q.head + q.count \in Nat
    BY QueueFacts
  <2> QED BY <2>1, InSlots
<1>2. Put(m) = [q EXCEPT !.buf[tail] = m, !.count = @ + 1]
  BY DEF Put
<1> HIDE DEF tail
<1>3. q.count + 1 \in 0 .. Capacity
  BY QueueFacts
<1>4. q \in [buf : [Slot -> Msg \cup {None}], head : Slot, count : 0 .. Capacity, items : Nat]
  BY DEF QInv, QueueType
<1> QED BY <1>1, <1>2, <1>3, <1>4 DEF tail

LEMMA CountFacts ==
  ASSUME QInv
  PROVE  /\ IsFiniteSet(Taking) /\ IsFiniteSet(Posting) /\ IsFiniteSet(Retrying)
         /\ q.count = q.items + Cardinality(Taking) + Cardinality(Posting)
         /\ q.items > 0 => Waiters(k, "items") = {}
         /\ Waiters(k, "senders") # {} => q.count + Cardinality(Retrying) >= Capacity
BY DEF QInv, Counts

\* A thread that joins or leaves a set.
LEMMA Joins ==
  ASSUME NEW S, NEW t, IsFiniteSet(S), t \notin S
  PROVE  IsFiniteSet(S \cup {t}) /\ Cardinality(S \cup {t}) = Cardinality(S) + 1
BY FS_AddElement

LEMMA Leaves ==
  ASSUME NEW S, NEW t, IsFiniteSet(S), t \in S
  PROVE  IsFiniteSet(S \ {t}) /\ Cardinality(S \ {t}) = Cardinality(S) - 1
BY FS_RemoveElement
-----------------------------------------------------------------------------
(* One lemma per action. *)

LEMMA SendPutInv ==
  ASSUME QInv, NEW t \in Sender, NEW m \in Msg, SendPut(t, m)
  PROVE  QInv'
<1>0. /\ t \in Thread /\ q.count < Capacity /\ q' = Put(m)
      /\ k' = k /\ call' = call /\ irq' = irq
      /\ pc' = [pc EXCEPT ![t] = "post"]
      /\ pc[t] = "out" \/ (pc[t] = "room" /\ k.result[t] = "ok")
      /\ k.state[t] = "ready" /\ k.on[t] = None
  <2>1. t \in Thread
    BY QueueFacts
  <2> QED BY <2>1, Running DEF SendPut, Woken
<1>1. QueueType' /\ q'.items = q.items /\ q'.count = q.count + 1
  <2>1. Put(m) \in [buf : [Slot -> Msg \cup {None}], head : Slot, count : 0 .. Capacity, items : Nat]
    BY <1>0, PutType
  <2>2. pc' \in [Thread -> Points]
    BY <1>0, QueueFacts DEF Points
  <2>3. Put(m).items = q.items /\ Put(m).count = q.count + 1
    BY <1>0, PutType
  <2> QED BY <1>0, <2>1, <2>2, <2>3 DEF QueueType, Slot
<1>2. Places'
  BY <1>0, QueueFacts DEF QInv, Places
<1>3. Taking' = Taking /\ Posting' = Posting \cup {t} /\ t \notin Posting
  BY <1>0, QueueFacts DEF Taking, Posting
<1>4. \/ Retrying' = Retrying
      \/ t \in Retrying /\ Retrying' = Retrying \ {t}
  BY <1>0, QueueFacts DEF Retrying
<1>5. /\ IsFiniteSet(Retrying') /\ Cardinality(Retrying') \in Nat
      /\ Cardinality(Retrying') + 1 >= Cardinality(Retrying)
  <2>1. IsFiniteSet(Retrying) /\ Cardinality(Retrying) \in Nat
    BY CountFacts, QueueFacts
  <2>2. CASE Retrying' = Retrying
    BY <2>1, <2>2
  <2>3. CASE t \in Retrying /\ Retrying' = Retrying \ {t}
    <3>1. IsFiniteSet(Retrying') /\ Cardinality(Retrying') = Cardinality(Retrying) - 1
      BY <2>1, <2>3, Leaves
    <3> QED BY <3>1, <2>1, FS_CardinalityType
  <2> QED BY <1>4, <2>2, <2>3
<1>6. IsFiniteSet(Posting') /\ Cardinality(Posting') = Cardinality(Posting) + 1
  BY <1>3, Joins DEF QInv, Counts
<1>7. Counts'
  <2>1. q'.count = q'.items + Cardinality(Taking') + Cardinality(Posting')
    <3>1. q.count = q.items + Cardinality(Taking) + Cardinality(Posting)
      BY CountFacts
    <3>2. Cardinality(Taking) \in Nat /\ Cardinality(Posting) \in Nat /\ q.items \in Nat
      BY QueueFacts
    <3>3. Cardinality(Posting') = Cardinality(Posting) + 1
      BY <1>6
    <3>4. Cardinality(Taking') = Cardinality(Taking)
      BY <1>3
    <3>5. q'.items = q.items /\ q'.count = q.count + 1
      BY <1>1
    <3> QED BY <3>1, <3>2, <3>3, <3>4, <3>5
  <2>2. Waiters(k', "senders") # {} => q'.count + Cardinality(Retrying') >= Capacity
    BY <1>0, <1>1, <1>5, CountFacts, QueueFacts
  <2> QED BY <2>1, <2>2, <1>0, <1>1, <1>3, <1>5, <1>6, CountFacts DEF Counts, Waiters
<1> QED BY <1>0, <1>1, <1>2, <1>7 DEF QInv

\* queue_recv's sem_wait takes a count, or a thread's wait ran out.
LEMMA RecvCountInv ==
  ASSUME QInv, NEW t \in Reader, RecvCount(t)
  PROVE  QInv'
<1>0. /\ t \in Thread /\ q.items > 0 /\ q' = [q EXCEPT !.items = @ - 1]
      /\ k' = k /\ call' = call /\ irq' = irq
      /\ pc' = [pc EXCEPT ![t] = "take"] /\ pc[t] = "out"
      /\ k.state[t] = "ready" /\ k.on[t] = None
  <2>1. t \in Thread
    BY QueueFacts
  <2> QED BY <2>1, Running DEF RecvCount
<1>1. QueueType' /\ q'.items = q.items - 1 /\ q'.count = q.count
  <2>1. q.items - 1 \in Nat
    BY <1>0, QueueFacts
  <2>2. pc' \in [Thread -> Points]
    BY <1>0, QueueFacts DEF Points
  <2> QED BY <1>0, <2>1, <2>2 DEF QInv, QueueType, Slot
<1>2. Places'
  BY <1>0, QueueFacts DEF QInv, Places
<1>3. /\ Taking' = Taking \cup {t} /\ t \notin Taking
      /\ Posting' = Posting /\ Retrying' = Retrying
  BY <1>0, QueueFacts DEF Taking, Posting, Retrying
<1>4. IsFiniteSet(Taking') /\ Cardinality(Taking') = Cardinality(Taking) + 1
  BY <1>3, Joins DEF QInv, Counts
<1>5. Counts'
  <2>1. q'.count = q'.items + Cardinality(Taking') + Cardinality(Posting')
    <3>1. q.count = q.items + Cardinality(Taking) + Cardinality(Posting)
      BY CountFacts
    <3>2. Cardinality(Taking) \in Nat /\ Cardinality(Posting) \in Nat /\ q.items \in Nat
      BY QueueFacts
    <3>3. Cardinality(Taking') = Cardinality(Taking) + 1 /\ Cardinality(Posting') = Cardinality(Posting)
      BY <1>3, <1>4
    <3>4. q'.items = q.items - 1 /\ q'.count = q.count
      BY <1>1
    <3> QED BY <3>1, <3>2, <3>3, <3>4
  <2>2. q'.items > 0 => Waiters(k', "items") = {}
    BY <1>0, <1>1, CountFacts, QueueFacts
  <2> QED BY <2>1, <2>2, <1>0, <1>1, <1>3, <1>4, CountFacts DEF Counts, Waiters
<1> QED BY <1>0, <1>1, <1>2, <1>5 DEF QInv

LEMMA TimedOutInv ==
  ASSUME QInv, NEW t \in Sender \cup Reader, SendTimedOut(t) \/ RecvTimedOut(t)
  PROVE  QInv'
<1>0. /\ t \in Thread /\ q' = q
      /\ k' = k /\ call' = call /\ irq' = irq
      /\ pc' = [pc EXCEPT ![t] = "out"] /\ pc[t] \in {"room", "item"}
      /\ k.result[t] = "timeout"
      /\ k.state[t] = "ready" /\ k.on[t] = None
  <2>1. t \in Thread
    BY QueueFacts
  <2> QED BY <2>1, Running DEF SendTimedOut, RecvTimedOut, Woken
<1>1. QueueType'
  <2>1. pc' \in [Thread -> Points]
    BY <1>0, QueueFacts DEF Points
  <2> QED BY <1>0, <2>1 DEF QInv, QueueType, Slot
<1>2. Places'
  BY <1>0, QueueFacts DEF QInv, Places
<1>3. Taking' = Taking /\ Posting' = Posting /\ Retrying' = Retrying
  BY <1>0, QueueFacts DEF Taking, Posting, Retrying
<1>4. Counts'
  BY <1>0, <1>3, QueueFacts DEF QInv, Counts, Waiters
<1> QED BY <1>0, <1>1, <1>2, <1>4 DEF QInv

\* A thread that runs starts to wait: for room, for a message, or for a time.
LEMMA BlocksInv ==
  ASSUME QInv, NEW t \in Thread \ {Idle}, NEW o \in {"senders", "items", None},
         NEW ms \in Nat \cup {None},
         t = k.cur, k.state[t] = "ready", k.on[t] = None,
         k' = Block(k, o, ms), UNCHANGED <<call, irq, q>>,
         pc' = [pc EXCEPT ![t] = IF o = "senders" THEN "room" ELSE IF o = "items" THEN "item" ELSE "out"],
         \/ o = "senders" /\ t \in Sender /\ q.count = Capacity /\ pc[t] \in {"out", "room"}
         \/ o = "items" /\ t \in Reader /\ q.items = 0 /\ pc[t] = "out"
         \/ o = None /\ pc[t] = "out"
  PROVE  QInv'
<1>0. /\ t \in Thread /\ None \notin {"senders", "items"} /\ o \in Obj \cup {None}
      /\ Good(k, call, {}) /\ irq \in Nat
      /\ k.state \in [Thread -> States] /\ k.on \in [Thread -> Obj \cup {None}]
      /\ k.result \in [Thread -> Results]
  BY QueueFacts, GoodTypes DEF QInv
<1>1. Waiting(k, k', t, o) /\ k'.state[k'.cur] = "ready"
  BY <1>0, BlockEffect DEF Good, Alive
<1>2. /\ k'.state = [k.state EXCEPT ![t] = "blocked"]
      /\ k'.on = [k.on EXCEPT ![t] = o]
      /\ k'.result = [k.result EXCEPT ![t] = "ok"]
  BY <1>1 DEF Waiting
<1>3. Good(k', call', {}) /\ irq' \in Nat
  <2>1. Alive(k')
    BY <1>0, <1>1, <1>2 DEF Alive, Good
  <2> QED BY <1>0, <1>1, <2>1, SpareGood DEF Waiting
<1>4. QueueType'
  <2>1. pc' \in [Thread -> Points]
    BY <1>0, QueueFacts DEF Points
  <2> QED BY <2>1 DEF QInv, QueueType, Slot
<1>5. Places'
  <2> SUFFICES ASSUME NEW u \in Thread
               PROVE /\ pc'[u] \in {"room", "post"} => u \in Sender
                     /\ pc'[u] \in {"item", "take"} => u \in Reader
                     /\ pc'[u] \in {"post", "take"} => k'.state[u] = "ready"
                     /\ pc'[u] = "room" => k'.state[u] = "ready" \/ k'.on[u] = "senders"
                     /\ pc'[u] = "item" => k'.state[u] = "ready" \/ k'.on[u] = "items"
                     /\ k'.on[u] = "senders" => pc'[u] = "room"
                     /\ k'.on[u] = "items" => pc'[u] = "item"
    BY DEF Places
  <2>1. CASE u = t
    BY <1>0, <1>2, <2>1, QueueFacts
  <2>2. CASE u # t
    BY <1>0, <1>2, <2>2, QueueFacts DEF QInv, Places
  <2> QED BY <2>1, <2>2
<1>6. Taking' = Taking /\ Posting' = Posting
  <2>1. t \notin Taking /\ t \notin Taking' /\ t \notin Posting /\ t \notin Posting'
    BY <1>0, <1>2, QueueFacts DEF Taking, Posting
  <2>2. ASSUME NEW u \in Thread, u # t
        PROVE  pc'[u] = pc[u] /\ k'.state[u] = k.state[u] /\ k'.result[u] = k.result[u]
    BY <1>0, <1>2, <2>2, QueueFacts
  <2> QED BY <2>1, <2>2, QueueFacts DEF Taking, Posting
<1>7. Retrying' = Retrying \ {t} /\ (q.count # Capacity => t \notin Retrying)
  <2>1. t \notin Retrying' /\ (q.count # Capacity => t \notin Retrying)
    BY <1>0, <1>2, QueueFacts DEF Retrying
  <2>2. ASSUME NEW u \in Thread, u # t
        PROVE  pc'[u] = pc[u] /\ k'.state[u] = k.state[u] /\ k'.result[u] = k.result[u]
    BY <1>0, <1>2, <2>2, QueueFacts
  <2> QED BY <2>1, <2>2, QueueFacts DEF Retrying
<1>8. Counts'
  <2>1. IsFiniteSet(Retrying') /\ Cardinality(Retrying') \in Nat
    BY <1>7, CountFacts, FS_RemoveElement, FS_CardinalityType
  <2>2. q.items > 0 => Waiters(k', "items") = {}
    BY <1>0, <1>2, CountFacts DEF Waiters
  <2>3. Waiters(k', "senders") # {} => q.count + Cardinality(Retrying') >= Capacity
    <3>1. CASE q.count = Capacity
      BY <2>1, <3>1, QueueFacts
    <3>2. CASE q.count # Capacity
      <4>1. Retrying' = Retrying
        BY <1>7, <3>2
      <4>2. o # "senders"
        BY <1>0, <3>2
      <4>3. Waiters(k', "senders") \subseteq Waiters(k, "senders")
        BY <4>2, <1>0, <1>2 DEF Waiters
      <4> QED BY <4>1, <4>3, CountFacts
    <3> QED BY <3>1, <3>2
  <2> QED BY <1>6, <2>1, <2>2, <2>3, CountFacts DEF Counts, Waiters
<1> QED BY <1>3, <1>4, <1>5, <1>8 DEF QInv

LEMMA SendBlockInv ==
  ASSUME QInv, NEW t \in Sender, NEW m \in Msg, NEW ms \in Waits, SendBlock(t, m, ms)
  PROVE  QInv'
<1>1. t \in Thread \ {Idle} /\ ms \in Nat \cup {None}
  BY QueueFacts, KernelAssumption
<1>2. At(t, "out") \/ At(t, "room")
  BY DEF SendBlock, Woken
<1>3. t = k.cur /\ k.state[t] = "ready" /\ k.on[t] = None /\ pc[t] \in {"out", "room"}
  BY <1>1, <1>2, Running
<1>4. /\ k' = Block(k, "senders", ms) /\ UNCHANGED <<call, irq, q>>
      /\ pc' = [pc EXCEPT ![t] = "room"] /\ q.count = Capacity
  BY DEF SendBlock
<1> QED BY <1>1, <1>3, <1>4, BlocksInv

LEMMA RecvBlockInv ==
  ASSUME QInv, NEW t \in Reader, NEW ms \in Waits, RecvBlock(t, ms)
  PROVE  QInv'
<1>1. t \in Thread \ {Idle} /\ ms \in Nat \cup {None}
  BY QueueFacts, KernelAssumption
<1>2. t = k.cur /\ k.state[t] = "ready" /\ k.on[t] = None /\ pc[t] = "out"
  BY <1>1, Running DEF RecvBlock
<1>3. /\ k' = Block(k, "items", ms) /\ UNCHANGED <<call, irq, q>>
      /\ pc' = [pc EXCEPT ![t] = "item"] /\ q.items = 0
  BY DEF RecvBlock
<1> QED BY <1>1, <1>2, <1>3, BlocksInv

LEMMA OtherSleepInv ==
  ASSUME QInv, NEW t \in Threads, NEW ms \in Waits \ {None}, At(t, "out"), Sleep(t, ms),
         UNCHANGED <<q, pc>>
  PROVE  QInv'
<1>1. t \in Thread \ {Idle} /\ ms \in Nat \cup {None}
  BY KernelAssumption DEF Threads
<1>2. t = k.cur /\ k.state[t] = "ready" /\ k.on[t] = None /\ pc[t] = "out"
  BY <1>1, Running
<1>3. k' = Block(k, None, ms) /\ UNCHANGED <<call, irq>>
  BY DEF Sleep
<1>4. pc' = [pc EXCEPT ![t] = "out"] /\ None \notin {"senders", "items"}
  BY <1>1, <1>2, QueueFacts
<1> QED BY <1>1, <1>2, <1>3, <1>4, BlocksInv

\* The first waiter of a list may have been woken, and the threads of T went back to
\* their own code: who counts for what after that.
LEMMA OfferSets ==
  ASSUME QInv, NEW T \in SUBSET Thread, \A u \in T : k.on[u] = None,
         NEW o \in {"items", "senders"}, Offered(k, k', o),
         pc' = [u \in Thread |-> IF u \in T THEN "out" ELSE pc[u]]
  PROVE  /\ Places' /\ pc' \in [Thread -> Points]
         /\ Posting' = Posting \ T
         /\ o = "items" => /\ Retrying' = Retrying \ T
                           /\ Waiters(k, o) = {} => Taking' = Taking \ T
                           /\ Waiters(k, o) # {} =>
                                \E h : h \notin Taking /\ Taking' = (Taking \ T) \cup {h}
         /\ o = "senders" => /\ Taking' = Taking \ T
                             /\ Waiters(k, o) = {} => Retrying' = Retrying \ T
                             /\ Waiters(k, o) # {} =>
                                  \E h : h \notin Retrying /\ Retrying' = (Retrying \ T) \cup {h}
         /\ Waiters(k', "items") \subseteq Waiters(k, "items")
         /\ Waiters(k', "senders") \subseteq Waiters(k, "senders")
<1>0. /\ None \notin {"senders", "items"} /\ o \in Obj
      /\ k.state \in [Thread -> States] /\ k.on \in [Thread -> Obj \cup {None}]
      /\ k.result \in [Thread -> Results]
      /\ \A u \in Thread : k.on[u] # None => k.state[u] = "blocked"
      /\ Sender \subseteq Thread /\ Reader \subseteq Thread
  BY QueueFacts, GoodTypes DEF QInv, Good, Lists, WaitLists
<1>1. pc' \in [Thread -> Points]
  BY QueueFacts DEF Points
<1>2. CASE Waiters(k, o) = {} /\ SameThreads(k, k')
  <2>1. Places'
    BY <1>2, QueueFacts DEF SameThreads, QInv, Places
  <2>2. Taking' = Taking \ T /\ Posting' = Posting \ T /\ Retrying' = Retrying \ T
    BY <1>0, <1>2 DEF SameThreads, Taking, Posting, Retrying
  <2>3. Waiters(k', "items") = Waiters(k, "items") /\ Waiters(k', "senders") = Waiters(k, "senders")
    BY <1>2 DEF SameThreads, Waiters
  <2> QED BY <1>1, <1>2, <2>1, <2>2, <2>3
<1>3. CASE \E h \in Waiters(k, o) : /\ k'.state = [k.state EXCEPT ![h] = "ready"]
                                    /\ k'.on = [k.on EXCEPT ![h] = None]
                                    /\ k'.result = [k.result EXCEPT ![h] = "ok"]
  <2>1. PICK h \in Waiters(k, o) : /\ k'.state = [k.state EXCEPT ![h] = "ready"]
                                   /\ k'.on = [k.on EXCEPT ![h] = None]
                                   /\ k'.result = [k.result EXCEPT ![h] = "ok"]
    BY <1>3
  <2>2. h \in Thread /\ k.on[h] = o /\ k.state[h] = "blocked" /\ h \notin T
    BY <1>0, <2>1 DEF Waiters
  <2>3. /\ o = "items" => pc[h] = "item" /\ h \in Reader
        /\ o = "senders" => pc[h] = "room" /\ h \in Sender
    BY <2>2 DEF QInv, Places
  <2>4. /\ pc'[h] = pc[h] /\ k'.state[h] = "ready" /\ k'.on[h] = None /\ k'.result[h] = "ok"
        /\ \A u \in Thread \ {h} : /\ k'.state[u] = k.state[u] /\ k'.on[u] = k.on[u]
                                   /\ k'.result[u] = k.result[u]
        /\ \A u \in Thread : pc'[u] = IF u \in T THEN "out" ELSE pc[u]
    BY <1>0, <2>1, <2>2
  <2>5. Places'
    <3> SUFFICES ASSUME NEW u \in Thread
                 PROVE /\ pc'[u] \in {"room", "post"} => u \in Sender
                       /\ pc'[u] \in {"item", "take"} => u \in Reader
                       /\ pc'[u] \in {"post", "take"} => k'.state[u] = "ready"
                       /\ pc'[u] = "room" => k'.state[u] = "ready" \/ k'.on[u] = "senders"
                       /\ pc'[u] = "item" => k'.state[u] = "ready" \/ k'.on[u] = "items"
                       /\ k'.on[u] = "senders" => pc'[u] = "room"
                       /\ k'.on[u] = "items" => pc'[u] = "item"
      BY DEF Places
    <3>1. CASE u = h
      BY <1>0, <2>2, <2>3, <2>4, <3>1 DEF QInv, Places
    <3>2. CASE u # h /\ u \in T
      BY <1>0, <2>4, <3>2
    <3>3. CASE u # h /\ u \notin T
      BY <1>0, <2>4, <3>3 DEF QInv, Places
    <3> QED BY <3>1, <3>2, <3>3
  <2>6. Posting' = Posting \ T
    BY <1>0, <2>3, <2>4 DEF Posting
  <2>7. h \notin Taking /\ h \notin Retrying
    BY <2>2, <2>3 DEF Taking, Retrying
  <2>8. o = "items" => Retrying' = Retrying \ T /\ Taking' = (Taking \ T) \cup {h}
    BY <1>0, <2>2, <2>3, <2>4, <2>7 DEF Taking, Retrying
  <2>9. o = "senders" => Taking' = Taking \ T /\ Retrying' = (Retrying \ T) \cup {h}
    BY <1>0, <2>2, <2>3, <2>4, <2>7 DEF Taking, Retrying
  <2>10. Waiters(k', "items") \subseteq Waiters(k, "items")
    BY <1>0, <2>4 DEF Waiters
  <2>11. Waiters(k', "senders") \subseteq Waiters(k, "senders")
    BY <1>0, <2>4 DEF Waiters
  <2>12. Waiters(k, o) # {}
    BY <2>1
  <2> QED BY <1>1, <2>5, <2>6, <2>7, <2>8, <2>9, <2>10, <2>11, <2>12
<1> QED BY <1>2, <1>3 DEF Offered

\* sem_post, seen from the queue: the count goes to the semaphore or to a receiver.
LEMMA PostCounts ==
  ASSUME QInv, NEW T \in SUBSET Thread, T \cap (Taking \cup Retrying) = {},
         Offered(k, k', "items"),
         pc' = [u \in Thread |-> IF u \in T THEN "out" ELSE pc[u]],
         \A u \in T : k.on[u] = None,
         q'.items = IF Waiters(k, "items") = {} THEN q.items + 1 ELSE q.items
  PROVE  /\ Places' /\ pc' \in [Thread -> Points] /\ Posting' = Posting \ T
         /\ Retrying' = Retrying
         /\ IsFiniteSet(Taking')
         /\ q'.items + Cardinality(Taking') = q.items + Cardinality(Taking) + 1
         /\ q'.items > 0 => Waiters(k', "items") = {}
         /\ Waiters(k', "senders") \subseteq Waiters(k, "senders")
<1>1. /\ Places' /\ pc' \in [Thread -> Points]
      /\ Posting' = Posting \ T /\ Retrying' = Retrying \ T
      /\ Waiters(k, "items") = {} => Taking' = Taking \ T
      /\ Waiters(k, "items") # {} => \E h : h \notin Taking /\ Taking' = (Taking \ T) \cup {h}
      /\ Waiters(k', "items") \subseteq Waiters(k, "items")
      /\ Waiters(k', "senders") \subseteq Waiters(k, "senders")
  BY OfferSets
<1>2. Taking \ T = Taking /\ Retrying \ T = Retrying
  OBVIOUS
<1>3. /\ IsFiniteSet(Taking) /\ Cardinality(Taking) \in Nat /\ q.items \in Nat
      /\ q.items > 0 => Waiters(k, "items") = {}
  BY CountFacts, QueueFacts
<1>4. CASE Waiters(k, "items") = {}
  <2>1. Taking' = Taking /\ q'.items = q.items + 1 /\ Waiters(k', "items") = {}
    BY <1>1, <1>2, <1>4
  <2> QED BY <1>1, <1>2, <1>3, <2>1
<1>5. CASE Waiters(k, "items") # {}
  <2>1. PICK h : h \notin Taking /\ Taking' = Taking \cup {h}
    BY <1>1, <1>2, <1>5
  <2>2. IsFiniteSet(Taking') /\ Cardinality(Taking') = Cardinality(Taking) + 1
    BY <1>3, <2>1, Joins
  <2>3. q'.items = q.items /\ q.items = 0
    BY <1>3, <1>5
  <2> QED BY <1>1, <1>2, <1>3, <2>2, <2>3
<1> QED BY <1>4, <1>5

LEMMA SendPostInv ==
  ASSUME QInv, NEW t \in Sender, SendPost(t)
  PROVE  QInv'
<1>0. /\ Good(k, call, {}) /\ irq \in Nat /\ t \in Thread /\ "items" \in Obj
      /\ call' = call /\ irq' = irq /\ q' = [q EXCEPT !.items = Counted(@)]
      /\ pc' = [pc EXCEPT ![t] = "out"]
      /\ k' = Preempt(Posted(k), FALSE)
  BY QueueFacts DEF QInv, SendPost
<1>1. pc[t] = "post" /\ k.on[t] = None
  BY <1>0, Running DEF SendPost
<1>2. /\ Good(Posted(k), call, {}) /\ Offered(k, Posted(k), "items")
      /\ PostWakes <=> Waiters(k, "items") # {}
  BY <1>0, OfferEffect DEF Posted, PostWakes
<1>3. Switched(Posted(k), Preempt(Posted(k), FALSE))
  BY <1>2, PreemptEffect DEF Good, Alive
<1>4. Good(k', call', {}) /\ Offered(k, k', "items")
  BY <1>0, <1>2, <1>3, OfferedSwitched
<1>5. pc' = [u \in Thread |-> IF u \in {t} THEN "out" ELSE pc[u]]
  BY <1>0, QueueFacts
<1>6. /\ q'.items = IF Waiters(k, "items") = {} THEN q.items + 1 ELSE q.items
      /\ q'.count = q.count
      /\ q' \in [buf : [Slot -> Msg \cup {None}], head : Slot, count : 0 .. Capacity, items : Nat]
  <2>1. q \in [buf : [Slot -> Msg \cup {None}], head : Slot, count : 0 .. Capacity, items : Nat]
    BY DEF QInv, QueueType
  <2>2. Counted(q.items) \in Nat /\ Counted(q.items) = IF Waiters(k, "items") = {} THEN q.items + 1 ELSE q.items
    BY <1>2, QueueFacts DEF Counted
  <2> QED BY <1>0, <2>1, <2>2
<1>7. {t} \cap (Taking \cup Retrying) = {} /\ t \in Posting
  BY <1>1 DEF Taking, Retrying, Posting
<1>8. /\ Places' /\ pc' \in [Thread -> Points] /\ Posting' = Posting \ {t}
      /\ Retrying' = Retrying /\ IsFiniteSet(Taking')
      /\ q'.items + Cardinality(Taking') = q.items + Cardinality(Taking) + 1
      /\ q'.items > 0 => Waiters(k', "items") = {}
      /\ Waiters(k', "senders") \subseteq Waiters(k, "senders")
  BY <1>0, <1>1, <1>4, <1>5, <1>6, <1>7, PostCounts, ZenonT(60)
<1>9. IsFiniteSet(Posting') /\ Cardinality(Posting') = Cardinality(Posting) - 1
  BY <1>7, <1>8, CountFacts, Leaves
<1>10. q'.count = q'.items + Cardinality(Taking') + Cardinality(Posting')
  <2>1. q.count = q.items + Cardinality(Taking) + Cardinality(Posting)
    BY CountFacts
  <2>2. Cardinality(Taking) \in Nat /\ Cardinality(Posting) \in Nat /\ q.items \in Nat
    BY QueueFacts
  <2>3. q'.items \in Nat /\ Cardinality(Taking') \in Nat
    BY <1>6, <1>8, FS_CardinalityType
  <2> QED BY <1>6, <1>8, <1>9, <2>1, <2>2, <2>3
<1>11. Counts'
  <2>1. Waiters(k', "senders") # {} => q'.count + Cardinality(Retrying') >= Capacity
    BY <1>6, <1>8, CountFacts
  <2> QED BY <2>1, <1>8, <1>9, <1>10, CountFacts DEF Counts, Waiters
<1> QED BY <1>0, <1>4, <1>6, <1>8, <1>11 DEF QInv, QueueType, Slot

LEMMA SendIsrInv ==
  ASSUME QInv, NEW m \in Msg, SendIsr(m)
  PROVE  QInv'
<1>0. /\ Good(k, call, {}) /\ irq \in Nat /\ "items" \in Obj /\ q.count < Capacity
      /\ call' = call /\ irq' = irq /\ q' = [Put(m) EXCEPT !.items = Counted(@)]
      /\ pc' = pc /\ k' = IrqExit(Preempt(Posted(k), TRUE))
  BY QueueFacts DEF QInv, SendIsr
<1>1. /\ Good(Posted(k), call, {}) /\ Offered(k, Posted(k), "items")
      /\ PostWakes <=> Waiters(k, "items") # {}
  BY <1>0, OfferEffect DEF Posted, PostWakes
<1>2. Switched(Posted(k), Preempt(Posted(k), TRUE))
  BY <1>1, PreemptEffect DEF Good, Alive
<1>3. /\ Good(Preempt(Posted(k), TRUE), call, {})
      /\ Offered(k, Preempt(Posted(k), TRUE), "items")
  BY <1>1, <1>2, OfferedSwitched
<1>4. Switched(Preempt(Posted(k), TRUE), IrqExit(Preempt(Posted(k), TRUE)))
  BY <1>3, IrqExitEffect DEF Good, Alive
<1>5. Good(k', call', {}) /\ Offered(k, k', "items")
  BY <1>0, <1>3, <1>4, OfferedSwitched
<1>6. pc' = [u \in Thread |-> IF u \in {} THEN "out" ELSE pc[u]]
  BY <1>0, QueueFacts
<1>7. /\ q'.items = IF Waiters(k, "items") = {} THEN q.items + 1 ELSE q.items
      /\ q'.count = q.count + 1
      /\ q' \in [buf : [Slot -> Msg \cup {None}], head : Slot, count : 0 .. Capacity, items : Nat]
  <2>1. /\ Put(m) \in [buf : [Slot -> Msg \cup {None}], head : Slot, count : 0 .. Capacity, items : Nat]
        /\ Put(m).items = q.items /\ Put(m).count = q.count + 1
    BY <1>0, PutType
  <2>2. Counted(q.items) \in Nat /\ Counted(q.items) = IF Waiters(k, "items") = {} THEN q.items + 1 ELSE q.items
    BY <1>1, QueueFacts DEF Counted
  <2> QED BY <1>0, <2>1, <2>2
<1>8. /\ Places' /\ pc' \in [Thread -> Points] /\ Posting' = Posting \ {}
      /\ Retrying' = Retrying /\ IsFiniteSet(Taking')
      /\ q'.items + Cardinality(Taking') = q.items + Cardinality(Taking) + 1
      /\ q'.items > 0 => Waiters(k', "items") = {}
      /\ Waiters(k', "senders") \subseteq Waiters(k, "senders")
  <2>1. {} \cap (Taking \cup Retrying) = {} /\ {} \in SUBSET Thread /\ \A u \in {} : k.on[u] = None
    OBVIOUS
  <2> QED BY <1>0, <1>5, <1>6, <1>7, <2>1, PostCounts
<1>9. Posting' = Posting
  BY <1>8
<1>10. q'.count = q'.items + Cardinality(Taking') + Cardinality(Posting')
  <2>1. q.count = q.items + Cardinality(Taking) + Cardinality(Posting)
    BY CountFacts
  <2>2. Cardinality(Taking) \in Nat /\ Cardinality(Posting) \in Nat /\ q.items \in Nat
    BY QueueFacts
  <2>3. q'.items \in Nat /\ Cardinality(Taking') \in Nat
    BY <1>7, <1>8, FS_CardinalityType
  <2>4. Cardinality(Posting') = Cardinality(Posting)
    BY <1>9
  <2> QED BY <1>7, <1>8, <2>1, <2>2, <2>3, <2>4
<1>11. Counts'
  <2>1. ASSUME Waiters(k', "senders") # {}
        PROVE  q'.count + Cardinality(Retrying') >= Capacity
    <3>1. q.count + Cardinality(Retrying) >= Capacity
      BY <2>1, <1>8, CountFacts
    <3>2. q'.count = q.count + 1 /\ Cardinality(Retrying') = Cardinality(Retrying)
      BY <1>7, <1>8
    <3>3. q.count \in Nat /\ Cardinality(Retrying) \in Nat /\ Capacity \in Nat
      BY QueueFacts
    <3>4. \A a, b, c \in Nat : a + b >= c => (a + 1) + b >= c
      OBVIOUS
    <3> QED BY <3>1, <3>2, <3>3, <3>4
  <2>2. IsFiniteSet(Posting') /\ IsFiniteSet(Retrying') /\ IsFiniteSet(Taking')
    BY <1>8, <1>9, CountFacts
  <2> QED BY <2>1, <2>2, <1>8, <1>10, ZenonT(60) DEF Counts, Waiters
<1> QED BY <1>0, <1>5, <1>7, <1>8, <1>11 DEF QInv, QueueType, Slot

\* A receive takes a counted message, and tells the first waiting sender of the room.
LEMMA RecvTakeInv ==
  ASSUME QInv, NEW t \in Reader, RecvTake(t)
  PROVE  QInv'
<1> DEFINE d == IF k.waitq["senders"] # <<>> THEN Wake(k, Head(k.waitq["senders"]), "ok") ELSE k
<1>0. /\ Good(k, call, {}) /\ irq \in Nat /\ t \in Thread /\ "senders" \in Obj
      /\ call' = call /\ irq' = irq
      /\ q' = [q EXCEPT !.head = (@ + 1) % Capacity, !.count = @ - 1]
      /\ pc' = [pc EXCEPT ![t] = "out"] /\ k' = Preempt(d, FALSE)
  BY QueueFacts DEF QInv, RecvTake
<1>1. k.on[t] = None /\ k.state[t] = "ready" /\ (pc[t] = "take" \/ (pc[t] = "item" /\ k.result[t] = "ok"))
  BY <1>0, Running DEF RecvTake, Woken
<1>2. Good(d, call, {}) /\ Offered(k, d, "senders")
  BY <1>0, OfferEffect
<1> HIDE DEF d
<1>3. Switched(d, Preempt(d, FALSE))
  BY <1>2, PreemptEffect DEF Good, Alive
<1>4. Good(k', call', {}) /\ Offered(k, k', "senders")
  BY <1>0, <1>2, <1>3, OfferedSwitched
<1>5. pc' = [u \in Thread |-> IF u \in {t} THEN "out" ELSE pc[u]]
  BY <1>0, QueueFacts
<1>6. t \in Taking /\ t \notin Posting /\ t \notin Retrying
  BY <1>1 DEF Taking, Posting, Retrying
<1>7. q.count > 0
  <2>1. Cardinality(Taking) # 0
    BY <1>6, CountFacts, FS_EmptySet
  <2> QED BY <2>1, CountFacts, QueueFacts
<1>8. /\ q'.items = q.items /\ q'.count = q.count - 1
      /\ q' \in [buf : [Slot -> Msg \cup {None}], head : Slot, count : 0 .. Capacity, items : Nat]
  <2>1. q \in [buf : [Slot -> Msg \cup {None}], head : Slot, count : 0 .. Capacity, items : Nat]
    BY DEF QInv, QueueType
  <2>2. (q.head + 1) % Capacity \in Slot /\ q.count - 1 \in 0 .. Capacity
    <3>1. q.head + 1 \in Nat /\ q.count - 1 \in 0 .. Capacity
      BY <1>7, QueueFacts
    <3> QED BY <3>1, InSlots
  <2> QED BY <1>0, <2>1, <2>2
<1>9. /\ Places' /\ pc' \in [Thread -> Points] /\ Posting' = Posting \ {t}
      /\ Taking' = Taking \ {t}
      /\ Waiters(k, "senders") = {} => Retrying' = Retrying \ {t}
      /\ Waiters(k, "senders") # {} => \E h : h \notin Retrying /\ Retrying' = (Retrying \ {t}) \cup {h}
      /\ Waiters(k', "items") \subseteq Waiters(k, "items")
      /\ Waiters(k', "senders") \subseteq Waiters(k, "senders")
  BY <1>0, <1>1, <1>4, <1>5, OfferSets
<1>10. /\ IsFiniteSet(Taking') /\ Cardinality(Taking') = Cardinality(Taking) - 1
       /\ Posting' = Posting
  BY <1>6, <1>9, CountFacts, Leaves
<1>11. /\ IsFiniteSet(Retrying')
       /\ Waiters(k, "senders") # {} => Cardinality(Retrying') = Cardinality(Retrying) + 1
  <2>1. CASE Waiters(k, "senders") = {}
    BY <2>1, <1>6, <1>9, CountFacts, FS_RemoveElement
  <2>2. CASE Waiters(k, "senders") # {}
    <3>1. PICK h : h \notin Retrying /\ Retrying' = Retrying \cup {h}
      BY <2>2, <1>6, <1>9
    <3> QED BY <3>1, Joins, CountFacts
  <2> QED BY <2>1, <2>2
<1>12. q'.count = q'.items + Cardinality(Taking') + Cardinality(Posting')
  <2>1. q.count = q.items + Cardinality(Taking) + Cardinality(Posting)
    BY CountFacts
  <2>2. Cardinality(Taking) \in Nat /\ Cardinality(Posting) \in Nat /\ q.items \in Nat
    BY QueueFacts
  <2>3. Cardinality(Posting') = Cardinality(Posting) /\ Cardinality(Taking') = Cardinality(Taking) - 1
    BY <1>10
  <2> QED BY <1>8, <2>1, <2>2, <2>3
<1>13. Counts'
  <2>1. q'.items > 0 => Waiters(k', "items") = {}
    BY <1>8, <1>9, CountFacts
  <2>2. ASSUME Waiters(k', "senders") # {}
        PROVE  q'.count + Cardinality(Retrying') >= Capacity
    <3>1. Waiters(k, "senders") # {}
      BY <2>2, <1>9
    <3>2. q.count + Cardinality(Retrying) >= Capacity
      BY <3>1, CountFacts
    <3>3. Cardinality(Retrying') = Cardinality(Retrying) + 1 /\ q'.count = q.count - 1
      BY <3>1, <1>8, <1>11
    <3>4. q.count \in Nat /\ Cardinality(Retrying) \in Nat /\ Capacity \in Nat
      BY QueueFacts
    <3>5. \A a, b, c \in Nat : a + b >= c => (a - 1) + (b + 1) >= c
      OBVIOUS
    <3> QED BY <3>2, <3>3, <3>4, <3>5
  <2> QED BY <2>1, <2>2, <1>10, <1>11, <1>12, CountFacts DEF Counts, Waiters
<1> QED BY <1>0, <1>4, <1>8, <1>9, <1>13 DEF QInv, QueueType, Slot

\* A step outside the queue's calls: it may make a thread ready that waits for
\* nothing of the queue's, or end a wait without what was waited for.
LEMMA OutsideInv ==
  ASSUME QInv, Good(k', call', {}), irq' \in Nat, UNCHANGED <<q, pc>>,
         \/ SameThreads(k, k')
         \/ \E n \in Thread : /\ k.state[n] = "none" /\ k'.state = [k.state EXCEPT ![n] = "ready"]
                              /\ k'.on = k.on /\ k'.result = k.result
         \/ \E n \in Thread : k.state[n] = "blocked" /\ WokenUp(k, k', n, "timeout")
  PROVE  QInv'
<1>0. /\ None \notin {"senders", "items"}
      /\ k.state \in [Thread -> States] /\ k.on \in [Thread -> Obj \cup {None}]
      /\ k.result \in [Thread -> Results]
      /\ \A u \in Thread : k.on[u] # None => k.state[u] = "blocked"
      /\ Sender \subseteq Thread /\ Reader \subseteq Thread
  BY QueueFacts, GoodTypes DEF QInv, Good, Lists, WaitLists
<1>1. QueueType'
  BY DEF QInv, QueueType, Slot
<1>2. /\ Places' /\ Taking' = Taking /\ Posting' = Posting /\ Retrying' = Retrying
      /\ Waiters(k', "items") \subseteq Waiters(k, "items")
      /\ Waiters(k', "senders") \subseteq Waiters(k, "senders")
  <2>1. CASE SameThreads(k, k')
    BY <2>1 DEF SameThreads, QInv, Places, Taking, Posting, Retrying, Waiters
  <2>2. ASSUME NEW n \in Thread, k.state[n] = "none", k'.state = [k.state EXCEPT ![n] = "ready"],
               k'.on = k.on, k'.result = k.result
        PROVE  /\ Places' /\ Taking' = Taking /\ Posting' = Posting /\ Retrying' = Retrying
               /\ Waiters(k', "items") \subseteq Waiters(k, "items")
               /\ Waiters(k', "senders") \subseteq Waiters(k, "senders")
    <3>1. pc[n] = "out"
      BY <1>0, <2>2, QueueFacts DEF QInv, Places, Points
    <3>2. k'.state[n] = "ready" /\ \A u \in Thread \ {n} : k'.state[u] = k.state[u]
      BY <1>0, <2>2
    <3>3. Places'
      BY <1>0, <2>2, <3>1, <3>2 DEF QInv, Places
    <3>4. Taking' = Taking /\ Posting' = Posting /\ Retrying' = Retrying
      BY <1>0, <2>2, <3>1, <3>2 DEF Taking, Posting, Retrying
    <3> QED BY <2>2, <3>3, <3>4 DEF Waiters
  <2>3. ASSUME NEW n \in Thread, k.state[n] = "blocked", WokenUp(k, k', n, "timeout")
        PROVE  /\ Places' /\ Taking' = Taking /\ Posting' = Posting /\ Retrying' = Retrying
               /\ Waiters(k', "items") \subseteq Waiters(k, "items")
               /\ Waiters(k', "senders") \subseteq Waiters(k, "senders")
    <3>1. /\ k'.state[n] = "ready" /\ k'.on[n] = None /\ k'.result[n] = "timeout"
          /\ \A u \in Thread \ {n} : /\ k'.state[u] = k.state[u] /\ k'.on[u] = k.on[u]
                                     /\ k'.result[u] = k.result[u]
      BY <1>0, <2>3 DEF WokenUp
    <3>2. Places'
      BY <1>0, <2>3, <3>1 DEF QInv, Places
    <3>3. Taking' = Taking /\ Posting' = Posting /\ Retrying' = Retrying
      BY <1>0, <2>3, <3>1 DEF QInv, Places, Taking, Posting, Retrying
    <3> QED BY <1>0, <3>1, <3>2, <3>3 DEF Waiters
  <2> QED BY <2>1, <2>2, <2>3
<1>3. Counts'
  BY <1>2, CountFacts, QueueFacts DEF Counts, Waiters
<1> QED BY <1>1, <1>2, <1>3 DEF QInv

LEMMA OtherInv == ASSUME QInv, Other PROVE QInv'
<1>1. IInv /\ UNCHANGED <<q, pc>>
  BY DEF QInv, IInv, Other
<1>2. CASE \E n \in Threads : At(Boot, "out") /\ Create(Boot, n)
  <2>1. PICK n \in Threads : Create(Boot, n)
    BY <1>2
  <2>2. Boot \in Threads /\ n \in Thread
    BY KernelAssumption DEF Threads
  <2> QED BY <1>1, <2>1, <2>2, CreateGood, OutsideInv DEF IInv
<1>3. CASE \E t \in Threads, ms \in Waits \ {None} : At(t, "out") /\ Sleep(t, ms)
  BY <1>1, <1>3, OtherSleepInv
<1>4. CASE TickBegin
  BY <1>1, <1>4, TickBeginGood, OutsideInv DEF IInv
<1>5. CASE TickWake
  BY <1>1, <1>5, TickWakeGood, OutsideInv DEF IInv
<1>6. CASE TickEnd
  BY <1>1, <1>6, TickEndGood, OutsideInv DEF IInv
<1> QED BY <1>2, <1>3, <1>4, <1>5, <1>6 DEF Other, Tick

LEMMA QInitInv == QInit => QInv
<1> SUFFICES ASSUME QInit PROVE QInv
  OBVIOUS
<1>1. Good(k, call, {}) /\ irq \in Nat
  BY InitGood DEF QInit, IInv
<1>2. k.on = [t \in Thread |-> None] /\ None \notin {"items", "senders"}
  BY QueueAssumption, ThreadAssumption DEF QInit, Init
<1>3. Capacity \in Nat /\ Capacity > 0
  BY QueueAssumption
<1>4. QueueType
  BY <1>3 DEF QInit, QueueType, Slot, Points
<1>5. Places
  BY <1>2 DEF QInit, Places
<1>6. Taking = {} /\ Posting = {} /\ Retrying = {}
  BY QueueAssumption DEF QInit, Taking, Posting, Retrying
<1>7. \A o \in {"items", "senders"} : Waiters(k, o) = {}
  BY <1>2 DEF Waiters
<1>8. Counts
  <2>1. q.count = 0 /\ q.items = 0 /\ Cardinality({}) = 0 /\ IsFiniteSet({})
    BY FS_EmptySet DEF QInit
  <2> QED BY <1>6, <1>7, <2>1 DEF Counts
<1> QED BY <1>1, <1>4, <1>5, <1>8 DEF QInv

LEMMA QNextInv == QInv /\ [QNext]_qvars => QInv'
<1> SUFFICES ASSUME QInv, [QNext]_qvars PROVE QInv'
  OBVIOUS
<1>1. ASSUME NEW t \in Sender, Send(t) PROVE QInv'
  BY <1>1, SendPutInv, SendBlockInv, TimedOutInv, SendPostInv DEF Send
<1>2. ASSUME NEW t \in Reader, Recv(t) PROVE QInv'
  BY <1>2, RecvCountInv, RecvBlockInv, TimedOutInv, RecvTakeInv DEF Recv
<1>3. CASE UNCHANGED qvars
  BY <1>3 DEF qvars, QInv, QueueType, Places, Counts, Taking, Posting, Retrying, Waiters, Slot
<1> QED BY <1>1, <1>2, <1>3, SendIsrInv, OtherInv DEF QNext

LEMMA QInductive == QSpec => []QInv
BY QInitInv, QNextInv, PTL DEF QSpec

\* Every message in the queue is counted once, by the semaphore, by a receiver that
\* has its count or by a sender that is about to post it; a receiver waits only while
\* nothing is counted, and a sender only while each free slot has a woken sender on
\* its way to it (queue_send and queue_recv in sync.c): for every number of threads
\* and slots, and whatever interrupts, timeouts and preemption do between the steps.
THEOREM QueueIsSound == QSpec => []QueueSound
<1>1. QInv => QueueSound
  <2> SUFFICES ASSUME QInv PROVE QueueSound
    OBVIOUS
  <2>1. TypeOK
    BY DEF QInv, Good, Lists, TypeOK
  <2>2. q.items <= q.count
    BY CountFacts, QueueFacts
  <2>3. QTypeOK
    <3>1. q.head \in Slot /\ q.count \in 0 .. Capacity /\ q.items \in 0 .. Capacity
      BY <2>2, QueueFacts
    <3> QED BY <2>1, <3>1, QueueFacts DEF QTypeOK, Points
  <2>4. \A o \in {"items", "senders"} : k.waitq[o] = <<>> <=> Waiters(k, o) = {}
    BY QueueFacts, OfferEffect DEF QInv
  <2> QED BY <2>3, <2>4, CountFacts DEF QueueSound, CountedOnce, NoneIdle
<1> QED BY <1>1, QInductive, PTL
-----------------------------------------------------------------------------
(* The queue implements the channel. *)

LEMMA Wraps ==
  ASSUME NEW c \in Nat \ {0}, NEW h \in 0 .. c - 1, NEW i \in 0 .. c
  PROVE  (h + i) % c = IF h + i < c THEN h + i ELSE h + i - c
<1>1. CASE h + i < c
  <2>1. h + i \in 0 .. c - 1
    BY <1>1
  <2> QED BY <1>1, <2>1
<1>2. CASE ~(h + i < c)
  <2>1. h + i \in c .. 2 * c - 1
    BY <1>2
  <2> QED BY <1>2, <2>1
<1> QED BY <1>1, <1>2

\* The slot of one message is not that of another, and taking the first message
\* moves all others up by one.
LEMMA SlotsApart ==
  ASSUME NEW c \in Nat \ {0}, NEW h \in 0 .. c - 1, NEW i \in 0 .. c - 1, NEW j \in 0 .. c - 1,
         i # j
  PROVE  (h + i) % c # (h + j) % c
<1>1. /\ (h + i) % c = IF h + i < c THEN h + i ELSE h + i - c
      /\ (h + j) % c = IF h + j < c THEN h + j ELSE h + j - c
  <2>1. i \in 0 .. c /\ j \in 0 .. c
    OBVIOUS
  <2> QED BY <2>1, Wraps
<1> QED BY <1>1

LEMMA SlotsMove ==
  ASSUME NEW c \in Nat \ {0}, NEW h \in 0 .. c - 1, NEW i \in 0 .. c - 1
  PROVE  (((h + 1) % c) + i) % c = (h + (i + 1)) % c
<1> DEFINE n == (h + 1) % c
<1>1. 1 \in 0 .. c /\ i \in 0 .. c /\ i + 1 \in 0 .. c
  OBVIOUS
<1>2. n = IF h + 1 < c THEN h + 1 ELSE h + 1 - c
  BY <1>1, Wraps
<1>3. n \in 0 .. c - 1
  BY <1>2
<1> HIDE DEF n
<1>4. (n + i) % c = IF n + i < c THEN n + i ELSE n + i - c
  BY <1>1, <1>3, Wraps
<1>5. (h + (i + 1)) % c = IF h + (i + 1) < c THEN h + (i + 1) ELSE h + (i + 1) - c
  BY <1>1, Wraps
<1> QED BY <1>2, <1>4, <1>5 DEF n

\* The content is a sequence of count messages.
LEMMA ContentType ==
  ASSUME QInv
  PROVE  /\ Content \in Seq(Msg \cup {None}) /\ Len(Content) = q.count
         /\ \A i \in 1 .. q.count : Content[i] = q.buf[(q.head + i - 1) % Capacity]
<1>1. \A i \in 1 .. q.count : (q.head + i - 1) % Capacity \in Slot
  <2>1. \A i \in 1 .. q.count : q.head + i - 1 \in Nat
    BY QueueFacts
  <2> QED BY <2>1, InSlots
<1>2. \A i \in 1 .. q.count : q.buf[(q.head + i - 1) % Capacity] \in Msg \cup {None}
  BY <1>1, QueueFacts
<1>3. q.count \in Nat
  BY QueueFacts
<1>4. Content \in [1 .. q.count -> Msg \cup {None}]
  BY <1>2 DEF Content
<1>5. \A i \in 1 .. q.count : Content[i] = q.buf[(q.head + i - 1) % Capacity]
  BY DEF Content
<1> QED BY <1>3, <1>4, <1>5, IsSequence

\* A put appends to the content, wherever in the buffer the content begins.
LEMMA PutAppends ==
  ASSUME QInv, QInv', NEW m \in Msg, q.count < Capacity, q'.buf = Put(m).buf,
         q'.head = q.head, q'.count = q.count + 1
  PROVE  Content' = Append(Content, m)
<1> DEFINE tail == (q.head + q.count) % Capacity
<1>1. /\ Content \in Seq(Msg \cup {None}) /\ Len(Content) = q.count
      /\ \A i \in 1 .. q.count : Content[i] = q.buf[(q.head + i - 1) % Capacity]
  BY ContentType
<1>2. q'.buf = [q.buf EXCEPT ![tail] = m] /\ tail \in Slot
  BY PutType
<1>3. /\ Content' = [i \in 1 .. q.count + 1 |-> q'.buf[(q.head + i - 1) % Capacity]]
      /\ q.count \in Nat /\ q.head \in Nat /\ q.head < Capacity /\ Capacity \in Nat \ {0}
      /\ q.buf \in [Slot -> Msg \cup {None}] /\ Slot = 0 .. Capacity - 1
  BY QueueFacts DEF Content
<1>4. Content'[q.count + 1] = m
  <2>1. q.head + (q.count + 1) - 1 = q.head + q.count
    BY <1>3
  <2> QED BY <1>2, <1>3, <2>1
<1>5. ASSUME NEW i \in 1 .. q.count PROVE Content'[i] = Content[i]
  <2>1. /\ i - 1 \in 0 .. Capacity - 1 /\ q.count \in 0 .. Capacity - 1 /\ i - 1 # q.count
        /\ q.head \in 0 .. Capacity - 1 /\ q.head + i - 1 = q.head + (i - 1)
        /\ Capacity \in Nat \ {0}
    BY QueueFacts
  <2>2. (q.head + i - 1) % Capacity # tail
    BY <2>1, SlotsApart
  <2>3. (q.head + i - 1) % Capacity \in Slot
    <3>1. q.head + i - 1 \in Nat
      BY <1>3
    <3> QED BY <3>1, InSlots
  <2>4. i \in 1 .. q.count + 1
    BY <1>3
  <2> HIDE DEF tail
  <2> QED BY <1>1, <1>2, <1>3, <2>2, <2>3, <2>4
<1>6. Content' \in Seq(Msg \cup {None}) /\ Len(Content') = q.count + 1
  <2>2. \A i \in 1 .. q.count + 1 : q.head + i - 1 \in Nat
    BY <1>3
  <2>3. \A i \in 1 .. q.count + 1 : (q.head + i - 1) % Capacity \in Slot
    BY <2>2, InSlots
  <2>4. q'.buf \in [Slot -> Msg \cup {None}] /\ q.count + 1 \in Nat
    BY <1>2, <1>3
  <2>5. Content' \in [1 .. q.count + 1 -> Msg \cup {None}]
    BY <1>3, <2>3, <2>4
  <2> QED BY <2>4, <2>5, IsSequence
<1>7. ASSUME NEW a, a = Append(Content, m) PROVE Content' = a
  <2>1. /\ a \in Seq(Msg \cup {None}) /\ Len(a) = q.count + 1
        /\ \A i \in 1 .. q.count : a[i] = Content[i]
        /\ a[q.count + 1] = m
    BY <1>1, <1>7, AppendProperties
  <2>2. ASSUME NEW i \in 1 .. q.count + 1 PROVE Content'[i] = a[i]
    <3>1. i = q.count + 1 \/ i \in 1 .. q.count
      BY <1>3
    <3> QED BY <1>4, <1>5, <2>1, <3>1
  <2> QED BY <1>6, <2>1, <2>2, SeqEqual
<1> QED BY <1>7

\* A take removes the first message of the content, and is given it.
LEMMA TakeReceives ==
  ASSUME QInv, QInv', q.count > 0, q'.buf = q.buf,
         q'.head = (q.head + 1) % Capacity, q'.count = q.count - 1
  PROVE  Content # <<>> /\ q.buf[q.head] = Head(Content) /\ Content' = Tail(Content)
<1>1. /\ Content \in Seq(Msg \cup {None}) /\ Len(Content) = q.count
      /\ \A i \in 1 .. q.count : Content[i] = q.buf[(q.head + i - 1) % Capacity]
  BY ContentType
<1>2. /\ Content' = [i \in 1 .. q.count - 1 |-> q.buf[(q'.head + i - 1) % Capacity]]
      /\ q.count \in Nat /\ q.count <= Capacity
      /\ q.head \in Nat /\ q.head < Capacity /\ Capacity \in Nat \ {0}
  BY QueueFacts DEF Content
<1>3. Content # <<>>
  BY <1>1, <1>2
<1>4. q.buf[q.head] = Head(Content)
  <2>1. /\ 1 \in 1 .. q.count /\ q.head + 1 - 1 = q.head /\ q.head + 0 = q.head
        /\ q.head \in 0 .. Capacity - 1 /\ Capacity \in Nat \ {0}
    BY QueueFacts
  <2>2. q.head % Capacity = q.head
    BY <2>1
  <2>3. Head(Content) = Content[1]
    BY <1>1, <1>3
  <2> QED BY <1>1, <2>1, <2>2, <2>3
<1>5. ASSUME NEW i \in 1 .. q.count - 1 PROVE Content'[i] = Content[i + 1]
  <2>1. /\ q.head \in 0 .. Capacity - 1 /\ i - 1 \in 0 .. Capacity - 1 /\ Capacity \in Nat \ {0}
        /\ i - 1 + 1 = i /\ q.head + (i + 1) - 1 = q.head + i /\ i \in Nat
    BY QueueFacts
  <2>2. (((q.head + 1) % Capacity) + (i - 1)) % Capacity = (q.head + i) % Capacity
    BY <2>1, SlotsMove
  <2>3. ((q.head + 1) % Capacity) + i - 1 = ((q.head + 1) % Capacity) + (i - 1)
    <3>1. (q.head + 1) % Capacity \in Nat
      <4>1. q.head + 1 \in Nat
        BY <2>1
      <4> QED BY <4>1, InSlots, Zenon
    <3> QED BY <3>1, <2>1
  <2>4. Content'[i] = q.buf[(q.head + i) % Capacity]
    BY <1>2, <2>2, <2>3
  <2>5. Content[i + 1] = q.buf[(q.head + i) % Capacity]
    <3>1. i + 1 \in 1 .. q.count
      BY QueueFacts
    <3> QED BY <1>1, <2>1, <3>1
  <2> QED BY <2>4, <2>5
<1>6. Content' \in Seq(Msg \cup {None}) /\ Len(Content') = q.count - 1
  <2>1. /\ q.count - 1 \in Nat /\ Slot = 0 .. Capacity - 1 /\ Capacity \in Nat \ {0}
        /\ q.buf \in [Slot -> Msg \cup {None}] /\ q.head \in Nat
    BY QueueFacts
  <2>2. (q.head + 1) % Capacity \in Nat
    <3>1. q.head + 1 \in Nat
      BY <2>1
    <3> QED BY <3>1, InSlots, Zenon
  <2>4. \A i \in 1 .. q.count - 1 : (((q.head + 1) % Capacity) + i - 1) \in Nat
    BY <2>1, <2>2
  <2>5. \A i \in 1 .. q.count - 1 : (q'.head + i - 1) % Capacity \in Slot
    BY <2>4, InSlots
  <2>6. Content' \in [1 .. q.count - 1 -> Msg \cup {None}]
    BY <1>2, <2>1, <2>5
  <2> QED BY <2>1, <2>6, IsSequence
<1>7. Content' = Tail(Content)
  <2>1. /\ Tail(Content) \in Seq(Msg \cup {None}) /\ Len(Tail(Content)) = q.count - 1
        /\ \A i \in 1 .. q.count - 1 : Tail(Content)[i] = Content[i + 1]
    BY <1>1, <1>3, HeadTailProperties
  <2> QED BY <1>5, <1>6, <2>1, SeqEqual
<1> QED BY <1>3, <1>4, <1>7

\* The message queue implements the bounded first-in first-out channel of its
\* interface (kernel.h): a send, from a thread or an interrupt, appends the message,
\* a receive hands out the oldest, and no other step touches the content.
THEOREM QueueIsChannel == QSpec => ImplementsChannel
<1>1. QInit => Fifo!Init
  <2> SUFFICES ASSUME QInit PROVE Fifo!Init
    OBVIOUS
  <2>1. QInv
    BY QInitInv
  <2>2. Content \in Seq(Msg \cup {None}) /\ Len(Content) = 0
    BY <2>1, ContentType DEF QInit
  <2> QED BY <2>2 DEF QInit, Fifo!Init
<1>2. QInv /\ QInv' /\ [QNext]_qvars => [Fifo!Next]_<<Content, in, out>>
  <2> SUFFICES ASSUME QInv, QInv', [QNext]_qvars PROVE [Fifo!Next]_<<Content, in, out>>
    OBVIOUS
  <2>0. q \in [buf : [Slot -> Msg \cup {None}], head : Slot, count : 0 .. Capacity, items : Nat]
    BY DEF QInv, QueueType
  <2>1. ASSUME NEW m \in Msg, q.count < Capacity, q' = [Put(m) EXCEPT !.items = q'.items],
               in' = m, out' = out
        PROVE  Fifo!Next
    <3>1. q'.buf = Put(m).buf /\ q'.head = q.head /\ q'.count = q.count + 1
      BY <2>1, PutType
    <3>2. Content' = Append(Content, m) /\ Len(Content) < Capacity
      BY <2>1, <3>1, PutAppends, ContentType
    <3> QED BY <2>1, <3>2 DEF Fifo!Next, Fifo!Send
  <2>2. ASSUME q'.buf = q.buf, q'.head = q.head, q'.count = q.count, UNCHANGED <<in, out>>
        PROVE  UNCHANGED <<Content, in, out>>
    BY <2>2 DEF Content
  <2>3. ASSUME NEW t \in Sender, NEW m \in Msg, SendPut(t, m) PROVE Fifo!Next
    <3>1. q' = Put(m) /\ q.count < Capacity /\ in' = m /\ out' = out
      BY <2>3 DEF SendPut
    <3>2. Put(m) \in [buf : [Slot -> Msg \cup {None}], head : Slot, count : 0 .. Capacity, items : Nat]
      BY <3>1, PutType
    <3>3. q' = [Put(m) EXCEPT !.items = q'.items]
      BY <3>1, <3>2
    <3> QED BY <2>1, <3>1, <3>3
  <2>4. ASSUME NEW m \in Msg, SendIsr(m) PROVE Fifo!Next
    <3>1. /\ q' = [Put(m) EXCEPT !.items = Counted(@)]
          /\ q.count < Capacity /\ in' = m /\ out' = out
      BY <2>4 DEF SendIsr
    <3>2. Put(m) \in [buf : [Slot -> Msg \cup {None}], head : Slot, count : 0 .. Capacity, items : Nat]
      BY <3>1, PutType
    <3>3. q' = [Put(m) EXCEPT !.items = q'.items]
      BY <3>1, <3>2
    <3> QED BY <2>1, <3>1, <3>3
  <2>5. ASSUME NEW t \in Sender, SendPost(t) PROVE UNCHANGED <<Content, in, out>>
    <3>1. q' = [q EXCEPT !.items = Counted(@)] /\ UNCHANGED <<in, out>>
      BY <2>5 DEF SendPost
    <3> QED BY <2>0, <2>2, <3>1
  <2>6. ASSUME NEW t \in Sender, (\E m \in Msg, ms \in Waits : SendBlock(t, m, ms)) \/ SendTimedOut(t)
        PROVE  UNCHANGED <<Content, in, out>>
    BY <2>2, <2>6 DEF SendBlock, SendTimedOut
  <2>7. ASSUME NEW t \in Reader, RecvCount(t) PROVE UNCHANGED <<Content, in, out>>
    <3>1. q' = [q EXCEPT !.items = @ - 1] /\ UNCHANGED <<in, out>>
      BY <2>7 DEF RecvCount
    <3> QED BY <2>0, <2>2, <3>1
  <2>8. ASSUME NEW t \in Reader, (\E ms \in Waits : RecvBlock(t, ms)) \/ RecvTimedOut(t)
        PROVE  UNCHANGED <<Content, in, out>>
    BY <2>2, <2>8 DEF RecvBlock, RecvTimedOut
  <2>9. ASSUME NEW t \in Reader, RecvTake(t) PROVE Fifo!Next
    <3>1. /\ q' = [q EXCEPT !.head = (@ + 1) % Capacity, !.count = @ - 1]
          /\ out' = q.buf[q.head] /\ in' = in
      BY <2>9 DEF RecvTake
    <3>2. q'.buf = q.buf /\ q'.head = (q.head + 1) % Capacity /\ q'.count = q.count - 1
      BY <2>0, <3>1
    <3>3. q.count > 0
      BY <3>2, QueueFacts DEF QInv, QueueType
    <3>4. Content # <<>> /\ q.buf[q.head] = Head(Content) /\ Content' = Tail(Content)
      BY <3>2, <3>3, TakeReceives
    <3> QED BY <3>1, <3>4 DEF Fifo!Next, Fifo!Receive
  <2>10. CASE Other \/ UNCHANGED qvars
    BY <2>2, <2>10 DEF Other, qvars
  <2>11. ASSUME NEW t \in Sender, Send(t) PROVE [Fifo!Next]_<<Content, in, out>>
    BY <2>3, <2>5, <2>6, <2>11 DEF Send
  <2>12. ASSUME NEW t \in Reader, Recv(t) PROVE [Fifo!Next]_<<Content, in, out>>
    BY <2>7, <2>8, <2>9, <2>12 DEF Recv
  <2> QED BY <2>4, <2>10, <2>11, <2>12 DEF QNext
<1> QED BY <1>1, <1>2, QInductive, PTL DEF QSpec, ImplementsChannel, Fifo!Spec
=============================================================================
