---------------------------- MODULE KernelQueue ----------------------------
(***************************************************************************)
(* A message queue and the semaphore that counts its messages               *)
(* (os/kernel/sync.c), on the threads, wait lists and ticks of Kernel.       *)
(* Threads and an interrupt handler send, threads receive.  A call is more   *)
(* than one critical section: between queue_send's put() and its sem_post,   *)
(* and between queue_recv's sem_wait and its copy of the message, interrupts *)
(* are on and any other thread can run.                                      *)
(***************************************************************************)
EXTENDS Kernel

CONSTANTS
  Msg,        \* the messages
  Sender,     \* the threads that send
  Reader,     \* the threads that receive
  Capacity    \* q->capacity

ASSUME QueueAssumption ==
  /\ Sender \cup Reader \subseteq Thread \ {Idle}
  /\ Obj = {"items", "senders"} /\ Mutex = {}
  /\ None \notin Msg
  /\ Capacity \in Nat \ {0}

VARIABLES
  q,     \* the queue: buf, head, count and the count of the semaphore items
  pc,    \* where each thread is inside queue_send or queue_recv
  msg,   \* the message a thread is sending
  in,    \* the message that was put last
  out    \* the message that was received last

qvars == <<k, call, irq, q, pc, msg, in, out>>

Slot == 0 .. Capacity - 1

QInit ==
  /\ Init
  /\ q = [buf |-> [i \in Slot |-> None], head |-> 0, count |-> 0, items |-> 0]
  /\ pc = [t \in Thread |-> "out"]
  /\ msg = [t \in Thread |-> None]
  /\ in = None /\ out = None

\* Thread t runs and is at point p of a queue call.
At(t, p) == Free(t) /\ pc[t] = p

\* A blocked call goes on once its thread has been woken and runs again.
Woken(t, p, r) == At(t, p) /\ k.result[t] = r
-----------------------------------------------------------------------------
\* Mutant: the index of the new message is not taken modulo the capacity.
PutAtEnd(m) ==
  LET tail == q.head + q.count
  IN  [q EXCEPT !.buf = [i \in Slot |-> IF i = tail THEN m ELSE @[i]], !.count = @ + 1]

Put(m) ==
  LET tail == (q.head + q.count) % Capacity
  IN  [q EXCEPT !.buf[tail] = m, !.count = @ + 1]

\* sem_post on q->items: the first waiter gets the count itself.
PostWakes == k.waitq["items"] # <<>>
Posted(d) == IF PostWakes THEN Wake(d, Head(d.waitq["items"]), "ok") ELSE d

Counted(n) == IF PostWakes THEN n ELSE n + 1

\* queue_send's loop ends: there is room, at the first look or after a wait.
SendPut(t, m) ==
  /\ At(t, "out") \/ (Woken(t, "room", "ok") /\ msg[t] = m)
  /\ q.count < Capacity
  /\ q' = Put(m)
  /\ pc' = [pc EXCEPT ![t] = "post"]
  /\ msg' = [msg EXCEPT ![t] = m]
  /\ in' = m
  /\ UNCHANGED <<k, call, irq, out>>

\* The queue is full, at the first look or again after a wait: each wait is
\* given the whole timeout.
SendBlock(t, m, ms) ==
  /\ At(t, "out") \/ (Woken(t, "room", "ok") /\ msg[t] = m)
  /\ q.count = Capacity
  /\ k' = Block(k, "senders", ms)
  /\ pc' = [pc EXCEPT ![t] = "room"]
  /\ msg' = [msg EXCEPT ![t] = m]
  /\ UNCHANGED <<call, irq, q, in, out>>

SendTimedOut(t) ==
  /\ Woken(t, "room", "timeout")
  /\ pc' = [pc EXCEPT ![t] = "out"]
  /\ msg' = [msg EXCEPT ![t] = None]
  /\ UNCHANGED <<k, call, irq, q, in, out>>

SendPost(t) ==
  /\ At(t, "post")
  /\ k' = Preempt(Posted(k), FALSE)
  /\ q' = [q EXCEPT !.items = Counted(@)]
  /\ pc' = [pc EXCEPT ![t] = "out"]
  /\ msg' = [msg EXCEPT ![t] = None]
  /\ UNCHANGED <<call, irq, in, out>>

\* queue_send_isr in a handler of its own: nothing runs between its two
\* halves, and the handler's exit may switch.  A full queue drops the message.
SendIsr(m) ==
  /\ irq = 0
  /\ q.count < Capacity
  /\ q' = [Put(m) EXCEPT !.items = Counted(@)]
  /\ k' = IrqExit(Preempt(Posted(k), TRUE))
  /\ in' = m
  /\ UNCHANGED <<call, irq, pc, msg, out>>

\* sem_wait on q->items.
RecvCount(t) ==
  /\ At(t, "out")
  /\ q.items > 0
  /\ q' = [q EXCEPT !.items = @ - 1]
  /\ pc' = [pc EXCEPT ![t] = "take"]
  /\ UNCHANGED <<k, call, irq, msg, in, out>>

RecvBlock(t, ms) ==
  /\ At(t, "out")
  /\ q.items = 0
  /\ k' = Block(k, "items", ms)
  /\ pc' = [pc EXCEPT ![t] = "item"]
  /\ UNCHANGED <<call, irq, q, msg, in, out>>

RecvTimedOut(t) ==
  /\ Woken(t, "item", "timeout")
  /\ pc' = [pc EXCEPT ![t] = "out"]
  /\ UNCHANGED <<k, call, irq, q, msg, in, out>>

\* Mutant: no waiting sender is told of the room.
RecvTakeSilently(t) ==
  /\ At(t, "take") \/ Woken(t, "item", "ok")
  /\ out' = q.buf[q.head]
  /\ q' = [q EXCEPT !.head = (@ + 1) % Capacity, !.count = @ - 1]
  /\ pc' = [pc EXCEPT ![t] = "out"]
  /\ UNCHANGED <<k, call, irq, msg, in>>

RecvTake(t) ==
  /\ At(t, "take") \/ Woken(t, "item", "ok")
  /\ out' = q.buf[q.head]
  /\ q' = [q EXCEPT !.head = (@ + 1) % Capacity, !.count = @ - 1]
  /\ LET s == k.waitq["senders"]
     IN  k' = Preempt(IF s # <<>> THEN Wake(k, Head(s), "ok") ELSE k, FALSE)
  /\ pc' = [pc EXCEPT ![t] = "out"]
  /\ UNCHANGED <<call, irq, msg, in>>
-----------------------------------------------------------------------------
Send(t) ==
  \/ \E m \in Msg : SendPut(t, m) \/ (\E ms \in Waits : SendBlock(t, m, ms))
  \/ SendTimedOut(t)
  \/ SendPost(t)

Recv(t) ==
  \/ RecvCount(t)
  \/ \E ms \in Waits : RecvBlock(t, ms)
  \/ RecvTimedOut(t)
  \/ RecvTake(t)

\* What the threads do besides, and the timer.
Other ==
  /\ \/ \E n \in Threads : At(Boot, "out") /\ Create(Boot, n)
     \/ \E t \in Threads, ms \in Waits \ {None} : At(t, "out") /\ Sleep(t, ms)
     \/ Tick
  /\ UNCHANGED <<q, pc, msg, in, out>>

QNext ==
  \/ \E t \in Sender : Send(t)
  \/ \E t \in Reader : Recv(t)
  \/ \E m \in Msg : SendIsr(m)
  \/ Other

QSpec == QInit /\ [][QNext]_qvars
-----------------------------------------------------------------------------
\* Type correctness of the queue.
QTypeOK ==
  /\ TypeOK
  /\ q.head \in Slot /\ q.count \in 0 .. Capacity /\ q.items \in 0 .. Capacity
  /\ pc \in [Thread -> {"out", "room", "post", "item", "take"}]

\* The threads that are through their wait and have not acted on it yet.
Taking == {t \in Reader : pc[t] = "take" \/ (/\ pc[t] = "item" /\ k.state[t] = "ready"
                                              /\ k.result[t] = "ok")}
Retrying == {t \in Sender : pc[t] = "room" /\ k.state[t] = "ready" /\ k.result[t] = "ok"}
Posting == {t \in Sender : pc[t] = "post"}

\* Every message is counted once: by the semaphore, by a receiver that has
\* its count already, or by a sender that is about to post it.
CountedOnce ==
  /\ QTypeOK
  /\ q.count = q.items + Cardinality(Taking) + Cardinality(Posting)

\* A receiver never waits while the semaphore holds a count, and a sender only
\* while every free slot has a woken sender on its way to it: a slot that a third
\* thread took away is waited for again.
NoneIdle ==
  /\ q.items > 0 => k.waitq["items"] = <<>>
  /\ k.waitq["senders"] # <<>> => q.count + Cardinality(Retrying) >= Capacity

\* Counts and wake-ups are neither lost nor given twice (queue_send, queue_recv).
QueueSound == CountedOnce /\ NoneIdle

\* The queue is a bounded FIFO channel: its content is the count slots from
\* head on, taken round the end of the buffer.
Content == [i \in 1 .. q.count |-> q.buf[(q.head + i - 1) % Capacity]]

Fifo == INSTANCE Channel WITH NoMsg <- None, ch <- Content

ImplementsChannel == Fifo!Spec
=============================================================================
