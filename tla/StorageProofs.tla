---------------------------- MODULE StorageProofs ----------------------------
(***************************************************************************)
(* Proofs about the card log and about the USB storage session: for every   *)
(* size of the log's buffer and of its file, and for every host.            *)
(***************************************************************************)
EXTENDS UsbStorage, CardLog, SequenceTheorems, TLAPS

-----------------------------------------------------------------------------
(* Sequences of lines *)

\* What is logged up to line n: numbered lines and marks.
LinesTo(n) == (1 .. n) \cup {Mark}

Numbers(s) == Elems(s) \ {Mark}
Below(a, b) == \A l \in Numbers(a), m \in Numbers(b) : l < m

\* One sequence after the other: its elements, and when its numbers rise.
LEMMA RisingConcat ==
  ASSUME NEW A, NEW a \in Seq(A), NEW b \in Seq(A)
  PROVE  /\ Elems(a \o b) = Elems(a) \cup Elems(b)
         /\ Rising(a \o b) <=> Rising(a) /\ Rising(b) /\ Below(a, b)
<1> DEFINE c == a \o b
<1>1. /\ Len(a) \in Nat /\ Len(b) \in Nat /\ Len(c) = Len(a) + Len(b)
      /\ DOMAIN a = 1 .. Len(a) /\ DOMAIN b = 1 .. Len(b) /\ DOMAIN c = 1 .. Len(c)
      /\ \A i \in 1 .. Len(a) : c[i] = a[i]
      /\ \A i \in 1 .. Len(b) : c[Len(a) + i] = b[i]
  BY ConcatProperties
<1> HIDE DEF c
<1>2. ASSUME NEW i \in DOMAIN c
      PROVE  i \in DOMAIN a \/ \E j \in DOMAIN b : i = Len(a) + j
  <2>1. CASE i <= Len(a)
    BY <1>1, <2>1
  <2>2. CASE ~(i <= Len(a))
    <3>1. i - Len(a) \in DOMAIN b /\ i = Len(a) + (i - Len(a))
      BY <1>1, <2>2
    <3> QED BY <3>1
  <2> QED BY <2>1, <2>2
<1>3. /\ \A i \in DOMAIN a : i \in DOMAIN c /\ c[i] = a[i]
      /\ \A j \in DOMAIN b : Len(a) + j \in DOMAIN c /\ c[Len(a) + j] = b[j]
  BY <1>1
<1>4. Elems(c) = Elems(a) \cup Elems(b)
  <2>1. Elems(c) \subseteq Elems(a) \cup Elems(b)
    BY <1>2, <1>3 DEF Elems
  <2>2. Elems(a) \cup Elems(b) \subseteq Elems(c)
    BY <1>3 DEF Elems
  <2> QED BY <2>1, <2>2
<1>5. ASSUME Rising(c) PROVE Rising(a) /\ Rising(b) /\ Below(a, b)
  <2>1. Rising(a)
    BY <1>3, <1>5 DEF Rising
  <2>2. Rising(b)
    <3> SUFFICES ASSUME NEW i \in DOMAIN b, NEW j \in DOMAIN b, i < j, b[i] # Mark, b[j] # Mark
                 PROVE  b[i] < b[j]
      BY DEF Rising
    <3>1. Len(a) + i < Len(a) + j
      BY <1>1
    <3> QED BY <1>3, <1>5, <3>1 DEF Rising
  <2>3. Below(a, b)
    <3> SUFFICES ASSUME NEW i \in DOMAIN a, NEW j \in DOMAIN b, a[i] # Mark, b[j] # Mark
                 PROVE  a[i] < b[j]
      BY DEF Below, Numbers, Elems
    <3>1. i < Len(a) + j
      BY <1>1
    <3> QED BY <1>3, <1>5, <3>1 DEF Rising
  <2> QED BY <2>1, <2>2, <2>3
<1>6. ASSUME Rising(a), Rising(b), Below(a, b) PROVE Rising(c)
  <2> SUFFICES ASSUME NEW i \in DOMAIN c, NEW j \in DOMAIN c, i < j, c[i] # Mark, c[j] # Mark
               PROVE  c[i] < c[j]
    BY DEF Rising
  <2>1. CASE i \in DOMAIN a /\ j \in DOMAIN a
    BY <2>1, <1>3, <1>6 DEF Rising
  <2>2. CASE i \in DOMAIN a /\ j \notin DOMAIN a
    <3>1. PICK l \in DOMAIN b : j = Len(a) + l
      BY <1>2, <2>2
    <3> QED BY <2>2, <3>1, <1>3, <1>6 DEF Below, Numbers, Elems
  <2>3. CASE i \notin DOMAIN a
    <3>1. PICK l \in DOMAIN b : i = Len(a) + l
      BY <1>2, <2>3
    <3>2. j \notin DOMAIN a
      BY <1>1, <3>1
    <3>3. PICK n \in DOMAIN b : j = Len(a) + n
      BY <1>2, <3>2
    <3>4. l < n
      BY <1>1, <3>1, <3>3
    <3> QED BY <3>1, <3>3, <3>4, <1>3, <1>6 DEF Rising
  <2> QED BY <2>1, <2>2, <2>3
<1> QED BY <1>4, <1>5, <1>6 DEF c

-----------------------------------------------------------------------------
(* The card log *)

LogPoints == Calls \cup {"idle", "check", "stop", "unmount", "usb"}

LogType ==
  /\ scene \in Scenes /\ goal \in {"sync", "suspend"}
  /\ last \in Nat /\ dropped \in BOOLEAN /\ mounted \in BOOLEAN /\ vol \in BOOLEAN
  /\ buf \in Seq(1 .. last) /\ Len(buf) <= BufLines
  /\ out \in [1 .. BufLines + 1 -> LinesTo(last)]
  /\ took \in [Flusher -> Seq(LinesTo(last))] /\ \A t \in Flusher : Len(took[t]) <= BufLines + 1
  /\ pc \in [Flusher -> LogPoints]
  /\ vlock \in Flusher \cup {None} /\ opened \in Flusher \cup {None}
  /\ inside \in SUBSET Flusher
  /\ file \in Seq(LinesTo(last)) /\ old \in Seq(LinesTo(last))

\* What every flush took is older than what is in the buffer.
LogBase ==
  /\ LogType
  /\ Rising(buf)
  /\ \A t \in Flusher : Below(took[t], buf)

\* What follows for a flush of its own: the card is there, the file is the log
\* thread's from its open to its close, the old log is gone before the rename, and
\* the static buffer is what the flush took.
Alone ==
  /\ pc[Ui] = "idle" /\ mounted /\ vol
  /\ pc[Log] \notin {"stop", "unmount", "usb"}
  /\ opened = IF pc[Log] \in {"write", "close"} THEN Log ELSE None
  /\ pc[Log] = "rename" => old = <<>>
  /\ pc[Log] \notin {"idle", "close"} => \A i \in 1 .. Len(took[Log]) : out[i] = took[Log][i]
  /\ NoneMissing(AllLines)

\* The inductive invariant.
LogInv == LogBase /\ (Undisturbed => Alone)

LEMMA LinesGrow ==
  ASSUME NEW m \in Nat, NEW n \in Nat, m <= n
  PROVE  /\ Seq(1 .. m) \subseteq Seq(1 .. n)
         /\ Seq(LinesTo(m)) \subseteq Seq(LinesTo(n))
         /\ LinesTo(m) \subseteq LinesTo(n)
<1>1. 1 .. m \subseteq 1 .. n /\ LinesTo(m) \subseteq LinesTo(n)
  BY DEF LinesTo
<1> QED BY <1>1, SeqMonotonic

\* A line more in the buffer: it is newer than all the others.
LEMMA NewLine ==
  ASSUME NEW n \in Nat, NEW s \in Seq(LinesTo(n)), Rising(s)
  PROVE  /\ Elems(Append(s, n + 1)) = Elems(s) \cup {n + 1}
         /\ Rising(Append(s, n + 1))
<1> DEFINE A == LinesTo(n + 1)
<1>1. s \in Seq(A) /\ n + 1 \in A
  <2>1. n + 1 \in Nat /\ n <= n + 1
    OBVIOUS
  <2> QED BY <2>1, LinesGrow DEF LinesTo
<1>2. <<n + 1>> \in Seq(A) /\ DOMAIN <<n + 1>> = {1} /\ <<n + 1>>[1] = n + 1
  BY <1>1
<1>3. Append(s, n + 1) = s \o <<n + 1>>
  BY <1>1, AppendIsConcat
<1>4. Elems(<<n + 1>>) = {n + 1} /\ Rising(<<n + 1>>)
  BY <1>2 DEF Elems, Rising
<1>5. \A l \in Numbers(s) : l < n + 1
  BY DEF Numbers, Elems, LinesTo
<1>6. Below(s, <<n + 1>>)
  BY <1>4, <1>5 DEF Below, Numbers
<1> DEFINE b == <<n + 1>>
<1>7. /\ s \in Seq(A) /\ b \in Seq(A) /\ Append(s, n + 1) = s \o b
      /\ Elems(b) = {n + 1} /\ Rising(b) /\ Below(s, b)
  BY <1>1, <1>2, <1>3, <1>4, <1>6
<1> HIDE DEF A, b
<1>8. Elems(s \o b) = Elems(s) \cup Elems(b) /\ Rising(s \o b)
  BY <1>7, RisingConcat
<1> QED BY <1>7, <1>8

\* What a flush takes are the numbers of the buffer.
LEMMA BatchLines ==
  ASSUME LogBase
  PROVE  /\ Batch \in Seq(LinesTo(last)) /\ Len(Batch) <= BufLines + 1
         /\ Numbers(Batch) = Numbers(buf) /\ (Rising(buf) => Rising(Batch))
         /\ Elems(buf) \subseteq Elems(Batch)
         /\ Copied(Batch) \in [1 .. BufLines + 1 -> LinesTo(last)]
         /\ \A i \in 1 .. Len(Batch) : Copied(Batch)[i] = Batch[i]
<1>1. /\ buf \in Seq(1 .. last) /\ Len(buf) <= BufLines /\ last \in Nat /\ BufLines \in Nat
      /\ out \in [1 .. BufLines + 1 -> LinesTo(last)] /\ dropped \in BOOLEAN
  BY CardLogAssumption DEF LogBase, LogType
<1>2. buf \in Seq(LinesTo(last)) /\ Mark \in LinesTo(last)
  BY <1>1, SeqMonotonic DEF LinesTo
<1>3. CASE ~dropped
  <2>1. Batch = buf
    BY <1>3 DEF Batch
  <2> QED BY <2>1, <1>1, <1>2 DEF Copied
<1>4. CASE dropped
  <2>1. Batch = buf \o <<Mark>>
    BY <1>2, <1>4, AppendIsConcat DEF Batch
  <2>2. <<Mark>> \in Seq(LinesTo(last)) /\ DOMAIN <<Mark>> = {1} /\ <<Mark>>[1] = Mark
    BY <1>2
  <2>3. Elems(<<Mark>>) = {Mark} /\ Rising(<<Mark>>)
    BY <2>2 DEF Elems, Rising
  <2>4. Below(buf, <<Mark>>)
    BY <2>3 DEF Below, Numbers
  <2>5. /\ Elems(Batch) = Elems(buf) \cup {Mark}
        /\ Rising(buf) => Rising(Batch)
    <3> DEFINE b == <<Mark>>
    <3>1. /\ b \in Seq(LinesTo(last)) /\ Batch = buf \o b
          /\ Elems(b) = {Mark} /\ Rising(b) /\ Below(buf, b)
      BY <2>1, <2>2, <2>3, <2>4
    <3> HIDE DEF b
    <3>2. /\ Elems(buf \o b) = Elems(buf) \cup Elems(b)
          /\ Rising(buf \o b) <=> Rising(buf) /\ Rising(b) /\ Below(buf, b)
      BY <1>2, <3>1, RisingConcat
    <3> QED BY <3>1, <3>2
  <2>6. Batch \in Seq(LinesTo(last)) /\ Len(Batch) = Len(buf) + 1
    BY <1>2, <1>4, AppendProperties DEF Batch
  <2>7. Len(Batch) <= BufLines + 1
    BY <1>1, <2>6
  <2> HIDE DEF Batch
  <2> QED BY <2>5, <2>6, <2>7, <1>1 DEF Copied, Numbers
<1> QED BY <1>1, <1>3, <1>4

LEMMA LogBaseInit == ASSUME LogInit PROVE LogBase
<1>1. LogType
  <2>1. scene \in Scenes /\ goal \in {"sync", "suspend"} /\ mounted \in BOOLEAN /\ vol \in BOOLEAN
        /\ last = 0 /\ dropped \in BOOLEAN /\ buf = <<>> /\ file = <<>> /\ old = <<>>
    BY DEF LogInit
  <2>2. buf \in Seq(1 .. last) /\ Len(buf) = 0 /\ 0 <= BufLines /\ 0 <= BufLines + 1
    BY <2>1, CardLogAssumption
  <2>3. file \in Seq(LinesTo(last)) /\ old \in Seq(LinesTo(last))
    BY <2>1
  <2>4. out \in [1 .. BufLines + 1 -> LinesTo(last)]
    BY DEF LogInit, LinesTo
  <2>5. /\ took \in [Flusher -> Seq(LinesTo(last))]
        /\ \A t \in Flusher : took[t] = <<>> /\ Len(took[t]) = 0
    BY DEF LogInit
  <2>6. pc \in [Flusher -> LogPoints]
    BY DEF LogInit, LogPoints
  <2>7. vlock = None /\ opened = None /\ inside \in SUBSET Flusher
    BY DEF LogInit
  <2>8. Len(buf) <= BufLines /\ \A t \in Flusher : Len(took[t]) <= BufLines + 1
    BY <2>2, <2>5
  <2> QED BY <2>1, <2>2, <2>3, <2>4, <2>5, <2>6, <2>7, <2>8 DEF LogType
<1>2. Rising(<<>>) /\ \A s : Below(s, <<>>)
  BY DEF Rising, Below, Numbers, Elems
<1> QED BY <1>1, <1>2 DEF LogInit, LogBase

LEMMA KlogBase == ASSUME LogBase, Klog, UNCHANGED scene PROVE LogBase'
<1>1. last \in Nat /\ buf \in Seq(1 .. last) /\ took \in [Flusher -> Seq(LinesTo(last))]
  BY DEF LogBase, LogType
<1>2. CASE /\ Len(buf) < BufLines /\ last' = last + 1
           /\ buf' = Append(buf, last') /\ UNCHANGED dropped
  <2>1. /\ Seq(1 .. last) \subseteq Seq(1 .. last')
        /\ Seq(LinesTo(last)) \subseteq Seq(LinesTo(last'))
        /\ LinesTo(last) \subseteq LinesTo(last')
    <3>1. last' \in Nat /\ last <= last'
      BY <1>1, <1>2
    <3> QED BY <1>1, <3>1, LinesGrow
  <2>2. buf' \in Seq(1 .. last') /\ Len(buf') <= BufLines
    <3>1. buf \in Seq(1 .. last') /\ last' \in 1 .. last' /\ Len(buf) \in Nat /\ BufLines \in Nat
      BY <1>1, <1>2, <2>1, CardLogAssumption
    <3>2. buf' \in Seq(1 .. last') /\ Len(buf') = Len(buf) + 1
      BY <1>2, <3>1, AppendProperties
    <3> QED BY <1>2, <3>1, <3>2
  <2>3. LogType'
    BY <1>1, <1>2, <2>1, <2>2 DEF LogBase, LogType, Klog, buffer, files
  <2>4. Elems(buf') = Elems(buf) \cup {last + 1} /\ Rising(buf')
    <3>1. buf \in Seq(LinesTo(last)) /\ Rising(buf)
      BY <1>1, SeqMonotonic DEF LinesTo, LogBase
    <3> QED BY <1>1, <1>2, <3>1, NewLine
  <2>5. ASSUME NEW t \in Flusher PROVE Below(took[t], buf')
    <3>1. \A l \in Numbers(took[t]) : l \in 1 .. last
      BY <1>1 DEF Numbers, Elems, LinesTo
    <3>2. Below(took[t], buf)
      BY DEF LogBase
    <3> QED BY <2>4, <3>1, <3>2, <1>1 DEF Below, Numbers
  <2> QED BY <2>3, <2>4, <2>5 DEF LogBase, Klog
<1>3. CASE dropped' = TRUE /\ UNCHANGED <<buf, last>>
  BY <1>3 DEF LogBase, LogType, Klog, files
<1> QED BY <1>2, <1>3 DEF Klog

\* A flush empties the buffer into its thread's batch.
LEMMA FlushBase ==
  ASSUME LogBase, NEW t \in Flusher, Flush(t), goal' \in {"sync", "suspend"},
         UNCHANGED <<scene, mounted, files>>
  PROVE  LogBase'
<1>1. CASE /\ mounted /\ out' = Copied(Batch) /\ took' = [took EXCEPT ![t] = Batch]
           /\ buf' = <<>> /\ dropped' = FALSE /\ GoesTo(t, "check") /\ UNCHANGED last
  <2>1. /\ buf' \in Seq(1 .. last) /\ Len(buf') <= BufLines
        /\ took' \in [Flusher -> Seq(LinesTo(last))]
        /\ \A v \in Flusher : Len(took'[v]) <= BufLines + 1
    BY <1>1, BatchLines, CardLogAssumption DEF LogBase, LogType
  <2>2. pc' \in [Flusher -> LogPoints]
    BY <1>1 DEF LogBase, LogType, GoesTo, LogPoints
  <2>3. LogType'
    BY <1>1, <2>1, <2>2, BatchLines DEF LogBase, LogType, files
  <2>4. Rising(buf') /\ \A v \in Flusher : Below(took'[v], buf')
    BY <1>1 DEF Rising, Below, Numbers, Elems
  <2> QED BY <2>3, <2>4 DEF LogBase
<1>2. CASE ~mounted /\ GoesTo(t, "idle") /\ UNCHANGED <<buffer, out, took>>
  BY <1>2 DEF LogBase, LogType, GoesTo, LogPoints, buffer, files
<1> QED BY <1>1, <1>2 DEF Flush

\* What follows a flush leaves the buffer and the batches alone.
LEMMA SettledBase ==
  ASSUME LogBase, LogType', UNCHANGED <<buffer, took>>
  PROVE  LogBase'
BY DEF LogBase, buffer

\* Where a FatFs call goes on.
LEMMA GoesOn ==
  ASSUME LogBase, NEW t \in Flusher
  PROVE  /\ Back(t) \in LogPoints /\ AfterFailure(t) \in LogPoints
         /\ \A p \in LogPoints : GoesTo(t, p) => pc' \in [Flusher -> LogPoints]
<1>1. Back(t) \in LogPoints
  BY DEF Back, LogPoints
<1>2. AfterFailure(t) \in LogPoints
  BY <1>1 DEF AfterFailure, LogPoints, Calls
<1>3. \A p \in LogPoints : GoesTo(t, p) => pc' \in [Flusher -> LogPoints]
  BY DEF LogBase, LogType, GoesTo
<1> QED BY <1>1, <1>2, <1>3

\* A step of a FatFs call.
LEMMA CallBase ==
  ASSUME LogBase, NEW t \in Flusher, FlushStep(t), UNCHANGED scene
  PROVE  LogBase' /\ UNCHANGED <<buffer, out, took>>
<1> USE DEF LogPoints, Calls
<1>0. /\ LogType /\ Back(t) \in LogPoints /\ AfterFailure(t) \in LogPoints
      /\ \A p \in LogPoints : GoesTo(t, p) => pc' \in [Flusher -> LogPoints]
  BY GoesOn DEF LogBase
<1>1. CASE Check(t)
  <2>1. pc' \in [Flusher -> LogPoints]
    BY <1>0, <1>1 DEF Check
  <2> QED BY <1>0, <1>1, <2>1, SettledBase DEF Check, LogType, buffer, files
<1>2. CASE TakeVolume(t)
  BY <1>0, <1>2, SettledBase DEF TakeVolume, LogType, buffer
<1>3. CASE Refused(t)
  <2>1. pc' \in [Flusher -> LogPoints]
    BY <1>0, <1>3 DEF Refused
  <2> QED BY <1>0, <1>3, <2>1, SettledBase DEF Refused, LogType, buffer
<1>4. ASSUME GiveVolume(t), pc' \in [Flusher -> LogPoints], UNCHANGED took,
             opened' \in Flusher \cup {None}, file' \in Seq(LinesTo(last)), old' \in Seq(LinesTo(last))
      PROVE  LogBase' /\ UNCHANGED <<buffer, out, took>>
  BY <1>0, <1>4, SettledBase DEF GiveVolume, LogType, buffer
<1>5. /\ file \in Seq(LinesTo(last)) /\ old \in Seq(LinesTo(last)) /\ opened \in Flusher \cup {None}
      /\ <<>> \in Seq(LinesTo(last))
  BY <1>0 DEF LogType
<1>6. CASE Fails(t)
  <2>1. pc' \in [Flusher -> LogPoints]
    BY <1>0, <1>6 DEF Fails, GiveVolume, GoesTo, LogType
  <2> QED BY <1>4, <1>5, <1>6, <2>1 DEF Fails
<1>7. CASE StatDone(t)
  <2>1. pc' \in [Flusher -> LogPoints]
    BY <1>0, <1>7 DEF StatDone
  <2> QED BY <1>4, <1>5, <1>7, <2>1 DEF StatDone
<1>8. CASE UnlinkDone(t)
  <2>1. pc' \in [Flusher -> LogPoints]
    BY <1>0, <1>8 DEF UnlinkDone
  <2> QED BY <1>4, <1>5, <1>8, <2>1 DEF UnlinkDone
<1>9. CASE RenameDone(t)
  <2>1. pc' \in [Flusher -> LogPoints]
    BY <1>0, <1>9 DEF RenameDone
  <2> QED BY <1>4, <1>5, <1>9, <2>1 DEF RenameDone
<1>10. CASE OpenDone(t)
  <2>1. pc' \in [Flusher -> LogPoints]
    BY <1>0, <1>10 DEF OpenDone
  <2> QED BY <1>4, <1>5, <1>10, <2>1 DEF OpenDone
<1>11. CASE WriteDone(t)
  <2>1. pc' \in [Flusher -> LogPoints]
    BY <1>0, <1>11 DEF WriteDone
  <2>2. SubSeq(out, 1, Len(took[t])) \in Seq(LinesTo(last))
    BY <1>0, CardLogAssumption DEF LogType
  <2>3. file' \in Seq(LinesTo(last))
    BY <1>5, <1>11, <2>2, ConcatProperties DEF WriteDone
  <2> QED BY <1>4, <1>5, <1>11, <2>1, <2>3 DEF WriteDone
<1>12. CASE CloseDone(t)
  <2>1. pc' \in [Flusher -> LogPoints]
    BY <1>0, <1>12 DEF CloseDone
  <2> QED BY <1>4, <1>5, <1>12, <2>1 DEF CloseDone
<1> QED BY <1>1, <1>2, <1>3, <1>6, <1>7, <1>8, <1>9, <1>10, <1>11, <1>12 DEF FlushStep, CallDone

LEMMA LogBaseStep == ASSUME LogBase, [LogNext]_logvars PROVE LogBase'
<1>1. CASE Klog /\ UNCHANGED scene
  BY <1>1, KlogBase
<1>2. CASE LogFlush /\ UNCHANGED scene
  <2>1. Log \in Flusher /\ goal' \in {"sync", "suspend"}
    BY <1>2 DEF LogFlush, Flusher, LogBase, LogType
  <2> QED BY <1>2, <2>1, FlushBase DEF LogFlush
<1>3. CASE UiFlush /\ UNCHANGED scene
  <2>1. Ui \in Flusher /\ goal' \in {"sync", "suspend"}
    BY <1>3, CardLogAssumption DEF UiFlush, Flusher, LogBase, LogType
  <2> QED BY <1>3, <2>1, FlushBase DEF UiFlush
<1>4. CASE \E t \in Flusher : FlushStep(t) /\ UNCHANGED scene
  BY <1>4, CallBase
<1>5. CASE (Stop \/ Unmount \/ Resume \/ UsbAgain) /\ UNCHANGED scene
  <2>1. Ui \in Flusher /\ LogType
    BY DEF Flusher, LogBase
  <2>2. \A p \in LogPoints : GoesTo(Ui, p) => pc' \in [Flusher -> LogPoints]
    BY <2>1, GoesOn
  <2>3. pc' \in [Flusher -> LogPoints]
    BY <1>5, <2>2 DEF Stop, Unmount, Resume, UsbAgain, LogPoints
  <2> QED BY <1>5, <2>1, <2>3, SettledBase
          DEF Stop, Unmount, Resume, UsbAgain, LogType, buffer, files
<1>6. CASE UNCHANGED logvars
  BY <1>6 DEF LogBase, LogType, logvars, buffer, files
<1> QED BY <1>1, <1>2, <1>3, <1>4, <1>5, <1>6 DEF LogNext

-----------------------------------------------------------------------------
(* The lines on the card, on their way and in the buffer *)

\* Four sequences hold, one after the other, every line up to n from their oldest on.
Parts(a, b, c, d, n) ==
  /\ Rising(a) /\ Rising(b) /\ Rising(c) /\ Rising(d)
  /\ Below(a, b) /\ Below(a, c) /\ Below(a, d) /\ Below(b, c) /\ Below(b, d) /\ Below(c, d)
  /\ LET N == Numbers(a) \cup Numbers(b) \cup Numbers(c) \cup Numbers(d)
     IN  \A l \in N : l .. n \subseteq N

LEMMA NumbersTo ==
  ASSUME NEW n \in Nat, NEW s \in Seq(LinesTo(n))
  PROVE  Numbers(s) \subseteq 1 .. n
BY DEF Numbers, Elems, LinesTo

LEMMA NothingIn == Rising(<<>>) /\ Numbers(<<>>) = {} /\ \A s : Below(s, <<>>) /\ Below(<<>>, s)
BY DEF Rising, Below, Numbers, Elems

LEMMA WholeParts ==
  ASSUME NEW n \in Nat,
         NEW a \in Seq(LinesTo(n)), NEW b \in Seq(LinesTo(n)),
         NEW c \in Seq(LinesTo(n)), NEW d \in Seq(LinesTo(n)),
         NEW s, s = a \o b \o c \o d
  PROVE  /\ s \in Seq(LinesTo(n))
         /\ Rising(s) /\ (\A l \in Elems(s) \ {Mark} : l .. n \subseteq Elems(s))
              <=> Parts(a, b, c, d, n)
<1>1. PICK p : p = a \o b
  OBVIOUS
<1>2. PICK r : r = p \o c
  OBVIOUS
<1>3. s = r \o d
  BY <1>1, <1>2
<1>4. /\ p \in Seq(LinesTo(n)) /\ Elems(p) = Elems(a) \cup Elems(b)
      /\ Rising(p) <=> Rising(a) /\ Rising(b) /\ Below(a, b)
  <2>1. a \o b \in Seq(LinesTo(n))
    BY <1>1, ConcatProperties
  <2>2. /\ Elems(a \o b) = Elems(a) \cup Elems(b)
        /\ Rising(a \o b) <=> Rising(a) /\ Rising(b) /\ Below(a, b)
    BY <1>1, RisingConcat, SMTT(30)
  <2> QED BY <1>1, <2>1, <2>2
<1>5. /\ r \in Seq(LinesTo(n)) /\ Elems(r) = Elems(p) \cup Elems(c)
      /\ Rising(r) <=> Rising(p) /\ Rising(c) /\ Below(p, c)
  <2>1. p \o c \in Seq(LinesTo(n))
    BY <1>2, <1>4, ConcatProperties
  <2>2. /\ Elems(p \o c) = Elems(p) \cup Elems(c)
        /\ Rising(p \o c) <=> Rising(p) /\ Rising(c) /\ Below(p, c)
    BY <1>2, <1>4, RisingConcat, SMTT(30)
  <2> QED BY <1>2, <1>4, <2>1, <2>2
<1>6. /\ s \in Seq(LinesTo(n)) /\ Elems(s) = Elems(r) \cup Elems(d)
      /\ Rising(s) <=> Rising(r) /\ Rising(d) /\ Below(r, d)
  <2>1. r \o d \in Seq(LinesTo(n))
    BY <1>3, <1>5, ConcatProperties
  <2>2. /\ Elems(r \o d) = Elems(r) \cup Elems(d)
        /\ Rising(r \o d) <=> Rising(r) /\ Rising(d) /\ Below(r, d)
    BY <1>3, <1>5, RisingConcat, SMTT(30)
  <2> QED BY <1>3, <1>5, <2>1, <2>2
<1>7. /\ Below(p, c) <=> Below(a, c) /\ Below(b, c)
      /\ Below(p, d) <=> Below(a, d) /\ Below(b, d)
      /\ Below(r, d) <=> Below(p, d) /\ Below(c, d)
  <2>1. Numbers(p) = Numbers(a) \cup Numbers(b) /\ Numbers(r) = Numbers(p) \cup Numbers(c)
    BY <1>4, <1>5 DEF Numbers
  <2> HIDE DEF Numbers
  <2> QED BY <2>1 DEF Below
<1>8. Numbers(s) = Numbers(a) \cup Numbers(b) \cup Numbers(c) \cup Numbers(d)
  BY <1>4, <1>5, <1>6 DEF Numbers
<1>9. ASSUME NEW l \in Numbers(s)
      PROVE  l .. n \subseteq Elems(s) <=> l .. n \subseteq Numbers(s)
  <2>1. Mark \notin l .. n
    <3>1. l \in 1 .. n
      BY <1>6, NumbersTo
    <3>2. l .. n \subseteq Nat
      BY <3>1
    <3> QED BY <3>2, CardLogAssumption
  <2> QED BY <2>1 DEF Numbers
<1>10. (\A l \in Elems(s) \ {Mark} : l .. n \subseteq Elems(s))
         <=> \A l \in Numbers(s) : l .. n \subseteq Numbers(s)
  BY <1>9 DEF Numbers
<1> HIDE DEF Numbers
<1> QED BY <1>4, <1>5, <1>6, <1>7, <1>8, <1>10 DEF Parts

\* The first of four is dropped.
LEMMA FirstDropped ==
  ASSUME NEW n \in Nat, NEW a, NEW d,
         NEW b \in Seq(LinesTo(n)), NEW c \in Seq(LinesTo(n)), d \in Seq(LinesTo(n)),
         Parts(a, b, c, d, n)
  PROVE  Parts(<<>>, b, c, d, n)
<1> DEFINE N == Numbers(b) \cup Numbers(c) \cup Numbers(d)
<1>1. ASSUME NEW l \in N, NEW m \in l .. n PROVE m \in N
  <2>1. N \subseteq 1 .. n
    BY NumbersTo
  <2>2. m \in Numbers(a) \/ m \in N
    BY <1>1 DEF Parts
  <2>3. m \in Numbers(a) => m < l
    BY <1>1 DEF Parts, Below
  <2> QED BY <1>1, <2>1, <2>2, <2>3
<1>2. Numbers(<<>>) \cup Numbers(b) \cup Numbers(c) \cup Numbers(d) = N
  BY NothingIn
<1> HIDE DEF N
<1> QED BY <1>1, <1>2, NothingIn DEF Parts

\* The last of four, or one with its numbers, becomes the third.
LEMMA LastTaken ==
  ASSUME NEW n, NEW a, NEW b, NEW d, NEW e, Parts(a, b, <<>>, d, n),
         Numbers(e) = Numbers(d), Rising(e)
  PROVE  Parts(a, b, e, <<>>, n)
<1>1. \A s : Below(s, e) <=> Below(s, d)
  BY DEF Below
<1> QED BY <1>1, NothingIn DEF Parts

\* The third is appended to the second.
LEMMA ThirdWritten ==
  ASSUME NEW n \in Nat, NEW a, NEW d, NEW b \in Seq(LinesTo(n)), NEW c \in Seq(LinesTo(n)),
         Parts(a, b, c, d, n), NEW s, s = b \o c
  PROVE  Parts(a, s, <<>>, d, n)
<1>1. /\ Elems(s) = Elems(b) \cup Elems(c)
      /\ Rising(s) <=> Rising(b) /\ Rising(c) /\ Below(b, c)
  BY RisingConcat
<1>2. /\ Below(a, s) <=> Below(a, b) /\ Below(a, c)
      /\ Below(s, d) <=> Below(b, d) /\ Below(c, d)
      /\ Numbers(s) = Numbers(b) \cup Numbers(c)
  <2>1. Numbers(s) = Numbers(b) \cup Numbers(c)
    BY <1>1 DEF Numbers
  <2> HIDE DEF Numbers
  <2> QED BY <2>1 DEF Below
<1>3. Numbers(a) \cup Numbers(s) \cup Numbers(<<>>) \cup Numbers(d)
        = Numbers(a) \cup Numbers(b) \cup Numbers(c) \cup Numbers(d)
  BY <1>2, NothingIn
<1> QED BY <1>1, <1>2, <1>3, NothingIn DEF Parts

\* The second becomes the first.
LEMMA SecondKept ==
  ASSUME NEW n, NEW b, NEW c, NEW d, Parts(<<>>, b, c, d, n)
  PROVE  Parts(b, <<>>, c, d, n)
BY NothingIn DEF Parts

\* A line more.
LEMMA LastGrows ==
  ASSUME NEW n \in Nat,
         NEW a \in Seq(LinesTo(n)), NEW b \in Seq(LinesTo(n)),
         NEW c \in Seq(LinesTo(n)), NEW d \in Seq(LinesTo(n)),
         NEW e, Elems(e) = Elems(d) \cup {n + 1}, Rising(e),
         Parts(a, b, c, d, n)
  PROVE  Parts(a, b, c, e, n + 1)
<1> DEFINE N == Numbers(a) \cup Numbers(b) \cup Numbers(c) \cup Numbers(d)
           M == Numbers(a) \cup Numbers(b) \cup Numbers(c) \cup Numbers(e)
<1>1. N \subseteq 1 .. n
  BY NumbersTo
<1>2. Numbers(e) = Numbers(d) \cup {n + 1} /\ M = N \cup {n + 1}
  BY CardLogAssumption DEF Numbers
<1>3. \A l \in N : l .. n \subseteq N
  BY DEF Parts
<1>4. ASSUME NEW s, Numbers(s) \subseteq 1 .. n, Below(s, d) PROVE Below(s, e)
  BY <1>2, <1>4 DEF Below
<1>5. Below(a, e) /\ Below(b, e) /\ Below(c, e)
  BY <1>1, <1>4 DEF Parts
<1> HIDE DEF N
<1>6. ASSUME NEW l \in N \cup {n + 1} PROVE l .. n + 1 \subseteq N \cup {n + 1}
  <2>1. CASE l \in N
    <3>1. l \in 1 .. n
      BY <1>1, <2>1
    <3>2. \A m \in l .. n + 1 : m \in l .. n \/ m = n + 1
      BY <3>1
    <3> QED BY <1>3, <2>1, <3>2
  <2>2. CASE l = n + 1
    BY <2>2
  <2> QED BY <2>1, <2>2
<1> QED BY <1>2, <1>5, <1>6 DEF Parts, N

\* No line is missing exactly when none is in the four parts.
LEMMA AllParts ==
  ASSUME LogBase
  PROVE  /\ last \in Nat /\ OnTheWay \in Seq(LinesTo(last)) /\ buf \in Seq(LinesTo(last))
         /\ file \in Seq(LinesTo(last)) /\ old \in Seq(LinesTo(last))
         /\ NoneMissing(AllLines) <=> Parts(old, file, OnTheWay, buf, last)
<1>1. /\ last \in Nat /\ file \in Seq(LinesTo(last)) /\ old \in Seq(LinesTo(last))
      /\ buf \in Seq(1 .. last) /\ took[Log] \in Seq(LinesTo(last))
  BY DEF LogBase, LogType, Flusher
<1>2. buf \in Seq(LinesTo(last))
  BY <1>1, SeqMonotonic DEF LinesTo
<1>3. OnTheWay \in Seq(LinesTo(last))
  BY <1>1 DEF OnTheWay
<1>4. PICK s : s = old \o file \o OnTheWay \o buf
  OBVIOUS
<1>5. Rising(s) /\ (\A l \in Elems(s) \ {Mark} : l .. last \subseteq Elems(s))
        <=> Parts(old, file, OnTheWay, buf, last)
  BY <1>1, <1>2, <1>3, <1>4, WholeParts
<1> QED BY <1>1, <1>2, <1>3, <1>4, <1>5 DEF NoneMissing, AllLines

\* The same after a step.
LEMMA AllPartsNext ==
  ASSUME LogBase', Parts(old', file', OnTheWay', buf', last')
  PROVE  NoneMissing(AllLines)'
<1>1. /\ last' \in Nat /\ file' \in Seq(LinesTo(last')) /\ old' \in Seq(LinesTo(last'))
      /\ buf' \in Seq(1 .. last') /\ took'[Log] \in Seq(LinesTo(last'))
  BY DEF LogBase, LogType, Flusher
<1>2. buf' \in Seq(LinesTo(last'))
  BY <1>1, SeqMonotonic DEF LinesTo
<1>3. OnTheWay' \in Seq(LinesTo(last'))
  BY <1>1 DEF OnTheWay
<1>4. PICK s : s = old' \o file' \o OnTheWay' \o buf'
  OBVIOUS
<1>5. Rising(s) /\ (\A l \in Elems(s) \ {Mark} : l .. last' \subseteq Elems(s))
  BY <1>1, <1>2, <1>3, <1>4, WholeParts
<1> QED BY <1>4, <1>5 DEF NoneMissing, AllLines

\* What the ui thread leaves alone: with the log thread alone only its steps and
\* klog() happen, and no FatFs call fails.
LEMMA AloneSteps ==
  ASSUME LogInv, Undisturbed, [LogNext]_logvars
  PROVE  \/ (Klog \/ LogFlush) /\ UNCHANGED scene
         \/ Check(Log) \/ TakeVolume(Log) \/ CallDone(Log)
         \/ UNCHANGED logvars
<1>1. /\ pc[Ui] = "idle" /\ mounted /\ vol /\ scene.ui = {} /\ ~scene.fails
      /\ opened = IF pc[Log] \in {"write", "close"} THEN Log ELSE None
  BY DEF LogInv, Alone, Undisturbed
<1>2. ~UiFlush /\ ~Stop /\ ~Unmount /\ ~Resume /\ ~UsbAgain
  BY <1>1 DEF UiFlush, Stop, Unmount, Resume, UsbAgain
<1>3. ~Check(Ui) /\ ~TakeVolume(Ui) /\ ~Refused(Ui) /\ ~CallDone(Ui)
  BY <1>1 DEF Check, TakeVolume, Refused, Calls, CallDone, StatDone, UnlinkDone, RenameDone,
              OpenDone, WriteDone, CloseDone
<1>4. ~Fails(Ui) /\ ~Fails(Log)
  BY <1>1 DEF Fails
<1>5. ~Refused(Log)
  BY <1>1 DEF Refused, Usable
<1> QED BY <1>2, <1>3, <1>4, <1>5 DEF LogNext, FlushStep, Flusher

\* Alone, a flush takes what the buffer holds.
LEMMA FlushAlone ==
  ASSUME LogInv, Undisturbed, LogBase', LogFlush
  PROVE  Alone'
<1>1. /\ pc[Log] = "idle" /\ pc \in [Flusher -> LogPoints] /\ Log \in Flusher /\ Ui \in Flusher
      /\ Log # Ui /\ LogBase /\ Alone /\ OnTheWay = <<>> /\ took \in [Flusher -> Seq(LinesTo(last))]
  BY CardLogAssumption DEF LogInv, LogBase, LogType, LogFlush, Flusher, OnTheWay
<1>2. /\ out' = Copied(Batch) /\ took' = [took EXCEPT ![Log] = Batch] /\ buf' = <<>>
      /\ pc' = [pc EXCEPT ![Log] = "check"] /\ last' = last /\ UNCHANGED <<mounted, goal, files>>
  BY <1>1 DEF LogFlush, Flush, GoesTo, Alone
<1>3. /\ Numbers(Batch) = Numbers(buf) /\ Rising(Batch)
      /\ \A i \in 1 .. Len(Batch) : Copied(Batch)[i] = Batch[i]
  BY <1>1, BatchLines DEF LogBase
<1>4. took'[Log] = Batch /\ pc'[Log] = "check" /\ pc'[Ui] = pc[Ui] /\ OnTheWay' = Batch
  BY <1>1, <1>2 DEF OnTheWay
<1>5. Parts(old, file, <<>>, buf, last)
  BY <1>1, AllParts DEF Alone
<1>6. Parts(old, file, Batch, <<>>, last)
  BY <1>3, <1>5, LastTaken
<1>8. NoneMissing(AllLines)'
  <2>1. Parts(old', file', OnTheWay', buf', last')
    BY <1>2, <1>4, <1>6 DEF files
  <2> QED BY <2>1, AllPartsNext
<1> HIDE DEF Batch, Copied
<1> QED BY <1>1, <1>2, <1>3, <1>4, <1>8 DEF Alone, files

\* Alone, a line is added to the buffer.
LEMMA KlogAlone ==
  ASSUME LogInv, Undisturbed, LogBase', Klog
  PROVE  Alone'
<1>1. /\ LogBase /\ Alone /\ last \in Nat /\ Rising(buf)
      /\ UNCHANGED <<mounted, out, took, pc, goal, files>>
  BY DEF LogInv, LogBase, LogType, Klog
<1>2. OnTheWay' = OnTheWay
  BY <1>1 DEF OnTheWay
<1>3. Parts(old, file, OnTheWay, buf, last)
  BY <1>1, AllParts DEF Alone
<1>4. Parts(old', file', OnTheWay', buf', last')
  <2>1. CASE last' = last + 1 /\ buf' = Append(buf, last')
    <3>1. Elems(buf') = Elems(buf) \cup {last + 1} /\ Rising(buf')
      BY <1>1, <2>1, AllParts, NewLine
    <3> QED BY <1>1, <1>2, <1>3, <2>1, <3>1, AllParts, LastGrows DEF files
  <2>2. CASE UNCHANGED <<buf, last>>
    BY <1>1, <1>2, <1>3, <2>2 DEF files
  <2> QED BY <2>1, <2>2 DEF Klog
<1>5. NoneMissing(AllLines)'
  BY <1>4, AllPartsNext
<1> QED BY <1>1, <1>5 DEF Alone, files

\* Alone, the lines of a flush get from its batch into the file, and the file
\* becomes the old one before.
LEMMA CallAlone ==
  ASSUME LogInv, Undisturbed, LogBase', UNCHANGED <<scene, buffer, out, took>>,
         Check(Log) \/ TakeVolume(Log) \/ CallDone(Log)
  PROVE  Alone'
<1>1. /\ pc \in [Flusher -> LogPoints] /\ Log \in Flusher /\ Ui \in Flusher
      /\ Log # Ui /\ LogBase /\ Alone /\ opened \in Flusher \cup {None} /\ None \notin Flusher
      /\ out' = out /\ took' = took /\ buf' = buf /\ last' = last
      /\ mounted' = mounted /\ vol' = vol
  BY CardLogAssumption DEF LogInv, LogBase, LogType, Flusher, buffer, Check, TakeVolume,
     CallDone, StatDone, UnlinkDone, RenameDone, OpenDone, WriteDone, CloseDone, GiveVolume, files
<1>2. Parts(old, file, OnTheWay, buf, last)
  BY <1>1, AllParts DEF Alone
<1>3. ASSUME Parts(old', file', OnTheWay', buf', last') PROVE NoneMissing(AllLines)'
  BY <1>3, AllPartsNext
<1>4. CASE Check(Log)
  <2>1. pc'[Ui] = pc[Ui] /\ pc'[Log] = (IF took[Log] = <<>> THEN "idle" ELSE "stat") /\ pc[Log] = "check"
    BY <1>1, <1>4 DEF Check, GoesTo, Back, Alone
  <2>2. OnTheWay' = OnTheWay
    BY <1>1, <2>1 DEF OnTheWay
  <2> QED BY <1>1, <1>2, <1>3, <1>4, <2>1, <2>2 DEF Alone, Check, files
<1>5. CASE TakeVolume(Log)
  <2>1. OnTheWay' = OnTheWay
    BY <1>5 DEF OnTheWay, TakeVolume
  <2> QED BY <1>1, <1>2, <1>3, <1>5, <2>1 DEF Alone, TakeVolume
<1>6. CASE StatDone(Log)
  <2>1. pc'[Ui] = pc[Ui] /\ pc'[Log] \in {"unlink", "open"} /\ pc[Log] = "stat"
    BY <1>1, <1>6 DEF StatDone, GoesTo
  <2>2. OnTheWay' = OnTheWay
    BY <1>1, <2>1 DEF OnTheWay
  <2> QED BY <1>1, <1>2, <1>3, <1>6, <2>1, <2>2 DEF Alone, StatDone
<1>7. CASE UnlinkDone(Log)
  <2>1. pc'[Ui] = pc[Ui] /\ pc'[Log] = "rename" /\ pc[Log] = "unlink"
    BY <1>1, <1>7 DEF UnlinkDone, GoesTo
  <2>2. OnTheWay' = OnTheWay
    BY <1>1, <2>1 DEF OnTheWay
  <2>3. Parts(<<>>, file, OnTheWay, buf, last)
    BY <1>1, <1>2, AllParts, FirstDropped
  <2> QED BY <1>1, <1>3, <1>7, <2>1, <2>2, <2>3 DEF Alone, UnlinkDone
<1>8. CASE RenameDone(Log)
  <2>1. /\ pc'[Ui] = pc[Ui] /\ pc'[Log] = "open" /\ pc[Log] = "rename"
        /\ old = <<>> /\ opened = None /\ opened' = None /\ old' = file /\ file' = <<>>
    BY <1>1, <1>8 DEF RenameDone, GoesTo, Alone
  <2>2. OnTheWay' = OnTheWay
    BY <1>1, <2>1 DEF OnTheWay
  <2>3. Parts(file, <<>>, OnTheWay, buf, last)
    BY <1>2, <2>1, SecondKept
  <2> QED BY <1>1, <1>3, <2>1, <2>2, <2>3 DEF Alone
<1>9. CASE OpenDone(Log)
  <2>1. /\ pc'[Ui] = pc[Ui] /\ pc'[Log] = "write" /\ pc[Log] = "open" /\ opened' = Log
        /\ UNCHANGED <<file, old>>
    BY <1>1, <1>9 DEF OpenDone, GoesTo, Alone
  <2>2. OnTheWay' = OnTheWay
    BY <1>1, <2>1 DEF OnTheWay
  <2> QED BY <1>1, <1>2, <1>3, <2>1, <2>2 DEF Alone
<1>10. CASE WriteDone(Log)
  <2>1. /\ pc'[Ui] = pc[Ui] /\ pc'[Log] = "close" /\ pc[Log] = "write" /\ opened = Log
        /\ opened' = opened /\ old' = old /\ file' = file \o SubSeq(out, 1, Len(took[Log]))
    BY <1>1, <1>10 DEF WriteDone, GoesTo, Alone
  <2>2. OnTheWay = took[Log] /\ OnTheWay' = <<>>
    BY <1>1, <2>1 DEF OnTheWay
  <2>3. SubSeq(out, 1, Len(took[Log])) = took[Log]
    <3>1. /\ took[Log] \in Seq(LinesTo(last)) /\ Len(took[Log]) \in 0 .. BufLines + 1
          /\ out \in [1 .. BufLines + 1 -> LinesTo(last)] /\ BufLines + 1 \in Nat
      BY <1>1, CardLogAssumption DEF LogBase, LogType
    <3>2. out \in Seq(LinesTo(last)) /\ Len(out) = BufLines + 1
      BY <3>1
    <3>3. \A i \in 1 .. Len(took[Log]) : out[i] = took[Log][i]
      BY <1>1, <2>1 DEF Alone
    <3> DEFINE n == Len(took[Log])
    <3>4. /\ SubSeq(out, 1, n) \in Seq(LinesTo(last)) /\ Len(SubSeq(out, 1, n)) = n
          /\ \A i \in 1 .. n : SubSeq(out, 1, n)[i] = out[i]
      BY <3>1, <3>2
    <3> QED BY <3>1, <3>3, <3>4, SeqEqual
  <2>4. Parts(old, file', <<>>, buf, last)
    BY <1>1, <1>2, <2>1, <2>2, <2>3, AllParts, ThirdWritten
  <2> QED BY <1>1, <1>3, <2>1, <2>2, <2>4 DEF Alone
<1>11. CASE CloseDone(Log)
  <2>1. /\ pc'[Ui] = pc[Ui] /\ pc'[Log] = "idle" /\ pc[Log] = "close" /\ opened' = None
        /\ UNCHANGED <<file, old>>
    BY <1>1, <1>11 DEF CloseDone, GoesTo, Alone, Back
  <2>2. OnTheWay' = OnTheWay
    BY <1>1, <2>1 DEF OnTheWay
  <2> QED BY <1>1, <1>2, <1>3, <2>1, <2>2 DEF Alone
<1> QED BY <1>4, <1>5, <1>6, <1>7, <1>8, <1>9, <1>10, <1>11 DEF CallDone

LEMMA LogInductive == LogInit => LogInv
<1> SUFFICES ASSUME LogInit PROVE LogInv
  OBVIOUS
<1>1. LogBase
  BY LogBaseInit
<1>2. OnTheWay = <<>> /\ Parts(old, file, OnTheWay, buf, last)
  <2>1. OnTheWay = <<>>
    BY DEF LogInit, OnTheWay, Flusher
  <2>2. \A l \in Numbers(<<>>) : FALSE
    BY NothingIn
  <2> QED BY <2>1, <2>2, NothingIn DEF LogInit, Parts
<1>3. NoneMissing(AllLines)
  BY <1>1, <1>2, AllParts
<1>4. Alone
  <2>1. pc[Ui] = "idle" /\ pc[Log] = "idle" /\ mounted /\ vol /\ opened = None
    BY DEF LogInit, Flusher
  <2> QED BY <1>3, <2>1 DEF Alone
<1> QED BY <1>1, <1>4 DEF LogInv

LEMMA LogInvStep == LogInv /\ [LogNext]_logvars => LogInv'
<1> SUFFICES ASSUME LogInv, [LogNext]_logvars PROVE LogInv'
  OBVIOUS
<1>1. LogBase'
  BY LogBaseStep DEF LogInv
<1>2. ASSUME Undisturbed' PROVE Alone'
  <2>1. scene' = scene /\ Undisturbed
    BY <1>2 DEF LogNext, logvars, Undisturbed
  <2>2. CASE Klog
    BY <1>1, <2>1, <2>2, KlogAlone
  <2>3. CASE LogFlush
    BY <1>1, <2>1, <2>3, FlushAlone
  <2>4. CASE Check(Log) \/ TakeVolume(Log) \/ CallDone(Log)
    <3>1. FlushStep(Log) /\ Log \in Flusher
      BY <2>4 DEF FlushStep, Flusher
    <3>2. UNCHANGED <<buffer, out, took>>
      BY <2>1, <3>1, CallBase DEF LogInv
    <3> QED BY <1>1, <2>1, <2>4, <3>2, CallAlone
  <2>5. CASE UNCHANGED logvars
    <3>1. UNCHANGED <<pc, mounted, vol, opened, old, file, took, out, buf, last>>
      BY <2>5 DEF logvars, buffer, files
    <3>2. OnTheWay' = OnTheWay
      BY <3>1 DEF OnTheWay
    <3>3. Alone
      BY <2>1 DEF LogInv
    <3>4. Parts(old', file', OnTheWay', buf', last')
      BY <3>1, <3>2, <3>3, AllParts DEF Alone, LogInv
    <3> QED BY <1>1, <3>1, <3>3, <3>4, AllPartsNext DEF Alone
  <2> QED BY <2>1, <2>2, <2>3, <2>4, <2>5, AloneSteps
<1> QED BY <1>1, <1>2 DEF LogInv

\* Every line is taken from the buffer once, whoever flushes and whatever the card
\* does; and when the log thread flushes alone, no line that klog() kept is lost,
\* repeated or out of place, rotation of the file included.
THEOREM LinesTakenOnce == LogSpec => []TakenOnce
<1>1. LogInv => TakenOnce
  <2> SUFFICES ASSUME LogInv PROVE TakenOnce
    OBVIOUS
  <2>1. LogTypeOK /\ Rising(buf)
    BY DEF LogInv, LogBase, LogType, LogTypeOK, LogPoints
  <2>2. ASSUME NEW t \in Flusher, NEW l \in Elems(took[t]) \ {Mark}, NEW b \in Elems(buf)
        PROVE  l < b
    <3>1. buf \in Seq(1 .. last) /\ last \in Nat /\ Below(took[t], buf)
      BY DEF LogInv, LogBase, LogType
    <3>2. b # Mark
      BY <3>1, CardLogAssumption DEF Elems
    <3> QED BY <3>1, <3>2 DEF Below, Numbers
  <2> QED BY <2>1, <2>2 DEF TakenOnce, LogInv, Alone
<1> QED BY <1>1, LogInductive, LogInvStep, PTL DEF LogSpec

-----------------------------------------------------------------------------
(* The driver: what its data holds, and what each of its operators does to it *)

AllCommands == [op : Ops, n : 0 .. 3, len : 0 .. 6, in : BOOLEAN]
Statuses    == {"good", "fail", "phase"}
Requests    == {"none", "descriptor", "set_config", "get_max_lun", "bot_reset",
                "clear_in", "clear_out"}

Packet ==
  ({"none", "zlp", "data", "card", "reply", "junk"} \X Nat \X Nat)
    \cup ({"cbw"} \X Nat \X AllCommands)
    \cup ({"csw"} \X Nat \X [st : Statuses, residue : Nat])

BufferNames == {"0", "1", "cbw", "small"}
Size(b)     == IF b \in {"0", "1"} THEN 2 ELSE 1
Contents(b) == [1 .. Size(b) -> Packet]

\* A transfer never reaches past the end of its buffer, and an OUT transfer in
\* flight has room for the next packet.
Endpoint == [busy : BOOLEAN, buf : BufferNames, len : 0 .. 2, done : 0 .. 2, last : 0 .. 1,
             armed : BOOLEAN, zlp : BOOLEAN, result : -1 .. 2]
InOK(e)  == e \in Endpoint /\ e.len <= Size(e.buf) /\ e.done + e.last <= e.len
OutOK(e) == /\ e \in Endpoint /\ e.len <= Size(e.buf) /\ e.done <= e.len
            /\ e.busy => e.done < e.len

DriverData ==
  [gen : Nat, configured : BOOLEAN, seen : BOOLEAN, stop : BOOLEAN, polled : BOOLEAN,
   halted_in : BOOLEAN, halted_out : BOOLEAN, ep_in : Endpoint, ep_out : Endpoint,
   fin : Packet, fout : Packet, rx : BOOLEAN, pin : BOOLEAN, pout : BOOLEAN,
   setup : Requests, mem : [BufferNames -> Contents("0") \cup Contents("cbw")]]

DriverOK(v) ==
  /\ v \in DriverData /\ InOK(v.ep_in) /\ OutOK(v.ep_out)
  /\ \A b \in BufferNames : v.mem[b] \in Contents(b)

\* What an endpoint can be when the driver has gone on without the thread: its
\* transfer goes on, or is over with no more than it asked for.
Later(e, f) ==
  \/ e.busy /\ f.busy /\ f.buf = e.buf /\ f.len = e.len
  \/ ~f.busy /\ f.result <= IF e.busy THEN e.len ELSE e.result

LaterBoth(v, w) == Later(v.ep_in, w.ep_in) /\ Later(v.ep_out, w.ep_out)

LEMMA LaterTwice ==
  ASSUME NEW v, NEW w, NEW x, DriverOK(v), DriverOK(w), DriverOK(x),
         LaterBoth(v, w), LaterBoth(w, x)
  PROVE  LaterBoth(v, x)
<1>1. ASSUME NEW e \in Endpoint, NEW f \in Endpoint, NEW g \in Endpoint, Later(e, f), Later(f, g)
      PROVE  Later(e, g)
  BY <1>1 DEF Later, Endpoint
<1> QED BY <1>1 DEF LaterBoth, DriverOK, InOK, OutOK

LEMMA Packets ==
  /\ \A kind \in {"none", "zlp", "data", "card", "reply", "junk"}, t \in Nat, n \in Nat :
       <<kind, t, n>> \in Packet
  /\ \A t \in Nat, c \in AllCommands : <<"cbw", t, c>> \in Packet
  /\ \A t \in Nat, s \in [st : Statuses, residue : Nat] : <<"csw", t, s>> \in Packet
  /\ NoPacket \in Packet /\ Zlp \in Packet /\ Junk \in Packet
  /\ \A p \in Packet : /\ p[1] = "cbw" => p[2] \in Nat /\ p[3] \in AllCommands
                       /\ p[1] = "csw" => p[2] \in Nat /\ p[3] \in [st : Statuses, residue : Nat]
<1>1. \A kind \in {"none", "zlp", "data", "card", "reply", "junk"}, t \in Nat, n \in Nat :
        <<kind, t, n>> \in Packet
  BY DEF Packet
<1>2. \A t \in Nat, c \in AllCommands : <<"cbw", t, c>> \in Packet
  BY DEF Packet
<1>3. \A t \in Nat, s \in [st : Statuses, residue : Nat] : <<"csw", t, s>> \in Packet
  BY DEF Packet
<1>4. NoPacket \in Packet /\ Zlp \in Packet /\ Junk \in Packet
  BY <1>1 DEF NoPacket, Zlp, Junk
<1>5. \A p \in Packet : /\ p[1] = "cbw" => p[2] \in Nat /\ p[3] \in AllCommands
                        /\ p[1] = "csw" => p[2] \in Nat /\ p[3] \in [st : Statuses, residue : Nat]
  BY DEF Packet
<1> QED BY <1>1, <1>2, <1>3, <1>4, <1>5

\* An endpoint without a transfer.
LEMMA OverOK ==
  ASSUME NEW r \in -1 .. 2
  PROVE  /\ InOK(Over(r)) /\ OutOK(Over(r)) /\ InOK(IdleEp) /\ OutOK(IdleEp)
         /\ ~Over(r).busy /\ Over(r).result = r /\ ~IdleEp.busy /\ IdleEp.result = 0
<1> DEFINE f == Over(r)
<1>1. /\ IdleEp \in Endpoint /\ IdleEp.buf = "cbw" /\ IdleEp.len = 0 /\ IdleEp.done = 0
      /\ IdleEp.last = 0 /\ ~IdleEp.busy /\ IdleEp.result = 0
  BY DEF IdleEp, Endpoint, BufferNames
<1>2. f = [IdleEp EXCEPT !.result = r]
  BY DEF Over
<1> HIDE DEF f
<1>3. /\ f \in Endpoint /\ f.buf = "cbw" /\ f.len = 0 /\ f.done = 0
      /\ f.last = 0 /\ ~f.busy /\ f.result = r
  BY <1>1, <1>2 DEF Endpoint
<1>4. Size("cbw") = 1
  BY DEF Size
<1>5. InOK(f) /\ OutOK(f) /\ InOK(IdleEp) /\ OutOK(IdleEp)
  BY <1>1, <1>3, <1>4 DEF InOK, OutOK
<1> QED BY <1>1, <1>3, <1>5 DEF f

LEMMA CancelOK ==
  ASSUME NEW v, DriverOK(v)
  PROVE  /\ DriverOK(bulk_cancel_sw(v)) /\ LaterBoth(v, bulk_cancel_sw(v))
         /\ DriverOK(bulk_cancel(v)) /\ LaterBoth(v, bulk_cancel(v))
         /\ ~bulk_cancel(v).ep_in.busy /\ ~bulk_cancel(v).ep_out.busy
         /\ bulk_cancel(v).configured = v.configured
<1> DEFINE w == bulk_cancel_sw(v)
<1>1. /\ v \in DriverData /\ InOK(v.ep_in) /\ OutOK(v.ep_out) /\ v.gen + 1 \in Nat
      /\ v.ep_in \in Endpoint /\ v.ep_out \in Endpoint
      /\ \A b \in BufferNames : v.mem[b] \in Contents(b)
  BY DEF DriverOK, DriverData
<1>2. ASSUME NEW e \in Endpoint
      PROVE  /\ cancel(e) \in Endpoint /\ Later(e, cancel(e)) /\ ~cancel(e).busy
             /\ InOK(e) => InOK(cancel(e)) 
             /\ OutOK(e) => OutOK(cancel(e))
  <2>1. CASE e.busy
    <3>1. cancel(e) = Over(-1) /\ -1 \in -1 .. 2
      BY <2>1 DEF cancel, EABORT
    <3>2. e.len \in 0 .. 2
      BY DEF Endpoint
    <3> QED BY <2>1, <3>1, <3>2, OverOK DEF Later, InOK
  <2>2. CASE ~e.busy
    <3>1. e.result \in -1 .. 2
      BY DEF Endpoint
    <3> QED BY <2>2, <3>1 DEF cancel, Later
  <2> QED BY <2>1, <2>2
<1>3. w = [v EXCEPT !.gen = v.gen + 1, !.ep_in = cancel(v.ep_in), !.ep_out = cancel(v.ep_out)]
  BY <1>1 DEF bulk_cancel_sw, DriverData
<1>4. /\ w \in DriverData /\ w.ep_in = cancel(v.ep_in) /\ w.ep_out = cancel(v.ep_out)
      /\ w.mem = v.mem /\ w.configured = v.configured
  BY <1>1, <1>2, <1>3 DEF DriverData
<1>5. DriverOK(w) /\ LaterBoth(v, w) /\ ~w.ep_in.busy /\ ~w.ep_out.busy
  BY <1>1, <1>2, <1>4 DEF DriverOK, LaterBoth
<1> DEFINE x == bulk_cancel(v)
<1>6. x = [w EXCEPT !.fin = NoPacket, !.fout = NoPacket, !.rx = FALSE]
  BY DEF bulk_cancel
<1> HIDE DEF w
<1>7. /\ x \in DriverData /\ x.ep_in = w.ep_in /\ x.ep_out = w.ep_out /\ x.mem = w.mem
      /\ x.configured = w.configured
  BY <1>4, <1>6, Packets DEF DriverData
<1> HIDE DEF x
<1>8. DriverOK(x) /\ LaterBoth(v, x) /\ ~x.ep_in.busy /\ ~x.ep_out.busy
  BY <1>1, <1>4, <1>5, <1>7 DEF DriverOK, LaterBoth
<1> QED BY <1>4, <1>5, <1>7, <1>8 DEF w, x

\* The driver's data before the next packet of a transfer is sent.
BeforePacket(v) ==
  /\ v \in DriverData /\ OutOK(v.ep_out)
  /\ v.ep_in.len <= Size(v.ep_in.buf) /\ v.ep_in.done <= v.ep_in.len
  /\ \A b \in BufferNames : v.mem[b] \in Contents(b)

LEMMA BeforeAny ==
  ASSUME NEW v, DriverOK(v)
  PROVE  BeforePacket(v)
<1>1. v.ep_in.done \in 0 .. 2 /\ v.ep_in.last \in 0 .. 1 /\ v.ep_in.len \in 0 .. 2
  BY DEF DriverOK, InOK, Endpoint
<1> QED BY <1>1 DEF DriverOK, InOK, BeforePacket

\* Sending a packet, and taking one.
LEMMA InPacketOK ==
  ASSUME NEW v, BeforePacket(v)
  PROVE  LET w == in_packet(v)
         IN  /\ DriverOK(w) /\ LaterBoth(v, w) /\ w.configured = v.configured
             /\ w.ep_in.busy = v.ep_in.busy /\ w.ep_in.buf = v.ep_in.buf /\ w.ep_in.len = v.ep_in.len
             /\ w.ep_out = v.ep_out
<1> DEFINE w == in_packet(v)
           e == v.ep_in
           n == IF e.done < e.len THEN 1 ELSE 0
           p == IF n = 1 THEN v.mem[e.buf][e.done + 1] ELSE Zlp
           f == [e EXCEPT !.last = n, !.zlp = e.zlp /\ n # 0]
<1>1. /\ v \in DriverData /\ e \in Endpoint /\ OutOK(v.ep_out)
      /\ e.len <= Size(e.buf) /\ e.done <= e.len
      /\ \A b \in BufferNames : v.mem[b] \in Contents(b)
  BY DEF BeforePacket, DriverData
<1>2. w = [v EXCEPT !.ep_in = f, !.pin = FALSE, !.fin = p]
  <2>1. /\ w = [v EXCEPT !.ep_in.last = n, !.ep_in.zlp = @ /\ n # 0, !.pin = FALSE, !.fin = p]
    BY DEF in_packet
  <2> HIDE DEF n, p, w
  <2> QED BY <1>1, <2>1 DEF DriverData, Endpoint
<1>3. p \in Packet
  <2>1. CASE n = 1
    <3>1. e.done + 1 \in 1 .. Size(e.buf) /\ e.buf \in BufferNames
      BY <1>1, <2>1 DEF Endpoint, Size
    <3>2. v.mem[e.buf] \in [1 .. Size(e.buf) -> Packet]
      BY <1>1, <3>1 DEF Contents
    <3> QED BY <2>1, <3>1, <3>2
  <2>2. CASE n # 1
    BY <2>2, Packets
  <2> QED BY <2>1, <2>2
<1>4. /\ f \in Endpoint /\ InOK(f) /\ f.busy = e.busy /\ f.buf = e.buf /\ f.len = e.len
      /\ f.result = e.result
  <2>1. n \in 0 .. 1 /\ e.done + n <= e.len /\ (e.zlp /\ n # 0) \in BOOLEAN
    BY <1>1 DEF Endpoint
  <2> HIDE DEF n
  <2>2. /\ f \in Endpoint /\ f.busy = e.busy /\ f.buf = e.buf /\ f.len = e.len
        /\ f.done = e.done /\ f.last = n /\ f.result = e.result
    BY <1>1, <2>1 DEF Endpoint
  <2> HIDE DEF f
  <2> QED BY <1>1, <2>1, <2>2 DEF InOK
<1> HIDE DEF p, f, w
<1>5. /\ w \in DriverData /\ w.ep_in = f /\ w.ep_out = v.ep_out /\ w.mem = v.mem
      /\ w.configured = v.configured
  BY <1>1, <1>2, <1>3, <1>4 DEF DriverData
<1>6. Later(e, f) /\ Later(v.ep_out, v.ep_out)
  <2>1. e.result \in -1 .. 2 /\ v.ep_out.result \in -1 .. 2
    BY <1>1 DEF Endpoint, DriverData
  <2> QED BY <1>4, <2>1 DEF Later
<1> QED BY <1>1, <1>4, <1>5, <1>6 DEF DriverOK, LaterBoth, w

LEMMA OutArmOK ==
  ASSUME NEW v, DriverOK(v)
  PROVE  LET w == out_arm(v)
         IN  /\ DriverOK(w) /\ LaterBoth(v, w) /\ w.configured = v.configured
             /\ w.ep_out.busy = v.ep_out.busy /\ w.ep_out.buf = v.ep_out.buf
             /\ w.ep_out.len = v.ep_out.len /\ w.ep_in = v.ep_in
<1> DEFINE w == out_arm(v)
           e == v.ep_out
           f == [e EXCEPT !.armed = TRUE]
<1>1. /\ v \in DriverData /\ InOK(v.ep_in) /\ OutOK(e) /\ e \in Endpoint
      /\ \A b \in BufferNames : v.mem[b] \in Contents(b)
  BY DEF DriverOK, DriverData
<1>2. w = [v EXCEPT !.ep_out = f, !.rx = TRUE]
  BY <1>1 DEF out_arm, DriverData, Endpoint
<1>3. /\ f \in Endpoint /\ OutOK(f) /\ f.busy = e.busy /\ f.buf = e.buf /\ f.len = e.len
      /\ f.result = e.result
  BY <1>1 DEF Endpoint, OutOK
<1> HIDE DEF f, w
<1>4. /\ w \in DriverData /\ w.ep_out = f /\ w.ep_in = v.ep_in /\ w.mem = v.mem
      /\ w.configured = v.configured
  BY <1>1, <1>2, <1>3 DEF DriverData
<1>5. Later(e, f) /\ Later(v.ep_in, v.ep_in)
  <2>1. e.result \in -1 .. 2 /\ v.ep_in.result \in -1 .. 2
    BY <1>1 DEF Endpoint, DriverData
  <2> QED BY <1>3, <2>1 DEF Later
<1> QED BY <1>1, <1>3, <1>4, <1>5 DEF DriverOK, LaterBoth, w

\* The interrupt of an IN endpoint: a packet has gone.
LEMMA InDoneOK ==
  ASSUME NEW v, DriverOK(v)
  PROVE  DriverOK(in_done(v)) /\ LaterBoth(v, in_done(v))
<1> DEFINE e == v.ep_in
           w == [v EXCEPT !.ep_in.done = @ + v.ep_in.last]
           f == [e EXCEPT !.done = e.done + e.last]
<1>1. /\ v \in DriverData /\ InOK(e) /\ OutOK(v.ep_out) /\ e \in Endpoint
      /\ v.ep_out \in Endpoint /\ \A b \in BufferNames : v.mem[b] \in Contents(b)
  BY DEF DriverOK, DriverData
<1>2. w = [v EXCEPT !.ep_in = f]
  BY <1>1 DEF DriverData, Endpoint
<1>3. e.done + e.last \in 0 .. 2 /\ e.done + e.last <= e.len
  BY <1>1 DEF InOK, Endpoint
<1>4. /\ f \in Endpoint /\ f.done = e.done + e.last /\ f.len = e.len /\ f.buf = e.buf
      /\ f.busy = e.busy /\ f.result = e.result
  BY <1>1, <1>3 DEF Endpoint
<1>5. in_done(v) = IF ~e.busy THEN v
                   ELSE IF w.ep_in.done < w.ep_in.len \/ w.ep_in.zlp THEN in_packet(w)
                   ELSE [w EXCEPT !.ep_in = complete(@)]
  BY DEF in_done
<1> HIDE DEF w, f
<1>6. /\ w \in DriverData /\ w.ep_in = f /\ w.ep_out = v.ep_out /\ w.mem = v.mem
  BY <1>1, <1>2, <1>4 DEF DriverData
<1>7. Later(v.ep_out, v.ep_out)
  <2>1. v.ep_out.result \in -1 .. 2
    BY <1>1 DEF Endpoint
  <2> QED BY <2>1 DEF Later
<1>8. CASE ~e.busy
  <2>1. e.result \in -1 .. 2
    BY <1>1 DEF Endpoint
  <2> QED BY <1>5, <1>7, <1>8, <2>1 DEF LaterBoth, Later
<1>9. CASE e.busy /\ (w.ep_in.done < w.ep_in.len \/ w.ep_in.zlp)
  <2>1. in_done(v) = in_packet(w)
    BY <1>5, <1>9
  <2>2. BeforePacket(w)
    BY <1>1, <1>3, <1>4, <1>6 DEF BeforePacket, InOK
  <2>3. /\ DriverOK(in_packet(w)) /\ in_packet(w).ep_in.busy = w.ep_in.busy
        /\ in_packet(w).ep_in.buf = w.ep_in.buf /\ in_packet(w).ep_in.len = w.ep_in.len
        /\ in_packet(w).ep_out = w.ep_out
    BY <2>2, InPacketOK
  <2> QED BY <1>4, <1>6, <1>7, <1>9, <2>1, <2>3 DEF LaterBoth, Later
<1>10. CASE e.busy /\ ~(w.ep_in.done < w.ep_in.len \/ w.ep_in.zlp)
  <2> DEFINE x == [w EXCEPT !.ep_in = Over(f.done)]
  <2>1. in_done(v) = x
    BY <1>5, <1>6, <1>10 DEF complete, DriverData
  <2>2. f.done \in -1 .. 2 /\ f.done <= e.len
    BY <1>3, <1>4
  <2>3. InOK(Over(f.done)) /\ ~Over(f.done).busy /\ Over(f.done).result = f.done
    BY <2>2, OverOK
  <2>4. /\ x \in DriverData /\ x.ep_in = Over(f.done) /\ x.ep_out = v.ep_out /\ x.mem = v.mem
    BY <1>6, <2>3 DEF DriverData, InOK
  <2> HIDE DEF x
  <2> QED BY <1>1, <1>7, <1>10, <2>1, <2>2, <2>3, <2>4 DEF DriverOK, LaterBoth, Later
<1> QED BY <1>8, <1>9, <1>10

\* The interrupt of an OUT endpoint: a packet has come.
LEMMA OutDoneOK ==
  ASSUME NEW v, DriverOK(v)
  PROVE  DriverOK(out_done(v)) /\ LaterBoth(v, out_done(v))
<1> DEFINE e == v.ep_out
           n == IF Full(v.fout) THEN 1 ELSE 0
           m == IF n = 1 \/ e.buf = "cbw" THEN [v.mem[e.buf] EXCEPT ![e.done + 1] = v.fout]
                ELSE v.mem[e.buf]
           f == [e EXCEPT !.armed = FALSE, !.done = e.done + n]
           w == [v EXCEPT !.ep_out = f, !.fout = NoPacket, !.mem = [v.mem EXCEPT ![e.buf] = m]]
<1>1. /\ v \in DriverData /\ InOK(v.ep_in) /\ OutOK(e) /\ e \in Endpoint /\ v.fout \in Packet
      /\ v.ep_in \in Endpoint /\ \A b \in BufferNames : v.mem[b] \in Contents(b)
      /\ v.mem \in [BufferNames -> Contents("0") \cup Contents("cbw")] /\ e.buf \in BufferNames
  BY DEF DriverOK, DriverData, Endpoint
<1>2. CASE ~e.busy \/ ~e.armed
  <2>1. out_done(v) = v
    BY <1>2 DEF out_done
  <2>2. e.result \in -1 .. 2 /\ v.ep_in.result \in -1 .. 2
    BY <1>1 DEF Endpoint
  <2> QED BY <2>1, <2>2 DEF LaterBoth, Later
<1>3. CASE e.busy /\ e.armed
  <2>1. out_done(v) = IF w.ep_out.done < e.len /\ n = 1 THEN out_arm(w)
                      ELSE [w EXCEPT !.ep_out = complete(@)]
    <3> DEFINE y == [v EXCEPT !.ep_out.armed = FALSE, !.fout = NoPacket, !.ep_out.done = @ + n,
                              !.mem[e.buf] = IF n = 1 \/ e.buf = "cbw"
                                             THEN [@ EXCEPT ![e.done + 1] = v.fout] ELSE @]
    <3>1. out_done(v) = IF y.ep_out.done < e.len /\ n = 1 THEN out_arm(y)
                        ELSE [y EXCEPT !.ep_out = complete(@)]
      BY <1>3 DEF out_done
    <3>2. y = w
      <4> HIDE DEF n
      <4> QED BY <1>1 DEF DriverData, Endpoint
    <3> QED BY <3>1, <3>2
  <2>2. n \in 0 .. 1 /\ e.done + n \in 0 .. 2 /\ e.done + n <= e.len
    BY <1>1, <1>3 DEF OutOK, Endpoint
  <2>3. m \in Contents(e.buf)
    <3>1. e.done + 1 \in 1 .. Size(e.buf)
      BY <1>1, <1>3 DEF OutOK, Endpoint, Size
    <3>2. v.mem[e.buf] \in [1 .. Size(e.buf) -> Packet]
      BY <1>1 DEF Contents
    <3> QED BY <1>1, <3>1, <3>2 DEF Contents
  <2> HIDE DEF n, m
  <2>4. /\ f \in Endpoint /\ f.done = e.done + n /\ f.len = e.len /\ f.buf = e.buf
        /\ f.busy /\ f.result = e.result
    BY <1>1, <1>3, <2>2 DEF Endpoint
  <2>5. /\ [v.mem EXCEPT ![e.buf] = m] \in [BufferNames -> Contents("0") \cup Contents("cbw")]
        /\ \A b \in BufferNames : [v.mem EXCEPT ![e.buf] = m][b] \in Contents(b)
    <3>1. Contents(e.buf) \subseteq Contents("0") \cup Contents("cbw")
      BY <1>1 DEF Contents, Size, BufferNames
    <3> QED BY <1>1, <2>3, <3>1
  <2> DEFINE mem == [v.mem EXCEPT ![e.buf] = m]
  <2> HIDE DEF f, mem
  <2>6. /\ w \in DriverData /\ w.ep_in = v.ep_in /\ w.ep_out = f /\ w.mem = mem
    BY <1>1, <2>4, <2>5, Packets DEF DriverData, mem
  <2> HIDE DEF w
  <2>7. Later(v.ep_in, v.ep_in)
    <3>1. v.ep_in.result \in -1 .. 2
      BY <1>1 DEF Endpoint
    <3> QED BY <3>1 DEF Later
  <2>8. CASE w.ep_out.done < e.len /\ n = 1
    <3>0. OutOK(f)
      <4>1. f.len = e.len /\ f.done < e.len /\ f.buf = e.buf /\ f \in Endpoint
        BY <2>4, <2>6, <2>8
      <4>2. e.len <= Size(e.buf) /\ f.done \in 0 .. 2 /\ e.len \in 0 .. 2
        BY <1>1, <4>1 DEF OutOK, Endpoint
      <4> QED BY <4>1, <4>2 DEF OutOK
    <3>01. \A b \in BufferNames : w.mem[b] \in Contents(b)
      BY <2>5, <2>6 DEF mem
    <3>1. DriverOK(w)
      BY <1>1, <2>6, <3>0, <3>01 DEF DriverOK
    <3>2. /\ DriverOK(out_arm(w)) /\ out_arm(w).ep_in = w.ep_in
          /\ out_arm(w).ep_out.busy = w.ep_out.busy /\ out_arm(w).ep_out.buf = w.ep_out.buf
          /\ out_arm(w).ep_out.len = w.ep_out.len
      BY <3>1, OutArmOK
    <3>3. out_done(v) = out_arm(w)
      BY <2>1, <2>8
    <3> QED BY <1>3, <2>4, <2>6, <2>7, <3>2, <3>3 DEF LaterBoth, Later
  <2>9. CASE ~(w.ep_out.done < e.len /\ n = 1)
    <3> DEFINE x == [w EXCEPT !.ep_out = Over(f.done)]
    <3>1. out_done(v) = x
      BY <2>1, <2>6, <2>9 DEF complete, DriverData
    <3>2. f.done \in -1 .. 2 /\ f.done <= e.len
      BY <2>2, <2>4
    <3>3. OutOK(Over(f.done)) /\ ~Over(f.done).busy /\ Over(f.done).result = f.done
      BY <3>2, OverOK
    <3>4. x \in DriverData /\ x.ep_out = Over(f.done) /\ x.ep_in = v.ep_in /\ x.mem = mem
      BY <2>6, <3>3 DEF DriverData, OutOK
    <3> HIDE DEF x
    <3> QED BY <1>1, <1>3, <2>5, <2>7, <3>1, <3>2, <3>3, <3>4 DEF DriverOK, LaterBoth, Later, mem
  <2> QED BY <2>8, <2>9
<1> QED BY <1>2, <1>3

\* A step that leaves the transfers and the buffers alone.
LEMMA SameTransfers ==
  ASSUME NEW v, NEW w, DriverOK(v), w \in DriverData,
         w.ep_in = v.ep_in, w.ep_out = v.ep_out, w.mem = v.mem
  PROVE  DriverOK(w) /\ LaterBoth(v, w)
<1>1. v.ep_in.result \in -1 .. 2 /\ v.ep_out.result \in -1 .. 2
  BY DEF DriverOK, DriverData, Endpoint
<1> QED BY <1>1 DEF DriverOK, LaterBoth, Later

LEMMA ConfigureOK ==
  ASSUME NEW v, DriverOK(v)
  PROVE  DriverOK(configure(v)) /\ LaterBoth(v, configure(v))
<1> DEFINE x == bulk_cancel(v)
<1>1. DriverOK(x) /\ LaterBoth(v, x)
  BY CancelOK
<1>2. configure(v) = [x EXCEPT !.pin = FALSE, !.pout = FALSE, !.halted_in = FALSE,
                               !.halted_out = FALSE, !.configured = TRUE, !.seen = TRUE]
  BY DEF configure, unhalt, ep_program
<1> HIDE DEF x
<1>3. /\ configure(v) \in DriverData /\ configure(v).ep_in = x.ep_in
      /\ configure(v).ep_out = x.ep_out /\ configure(v).mem = x.mem
  BY <1>1, <1>2 DEF DriverOK, DriverData
<1>4. DriverOK(configure(v)) /\ LaterBoth(x, configure(v))
  BY <1>1, <1>3, SameTransfers, Zenon
<1> QED BY <1>1, <1>4, LaterTwice, Zenon

LEMMA BusResetOK ==
  ASSUME NEW v, DriverOK(v)
  PROVE  DriverOK(bus_reset_seen(v)) /\ LaterBoth(v, bus_reset_seen(v))
<1> DEFINE x == bulk_cancel(v)
           w == bus_reset_seen(v)
<1>1. DriverOK(x) /\ LaterBoth(v, x)
  BY CancelOK
<1>2. w = IF v.configured
          THEN [x EXCEPT !.pin = FALSE, !.pout = FALSE, !.halted_in = FALSE,
                         !.halted_out = FALSE, !.seen = FALSE]
          ELSE [x EXCEPT !.halted_in = FALSE, !.halted_out = FALSE, !.seen = FALSE]
  BY DEF bus_reset_seen, unhalt, ep_program
<1> HIDE DEF x, w
<1>3. w \in DriverData /\ w.ep_in = x.ep_in /\ w.ep_out = x.ep_out /\ w.mem = x.mem
  BY <1>1, <1>2, ZenonT(30) DEF DriverOK, DriverData
<1>4. DriverOK(w) /\ LaterBoth(x, w)
  BY <1>1, <1>3, SameTransfers, Zenon
<1>5. DriverOK(w) /\ LaterBoth(v, w)
  BY <1>1, <1>4, LaterTwice, Zenon
<1> QED BY <1>5 DEF w

LEMMA BotResetOK ==
  ASSUME NEW v, DriverOK(v)
  PROVE  DriverOK(unhalt(bulk_cancel(v))) /\ LaterBoth(v, unhalt(bulk_cancel(v)))
<1> DEFINE x == bulk_cancel(v)
           w == unhalt(x)
<1>1. DriverOK(x) /\ LaterBoth(v, x)
  BY CancelOK
<1> HIDE DEF x
<1>2. w \in DriverData /\ w.ep_in = x.ep_in /\ w.ep_out = x.ep_out /\ w.mem = x.mem
  BY <1>1 DEF DriverOK, DriverData, unhalt
<1> HIDE DEF w
<1>3. DriverOK(w) /\ LaterBoth(x, w)
  BY <1>1, <1>2, SameTransfers, Zenon
<1>4. DriverOK(w) /\ LaterBoth(v, w)
  BY <1>1, <1>3, LaterTwice, Zenon
<1> QED BY <1>4 DEF w, x

LEMMA HaltClearOK ==
  ASSUME NEW v, DriverOK(v), NEW in \in BOOLEAN
  PROVE  DriverOK(halt_clear(v, in)) /\ LaterBoth(v, halt_clear(v, in))
<1> DEFINE w == IF in THEN [v EXCEPT !.halted_in = FALSE] ELSE [v EXCEPT !.halted_out = FALSE]
<1>1. \/ halt_clear(v, in) = in_packet(w) 
      \/ halt_clear(v, in) = out_arm(w) 
      \/ halt_clear(v, in) = w
  BY DEF halt_clear
<1>2. w \in DriverData /\ w.ep_in = v.ep_in /\ w.ep_out = v.ep_out /\ w.mem = v.mem
  BY DEF DriverOK, DriverData
<1> HIDE DEF w
<1>3. DriverOK(w) /\ LaterBoth(v, w)
  BY <1>2, SameTransfers, Zenon
<1>4. CASE halt_clear(v, in) = in_packet(w)
  <2>1. BeforePacket(w)
    BY <1>3, BeforeAny
  <2>2. DriverOK(in_packet(w)) /\ LaterBoth(w, in_packet(w))
    BY <2>1, InPacketOK
  <2> QED BY <1>3, <1>4, <2>2, LaterTwice, Zenon
<1>5. CASE halt_clear(v, in) = out_arm(w)
  <2>1. DriverOK(out_arm(w)) /\ LaterBoth(w, out_arm(w))
    BY <1>3, OutArmOK
  <2> QED BY <1>3, <1>5, <2>1, LaterTwice, Zenon
<1>6. CASE halt_clear(v, in) = w
  BY <1>3, <1>6
<1> QED BY <1>1, <1>4, <1>5, <1>6

\* The control endpoint.
LEMMA SetupOK ==
  ASSUME NEW v, DriverOK(v)
  PROVE  DriverOK(ep0_setup(v)) /\ LaterBoth(v, ep0_setup(v))
<1> DEFINE x == [v EXCEPT !.setup = "none"]
           w == IF x.seen THEN x ELSE configure(x)
           r == ep0_setup(v)
<1>1. x \in DriverData /\ x.ep_in = v.ep_in /\ x.ep_out = v.ep_out /\ x.mem = v.mem
  BY DEF DriverOK, DriverData, Requests
<1>2. v.setup \in Requests
  BY DEF DriverOK, DriverData
<1>3. /\ v.setup = "descriptor" => r = IF x.seen THEN bus_reset_seen(x) ELSE x
      /\ v.setup = "set_config"  => r = configure(x)
      /\ v.setup = "get_max_lun" => r = w
      /\ v.setup = "bot_reset"   => r = unhalt(bulk_cancel(w))
      /\ v.setup = "clear_in"    => r = halt_clear(w, TRUE)
      /\ v.setup = "clear_out"   => r = halt_clear(w, FALSE)
      /\ v.setup = "none"        => r = x
  BY DEF ep0_setup
<1> HIDE DEF x, r
<1>4. DriverOK(x) /\ LaterBoth(v, x)
  BY <1>1, SameTransfers, Zenon
<1>5. /\ DriverOK(configure(x)) /\ LaterBoth(x, configure(x))
      /\ DriverOK(bus_reset_seen(x)) /\ LaterBoth(x, bus_reset_seen(x))
  BY <1>4, ConfigureOK, BusResetOK
<1>6. /\ DriverOK(configure(x)) /\ LaterBoth(v, configure(x))
      /\ DriverOK(bus_reset_seen(x)) /\ LaterBoth(v, bus_reset_seen(x))
  BY <1>4, <1>5, LaterTwice, Zenon
<1>7. DriverOK(w) /\ LaterBoth(v, w)
  BY <1>4, <1>6
<1> HIDE DEF w
<1>8. /\ DriverOK(unhalt(bulk_cancel(w))) /\ LaterBoth(w, unhalt(bulk_cancel(w)))
      /\ DriverOK(halt_clear(w, TRUE)) /\ LaterBoth(w, halt_clear(w, TRUE))
      /\ DriverOK(halt_clear(w, FALSE)) /\ LaterBoth(w, halt_clear(w, FALSE))
  BY <1>7, BotResetOK, HaltClearOK
<1>9. /\ DriverOK(unhalt(bulk_cancel(w))) /\ LaterBoth(v, unhalt(bulk_cancel(w)))
      /\ DriverOK(halt_clear(w, TRUE)) /\ LaterBoth(v, halt_clear(w, TRUE))
      /\ DriverOK(halt_clear(w, FALSE)) /\ LaterBoth(v, halt_clear(w, FALSE))
  BY <1>7, <1>8, LaterTwice, Zenon
<1>10. DriverOK(r) /\ LaterBoth(v, r)
  BY <1>2, <1>3, <1>4, <1>6, <1>7, <1>9 DEF Requests
<1> QED BY <1>10 DEF r

\* The interrupt takes what is pending: the control endpoint, then IN, then OUT.
LEMMA ServiceOK ==
  ASSUME NEW v, DriverOK(v)
  PROVE  DriverOK(udc_service(v)) /\ LaterBoth(v, udc_service(v))
<1> DEFINE x  == ep0_setup(v)
           x1 == [x EXCEPT !.pin = FALSE]
           w  == IF x.pin THEN in_done(x1) ELSE x
           w1 == [w EXCEPT !.pout = FALSE]
<1>1. DriverOK(x) /\ LaterBoth(v, x)
  BY SetupOK
<1>2. udc_service(v) = IF w.pout THEN out_done(w1) ELSE w
  BY DEF udc_service
<1> HIDE DEF x
<1>3. x1 \in DriverData /\ x1.ep_in = x.ep_in /\ x1.ep_out = x.ep_out /\ x1.mem = x.mem
  BY <1>1 DEF DriverOK, DriverData
<1> HIDE DEF x1
<1>4. DriverOK(x1) /\ LaterBoth(x, x1)
  BY <1>1, <1>3, SameTransfers, Zenon
<1>5. DriverOK(in_done(x1)) /\ LaterBoth(x1, in_done(x1))
  BY <1>4, InDoneOK
<1>6. DriverOK(in_done(x1)) /\ LaterBoth(v, in_done(x1))
  BY <1>1, <1>4, <1>5, LaterTwice, Zenon
<1>7. DriverOK(w) /\ LaterBoth(v, w)
  BY <1>1, <1>6
<1> HIDE DEF w
<1>8. w1 \in DriverData /\ w1.ep_in = w.ep_in /\ w1.ep_out = w.ep_out /\ w1.mem = w.mem
  BY <1>7 DEF DriverOK, DriverData
<1> HIDE DEF w1
<1>9. DriverOK(w1) /\ LaterBoth(w, w1)
  BY <1>7, <1>8, SameTransfers, Zenon
<1>10. DriverOK(out_done(w1)) /\ LaterBoth(w1, out_done(w1))
  BY <1>9, OutDoneOK
<1>11. DriverOK(out_done(w1)) /\ LaterBoth(v, out_done(w1))
  BY <1>7, <1>9, <1>10, LaterTwice, Zenon
<1> QED BY <1>2, <1>7, <1>11

-----------------------------------------------------------------------------
(* The session: the invariant that keeps the interrupt, the card and the     *)
(* host's data apart                                                         *)

Places == {"off", "starting", "top", "arm", "cbw", "halt_in", "halt_out", "unhalt", "reply",
           "replying", "read_first", "send", "read_ahead", "sending", "receive", "receiving",
           "receive_next", "write", "end", "zlp", "drain", "drain_next", "csw", "arm_next",
           "status", "hw_stop"}

ThreadData ==
  [pc : Places, gen : Nat, armed : BOOLEAN, c : AllCommands, tag : Nat, cur : {"0", "1"},
   n : 0 .. 6, lba : 0 .. 3, residue : 0 .. 6, ended : BOOLEAN, st : Statuses, err : BOOLEAN]

\* How much of its command the thread still has to do, at each place in it.
Progress(t) ==
  /\ t.pc \in {"read_first", "send", "receive", "receiving"} =>
       t.n >= 1 /\ t.residue >= 2 * t.n /\ t.lba + t.n <= 3
  /\ t.pc = "read_ahead"   => t.n >= 1
  /\ t.pc \in {"read_ahead", "sending"} => t.residue >= 2 * t.n + 2 /\ t.lba + t.n <= 3
  /\ t.pc = "receive_next" => t.n >= 1
  /\ t.pc \in {"receive_next", "write"} => t.residue >= 2 * t.n /\ t.lba + t.n <= 2
  /\ t.pc \in {"reply", "replying"}     => t.residue >= 1
  /\ t.pc \in {"drain", "drain_next"}   => t.n >= 1 /\ t.n <= t.c.len

Task(t) ==
  /\ t \in ThreadData /\ t.residue <= t.c.len /\ (t.n <= t.c.len \/ t.n = t.c.n)
  /\ Progress(t)

\* Where the thread leaves a transfer in flight, and what for.
Sends == {"replying", "read_ahead", "sending", "zlp", "arm_next", "status"}

InFlight(t, v) ==
  /\ v.ep_in.busy => t.pc \in Sends
  /\ t.pc = "read_ahead" /\ v.ep_in.busy => v.ep_in.buf = t.cur
  /\ t.pc = "write" /\ v.ep_out.busy => v.ep_out.buf = Other(t.cur)
  /\ t.pc = "drain" =>
       IF v.ep_out.busy THEN v.ep_out.len = Part(t.n) ELSE v.ep_out.result <= Part(t.n)

HostData ==
  [pc : {"gone", "reset", "addressed", "config", "idle", "data_in", "data_out", "status",
         "recover", "clear_in", "clear_out"},
   c : AllCommands, tag : Nat, left : 0 .. 6, rx : Seq(Packet),
   answer : Statuses \cup {"none", "stray"}, residue : Nat]

HostOK(g) ==
  /\ g \in HostData /\ Len(g.rx) + g.left <= g.c.len
  /\ g.pc \in {"data_in", "data_out"} => g.left >= 1

\* The inductive invariant.
SessionInv ==
  /\ DriverOK(u) /\ Task(th) /\ InFlight(th, u) /\ HostOK(h)
  /\ sent \in Nat /\ card \in [Blocks -> Contents("0")]
  /\ exited => th.pc = "off"

LEMMA StartInOK ==
  ASSUME NEW v, DriverOK(v), NEW b \in BufferNames, NEW len \in 0 .. 2, len <= Size(b)
  PROVE  LET w == usb_bulk_start_in(v, b, len)
         IN  /\ DriverOK(w) /\ w.ep_out = v.ep_out
             /\ w.ep_in.busy /\ w.ep_in.buf = b /\ w.ep_in.len = len
<1> DEFINE w == usb_bulk_start_in(v, b, len)
           e == [Transfer(b, len) EXCEPT !.zlp = len = 0]
           x == [v EXCEPT !.ep_in = e]
<1>0. IdleEp \in Endpoint /\ IdleEp.done = 0 /\ IdleEp.last = 0
  BY DEF IdleEp, Endpoint, BufferNames
<1>1. /\ e \in Endpoint /\ e.busy /\ e.buf = b /\ e.len = len /\ e.done = 0 /\ e.last = 0
  BY <1>0 DEF Transfer, Endpoint
<1>2. w = x \/ w = in_packet(x)
  BY DEF usb_bulk_start_in
<1> HIDE DEF e
<1>3. /\ e \in Endpoint /\ InOK(e) /\ e.busy /\ e.buf = b /\ e.len = len
  BY <1>1 DEF InOK
<1>4. x \in DriverData /\ x.ep_in = e /\ x.ep_out = v.ep_out /\ x.mem = v.mem
  BY <1>3 DEF DriverOK, DriverData
<1> HIDE DEF x, w
<1>5. DriverOK(x)
  BY <1>3, <1>4 DEF DriverOK
<1>6. BeforePacket(x)
  BY <1>5, BeforeAny
<1>7. /\ DriverOK(in_packet(x)) /\ in_packet(x).ep_out = x.ep_out
      /\ in_packet(x).ep_in.busy = x.ep_in.busy /\ in_packet(x).ep_in.buf = x.ep_in.buf
      /\ in_packet(x).ep_in.len = x.ep_in.len
  BY <1>6, InPacketOK
<1>8. DriverOK(w) /\ w.ep_out = v.ep_out /\ w.ep_in.busy /\ w.ep_in.buf = b /\ w.ep_in.len = len
  BY <1>2, <1>3, <1>4, <1>5, <1>7
<1> QED BY <1>8 DEF w

LEMMA StartOutOK ==
  ASSUME NEW v, DriverOK(v), NEW b \in BufferNames, NEW len \in 1 .. 2, len <= Size(b)
  PROVE  LET w == usb_bulk_start_out(v, b, len)
         IN  /\ DriverOK(w) /\ w.ep_in = v.ep_in
             /\ w.ep_out.busy /\ w.ep_out.buf = b /\ w.ep_out.len = len
<1> DEFINE w == usb_bulk_start_out(v, b, len)
           e == Transfer(b, len)
           x == [v EXCEPT !.ep_out = e]
<1>0. IdleEp \in Endpoint /\ IdleEp.done = 0 /\ IdleEp.last = 0
  BY DEF IdleEp, Endpoint, BufferNames
<1>1. /\ e \in Endpoint /\ e.busy /\ e.buf = b /\ e.len = len /\ e.done = 0 /\ e.last = 0
  <2> DEFINE f == IdleEp
  <2>1. e = [f EXCEPT !.busy = TRUE, !.buf = b, !.len = len]
    BY DEF Transfer
  <2> HIDE DEF e, f
  <2>2. f \in Endpoint /\ f.done = 0 /\ f.last = 0 /\ len \in 0 .. 2
    BY <1>0 DEF f
  <2> QED BY <2>1, <2>2 DEF Endpoint
<1>2. w = x \/ w = out_arm(x)
  BY DEF usb_bulk_start_out
<1> HIDE DEF e
<1>3. /\ e \in Endpoint /\ OutOK(e) /\ e.busy /\ e.buf = b /\ e.len = len
  BY <1>1 DEF OutOK
<1>4. x \in DriverData /\ x.ep_out = e /\ x.ep_in = v.ep_in /\ x.mem = v.mem
  BY <1>3 DEF DriverOK, DriverData
<1> HIDE DEF x, w
<1>5. DriverOK(x)
  BY <1>3, <1>4 DEF DriverOK
<1>6. /\ DriverOK(out_arm(x)) /\ out_arm(x).ep_in = x.ep_in
      /\ out_arm(x).ep_out.busy = x.ep_out.busy /\ out_arm(x).ep_out.buf = x.ep_out.buf
      /\ out_arm(x).ep_out.len = x.ep_out.len
  BY <1>5, OutArmOK
<1>7. DriverOK(w) /\ w.ep_in = v.ep_in /\ w.ep_out.busy /\ w.ep_out.buf = b /\ w.ep_out.len = len
  BY <1>2, <1>3, <1>4, <1>5, <1>6
<1> QED BY <1>7 DEF w

\* The thread or the card fills a buffer.
LEMMA FillOK ==
  ASSUME NEW v, DriverOK(v), NEW b \in BufferNames, NEW m \in Contents(b)
  PROVE  LET w == [v EXCEPT !.mem[b] = m]
         IN  DriverOK(w) /\ w.ep_in = v.ep_in /\ w.ep_out = v.ep_out
<1> DEFINE mem == [v.mem EXCEPT ![b] = m]
           w   == [v EXCEPT !.mem = mem]
<1>1. /\ v \in DriverData /\ v.mem \in [BufferNames -> Contents("0") \cup Contents("cbw")]
      /\ \A a \in BufferNames : v.mem[a] \in Contents(a)
  BY DEF DriverOK, DriverData
<1>2. [v EXCEPT !.mem[b] = m] = w
  BY <1>1 DEF DriverData
<1>3. m \in Contents("0") \cup Contents("cbw")
  BY DEF Contents, Size, BufferNames
<1>4. /\ mem \in [BufferNames -> Contents("0") \cup Contents("cbw")]
      /\ \A a \in BufferNames : mem[a] \in Contents(a)
  BY <1>1, <1>3
<1> HIDE DEF mem
<1>5. w \in DriverData /\ w.ep_in = v.ep_in /\ w.ep_out = v.ep_out /\ w.mem = mem
  BY <1>1, <1>4 DEF DriverData
<1> HIDE DEF w
<1>6. DriverOK(w)
  BY <1>4, <1>5 DEF DriverOK
<1> QED BY <1>2, <1>5, <1>6

LEMMA TwoPackets ==
  /\ \A p, q \in Packet : <<p, q>> \in Contents("0") /\ <<p, q>> \in Contents("1")
  /\ \A p \in Packet : <<p>> \in Contents("cbw") /\ <<p>> \in Contents("small")
  /\ <<Junk, Junk>> \in Contents("0") /\ <<Junk, Junk>> \in Contents("1")
  /\ Contents("0") = Contents("1")
<1>1. \A p, q \in Packet : <<p, q>> \in [1 .. 2 -> Packet]
  OBVIOUS
<1>2. \A p \in Packet : <<p>> \in [1 .. 1 -> Packet]
  OBVIOUS
<1>3. /\ Contents("0") = [1 .. 2 -> Packet] /\ Contents("1") = [1 .. 2 -> Packet]
      /\ Contents("cbw") = [1 .. 1 -> Packet] /\ Contents("small") = [1 .. 1 -> Packet]
  BY DEF Contents, Size
<1> QED BY <1>1, <1>2, <1>3, Packets

\* What every buffer holds at the start of a command.
LEMMA BuffersOK ==
  /\ Buffers \in [BufferNames -> Contents("0") \cup Contents("cbw")]
  /\ \A b \in BufferNames : Buffers[b] \in Contents(b)
<1>1. Buffers = [b \in BufferNames |-> IF b \in {"0", "1"} THEN <<Junk, Junk>> ELSE <<NoPacket>>]
  BY DEF Buffers, BufferNames
<1>2. /\ <<Junk, Junk>> \in Contents("0") /\ <<Junk, Junk>> \in Contents("1")
      /\ <<NoPacket>> \in Contents("cbw") /\ <<NoPacket>> \in Contents("small")
  BY TwoPackets, Packets
<1> QED BY <1>1, <1>2 DEF BufferNames

\* While the driver goes on, what the thread has in flight stays that.
LEMMA InFlightLater ==
  ASSUME NEW t, t \in ThreadData, NEW v, NEW w, DriverOK(v), DriverOK(w),
         InFlight(t, v), LaterBoth(v, w)
  PROVE  InFlight(t, w)
<1>1. /\ v.ep_in \in Endpoint /\ v.ep_out \in Endpoint
      /\ w.ep_in \in Endpoint /\ w.ep_out \in Endpoint
  BY DEF DriverOK, DriverData
<1>2. Part(t.n) \in 0 .. 2
  BY DEF Part, ThreadData
<1> DEFINE k == Part(t.n)
<1> HIDE DEF k
<1> QED BY <1>1, <1>2 DEF InFlight, LaterBoth, Later, Endpoint, k

LEMMA OffOK ==
  /\ Off \in ThreadData /\ Task(Off)
  /\ \A g \in Nat, a \in BOOLEAN : Task([Off EXCEPT !.pc = "top", !.gen = g, !.armed = a])
  /\ Task([Off EXCEPT !.pc = "starting"])
<1>1. NoCommand \in AllCommands /\ NoCommand.n = 0 /\ NoCommand.len = 0
  BY DEF NoCommand, AllCommands, Ops
<1>2. /\ Off \in ThreadData /\ Off.residue = 0 /\ Off.n = 0 /\ Off.c = NoCommand /\ Off.pc = "off"
  BY <1>1 DEF Off, ThreadData, Places, Statuses
<1>3. ASSUME NEW t \in ThreadData, t.pc \in {"off", "top", "starting"}, t.residue = 0, t.n = 0,
             t.c = NoCommand
      PROVE  Task(t)
  BY <1>1, <1>3 DEF Task, Progress
<1>4. ASSUME NEW g \in Nat, NEW a \in BOOLEAN
      PROVE  Task([Off EXCEPT !.pc = "top", !.gen = g, !.armed = a])
  <2> DEFINE t == [Off EXCEPT !.pc = "top", !.gen = g, !.armed = a]
  <2>1. t \in ThreadData /\ t.pc = "top" /\ t.residue = 0 /\ t.n = 0 /\ t.c = NoCommand
    BY <1>2 DEF ThreadData, Places
  <2> QED BY <1>3, <2>1
<1>5. Task([Off EXCEPT !.pc = "starting"])
  <2> DEFINE t == [Off EXCEPT !.pc = "starting"]
  <2>1. t \in ThreadData /\ t.pc = "starting" /\ t.residue = 0 /\ t.n = 0 /\ t.c = NoCommand
    BY <1>2 DEF ThreadData, Places
  <2> QED BY <1>3, <2>1
<1> QED BY <1>2, <1>3, <1>4, <1>5

-----------------------------------------------------------------------------
(* The steps of the session thread *)

LEMMA WaitedOK ==
  ASSUME NEW v, DriverOK(v)
  PROVE  /\ DriverOK([v EXCEPT !.ep_in = Waited]) /\ DriverOK([v EXCEPT !.ep_out = Waited])
         /\ [v EXCEPT !.ep_in = Waited].ep_out = v.ep_out
         /\ [v EXCEPT !.ep_out = Waited].ep_in = v.ep_in
         /\ [v EXCEPT !.ep_in = Waited].ep_in = IdleEp
         /\ [v EXCEPT !.ep_out = Waited].ep_out = IdleEp
<1>1. InOK(IdleEp) /\ OutOK(IdleEp) /\ IdleEp \in Endpoint
  <2>1. 0 \in -1 .. 2
    OBVIOUS
  <2> QED BY <2>1, OverOK DEF InOK
<1> DEFINE x == [v EXCEPT !.ep_in = IdleEp]
           w == [v EXCEPT !.ep_out = IdleEp]
<1>2. /\ x \in DriverData /\ x.ep_in = IdleEp /\ x.ep_out = v.ep_out /\ x.mem = v.mem
      /\ w \in DriverData /\ w.ep_in = v.ep_in /\ w.ep_out = IdleEp /\ w.mem = v.mem
  BY <1>1 DEF DriverOK, DriverData
<1> HIDE DEF x, w
<1>3. DriverOK(x) /\ DriverOK(w)
  BY <1>1, <1>2 DEF DriverOK
<1> QED BY <1>2, <1>3 DEF x, w, Waited

\* The command is over or given up, with nothing in flight to the host.
LEMMA AgainOK ==
  ASSUME NEW v, ~v.ep_in.busy, NEW g \in Nat, NEW a \in BOOLEAN
  PROVE  LET t == [Off EXCEPT !.pc = "top", !.gen = g, !.armed = a]
         IN  Task(t) /\ InFlight(t, v)
<1> DEFINE t == [Off EXCEPT !.pc = "top", !.gen = g, !.armed = a]
<1>1. t.pc = "top"
  BY OffOK DEF ThreadData
<1>2. Task(t)
  BY OffOK
<1> HIDE DEF t
<1>3. InFlight(t, v)
  BY <1>1 DEF InFlight
<1> QED BY <1>2, <1>3 DEF t

LEMMA SendOK ==
  ASSUME SessionInv, ~u.ep_in.busy,
         NEW b \in BufferNames, NEW len \in 0 .. 2, len <= Size(b),
         NEW v, DriverOK(v), v.ep_in = u.ep_in, v.ep_out = u.ep_out,
         NEW T, Task(T), T.pc \in Sends, T.pc = "read_ahead" => T.cur = b,
         Send(b, len, T, v)
  PROVE  DriverOK(u') /\ Task(th') /\ InFlight(th', u')
<1> DEFINE w == usb_bulk_start_in(v, b, len)
<1>1. \/ u' = w /\ th' = T
      \/ th' = [Off EXCEPT !.pc = "top", !.gen = th.gen, !.armed = FALSE] /\ u' = u
  BY DEF Send, Again
<1>2. /\ DriverOK(w) /\ w.ep_out = v.ep_out
      /\ w.ep_in.busy /\ w.ep_in.buf = b /\ w.ep_in.len = len
  BY StartInOK
<1> HIDE DEF w
<1>3. CASE u' = w /\ th' = T
  <2>1. InFlight(T, w)
    BY <1>2 DEF InFlight, Sends
  <2> QED BY <1>2, <1>3, <2>1
<1>4. CASE th' = [Off EXCEPT !.pc = "top", !.gen = th.gen, !.armed = FALSE] /\ u' = u
  <2>1. th.gen \in Nat /\ DriverOK(u)
    BY DEF SessionInv, Task, ThreadData
  <2> QED BY <1>4, <2>1, AgainOK
<1> QED BY <1>1, <1>3, <1>4

LEMMA ReceiveOK ==
  ASSUME SessionInv, ~u.ep_in.busy,
         NEW b \in BufferNames, NEW len \in 1 .. 2, len <= Size(b),
         NEW T, Task(T), T.pc = "write" => b = Other(T.cur), T.pc = "drain" => len = Part(T.n),
         Receive(b, len, T)
  PROVE  DriverOK(u') /\ Task(th') /\ InFlight(th', u')
<1> DEFINE w == usb_bulk_start_out(u, b, len)
<1>1. \/ u' = w /\ th' = T
      \/ th' = [Off EXCEPT !.pc = "top", !.gen = th.gen, !.armed = FALSE] /\ u' = u
  BY DEF Receive, Again
<1>2. /\ DriverOK(w) /\ w.ep_in = u.ep_in
      /\ w.ep_out.busy /\ w.ep_out.buf = b /\ w.ep_out.len = len
  BY StartOutOK DEF SessionInv
<1> HIDE DEF w
<1>3. CASE u' = w /\ th' = T
  <2>1. InFlight(T, w)
    BY <1>2 DEF InFlight
  <2> QED BY <1>2, <1>3, <2>1
<1>4. CASE th' = [Off EXCEPT !.pc = "top", !.gen = th.gen, !.armed = FALSE] /\ u' = u
  <2>1. th.gen \in Nat /\ DriverOK(u)
    BY DEF SessionInv, Task, ThreadData
  <2> QED BY <1>4, <2>1, AgainOK
<1> QED BY <1>1, <1>3, <1>4

LEMMA SentOK ==
  ASSUME SessionInv, NEW T, Sent(T), Task(T), T.pc # "drain", T.pc # "write"
  PROVE  DriverOK(u') /\ Task(th') /\ InFlight(th', u')
<1>1. /\ DriverOK(u') /\ u'.ep_in = IdleEp
      /\ \/ th' = [Off EXCEPT !.pc = "top", !.gen = th.gen, !.armed = FALSE]
         \/ th' = T
  BY WaitedOK DEF Sent, Again, SessionInv
<1>2. ~IdleEp.busy
  BY DEF IdleEp
<1>3. CASE th' = [Off EXCEPT !.pc = "top", !.gen = th.gen, !.armed = FALSE]
  <2>1. th.gen \in Nat
    BY DEF SessionInv, Task, ThreadData
  <2> QED BY <1>1, <1>2, <1>3, <2>1, AgainOK
<1>4. CASE th' = T
  <2>1. InFlight(T, u')
    BY <1>1, <1>2 DEF InFlight
  <2> QED BY <1>1, <1>4, <2>1
<1> QED BY <1>1, <1>3, <1>4

\* The places that say nothing of the command's progress.
Simple == {"top", "arm", "cbw", "halt_in", "halt_out", "unhalt", "end", "zlp", "csw",
           "arm_next", "status", "hw_stop"}

LEMMA GotoOK ==
  ASSUME NEW t, Task(t), NEW p \in Simple
  PROVE  Task([t EXCEPT !.pc = p]) /\ [t EXCEPT !.pc = p].pc = p
<1> DEFINE r == [t EXCEPT !.pc = p]
<1>1. t \in ThreadData /\ t.residue <= t.c.len /\ (t.n <= t.c.len \/ t.n = t.c.n)
  BY DEF Task
<1>2. /\ r \in ThreadData /\ r.pc = p /\ r.residue = t.residue /\ r.c = t.c /\ r.n = t.n
  BY <1>1 DEF ThreadData, Simple, Places
<1> HIDE DEF r
<1>3. Progress(r)
  BY <1>2 DEF Progress, Simple
<1>4. Task(r)
  BY <1>1, <1>2, <1>3 DEF Task
<1> QED BY <1>2, <1>4 DEF r

StepOK == DriverOK(u') /\ Task(th') /\ InFlight(th', u')

LEMMA TopOK ==
  ASSUME SessionInv, Top
  PROVE  StepOK
<1>1. th.pc = "top" /\ Task(th) /\ DriverOK(u) /\ InFlight(th, u) /\ ~u.ep_in.busy
  BY DEF Top, At, SessionInv, InFlight, Sends
<1>2. /\ DriverOK(Forgotten) /\ Forgotten.ep_in = u.ep_in /\ Forgotten.ep_out = u.ep_out
      /\ Forgotten.gen = u.gen
  <2> DEFINE m == [Buffers EXCEPT !["cbw"] = u.mem["cbw"]]
             w == [u EXCEPT !.mem = m]
  <2>1. /\ u \in DriverData /\ InOK(u.ep_in) /\ OutOK(u.ep_out)
        /\ \A b \in BufferNames : u.mem[b] \in Contents(b)
    BY <1>1 DEF DriverOK
  <2>2. /\ m \in [BufferNames -> Contents("0") \cup Contents("cbw")]
        /\ \A b \in BufferNames : m[b] \in Contents(b)
    <3>1. "cbw" \in BufferNames
      BY DEF BufferNames
    <3> QED BY <2>1, <3>1, BuffersOK
  <2> HIDE DEF m
  <2>3. /\ w \in DriverData /\ w.ep_in = u.ep_in /\ w.ep_out = u.ep_out /\ w.mem = m /\ w.gen = u.gen
    BY <2>1, <2>2 DEF DriverData
  <2>4. Forgotten = w
    BY DEF Forgotten, m
  <2> HIDE DEF w
  <2> QED BY <2>1, <2>2, <2>3, <2>4 DEF DriverOK
<1>3. u.gen \in Nat
  BY <1>1 DEF DriverOK, DriverData
<1>4. \/ u' = u /\ th' = [th EXCEPT !.pc = "hw_stop"]
      \/ u' = Forgotten /\ th' = [th EXCEPT !.pc = "cbw", !.armed = FALSE]
      \/ u' = Forgotten /\ th' = [th EXCEPT !.pc = "arm", !.gen = u.gen]
  BY DEF Top, Goto
<1>5. ASSUME NEW t, t \in {[th EXCEPT !.pc = "cbw", !.armed = FALSE],
                           [th EXCEPT !.pc = "arm", !.gen = u.gen]}
      PROVE  Task(t) /\ t.pc \in {"cbw", "arm"}
  <2>1. /\ th \in ThreadData /\ th.residue <= th.c.len /\ (th.n <= th.c.len \/ th.n = th.c.n)
    BY <1>1 DEF Task
  <2>2. /\ t \in ThreadData /\ t.residue = th.residue /\ t.c = th.c /\ t.n = th.n
        /\ t.pc \in {"cbw", "arm"}
    BY <1>3, <1>5, <2>1 DEF ThreadData, Places
  <2> QED BY <2>1, <2>2 DEF Task, Progress
<1>6. Task([th EXCEPT !.pc = "hw_stop"]) /\ [th EXCEPT !.pc = "hw_stop"].pc = "hw_stop"
  BY <1>1, GotoOK DEF Simple
<1>7. DriverOK(u') /\ ~u'.ep_in.busy
  BY <1>1, <1>2, <1>4
<1>8. Task(th') /\ th'.pc \in {"hw_stop", "cbw", "arm"}
  BY <1>4, <1>5, <1>6
<1> QED BY <1>7, <1>8 DEF StepOK, InFlight

LEMMA ArmOK ==
  ASSUME SessionInv, Arm
  PROVE  StepOK
<1>1. th.pc = "arm" /\ Task(th) /\ ~u.ep_in.busy
  BY DEF Arm, At, SessionInv, InFlight, Sends
<1>2. Receive("cbw", 1, [th EXCEPT !.pc = "cbw"])
  BY DEF Arm, Receive, Goto
<1>3. Task([th EXCEPT !.pc = "cbw"]) /\ [th EXCEPT !.pc = "cbw"].pc = "cbw"
  BY <1>1, GotoOK DEF Simple
<1> DEFINE T == [th EXCEPT !.pc = "cbw"]
<1>4. "cbw" \in BufferNames /\ 1 \in 1 .. 2 /\ 1 <= Size("cbw")
  BY DEF BufferNames, Size
<1> HIDE DEF T
<1>5. Task(T) /\ T.pc # "write" /\ T.pc # "drain" /\ Receive("cbw", 1, T)
  BY <1>2, <1>3 DEF T
<1>6. DriverOK(u') /\ Task(th') /\ InFlight(th', u')
  BY <1>1, <1>4, <1>5, ReceiveOK
<1> QED BY <1>6 DEF StepOK

LEMMA HaltOK ==
  ASSUME SessionInv, HaltIn \/ HaltOut \/ Unhalt
  PROVE  StepOK
<1>1. /\ th.pc \in {"halt_in", "halt_out", "unhalt"} /\ Task(th) /\ DriverOK(u) /\ ~u.ep_in.busy
      /\ th.gen \in Nat
  BY DEF HaltIn, HaltOut, Unhalt, At, SessionInv, InFlight, Sends, Task, ThreadData
<1>2. CASE HaltIn \/ HaltOut
  <2>1. /\ u' = [u EXCEPT !.halted_in = TRUE] \/ u' = [u EXCEPT !.halted_out = TRUE]
        /\ th' = [th EXCEPT !.pc = "halt_out"] \/ th' = [th EXCEPT !.pc = "unhalt"]
    BY <1>2 DEF HaltIn, HaltOut, Goto, halt_set_in, halt_set_out
  <2>2. u' \in DriverData /\ u'.ep_in = u.ep_in /\ u'.ep_out = u.ep_out /\ u'.mem = u.mem
    BY <1>1, <2>1 DEF DriverOK, DriverData
  <2>3. DriverOK(u') /\ ~u'.ep_in.busy
    BY <1>1, <2>2 DEF DriverOK
  <2>4. Task(th') /\ th'.pc \in {"halt_out", "unhalt"}
    <3>1. "halt_out" \in Simple /\ "unhalt" \in Simple
      BY DEF Simple
    <3>2. /\ Task([th EXCEPT !.pc = "halt_out"]) /\ [th EXCEPT !.pc = "halt_out"].pc = "halt_out"
          /\ Task([th EXCEPT !.pc = "unhalt"]) /\ [th EXCEPT !.pc = "unhalt"].pc = "unhalt"
      BY <1>1, <3>1, GotoOK, Zenon
    <3> QED BY <2>1, <3>2
  <2> QED BY <2>3, <2>4 DEF StepOK, InFlight
<1>3. CASE Unhalt
  <2>1. u' = u /\ th' = [Off EXCEPT !.pc = "top", !.gen = th.gen, !.armed = FALSE]
    BY <1>3 DEF Unhalt, Again
  <2> QED BY <1>1, <2>1, AgainOK DEF StepOK
<1> QED BY <1>2, <1>3

\* What the command begins with.
LEMMA ExecuteOK ==
  ASSUME NEW c \in AllCommands, c.op # "invalid", NEW t \in Nat, Task(th)
  PROVE  LET T == Execute(c, t)
         IN  Task(T) /\ T.pc \in {"read_first", "receive", "reply", "end"}
<1> DEFINE B == [th EXCEPT !.c = c, !.tag = t, !.residue = c.len, !.ended = FALSE, !.st = "good",
                           !.err = FALSE, !.cur = "0", !.lba = 0, !.n = c.n]
           op == IF c.op \in {"read", "write"} /\ c.n = 0 THEN "nothing" ELSE c.op
           T == Execute(c, t)
<1>1. /\ c.op \in Ops /\ c.n \in 0 .. 3 /\ c.len \in 0 .. 6 /\ c.in \in BOOLEAN
  BY DEF AllCommands
<1>2. /\ B \in ThreadData /\ B.c = c /\ B.residue = c.len /\ B.n = c.n /\ B.lba = 0
  <2>1. th \in ThreadData /\ "good" \in Statuses /\ c.n \in 0 .. 6
    BY <1>1 DEF Task, Statuses
  <2> DEFINE X == [th EXCEPT !.c = c, !.tag = t, !.residue = c.len, !.ended = FALSE]
             Y == [X EXCEPT !.st = "good", !.err = FALSE, !.cur = "0"]
  <2>2. X \in ThreadData /\ X.c = c /\ X.residue = c.len
    BY <1>1, <2>1 DEF ThreadData
  <2> HIDE DEF X
  <2>3. Y \in ThreadData /\ Y.c = c /\ Y.residue = c.len
    BY <2>1, <2>2 DEF ThreadData
  <2> HIDE DEF Y
  <2>4. B = [Y EXCEPT !.lba = 0, !.n = c.n]
    BY DEF X, Y
  <2> HIDE DEF B
  <2>5. 0 \in 0 .. 3 /\ c.n \in 0 .. 6
    BY <2>1
  <2>6. B \in ThreadData
    BY <2>3, <2>4, <2>5 DEF ThreadData
  <2>7. B.c = c /\ B.residue = c.len /\ B.n = c.n /\ B.lba = 0
    BY <2>3, <2>4 DEF ThreadData
  <2> QED BY <2>6, <2>7
<1>3. /\ op = "read" => \/ T = [B EXCEPT !.pc = "end", !.st = "phase"]
                        \/ T = [B EXCEPT !.pc = "read_first"] /\ Fits(c)
      /\ op = "write" => \/ T = [B EXCEPT !.pc = "end", !.st = "phase"]
                         \/ T = [B EXCEPT !.pc = "receive"] /\ Fits(c)
      /\ op = "reply" => \/ T = [B EXCEPT !.pc = "end"]
                         \/ T = [B EXCEPT !.pc = "end", !.st = "phase"]
                         \/ T = [B EXCEPT !.pc = "reply"] /\ c.len # 0
      /\ op = "refused" => T = [B EXCEPT !.pc = "end", !.st = "fail"]
      /\ op = "nothing" => T = [B EXCEPT !.pc = "end"]
  BY DEF Execute
<1>4. op \in {"read", "write", "reply", "refused", "nothing"}
  BY <1>1 DEF Ops
<1>5. op \in {"read", "write"} => c.n >= 1
  BY <1>1
<1> HIDE DEF B, op, T
<1>6. \/ T = [B EXCEPT !.pc = "end", !.st = "phase"]
      \/ T = [B EXCEPT !.pc = "end", !.st = "fail"]
      \/ T = [B EXCEPT !.pc = "end"]
      \/ T = [B EXCEPT !.pc = "read_first"] /\ Fits(c) /\ c.n >= 1
      \/ T = [B EXCEPT !.pc = "receive"] /\ Fits(c) /\ c.n >= 1
      \/ T = [B EXCEPT !.pc = "reply"] /\ c.len # 0
  BY <1>3, <1>4, <1>5
<1>7. /\ T \in ThreadData /\ T.c = c /\ T.residue = c.len /\ T.n = c.n /\ T.lba = 0
      /\ \/ T.pc = "end"
         \/ T.pc \in {"read_first", "receive"} /\ Fits(c) /\ c.n >= 1
         \/ T.pc = "reply" /\ c.len # 0
  <2>1. {"end", "read_first", "receive", "reply"} \subseteq Places /\ {"phase", "fail"} \subseteq Statuses
    BY DEF Places, Statuses
  <2>2. ASSUME NEW q \in Places, NEW s \in Statuses,
               T = [B EXCEPT !.pc = q, !.st = s] \/ T = [B EXCEPT !.pc = q]
        PROVE  /\ T \in ThreadData /\ T.pc = q /\ T.c = c /\ T.residue = c.len
               /\ T.n = c.n /\ T.lba = 0
    BY <1>2, <2>2 DEF ThreadData
  <2> QED BY <1>6, <2>1, <2>2
<1>8. Progress(T)
  BY <1>1, <1>7 DEF Progress, Fits
<1>9. Task(T) /\ T.pc \in {"read_first", "receive", "reply", "end"}
  BY <1>1, <1>7, <1>8 DEF Task
<1> QED BY <1>9 DEF T

LEMMA CbwOK ==
  ASSUME SessionInv, Cbw
  PROVE  StepOK
<1> DEFINE v == [u EXCEPT !.ep_out = Waited]
           p == u.mem["cbw"][1]
           T == Execute(p[3], p[2])
<1>1. /\ th.pc = "cbw" /\ Task(th) /\ DriverOK(u) /\ ~u.ep_in.busy /\ th.gen \in Nat
  BY DEF Cbw, At, SessionInv, InFlight, Sends, Task, ThreadData
<1>2. DriverOK(v) /\ v.ep_in = u.ep_in
  BY <1>1, WaitedOK
<1>3. \/ th' = [Off EXCEPT !.pc = "top", !.gen = th.gen, !.armed = FALSE] /\ u' = v
      \/ th' = [th EXCEPT !.pc = "halt_in"] /\ u' = v
      \/ /\ p[1] = "cbw" /\ p[3].op # "invalid"
         /\ th' = T /\ u' = IF T.pc = "read_first" THEN Filling("0") ELSE v
  BY DEF Cbw, Again, Goto
<1> HIDE DEF v, p, T
<1>4. CASE th' = [Off EXCEPT !.pc = "top", !.gen = th.gen, !.armed = FALSE] /\ u' = v
  BY <1>1, <1>2, <1>4, AgainOK DEF StepOK
<1>5. CASE th' = [th EXCEPT !.pc = "halt_in"] /\ u' = v
  <2>1. "halt_in" \in Simple
    BY DEF Simple
  <2>2. Task(th') /\ th'.pc = "halt_in"
    BY <1>1, <1>5, <2>1, GotoOK, Zenon
  <2> QED BY <1>1, <1>2, <1>5, <2>2 DEF StepOK, InFlight
<1>6. CASE /\ p[1] = "cbw" /\ p[3].op # "invalid"
           /\ th' = T /\ u' = IF T.pc = "read_first" THEN Filling("0") ELSE v
  <2>1. p \in Packet
    <3>1. u.mem["cbw"] \in [1 .. 1 -> Packet]
      BY <1>1 DEF DriverOK, BufferNames, Contents, Size
    <3> QED BY <3>1 DEF p
  <2>2. p[2] \in Nat /\ p[3] \in AllCommands
    BY <1>6, <2>1, Packets
  <2>3. Task(T) /\ T.pc \in {"read_first", "receive", "reply", "end"}
    BY <1>1, <1>6, <2>2, ExecuteOK DEF T
  <2>4. DriverOK(Filling("0")) /\ Filling("0").ep_in = u.ep_in
    BY <1>1, FillOK, TwoPackets DEF Filling, BufferNames
  <2>5. DriverOK(u') /\ ~u'.ep_in.busy
    BY <1>1, <1>2, <1>6, <2>4
  <2> QED BY <1>6, <2>3, <2>5 DEF StepOK, InFlight
<1> QED BY <1>3, <1>4, <1>5, <1>6

LEMMA ReplyOK ==
  ASSUME SessionInv, Reply
  PROVE  StepOK
<1>1. /\ th.pc \in {"reply", "replying"} /\ Task(th) /\ DriverOK(u)
      /\ th \in ThreadData /\ th.residue <= th.c.len /\ (th.n <= th.c.len \/ th.n = th.c.n)
      /\ th.residue \in 1 .. 6
  BY DEF Reply, At, SessionInv, Task, Progress, ThreadData
<1>2. CASE th.pc = "reply" /\ Send("small", 1, To("replying"), Small(<<"reply", th.tag, 0>>))
  <2> DEFINE T == [th EXCEPT !.pc = "replying"]
             v == [u EXCEPT !.mem["small"] = <<<<"reply", th.tag, 0>>>>]
  <2>1. /\ T \in ThreadData /\ T.pc = "replying" /\ T.residue = th.residue /\ T.c = th.c
        /\ T.n = th.n
    BY <1>1 DEF ThreadData, Places
  <2>2. Send("small", 1, T, v)
    BY <1>2 DEF To, Small
  <2>3. "small" \in BufferNames /\ 1 \in 0 .. 2 /\ 1 <= Size("small")
    BY DEF BufferNames, Size
  <2>4. <<<<"reply", th.tag, 0>>>> \in Contents("small")
    <3>1. th.tag \in Nat
      BY <1>1 DEF ThreadData
    <3> QED BY <3>1, Packets, TwoPackets
  <2>5. DriverOK(v) /\ v.ep_in = u.ep_in /\ v.ep_out = u.ep_out
    BY <1>1, <2>3, <2>4, FillOK
  <2>6. ~u.ep_in.busy
    BY <1>2 DEF SessionInv, InFlight, Sends
  <2> HIDE DEF T, v
  <2>7. Task(T) /\ T.pc \in Sends /\ T.pc # "read_ahead"
    BY <1>1, <2>1 DEF Task, Progress, Sends
  <2>8. DriverOK(u') /\ Task(th') /\ InFlight(th', u')
    BY <2>2, <2>3, <2>5, <2>6, <2>7, SendOK
  <2> QED BY <2>8 DEF StepOK
<1>3. CASE th.pc = "replying" /\ Sent([th EXCEPT !.pc = "end", !.residue = @ - 1, !.ended = TRUE])
  <2> DEFINE T == [th EXCEPT !.pc = "end", !.residue = th.residue - 1, !.ended = TRUE]
  <2>1. th.residue - 1 \in 0 .. 6
    BY <1>1
  <2>2. /\ T \in ThreadData /\ T.pc = "end" /\ T.residue = th.residue - 1 /\ T.c = th.c /\ T.n = th.n
    BY <1>1, <2>1 DEF ThreadData, Places
  <2>3. Sent(T)
    BY <1>3
  <2> HIDE DEF T
  <2>4. Task(T)
    <3>1. th.residue - 1 <= th.c.len
      BY <1>1 DEF ThreadData, AllCommands
    <3> QED BY <1>1, <2>2, <3>1 DEF Task, Progress
  <2>5. DriverOK(u') /\ Task(th') /\ InFlight(th', u')
    BY <2>2, <2>3, <2>4, SentOK
  <2> QED BY <2>5 DEF StepOK
<1> QED BY <1>2, <1>3 DEF Reply, At

\* cmd_read: the card fills one buffer while the other is sent.
LEMMA SdReadOK ==
  ASSUME SessionInv, NEW b \in {"0", "1"}, NEW T, T.lba \in Blocks, SdRead(b, T)
  PROVE  /\ DriverOK(u') /\ u'.ep_in = u.ep_in
         /\ \/ th' = T
            \/ th.pc = "read_first" /\ th' = [T EXCEPT !.pc = "end", !.st = "fail"]
            \/ th.pc # "read_first" /\ th' = [T EXCEPT !.err = TRUE]
<1>1. DriverOK(u) /\ card[T.lba] \in Contents("0") /\ Contents(b) = Contents("0") /\ b \in BufferNames
  BY TwoPackets DEF SessionInv, BufferNames
<1>2. /\ DriverOK([u EXCEPT !.mem[b] = card[T.lba]])
      /\ [u EXCEPT !.mem[b] = card[T.lba]].ep_in = u.ep_in
  BY <1>1, FillOK
<1>3. CASE u' = [u EXCEPT !.mem[b] = card[T.lba]] /\ th' = T
  BY <1>2, <1>3
<1>4. CASE /\ u' = u
           /\ th' = IF th.pc = "read_first" THEN [T EXCEPT !.pc = "end", !.st = "fail"]
                    ELSE [T EXCEPT !.err = TRUE]
  BY <1>1, <1>4
<1> QED BY <1>3, <1>4 DEF SdRead

LEMMA ReadFirstOK ==
  ASSUME SessionInv, ReadFirst
  PROVE  StepOK
<1> DEFINE T == [th EXCEPT !.pc = "send"]
<1>1. /\ th.pc = "read_first" /\ Task(th) /\ ~u.ep_in.busy
      /\ th \in ThreadData /\ th.residue <= th.c.len /\ (th.n <= th.c.len \/ th.n = th.c.n)
      /\ th.n >= 1 /\ th.residue >= 2 * th.n /\ th.lba + th.n <= 3
  BY DEF ReadFirst, At, SessionInv, InFlight, Sends, Task, Progress
<1>2. /\ T \in ThreadData /\ T.pc = "send" /\ T.residue = th.residue /\ T.c = th.c
      /\ T.n = th.n /\ T.lba = th.lba
  BY <1>1 DEF ThreadData, Places
<1>3. SdRead("0", T)
  BY DEF ReadFirst, To
<1> HIDE DEF T
<1>4. T.lba \in Blocks
  BY <1>1, <1>2 DEF ThreadData, Blocks
<1>5. /\ DriverOK(u') /\ u'.ep_in = u.ep_in
      /\ th' = T \/ th' = [T EXCEPT !.pc = "end", !.st = "fail"]
  BY <1>1, <1>3, <1>4, SdReadOK
<1>6. /\ th' \in ThreadData /\ th'.pc \in {"send", "end"} /\ th'.residue = th.residue
      /\ th'.c = th.c /\ th'.n = th.n /\ th'.lba = th.lba
  BY <1>2, <1>5 DEF ThreadData, Places, Statuses
<1>7. Task(th')
  BY <1>1, <1>6 DEF Task, Progress
<1> QED BY <1>1, <1>5, <1>6, <1>7 DEF StepOK, InFlight

LEMMA SendChunkOK ==
  ASSUME SessionInv, SendChunk
  PROVE  StepOK
<1> DEFINE T == [th EXCEPT !.n = th.n - 1, !.lba = th.lba + 1,
                           !.pc = IF th.n > 1 THEN "read_ahead" ELSE "sending"]
           v == IF th.n > 1 THEN Filling(Other(th.cur)) ELSE u
<1>1. /\ th.pc = "send" /\ Task(th) /\ DriverOK(u) /\ ~u.ep_in.busy
      /\ th \in ThreadData /\ th.residue <= th.c.len /\ (th.n <= th.c.len \/ th.n = th.c.n)
      /\ th.n >= 1 /\ th.residue >= 2 * th.n /\ th.lba + th.n <= 3
      /\ th.n \in 0 .. 6 /\ th.lba \in 0 .. 3 /\ th.residue \in 0 .. 6 /\ th.cur \in {"0", "1"}
      /\ th.c.len \in 0 .. 6
  BY DEF SendChunk, At, SessionInv, InFlight, Sends, Task, Progress, ThreadData, AllCommands
<1>2. th.n - 1 \in 0 .. 6 /\ th.lba + 1 \in 0 .. 3 /\ (th.n <= th.c.len => th.n - 1 <= th.c.len)
  BY <1>1
<1>3. th.n - 1 <= th.c.len
  BY <1>1
<1>4. /\ T \in ThreadData /\ T.residue = th.residue /\ T.c = th.c /\ T.n = th.n - 1
      /\ T.lba = th.lba + 1 /\ T.cur = th.cur
      /\ T.pc = IF th.n > 1 THEN "read_ahead" ELSE "sending"
  BY <1>1, <1>2 DEF ThreadData, Places
<1>5. Send(th.cur, 2, T, v)
  BY DEF SendChunk
<1>6. DriverOK(v) /\ v.ep_in = u.ep_in /\ v.ep_out = u.ep_out
  <2>1. Other(th.cur) \in {"0", "1"}
    BY DEF Other
  <2>2. Other(th.cur) \in BufferNames /\ <<Junk, Junk>> \in Contents(Other(th.cur))
    BY <2>1, TwoPackets DEF BufferNames
  <2> QED BY <1>1, <2>2, FillOK DEF Filling
<1>7. th.cur \in BufferNames /\ 2 \in 0 .. 2 /\ 2 <= Size(th.cur)
  BY <1>1 DEF BufferNames, Size
<1> HIDE DEF T, v
<1>8. Task(T) /\ T.pc \in Sends
  BY <1>1, <1>3, <1>4 DEF Task, Progress, Sends
<1>9. DriverOK(u') /\ Task(th') /\ InFlight(th', u')
  BY <1>1, <1>4, <1>5, <1>6, <1>7, <1>8, SendOK
<1> QED BY <1>9 DEF StepOK

LEMMA ReadAheadOK ==
  ASSUME SessionInv, ReadAhead
  PROVE  StepOK
<1> DEFINE T == [th EXCEPT !.pc = "sending"]
<1>1. /\ th.pc = "read_ahead" /\ Task(th) /\ DriverOK(u)
      /\ th \in ThreadData /\ th.residue <= th.c.len /\ (th.n <= th.c.len \/ th.n = th.c.n)
      /\ th.n >= 1 /\ th.residue >= 2 * th.n + 2 /\ th.lba + th.n <= 3
  BY DEF ReadAhead, At, SessionInv, Task, Progress
<1>2. /\ T \in ThreadData /\ T.pc = "sending" /\ T.residue = th.residue /\ T.c = th.c
      /\ T.n = th.n /\ T.lba = th.lba
  BY <1>1 DEF ThreadData, Places
<1>3. SdRead(Other(th.cur), T)
  BY DEF ReadAhead, To
<1>4. Other(th.cur) \in {"0", "1"}
  BY DEF Other
<1> HIDE DEF T
<1>5. T.lba \in Blocks
  BY <1>1, <1>2 DEF ThreadData, Blocks
<1>6. DriverOK(u') /\ (th' = T \/ th' = [T EXCEPT !.err = TRUE])
  BY <1>1, <1>3, <1>4, <1>5, SdReadOK
<1>7. /\ th' \in ThreadData /\ th'.pc = "sending" /\ th'.residue = th.residue
      /\ th'.c = th.c /\ th'.n = th.n /\ th'.lba = th.lba
  BY <1>2, <1>6 DEF ThreadData
<1>8. Task(th')
  BY <1>1, <1>7 DEF Task, Progress
<1> QED BY <1>6, <1>7, <1>8 DEF StepOK, InFlight, Sends

LEMMA SendingOK ==
  ASSUME SessionInv, Sending
  PROVE  StepOK
<1> DEFINE T == [th EXCEPT !.residue = th.residue - 2, !.cur = Other(th.cur),
                           !.st = IF th.n > 0 /\ th.err THEN "fail" ELSE th.st,
                           !.pc = IF th.n = 0 \/ th.err THEN "end" ELSE "send"]
<1>1. /\ th.pc = "sending" /\ th \in ThreadData /\ th.residue <= th.c.len
      /\ (th.n <= th.c.len \/ th.n = th.c.n)
      /\ th.residue >= 2 * th.n + 2 /\ th.lba + th.n <= 3
      /\ th.n \in 0 .. 6 /\ th.lba \in 0 .. 3 /\ th.residue \in 0 .. 6 /\ th.c.len \in 0 .. 6
  BY DEF Sending, At, SessionInv, Task, Progress, ThreadData, AllCommands
<1>2. /\ th.residue - 2 \in 0 .. 6 /\ th.residue - 2 <= th.c.len
      /\ Other(th.cur) \in {"0", "1"} /\ (IF th.n > 0 /\ th.err THEN "fail" ELSE th.st) \in Statuses
  BY <1>1 DEF Other, ThreadData, Statuses
<1>3. Sent(T)
  BY DEF Sending
<1>4. /\ T \in ThreadData /\ T.residue = th.residue - 2 /\ T.c = th.c /\ T.n = th.n
      /\ T.lba = th.lba /\ T.pc = IF th.n = 0 \/ th.err THEN "end" ELSE "send"
  <2> DEFINE s == IF th.n > 0 /\ th.err THEN "fail" ELSE th.st
             p == IF th.n = 0 \/ th.err THEN "end" ELSE "send"
             X == [th EXCEPT !.residue = th.residue - 2, !.cur = Other(th.cur)]
  <2>1. s \in Statuses /\ p \in Places
    BY <1>2 DEF Places
  <2>2. /\ X \in ThreadData /\ X.residue = th.residue - 2 /\ X.c = th.c /\ X.n = th.n
        /\ X.lba = th.lba
    BY <1>1, <1>2 DEF ThreadData
  <2>3. T = [X EXCEPT !.st = s, !.pc = p]
    BY DEF X
  <2> HIDE DEF X, s, p, T
  <2>4. /\ T \in ThreadData /\ T.residue = th.residue - 2 /\ T.c = th.c /\ T.n = th.n
        /\ T.lba = th.lba /\ T.pc = p
    BY <2>1, <2>2, <2>3 DEF ThreadData
  <2> QED BY <2>4 DEF p
<1> HIDE DEF T
<1>5. Task(T) /\ T.pc # "drain" /\ T.pc # "write"
  BY <1>1, <1>2, <1>4 DEF Task, Progress
<1>6. DriverOK(u') /\ Task(th') /\ InFlight(th', u')
  BY <1>3, <1>5, SentOK
<1> QED BY <1>6 DEF StepOK

\* cmd_write: the card takes one buffer while the other is filled.
LEMMA ReceiveStartOK ==
  ASSUME SessionInv, ReceiveFirst \/ ReceiveNext
  PROVE  StepOK
<1> DEFINE b == IF th.pc = "receive" THEN "0" ELSE Other(th.cur)
           T == [th EXCEPT !.pc = IF th.pc = "receive" THEN "receiving" ELSE "write"]
<1>1. /\ th.pc \in {"receive", "receive_next"} /\ ~u.ep_in.busy
      /\ th \in ThreadData /\ th.residue <= th.c.len /\ (th.n <= th.c.len \/ th.n = th.c.n)
      /\ Progress(th)
  BY DEF ReceiveFirst, ReceiveNext, At, SessionInv, InFlight, Sends, Task
<1>2. /\ T \in ThreadData /\ T.residue = th.residue /\ T.c = th.c
      /\ T.n = th.n /\ T.lba = th.lba /\ T.cur = th.cur
      /\ T.pc = IF th.pc = "receive" THEN "receiving" ELSE "write"
  BY <1>1 DEF ThreadData, Places
<1>3. Receive(b, 2, T)
  BY DEF ReceiveFirst, ReceiveNext, At, To
<1>4. b \in BufferNames /\ 2 \in 1 .. 2 /\ 2 <= Size(b)
  BY DEF Other, BufferNames, Size
<1>5. T.pc = "write" => b = Other(T.cur)
  BY <1>1, <1>2
<1> HIDE DEF T, b
<1>6. Task(T) /\ T.pc # "drain"
  BY <1>1, <1>2 DEF Task, Progress
<1>7. DriverOK(u') /\ Task(th') /\ InFlight(th', u')
  BY <1>1, <1>3, <1>4, <1>5, <1>6, ReceiveOK
<1> QED BY <1>7 DEF StepOK

LEMMA ReceivingOK ==
  ASSUME SessionInv, Receiving
  PROVE  StepOK
<1> DEFINE r == Result(u.ep_out)
           q == IF th.n > 1 THEN "receive_next" ELSE "write"
<1>1. /\ th.pc = "receiving" /\ th \in ThreadData /\ th.residue <= th.c.len
      /\ DriverOK(u) /\ ~u.ep_in.busy /\ (th.n <= th.c.len \/ th.n = th.c.n)
      /\ th.n >= 1 /\ th.residue >= 2 * th.n /\ th.lba + th.n <= 3
      /\ th.n \in 0 .. 6 /\ th.lba \in 0 .. 3 /\ th.residue \in 0 .. 6 /\ th.c.len \in 0 .. 6
      /\ th.gen \in Nat
  BY DEF Receiving, At, SessionInv, InFlight, Sends, Task, Progress, ThreadData, AllCommands
<1>2. r \in -1 .. 2
  BY <1>1 DEF Result, EABORT, DriverOK, DriverData, Endpoint
<1>3. /\ u' = [u EXCEPT !.ep_out = Waited]
      /\ \/ th' = [Off EXCEPT !.pc = "top", !.gen = th.gen, !.armed = FALSE]
         \/ /\ r # -1
            /\ th' = [th EXCEPT !.residue = th.residue - r, !.ended = TRUE, !.st = "phase",
                                !.pc = "end"]
         \/ /\ r = 2
            /\ th' = [th EXCEPT !.residue = th.residue - r, !.n = th.n - 1, !.pc = q]
  BY DEF Receiving, Again, EABORT
<1> HIDE DEF r, q
<1>4. DriverOK(u') /\ ~u'.ep_in.busy /\ ~u'.ep_out.busy
  <2>1. ~IdleEp.busy
    BY DEF IdleEp
  <2> QED BY <1>1, <1>3, <2>1, WaitedOK
<1>5. CASE th' = [Off EXCEPT !.pc = "top", !.gen = th.gen, !.armed = FALSE]
  BY <1>1, <1>4, <1>5, AgainOK DEF StepOK
<1>6. CASE /\ r # -1
           /\ th' = [th EXCEPT !.residue = th.residue - r, !.ended = TRUE, !.st = "phase",
                               !.pc = "end"]
  <2>1. th.residue - r \in 0 .. 6 /\ th.residue - r <= th.c.len /\ "phase" \in Statuses
    BY <1>1, <1>2, <1>6 DEF Statuses
  <2>2. /\ th' \in ThreadData /\ th'.residue = th.residue - r /\ th'.c = th.c /\ th'.n = th.n
        /\ th'.pc = "end"
    <3>1. "end" \in Places
      BY DEF Places
    <3> QED BY <1>1, <1>6, <2>1, <3>1 DEF ThreadData
  <2>3. Task(th')
    BY <1>1, <2>1, <2>2 DEF Task, Progress
  <2> QED BY <1>4, <2>2, <2>3 DEF StepOK, InFlight
<1>7. CASE /\ r = 2
           /\ th' = [th EXCEPT !.residue = th.residue - r, !.n = th.n - 1, !.pc = q]
  <2>1. /\ th.residue - r \in 0 .. 6 /\ th.residue - r <= th.c.len /\ th.n - 1 \in 0 .. 6
        /\ th.n - 1 <= th.c.len
    BY <1>1, <1>7
  <2>2. /\ th' \in ThreadData /\ th'.residue = th.residue - 2 /\ th'.c = th.c
        /\ th'.n = th.n - 1 /\ th'.lba = th.lba /\ th'.pc = q
    <3>1. q \in Places
      BY DEF Places, q
    <3> QED BY <1>1, <1>7, <2>1, <3>1 DEF ThreadData
  <2>3. Task(th')
    BY <1>1, <1>7, <2>1, <2>2 DEF Task, Progress, q
  <2> QED BY <1>4, <2>2, <2>3 DEF StepOK, InFlight, q
<1> QED BY <1>3, <1>5, <1>6, <1>7

LEMMA WriteOK ==
  ASSUME SessionInv, Write
  PROVE  StepOK /\ card' \in [Blocks -> Contents("0")]
<1>1. /\ th.pc = "write" /\ th \in ThreadData /\ th.residue <= th.c.len
      /\ DriverOK(u) /\ ~u.ep_in.busy /\ (th.n <= th.c.len \/ th.n = th.c.n)
      /\ th.residue >= 2 * th.n /\ th.lba + th.n <= 2
      /\ th.n \in 0 .. 6 /\ th.lba \in 0 .. 3 /\ th.residue \in 0 .. 6 /\ th.c.len \in 0 .. 6
      /\ th.cur \in {"0", "1"} /\ card \in [Blocks -> Contents("0")]
  BY DEF Write, At, SessionInv, InFlight, Sends, Task, Progress, ThreadData, AllCommands
<1>2. PICK bad \in {FALSE, CardFails \/ th.err} :
        /\ card' = IF bad THEN card ELSE [card EXCEPT ![th.lba] = u.mem[th.cur]]
        /\ th' = [th EXCEPT !.lba = th.lba + 1, !.cur = Other(th.cur), !.err = bad,
                            !.st = IF th.n = 0 /\ bad THEN "fail" ELSE th.st,
                            !.pc = IF th.n = 0 THEN "end" ELSE "receiving"]
  BY DEF Write
<1>3. u' = u
  BY DEF Write
<1>4. card' \in [Blocks -> Contents("0")]
  <2>1. u.mem[th.cur] \in Contents("0") /\ th.lba \in Blocks
    BY <1>1, TwoPackets DEF DriverOK, BufferNames, Blocks
  <2> QED BY <1>1, <1>2, <2>1
<1>5. /\ th' \in ThreadData /\ th'.residue = th.residue /\ th'.c = th.c /\ th'.n = th.n
      /\ th'.lba = th.lba + 1 /\ th'.pc = IF th.n = 0 THEN "end" ELSE "receiving"
  <2> DEFINE s == IF th.n = 0 /\ bad THEN "fail" ELSE th.st
             p == IF th.n = 0 THEN "end" ELSE "receiving"
             X == [th EXCEPT !.lba = th.lba + 1, !.cur = Other(th.cur), !.err = bad]
  <2>1. s \in Statuses /\ p \in Places
    BY <1>1 DEF Places, Statuses, ThreadData
  <2>2. th.lba + 1 \in 0 .. 3 /\ Other(th.cur) \in {"0", "1"} /\ bad \in BOOLEAN
    <3>1. CardFails \in BOOLEAN /\ th.err \in BOOLEAN
      BY <1>1, UsbAssumption DEF ThreadData
    <3>2. bad \in BOOLEAN
      BY <3>1, Zenon
    <3>3. th.lba + 1 \in 0 .. 3 /\ Other(th.cur) \in {"0", "1"}
      BY <1>1 DEF Other
    <3> QED BY <3>2, <3>3
  <2>3. /\ X \in ThreadData /\ X.residue = th.residue /\ X.c = th.c /\ X.n = th.n
        /\ X.lba = th.lba + 1
    BY <1>1, <2>2 DEF ThreadData
  <2>4. th' = [X EXCEPT !.st = s, !.pc = p]
    BY <1>2 DEF X
  <2> HIDE DEF X, s, p
  <2>5. /\ th' \in ThreadData /\ th'.residue = th.residue /\ th'.c = th.c /\ th'.n = th.n
        /\ th'.lba = th.lba + 1 /\ th'.pc = p
    BY <2>1, <2>3, <2>4 DEF ThreadData
  <2> QED BY <2>5 DEF p
<1>6. Task(th')
  BY <1>1, <1>5 DEF Task, Progress
<1> QED BY <1>1, <1>3, <1>4, <1>5, <1>6 DEF StepOK, InFlight

LEMMA CswOK ==
  ASSUME SessionInv, ~u.ep_in.busy, SendCsw
  PROVE  StepOK
<1> DEFINE T == [th EXCEPT !.pc = "arm_next"]
           p == <<"csw", th.tag, [st |-> th.st, residue |-> th.residue]>>
           v == [u EXCEPT !.mem["small"] = <<p>>]
<1>1. Task(th) /\ DriverOK(u) /\ th.tag \in Nat /\ th.st \in Statuses /\ th.residue \in Nat
  BY DEF SessionInv, Task, ThreadData
<1>2. Send("small", 1, T, v)
  BY DEF SendCsw, To, Small, Csw
<1>3. "small" \in BufferNames /\ 1 \in 0 .. 2 /\ 1 <= Size("small") /\ "arm_next" \in Simple
  BY DEF BufferNames, Size, Simple
<1>4. <<p>> \in Contents("small")
  <2>1. [st |-> th.st, residue |-> th.residue] \in [st : Statuses, residue : Nat]
    BY <1>1
  <2>2. p \in Packet
    BY <1>1, <2>1, Packets
  <2> QED BY <2>2, TwoPackets
<1>5. DriverOK(v) /\ v.ep_in = u.ep_in /\ v.ep_out = u.ep_out
  BY <1>1, <1>3, <1>4, FillOK
<1>6. Task(T) /\ T.pc = "arm_next"
  BY <1>1, <1>3, GotoOK, Zenon
<1> HIDE DEF T, v
<1>7. T.pc \in Sends /\ T.pc # "read_ahead"
  BY <1>6 DEF Sends
<1>8. DriverOK(u') /\ Task(th') /\ InFlight(th', u')
  BY <1>2, <1>3, <1>5, <1>6, <1>7, SendOK
<1> QED BY <1>8 DEF StepOK

LEMMA PartOK ==
  ASSUME NEW n \in 1 .. 6
  PROVE  Part(n) \in 1 .. 2 /\ Part(n) <= n
BY DEF Part

LEMMA EndOK ==
  ASSUME SessionInv, End
  PROVE  StepOK
<1>1. /\ th.pc = "end" /\ Task(th) /\ DriverOK(u) /\ ~u.ep_in.busy
      /\ th \in ThreadData /\ th.residue <= th.c.len /\ th.residue \in 0 .. 6
  BY DEF End, At, SessionInv, InFlight, Sends, Task, ThreadData
<1>2. CASE SendCsw
  BY <1>1, <1>2, CswOK
<1>3. CASE Send("small", 0, To("zlp"), u)
  <2> DEFINE T == [th EXCEPT !.pc = "zlp"]
  <2>1. "small" \in BufferNames /\ 0 \in 0 .. 2 /\ 0 <= Size("small") /\ "zlp" \in Simple
    BY DEF BufferNames, Size, Simple
  <2>2. Task(T) /\ T.pc = "zlp"
    BY <1>1, <2>1, GotoOK, Zenon
  <2>3. Send("small", 0, T, u)
    BY <1>3 DEF To
  <2> HIDE DEF T
  <2>4. T.pc \in Sends /\ T.pc # "read_ahead"
    BY <2>2 DEF Sends
  <2>5. DriverOK(u') /\ Task(th') /\ InFlight(th', u')
    BY <1>1, <2>1, <2>2, <2>3, <2>4, SendOK
  <2> QED BY <2>5 DEF StepOK
<1>4. CASE /\ th.residue # 0
           /\ Receive("0", Part(th.residue), [th EXCEPT !.pc = "drain", !.n = th.residue])
  <2> DEFINE T == [th EXCEPT !.pc = "drain", !.n = th.residue]
  <2>1. th.residue \in 1 .. 6
    BY <1>1, <1>4
  <2>2. /\ T \in ThreadData /\ T.pc = "drain" /\ T.n = th.residue /\ T.residue = th.residue
        /\ T.c = th.c
    BY <1>1 DEF ThreadData, Places
  <2>3. "0" \in BufferNames /\ Part(th.residue) \in 1 .. 2 /\ Part(th.residue) <= Size("0")
    BY <2>1, PartOK DEF BufferNames, Size
  <2>4. Receive("0", Part(th.residue), T)
    BY <1>4
  <2> HIDE DEF T
  <2>5. Task(T) /\ T.pc # "write" /\ Part(th.residue) = Part(T.n)
    BY <1>1, <2>1, <2>2 DEF Task, Progress
  <2>6. DriverOK(u') /\ Task(th') /\ InFlight(th', u')
    BY <1>1, <2>3, <2>4, <2>5, ReceiveOK
  <2> QED BY <2>6 DEF StepOK
<1> QED BY <1>2, <1>3, <1>4 DEF End

LEMMA DrainNextOK ==
  ASSUME SessionInv, DrainNext
  PROVE  StepOK
<1> DEFINE T == [th EXCEPT !.pc = "drain"]
<1>1. /\ th.pc = "drain_next" /\ ~u.ep_in.busy /\ th \in ThreadData
      /\ th.residue <= th.c.len /\ (th.n <= th.c.len \/ th.n = th.c.n)
      /\ th.n \in 1 .. 6 /\ th.n <= th.c.len
  BY DEF DrainNext, At, SessionInv, InFlight, Sends, Task, Progress, ThreadData
<1>2. /\ T \in ThreadData /\ T.pc = "drain" /\ T.n = th.n /\ T.residue = th.residue /\ T.c = th.c
  BY <1>1 DEF ThreadData, Places
<1>3. "0" \in BufferNames /\ Part(th.n) \in 1 .. 2 /\ Part(th.n) <= Size("0")
  BY <1>1, PartOK DEF BufferNames, Size
<1>4. Receive("0", Part(th.n), T)
  BY DEF DrainNext, To
<1> HIDE DEF T
<1>5. Task(T) /\ T.pc # "write" /\ Part(th.n) = Part(T.n)
  BY <1>1, <1>2 DEF Task, Progress
<1>6. DriverOK(u') /\ Task(th') /\ InFlight(th', u')
  BY <1>1, <1>3, <1>4, <1>5, ReceiveOK
<1> QED BY <1>6 DEF StepOK

LEMMA DrainedOK ==
  ASSUME SessionInv, Drained
  PROVE  StepOK
<1> DEFINE r == Result(u.ep_out)
<1>1. /\ th.pc = "drain" /\ th \in ThreadData /\ th.residue <= th.c.len
      /\ DriverOK(u) /\ ~u.ep_in.busy /\ th.n \in 1 .. 6 /\ th.n <= th.c.len
      /\ th.gen \in Nat
      /\ (IF u.ep_out.busy THEN u.ep_out.len = Part(th.n) ELSE u.ep_out.result <= Part(th.n))
  BY DEF Drained, At, SessionInv, InFlight, Sends, Task, Progress, ThreadData
<1>2. Part(th.n) \in 1 .. 2 /\ Part(th.n) <= th.n
  BY <1>1, PartOK
<1>3. r \in -1 .. 2 /\ r <= Part(th.n)
  BY <1>1, <1>2 DEF Result, EABORT, DriverOK, DriverData, Endpoint
<1>4. /\ u' = [u EXCEPT !.ep_out = Waited]
      /\ \/ th' = [Off EXCEPT !.pc = "top", !.gen = th.gen, !.armed = FALSE]
         \/ /\ r # -1
            /\ th' = [th EXCEPT !.n = th.n - r,
                                !.pc = IF th.n - r = 0 \/ r < Part(th.n) THEN "csw" ELSE "drain_next"]
  BY DEF Drained, Again, EABORT
<1> HIDE DEF r
<1>5. DriverOK(u') /\ ~u'.ep_in.busy
  BY <1>1, <1>4, WaitedOK
<1>6. CASE th' = [Off EXCEPT !.pc = "top", !.gen = th.gen, !.armed = FALSE]
  BY <1>1, <1>5, <1>6, AgainOK DEF StepOK
<1>7. CASE /\ r # -1
           /\ th' = [th EXCEPT !.n = th.n - r,
                               !.pc = IF th.n - r = 0 \/ r < Part(th.n) THEN "csw" ELSE "drain_next"]
  <2> DEFINE p == IF th.n - r = 0 \/ r < Part(th.n) THEN "csw" ELSE "drain_next"
  <2>1. th.n - r \in 0 .. 6 /\ th.n - r <= th.n
    BY <1>1, <1>2, <1>3, <1>7
  <2>2. p \in {"csw", "drain_next"} /\ (p = "drain_next" => th.n - r # 0)
    OBVIOUS
  <2>3. th.n - r <= th.c.len
    <3>1. th.c.len \in 0 .. 6
      BY <1>1 DEF ThreadData, AllCommands
    <3> QED BY <1>1, <2>1, <3>1
  <2> HIDE DEF p
  <2>4. p \in Places
    BY <2>2 DEF Places
  <2>5. /\ th' \in ThreadData /\ th'.pc = p /\ th'.n = th.n - r /\ th'.residue = th.residue
        /\ th'.c = th.c
    BY <1>1, <1>7, <2>1, <2>4 DEF ThreadData, p
  <2>6. Task(th')
    BY <1>1, <2>1, <2>2, <2>3, <2>5 DEF Task, Progress
  <2> QED BY <1>5, <2>2, <2>5, <2>6 DEF StepOK, InFlight
<1> QED BY <1>4, <1>6, <1>7

LEMMA StatusOK ==
  ASSUME SessionInv, ZlpSent \/ CswStart \/ ArmNext \/ StatusSent
  PROVE  StepOK
<1>1. /\ Task(th) /\ DriverOK(u) /\ th \in ThreadData /\ th.gen \in Nat /\ th.armed \in BOOLEAN
      /\ th.residue <= th.c.len /\ (th.n <= th.c.len \/ th.n = th.c.n)
  BY DEF SessionInv, Task, ThreadData
<1>2. CASE ZlpSent
  <2> DEFINE T == [th EXCEPT !.pc = "csw"]
  <2>1. "csw" \in Simple /\ Sent(T)
    BY <1>2 DEF ZlpSent, To, Simple
  <2>2. Task(T) /\ T.pc = "csw"
    BY <1>1, <2>1, GotoOK, Zenon
  <2> HIDE DEF T
  <2>3. DriverOK(u') /\ Task(th') /\ InFlight(th', u')
    BY <2>1, <2>2, SentOK
  <2> QED BY <2>3 DEF StepOK
<1>3. CASE CswStart
  <2>1. ~u.ep_in.busy
    BY <1>3 DEF CswStart, At, SessionInv, InFlight, Sends
  <2> QED BY <1>3, <2>1, CswOK DEF CswStart
<1>4. CASE ArmNext
  <2> DEFINE w == usb_bulk_start_out(u, "cbw", 1)
             ok == CanStart(u, th.gen, u.ep_out)
  <2>1. "cbw" \in BufferNames /\ 1 \in 1 .. 2 /\ 1 <= Size("cbw")
    BY DEF BufferNames, Size
  <2>2. DriverOK(w)
    BY <1>1, <2>1, StartOutOK
  <2>3. ok \in BOOLEAN
    BY DEF CanStart, usb_gen_valid
  <2>4. u' = (IF ok THEN w ELSE u) /\ th' = [th EXCEPT !.pc = "status", !.armed = ok]
    BY <1>4 DEF ArmNext
  <2> HIDE DEF w, ok
  <2>5. DriverOK(u')
    BY <1>1, <2>2, <2>4
  <2>6. /\ th' \in ThreadData /\ th'.pc = "status" /\ th'.residue = th.residue /\ th'.c = th.c
        /\ th'.n = th.n
    BY <1>1, <2>3, <2>4 DEF ThreadData, Places
  <2>7. Task(th')
    BY <1>1, <2>6 DEF Task, Progress
  <2> QED BY <2>5, <2>6, <2>7 DEF StepOK, InFlight, Sends
<1>5. CASE StatusSent
  <2>1. /\ u' = [u EXCEPT !.ep_in = Waited]
        /\ th' = [Off EXCEPT !.pc = "top", !.gen = th.gen, !.armed = th.armed]
    BY <1>5 DEF StatusSent, Again
  <2>2. DriverOK(u') /\ ~u'.ep_in.busy
    <3>1. ~IdleEp.busy
      BY DEF IdleEp
    <3> QED BY <1>1, <2>1, <3>1, WaitedOK
  <2> QED BY <1>1, <2>1, <2>2, AgainOK DEF StepOK
<1> QED BY <1>2, <1>3, <1>4, <1>5

-----------------------------------------------------------------------------
(* The steps around the session thread *)

LEMMA ThreadStep ==
  ASSUME SessionInv, MscRun
  PROVE  /\ StepOK /\ card' \in [Blocks -> Contents("0")] /\ th.pc # "off"
         /\ UNCHANGED <<screen, h, counters>>
<1>1. th.pc # "off"
  BY DEF MscRun, Top, Arm, Cbw, HaltIn, HaltOut, Unhalt, Reply, ReadFirst, SendChunk, ReadAhead,
         Sending, ReceiveFirst, Receiving, ReceiveNext, Write, End, ZlpSent, Drained, DrainNext,
         CswStart, ArmNext, StatusSent, At
<1>2. card \in [Blocks -> Contents("0")]
  BY DEF SessionInv
<1>3. CASE Write
  BY <1>1, <1>3, WriteOK DEF Write
<1>4. CASE Top \/ Arm \/ Cbw \/ HaltIn \/ HaltOut \/ Unhalt
  <2>1. StepOK
    BY <1>4, TopOK, ArmOK, CbwOK, HaltOK
  <2>2. UNCHANGED outside
    BY <1>4 DEF Top, Arm, Cbw, HaltIn, HaltOut, Unhalt
  <2> QED BY <1>1, <1>2, <2>1, <2>2 DEF outside
<1>5. CASE Reply \/ ReadFirst \/ SendChunk \/ ReadAhead \/ Sending
  <2>1. StepOK
    BY <1>5, ReplyOK, ReadFirstOK, SendChunkOK, ReadAheadOK, SendingOK
  <2>2. UNCHANGED outside
    BY <1>5 DEF Reply, ReadFirst, SendChunk, ReadAhead, Sending
  <2> QED BY <1>1, <1>2, <2>1, <2>2 DEF outside
<1>6. CASE ReceiveFirst \/ Receiving \/ ReceiveNext \/ End \/ Drained \/ DrainNext
  <2>1. StepOK
    BY <1>6, ReceiveStartOK, ReceivingOK, EndOK, DrainedOK, DrainNextOK
  <2>2. UNCHANGED outside
    BY <1>6 DEF ReceiveFirst, Receiving, ReceiveNext, End, Drained, DrainNext
  <2> QED BY <1>1, <1>2, <2>1, <2>2 DEF outside
<1>7. CASE ZlpSent \/ CswStart \/ ArmNext \/ StatusSent
  <2>1. StepOK
    BY <1>7, StatusOK
  <2>2. UNCHANGED outside
    BY <1>7 DEF ZlpSent, CswStart, ArmNext, StatusSent
  <2> QED BY <1>1, <1>2, <2>1, <2>2 DEF outside
<1> QED BY <1>3, <1>4, <1>5, <1>6, <1>7 DEF MscRun

\* A new session's driver.
LEMMA IdleDriverOK ==
  /\ DriverOK(IdleDriver(Buffers))
  /\ ~IdleDriver(Buffers).ep_in.busy
<1> DEFINE v == IdleDriver(Buffers)
<1>1. InOK(IdleEp) /\ OutOK(IdleEp) /\ IdleEp \in Endpoint /\ ~IdleEp.busy
  <2>1. 0 \in -1 .. 2
    OBVIOUS
  <2> QED BY <2>1, OverOK DEF InOK
<1>2. v \in DriverData /\ v.ep_in = IdleEp /\ v.ep_out = IdleEp /\ v.mem = Buffers
  <2>1. "none" \in Requests
    BY DEF Requests
  <2> QED BY <1>1, <2>1, BuffersOK, Packets DEF IdleDriver, DriverData
<1> HIDE DEF v
<1>3. DriverOK(v) /\ ~v.ep_in.busy
  BY <1>1, <1>2, BuffersOK DEF DriverOK
<1> QED BY <1>3 DEF v

LEMMA CommandsOK ==
  ASSUME NEW i \in 1 .. Len(Commands), NEW c \in Commands[i]
  PROVE  c \in AllCommands
<1>1. Commands \in Seq(SUBSET AllCommands)
  BY UsbAssumption DEF AllCommands
<1>2. Commands[i] \in SUBSET AllCommands
  <2> DEFINE All == SUBSET AllCommands
  <2> HIDE DEF All
  <2>1. Commands \in Seq(All)
    BY <1>1 DEF All
  <2>2. Commands[i] \in All
    BY <2>1, ElementOfSeq
  <2> QED BY <2>2 DEF All
<1> QED BY <1>2

\* The host leaves the driver's transfers to the interrupt.
LEMMA HostTouches ==
  ASSUME SessionInv, Host
  PROVE  DriverOK(u') /\ LaterBoth(u, u')
<1>1. DriverOK(u) /\ u \in DriverData
  BY DEF SessionInv, DriverOK
<1>2. CASE u' = u
  <2>1. u' \in DriverData /\ u'.ep_in = u.ep_in /\ u'.ep_out = u.ep_out /\ u'.mem = u.mem
    BY <1>1, <1>2
  <2> QED BY <1>1, <2>1, SameTransfers, Zenon
<1>3. CASE \E rq \in Requests : u' = [u EXCEPT !.setup = rq]
  <2>1. u' \in DriverData /\ u'.ep_in = u.ep_in /\ u'.ep_out = u.ep_out /\ u'.mem = u.mem
    BY <1>1, <1>3 DEF DriverData
  <2> QED BY <1>1, <2>1, SameTransfers, Zenon
<1>4. CASE u' = [u EXCEPT !.fin = NoPacket, !.fout = NoPacket, !.rx = FALSE, !.setup = "none"]
  <2>1. u' \in DriverData /\ u'.ep_in = u.ep_in /\ u'.ep_out = u.ep_out /\ u'.mem = u.mem
    BY <1>1, <1>4, Packets DEF DriverData, Requests
  <2> QED BY <1>1, <2>1, SameTransfers, Zenon
<1>5. CASE \E p \in Packet : u' = [u EXCEPT !.rx = FALSE, !.pout = TRUE, !.fout = p]
  <2>1. u' \in DriverData /\ u'.ep_in = u.ep_in /\ u'.ep_out = u.ep_out /\ u'.mem = u.mem
    BY <1>1, <1>5 DEF DriverData
  <2> QED BY <1>1, <2>1, SameTransfers, Zenon
<1>6. CASE u' = [u EXCEPT !.fin = NoPacket, !.pin = TRUE]
  <2>1. u' \in DriverData /\ u'.ep_in = u.ep_in /\ u'.ep_out = u.ep_out /\ u'.mem = u.mem
    BY <1>1, <1>6, Packets DEF DriverData
  <2> QED BY <1>1, <2>1, SameTransfers, Zenon
<1>7. SendCbw => \E p \in Packet : u' = [u EXCEPT !.rx = FALSE, !.pout = TRUE, !.fout = p]
  <2> SUFFICES ASSUME SendCbw
               PROVE  \E p \in Packet : u' = [u EXCEPT !.rx = FALSE, !.pout = TRUE, !.fout = p]
    OBVIOUS
  <2>1. sent \in Nat /\ sent' = sent + 1 /\ sent < Len(Commands) /\ Len(Commands) \in Nat
    BY UsbAssumption DEF SendCbw, SessionInv
  <2>2. PICK c \in Commands[sent'] :
          u' = [u EXCEPT !.rx = FALSE, !.pout = TRUE, !.fout = <<"cbw", sent', c>>]
    BY DEF SendCbw
  <2>3. c \in AllCommands
    BY <2>1, CommandsOK
  <2>4. <<"cbw", sent', c>> \in Packet
    BY <2>1, <2>3, Packets
  <2> QED BY <2>2, <2>4
<1>8. SendData => \E p \in Packet : u' = [u EXCEPT !.rx = FALSE, !.pout = TRUE, !.fout = p]
  <2> SUFFICES ASSUME SendData
               PROVE  \E p \in Packet : u' = [u EXCEPT !.rx = FALSE, !.pout = TRUE, !.fout = p]
    OBVIOUS
  <2>1. h.tag \in Nat /\ h.c.len - h.left + 1 \in Nat
    <3>1. h.c.len \in 0 .. 6 /\ h.left \in 0 .. 6 /\ Len(h.rx) \in Nat /\ h.tag \in Nat
      <4>1. h \in HostData /\ h.rx \in Seq(Packet) /\ h.c \in AllCommands
        BY DEF SessionInv, HostOK, HostData
      <4>2. Len(h.rx) \in Nat
        BY <4>1, LenProperties
      <4> QED BY <4>1, <4>2 DEF HostData, AllCommands
    <3>2. h.left <= h.c.len
      <4>1. Len(h.rx) + h.left <= h.c.len
        BY DEF SessionInv, HostOK
      <4> DEFINE k == Len(h.rx)
      <4> HIDE DEF k
      <4>2. k \in Nat /\ k + h.left <= h.c.len
        BY <3>1, <4>1 DEF k
      <4> QED BY <3>1, <4>2
    <3> QED BY <3>1, <3>2
  <2>2. /\ Zlp \in Packet
        /\ <<"data", h.tag, h.c.len - h.left + 1>> \in Packet
    BY <2>1, Packets
  <2>3. \/ u' = [u EXCEPT !.rx = FALSE, !.pout = TRUE, !.fout = Zlp]
        \/ u' = [u EXCEPT !.rx = FALSE, !.pout = TRUE,
                          !.fout = <<"data", h.tag, h.c.len - h.left + 1>>]
    BY DEF SendData
  <2> QED BY <2>2, <2>3
<1>9. TakeData \/ TakeStatus => u' = [u EXCEPT !.fin = NoPacket, !.pin = TRUE]
  BY DEF TakeData, TakeStatus
<1>10. Enumerate \/ Recover => \E rq \in Requests : u' = [u EXCEPT !.setup = rq]
  BY DEF Enumerate, Recover, Control, Requests
<1>11. Stalled => u' = u
  BY DEF Stalled
<1>12. GiveUp \/ Attach =>
         \/ u' = u
         \/ u' = [u EXCEPT !.fin = NoPacket, !.fout = NoPacket, !.rx = FALSE, !.setup = "none"]
  BY DEF GiveUp, Attach, BusReset
<1> QED BY <1>2, <1>3, <1>4, <1>5, <1>6, <1>7, <1>8, <1>9, <1>10, <1>11, <1>12 DEF Host, HostStep

\* The host's own data.
LEMMA HostKeeps ==
  ASSUME SessionInv, Host
  PROVE  HostOK(h') /\ sent' \in Nat
<1>1. /\ h \in HostData /\ Len(h.rx) + h.left <= h.c.len /\ sent \in Nat
      /\ h.pc \in {"data_in", "data_out"} => h.left >= 1
  BY DEF SessionInv, HostOK
<1>2. /\ h.rx \in Seq(Packet) /\ h.left \in 0 .. 6 /\ h.c.len \in 0 .. 6 /\ Len(h.rx) \in Nat
  <2>1. h.rx \in Seq(Packet) /\ h.left \in 0 .. 6 /\ h.c \in AllCommands
    BY <1>1 DEF HostData
  <2>2. Len(h.rx) \in Nat
    BY <2>1, LenProperties
  <2> QED BY <2>1, <2>2 DEF AllCommands
<1> DEFINE Restful == {"gone", "reset", "addressed", "config", "idle", "recover", "clear_in",
                       "clear_out"}
<1>3. CASE SendCbw
  <2>1. sent' = sent + 1 /\ sent < Len(Commands) /\ Len(Commands) \in Nat
    BY <1>3, UsbAssumption DEF SendCbw
  <2>2. PICK c \in Commands[sent'] :
          h' = [pc |-> IF c.len = 0 THEN "status" ELSE IF c.in THEN "data_in" ELSE "data_out",
                c |-> c, tag |-> sent', left |-> c.len, rx |-> <<>>,
                answer |-> "none", residue |-> 0]
    BY <1>3 DEF SendCbw
  <2>3. c \in AllCommands /\ sent' \in Nat
    BY <1>1, <2>1, CommandsOK
  <2>4. c.len \in 0 .. 6
    BY <2>3 DEF AllCommands
  <2>5. <<>> \in Seq(Packet) /\ Len(<<>>) = 0
    OBVIOUS
  <2> DEFINE p == IF c.len = 0 THEN "status" ELSE IF c.in THEN "data_in" ELSE "data_out"
  <2>6. p \in {"status", "data_in", "data_out"} /\ (p # "status" => c.len # 0)
    OBVIOUS
  <2> HIDE DEF p
  <2>7. /\ h' \in HostData /\ h'.pc = p /\ h'.left = c.len /\ h'.c = c /\ h'.rx = <<>>
    BY <2>2, <2>3, <2>4, <2>5, <2>6 DEF HostData, p
  <2>8. HostOK(h')
    BY <2>4, <2>5, <2>6, <2>7 DEF HostOK
  <2> QED BY <2>3, <2>8
<1>4. CASE \E p \in Restful : h' = [h EXCEPT !.pc = p] /\ UNCHANGED sent
  <2>1. PICK p \in Restful : h' = [h EXCEPT !.pc = p]
    BY <1>4
  <2>2. /\ h' \in HostData /\ h'.pc = p /\ h'.left = h.left /\ h'.c = h.c /\ h'.rx = h.rx
    BY <1>1, <2>1 DEF HostData
  <2> QED BY <1>1, <1>4, <2>2 DEF HostOK
<1>5. CASE SendData
  <2>1. PICK early \in {FALSE, HostStops} :
          h' = [h EXCEPT !.left = h.left - 1,
                         !.pc = IF early \/ h.left = 1 THEN "status" ELSE h.pc]
    BY <1>5 DEF SendData
  <2>2. h.pc = "data_out" /\ h.left >= 1 /\ h.left - 1 \in 0 .. 6
    BY <1>1, <1>2, <1>5 DEF SendData
  <2> DEFINE p == IF early \/ h.left = 1 THEN "status" ELSE h.pc
  <2>3. p \in {"status", "data_out"} /\ (p # "status" => h.left # 1)
    BY <2>2
  <2> HIDE DEF p
  <2>4. /\ h' \in HostData /\ h'.pc = p /\ h'.left = h.left - 1 /\ h'.c = h.c /\ h'.rx = h.rx
    BY <1>1, <2>1, <2>2, <2>3 DEF HostData, p
  <2> DEFINE k == Len(h.rx)
  <2>5. Len(h'.rx) = k /\ h'.c.len = h.c.len
    BY <2>4
  <2>6. k + h.left <= h.c.len /\ k \in Nat
    BY <1>1, <1>2
  <2> HIDE DEF k
  <2>7. k + h'.left <= h.c.len
    <3>1. \A a, b, c \in Nat : a + b <= c => a + (b - 1) <= c
      OBVIOUS
    <3>2. h.left \in Nat /\ h.c.len \in Nat
      BY <1>2
    <3>3. k + (h.left - 1) <= h.c.len
      BY <2>6, <3>1, <3>2
    <3> QED BY <2>4, <3>3
  <2>8. h'.pc \in {"data_in", "data_out"} => h'.left >= 1
    <3>1. h.left \in 0 .. 6 /\ h.left # 0
      BY <1>2, <2>2
    <3>2. h.left # 1 => h.left - 1 >= 1
      BY <3>1
    <3>3. CASE p = "status"
      BY <2>4, <3>3
    <3>4. CASE p # "status"
      BY <2>3, <2>4, <3>2, <3>4
    <3> QED BY <3>3, <3>4
  <2>9. HostOK(h')
    BY <2>4, <2>5, <2>7, <2>8 DEF HostOK
  <2> QED BY <1>1, <1>5, <2>9 DEF SendData
<1>6. CASE TakeData
  <2>1. h' = [h EXCEPT !.left = h.left - 1, !.rx = Append(h.rx, u.fin),
                       !.pc = IF Full(u.fin) /\ h.left > 1 THEN h.pc ELSE "status"]
    BY <1>6 DEF TakeData
  <2>2. h.pc = "data_in" /\ h.left >= 1 /\ h.left - 1 \in 0 .. 6
    BY <1>1, <1>2, <1>6 DEF TakeData
  <2>3. Append(h.rx, u.fin) \in Seq(Packet) /\ Len(Append(h.rx, u.fin)) = Len(h.rx) + 1
    <3>1. u.fin \in Packet
      BY DEF SessionInv, DriverOK, DriverData
    <3> QED BY <1>2, <3>1, AppendProperties
  <2> DEFINE p == IF Full(u.fin) /\ h.left > 1 THEN h.pc ELSE "status"
             s == Append(h.rx, u.fin)
  <2>4. p \in {"status", "data_in"} /\ (p # "status" => h.left > 1)
    BY <2>2
  <2> HIDE DEF p, s
  <2>5. s \in Seq(Packet) /\ Len(s) = Len(h.rx) + 1
    BY <2>3 DEF s
  <2>6. /\ h' \in HostData /\ h'.pc = p /\ h'.left = h.left - 1 /\ h'.c = h.c /\ h'.rx = s
    BY <1>1, <2>1, <2>2, <2>4, <2>5 DEF HostData, p, s
  <2>7. HostOK(h')
    BY <1>1, <1>2, <2>2, <2>4, <2>5, <2>6 DEF HostOK
  <2> QED BY <1>1, <1>6, <2>7 DEF TakeData
<1>7. CASE TakeStatus
  <2>1. \/ /\ u.fin[1] = "csw"
           /\ h' = [h EXCEPT !.pc = "idle", !.answer = u.fin[3].st, !.residue = u.fin[3].residue]
        \/ h' = [h EXCEPT !.pc = "recover", !.answer = "stray"]
    BY <1>7 DEF TakeStatus
  <2>2. u.fin[1] = "csw" => u.fin[3].st \in Statuses /\ u.fin[3].residue \in Nat
    <3>1. u.fin \in Packet
      BY DEF SessionInv, DriverOK, DriverData
    <3>2. u.fin[1] = "csw" => u.fin[3] \in [st : Statuses, residue : Nat]
      BY <3>1, Packets
    <3> QED BY <3>2
  <2>3. /\ h' \in HostData /\ h'.pc \in {"idle", "recover"} /\ h'.left = h.left /\ h'.c = h.c
        /\ h'.rx = h.rx
    BY <1>1, <2>1, <2>2 DEF HostData
  <2>4. HostOK(h')
    BY <1>1, <2>3 DEF HostOK
  <2> QED BY <1>1, <1>7, <2>4 DEF TakeStatus
<1>8. Enumerate \/ Recover \/ Stalled \/ GiveUp \/ Attach =>
        \E p \in Restful : h' = [h EXCEPT !.pc = p] /\ UNCHANGED sent
  BY DEF Enumerate, Recover, Stalled, GiveUp, Attach, Control, BusReset
<1> QED BY <1>3, <1>4, <1>5, <1>6, <1>7, <1>8 DEF Host, HostStep

LEMMA SessionInit ==
  Init => SessionInv
<1> SUFFICES ASSUME Init PROVE SessionInv
  OBVIOUS
<1>1. DriverOK(u) /\ ~u.ep_in.busy
  BY IdleDriverOK DEF Init
<1>2. Task(th) /\ InFlight(th, u)
  <2>1. th = Off
    BY DEF Init
  <2>2. Off.pc = "off"
    BY DEF Off
  <2> QED BY <1>1, <2>1, <2>2, OffOK DEF InFlight
<1>3. HostOK(h)
  <2>1. NoCommand \in AllCommands /\ NoCommand.len = 0
    BY DEF NoCommand, AllCommands, Ops
  <2>2. <<>> \in Seq(Packet) /\ Len(<<>>) = 0
    OBVIOUS
  <2>3. /\ h \in HostData /\ h.pc = "gone" /\ h.left = 0 /\ h.c = NoCommand /\ h.rx = <<>>
    BY <2>1, <2>2 DEF Init, HostData
  <2> QED BY <2>1, <2>2, <2>3 DEF HostOK
<1>4. card \in [Blocks -> Contents("0")]
  <2>1. \A b \in Blocks : Old(b) \in Contents("0")
    <3>1. \A b \in Blocks : <<"card", b, 1>> \in Packet /\ <<"card", b, 2>> \in Packet
      BY Packets DEF Blocks
    <3> QED BY <3>1, TwoPackets DEF Old
  <2> QED BY <2>1 DEF Init
<1>5. sent \in Nat /\ ~exited
  BY DEF Init
<1> QED BY <1>1, <1>2, <1>3, <1>4, <1>5 DEF SessionInv

LEMMA SessionStep ==
  SessionInv /\ [Next]_vars => SessionInv'
<1> SUFFICES ASSUME SessionInv, [Next]_vars PROVE SessionInv'
  OBVIOUS
<1>1. /\ DriverOK(u) /\ Task(th) /\ th \in ThreadData /\ InFlight(th, u) /\ HostOK(h)
      /\ sent \in Nat /\ card \in [Blocks -> Contents("0")] /\ (exited => th.pc = "off")
  BY DEF SessionInv, Task
<1>2. CASE Isr
  <2>1. DriverOK(u') /\ LaterBoth(u, u')
    BY <1>1, <1>2, ServiceOK DEF Isr
  <2>2. InFlight(th, u')
    BY <1>1, <2>1, InFlightLater
  <2> QED BY <1>1, <1>2, <2>1, <2>2 DEF Isr, outside, screen, counters, SessionInv
<1>3. CASE Storm
  <2>1. u' \in DriverData /\ u'.ep_in = u.ep_in /\ u'.ep_out = u.ep_out /\ u'.mem = u.mem
    BY <1>1, <1>3 DEF Storm, DriverOK, DriverData
  <2>2. DriverOK(u') /\ LaterBoth(u, u')
    BY <1>1, <2>1, SameTransfers, Zenon
  <2>3. InFlight(th, u')
    BY <1>1, <2>2, InFlightLater
  <2> QED BY <1>1, <1>3, <2>2, <2>3 DEF Storm, outside, screen, counters, SessionInv
<1>4. CASE MscRun
  BY <1>1, <1>4, ThreadStep DEF StepOK, screen, counters, SessionInv
<1>5. CASE HwConnect
  <2>1. th' = [th EXCEPT !.pc = "hw_stop"] \/ th' = [th EXCEPT !.pc = "top"]
    BY <1>5 DEF HwConnect, Goto
  <2>2. "hw_stop" \in Simple /\ "top" \in Simple
    BY DEF Simple
  <2>3. /\ Task([th EXCEPT !.pc = "hw_stop"]) /\ [th EXCEPT !.pc = "hw_stop"].pc = "hw_stop"
        /\ Task([th EXCEPT !.pc = "top"]) /\ [th EXCEPT !.pc = "top"].pc = "top"
    BY <1>1, <2>2, GotoOK, Zenon
  <2>4. Task(th') /\ th'.pc \in {"hw_stop", "top"}
    BY <2>1, <2>3
  <2>5. ~u.ep_in.busy /\ ~exited
    BY <1>1, <1>5 DEF HwConnect, InFlight, Sends
  <2>6. InFlight(th', u)
    BY <2>4, <2>5 DEF InFlight
  <2> QED BY <1>1, <1>5, <2>4, <2>5, <2>6
        DEF HwConnect, outside, screen, counters, SessionInv
<1>6. CASE HwStop
  <2> DEFINE x == bulk_cancel(u)
  <2>1. DriverOK(x) /\ ~x.ep_in.busy
    BY <1>1, CancelOK
  <2>2. u' = [x EXCEPT !.configured = FALSE, !.polled = FALSE, !.setup = "none", !.pin = FALSE,
                       !.pout = FALSE]
    BY <1>6 DEF HwStop
  <2> HIDE DEF x
  <2>3. u' \in DriverData /\ u'.ep_in = x.ep_in /\ u'.ep_out = x.ep_out /\ u'.mem = x.mem
    BY <2>1, <2>2 DEF DriverOK, DriverData, Requests
  <2>4. DriverOK(u') /\ ~u'.ep_in.busy
    BY <2>1, <2>3 DEF DriverOK
  <2>5. th' = Off /\ Off.pc = "off"
    BY <1>6 DEF HwStop, Off
  <2>6. Task(th') /\ InFlight(th', u')
    BY <2>4, <2>5, OffOK DEF InFlight
  <2>7. HostOK(h')
    <3>1. h \in HostData /\ h' = [h EXCEPT !.pc = "gone"]
      BY <1>1, <1>6 DEF HwStop, HostOK
    <3>2. /\ h' \in HostData /\ h'.pc = "gone" /\ h'.left = h.left /\ h'.c = h.c /\ h'.rx = h.rx
      BY <3>1 DEF HostData
    <3> QED BY <1>1, <3>2 DEF HostOK
  <2> QED BY <1>1, <1>6, <2>4, <2>5, <2>6, <2>7 DEF HwStop, counters, SessionInv
<1>7. CASE Enter
  <2>1. CASE running
    BY <1>1, <1>7, <2>1 DEF Enter, counters, SessionInv
  <2>2. CASE ~running
    <3> DEFINE T == [Off EXCEPT !.pc = "starting"]
    <3>1. u' = IdleDriver(Buffers) /\ th' = T /\ ~exited'
      BY <1>7, <2>2 DEF Enter
    <3>2. Task(T) /\ T.pc = "starting"
      BY OffOK DEF ThreadData
    <3> HIDE DEF T
    <3>3. DriverOK(u') /\ ~u'.ep_in.busy
      BY <3>1, IdleDriverOK
    <3>4. Task(th') /\ InFlight(th', u')
      BY <3>1, <3>2, <3>3 DEF InFlight
    <3> QED BY <1>1, <1>7, <3>1, <3>3, <3>4 DEF Enter, counters, SessionInv
  <2> QED BY <2>1, <2>2
<1>8. CASE Leave
  <2>1. u' \in DriverData /\ u'.ep_in = u.ep_in /\ u'.ep_out = u.ep_out /\ u'.mem = u.mem
    BY <1>1, <1>8 DEF Leave, DriverOK, DriverData
  <2>2. DriverOK(u') /\ LaterBoth(u, u')
    BY <1>1, <2>1, SameTransfers, Zenon
  <2>3. InFlight(th, u')
    BY <1>1, <2>2, InFlightLater
  <2> QED BY <1>1, <1>8, <2>2, <2>3 DEF Leave, counters, SessionInv
<1>9. CASE StopCancels
  <2>1. DriverOK(u') /\ LaterBoth(u, u')
    BY <1>1, <1>9, CancelOK DEF StopCancels
  <2>2. InFlight(th, u')
    BY <1>1, <2>1, InFlightLater
  <2> QED BY <1>1, <1>9, <2>1, <2>2 DEF StopCancels, counters, SessionInv
<1>10. CASE StopReturns
  BY <1>1, <1>10 DEF StopReturns, counters, SessionInv
<1>11. CASE Host
  <2>1. DriverOK(u') /\ LaterBoth(u, u') /\ HostOK(h') /\ sent' \in Nat
    BY <1>11, HostTouches, HostKeeps
  <2>2. InFlight(th, u')
    BY <1>1, <2>1, InFlightLater
  <2> QED BY <1>1, <1>11, <2>1, <2>2 DEF Host, screen, SessionInv
<1>12. CASE UNCHANGED vars
  BY <1>1, <1>12 DEF vars, SessionInv
<1> QED BY <1>2, <1>3, <1>4, <1>5, <1>6, <1>7, <1>8, <1>9, <1>10, <1>11, <1>12 DEF Next

LEMMA SessionInvHolds ==
  Spec => []SessionInv
BY SessionInit, SessionStep, PTL DEF Spec

\* What the invariant says about who works on what.
LEMMA OwnBufferHolds ==
  SessionInv => OwnBuffer
<1> SUFFICES ASSUME SessionInv PROVE OwnBuffer
  OBVIOUS
<1>1. /\ DriverOK(u) /\ Task(th) /\ th \in ThreadData /\ InFlight(th, u) /\ HostOK(h)
      /\ card \in [Blocks -> Contents("0")]
  BY DEF SessionInv, Task
<1>2. u.ep_in.done \in 0 .. u.ep_in.len /\ u.ep_out.done \in 0 .. u.ep_out.len
  <2>1. InOK(u.ep_in) /\ OutOK(u.ep_out)
    BY <1>1 DEF DriverOK
  <2> QED BY <2>1 DEF InOK, OutOK, Endpoint
<1>3. th.residue \in 0 .. th.c.len /\ th.n \in 0 .. th.c.len \cup {th.c.n}
  <2>1. th.residue \in 0 .. 6 /\ th.n \in 0 .. 6 /\ th.c.len \in 0 .. 6
    BY <1>1 DEF ThreadData, AllCommands
  <2> QED BY <1>1, <2>1 DEF Task
<1>4. h.left \in 0 .. h.c.len /\ Len(h.rx) <= h.c.len
  <2>1. h.rx \in Seq(Packet) /\ h.left \in 0 .. 6 /\ h.c \in AllCommands
    BY <1>1 DEF HostOK, HostData
  <2> DEFINE k == Len(h.rx)
             m == h.c.len
  <2>2. k \in Nat /\ m \in 0 .. 6
    BY <2>1, LenProperties DEF AllCommands
  <2>3. k + h.left <= m
    BY <1>1 DEF HostOK
  <2> HIDE DEF k, m
  <2>4. h.left \in 0 .. m /\ k <= m
    BY <2>1, <2>2, <2>3
  <2> QED BY <2>4 DEF k, m
<1>5. \A b \in Blocks : Len(card[b]) = 2
  <2>1. \A b \in Blocks : card[b] \in [1 .. 2 -> Packet]
    BY <1>1 DEF Contents, Size
  <2> QED BY <2>1
<1>6. TypeOK
  BY <1>2, <1>3, <1>4, <1>5 DEF TypeOK
<1>7. th.pc = "read_first" => ~u.ep_in.busy
  BY <1>1 DEF InFlight, Sends
<1>8. th.pc = "read_ahead" /\ u.ep_in.busy => u.ep_in.buf # Other(th.cur)
  BY <1>1 DEF InFlight, Other
<1>9. th.pc = "write" /\ u.ep_out.busy => u.ep_out.buf # th.cur
  BY <1>1 DEF InFlight, Other
<1> QED BY <1>6, <1>7, <1>8, <1>9 DEF OwnBuffer

-----------------------------------------------------------------------------
\* Whatever the host sends, whenever it resets the bus, and wherever the interrupt
\* falls: the interrupt never works on the chunk buffer the card is at, and no
\* count of usb_msc_run (residue, blocks left, packets done) leaves its range.
THEOREM BuffersStayApart == Spec => []OwnBuffer
<1>1. SessionInv => OwnBuffer
  BY OwnBufferHolds
<1> QED BY <1>1, SessionInvHolds, PTL

\* With a card that answers within the 10 s of usb_stop, the screen also has the
\* card back only when the session has ended (fs_resume after usb_stop).
THEOREM NothingIsShared ==
  ASSUME SlowCard = FALSE
  PROVE  Spec => []NothingShared
<1> DEFINE I == SessionInv /\ CardReturned
<1>1. Init => I
  <2>1. Init => CardReturned
    BY DEF Init, CardReturned, Off
  <2> QED BY <2>1, SessionInit
<1>2. I /\ [Next]_vars => I'
  <2> SUFFICES ASSUME I, [Next]_vars PROVE I'
    OBVIOUS
  <2>1. SessionInv'
    BY SessionStep
  <2>2. SessionInv /\ (ui = "out" => th.pc = "off") /\ (exited => th.pc = "off")
    BY DEF CardReturned, SessionInv
  <2>3. CASE MscRun
    <3>1. th.pc # "off" /\ ui' = ui
      BY <2>2, <2>3, ThreadStep DEF screen
    <3> QED BY <2>1, <2>2, <3>1 DEF CardReturned
  <2>4. CASE HwStop
    <3>1. th' = Off
      BY <2>4 DEF HwStop
    <3> QED BY <2>1, <3>1 DEF CardReturned, Off
  <2>5. CASE HwConnect
    BY <2>1, <2>2, <2>5 DEF HwConnect, outside, screen, CardReturned
  <2>6. CASE Enter \/ Leave \/ StopCancels
    BY <2>1, <2>6 DEF Enter, Leave, StopCancels, CardReturned
  <2>7. CASE StopReturns
    BY <2>1, <2>2, <2>7 DEF StopReturns, CardReturned
  <2>8. CASE Isr \/ Storm \/ Host \/ UNCHANGED vars
    BY <2>1, <2>2, <2>8 DEF Isr, Storm, Host, vars, outside, screen, CardReturned
  <2> QED BY <2>3, <2>4, <2>5, <2>6, <2>7, <2>8 DEF Next
<1>3. I => NothingShared
  BY OwnBufferHolds DEF NothingShared
<1> HIDE DEF I
<1> QED BY <1>1, <1>2, <1>3, PTL DEF Spec

=============================================================================
