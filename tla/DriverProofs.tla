---------------------------- MODULE DriverProofs ----------------------------
(***************************************************************************)
(* Theorems about the drivers and the parts of the kernel that share no state *)
(* with each other: FatFs's disk interface (DiskCache), the SD driver's block *)
(* transfer (SdCard), the CPU clock governor (CpuFreq), the heap (Heap), the  *)
(* keys (Keys), the DSP driver (Dsp) and the tick (Tickless).  Each has an  *)
(* inductive invariant of its own.                                         *)
(***************************************************************************)
EXTENDS DiskCache, SdCard, CpuFreq, Heap, Keys, Dsp, Tickless, WellFoundedInduction,
        FiniteSetTheorems, SequenceTheorems, TLAPS

(* The read-ahead *)

\* A read-ahead under way stays on the card even when the FAT it was started
\* in has been taken away by HandOver.
FetchOnCard == fetch.at + fetch.size <= Sectors

\* The window is empty while a read-ahead overwrites the buffer.
FetchEmpties == fetch.size > 0 => count = 0

\* What makes the properties inductive.
IInv == TypeOK /\ FetchOnCard /\ FetchEmpties /\ ReadsCurrent /\ InsideFat

\* Every write, to the card and to the window, leaves sector contents in both.
LEMMA WrittenType ==
  ASSUME TypeOK, NEW s \in Sector, NEW e \in s + 1 .. Sectors,
         NEW d \in [s .. e - 1 -> Data]
  PROVE  /\ Written(s, e, d) \in [Sector -> Data]
         /\ Patched(s, e, d) \in [Place -> Data]
  BY DiskAssumption DEF Written, Patched, TypeOK, Sector, Place

\* A read that ended, wholly or in part, leaves sector contents in the buffer.
LEMMA FetchedType ==
  ASSUME TypeOK, FetchOnCard, NEW n \in 0 .. fetch.size
  PROVE  Fetched(n) \in [Place -> Data]
  BY DiskAssumption DEF Fetched, TypeOK, FetchOnCard, Sector, Place

LEMMA InitInv ==
  ASSUME Init
  PROVE  IInv
<1>1. TypeOK
  <2>1. lo \in 0 .. Sectors /\ hi \in 0 .. Sectors
    BY DiskAssumption DEF Init
  <2>2. first \in Sector /\ count \in 0 .. Window /\ fetch \in [at : Sector, size : 0 .. Window]
    BY DiskAssumption DEF Init, NoFetch, Sector
  <2>3. QED
    BY <2>1, <2>2 DEF Init, TypeOK
<1>2. FetchOnCard /\ FetchEmpties /\ InsideFat
  BY DiskAssumption DEF Init, NoFetch, FetchOnCard, FetchEmpties, InsideFat
<1>3. ReadsCurrent
  BY DEF Init, ReadsCurrent, InWindow, Sector
<1>4. QED
  BY <1>1, <1>2, <1>3 DEF IInv

LEMMA ReadMissInv ==
  ASSUME IInv, NEW s \in Sector, ReadMiss(s)
  PROVE  IInv'
<1>1. Ahead(s) \in 1 .. Window /\ s + Ahead(s) <= hi
  BY DiskAssumption DEF IInv, TypeOK, ReadMiss, Ahead, InFat, Sector
<1>2. fetch'.at = s /\ fetch'.size = Ahead(s)
  BY DEF ReadMiss
<1>3. TypeOK'
  BY <1>1, DiskAssumption DEF IInv, TypeOK, ReadMiss, Sector, Place
<1>4. FetchOnCard' /\ FetchEmpties'
  BY <1>1, <1>2, DiskAssumption DEF FetchOnCard, FetchEmpties, ReadMiss, IInv, TypeOK, Sector
<1>5. ReadsCurrent'
  BY DiskAssumption DEF IInv, TypeOK, ReadsCurrent, InWindow, ReadMiss, Sector
<1>6. InsideFat'
  BY <1>1, <1>2, DiskAssumption DEF InsideFat, IInv, TypeOK, ReadMiss, InFat, Sector
<1>7. QED
  BY <1>3, <1>4, <1>5, <1>6 DEF IInv

\* The end of a fetch: the whole window is fresh.
LEMMA ReadDoneInv ==
  ASSUME IInv, ReadDone
  PROVE  IInv'
<1>1. Fetched(fetch.size) \in [Place -> Data]
  BY FetchedType, DiskAssumption DEF IInv, TypeOK, Sector
<1>2. TypeOK' /\ FetchOnCard' /\ FetchEmpties'
  BY <1>1, DiskAssumption
  DEF IInv, TypeOK, ReadDone, NoFetch, Sector, FetchOnCard, FetchEmpties
<1>3. ReadsCurrent'
  <2> SUFFICES ASSUME ~away', NEW s \in Sector, InWindow(s)'
               PROVE  buf'[s - first'] = card'[s]
    BY DEF ReadsCurrent
  <2>1. s - fetch.at \in Place /\ s - fetch.at < fetch.size
    BY DiskAssumption DEF IInv, TypeOK, ReadDone, InWindow, Sector, Place
  <2>2. buf'[s - fetch.at] = card[fetch.at + (s - fetch.at)]
    BY <2>1 DEF ReadDone, Fetched
  <2>3. fetch.at + (s - fetch.at) = s
    BY DEF IInv, TypeOK, Sector
  <2>4. QED
    BY <2>2, <2>3 DEF ReadDone
<1>4. InsideFat'
  BY <1>2 DEF InsideFat, IInv, ReadDone, NoFetch
<1>5. QED
  BY <1>2, <1>3, <1>4 DEF IInv

\* A fetch that failed leaves the window empty.
LEMMA ReadFailsInv ==
  ASSUME IInv, ReadFails
  PROVE  IInv'
<1>1. buf' \in [Place -> Data]
  BY FetchedType DEF IInv, ReadFails
<1>2. TypeOK' /\ FetchOnCard' /\ FetchEmpties'
  BY <1>1, DiskAssumption
  DEF IInv, TypeOK, ReadFails, NoFetch, Sector, FetchOnCard, FetchEmpties
<1>3. ReadsCurrent' /\ InsideFat'
  BY DEF IInv, TypeOK, ReadsCurrent, InsideFat, InWindow, ReadFails, NoFetch, Sector,
         FetchEmpties
<1>4. QED
  BY <1>2, <1>3 DEF IInv

\* A write changes the card and the window in the same places.
LEMMA WriteInv ==
  ASSUME IInv, NEW s \in Sector, NEW e \in s + 1 .. Sectors,
         NEW d \in [s .. e - 1 -> Data], Write(s, e, d)
  PROVE  IInv'
<1>1. card' \in [Sector -> Data] /\ buf' \in [Place -> Data]
  BY WrittenType DEF IInv, Write
<1>2. TypeOK' /\ FetchOnCard' /\ FetchEmpties' /\ InsideFat'
  BY <1>1 DEF IInv, TypeOK, Write, FetchOnCard, FetchEmpties, InsideFat
<1>3. ReadsCurrent'
  <2> SUFFICES ASSUME NEW t \in Sector, InFat(t), InWindow(t)
               PROVE  buf'[t - first] = card'[t]
    BY DEF ReadsCurrent, Write, InFat, InWindow
  <2>1. t - first \in Place /\ t - first < count /\ first + (t - first) = t
    BY DiskAssumption DEF IInv, TypeOK, InWindow, Sector, Place
  <2>2. buf[t - first] = card[t]
    BY DEF IInv, ReadsCurrent, Write, Ready
  <2>3. buf'[t - first] = IF s <= t /\ t < e THEN d[t] ELSE buf[t - first]
    BY <2>1 DEF Write, Patched
  <2>4. card'[t] = IF s <= t /\ t < e THEN d[t] ELSE card[t]
    BY DEF Write, Written
  <2>5. QED
    BY <2>2, <2>3, <2>4
<1>4. QED
  BY <1>2, <1>3 DEF IInv

\* A write that failed empties the window.
LEMMA WriteFailsInv ==
  ASSUME IInv, NEW s \in Sector, NEW e \in s + 1 .. Sectors,
         NEW d \in [s .. e - 1 -> Data], WriteFails(s, e, d)
  PROVE  IInv'
<1>1. card' \in [Sector -> Data] /\ buf' \in [Place -> Data]
  BY WrittenType DEF IInv, WriteFails
<1>2. count' = 0 /\ first' = first /\ fetch' = fetch /\ lo' = lo /\ hi' = hi /\ away' = away
  BY DEF WriteFails
<1>3. TypeOK' /\ FetchOnCard' /\ FetchEmpties' /\ InsideFat'
  BY <1>1, <1>2, DiskAssumption DEF IInv, TypeOK, FetchOnCard, FetchEmpties, InsideFat
<1>4. ReadsCurrent'
  BY <1>2 DEF IInv, TypeOK, ReadsCurrent, InWindow, Sector
<1>5. QED
  BY <1>3, <1>4 DEF IInv

\* Giving the card away promises nothing about the window.
LEMMA HandOverInv ==
  ASSUME IInv, HandOver
  PROVE  IInv'
<1>1. TypeOK' /\ FetchOnCard' /\ FetchEmpties'
  BY DiskAssumption DEF IInv, TypeOK, HandOver, FetchOnCard, FetchEmpties
<1>2. ReadsCurrent' /\ InsideFat'
  BY DEF HandOver, ReadsCurrent, InsideFat
<1>3. QED
  BY <1>1, <1>2 DEF IInv

LEMMA HostWriteInv ==
  ASSUME IInv, NEW s \in Sector, NEW e \in s + 1 .. Sectors,
         NEW d \in [s .. e - 1 -> Data], HostWrite(s, e, d)
  PROVE  IInv'
<1>1. card' \in [Sector -> Data]
  BY WrittenType DEF IInv, HostWrite
<1>2. TypeOK' /\ FetchOnCard' /\ FetchEmpties'
  BY <1>1 DEF IInv, TypeOK, HostWrite, FetchOnCard, FetchEmpties
<1>3. ReadsCurrent' /\ InsideFat'
  BY DEF HostWrite, ReadsCurrent, InsideFat
<1>4. QED
  BY <1>2, <1>3 DEF IInv

\* Taking it back starts with an empty window.
LEMMA TakeBackInv ==
  ASSUME IInv, TakeBack
  PROVE  IInv'
<1>1. lo' \in 0 .. Sectors /\ hi' \in 0 .. Sectors
  BY DiskAssumption DEF TakeBack
<1>2. TypeOK' /\ FetchOnCard' /\ FetchEmpties'
  BY <1>1, DiskAssumption DEF IInv, TypeOK, TakeBack, FetchOnCard, FetchEmpties
<1>3. ReadsCurrent' /\ InsideFat'
  BY DEF IInv, TypeOK, TakeBack, ReadsCurrent, InsideFat, InWindow, Sector
<1>4. QED
  BY <1>2, <1>3 DEF IInv

LEMMA StutterInv ==
  ASSUME IInv, UNCHANGED vars
  PROVE  IInv'
  BY DEF IInv, TypeOK, FetchOnCard, FetchEmpties, ReadsCurrent, InsideFat, InWindow, InFat,
         vars

LEMMA Inductive == IInv /\ [Next]_vars => IInv'
<1> SUFFICES ASSUME IInv, [Next]_vars
             PROVE  IInv'
  OBVIOUS
<1>1. ASSUME NEW s \in Sector, ReadMiss(s)
      PROVE  IInv'
  BY <1>1, ReadMissInv
<1>2. ASSUME ReadDone \/ ReadFails \/ HandOver \/ TakeBack
      PROVE  IInv'
  BY <1>2, ReadDoneInv, ReadFailsInv, HandOverInv, TakeBackInv
<1>3. ASSUME NEW s \in Sector, NEW e \in s + 1 .. Sectors, NEW d \in [s .. e - 1 -> Data],
             Write(s, e, d) \/ WriteFails(s, e, d) \/ HostWrite(s, e, d)
      PROVE  IInv'
  BY <1>3, WriteInv, WriteFailsInv, HostWriteInv
<1>4. QED
  BY <1>1, <1>2, <1>3, StutterInv DEF Next

LEMMA Invariant == Spec => []IInv
  BY InitInv, Inductive, PTL DEF Spec

\* The window is coherent with the card (diskio.c, read_ahead and disk_write):
\* through failed reads and writes, and through any number of USB sessions,
\* FatFs never gets a FAT sector other than the one on the card, and a read-ahead
\* never goes past the end of the FAT it serves.
THEOREM CacheIsCoherent == Spec => []CacheCorrect
<1>1. IInv => CacheCorrect
  BY DEF IInv, CacheCorrect
<1>2. QED
  BY <1>1, Invariant, PTL

\* The read-ahead's data keeps its type.
THEOREM DiskTypeCorrect == Spec => []TypeOK
<1>1. IInv => TypeOK
  BY DEF IInv
<1>2. QED
  BY <1>1, Invariant, PTL
-----------------------------------------------------------------------------
(* The block transfer *)

Points == {"idle", "chunk", "spin", "wait", "stop", "copy", "ready", "tried", "ready_again",
           "done"}
CallData ==
  [pc : Points, write : BOOLEAN, lba : Nat, at : Nat, count : Nat, n : Nat, tries : Nat,
   rc : {0, -1}, ok : BOOLEAN]
DmaData == [on : BOOLEAN, moved : Nat, err : BOOLEAN, complete : BOOLEAN]

SdType ==
  /\ x \in CallData /\ dma \in DmaData
  /\ state \in {"tran", "data", "rcv", "prg"} /\ scan \in BOOLEAN /\ calls \in Nat
  /\ disk \in [0 .. CardBlocks - 1 -> Int] /\ data \in [0 .. CardBlocks - 1 -> Int]
  /\ bounce \in [0 .. MaxBlocks - 1 -> Int]

\* A chunk under way, and one that is over but not looked at.
Flying == x.pc \in {"spin", "wait"}
Chunked == Flying \/ x.pc \in {"stop", "copy", "ready", "tried"}

\* The call stays on the card, its chunk in the call and in BOUNCE.
Extent ==
  /\ x.lba <= x.at /\ x.at + x.count <= CardBlocks
  /\ x.pc \in {"chunk", "ready_again"} \/ Chunked => x.count >= 1
  /\ Chunked => 1 <= x.n /\ x.n <= x.count /\ x.n <= MaxBlocks

\* Blocks of the chunk and their places in BOUNCE and in the caller's buffer.
OnCard(i)  == disk[x.at + i]
InData(i)  == data[x.at - x.lba + i]

\* What the DMA has moved is the same on both sides; "complete" means all of it.
Engine ==
  /\ dma.on => Flying
  /\ dma.complete => dma.on
  /\ dma.on /\ (dma.complete \/ state = "prg") /\ ~dma.err => dma.moved = x.n
  /\ dma.on => dma.moved <= x.n
  /\ dma.on /\ ~dma.err => \A i \in 0 .. dma.moved - 1 : OnCard(i) = bounce[i]

\* What is to be written stays in BOUNCE until the chunk is over.
Staged ==
  x.write /\ (Flying \/ x.pc \in {"stop", "copy"}) => \A i \in 0 .. x.n - 1 : bounce[i] = InData(i)

\* A chunk that went well is on both sides, as far as the copy has come.
Went ==
  x.ok => /\ x.pc \in {"stop", "copy"} => \A i \in 0 .. x.n - 1 : OnCard(i) = bounce[i]
          /\ x.pc \in {"ready", "tried"} => \A i \in 0 .. x.n - 1 : OnCard(i) = InData(i)

\* Where the keypad scans, and where it must not.
Scanning ==
  /\ Moving => Flying
  /\ x.pc = "spin" => ~scan
  /\ x.pc = "wait" /\ x.n > 1 => ~scan
  /\ x.pc = "wait" /\ x.write /\ x.n = 1 => ~Moving
  /\ ~(Flying \/ x.pc \in {"stop", "copy"}) => scan

SdInv == SdType /\ Extent /\ Engine /\ Staged /\ Went /\ Scanning /\ Transferred

LEMMA SdInitInv == SdInit => SdInv
<1> SUFFICES ASSUME SdInit PROVE SdInv
  OBVIOUS
<1>1. x \in CallData /\ x.pc = "idle" /\ x.at = 0 /\ x.lba = 0 /\ x.count = 0 /\ ~x.ok /\ ~x.write
  BY DEF SdInit, Idle, CallData, Points
<1>2. dma \in DmaData /\ ~dma.on /\ ~dma.complete
  BY DEF SdInit, NoDma, DmaData
<1>3. SdType
  <2>1. /\ disk \in [0 .. CardBlocks - 1 -> Int] /\ data \in [0 .. CardBlocks - 1 -> Int]
        /\ bounce \in [0 .. MaxBlocks - 1 -> Int]
    BY SdAssumption DEF SdInit, Junk
  <2> QED BY <1>1, <1>2, <2>1 DEF SdInit, SdType
<1>4. Extent /\ Engine /\ Staged /\ Went /\ Scanning
  BY <1>1, <1>2, SdAssumption
     DEF SdInit, Extent, Chunked, Flying, Engine, Staged, Went, Scanning, Moving
<1>5. Transferred
  BY <1>1 DEF Transferred, Asked
<1> QED BY <1>3, <1>4, <1>5 DEF SdInv

LEMMA CallInv ==
  ASSUME SdInv, Call
  PROVE  SdInv'
<1>1. PICK w \in BOOLEAN, a \in 0 .. CardBlocks - 1 : \E c \in 1 .. CardBlocks - a :
        /\ x' = [Idle EXCEPT !.pc = "chunk", !.write = w, !.lba = a, !.at = a, !.count = c]
        /\ data' = [i \in DOMAIN data |-> IF w THEN calls' ELSE Junk]
  BY DEF Call
<1>2. PICK c \in 1 .. CardBlocks - a :
        /\ x' = [Idle EXCEPT !.pc = "chunk", !.write = w, !.lba = a, !.at = a, !.count = c]
        /\ data' = [i \in DOMAIN data |-> IF w THEN calls' ELSE Junk]
  BY <1>1
<1>3. /\ x.pc = "idle" /\ calls' = calls + 1 /\ UNCHANGED <<disk, state, dma, bounce, scan>>
  BY DEF Call
<1>4. SdType /\ Engine /\ Scanning /\ ~dma.on /\ ~dma.complete /\ ~Moving /\ scan /\ calls' \in Nat
  BY <1>3 DEF SdInv, SdType, Engine, Scanning, Flying, Moving
<1>5. /\ x' \in CallData /\ x'.pc = "chunk" /\ x'.lba = a /\ x'.at = a /\ x'.count = c /\ ~x'.ok
  <2>1. a \in Nat /\ c \in Nat /\ Idle \in CallData /\ ~Idle.ok
    BY SdAssumption DEF Idle, CallData, Points
  <2> QED BY <1>2, <2>1 DEF CallData, Points
<1>6. data' \in [0 .. CardBlocks - 1 -> Int]
  BY <1>2, <1>4 DEF SdType, Junk
<1>7. SdType'
  BY <1>3, <1>4, <1>5, <1>6 DEF SdType
<1>8. Extent' /\ Staged' /\ Went'
  BY <1>5, SdAssumption DEF Extent, Chunked, Flying, Staged, Went
<1>9. Engine' /\ Scanning'
  BY <1>3, <1>4, <1>5 DEF Engine, Scanning, Moving, Flying
<1>10. Transferred'
  BY <1>5 DEF Transferred, Asked
<1> QED BY <1>7, <1>8, <1>9, <1>10 DEF SdInv

LEMMA ChunkInv ==
  ASSUME SdInv, Chunk
  PROVE  SdInv'
<1> DEFINE n == IF x.count > MaxBlocks THEN MaxBlocks ELSE x.count
<1>1. /\ x.pc = "chunk" /\ x' = [x EXCEPT !.pc = "spin", !.n = n] /\ scan' = FALSE
      /\ bounce' = IF x.write
                   THEN [i \in DOMAIN bounce |-> IF i < n THEN data[x.at - x.lba + i] ELSE bounce[i]]
                   ELSE bounce
      /\ UNCHANGED <<disk, data, calls>>
  BY DEF Chunk
<1>2. \/ /\ state = "tran" /\ state' \in {"rcv", "data"}
         /\ dma' = [NoDma EXCEPT !.on = TRUE]
      \/ dma' = [NoDma EXCEPT !.err = TRUE] /\ state' = state
  BY DEF Chunk
<1>3. SdType /\ Extent /\ Transferred
  BY DEF SdInv
<1>4. n \in Nat /\ 1 <= n /\ n <= x.count /\ n <= MaxBlocks
  BY <1>1, <1>3, SdAssumption DEF Extent, SdType, CallData
<1>5. /\ x' \in CallData /\ x'.pc = "spin" /\ x'.n = n /\ x'.at = x.at /\ x'.lba = x.lba
      /\ x'.count = x.count /\ x'.write = x.write
  <2> HIDE DEF n
  <2> QED BY <1>1, <1>3, <1>4 DEF SdType, CallData, Points
<1>6. /\ dma' \in DmaData /\ dma'.moved = 0 /\ ~dma'.complete
      /\ dma'.on => ~dma'.err /\ state' # "prg"
  <2>1. NoDma \in DmaData /\ ~NoDma.on /\ ~NoDma.err /\ ~NoDma.complete /\ NoDma.moved = 0
    BY DEF NoDma, DmaData
  <2> QED BY <1>2, <2>1 DEF DmaData
<1>7. /\ x.at - x.lba \in Nat
      /\ \A i \in 0 .. n - 1 : x.at - x.lba + i \in 0 .. CardBlocks - 1 /\ i \in 0 .. MaxBlocks - 1
  <2>1. \A l, a, c, k, C, M \in Nat :
          l <= a /\ a + c <= C /\ k <= c /\ k <= M =>
            /\ a - l \in Nat
            /\ \A i \in 0 .. k - 1 : a - l + i \in 0 .. C - 1 /\ i \in 0 .. M - 1
    OBVIOUS
  <2>2. /\ x.lba \in Nat /\ x.at \in Nat /\ x.count \in Nat /\ CardBlocks \in Nat
        /\ MaxBlocks \in Nat
    BY <1>3, SdAssumption DEF SdType, CallData
  <2>3. x.lba <= x.at /\ x.at + x.count <= CardBlocks
    BY <1>3 DEF Extent
  <2> HIDE DEF n
  <2> QED BY <1>4, <2>1, <2>2, <2>3
<1> HIDE DEF n
<1>8. bounce' \in [0 .. MaxBlocks - 1 -> Int]
  <2>1. \A i \in 0 .. MaxBlocks - 1 : i < n => i \in 0 .. n - 1
    BY <1>4, SdAssumption
  <2>2. \A i \in 0 .. MaxBlocks - 1 : i < n => data[x.at - x.lba + i] \in Int
    BY <1>3, <1>7, <2>1 DEF SdType
  <2> QED BY <1>1, <1>3, <2>2 DEF SdType
<1>9. x.write => \A i \in 0 .. n - 1 : bounce'[i] = data[x.at - x.lba + i]
  <2> SUFFICES ASSUME x.write, NEW i \in 0 .. n - 1
               PROVE  bounce'[i] = data[x.at - x.lba + i]
    OBVIOUS
  <2>1. i \in DOMAIN bounce /\ i < n
    BY <1>3, <1>4, <1>7 DEF SdType
  <2> QED BY <1>1, <2>1
<1>10. SdType'
  BY <1>1, <1>2, <1>3, <1>5, <1>6, <1>8 DEF SdType
<1>11. Extent'
  <2>1. x.lba <= x.at /\ x.at + x.count <= CardBlocks
    BY <1>3 DEF Extent
  <2>2. x.count >= 1
    BY <1>1, <1>3 DEF Extent
  <2> QED BY <1>4, <1>5, <2>1, <2>2 DEF Extent
<1>12. Engine'
  BY <1>4, <1>5, <1>6 DEF Engine, Flying
<1>13. Staged' /\ Went'
  BY <1>1, <1>5, <1>9 DEF Staged, Went, InData
<1>14. Scanning'
  BY <1>1, <1>5 DEF Scanning, Flying
<1>15. Transferred'
  BY <1>1, <1>3, <1>5 DEF Transferred, Asked
<1> QED BY <1>10, <1>11, <1>12, <1>13, <1>14, <1>15 DEF SdInv

LEMMA SpinOverInv ==
  ASSUME SdInv, SpinOver
  PROVE  SdInv'
<1>1. /\ x.pc = "spin" /\ x' = [x EXCEPT !.pc = "wait"] /\ (x.write /\ x.n = 1 => ~Moving)
      /\ scan' = (IF x.n = 1 THEN TRUE ELSE scan)
      /\ UNCHANGED <<disk, state, dma, bounce, data, calls>>
  BY DEF SpinOver, ResumesInWait
<1>2. SdType /\ Extent /\ Engine /\ Staged /\ Went /\ Scanning /\ Transferred
  BY DEF SdInv
<1>3. /\ x' \in CallData /\ x'.pc = "wait" /\ x'.n = x.n /\ x'.at = x.at /\ x'.lba = x.lba
      /\ x'.count = x.count /\ x'.write = x.write /\ x'.ok = x.ok
  BY <1>1, <1>2 DEF SdType, CallData, Points
<1>4. SdType'
  BY <1>1, <1>2, <1>3 DEF SdType
<1>5. Extent' /\ Engine' /\ Staged' /\ Went'
  BY <1>1, <1>2, <1>3
     DEF Extent, Chunked, Flying, Engine, Staged, Went, OnCard, InData
<1>6. Scanning'
  BY <1>1, <1>2, <1>3 DEF Scanning, Moving, Flying, SdType, CallData
<1>7. Transferred'
  BY <1>1, <1>2, <1>3 DEF Transferred, Asked
<1> QED BY <1>4, <1>5, <1>6, <1>7 DEF SdInv

LEMMA CommandOverInv ==
  ASSUME SdInv, CommandOver
  PROVE  SdInv'
<1> DEFINE p == IF x.n > 1 THEN "stop" ELSE "copy"
           good == Done(dma)
<1>1. /\ x.pc \in {"wait", "spin"} /\ x' = [x EXCEPT !.pc = p, !.ok = good] /\ dma' = NoDma
      /\ scan' = (IF x.pc = "wait" /\ x.n = 1 THEN FALSE ELSE scan)
      /\ UNCHANGED <<disk, state, bounce, data, calls>>
  BY DEF CommandOver, ResumesInWait
<1>2. SdType /\ Extent /\ Engine /\ Staged /\ Went /\ Scanning /\ Transferred
  BY DEF SdInv
<1>3. good \in BOOLEAN /\ (good => dma.complete /\ ~dma.err)
  BY <1>2 DEF Done, SdType, DmaData
<1>4. p \in {"stop", "copy"} /\ p \in Points
  BY DEF Points
<1> HIDE DEF p, good
<1>5. /\ x' \in CallData /\ x'.pc = p /\ x'.n = x.n /\ x'.at = x.at /\ x'.lba = x.lba
      /\ x'.count = x.count /\ x'.write = x.write /\ x'.ok = good
  BY <1>1, <1>2, <1>3, <1>4 DEF SdType, CallData
<1>6. dma' \in DmaData /\ ~dma'.on /\ ~dma'.complete
  BY <1>1 DEF NoDma, DmaData
<1>7. SdType'
  BY <1>1, <1>2, <1>5, <1>6 DEF SdType
<1>8. Extent' /\ Engine' /\ Staged'
  BY <1>1, <1>2, <1>4, <1>5, <1>6 DEF Extent, Chunked, Flying, Engine, Staged, InData
<1>9. Went'
  <2>1. good => \A i \in 0 .. x.n - 1 : OnCard(i) = bounce[i]
    BY <1>2, <1>3 DEF Engine
  <2> QED BY <1>1, <1>4, <1>5, <2>1 DEF Went, OnCard
<1>10. Scanning'
  <2>1. ~Moving'
    BY <1>6 DEF Moving
  <2> QED BY <1>4, <1>5, <2>1 DEF Scanning, Flying
<1>11. Transferred'
  BY <1>1, <1>2, <1>5 DEF Transferred, Asked
<1> QED BY <1>7, <1>8, <1>9, <1>10, <1>11 DEF SdInv

LEMMA StopInv ==
  ASSUME SdInv, Stop
  PROVE  SdInv'
<1>1. /\ x.pc = "stop" /\ x' = [x EXCEPT !.pc = "copy"] /\ state' \in {"tran", state}
      /\ UNCHANGED <<disk, dma, bounce, data, scan, calls>>
  BY DEF Stop, Stopped
<1>2. SdType /\ Extent /\ Engine /\ Staged /\ Went /\ Scanning /\ Transferred
  BY DEF SdInv
<1>3. /\ x' \in CallData /\ x'.pc = "copy" /\ x'.n = x.n /\ x'.at = x.at /\ x'.lba = x.lba
      /\ x'.count = x.count /\ x'.write = x.write /\ x'.ok = x.ok
  BY <1>1, <1>2 DEF SdType, CallData, Points
<1>4. ~dma.on /\ ~dma.complete /\ ~Moving
  BY <1>1, <1>2 DEF Engine, Flying, Moving
<1>5. SdType'
  BY <1>1, <1>2, <1>3 DEF SdType
<1>6. Extent' /\ Engine' /\ Staged' /\ Went'
  BY <1>1, <1>2, <1>3, <1>4
     DEF Extent, Chunked, Flying, Engine, Staged, Went, OnCard, InData
<1>7. Scanning'
  BY <1>1, <1>2, <1>3, <1>4 DEF Scanning, Moving, Flying
<1>8. Transferred'
  BY <1>1, <1>2, <1>3 DEF Transferred, Asked
<1> QED BY <1>5, <1>6, <1>7, <1>8 DEF SdInv

\* The numbers of a chunk of k blocks, of which a are behind it in the call.
LEMMA ChunkNumbers ==
  \A l, a, c, k, C, M \in Nat :
    l <= a /\ a + c <= C /\ k <= c /\ k <= M =>
      /\ a - l \in Nat
      /\ \A i \in 0 .. k - 1 : /\ a - l + i \in 0 .. C - 1 /\ i \in 0 .. M - 1 /\ a + i \in 0 .. C - 1
                               /\ (a - l + i) - (a - l) = i
      /\ \A b \in l .. a - 1 : /\ b \in 0 .. C - 1 /\ b - l \in 0 .. C - 1
                               /\ (b - l) - (a - l) \notin 0 .. k - 1
      /\ \A b \in l .. a + k - 1 : b \notin l .. a - 1 =>
           b - a \in 0 .. k - 1 /\ a + (b - a) = b /\ a - l + (b - a) = b - l
OBVIOUS

LEMMA ChunkPlaces ==
  ASSUME SdType, Extent, Chunked
  PROVE  /\ x.at - x.lba \in Nat
         /\ \A i \in 0 .. x.n - 1 :
              /\ x.at - x.lba + i \in 0 .. CardBlocks - 1 /\ i \in 0 .. MaxBlocks - 1
              /\ x.at + i \in 0 .. CardBlocks - 1 /\ (x.at - x.lba + i) - (x.at - x.lba) = i
         /\ \A b \in x.lba .. x.at - 1 :
              /\ b \in 0 .. CardBlocks - 1 /\ b - x.lba \in 0 .. CardBlocks - 1
              /\ (b - x.lba) - (x.at - x.lba) \notin 0 .. x.n - 1
         /\ \A b \in x.lba .. x.at + x.n - 1 : b \notin x.lba .. x.at - 1 =>
              /\ b - x.at \in 0 .. x.n - 1 /\ x.at + (b - x.at) = b
              /\ x.at - x.lba + (b - x.at) = b - x.lba
<1>1. /\ x.lba \in Nat /\ x.at \in Nat /\ x.count \in Nat /\ CardBlocks \in Nat
      /\ MaxBlocks \in Nat /\ x.n \in Nat
  BY SdAssumption DEF SdType, CallData
<1>2. x.lba <= x.at /\ x.at + x.count <= CardBlocks /\ x.n <= x.count /\ x.n <= MaxBlocks
  BY DEF Extent
<1> QED BY <1>1, <1>2, ChunkNumbers

LEMMA CopyInv ==
  ASSUME SdInv, Copy
  PROVE  SdInv'
<1> DEFINE p == IF x.n > 1 THEN "ready" ELSE "tried"
<1>1. /\ x.pc = "copy" /\ x' = [x EXCEPT !.pc = p] /\ scan' = TRUE
      /\ data' = IF x.ok /\ ~x.write
                 THEN [i \in DOMAIN data |->
                         IF i - (x.at - x.lba) \in 0 .. x.n - 1 THEN bounce[i - (x.at - x.lba)]
                         ELSE data[i]]
                 ELSE data
      /\ UNCHANGED <<disk, state, dma, bounce, calls>>
  BY DEF Copy
<1>2. SdType /\ Extent /\ Engine /\ Staged /\ Went /\ Scanning /\ Transferred
  BY DEF SdInv
<1>3. p \in {"ready", "tried"} /\ p \in Points
  BY DEF Points
<1> HIDE DEF p
<1>4. /\ x' \in CallData /\ x'.pc = p /\ x'.n = x.n /\ x'.at = x.at /\ x'.lba = x.lba
      /\ x'.count = x.count /\ x'.write = x.write /\ x'.ok = x.ok
  BY <1>1, <1>2, <1>3 DEF SdType, CallData
<1>5. ~dma.on /\ ~dma.complete /\ ~Moving
  BY <1>1, <1>2 DEF Engine, Flying, Moving
<1>6. Chunked
  BY <1>1 DEF Chunked
<1> DEFINE f == x.at - x.lba
<1>7. /\ f \in Nat
      /\ \A i \in 0 .. x.n - 1 : /\ f + i \in 0 .. CardBlocks - 1 /\ i \in 0 .. MaxBlocks - 1
                                 /\ (f + i) - f = i
      /\ \A b \in x.lba .. x.at - 1 : b - x.lba \in 0 .. CardBlocks - 1 /\ (b - x.lba) - f \notin 0 .. x.n - 1
  BY <1>2, <1>6, ChunkPlaces
<1>8. DOMAIN data = 0 .. CardBlocks - 1
  BY <1>2 DEF SdType
<1>9. x.ok /\ ~x.write => data' = [i \in 0 .. CardBlocks - 1 |->
                                     IF i - f \in 0 .. x.n - 1 THEN bounce[i - f] ELSE data[i]]
  BY <1>1, <1>8
<1>10. ~(x.ok /\ ~x.write) => data' = data
  BY <1>1
<1> HIDE DEF f
<1>11. data' \in [0 .. CardBlocks - 1 -> Int]
  <2>1. \A j \in 0 .. x.n - 1 : bounce[j] \in Int
    BY <1>2, <1>7 DEF SdType
  <2> QED BY <1>2, <1>9, <1>10, <2>1 DEF SdType
<1>12. x.ok => \A i \in 0 .. x.n - 1 : disk[x.at + i] = data'[f + i]
  <2> SUFFICES ASSUME x.ok, NEW i \in 0 .. x.n - 1
               PROVE  disk[x.at + i] = data'[f + i]
    OBVIOUS
  <2>1. disk[x.at + i] = bounce[i]
    BY <1>1, <1>2 DEF Went, OnCard
  <2>2. CASE x.write
    <3>1. bounce[i] = data[f + i]
      BY <1>1, <1>2, <2>2 DEF Staged, InData, f
    <3> QED BY <1>10, <2>1, <2>2, <3>1
  <2>3. CASE ~x.write
    <3>1. f + i \in 0 .. CardBlocks - 1 /\ (f + i) - f = i
      BY <1>7
    <3>2. data'[f + i] = IF (f + i) - f \in 0 .. x.n - 1 THEN bounce[(f + i) - f] ELSE data[f + i]
      BY <1>9, <2>3, <3>1
    <3> QED BY <2>1, <3>1, <3>2
  <2> QED BY <2>2, <2>3
<1>13. \A b \in x.lba .. x.at - 1 : disk[b] = data'[b - x.lba]
  <2> SUFFICES ASSUME NEW b \in x.lba .. x.at - 1
               PROVE  disk[b] = data'[b - x.lba]
    OBVIOUS
  <2>1. disk[b] = data[b - x.lba]
    BY <1>2 DEF Transferred, Asked
  <2>2. b - x.lba \in 0 .. CardBlocks - 1 /\ (b - x.lba) - f \notin 0 .. x.n - 1
    BY <1>7
  <2> DEFINE k == b - x.lba
  <2> HIDE DEF k
  <2>3. data'[k] = data[k]
    BY <1>9, <1>10, <2>2 DEF k
  <2> QED BY <2>1, <2>3 DEF k
<1>14. SdType'
  BY <1>1, <1>2, <1>4, <1>11 DEF SdType
<1>15. Extent' /\ Engine' /\ Staged'
  BY <1>1, <1>2, <1>3, <1>4, <1>5, <1>6 DEF Extent, Chunked, Flying, Engine, Staged
<1>16. Went'
  BY <1>1, <1>3, <1>4, <1>12 DEF Went, OnCard, InData, f
<1>17. Scanning'
  BY <1>1, <1>3, <1>4, <1>5 DEF Scanning, Moving, Flying
<1>18. Transferred'
  BY <1>1, <1>4, <1>13 DEF Transferred, Asked
<1> QED BY <1>14, <1>15, <1>16, <1>17, <1>18 DEF SdInv

LEMMA TriedInv ==
  ASSUME SdInv, Tried
  PROVE  SdInv'
<1>1. x.pc = "tried" /\ UNCHANGED <<disk, state, dma, bounce, data, scan, calls>>
  BY DEF Tried
<1>2. SdType /\ Extent /\ Engine /\ Staged /\ Went /\ Scanning /\ Transferred
  BY DEF SdInv
<1>3. ~dma.on /\ ~dma.complete /\ ~Moving /\ scan /\ Chunked
  BY <1>1, <1>2 DEF Engine, Flying, Moving, Scanning, Chunked
<1>4. /\ x.lba \in Nat /\ x.at \in Nat /\ x.count \in Nat /\ x.n \in Nat /\ x.tries \in Nat
      /\ x.lba <= x.at /\ x.at + x.count <= CardBlocks /\ x.count >= 1 /\ x.n <= x.count
      /\ CardBlocks \in Nat
  BY <1>2, <1>3, SdAssumption DEF SdType, CallData, Extent
<1>5. CASE x.ok
  <2> DEFINE p == IF x.count = x.n THEN "done" ELSE "chunk"
  <2>1. x' = [x EXCEPT !.at = x.at + x.n, !.count = x.count - x.n, !.tries = 0, !.pc = p]
    BY <1>5 DEF Tried
  <2>2. p \in {"done", "chunk"} /\ p \in Points /\ (p = "chunk" => x.count # x.n)
    BY DEF Points
  <2>3. /\ x.at + x.n \in Nat /\ x.count - x.n \in Nat /\ x.lba <= x.at + x.n
        /\ x.at + x.n + (x.count - x.n) <= CardBlocks
        /\ (x.count # x.n => x.count - x.n >= 1)
    <3>1. \A l, a, c, k, C \in Nat : l <= a /\ a + c <= C /\ k <= c =>
             /\ a + k \in Nat /\ c - k \in Nat /\ l <= a + k /\ a + k + (c - k) <= C
             /\ (c # k => c - k >= 1)
      OBVIOUS
    <3> QED BY <1>4, <3>1
  <2> HIDE DEF p
  <2>4. /\ x' \in CallData /\ x'.pc = p /\ x'.n = x.n /\ x'.at = x.at + x.n /\ x'.lba = x.lba
        /\ x'.count = x.count - x.n /\ x'.write = x.write /\ x'.ok = x.ok
    BY <1>2, <2>1, <2>2, <2>3 DEF SdType, CallData
  <2>5. SdType'
    BY <1>1, <1>2, <2>4 DEF SdType
  <2>6. Extent'
    BY <2>2, <2>3, <2>4 DEF Extent, Chunked, Flying
  <2>7. Engine' /\ Staged' /\ Went' /\ Scanning'
    BY <1>1, <1>3, <2>2, <2>4 DEF Engine, Staged, Went, Scanning, Moving, Flying
  <2>8. \A b \in x.lba .. x.at + x.n - 1 : disk[b] = data[b - x.lba]
    <3> TAKE b \in x.lba .. x.at + x.n - 1
    <3>1. CASE b \in x.lba .. x.at - 1
      BY <1>2, <3>1 DEF Transferred, Asked
    <3>2. CASE b \notin x.lba .. x.at - 1
      <4>1. /\ b - x.at \in 0 .. x.n - 1 /\ x.at + (b - x.at) = b
            /\ x.at - x.lba + (b - x.at) = b - x.lba
        BY <1>2, <1>3, <3>2, ChunkPlaces
      <4> DEFINE i == b - x.at
      <4>2. i \in 0 .. x.n - 1 /\ x.at + i = b /\ x.at - x.lba + i = b - x.lba
        BY <4>1
      <4> HIDE DEF i
      <4>3. disk[x.at + i] = data[x.at - x.lba + i]
        BY <1>1, <1>2, <1>5, <4>2 DEF Went, OnCard, InData
      <4> QED BY <4>2, <4>3
    <3> QED BY <3>1, <3>2
  <2>9. Transferred'
    <3>1. x'.lba = x.lba /\ x'.at = x.at + x.n
      BY <2>4
    <3>2. x'.at - 1 = x.at + x.n - 1
      BY <1>4, <3>1
    <3>3. disk' = disk /\ data' = data
      BY <1>1
    <3> QED BY <2>8, <3>1, <3>2, <3>3 DEF Transferred, Asked
  <2> QED BY <2>5, <2>6, <2>7, <2>9 DEF SdInv
<1>6. CASE ~x.ok
  <2> DEFINE k == IF x.tries < Tries THEN x.tries + 1 ELSE x.tries
  <2>1. \/ x' = [x EXCEPT !.rc = -1, !.pc = "done"]
        \/ x' = [x EXCEPT !.tries = k, !.pc = "ready_again"]
    BY <1>6 DEF Tried
  <2>2. k \in Nat
    BY <1>4
  <2> HIDE DEF k
  <2>3. /\ x' \in CallData /\ x'.pc \in {"done", "ready_again"} /\ x'.n = x.n /\ x'.at = x.at
        /\ x'.lba = x.lba /\ x'.count = x.count /\ x'.write = x.write /\ x'.ok = x.ok
    BY <1>2, <2>1, <2>2 DEF SdType, CallData, Points
  <2>4. SdType'
    BY <1>1, <1>2, <2>3 DEF SdType
  <2>5. Extent'
    BY <1>4, <2>3 DEF Extent, Chunked, Flying
  <2>6. Engine' /\ Staged' /\ Went' /\ Scanning'
    BY <1>1, <1>3, <1>6, <2>3 DEF Engine, Staged, Went, Scanning, Moving, Flying
  <2>7. Transferred'
    BY <1>1, <1>2, <2>3 DEF Transferred, Asked
  <2> QED BY <2>4, <2>5, <2>6, <2>7 DEF SdInv
<1> QED BY <1>5, <1>6

LEMMA WaitReadyInv ==
  ASSUME SdInv, WaitReady
  PROVE  SdInv'
<1> DEFINE p == IF x.pc = "ready" THEN "tried" ELSE "chunk"
<1>1. /\ x.pc \in {"ready", "ready_again"} /\ UNCHANGED <<disk, dma, bounce, data, scan, calls>>
      /\ state' \in {"tran", state} /\ x' \in {[x EXCEPT !.pc = p], x}
  BY DEF WaitReady
<1>2. SdType /\ Extent /\ Engine /\ Staged /\ Went /\ Scanning /\ Transferred
  BY DEF SdInv
<1>3. ~dma.on /\ ~dma.complete /\ ~Moving /\ scan
  BY <1>1, <1>2 DEF Engine, Flying, Moving, Scanning
<1>4. p \in Points /\ (x.pc = "ready" => p = "tried") /\ (x.pc = "ready_again" => p = "chunk")
  BY DEF Points
<1> HIDE DEF p
<1>5. /\ x' \in CallData /\ x'.pc \in {p, x.pc} /\ x'.n = x.n /\ x'.at = x.at
      /\ x'.lba = x.lba /\ x'.count = x.count /\ x'.write = x.write /\ x'.ok = x.ok
  BY <1>1, <1>2, <1>4 DEF SdType, CallData
<1>6. /\ x.pc = "ready" => x'.pc \in {"ready", "tried"}
      /\ x.pc = "ready_again" => x'.pc \in {"ready_again", "chunk"}
  BY <1>1, <1>4, <1>5
<1>7. SdType'
  BY <1>1, <1>2, <1>5 DEF SdType
<1>8. Extent'
  <2>1. x.count >= 1 /\ (x.pc = "ready" => 1 <= x.n /\ x.n <= x.count /\ x.n <= MaxBlocks)
    BY <1>1, <1>2 DEF Extent, Chunked
  <2>2. Chunked' => x.pc = "ready"
    BY <1>1, <1>6 DEF Chunked, Flying
  <2> QED BY <1>2, <1>5, <2>1, <2>2 DEF Extent
<1>9. Engine' /\ Staged' /\ Scanning'
  BY <1>1, <1>3, <1>6 DEF Engine, Staged, Scanning, Moving, Flying
<1>10. Went'
  BY <1>1, <1>2, <1>5, <1>6 DEF Went, OnCard, InData
<1>11. Transferred'
  BY <1>1, <1>2, <1>5 DEF Transferred, Asked
<1> QED BY <1>7, <1>8, <1>9, <1>10, <1>11 DEF SdInv

LEMMA ReturnInv ==
  ASSUME SdInv, Return
  PROVE  SdInv'
<1>1. x.pc = "done" /\ x' = Idle /\ UNCHANGED <<disk, state, dma, bounce, data, scan, calls>>
  BY DEF Return
<1>2. SdType /\ Engine /\ Scanning
  BY DEF SdInv
<1>3. ~dma.on /\ ~dma.complete /\ ~Moving /\ scan
  BY <1>1, <1>2 DEF Engine, Flying, Moving, Scanning
<1>4. /\ x' \in CallData /\ x'.pc = "idle" /\ x'.at = 0 /\ x'.lba = 0 /\ x'.count = 0 /\ ~x'.ok
      /\ ~x'.write
  BY <1>1 DEF Idle, CallData, Points
<1>5. SdType'
  BY <1>1, <1>2, <1>4 DEF SdType
<1>6. Extent' /\ Engine' /\ Staged' /\ Went' /\ Scanning'
  BY <1>1, <1>3, <1>4, SdAssumption
     DEF Extent, Chunked, Flying, Engine, Staged, Went, Scanning, Moving
<1>7. Transferred'
  BY <1>4 DEF Transferred, Asked
<1> QED BY <1>5, <1>6, <1>7 DEF SdInv

\* The place of a block under way.
LEMMA MovingPlace ==
  ASSUME SdInv, Moving
  PROVE  /\ Flying /\ Chunked /\ dma.on /\ ~dma.err /\ ~dma.complete /\ state # "prg"
         /\ dma.moved \in 0 .. MaxBlocks - 1 /\ dma.moved < x.n /\ x.n \in Nat
         /\ x.at + dma.moved \in 0 .. CardBlocks - 1
         /\ \A i \in 0 .. dma.moved - 1 : x.at + i # x.at + dma.moved /\ i # dma.moved
         /\ x.at + dma.moved \notin x.lba .. x.at - 1
<1>1. SdType /\ Extent /\ Engine
  BY DEF SdInv
<1>2. dma.on /\ ~dma.err /\ dma.moved < x.n /\ Flying /\ Chunked
  BY <1>1 DEF Moving, Engine, Chunked
<1>3. dma.moved \in Nat /\ x.n \in Nat /\ x.at \in Nat /\ x.lba \in Nat
  BY <1>1 DEF SdType, CallData, DmaData
<1>4. ~dma.complete /\ state # "prg"
  BY <1>1, <1>2, <1>3 DEF Engine
<1>5. dma.moved \in 0 .. x.n - 1
  BY <1>2, <1>3
<1>6. x.at + dma.moved \in 0 .. CardBlocks - 1 /\ dma.moved \in 0 .. MaxBlocks - 1
  BY <1>1, <1>2, <1>5, ChunkPlaces
<1>7. \A a, k, l \in Nat : (\A i \in 0 .. k - 1 : a + i # a + k /\ i # k) /\ a + k \notin l .. a - 1
  OBVIOUS
<1> QED BY <1>2, <1>3, <1>4, <1>6, <1>7

LEMMA MoveInv ==
  ASSUME SdInv, Move
  PROVE  SdInv'
<1>1. SdType /\ Extent /\ Engine /\ Staged /\ Went /\ Scanning /\ Transferred
  BY DEF SdInv
<1>2. Moving /\ x' = x /\ data' = data /\ scan' = scan /\ calls' = calls
  BY DEF Move
<1> DEFINE k == dma.moved
           here == x.at + k
           last == k + 1 = x.n
           whole == last /\ (~x.write \/ x.n > 1)
           after == IF ~last \/ x.n > 1 THEN state ELSE IF x.write THEN "prg" ELSE "tran"
<1>3. /\ Flying /\ Chunked /\ dma.on /\ ~dma.err /\ ~dma.complete /\ state # "prg"
      /\ k \in 0 .. MaxBlocks - 1 /\ k < x.n /\ x.n \in Nat /\ here \in 0 .. CardBlocks - 1
      /\ \A i \in 0 .. k - 1 : x.at + i # here /\ i # k
      /\ here \notin x.lba .. x.at - 1
  BY <1>2, MovingPlace
<1>4. /\ dma' = [dma EXCEPT !.moved = k + 1, !.complete = whole] /\ state' = after
      /\ \/ x.write /\ disk' = [disk EXCEPT ![here] = bounce[k]] /\ bounce' = bounce
         \/ ~x.write /\ bounce' = [bounce EXCEPT ![k] = disk[here]] /\ disk' = disk
  BY DEF Move
<1>5. /\ after \in {"tran", "data", "rcv", "prg"} /\ (after = "prg" => last)
      /\ whole \in BOOLEAN /\ (whole => last)
  BY <1>1, <1>3 DEF SdType
<1>6. k \in Nat /\ k + 1 \in Nat /\ k + 1 <= x.n /\ (\A i \in 0 .. k + 1 - 1 : i = k \/ i \in 0 .. k - 1)
  <2>1. \A a, b \in Nat : a < b =>
          a + 1 \in Nat /\ a + 1 <= b /\ (\A i \in 0 .. a + 1 - 1 : i = a \/ i \in 0 .. a - 1)
    OBVIOUS
  <2>2. k \in Nat
    BY <1>3
  <2> QED BY <1>3, <2>1, <2>2
<1> HIDE DEF whole, after
<1>7. /\ dma' \in DmaData /\ dma'.on /\ ~dma'.err /\ dma'.moved = k + 1 /\ dma'.complete = whole
  BY <1>1, <1>3, <1>4, <1>5, <1>6 DEF SdType, DmaData
<1>8. /\ \A b \in 0 .. CardBlocks - 1 : b # here => disk'[b] = disk[b]
      /\ \A i \in 0 .. MaxBlocks - 1 : i # k => bounce'[i] = bounce[i]
      /\ disk'[here] = bounce'[k]
      /\ x.write => bounce' = bounce
      /\ disk' \in [0 .. CardBlocks - 1 -> Int] /\ bounce' \in [0 .. MaxBlocks - 1 -> Int]
  BY <1>1, <1>3, <1>4 DEF SdType
<1>9. SdType'
  BY <1>1, <1>2, <1>4, <1>5, <1>7, <1>8 DEF SdType
<1>10. Extent'
  BY <1>1, <1>2 DEF Extent, Chunked, Flying
<1>11. \A i \in 0 .. k : disk'[x.at + i] = bounce'[i]
  <2> TAKE i \in 0 .. k
  <2>1. CASE i = k
    BY <1>8, <2>1
  <2>2. CASE i # k
    <3>1. i \in 0 .. k - 1
      BY <1>6, <2>2
    <3>2. i \in 0 .. x.n - 1
      BY <1>3, <1>6, <3>1
    <3>3. x.at + i \in 0 .. CardBlocks - 1 /\ i \in 0 .. MaxBlocks - 1
      BY <1>1, <1>3, <3>2, ChunkPlaces
    <3>4. disk[x.at + i] = bounce[i]
      BY <1>1, <1>3, <3>1 DEF Engine, OnCard
    <3>5. x.at + i # here
      BY <1>3, <3>1
    <3>6. disk'[x.at + i] = disk[x.at + i] /\ bounce'[i] = bounce[i]
      BY <1>8, <2>2, <3>3, <3>5
    <3> QED BY <3>4, <3>6
  <2> QED BY <2>1, <2>2
<1>12. Engine'
  <2>1. (dma.on => Flying)' /\ (dma.complete => dma.on)'
    BY <1>2, <1>3, <1>7 DEF Flying
  <2>2. (dma.on /\ (dma.complete \/ state = "prg") /\ ~dma.err => dma.moved = x.n)'
    BY <1>2, <1>4, <1>5, <1>7
  <2>3. (dma.on => dma.moved <= x.n)'
    BY <1>2, <1>6, <1>7
  <2>4. dma'.moved - 1 = k /\ x' = x
    BY <1>2, <1>6, <1>7
  <2>5. (dma.on /\ ~dma.err => \A i \in 0 .. dma.moved - 1 : OnCard(i) = bounce[i])'
    BY <1>11, <2>4 DEF OnCard
  <2> QED BY <2>1, <2>2, <2>3, <2>5 DEF Engine
<1>13. Staged'
  BY <1>1, <1>2, <1>8 DEF Staged, Flying, InData
<1>14. Went'
  BY <1>2, <1>3 DEF Went, Flying
<1>15. Scanning'
  BY <1>1, <1>2, <1>3 DEF Scanning, Flying
<1>16. Transferred'
  <2> SUFFICES ASSUME NEW b \in x.lba .. x.at - 1
               PROVE  disk'[b] = data[b - x.lba]
    BY <1>2 DEF Transferred, Asked
  <2>1. b \in 0 .. CardBlocks - 1
    BY <1>1, <1>3, ChunkPlaces
  <2> QED BY <1>1, <1>3, <1>8, <2>1 DEF Transferred, Asked
<1> QED BY <1>9, <1>10, <1>12, <1>13, <1>14, <1>15, <1>16 DEF SdInv

LEMMA BlockFailsInv ==
  ASSUME SdInv, BlockFails
  PROVE  SdInv'
<1>1. SdType /\ Extent /\ Engine /\ Staged /\ Went /\ Scanning /\ Transferred
  BY DEF SdInv
<1>2. Moving /\ x' = x /\ disk' = disk /\ data' = data /\ scan' = scan /\ calls' = calls
  BY DEF BlockFails
<1> DEFINE k == dma.moved
           whole == k + 1 = x.n /\ ~x.write
           after == IF x.n = 1 THEN "tran" ELSE state
           read == IF x.write THEN bounce ELSE [bounce EXCEPT ![k] = Junk]
<1>3. /\ Flying /\ Chunked /\ dma.on /\ ~dma.err /\ ~dma.complete
      /\ k \in 0 .. MaxBlocks - 1 /\ k < x.n
  BY <1>2, MovingPlace
<1>4. /\ dma' = [dma EXCEPT !.err = TRUE, !.complete = whole] /\ state' = after /\ bounce' = read
  BY DEF BlockFails
<1>5. /\ after \in {"tran", "data", "rcv", "prg"} /\ whole \in BOOLEAN
      /\ (x.write => read = bounce) /\ read \in [0 .. MaxBlocks - 1 -> Int]
  BY <1>1, <1>3 DEF SdType, Junk
<1> HIDE DEF whole, after, read
<1>6. /\ dma' \in DmaData /\ dma'.on /\ dma'.err /\ dma'.moved = k /\ dma'.complete = whole
  BY <1>1, <1>3, <1>4, <1>5 DEF SdType, DmaData
<1>7. SdType'
  BY <1>1, <1>2, <1>4, <1>5, <1>6 DEF SdType
<1>8. Extent'
  BY <1>1, <1>2 DEF Extent, Chunked, Flying
<1>9. Engine'
  BY <1>1, <1>2, <1>3, <1>6 DEF Engine, Flying
<1>10. Staged' /\ Went'
  BY <1>1, <1>2, <1>3, <1>4, <1>5 DEF Staged, Went, Flying, InData
<1>11. Scanning'
  BY <1>1, <1>2, <1>3, <1>6 DEF Scanning, Flying, Moving
<1>12. Transferred'
  BY <1>1, <1>2 DEF Transferred, Asked
<1> QED BY <1>7, <1>8, <1>9, <1>10, <1>11, <1>12 DEF SdInv

LEMMA ProgrammedInv ==
  ASSUME SdInv, Programmed
  PROVE  SdInv'
<1>1. SdType /\ Extent /\ Engine /\ Staged /\ Went /\ Scanning /\ Transferred
  BY DEF SdInv
<1>2. /\ state = "prg" /\ state' = "tran"
      /\ UNCHANGED <<x, disk, bounce, data, scan, calls>>
      /\ dma' = IF dma.on THEN [dma EXCEPT !.complete = TRUE] ELSE dma
  BY DEF Programmed
<1>3. /\ dma' \in DmaData /\ dma'.on = dma.on /\ dma'.err = dma.err /\ dma'.moved = dma.moved
      /\ (dma'.complete => dma.on)
  <2>1. CASE dma.on
    BY <1>1, <1>2, <2>1 DEF SdType, DmaData
  <2>2. CASE ~dma.on
    BY <1>1, <1>2, <2>2 DEF SdType, Engine
  <2> QED BY <2>1, <2>2
<1>4. SdType'
  BY <1>1, <1>2, <1>3 DEF SdType
<1>5. Extent'
  BY <1>1, <1>2 DEF Extent, Chunked, Flying
<1>6. Engine'
  BY <1>1, <1>2, <1>3 DEF Engine, Flying, OnCard
<1>7. Staged' /\ Went' /\ Scanning'
  BY <1>1, <1>2, <1>3 DEF Staged, Went, Scanning, Flying, Moving, OnCard, InData
<1>8. Transferred'
  BY <1>1, <1>2 DEF Transferred, Asked
<1> QED BY <1>4, <1>5, <1>6, <1>7, <1>8 DEF SdInv

LEMMA DropsInv ==
  ASSUME SdInv, Drops \/ UNCHANGED sdvars
  PROVE  SdInv'
<1>1. SdType /\ Extent /\ Engine /\ Staged /\ Went /\ Scanning /\ Transferred
  BY DEF SdInv
<1>2. /\ state' \in {state, "tran"} /\ UNCHANGED <<x, disk, dma, bounce, data, scan, calls>>
  BY DEF Drops, sdvars
<1>3. SdType' /\ Extent'
  BY <1>1, <1>2 DEF SdType, Extent, Chunked, Flying
<1>4. Engine'
  BY <1>1, <1>2 DEF Engine, Flying, OnCard
<1>5. Staged' /\ Went' /\ Scanning'
  BY <1>1, <1>2 DEF Staged, Went, Scanning, Flying, Moving, OnCard, InData
<1>6. Transferred'
  BY <1>1, <1>2 DEF Transferred, Asked
<1> QED BY <1>3, <1>4, <1>5, <1>6 DEF SdInv

LEMMA SdInductive == SdInv /\ [SdNext]_sdvars => SdInv'
<1> SUFFICES ASSUME SdInv, [SdNext]_sdvars PROVE SdInv'
  OBVIOUS
<1>1. CASE Call
  BY <1>1, CallInv
<1>2. CASE Chunk
  BY <1>2, ChunkInv
<1>3. CASE SpinOver
  BY <1>3, SpinOverInv
<1>4. CASE CommandOver
  BY <1>4, CommandOverInv
<1>5. CASE Stop
  BY <1>5, StopInv
<1>6. CASE Copy
  BY <1>6, CopyInv
<1>7. CASE Tried
  BY <1>7, TriedInv
<1>8. CASE WaitReady
  BY <1>8, WaitReadyInv
<1>9. CASE Return
  BY <1>9, ReturnInv
<1>10. CASE Move
  BY <1>10, MoveInv
<1>11. CASE BlockFails
  BY <1>11, BlockFailsInv
<1>12. CASE Programmed
  BY <1>12, ProgrammedInv
<1>13. CASE Drops \/ UNCHANGED sdvars
  BY <1>13, DropsInv
<1> QED BY <1>1, <1>2, <1>3, <1>4, <1>5, <1>6, <1>7, <1>8, <1>9, <1>10, <1>11, <1>12, <1>13
        DEF SdNext, Driver, Hardware

\* Whatever fails on the way (a command, a block, the card's answer, the wait for
\* it) a call of sd_read or sd_write is right about the blocks it counts as done,
\* and the keypad scans when it may and whenever no call is under way.
THEOREM TransfersAreSafe == SdSpec => []TransferSafe
<1>1. SdInv => TransferSafe
  <2> SUFFICES ASSUME SdInv PROVE ScanPaused /\ Transferred
    BY DEF TransferSafe
  <2>1. SdType /\ Extent /\ Engine /\ Scanning /\ Transferred
    BY DEF SdInv
  <2>2. Moving /\ (x.write \/ x.n > 1) => ~scan
    <3> SUFFICES ASSUME Moving, x.write \/ x.n > 1 PROVE ~scan
      OBVIOUS
    <3>1. x.pc \in {"spin", "wait"} /\ x.n >= 1 /\ x.n \in Nat
      BY <2>1 DEF Scanning, Flying, Extent, Chunked, SdType, CallData
    <3> QED BY <2>1, <3>1 DEF Scanning
  <2>3. x.pc \in {"idle", "done"} => scan
    BY <2>1 DEF Scanning, Flying
  <2> QED BY <2>1, <2>2, <2>3 DEF ScanPaused
<1> QED BY <1>1, SdInitInv, SdInductive, PTL DEF SdSpec
-----------------------------------------------------------------------------
(* The clock *)

\* What the clock register holds: the level's values, or the one value between 104
\* and 208 MHz, at which the AHB runs at half of the lower.
Between == ctl.mhz = 104 /\ ctl.half
Exact   == ctl.mhz = Mhz(level) /\ (ctl.half <=> Half(level))
Register ==
  \/ Exact
  \/ Between /\ level = 1 /\ goal = 2
  \/ Between /\ level = 2 /\ goal < 2

\* The holds are counted, the low level is allowed exactly while the panel is off,
\* and the clock only goes to 26 MHz when both let it.
FreqInv ==
  /\ FreqTypeOK /\ Register
  /\ IsFiniteSet(held) /\ holds = Cardinality(held)
  /\ lowOk <=> panel = "off"
  /\ goal = 0 => held = {} /\ lowOk

\* A level that was asked for is raised to what the holds and the panel need.
LEMMA AppliedFloor ==
  ASSUME NEW want \in 0 .. 2, NEW m \in {"auto", "max"}, NEW h \in Nat, NEW low \in BOOLEAN
  PROVE  /\ Applied(want, m, h, low) \in 0 .. 2
         /\ Applied(want, m, h, low) = 0 => h = 0 /\ low
BY DEF Applied, FloorLevel

\* Nobody holds the clock exactly when the count is 0.
LEMMA HoldsZero ==
  ASSUME NEW S, IsFiniteSet(S)
  PROVE  Cardinality(S) \in Nat /\ (Cardinality(S) = 0 <=> S = {})
BY FS_EmptySet, FS_CardinalityType

LEMMA Levels ==
  /\ Mhz(0) = 26 /\ Mhz(1) = 104 /\ Mhz(2) = 208
  /\ ~Half(0) /\ ~Half(1) /\ Half(2)
BY DEF Mhz, Half

LEMMA FreqInitInv == FreqInit => FreqInv
<1> SUFFICES ASSUME FreqInit PROVE FreqInv
  OBVIOUS
<1>1. FreqTypeOK
  <2>1. quiet \in 0 .. Quiet104 - 1
    BY CpuFreqAssumption DEF FreqInit
  <2>2. ctl \in [mhz : {26, 104, 208}, half : BOOLEAN] /\ lowOk \in BOOLEAN
    BY DEF FreqInit
  <2> QED BY <2>1, <2>2 DEF FreqInit, FreqTypeOK
<1>2. Exact
  BY Levels DEF FreqInit, Exact
<1>3. IsFiniteSet(held) /\ holds = Cardinality(held)
  BY FS_EmptySet DEF FreqInit
<1> QED BY <1>1, <1>2, <1>3 DEF FreqInit, FreqInv, Register

LEMMA FreqNextInv == FreqInv /\ [FreqNext]_freqvars => FreqInv'
<1> SUFFICES ASSUME FreqInv, [FreqNext]_freqvars PROVE FreqInv'
  OBVIOUS
<1> USE DEF FreqInv
<1>0. holds \in Nat /\ (holds = 0 <=> held = {})
  BY HoldsZero
<1>1. CASE StepUp
  <2>1. UNCHANGED <<mode, holds, lowOk, quiet, goal, held, panel>> /\ level < goal
    BY <1>1 DEF StepUp, governor
  <2>2. level \in {0, 1} /\ goal \in 1 .. 2
    BY <2>1 DEF FreqTypeOK
  <2>3. CASE level = 0
    <3>1. level' = 1 /\ ctl' = [ctl EXCEPT !.mhz = 104] /\ Exact
      BY Levels, <1>1, <2>3, <2>2 DEF StepUp, Register
    <3> QED BY Levels, <3>1, <2>1, <2>2, <2>3 DEF FreqTypeOK, Register, Exact
  <2>4. CASE level = 1 /\ ~ctl.half
    <3>1. level' = 1 /\ ctl' = [ctl EXCEPT !.half = TRUE] /\ Exact
      BY Levels, <1>1, <2>4, <2>2 DEF StepUp, Register, Between
    <3>2. goal = 2
      BY <2>1, <2>2, <2>4
    <3> QED BY Levels, <3>1, <3>2, <2>1, <2>4, ZenonT(60) DEF FreqTypeOK, Register, Exact, Between
  <2>5. CASE level = 1 /\ ctl.half
    <3>1. level' = 2 /\ ctl' = [ctl EXCEPT !.mhz = 208]
      BY Levels, <1>1, <2>5, <2>2 DEF StepUp
    <3>2. Between
      BY Levels, <2>5 DEF Register, Exact
    <3> QED BY Levels, <3>1, <3>2, <2>1, <2>2, <2>5 DEF FreqTypeOK, Register, Exact, Between
  <2> QED BY <2>2, <2>3, <2>4, <2>5
<1>2. CASE StepDown
  <2>1. UNCHANGED <<mode, holds, lowOk, quiet, goal, held, panel>> /\ level > goal
    BY <1>2 DEF StepDown, governor
  <2>2. level \in {1, 2} /\ goal \in 0 .. 1
    BY <2>1 DEF FreqTypeOK
  <2>3. CASE level = 1
    <3>1. Exact
      BY <2>3, <2>2 DEF Register
    <3>2. ctl.mhz = 104 /\ ctl.half = FALSE /\ Half(0) = FALSE
      BY Levels, <3>1, <2>3 DEF Exact, FreqTypeOK, Half
    <3>3. level' = 0 /\ ctl' = [ctl EXCEPT !.mhz = 26]
      <4>1. level - 1 = 0 /\ Mhz(0) = 26 /\ ctl.mhz # 26
        BY Levels, <2>3, <3>2
      <4>2. ctl' = [ctl EXCEPT !.mhz = Mhz(0)] /\ level' = IF ctl.half = Half(0) THEN 0 ELSE level
        BY <1>2, <4>1 DEF StepDown
      <4> QED BY <3>2, <4>1, <4>2
    <3>4. ctl'.mhz = 26 /\ ctl'.half = FALSE /\ ctl' \in [mhz : {26, 104, 208}, half : BOOLEAN]
      BY <3>2, <3>3 DEF FreqTypeOK
    <3>5. Exact'
      BY Levels, <3>3, <3>4 DEF Exact
    <3>6. FreqTypeOK'
      BY <3>3, <3>4, <2>1 DEF FreqTypeOK
    <3>7. goal' = 0 => held' = {} /\ lowOk'
      BY <2>1
    <3> QED BY <3>5, <3>6, <3>7, <2>1 DEF Register
  <2>4. CASE level = 2 /\ ctl.mhz # 104
    <3>1. level' = 2 /\ ctl' = [ctl EXCEPT !.mhz = 104] /\ Exact
      BY Levels, <1>2, <2>4, <2>2 DEF StepDown, Register, Between, Exact
    <3> QED BY Levels, <3>1, <2>1, <2>2, <2>4 DEF FreqTypeOK, Register, Exact, Between
  <2>5. CASE level = 2 /\ ctl.mhz = 104
    <3>1. level' = 1 /\ ctl' = [ctl EXCEPT !.half = FALSE]
      <4>1. Half(1) = FALSE /\ level - 1 = 1
        BY <2>5 DEF Half
      <4> QED BY Levels, <1>2, <2>5, <2>2, <4>1 DEF StepDown
    <3>2. ctl'.mhz = 104 /\ ctl'.half = FALSE /\ ctl' \in [mhz : {26, 104, 208}, half : BOOLEAN]
      BY <3>1, <2>5 DEF FreqTypeOK
    <3>3. Exact'
      BY Levels, <3>1, <3>2 DEF Exact
    <3>4. FreqTypeOK'
      BY <3>1, <3>2, <2>1 DEF FreqTypeOK
    <3> QED BY <3>3, <3>4, <2>1 DEF Register
  <2> QED BY <2>2, <2>3, <2>4, <2>5
\* A call that asks for a level while the clock is settled.
<1>3. ASSUME NEW want \in 0 .. 2, Settled, UNCHANGED <<level, ctl>>,
             goal' = Applied(want, mode', holds', lowOk'),
             mode' \in {"auto", "max"}, lowOk' \in BOOLEAN, lowOk' <=> panel' = "off", quiet' \in 0 .. Quiet104 - 1,
             held' \subseteq User, panel' \in {"on", "off", "waking"},
             IsFiniteSet(held'), holds' = Cardinality(held')
      PROVE  FreqInv'
  <2>1. holds' \in Nat
    BY <1>3, HoldsZero
  <2>2. goal' \in 0 .. 2 /\ (goal' = 0 => holds' = 0 /\ lowOk')
    BY <1>3, <2>1, AppliedFloor
  <2>3. Exact
    BY <1>3 DEF Settled, Register
  <2>4. Register'
    BY <1>3, <2>3 DEF Register, Exact
  <2>5. goal' = 0 => held' = {}
    BY <1>3, <2>2, HoldsZero
  <2>6. FreqTypeOK'
    BY <1>3, <2>1, <2>2 DEF FreqTypeOK
  <2> QED BY <1>3, <2>2, <2>4, <2>5, <2>6
<1>4. ASSUME NEW b \in Busy, cpufreq_window(b) PROVE FreqInv'
  <2>1. level \in 0 .. 2 /\ quiet \in 0 .. Quiet104 - 1 /\ b \in 0 .. 1000
    BY CpuFreqAssumption DEF FreqTypeOK
  <2>2. Wanted(b) \in 0 .. 2
    BY <2>1 DEF Wanted, IsQuiet
  <2>3. QuietAfter(b) \in 0 .. Quiet104 - 1
    BY <2>1, CpuFreqAssumption DEF QuietAfter, QuietLimit
  <2> QED BY <1>4, <1>3, <2>2, <2>3 DEF cpufreq_window, FreqTypeOK
<1>5. ASSUME NEW m \in {"auto", "max"}, SetMode(m) PROVE FreqInv'
  BY <1>5, <1>3 DEF SetMode, FreqTypeOK
<1>6. ASSUME NEW u \in User, HoldClock(u) PROVE FreqInv'
  <2>1. IsFiniteSet(held') /\ holds' = Cardinality(held')
    BY <1>6, FS_AddElement DEF HoldClock
  <2> QED BY <1>6, <1>3, <2>1 DEF HoldClock, FreqTypeOK
<1>7. ASSUME NEW u \in User, ReleaseClock(u) PROVE FreqInv'
  <2>1. IsFiniteSet(held') /\ Cardinality(held') = holds - 1 /\ holds > 0
    BY <1>7, <1>0, FS_RemoveElement DEF ReleaseClock
  <2>2. holds' = Cardinality(held')
    BY <1>7, <2>1 DEF ReleaseClock
  <2>3. UNCHANGED <<mode, lowOk, quiet, level, ctl, goal, panel>> /\ held' \subseteq held
    BY <1>7 DEF ReleaseClock, clockvars
  <2>4. holds' \in Nat
    BY <2>1, <2>2, HoldsZero
  <2> QED BY <2>1, <2>2, <2>3, <2>4 DEF FreqTypeOK, Register, Exact, Between
<1>8. CASE PanelOff
  BY <1>8, <1>3 DEF PanelOff, AllowLow, FreqTypeOK
<1>9. CASE PanelWake
  BY <1>9, <1>3 DEF PanelWake, AllowLow, FreqTypeOK
<1>10. CASE PanelOn
  BY <1>10 DEF PanelOn, FreqTypeOK, Register, Exact, Between, governor, clockvars
<1>11. CASE UNCHANGED <<governor, clockvars, held, panel>>
  BY <1>11 DEF FreqTypeOK, Register, Exact, Between, governor, clockvars
<1>12. CASE (\E us \in DelayTimes : DelayStart(us)) \/ DelayCount \/ DelayDone
  BY <1>12, <1>11 DEF DelayStart, DelayCount, DelayDone
<1> QED BY <1>1, <1>2, <1>4, <1>5, <1>6, <1>7, <1>8, <1>9, <1>10, <1>11, <1>12
    DEF FreqNext, Switch, Governor, freqvars

\* At 26 MHz nobody relies on the bus, and the AHB stays at 104 MHz or below, in the
\* middle of a switch too (cpufreq.c:30, clock.c): for every number of drivers, and
\* for every length of the quiet stretches.
THEOREM ClockIsSafe == FreqSpec => []ClockSafe
<1>1. FreqInv => ClockSafe
  <2> SUFFICES ASSUME FreqInv PROVE ClockSafe
    OBVIOUS
  <2>1. holds = 0 <=> held = {}
    BY HoldsZero DEF FreqInv
  <2>2. level \in 0 .. 2
    BY DEF FreqInv, FreqTypeOK
  <2>3. ctl.mhz = 26 => level = 0
    BY Levels, <2>2 DEF FreqInv, Register, Exact, Between
  <2>4. (IF ctl.half THEN ctl.mhz \div 2 ELSE ctl.mhz) <= 104
    BY Levels, <2>2 DEF FreqInv, Register, Exact, Between
  <2> QED BY <2>1, <2>3, <2>4 DEF FreqInv, ClockSafe, Settled
<1> QED BY <1>1, FreqInitInv, FreqNextInv, PTL DEF FreqSpec
-----------------------------------------------------------------------------
(* The heap *)

\* The first block of a set of blocks exists: the walk of the free list finds one.
LEMMA LowestBlock ==
  ASSUME NEW bs \in SUBSET Block, bs # {}
  PROVE  First(bs) \in bs
<1> DEFINE S == {b.at : b \in bs}
<1>1. S # {} /\ S \in SUBSET Nat
  BY DEF Block
<1>2. PICK n \in S : \A m \in S : ~(<<m, n>> \in OpToRel(<, Nat))
  <2> HIDE DEF S
  <2> QED BY <1>1, NatLessThanWellFounded, WFMin
<1>3. ASSUME NEW m \in S PROVE n <= m
  <2>1. n \in Nat /\ m \in Nat
    BY <1>1, <1>2
  <2>2. m < n => <<m, n>> \in OpToRel(<, Nat)
    <3> SUFFICES ASSUME m < n PROVE <<m, n>> \in {r \in Nat \X Nat : r[1] < r[2]}
      BY DEF OpToRel
    <3> QED BY <2>1
  <2>3. ~(m < n)
    BY <1>2, <2>2
  <2> QED BY <2>1, <2>3
<1>4. PICK b \in bs : b.at = n
  BY <1>2
<1>5. \A c \in bs : b.at <= c.at
  BY <1>3, <1>4
<1> QED BY <1>5 DEF First

\* A block of the heap as numbers.
LEMMA BlockFacts ==
  ASSUME HeapSound, NEW v \in free \cup used
  PROVE  /\ v \in Block /\ v.at \in Nat /\ v.size \in Nat /\ v.size > 0
         /\ EndOf(v) = v.at + v.size /\ EndOf(v) \in Nat /\ EndOf(v) <= HeapSize
<1>1. v \in Block /\ EndOf(v) <= HeapSize /\ HeapSize \in Nat
  BY HeapAssumption DEF HeapSound, HeapTypeOK, Disjoint
<1> QED BY <1>1 DEF Block, EndOf

\* The units of one block are as many as its size.
LEMMA UnitsOfOne ==
  ASSUME NEW b \in Block, EndOf(b) <= HeapSize
  PROVE  IsFiniteSet(Units({b})) /\ Cardinality(Units({b})) = b.size
<1>1. b.at \in Nat /\ b.size \in Nat /\ b.size > 0 /\ HeapSize \in Nat
  BY HeapAssumption DEF Block
<1>2. Units({b}) = b.at .. b.at + b.size - 1
  BY <1>1 DEF Units, EndOf
<1>3. b.at \in Int /\ b.at + b.size - 1 \in Int /\ ~(b.at > b.at + b.size - 1)
  BY <1>1
<1>4. Cardinality(b.at .. b.at + b.size - 1) = (b.at + b.size - 1) - b.at + 1
  BY <1>3, FS_Interval
<1>5. IsFiniteSet(b.at .. b.at + b.size - 1)
  BY <1>3, FS_Interval
<1>6. (b.at + b.size - 1) - b.at + 1 = b.size
  BY <1>1
<1> QED BY <1>2, <1>4, <1>5, <1>6

LEMMA UnitsFinite == ASSUME NEW bs PROVE IsFiniteSet(Units(bs))
<1>1. IsFiniteSet(0 .. HeapSize - 1)
  <2>1. 0 \in Int /\ HeapSize - 1 \in Int
    BY HeapAssumption
  <2> QED BY <2>1, FS_Interval
<1>2. Units(bs) \in SUBSET (0 .. HeapSize - 1)
  BY DEF Units
<1> QED BY <1>1, <1>2, FS_Subset

\* Taking some of the units away takes their number away.
LEMMA UnitsRemoved ==
  ASSUME NEW S, NEW T, IsFiniteSet(S), T \subseteq S
  PROVE  Cardinality(S \ T) = Cardinality(S) - Cardinality(T)
<1>1. IsFiniteSet(T) /\ S \cap T = T
  BY FS_Subset
<1>2. Cardinality(S \ T) = Cardinality(S) - Cardinality(S \cap T)
  BY FS_Difference
<1> QED BY <1>1, <1>2

LEMMA HeapInitSound == HeapInit => HeapSound
<1> SUFFICES ASSUME HeapInit PROVE HeapSound
  OBVIOUS
<1> DEFINE b == [at |-> 0, size |-> HeapSize]
<1>1. b \in Block /\ EndOf(b) = HeapSize /\ b.at = 0 /\ b.size = HeapSize
  BY HeapAssumption DEF Block, EndOf
<1> HIDE DEF b
<1>2. free = {b} /\ used = {} /\ freeUnits = HeapSize
  BY DEF HeapInit, b
<1>3. HeapTypeOK
  BY <1>1, <1>2, HeapAssumption DEF HeapTypeOK
<1>4. Disjoint /\ Coalesced
  BY <1>1, <1>2, HeapAssumption DEF Disjoint, Coalesced
<1>5. Units(free \cup used) = 0 .. HeapSize - 1
  BY <1>1, <1>2, HeapAssumption DEF Units
<1>6. freeUnits = Cardinality(Units(free))
  BY <1>1, <1>2, UnitsOfOne, HeapAssumption
<1> QED BY <1>3, <1>4, <1>5, <1>6 DEF HeapSound, FreeCounted

\* kmalloc takes a block that fits, and cuts it when enough is left.
LEMMA AllocSound ==
  ASSUME HeapSound, NEW n \in Sizes, kmalloc(n)
  PROVE  HeapSound'
<1> DEFINE need == n + 1
           b == First(Fits(need))
           c == Cut(b, need)
           r == Rest(b, need)
           split == Splits(b, need)
<1>1. need \in Nat /\ need > 1 /\ MinSplit \in Nat /\ MinSplit > 0 /\ HeapSize \in Nat
  BY HeapAssumption
<1>2. b \in free /\ b.size >= need
  <2>1. Fits(need) # {} /\ Fits(need) \in SUBSET Block
    BY DEF kmalloc, Fits, HeapSound, HeapTypeOK
  <2>2. b \in Fits(need)
    BY <2>1, LowestBlock
  <2> QED BY <2>2 DEF Fits
<1>3. /\ b \in Block /\ b.at \in Nat /\ b.size \in Nat /\ b.size > 0
      /\ EndOf(b) = b.at + b.size /\ EndOf(b) <= HeapSize
  BY <1>2, BlockFacts
<1>4. /\ free' = (free \ {b}) \cup (IF split THEN {r} ELSE {})
      /\ used' = used \cup {c}
      /\ freeUnits' = freeUnits - c.size
  BY DEF kmalloc
<1>5. /\ c \in Block /\ c.at = b.at /\ c.size > 0 /\ EndOf(c) = c.at + c.size
      /\ c.size = IF split THEN need ELSE b.size
      /\ ~split => c = b
  <2> HIDE DEF need, b
  <2>1. split \in BOOLEAN /\ (split => b.size - need >= MinSplit)
    BY DEF Splits
  <2> QED BY <1>1, <1>2, <1>3, <2>1 DEF Block, Cut, EndOf
<1>6. split => /\ r \in Block /\ r.at = b.at + need /\ r.size = b.size - need
               /\ r.size > 0 /\ EndOf(r) = EndOf(b)
  <2> HIDE DEF need, b
  <2>1. split => b.size - need >= MinSplit
    BY DEF Splits
  <2> QED BY <1>1, <1>2, <1>3, <2>1 DEF Block, Rest, EndOf
<1> HIDE DEF need, b, c, r, split
\* The other blocks lie below b or above it.
<1>7. ASSUME NEW v \in free \cup used, v # b
      PROVE  /\ v.at \in Nat /\ v.size \in Nat /\ v.size > 0 /\ EndOf(v) = v.at + v.size
             /\ EndOf(v) <= HeapSize
             /\ EndOf(v) <= b.at \/ EndOf(b) <= v.at
  BY <1>2, <1>7, BlockFacts DEF HeapSound, Disjoint, Apart
<1>8. /\ free \cap used = {} /\ b \notin used
      /\ EndOf(b) \in Nat /\ EndOf(c) \in Nat /\ EndOf(c) <= EndOf(b)
  <2>1. free \cap used = {} /\ b \notin used
    BY <1>2 DEF HeapSound, Disjoint
  <2>2. c.size \in Nat /\ c.size <= b.size
    BY <1>1, <1>2, <1>3, <1>5
  <2> QED BY <1>3, <1>5, <2>1, <2>2
\* The new blocks are apart, and apart from the others.
<1>9. /\ \A v \in free \cup used : v # b => v # c /\ Apart(v, c) /\ Apart(c, v)
      /\ split => \A v \in free \cup used : v # b => v # r /\ Apart(v, r) /\ Apart(r, v)
      /\ split => c # r /\ Apart(c, r) /\ Apart(r, c)
  <2>1. ASSUME NEW v \in free \cup used, v # b PROVE v # c /\ Apart(v, c) /\ Apart(c, v)
    BY <1>1, <1>2, <1>3, <1>5, <1>6, <1>7, <1>8, <2>1 DEF Apart
  <2>2. ASSUME split, NEW v \in free \cup used, v # b PROVE v # r /\ Apart(v, r) /\ Apart(r, v)
    BY <1>1, <1>2, <1>3, <1>6, <1>7, <2>2 DEF Apart
  <2>3. ASSUME split PROVE c # r /\ Apart(c, r) /\ Apart(r, c)
    BY <1>1, <1>3, <1>5, <1>6, <2>3 DEF Apart
  <2> QED BY <2>1, <2>2, <2>3
<1>10. HeapTypeOK'
  <2>1. freeUnits' \in Int
    BY <1>4, <1>5 DEF HeapSound, HeapTypeOK, Block
  <2>2. free' \subseteq Block /\ used' \subseteq Block
    BY <1>4, <1>5, <1>6 DEF HeapSound, HeapTypeOK
  <2> QED BY <2>1, <2>2 DEF HeapTypeOK, Block
<1>11. Disjoint'
  <2>1. \A v \in free' \cup used' : EndOf(v) <= HeapSize
    <3>1. EndOf(c) <= HeapSize /\ (split => EndOf(r) <= HeapSize)
      BY <1>1, <1>3, <1>6, <1>8
    <3> QED BY <3>1, <1>4, <1>7, <1>8
  <2>2. free' \cap used' = {}
    BY <1>4, <1>8, <1>9
  <2>3. \A v, y \in free' \cup used' : v # y => Apart(v, y)
    <3>1. \A v, y \in free \cup used : v # y => Apart(v, y)
      BY DEF HeapSound, Disjoint
    <3>2. \A v \in free' \cup used' : (v \in free \cup used /\ v # b) \/ v = c \/ (split /\ v = r)
      BY <1>4, <1>8
    <3> QED BY <3>1, <3>2, <1>9
  <2> QED BY <2>1, <2>2, <2>3 DEF Disjoint, EndOf, Apart
<1>12. Coalesced'
  <2>1. \A v, y \in free : EndOf(v) # y.at
    BY DEF HeapSound, Coalesced
  <2>2. split => /\ \A v \in free \ {b} : EndOf(v) # r.at /\ EndOf(r) # v.at
                 /\ EndOf(r) # r.at
    BY <2>1, <1>1, <1>2, <1>3, <1>6, <1>7
  <2>3. \A v, y \in free' : EndOf(v) # y.at
    BY <2>1, <2>2, <1>4
  <2> QED BY <2>3 DEF Coalesced, EndOf
<1>13. FreeCounted'
  <2>1. Units({c}) \subseteq Units(free)
    <3>1. ASSUME NEW u \in 0 .. HeapSize - 1, c.at <= u, u < EndOf(c)
          PROVE  b.at <= u /\ u < EndOf(b)
      BY <1>1, <1>3, <1>5, <1>8, <3>1
    <3> QED BY <1>2, <3>1 DEF Units
  <2>2. Units(free') = Units(free) \ Units({c})
    <3>1. ASSUME NEW u \in 0 .. HeapSize - 1
          PROVE  u \in Units(free') <=> u \in Units(free) /\ ~(c.at <= u /\ u < EndOf(c))
      BY <1>1, <1>2, <1>3, <1>4, <1>5, <1>6, <1>7 DEF Units
    <3> QED BY <3>1 DEF Units
  <2>3. Cardinality(Units(free')) = Cardinality(Units(free)) - c.size
    <3>1. EndOf(c) <= HeapSize
      BY <1>1, <1>3, <1>8
    <3>2. Cardinality(Units({c})) = c.size
      BY <1>5, <3>1, UnitsOfOne
    <3> QED BY <2>1, <2>2, <3>2, UnitsFinite, UnitsRemoved
  <2>4. Units(free' \cup used') = 0 .. HeapSize - 1
    <3>1. Units(free \cup used) = 0 .. HeapSize - 1
      BY DEF HeapSound, FreeCounted
    <3>2. ASSUME NEW u \in Units(free \cup used) PROVE u \in Units(free' \cup used')
      <4>1. PICK v \in free \cup used : v.at <= u /\ u < EndOf(v)
        BY DEF Units
      <4>2. u \in 0 .. HeapSize - 1
        BY DEF Units
      <4> QED BY <4>1, <4>2, <1>1, <1>3, <1>4, <1>5, <1>6, <1>8 DEF Units
    <3> QED BY <3>1, <3>2 DEF Units
  <2> QED BY <2>3, <2>4, <1>4 DEF HeapSound, FreeCounted, Units, EndOf
<1> QED BY <1>10, <1>11, <1>12, <1>13 DEF HeapSound

\* Two blocks that end, or begin, at the same place are one.
LEMMA SamePlace ==
  ASSUME HeapSound, NEW v \in free \cup used, NEW y \in free \cup used,
         EndOf(v) = EndOf(y) \/ v.at = y.at
  PROVE  v = y
<1> SUFFICES ASSUME v # y PROVE FALSE
  OBVIOUS
<1>1. Apart(v, y)
  BY DEF HeapSound, Disjoint
<1> QED BY <1>1, BlockFacts DEF Apart

\* What kfree joins: b reaches down to the block before it, up to the block after it.
LEMMA JoinedFacts ==
  ASSUME HeapSound, NEW b \in used
  PROVE  LET j == Joined(b)
             near == Before(b) \cup After(b)
         IN  /\ j \in Block /\ j.at \in Nat /\ j.size \in Nat /\ j.size > 0
             /\ EndOf(j) = j.at + j.size /\ EndOf(j) <= HeapSize
             /\ j.at <= b.at /\ EndOf(b) <= EndOf(j)
             /\ \A u \in Nat : (j.at <= u /\ u < EndOf(j))
                    <=> \E v \in near \cup {b} : v.at <= u /\ u < EndOf(v)
             /\ \A v \in free \ near : v.at # EndOf(j) /\ EndOf(v) # j.at
             /\ \A v \in (free \ near) \cup (used \ {b}) : v # j /\ Apart(v, j) /\ Apart(j, v)
<1> DEFINE j == Joined(b)
           near == Before(b) \cup After(b)
           at == IF Before(b) = {} THEN b.at ELSE (CHOOSE c \in Before(b) : TRUE).at
           end == IF After(b) = {} THEN EndOf(b) ELSE EndOf(CHOOSE c \in After(b) : TRUE)
<1>1. /\ b.at \in Nat /\ b.size \in Nat /\ b.size > 0 /\ HeapSize \in Nat
      /\ EndOf(b) = b.at + b.size /\ EndOf(b) \in Nat /\ EndOf(b) <= HeapSize
  BY HeapAssumption, BlockFacts
<1>2. \/ Before(b) = {} /\ at = b.at
      \/ \E p \in free : Before(b) = {p} /\ at = p.at /\ EndOf(p) = b.at
  <2>1. ASSUME Before(b) # {} PROVE \E p \in free : Before(b) = {p} /\ at = p.at /\ EndOf(p) = b.at
    <3>1. PICK p \in Before(b) : p = CHOOSE c \in Before(b) : TRUE
      BY <2>1
    <3>2. \A c \in Before(b) : c \in free /\ EndOf(c) = b.at
      BY DEF Before
    <3>3. Before(b) = {p}
      BY <3>1, <3>2, SamePlace
    <3> QED BY <3>1, <3>2, <3>3
  <2> QED BY <2>1
<1>3. \/ After(b) = {} /\ end = EndOf(b)
      \/ \E q \in free : After(b) = {q} /\ end = EndOf(q) /\ q.at = EndOf(b)
  <2>1. ASSUME After(b) # {} PROVE \E q \in free : After(b) = {q} /\ end = EndOf(q) /\ q.at = EndOf(b)
    <3>1. PICK q \in After(b) : q = CHOOSE c \in After(b) : TRUE
      BY <2>1
    <3>2. \A c \in After(b) : c \in free /\ c.at = EndOf(b)
      BY DEF After
    <3>3. After(b) = {q}
      BY <3>1, <3>2, SamePlace
    <3> QED BY <3>1, <3>2, <3>3
  <2> QED BY <2>1
<1>4. j = [at |-> at, size |-> end - at]
  BY DEF Joined
<1> HIDE DEF j, at, end
<1>5. at \in Nat /\ end \in Nat /\ at <= b.at /\ EndOf(b) <= end /\ end <= HeapSize
  <2>1. at \in Nat /\ at <= b.at
    BY <1>1, <1>2, BlockFacts
  <2>2. end \in Nat /\ EndOf(b) <= end /\ end <= HeapSize
    BY <1>1, <1>3, BlockFacts
  <2> QED BY <2>1, <2>2
<1>6. j.at = at /\ j.size = end - at /\ EndOf(j) = end /\ j \in Block /\ j.size \in Nat /\ j.size > 0
  BY <1>1, <1>4, <1>5 DEF Block, EndOf
<1>7. \A u \in Nat : (at <= u /\ u < end) <=> \E v \in near \cup {b} : v.at <= u /\ u < EndOf(v)
  BY <1>1, <1>2, <1>3, <1>5, BlockFacts
<1>8. ASSUME NEW v \in (free \ near) \cup (used \ {b})
      PROVE  /\ v # j /\ Apart(v, j) /\ Apart(j, v)
             /\ v \in free => v.at # end /\ EndOf(v) # at
  <2>1. /\ v.at \in Nat /\ v.size \in Nat /\ v.size > 0
        /\ EndOf(v) = v.at + v.size /\ EndOf(v) \in Nat
    BY BlockFacts
  <2>2. \A y \in near \cup {b} : v # y /\ (EndOf(v) <= y.at \/ EndOf(y) <= v.at)
    <3>1. \A y \in near \cup {b} : y \in free \cup used /\ v # y
      BY DEF Before, After, HeapSound, Disjoint
    <3> QED BY <3>1 DEF HeapSound, Disjoint, Apart
  <2>3. EndOf(v) <= b.at \/ EndOf(b) <= v.at
    BY <2>2
  <2>4. EndOf(v) <= at \/ end <= v.at
    <3>1. CASE EndOf(v) <= b.at
      BY <2>1, <2>2, <3>1, <1>1, <1>2, BlockFacts
    <3>2. CASE EndOf(b) <= v.at
      BY <2>1, <2>2, <3>2, <1>1, <1>3, BlockFacts
    <3> QED BY <2>3, <3>1, <3>2
  <2>5. ASSUME v \in free PROVE v.at # end /\ EndOf(v) # at
    <3>1. v \notin Before(b) /\ v \notin After(b)
      BY <2>5, <1>8 DEF HeapSound, Disjoint
    <3>2. EndOf(v) # b.at /\ v.at # EndOf(b)
      BY <2>5, <3>1 DEF Before, After
    <3> QED BY <2>5, <3>2, <1>2, <1>3 DEF HeapSound, Coalesced
  <2>6. v # j
    BY <2>1, <2>4, <1>1, <1>5, <1>6
  <2> QED BY <2>4, <2>5, <2>6, <1>6 DEF Apart
<1>9. \A v \in free \ near : v.at # EndOf(j) /\ EndOf(v) # j.at
  BY <1>6, <1>8
<1>10. \A v \in (free \ near) \cup (used \ {b}) : v # j /\ Apart(v, j) /\ Apart(j, v)
  BY <1>8
<1> HIDE DEF near
<1> QED BY <1>5, <1>6, <1>7, <1>9, <1>10 DEF j, near

\* kfree joins the block with the free blocks that touch it.
LEMMA FreeSound ==
  ASSUME HeapSound, NEW b \in used, kfree(b)
  PROVE  HeapSound'
<1> DEFINE j == Joined(b)
           near == Before(b) \cup After(b)
<1>1. /\ j \in Block /\ j.at \in Nat /\ j.size \in Nat /\ j.size > 0
      /\ EndOf(j) = j.at + j.size /\ EndOf(j) <= HeapSize
      /\ j.at <= b.at /\ EndOf(b) <= EndOf(j)
  BY JoinedFacts
<1>2. \A u \in Nat : (j.at <= u /\ u < EndOf(j)) <=> \E v \in near \cup {b} : v.at <= u /\ u < EndOf(v)
  BY JoinedFacts
<1>3. /\ \A v \in free \ near : v.at # EndOf(j) /\ EndOf(v) # j.at
      /\ \A v \in (free \ near) \cup (used \ {b}) : v # j /\ Apart(v, j) /\ Apart(j, v)
  BY JoinedFacts
<1>4. /\ free' = (free \ near) \cup {j}
      /\ used' = used \ {b}
      /\ freeUnits' = freeUnits + b.size
  BY DEF kfree
<1>5. near \subseteq free
  BY DEF Before, After
<1> HIDE DEF j, near
<1>6. b \in Block /\ b.size \in Nat /\ EndOf(b) <= HeapSize /\ HeapSize \in Nat
  BY BlockFacts, HeapAssumption
<1>7. HeapTypeOK'
  <2>1. free' \subseteq Block /\ used' \subseteq Block
    BY <1>1, <1>4 DEF HeapSound, HeapTypeOK
  <2>2. freeUnits' \in Int
    BY <1>4, <1>6 DEF HeapSound, HeapTypeOK
  <2> QED BY <2>1, <2>2 DEF HeapTypeOK, Block
<1>8. Disjoint'
  <2>1. \A v \in free' \cup used' : EndOf(v) <= HeapSize
    BY <1>1, <1>4 DEF HeapSound, Disjoint
  <2>2. free' \cap used' = {}
    BY <1>3, <1>4 DEF HeapSound, Disjoint
  <2>3. \A v, y \in free' \cup used' : v # y => Apart(v, y)
    BY <1>3, <1>4 DEF HeapSound, Disjoint
  <2> QED BY <2>1, <2>2, <2>3 DEF Disjoint, EndOf, Apart
<1>9. Coalesced'
  <2>1. EndOf(j) # j.at
    BY <1>1
  <2>2. \A v, y \in free' : EndOf(v) # y.at
    BY <2>1, <1>3, <1>4 DEF HeapSound, Coalesced
  <2> QED BY <2>2 DEF Coalesced, EndOf
<1>10. FreeCounted'
  <2>1. Units(free') = Units(free) \cup Units({b})
    <3>1. ASSUME NEW u \in 0 .. HeapSize - 1
          PROVE  u \in Units(free') <=> u \in Units(free) \/ u \in Units({b})
      <4>1. u \in Nat
        BY <1>6
      <4>2. u \in Units(free') <=> \/ \E v \in free \ near : v.at <= u /\ u < EndOf(v)
                                   \/ \E v \in near \cup {b} : v.at <= u /\ u < EndOf(v)
        BY <4>1, <1>2, <1>4 DEF Units
      <4> QED BY <4>2, <1>5 DEF Units
    <3> QED BY <3>1 DEF Units
  <2>2. Units(free) \cap Units({b}) = {}
    <3>1. ASSUME NEW v \in free, NEW u \in 0 .. HeapSize - 1,
                 v.at <= u, u < EndOf(v), b.at <= u, u < EndOf(b)
          PROVE  FALSE
      <4>1. Apart(v, b)
        BY DEF HeapSound, Disjoint
      <4>2. v.at \in Nat /\ EndOf(v) \in Nat /\ b.at \in Nat /\ EndOf(b) \in Nat /\ u \in Nat
        BY <1>6, BlockFacts
      <4> QED BY <3>1, <4>1, <4>2 DEF Apart
    <3> QED BY <3>1, ZenonT(60) DEF Units
  <2>3. Cardinality(Units(free')) = Cardinality(Units(free)) + b.size
    <3>0. IsFiniteSet(Units(free)) /\ IsFiniteSet(Units({b}))
      BY UnitsFinite
    <3>1. Cardinality(Units(free')) = Cardinality(Units(free)) + Cardinality(Units({b})) - Cardinality({})
      BY <2>1, <2>2, <3>0, FS_Union, ZenonT(60)
    <3>2. Cardinality(Units(free)) \in Nat
      BY UnitsFinite, FS_CardinalityType
    <3> QED BY <3>1, <3>2, <1>6, UnitsOfOne, FS_EmptySet
  <2>4. Units(free' \cup used') = 0 .. HeapSize - 1
    <3>1. Units(free' \cup used') = Units(free') \cup Units(used')
      BY DEF Units
    <3>2. Units(free \cup used) = Units(free) \cup Units(used)
      BY DEF Units
    <3>3. Units(used) = Units(used') \cup Units({b})
      BY <1>4 DEF Units
    <3>4. Units(free \cup used) = 0 .. HeapSize - 1
      BY DEF HeapSound, FreeCounted
    <3> QED BY <3>1, <3>2, <3>3, <3>4, <2>1
  <2> QED BY <2>3, <2>4, <1>4 DEF HeapSound, FreeCounted, Units, EndOf
<1> QED BY <1>7, <1>8, <1>9, <1>10 DEF HeapSound

\* Whatever was allocated and given back, in whatever order: the blocks, free and
\* handed out, are a partition of the heap, no two free ones touch, and
\* heap_free_bytes is the size of the free ones (heap.c).  HeapSound is inductive
\* as it stands.
THEOREM HeapIsSound == HeapSpec => []HeapSound
<1>1. HeapSound /\ [HeapNext]_heapvars => HeapSound'
  <2> SUFFICES ASSUME HeapSound, [HeapNext]_heapvars PROVE HeapSound'
    OBVIOUS
  <2>1. ASSUME NEW n \in Sizes, kmalloc(n) PROVE HeapSound'
    BY <2>1, AllocSound
  <2>2. ASSUME NEW b \in used, kfree(b) PROVE HeapSound'
    BY <2>2, FreeSound
  <2>3. CASE UNCHANGED heapvars
    BY <2>3 DEF heapvars, HeapSound, HeapTypeOK, Disjoint, Coalesced, FreeCounted,
                Apart, EndOf, Units, Block
  <2> QED BY <2>1, <2>2, <2>3 DEF HeapNext
<1> QED BY <1>1, HeapInitSound, PTL DEF HeapSpec
-----------------------------------------------------------------------------
(* Keys *)

Event == [code : KeysOf, down : BOOLEAN]

\* What q, the events under way, and the UI, which takes key k to be down if "up" holds
\* (see below), make of k: presses and releases alternate, and while a press is the
\* last of them the driver still owes a release.
Alternates(q, k, heldUp, owed) ==
  /\ heldUp => \A i \in 1 .. Len(q) : q[i] = Press(k) => \E m \in 1 .. i - 1 : q[m] = Release(k)
  /\ \A i, j \in 1 .. Len(q) : i < j /\ q[i] = Press(k) /\ q[j] = Press(k)
       => \E m \in i + 1 .. j - 1 : q[m] = Release(k)
  /\ \A i \in 1 .. Len(q) : q[i] = Press(k)
       => owed \/ \E m \in i + 1 .. Len(q) : q[m] = Release(k)
  /\ heldUp => owed \/ \E m \in 1 .. Len(q) : q[m] = Release(k)

LEMMA PressIsNoRelease == \A k, l : Press(k) # Release(l)
BY DEF Press, Release

LEMMA EventOfKey ==
  \A e \in Event : (e.down => e = Press(e.code)) /\ (~e.down => e = Release(e.code))
BY DEF Event, Press, Release

LEMMA AlternatesMore ==
  ASSUME NEW q, NEW k, NEW h \in BOOLEAN, NEW g \in BOOLEAN, NEW o \in BOOLEAN, NEW p \in BOOLEAN,
         g => h, o => p, Alternates(q, k, h, o)
  PROVE  Alternates(q, k, g, p)
BY DEF Alternates

LEMMA JoinNone ==
  ASSUME NEW q \in Seq(Event), NEW s \in Seq(Event), NEW k, NEW h \in BOOLEAN, NEW o \in BOOLEAN,
         Alternates(q, k, h, o), \A i \in 1 .. Len(s) : s[i] \notin {Press(k), Release(k)}
  PROVE  Alternates(q \o s, k, h, o)
<1> DEFINE r == q \o s
           n == Len(q)
           l == Len(r)
<1>1. /\ n \in Nat /\ Len(s) \in Nat /\ l = n + Len(s)
      /\ \A i \in 1 .. n : r[i] = q[i] /\ i \in 1 .. l
      /\ \A i \in 1 .. l : i \notin 1 .. n => r[i] = s[i - n] /\ i - n \in 1 .. Len(s)
  BY LenProperties, ConcatProperties
<1>2. \A i \in 1 .. l : r[i] \in {Press(k), Release(k)} => i \in 1 .. n
  BY <1>1
<1> HIDE DEF r
<1>3. Alternates(r, k, h, o)
  <2>1. h => \A i \in 1 .. l : r[i] = Press(k) => \E m \in 1 .. i - 1 : r[m] = Release(k)
    <3> SUFFICES ASSUME h, NEW i \in 1 .. l, r[i] = Press(k)
                 PROVE  \E m \in 1 .. i - 1 : r[m] = Release(k)
      OBVIOUS
    <3>1. i \in 1 .. n /\ q[i] = Press(k)
      BY <1>1, <1>2
    <3>2. PICK m \in 1 .. i - 1 : q[m] = Release(k)
      BY <3>1 DEF Alternates
    <3>3. m \in 1 .. n
      BY <1>1, <3>1
    <3> QED BY <1>1, <3>2, <3>3
  <2>2. \A i, j \in 1 .. l : i < j /\ r[i] = Press(k) /\ r[j] = Press(k)
          => \E m \in i + 1 .. j - 1 : r[m] = Release(k)
    <3> SUFFICES ASSUME NEW i \in 1 .. l, NEW j \in 1 .. l, i < j, r[i] = Press(k), r[j] = Press(k)
                 PROVE  \E m \in i + 1 .. j - 1 : r[m] = Release(k)
      OBVIOUS
    <3>1. i \in 1 .. n /\ q[i] = Press(k) /\ j \in 1 .. n /\ q[j] = Press(k)
      BY <1>1, <1>2
    <3>2. PICK m \in i + 1 .. j - 1 : q[m] = Release(k)
      BY <3>1 DEF Alternates
    <3>3. m \in 1 .. n
      BY <1>1, <3>1
    <3> QED BY <1>1, <3>2, <3>3
  <2>3. \A i \in 1 .. l : r[i] = Press(k) => o \/ \E m \in i + 1 .. l : r[m] = Release(k)
    <3> SUFFICES ASSUME NEW i \in 1 .. l, r[i] = Press(k), ~o
                 PROVE  \E m \in i + 1 .. l : r[m] = Release(k)
      OBVIOUS
    <3>1. i \in 1 .. n /\ q[i] = Press(k)
      BY <1>1, <1>2
    <3>2. PICK m \in i + 1 .. n : q[m] = Release(k)
      BY <3>1 DEF Alternates
    <3>3. m \in 1 .. n /\ m \in i + 1 .. l
      BY <1>1, <3>1
    <3> QED BY <1>1, <3>2, <3>3
  <2>4. h => o \/ \E m \in 1 .. l : r[m] = Release(k)
    <3> SUFFICES ASSUME h, ~o PROVE \E m \in 1 .. l : r[m] = Release(k)
      OBVIOUS
    <3>1. PICK m \in 1 .. n : q[m] = Release(k)
      BY DEF Alternates
    <3> QED BY <1>1, <3>1
  <2> QED BY <2>1, <2>2, <2>3, <2>4 DEF Alternates
<1> QED BY <1>3 DEF r
LEMMA JoinRelease ==
  ASSUME NEW q \in Seq(Event), NEW s \in Seq(Event), NEW k, NEW h \in BOOLEAN, NEW o \in BOOLEAN,
         NEW p \in BOOLEAN, Alternates(q, k, h, o),
         NEW a \in 1 .. Len(s), s[a] = Release(k), \A i \in 1 .. Len(s) : s[i] # Press(k)
  PROVE  Alternates(q \o s, k, h, p)
<1> DEFINE r == q \o s
           n == Len(q)
           l == Len(r)
           b == n + a
<1>1. /\ n \in Nat /\ Len(s) \in Nat /\ l = n + Len(s)
      /\ \A i \in 1 .. n : r[i] = q[i] /\ i \in 1 .. l
      /\ \A i \in 1 .. l : i \notin 1 .. n => r[i] = s[i - n] /\ i - n \in 1 .. Len(s)
  BY LenProperties, ConcatProperties
<1>2. \A i \in 1 .. l : r[i] = Press(k) => i \in 1 .. n
  BY <1>1
<1>3. b \in 1 .. l /\ b \notin 1 .. n /\ b - n = a
  <2>1. \A v, y, z \in Nat : z \in 1 .. y =>
          v + z \in 1 .. v + y /\ v + z \notin 1 .. v /\ v + z - v = z
    OBVIOUS
  <2>2. a \in Nat
    OBVIOUS
  <2> QED BY <1>1, <2>1, <2>2
<1>4. r[b] = Release(k)
  BY <1>1, <1>3
<1> HIDE DEF r, b
<1>5. Alternates(r, k, h, p)
  <2>1. h => \A i \in 1 .. l : r[i] = Press(k) => \E m \in 1 .. i - 1 : r[m] = Release(k)
    <3> SUFFICES ASSUME h, NEW i \in 1 .. l, r[i] = Press(k)
                 PROVE  \E m \in 1 .. i - 1 : r[m] = Release(k)
      OBVIOUS
    <3>1. i \in 1 .. n /\ q[i] = Press(k)
      BY <1>1, <1>2
    <3>2. PICK m \in 1 .. i - 1 : q[m] = Release(k)
      BY <3>1 DEF Alternates
    <3>3. m \in 1 .. n
      BY <1>1, <3>1
    <3> QED BY <1>1, <3>2, <3>3
  <2>2. \A i, j \in 1 .. l : i < j /\ r[i] = Press(k) /\ r[j] = Press(k)
          => \E m \in i + 1 .. j - 1 : r[m] = Release(k)
    <3> SUFFICES ASSUME NEW i \in 1 .. l, NEW j \in 1 .. l, i < j, r[i] = Press(k), r[j] = Press(k)
                 PROVE  \E m \in i + 1 .. j - 1 : r[m] = Release(k)
      OBVIOUS
    <3>1. i \in 1 .. n /\ q[i] = Press(k) /\ j \in 1 .. n /\ q[j] = Press(k)
      BY <1>1, <1>2
    <3>2. PICK m \in i + 1 .. j - 1 : q[m] = Release(k)
      BY <3>1 DEF Alternates
    <3>3. m \in 1 .. n
      BY <1>1, <3>1
    <3> QED BY <1>1, <3>2, <3>3
  <2>3. \A i \in 1 .. l : r[i] = Press(k) => p \/ \E m \in i + 1 .. l : r[m] = Release(k)
    <3> SUFFICES ASSUME NEW i \in 1 .. l, r[i] = Press(k)
                 PROVE  \E m \in i + 1 .. l : r[m] = Release(k)
      OBVIOUS
    <3>1. i \in 1 .. n
      BY <1>2
    <3>2. b \in i + 1 .. l
      BY <1>1, <1>3, <3>1
    <3> QED BY <1>4, <3>2
  <2>4. h => p \/ \E m \in 1 .. l : r[m] = Release(k)
    BY <1>3, <1>4
  <2> QED BY <2>1, <2>2, <2>3, <2>4 DEF Alternates
<1> QED BY <1>5 DEF r

LEMMA JoinPress ==
  ASSUME NEW q \in Seq(Event), NEW s \in Seq(Event), NEW k, NEW h \in BOOLEAN,
         Alternates(q, k, h, FALSE),
         NEW a \in 1 .. Len(s), s[a] = Press(k),
         \A i \in 1 .. Len(s) : i # a => s[i] \notin {Press(k), Release(k)}
  PROVE  Alternates(q \o s, k, h, TRUE)
<1> DEFINE r == q \o s
           n == Len(q)
           l == Len(r)
           b == n + a
<1>1. /\ n \in Nat /\ Len(s) \in Nat /\ l = n + Len(s)
      /\ \A i \in 1 .. n : r[i] = q[i] /\ i \in 1 .. l
      /\ \A i \in 1 .. l : i \notin 1 .. n => r[i] = s[i - n] /\ i - n \in 1 .. Len(s)
  BY LenProperties, ConcatProperties
<1>2. b \in Nat /\ \A i \in 1 .. n : i < b
  <2>1. \A v, z \in Nat : z >= 1 => v + z \in Nat /\ \A i \in 1 .. v : i < v + z
    OBVIOUS
  <2>2. a \in Nat /\ a >= 1
    OBVIOUS
  <2> QED BY <1>1, <2>1, <2>2
<1>3. \A i \in 1 .. l : r[i] = Press(k) => i \in 1 .. n \/ i = b
  <2> SUFFICES ASSUME NEW i \in 1 .. l, r[i] = Press(k), i \notin 1 .. n PROVE i = b
    OBVIOUS
  <2>1. r[i] = s[i - n] /\ i - n \in 1 .. Len(s)
    BY <1>1
  <2>2. i - n = a
    BY <2>1
  <2>3. \A v \in Int, y \in Nat : v - y = a => v = y + a
    OBVIOUS
  <2> QED BY <1>1, <2>2, <2>3
<1> HIDE DEF r, b
<1>4. Alternates(r, k, h, TRUE)
  <2>1. h => \A i \in 1 .. l : r[i] = Press(k) => \E m \in 1 .. i - 1 : r[m] = Release(k)
    <3> SUFFICES ASSUME h, NEW i \in 1 .. l, r[i] = Press(k)
                 PROVE  \E m \in 1 .. i - 1 : r[m] = Release(k)
      OBVIOUS
    <3>1. CASE i \in 1 .. n
      <4>1. PICK m \in 1 .. i - 1 : q[m] = Release(k)
        BY <1>1, <3>1 DEF Alternates
      <4>2. m \in 1 .. n
        BY <1>1, <3>1
      <4> QED BY <1>1, <4>1, <4>2
    <3>2. CASE i = b
      <4>1. PICK m \in 1 .. n : q[m] = Release(k)
        BY DEF Alternates
      <4>2. m \in 1 .. i - 1
        BY <1>1, <1>2, <3>2
      <4> QED BY <1>1, <4>1, <4>2
    <3> QED BY <1>3, <3>1, <3>2
  <2>2. \A i, j \in 1 .. l : i < j /\ r[i] = Press(k) /\ r[j] = Press(k)
          => \E m \in i + 1 .. j - 1 : r[m] = Release(k)
    <3> SUFFICES ASSUME NEW i \in 1 .. l, NEW j \in 1 .. l, i < j, r[i] = Press(k), r[j] = Press(k)
                 PROVE  \E m \in i + 1 .. j - 1 : r[m] = Release(k)
      OBVIOUS
    <3>1. i \in 1 .. n
      <4>1. CASE j = b
        BY <1>3, <4>1
      <4>2. CASE j \in 1 .. n
        BY <1>1, <1>2, <1>3, <4>2
      <4> QED BY <1>3, <4>1, <4>2
    <3>2. q[i] = Press(k)
      BY <1>1, <3>1
    <3>3. CASE j \in 1 .. n
      <4>1. q[j] = Press(k)
        BY <1>1, <3>3
      <4>2. PICK m \in i + 1 .. j - 1 : q[m] = Release(k)
        BY <3>1, <3>2, <3>3, <4>1 DEF Alternates
      <4>3. m \in 1 .. n
        BY <1>1, <3>1, <3>3
      <4> QED BY <1>1, <4>2, <4>3
    <3>4. CASE j = b
      <4>1. PICK m \in i + 1 .. n : q[m] = Release(k)
        BY <3>1, <3>2 DEF Alternates
      <4>2. m \in 1 .. n
        BY <1>1, <3>1
      <4>3. m \in i + 1 .. j - 1
        BY <1>2, <3>4, <4>2
      <4> QED BY <1>1, <4>1, <4>2, <4>3
    <3> QED BY <1>3, <3>3, <3>4
  <2> QED BY <2>1, <2>2 DEF Alternates
<1> QED BY <1>4 DEF r

\* Taking the first event.
LEMMA TailAlternates ==
  ASSUME NEW q \in Seq(Event), q # <<>>, NEW k, NEW h \in BOOLEAN, NEW o \in BOOLEAN,
         Alternates(q, k, h, o)
  PROVE  /\ Head(q) = Press(k) => ~h /\ Alternates(Tail(q), k, TRUE, o)
         /\ Alternates(Tail(q), k, FALSE, o)
         /\ Head(q) \notin {Press(k), Release(k)} => Alternates(Tail(q), k, h, o)
<1> DEFINE r == Tail(q)
           n == Len(q)
           l == Len(r)
<1>1. /\ n \in Nat /\ n >= 1 /\ l = n - 1 /\ q[1] = Head(q)
      /\ \A i \in 1 .. l : r[i] = q[i + 1]
  BY LenProperties, HeadTailProperties, EmptySeq
<1> HIDE DEF r
<1>2. \A i \in 1 .. l : i + 1 \in 1 .. n
  BY <1>1
\* A place after the first, seen from the rest.
<1>3. \A m \in 2 .. n : m - 1 \in 1 .. l /\ r[m - 1] = q[m]
  <2> TAKE m \in 2 .. n
  <2>1. m - 1 \in 1 .. l /\ m - 1 + 1 = m
    BY <1>1
  <2> QED BY <1>1, <2>1
<1>4. \A i, j \in 1 .. l : i < j /\ r[i] = Press(k) /\ r[j] = Press(k)
        => \E m \in i + 1 .. j - 1 : r[m] = Release(k)
  <2> SUFFICES ASSUME NEW i \in 1 .. l, NEW j \in 1 .. l, i < j, r[i] = Press(k), r[j] = Press(k)
               PROVE  \E m \in i + 1 .. j - 1 : r[m] = Release(k)
    OBVIOUS
  <2>1. i + 1 \in 1 .. n /\ j + 1 \in 1 .. n /\ i + 1 < j + 1
    BY <1>2
  <2>2. q[i + 1] = Press(k) /\ q[j + 1] = Press(k)
    BY <1>1
  <2>3. PICK m \in i + 1 + 1 .. j + 1 - 1 : q[m] = Release(k)
    BY <2>1, <2>2 DEF Alternates
  <2>4. m \in 2 .. n /\ m - 1 \in i + 1 .. j - 1
    BY <1>1, <2>1
  <2> QED BY <1>3, <2>3, <2>4
<1>5. \A i \in 1 .. l : r[i] = Press(k) => o \/ \E m \in i + 1 .. l : r[m] = Release(k)
  <2> SUFFICES ASSUME NEW i \in 1 .. l, r[i] = Press(k), ~o
               PROVE  \E m \in i + 1 .. l : r[m] = Release(k)
    OBVIOUS
  <2>1. i + 1 \in 1 .. n /\ q[i + 1] = Press(k)
    BY <1>1, <1>2
  <2>2. PICK m \in i + 1 + 1 .. n : q[m] = Release(k)
    BY <2>1 DEF Alternates
  <2>3. m \in 2 .. n /\ m - 1 \in i + 1 .. l
    BY <1>1, <2>1
  <2> QED BY <1>3, <2>2, <2>3
<1>6. Alternates(r, k, FALSE, o)
  BY <1>4, <1>5 DEF Alternates
<1>7. ASSUME Head(q) = Press(k) PROVE ~h /\ Alternates(r, k, TRUE, o)
  <2>1. ~h
    BY <1>1, <1>7 DEF Alternates
  <2>2. \A i \in 1 .. l : r[i] = Press(k) => \E m \in 1 .. i - 1 : r[m] = Release(k)
    <3> SUFFICES ASSUME NEW i \in 1 .. l, r[i] = Press(k)
                 PROVE  \E m \in 1 .. i - 1 : r[m] = Release(k)
      OBVIOUS
    <3>1. 1 \in 1 .. n /\ i + 1 \in 1 .. n /\ 1 < i + 1 /\ q[1] = Press(k) /\ q[i + 1] = Press(k)
      BY <1>1, <1>2, <1>7
    <3>2. PICK m \in 1 + 1 .. i + 1 - 1 : q[m] = Release(k)
      BY <3>1 DEF Alternates
    <3>3. m \in 2 .. n /\ m - 1 \in 1 .. i - 1
      BY <1>1, <3>1
    <3> QED BY <1>3, <3>2, <3>3
  <2>3. o \/ \E m \in 1 .. l : r[m] = Release(k)
    <3> SUFFICES ASSUME ~o PROVE \E m \in 1 .. l : r[m] = Release(k)
      OBVIOUS
    <3>1. 1 \in 1 .. n /\ q[1] = Press(k)
      BY <1>1, <1>7
    <3>2. PICK m \in 1 + 1 .. n : q[m] = Release(k)
      BY <3>1 DEF Alternates
    <3>3. m \in 2 .. n
      BY <1>1
    <3> QED BY <1>3, <3>2, <3>3
  <2> QED BY <1>4, <1>5, <2>1, <2>2, <2>3 DEF Alternates
<1>8. ASSUME Head(q) \notin {Press(k), Release(k)} PROVE Alternates(r, k, h, o)
  <2>1. h => \A i \in 1 .. l : r[i] = Press(k) => \E m \in 1 .. i - 1 : r[m] = Release(k)
    <3> SUFFICES ASSUME h, NEW i \in 1 .. l, r[i] = Press(k)
                 PROVE  \E m \in 1 .. i - 1 : r[m] = Release(k)
      OBVIOUS
    <3>1. i + 1 \in 1 .. n /\ q[i + 1] = Press(k)
      BY <1>1, <1>2
    <3>2. PICK m \in 1 .. i + 1 - 1 : q[m] = Release(k)
      BY <3>1 DEF Alternates
    <3>3. m # 1
      BY <1>1, <1>8, <3>2
    <3>4. m \in 2 .. n /\ m - 1 \in 1 .. i - 1
      BY <1>1, <3>1, <3>3
    <3> QED BY <1>3, <3>2, <3>4
  <2>2. h => o \/ \E m \in 1 .. l : r[m] = Release(k)
    <3> SUFFICES ASSUME h, ~o PROVE \E m \in 1 .. l : r[m] = Release(k)
      OBVIOUS
    <3>1. PICK m \in 1 .. n : q[m] = Release(k)
      BY DEF Alternates
    <3>2. m \in 2 .. n
      BY <1>1, <1>8, <3>1
    <3> QED BY <1>3, <3>1, <3>2
  <2> QED BY <1>4, <1>5, <2>1, <2>2 DEF Alternates
<1> QED BY <1>6, <1>7, <1>8 DEF r

-----------------------------------------------------------------------------
\* The UI has taken key k to be down: it is held, or its press woke the screen.
TakenDown(k) == k \in Believed \/ k = ui.swallow

\* The driver will still see the release of k, or has it.
Owed(k) ==
  IF k = End THEN endWas ELSE (k \in seen /\ Press(k) \notin raw) \/ Release(k) \in raw

KeysTypeOK ==
  /\ raw \subseteq [code : Nav, down : BOOLEAN] /\ IsFiniteSet(raw)
  /\ events \in Seq(Event)
  /\ seen \subseteq Nav /\ lost \subseteq KeysOf /\ endWas \in BOOLEAN
  /\ ui \in [dark : BOOLEAN, swallow : KeysOf \cup {None}, held : Nav \cup {None},
             end_down : BOOLEAN]

\* One edge of a key is latched at most, and it is the one the controller saw.
Latched ==
  /\ \A e, f \in raw : e.code = f.code => e = f
  /\ \A e \in raw : e.down <=> e.code \in seen

\* What the UI has taken of k, what is in the queue and what the driver will see of it
\* fit together.  A press that woke the screen is not one the UI believes in.
Agrees(k) ==
  /\ Alternates(events, k, TakenDown(k), Owed(k))
  /\ k = ui.swallow => k \notin Believed

KeysInv == KeysTypeOK /\ Latched /\ \A k \in KeysOf \ lost : Agrees(k)

LEMMA KeysInitInv == KeysInit => KeysInv
<1> SUFFICES ASSUME KeysInit PROVE KeysInv
  OBVIOUS
<1>1. ui = [dark |-> FALSE, swallow |-> None, held |-> None, end_down |-> FALSE]
  BY DEF KeysInit
<1>2. None \notin KeysOf
  BY KeysAssumption DEF KeysOf, None, End
<1>3. KeysTypeOK /\ Latched
  <2>1. ui \in [dark : BOOLEAN, swallow : KeysOf \cup {None}, held : Nav \cup {None},
                end_down : BOOLEAN]
    BY <1>1
  <2>2. raw = {} /\ IsFiniteSet(raw) /\ events \in Seq(Event)
    BY FS_EmptySet, EmptySeq DEF KeysInit
  <2>3. seen \subseteq Nav /\ lost \subseteq KeysOf /\ endWas \in BOOLEAN
    BY DEF KeysInit
  <2> QED BY <2>1, <2>2, <2>3 DEF KeysTypeOK, Latched
<1>4. ASSUME NEW k \in KeysOf PROVE Agrees(k)
  <2>1. ~TakenDown(k)
    BY <1>1, <1>2 DEF TakenDown, Believed
  <2>2. Len(events) = 0
    BY EmptySeq DEF KeysInit
  <2> QED BY <2>1, <2>2 DEF Agrees, Alternates, TakenDown
<1> QED BY <1>3, <1>4 DEF KeysInv

LEMMA ScanInv ==
  ASSUME KeysInv, NEW k \in Nav, Scan(k)
  PROVE  KeysInv'
<1>1. KeysTypeOK /\ Latched
  BY DEF KeysInv
<1>2. /\ \A e \in raw : e.code # k
      /\ raw' = raw \cup {Edge(k)} /\ seen' = Now(k) /\ UNCHANGED <<down, endWas, events, ui, lost>>
      /\ (k \in seen) # (k \in down)
  BY DEF Scan
<1>3. /\ Edge(k) \in [code : Nav, down : BOOLEAN] /\ Edge(k).code = k
      /\ Edge(k).down <=> k \in seen'
      /\ Edge(k) = IF k \in seen THEN Release(k) ELSE Press(k)
  BY <1>2 DEF Edge, Now, Press, Release
<1>4. /\ k \in seen' <=> k \notin seen
      /\ \A l \in Nav \ {k} : l \in seen' <=> l \in seen
      /\ seen' \subseteq Nav
  BY <1>1, <1>2 DEF Now, KeysTypeOK
<1>5. KeysTypeOK'
  <2>1. IsFiniteSet(raw')
    BY <1>1, <1>2, FS_AddElement DEF KeysTypeOK
  <2> QED BY <1>1, <1>2, <1>3, <1>4, <2>1 DEF KeysTypeOK
<1>6. Latched'
  <2>1. \A e \in raw : e.code \in Nav \ {k}
    BY <1>1, <1>2 DEF KeysTypeOK
  <2> QED BY <1>1, <1>2, <1>3, <1>4, <2>1 DEF Latched
<1>7. ASSUME NEW l \in KeysOf \ lost PROVE Agrees(l)'
  <2>1. Agrees(l)
    BY <1>7 DEF KeysInv
  <2>2. TakenDown(l)' = TakenDown(l) /\ Believed' = Believed
    BY <1>2 DEF TakenDown, Believed
  <2>3. Owed(l) => Owed(l)'
    <3>1. CASE l = End
      BY <1>2, <3>1 DEF Owed
    <3>2. CASE l # End
      <4>1. l \in Nav
        BY <3>2 DEF KeysOf
      <4>2. CASE l = k
        BY <1>2, <1>3, <3>2, <4>2 DEF Owed, Press, Release
      <4>3. CASE l # k
        <5>1. Press(l) \in raw' <=> Press(l) \in raw
          BY <1>2, <1>3, <4>3 DEF Press
        <5> QED BY <1>2, <1>4, <3>2, <4>1, <4>3, <5>1 DEF Owed
      <4> QED BY <4>2, <4>3
    <3> QED BY <3>1, <3>2
  <2>4. Alternates(events, l, TakenDown(l), Owed(l)')
    BY <2>1, <2>3 DEF Agrees, Alternates
  <2> QED BY <1>2, <2>1, <2>2, <2>4 DEF Agrees
<1> QED BY <1>2, <1>5, <1>6, <1>7 DEF KeysInv

\* The user, the pause of the scan and the screen change nothing of this.
LEMMA QuietInv ==
  ASSUME KeysInv, UNCHANGED <<seen, raw, endWas, events, lost>>,
         ui' \in [dark : BOOLEAN, swallow : {ui.swallow}, held : {ui.held}, end_down : {ui.end_down}]
  PROVE  KeysInv'
<1>1. KeysTypeOK'
  BY DEF KeysInv, KeysTypeOK
<1>2. Latched'
  BY DEF KeysInv, Latched
<1>3. ui'.swallow = ui.swallow /\ ui'.held = ui.held /\ ui'.end_down = ui.end_down
  OBVIOUS
<1>4. ASSUME NEW k \in KeysOf \ lost PROVE Agrees(k)'
  <2>1. Agrees(k)
    BY <1>4 DEF KeysInv
  <2>2. Believed' = Believed
    BY <1>3 DEF Believed
  <2>3. TakenDown(k)' = TakenDown(k) /\ Owed(k)' = Owed(k)
    BY <1>3, <2>2 DEF TakenDown, Owed
  <2> QED BY <1>3, <2>1, <2>2, <2>3 DEF Agrees
<1> QED BY <1>1, <1>2, <1>4 DEF KeysInv

\* keypad_isr puts presses before releases, each latched edge once.
LEMMA OrderedOnce ==
  ASSUME NEW S, IsFiniteSet(S), NEW es \in Ordered(S)
  PROVE  es \in Seq(S) /\ \A i, j \in 1 .. Len(es) : es[i] = es[j] => i = j
<1> DEFINE P == {e \in S : e.down}
           R == {e \in S : ~e.down}
<1>1. PICK p \in SetToSeqs(P), r \in SetToSeqs(R) : es = p \o r
  BY DEF Ordered
<1>2. Cardinality(P) \in Nat /\ Cardinality(R) \in Nat
  BY FS_Subset, FS_CardinalityType
<1> DEFINE c == Cardinality(P)
           d == Cardinality(R)
<1>3. /\ p \in [1 .. c -> P] /\ \A i, j \in 1 .. c : i # j => p[i] # p[j]
      /\ r \in [1 .. d -> R] /\ \A i, j \in 1 .. d : i # j => r[i] # r[j]
  BY <1>1 DEF SetToSeqs
<1>4. P \subseteq S /\ R \subseteq S /\ \A e \in P, f \in R : e # f
  OBVIOUS
<1> HIDE DEF P, R, c, d
<1>5. c \in Nat /\ d \in Nat
  BY <1>2 DEF c, d
<1>6. p \in Seq(S) /\ Len(p) = c /\ r \in Seq(S) /\ Len(r) = d
  BY <1>3, <1>4, <1>5
<1>7. /\ es \in Seq(S) /\ Len(es) = c + d
      /\ \A i \in 1 .. c + d : es[i] = IF i <= c THEN p[i] ELSE r[i - c]
  BY <1>1, <1>6, ConcatProperties
<1>8. ASSUME NEW i \in 1 .. c + d, NEW j \in 1 .. c + d, es[i] = es[j] PROVE i = j
  <2>1. CASE i <= c /\ j <= c
    BY <1>3, <1>5, <1>7, <1>8, <2>1
  <2>2. CASE i <= c /\ j > c
    <3>1. i \in 1 .. c /\ j - c \in 1 .. d
      BY <1>5, <2>2
    <3> QED BY <1>3, <1>4, <1>5, <1>7, <1>8, <2>2, <3>1
  <2>3. CASE i > c /\ j <= c
    <3>1. j \in 1 .. c /\ i - c \in 1 .. d
      BY <1>5, <2>3
    <3> QED BY <1>3, <1>4, <1>5, <1>7, <1>8, <2>3, <3>1
  <2>4. CASE i > c /\ j > c
    <3>1. i - c \in 1 .. d /\ j - c \in 1 .. d
      BY <1>5, <2>4
    <3>2. r[i - c] = r[j - c]
      BY <1>5, <1>7, <1>8, <2>4
    <3>3. i - c = j - c
      BY <1>3, <3>1, <3>2
    <3> QED BY <1>5, <3>3
  <2> QED BY <1>5, <2>1, <2>2, <2>3, <2>4
<1> QED BY <1>7, <1>8

\* What fits into the queue is a first part of what is posted.
LEMMA PostedPart ==
  ASSUME NEW S, NEW es \in Seq(S), NEW q, Len(q) \in Nat
  PROVE  \E n \in 0 .. Len(es) :
           /\ Posted(q, es) = q \o SubSeq(es, 1, n)
           /\ SubSeq(es, 1, n) \in Seq(S) /\ Len(SubSeq(es, 1, n)) = n
           /\ \A i \in 1 .. n : SubSeq(es, 1, n)[i] = es[i] /\ i \in 1 .. Len(es)
           /\ n = Len(es) \/ Len(q) + n >= QueueSize
<1> DEFINE l == Len(es)
           c == Len(q)
<1>1. l \in Nat /\ c \in Nat /\ QueueSize \in Nat
  BY LenProperties, KeysAssumption
<1>2. ASSUME NEW n \in 0 .. l
      PROVE  /\ SubSeq(es, 1, n) \in Seq(S) /\ Len(SubSeq(es, 1, n)) = n
             /\ \A i \in 1 .. n : SubSeq(es, 1, n)[i] = es[i] /\ i \in 1 .. l
  <2>1. n \in Int /\ 1 \in Int /\ \A i \in 1 .. n : i \in 1 .. l /\ es[i] \in S
    BY <1>1, ElementOfSeq
  <2>2. /\ SubSeq(es, 1, n) \in Seq(S)
        /\ Len(SubSeq(es, 1, n)) = IF 1 <= n THEN n - 1 + 1 ELSE 0
        /\ \A i \in 1 .. n - 1 + 1 : SubSeq(es, 1, n)[i] = es[1 + i - 1]
    BY <2>1, SubSeqProperties
  <2>3. (IF 1 <= n THEN n - 1 + 1 ELSE 0) = n /\ n - 1 + 1 = n /\ \A i \in 1 .. n : 1 + i - 1 = i
    BY <1>1
  <2>4. Len(SubSeq(es, 1, n)) = n
    BY <2>2, <2>3
  <2>5. \A i \in 1 .. n : SubSeq(es, 1, n)[i] = es[i]
    BY <2>2, <2>3
  <2> QED BY <2>1, <2>2, <2>4, <2>5
<1>3. CASE c + l <= QueueSize
  <2>1. Posted(q, es) = q \o SubSeq(es, 1, l)
    BY <1>3, SubSeqFull DEF Posted
  <2> QED BY <1>1, <1>2, <2>1
<1>4. CASE c + l > QueueSize /\ QueueSize - c >= 0
  <2>1. QueueSize - c \in 0 .. l /\ c + (QueueSize - c) >= QueueSize
    BY <1>1, <1>4
  <2>2. Posted(q, es) = q \o SubSeq(es, 1, QueueSize - c)
    BY <1>1, <1>4 DEF Posted
  <2> QED BY <1>2, <2>1, <2>2
<1>5. CASE c + l > QueueSize /\ QueueSize - c < 0
  <2>1. Posted(q, es) = q \o SubSeq(es, 1, QueueSize - c)
    BY <1>1, <1>5 DEF Posted
  <2>2. SubSeq(es, 1, QueueSize - c) = <<>> /\ SubSeq(es, 1, 0) = <<>>
    BY <1>1, <1>5, SubSeqEmpty
  <2>3. 0 \in 0 .. l /\ c + 0 >= QueueSize
    BY <1>1, <1>5
  <2> QED BY <1>2, <2>1, <2>2, <2>3
<1>6. \/ c + l <= QueueSize
      \/ c + l > QueueSize /\ QueueSize - c >= 0
      \/ c + l > QueueSize /\ QueueSize - c < 0
  BY <1>1
<1> QED BY <1>3, <1>4, <1>5, <1>6, Zenon

LEMMA IsrPosts ==
  ASSUME KeysTypeOK, Latched, Isr
  PROVE  \E s \in Seq(raw), missed \in SUBSET {k \in Nav : (k \in seen) # (k \in down)} :
           /\ \A i, j \in 1 .. Len(s) : s[i].code = s[j].code => i = j
           /\ raw' = {} /\ events' = events \o s
           /\ seen' = {k \in Nav : IF k \in missed THEN k \in down ELSE k \in seen}
           /\ lost' = lost \cup (Released(raw) \ Released({s[i] : i \in 1 .. Len(s)}))
                           \cup (missed \ down)
<1>1. PICK missed \in SUBSET {k \in Nav : scanOn /\ (k \in seen) # (k \in down)},
           bad \in BOOLEAN, es \in Ordered(raw) :
        /\ seen' = {k \in Nav : IF k \in missed THEN k \in down ELSE k \in seen}
        /\ events' = IF bad THEN events ELSE Posted(events, es)
        /\ lost' = lost \cup (Released(raw) \ Released(Taken(es, events'))) \cup (missed \ down)
  BY DEF Isr
<1>2. /\ missed \in SUBSET {k \in Nav : (k \in seen) # (k \in down)} /\ raw' = {}
      /\ IsFiniteSet(raw) /\ events \in Seq(Event) /\ Len(events) \in Nat
  BY LenProperties DEF Isr, KeysTypeOK
<1>3. raw \subseteq Event
  BY DEF KeysTypeOK, Event, KeysOf
<1>4. es \in Seq(raw) /\ \A i, j \in 1 .. Len(es) : es[i] = es[j] => i = j
  BY <1>2, OrderedOnce
<1>6. PICK s \in Seq(raw) :
        /\ events' = events \o s /\ Taken(es, events') = {s[i] : i \in 1 .. Len(s)}
        /\ \A i, j \in 1 .. Len(s) : s[i] = s[j] => i = j
  <2>1. CASE bad
    <3>1. events' = events /\ Len(events') - Len(events) = 0
      BY <1>1, <1>2, <2>1
    <3>2. Taken(es, events') = {}
      BY <3>1 DEF Taken
    <3>3. <<>> \in Seq(raw) /\ Len(<<>>) = 0 /\ events \o <<>> = events
      BY <1>2, EmptySeq, ConcatEmptySeq
    <3> DEFINE none == <<>>
    <3>4. none \in Seq(raw) /\ Len(none) = 0 /\ events \o none = events
      BY <3>3
    <3> HIDE DEF none
    <3>5. {none[i] : i \in 1 .. Len(none)} = {} /\ 1 .. Len(none) = {}
      BY <3>4
    <3> QED BY <3>1, <3>2, <3>4, <3>5
  <2>2. CASE ~bad
    <3>1. PICK n \in 0 .. Len(es) :
            /\ Posted(events, es) = events \o SubSeq(es, 1, n)
            /\ SubSeq(es, 1, n) \in Seq(raw) /\ Len(SubSeq(es, 1, n)) = n
            /\ \A i \in 1 .. n : SubSeq(es, 1, n)[i] = es[i] /\ i \in 1 .. Len(es)
            /\ n = Len(es) \/ Len(events) + n >= QueueSize
      BY <1>2, <1>4, PostedPart, Zenon
    <3> DEFINE s == SubSeq(es, 1, n)
    <3>2. /\ events' = events \o s /\ s \in Seq(raw) /\ Len(s) = n /\ n \in Nat
          /\ \A i \in 1 .. n : s[i] = es[i] /\ i \in 1 .. Len(es)
      <4>1. events' = Posted(events, es)
        BY <1>1, <2>2
      <4>2. n \in Nat
        BY <1>4, LenProperties
      <4> QED BY <3>1, <4>1, <4>2, Zenon
    <3> HIDE DEF s
    <3>4. Len(events') - Len(events) = n
      <4>1. s \in Seq(Event)
        BY <1>3, <3>2
      <4>2. Len(events \o s) = Len(events) + Len(s)
        BY <1>2, <4>1, ConcatProperties
      <4>3. \A a, b \in Nat : a + b - a = b
        OBVIOUS
      <4> QED BY <1>2, <3>2, <4>2, <4>3
    <3>5. Taken(es, events') = {s[i] : i \in 1 .. n}
      BY <3>2, <3>4 DEF Taken
    <3>6. \A i, j \in 1 .. n : s[i] = s[j] => i = j
      BY <1>4, <3>2
    <3> QED BY <3>2, <3>5, <3>6
  <2> QED BY <2>1, <2>2
<1>7. \A i, j \in 1 .. Len(s) : s[i].code = s[j].code => i = j
  BY <1>6, ElementOfSeq DEF Latched
<1> QED BY <1>1, <1>2, <1>6, <1>7

LEMMA IsrInv ==
  ASSUME KeysInv, Isr, UNCHANGED <<down, endWas, ui>>
  PROVE  KeysInv'
<1>1. KeysTypeOK /\ Latched
  BY DEF KeysInv
<1>2. PICK s \in Seq(raw), missed \in SUBSET {k \in Nav : (k \in seen) # (k \in down)} :
        /\ \A i, j \in 1 .. Len(s) : s[i].code = s[j].code => i = j
        /\ raw' = {} /\ events' = events \o s
        /\ seen' = {k \in Nav : IF k \in missed THEN k \in down ELSE k \in seen}
        /\ lost' = lost \cup (Released(raw) \ Released({s[i] : i \in 1 .. Len(s)}))
                        \cup (missed \ down)
  BY <1>1, IsrPosts
<1>3. /\ raw \subseteq Event /\ raw \subseteq [code : Nav, down : BOOLEAN]
      /\ s \in Seq(Event) /\ events \in Seq(Event) /\ Nav \subseteq KeysOf
      /\ \A i \in 1 .. Len(s) : s[i] \in raw
  <2>1. raw \subseteq Event /\ raw \subseteq [code : Nav, down : BOOLEAN] /\ Nav \subseteq KeysOf
    BY <1>1 DEF KeysTypeOK, Event, KeysOf
  <2>2. s \in Seq(Event)
    BY <2>1
  <2> QED BY <1>1, <2>1, <2>2, ElementOfSeq DEF KeysTypeOK
<1>4. KeysTypeOK'
  <2>1. raw' \subseteq [code : Nav, down : BOOLEAN] /\ IsFiniteSet(raw')
    BY <1>2, FS_EmptySet
  <2>2. events' \in Seq(Event)
    BY <1>2, <1>3, ConcatProperties
  <2>3. seen' \subseteq Nav
    BY <1>2
  <2>4. lost' \subseteq KeysOf
    <3>1. Released(raw) \subseteq Nav
      BY <1>3 DEF Released
    <3> QED BY <1>1, <1>2, <1>3, <3>1 DEF KeysTypeOK
  <2> QED BY <1>1, <2>1, <2>2, <2>3, <2>4 DEF KeysTypeOK
<1>5. Latched'
  BY <1>2 DEF Latched
<1>6. ASSUME NEW k \in KeysOf \ lost' PROVE Agrees(k)'
  <2>1. Agrees(k) /\ (k \in missed => k \in down)
    BY <1>2, <1>6 DEF KeysInv
  <2>2. TakenDown(k)' = TakenDown(k) /\ Believed' = Believed
    BY DEF TakenDown, Believed
  <2>3. TakenDown(k) \in BOOLEAN /\ Owed(k) \in BOOLEAN /\ Owed(k)' \in BOOLEAN
    BY <1>1, <1>4 DEF TakenDown, Owed, KeysTypeOK
  <2>4. CASE Release(k) \in raw
    <3>1. k \in Released(raw)
      BY <2>4 DEF Released, Release
    <3>2. PICK a \in 1 .. Len(s) : ~s[a].down /\ s[a].code = k
      BY <1>2, <1>6, <3>1 DEF Released
    <3>3. s[a] = Release(k)
      BY <1>3, <3>2, EventOfKey
    <3>4. \A i \in 1 .. Len(s) : s[i] # Press(k)
      <4> SUFFICES ASSUME NEW i \in 1 .. Len(s), s[i] = Press(k) PROVE FALSE
        OBVIOUS
      <4>1. s[i].code = k /\ s[i].down
        BY DEF Press
      <4> QED BY <1>2, <3>2, <4>1
    <3>5. Alternates(events', k, TakenDown(k), Owed(k)')
      BY <1>2, <1>3, <2>1, <2>3, <3>3, <3>4, JoinRelease DEF Agrees
    <3> QED BY <2>1, <2>2, <3>5 DEF Agrees
  <2>5. CASE Press(k) \in raw
    <3>1. Press(k).code = k /\ Press(k).down /\ Release(k).code = k /\ ~Release(k).down
      BY DEF Press, Release
    <3>2. k \in Nav /\ k \in seen /\ Release(k) \notin raw /\ k # End
      <4>1. k \in Nav
        BY <1>3, <2>5, <3>1
      <4> QED BY <1>1, <2>5, <3>1, <4>1, KeysAssumption DEF Latched, End
    <3>3. ~Owed(k)
      BY <2>5, <3>2 DEF Owed
    <3>4. Owed(k)'
      <4>1. k \in seen'
        BY <1>2, <2>1, <3>2
      <4> QED BY <1>2, <3>2, <4>1 DEF Owed
    <3>5. Alternates(events, k, TakenDown(k), FALSE)
      BY <2>1, <3>3 DEF Agrees, Alternates
    <3>6. \A i \in 1 .. Len(s) : s[i] # Release(k)
      BY <1>3, <3>2
    <3>7. Alternates(events', k, TakenDown(k), TRUE)
      <4>1. CASE \E a \in 1 .. Len(s) : s[a] = Press(k)
        <5>1. PICK a \in 1 .. Len(s) : s[a] = Press(k)
          BY <4>1
        <5>2. \A i \in 1 .. Len(s) : i # a => s[i] \notin {Press(k), Release(k)}
          BY <1>2, <3>6, <5>1
        <5>3. Alternates(events \o s, k, TakenDown(k), TRUE)
          BY <1>3, <2>3, <3>5, <5>1, <5>2, JoinPress
        <5> QED BY <1>2, <5>3
      <4>2. CASE \A a \in 1 .. Len(s) : s[a] # Press(k)
        <5>1. \A a \in 1 .. Len(s) : s[a] \notin {Press(k), Release(k)}
          BY <3>6, <4>2
        <5>2. Alternates(events \o s, k, TakenDown(k), FALSE)
          BY <1>3, <2>3, <3>5, <5>1, JoinNone
        <5> QED BY <1>2, <5>2, <2>3, AlternatesMore
      <4> QED BY <4>1, <4>2
    <3> QED BY <2>1, <2>2, <3>4, <3>7 DEF Agrees, Alternates
  <2>6. CASE Release(k) \notin raw /\ Press(k) \notin raw
    <3>1. \A i \in 1 .. Len(s) : s[i] \notin {Press(k), Release(k)}
      BY <1>3, <2>6
    <3>2. Owed(k) => Owed(k)'
      <4>1. CASE k = End
        BY <4>1 DEF Owed
      <4>2. CASE k # End
        <5>1. k \in Nav
          BY <4>2 DEF KeysOf
        <5>2. k \in seen => k \in seen'
          BY <1>2, <2>1, <5>1
        <5> QED BY <1>2, <2>6, <4>2, <5>2 DEF Owed
      <4> QED BY <4>1, <4>2
    <3>3. Alternates(events', k, TakenDown(k), Owed(k))
      <4>1. Alternates(events, k, TakenDown(k), Owed(k))
        BY <2>1 DEF Agrees
      <4>2. Alternates(events \o s, k, TakenDown(k), Owed(k))
        BY ONLY <1>3, <2>3, <3>1, <4>1, JoinNone
      <4> QED BY ONLY <1>2, <4>2
    <3>4. Alternates(events', k, TakenDown(k), Owed(k)')
      BY <2>3, <3>2, <3>3, AlternatesMore
    <3> QED BY <2>1, <2>2, <3>4 DEF Agrees
  <2> QED BY <2>4, <2>5, <2>6
<1> QED BY <1>4, <1>5, <1>6 DEF KeysInv

LEMMA EndPollInv ==
  ASSUME KeysInv, EndPoll
  PROVE  KeysInv'
<1>1. KeysTypeOK /\ Latched
  BY DEF KeysInv
<1> DEFINE e == IF endWas' THEN Press(End) ELSE Release(End)
           got == IF Len(events) < QueueSize THEN Released({e}) ELSE {}
<1>2. /\ endWas # (End \in down) /\ endWas' = (End \in down)
      /\ events' = Posted(events, <<e>>) /\ lost' = lost \cup (Released({e}) \ got)
      /\ UNCHANGED <<down, seen, raw, scanOn, ui>>
  BY DEF EndPoll
<1>3. endWas' = ~endWas /\ endWas' \in BOOLEAN
  BY <1>1, <1>2 DEF KeysTypeOK
<1>4. e \in Event /\ e.code = End /\ e.down = endWas'
  BY <1>3 DEF Event, Press, Release, KeysOf
<1>5. Released({e}) = IF endWas' THEN {} ELSE {End}
  BY <1>4 DEF Released
<1>6. e = IF endWas' THEN Press(End) ELSE Release(End)
  OBVIOUS
<1> HIDE DEF e
<1>7. events \in Seq(Event) /\ Len(events) \in Nat /\ QueueSize \in Nat
  BY <1>1, LenProperties, KeysAssumption DEF KeysTypeOK
<1>8. PICK s \in Seq(Event) :
        /\ events' = events \o s
        /\ \/ Len(s) = 0 /\ Len(events) >= QueueSize
           \/ Len(s) = 1 /\ s[1] = e
  <2> DEFINE es == <<e>>
  <2>1. es \in Seq(Event) /\ Len(es) = 1 /\ es[1] = e
    BY <1>4
  <2> HIDE DEF es
  <2>2. events' = Posted(events, es)
    BY <1>2 DEF es
  <2>3. PICK n \in 0 .. Len(es) :
          /\ Posted(events, es) = events \o SubSeq(es, 1, n)
          /\ SubSeq(es, 1, n) \in Seq(Event) /\ Len(SubSeq(es, 1, n)) = n
          /\ \A i \in 1 .. n : SubSeq(es, 1, n)[i] = es[i] /\ i \in 1 .. Len(es)
          /\ n = Len(es) \/ Len(events) + n >= QueueSize
    BY <1>7, <2>1, PostedPart, Zenon
  <2>4. n = 0 \/ n = 1
    BY <2>1
  <2>5. n = 0 => Len(events) >= QueueSize
    BY <1>7, <2>1, <2>3
  <2>6. n = 1 => SubSeq(es, 1, n)[1] = e
    BY <2>1, <2>3
  <2> QED BY <2>2, <2>3, <2>4, <2>5, <2>6
<1>9. KeysTypeOK'
  <2>1. events' \in Seq(Event)
    BY <1>7, <1>8, ConcatProperties
  <2>2. lost' \subseteq KeysOf
    BY <1>1, <1>2, <1>5 DEF KeysTypeOK, KeysOf
  <2> QED BY <1>1, <1>2, <1>3, <2>1, <2>2 DEF KeysTypeOK
<1>10. Latched'
  BY <1>1, <1>2 DEF Latched
<1>11. ASSUME NEW k \in KeysOf \ lost' PROVE Agrees(k)'
  <2>1. Agrees(k)
    BY <1>2, <1>11 DEF KeysInv
  <2>2. TakenDown(k)' = TakenDown(k) /\ Believed' = Believed
    BY <1>2 DEF TakenDown, Believed
  <2>3. TakenDown(k) \in BOOLEAN /\ Owed(k) \in BOOLEAN
    BY <1>1 DEF TakenDown, Owed, KeysTypeOK
  <2>4. CASE k # End
    <3>1. Owed(k)' = Owed(k)
      BY <1>2, <2>4 DEF Owed
    <3>2. e \notin {Press(k), Release(k)}
      BY <1>4, <2>4 DEF Press, Release
    <3>3. \A i \in 1 .. Len(s) : s[i] \notin {Press(k), Release(k)}
      BY <1>8, <3>2
    <3>4. Alternates(events \o s, k, TakenDown(k), Owed(k))
      BY <1>7, <2>1, <2>3, <3>3, JoinNone DEF Agrees
    <3> QED BY <1>2, <1>8, <2>1, <2>2, <3>1, <3>4 DEF Agrees
  <2>5. CASE k = End /\ endWas'
    <3>1. Owed(k)' /\ ~Owed(k)
      BY <1>3, <2>5 DEF Owed
    <3>2. Alternates(events, k, TakenDown(k), FALSE)
      BY <2>1, <3>1 DEF Agrees, Alternates
    <3>3. Alternates(events \o s, k, TakenDown(k), TRUE)
      <4>1. CASE Len(s) = 0
        <5>1. \A i \in 1 .. Len(s) : s[i] \notin {Press(k), Release(k)}
          BY <4>1
        <5>2. Alternates(events \o s, k, TakenDown(k), FALSE)
          BY <1>7, <2>3, <3>2, <5>1, JoinNone
        <5> QED BY <2>3, <5>2, AlternatesMore
      <4>2. CASE Len(s) = 1 /\ s[1] = e
        <5>1. 1 \in 1 .. Len(s) /\ s[1] = Press(k) /\ \A i \in 1 .. Len(s) : i = 1
          BY <1>6, <2>5, <4>2
        <5> QED BY <1>7, <2>3, <3>2, <5>1, JoinPress
      <4> QED BY <1>8, <4>1, <4>2
    <3> QED BY <1>2, <1>8, <2>1, <2>2, <3>1, <3>3, ZenonT(30) DEF Agrees, Alternates
  <2>6. CASE k = End /\ ~endWas'
    <3>1. Len(events) < QueueSize
      BY <1>2, <1>5, <1>11, <2>6
    <3>2. Len(s) = 1 /\ s[1] = Release(k)
      BY <1>6, <1>7, <1>8, <2>6, <3>1
    <3>3. 1 \in 1 .. Len(s) /\ \A i \in 1 .. Len(s) : s[i] # Press(k)
      BY <3>2, PressIsNoRelease
    <3>4. Alternates(events \o s, k, TakenDown(k), FALSE)
      BY <1>7, <2>1, <2>3, <3>2, <3>3, JoinRelease DEF Agrees
    <3>5. Owed(k)' \in BOOLEAN
      BY <1>3, <2>6 DEF Owed
    <3>6. Alternates(events \o s, k, TakenDown(k), Owed(k)')
      BY <2>3, <3>4, <3>5, AlternatesMore
    <3> QED BY <1>2, <1>8, <2>1, <2>2, <3>6 DEF Agrees
  <2> QED BY <2>4, <2>5, <2>6
<1> QED BY <1>9, <1>10, <1>11 DEF KeysInv

LEMMA GetInv ==
  ASSUME KeysInv, Get
  PROVE  KeysInv'
<1>1. KeysTypeOK /\ Latched
  BY DEF KeysInv
<1> DEFINE e == Head(events)
<1>2. /\ events # <<>> /\ events' = Tail(events) /\ ui' = on_key(e, ui)
      /\ lost' = IF e.down \/ e.code = ui.swallow \/ Press(e.code) \in Range(events')
                 THEN lost ELSE lost \ {e.code}
      /\ UNCHANGED <<down, seen, raw, scanOn, endWas>>
  BY DEF Get
<1>3. /\ events \in Seq(Event) /\ Tail(events) \in Seq(Event) /\ e \in Event
      /\ ui \in [dark : BOOLEAN, swallow : KeysOf \cup {None}, held : Nav \cup {None},
                 end_down : BOOLEAN]
  BY <1>1, <1>2, HeadTailProperties DEF KeysTypeOK
<1>4. /\ e.code \in KeysOf /\ e.down \in BOOLEAN
      /\ e = IF e.down THEN Press(e.code) ELSE Release(e.code)
  BY <1>3, EventOfKey DEF Event
<1> HIDE DEF e
<1>5. None \notin KeysOf /\ KeysOf = Nav \cup {End} /\ None # End
  BY KeysAssumption DEF KeysOf, None, End
\* What the UI makes of the event.
<1>6. /\ ui' \in [dark : BOOLEAN, swallow : KeysOf \cup {None}, held : Nav \cup {None},
                  end_down : BOOLEAN]
      /\ \A k \in KeysOf \ {e.code} :
           (k = ui'.swallow => k = ui.swallow) /\ (k \in Believed' => k \in Believed)
      /\ \/ e.down /\ ui'.swallow = e.code /\ Believed' = Believed
         \/ e.down /\ ui'.swallow = ui.swallow
         \/ ~e.down /\ ui.swallow = e.code /\ ui'.swallow = None /\ Believed' = Believed
         \/ ~e.down /\ ui.swallow # e.code /\ ui'.swallow = ui.swallow /\ e.code \notin Believed'
  <2>1. CASE Wakes(e, ui)
    <3>1. ui' = [ui EXCEPT !.dark = FALSE, !.swallow = e.code]
      BY <1>2, <2>1 DEF on_key
    <3>2. /\ ui' \in [dark : BOOLEAN, swallow : KeysOf \cup {None}, held : Nav \cup {None},
                      end_down : BOOLEAN]
          /\ ui'.swallow = e.code /\ ui'.held = ui.held /\ ui'.end_down = ui.end_down
      BY <1>3, <1>4, <3>1
    <3> QED BY <2>1, <3>2 DEF Wakes, Believed
  <2>2. CASE ~Wakes(e, ui) /\ ~e.down /\ e.code = ui.swallow
    <3>1. ui' = [ui EXCEPT !.swallow = None]
      BY <1>2, <2>2 DEF on_key
    <3>2. /\ ui' \in [dark : BOOLEAN, swallow : KeysOf \cup {None}, held : Nav \cup {None},
                      end_down : BOOLEAN]
          /\ ui'.swallow = None /\ ui'.held = ui.held /\ ui'.end_down = ui.end_down
      BY <1>3, <3>1
    <3> QED BY <1>5, <2>2, <3>2 DEF Believed
  <2>3. CASE ~Wakes(e, ui) /\ ~(~e.down /\ e.code = ui.swallow) /\ e.code = End
    <3>1. ui' = [ui EXCEPT !.end_down = e.down]
      BY <1>2, <2>3 DEF on_key
    <3>2. /\ ui' \in [dark : BOOLEAN, swallow : KeysOf \cup {None}, held : Nav \cup {None},
                      end_down : BOOLEAN]
          /\ ui'.swallow = ui.swallow /\ ui'.held = ui.held /\ ui'.end_down = e.down
      BY <1>3, <1>4, <3>1
    <3>3. End # ui.held
      BY <1>3, <1>5, KeysAssumption DEF End
    <3> QED BY <1>4, <1>5, <2>3, <3>2, <3>3 DEF Believed
  <2>4. CASE ~Wakes(e, ui) /\ ~(~e.down /\ e.code = ui.swallow) /\ e.code # End
    <3>1. e.code \in Nav
      BY <1>4, <1>5, <2>4
    <3> DEFINE h == IF e.down THEN e.code ELSE IF ui.held = e.code THEN None ELSE ui.held
    <3>2. h \in Nav \cup {None} /\ h \in {e.code, None, ui.held} /\ (~e.down => h # e.code)
      BY <1>3, <1>4, <1>5, <3>1
    <3>3. ui' = [ui EXCEPT !.held = h]
      BY <1>2, <2>4 DEF on_key
    <3> HIDE DEF h
    <3>4. /\ ui' \in [dark : BOOLEAN, swallow : KeysOf \cup {None}, held : Nav \cup {None},
                      end_down : BOOLEAN]
          /\ ui'.swallow = ui.swallow /\ ui'.held = h /\ ui'.end_down = ui.end_down
      BY <1>3, <3>2, <3>3
    <3> QED BY <1>4, <1>5, <2>4, <3>2, <3>4 DEF Believed
  <2> QED BY <2>1, <2>2, <2>3, <2>4
<1>7. KeysTypeOK'
  BY <1>1, <1>2, <1>3, <1>6 DEF KeysTypeOK
<1>8. Latched'
  BY <1>1, <1>2 DEF Latched
<1>9. ASSUME NEW k \in KeysOf \ lost' PROVE Agrees(k)'
  <2>1. Owed(k)' = Owed(k)
    BY <1>2 DEF Owed
  <2>2. /\ TakenDown(k) \in BOOLEAN /\ Owed(k) \in BOOLEAN /\ TakenDown(k)' \in BOOLEAN
    BY <1>1 DEF TakenDown, Owed, KeysTypeOK
  <2>3. CASE k \in lost
    <3>1. ~e.down /\ k = e.code /\ k # ui.swallow /\ Press(k) \notin Range(events')
      BY <1>2, <1>9, <2>3
    <3>2. ~TakenDown(k)'
      BY <1>6, <3>1 DEF TakenDown
    <3>3. \A i \in 1 .. Len(events') : events'[i] # Press(k)
      BY <1>2, <1>3, <3>1, LenProperties DEF Range
    <3>4. Alternates(events', k, FALSE, Owed(k))
      BY <3>3 DEF Alternates
    <3> QED BY <2>1, <3>2, <3>4 DEF Agrees, TakenDown, Alternates
  <2>4. CASE k \notin lost
    <3>1. Agrees(k)
      BY <2>4, <1>9 DEF KeysInv
    <3>2. /\ e = Press(k) => ~TakenDown(k) /\ Alternates(events', k, TRUE, Owed(k))
          /\ Alternates(events', k, FALSE, Owed(k))
          /\ e \notin {Press(k), Release(k)} => Alternates(events', k, TakenDown(k), Owed(k))
      <4>1. Alternates(events, k, TakenDown(k), Owed(k))
        BY <3>1 DEF Agrees
      <4>2. /\ e = Press(k) => ~TakenDown(k) /\ Alternates(Tail(events), k, TRUE, Owed(k))
            /\ Alternates(Tail(events), k, FALSE, Owed(k))
            /\ e \notin {Press(k), Release(k)}
                 => Alternates(Tail(events), k, TakenDown(k), Owed(k))
        <5>1. events # <<>> /\ events \in Seq(Event)
          BY <1>2, <1>3
        <5>2. TakenDown(k) \in BOOLEAN /\ Owed(k) \in BOOLEAN
          BY <2>2
        <5> QED BY <4>1, <5>1, <5>2, TailAlternates DEF e
      <4> QED BY <1>2, <4>2
    <3>3. CASE e.code # k
      <4>1. e \notin {Press(k), Release(k)}
        BY <3>3 DEF Press, Release
      <4>2. (TakenDown(k)' => TakenDown(k)) /\ (k = ui'.swallow => k \notin Believed')
        BY <1>6, <1>9, <3>1, <3>3 DEF Agrees, TakenDown
      <4>3. Alternates(events', k, TakenDown(k)', Owed(k))
        BY <2>2, <3>2, <4>1, <4>2, AlternatesMore
      <4> QED BY <2>1, <4>2, <4>3 DEF Agrees
    <3>4. CASE e.code = k /\ e.down
      <4>1. ~TakenDown(k) /\ Alternates(events', k, TRUE, Owed(k))
        BY <1>4, <3>2, <3>4
      <4>2. Alternates(events', k, TakenDown(k)', Owed(k))
        BY <2>2, <4>1, AlternatesMore
      <4>3. k = ui'.swallow => k \notin Believed'
        BY <1>6, <3>4, <4>1 DEF TakenDown
      <4> QED BY <2>1, <4>2, <4>3 DEF Agrees
    <3>5. CASE e.code = k /\ ~e.down
      <4>1. ~TakenDown(k)'
        BY <1>5, <1>6, <3>1, <3>5 DEF TakenDown, Agrees
      <4>2. Alternates(events', k, FALSE, Owed(k))
        BY <3>2
      <4> QED BY <2>1, <4>1, <4>2 DEF Agrees, TakenDown, Alternates
    <3> QED BY <1>4, <3>3, <3>4, <3>5
  <2> QED BY <2>3, <2>4
<1> QED BY <1>7, <1>8, <1>9 DEF KeysInv

LEMMA KeysInductive == KeysInv /\ [KeysNext]_keyvars => KeysInv'
<1> SUFFICES ASSUME KeysInv, [KeysNext]_keyvars PROVE KeysInv'
  OBVIOUS
<1>1. ui \in [dark : BOOLEAN, swallow : KeysOf \cup {None}, held : Nav \cup {None},
              end_down : BOOLEAN]
  BY DEF KeysInv, KeysTypeOK
<1>2. ui \in [dark : BOOLEAN, swallow : {ui.swallow}, held : {ui.held}, end_down : {ui.end_down}]
  BY <1>1
<1>3. \A b \in BOOLEAN : [ui EXCEPT !.dark = b] \in
        [dark : BOOLEAN, swallow : {ui.swallow}, held : {ui.held}, end_down : {ui.end_down}]
  BY <1>2
<1>4. ASSUME NEW k \in KeysOf, Toggle(k) PROVE KeysInv'
  BY <1>2, <1>4, QuietInv DEF Toggle
<1>5. ASSUME NEW k \in Nav, Scan(k) PROVE KeysInv'
  BY <1>5, ScanInv
<1>6. CASE KeypadIsr \/ Resume
  BY <1>6, IsrInv DEF KeypadIsr, Resume
<1>7. CASE Pause
  BY <1>2, <1>7, QuietInv DEF Pause
<1>8. CASE EndPoll
  BY <1>8, EndPollInv
<1>9. CASE Get
  BY <1>9, GetInv
<1>10. CASE Dim \/ Woken
  BY <1>3, <1>10, QuietInv DEF Dim, Woken
<1>11. CASE UNCHANGED keyvars
  BY <1>2, <1>11, QuietInv DEF keyvars
<1> QED BY <1>4, <1>5, <1>6, <1>7, <1>8, <1>9, <1>10, <1>11 DEF KeysNext

\* A key the UI believes in while it is up, with no event of it anywhere, is one whose
\* release was lost (a full queue, a garbled scan, an edge between reading and clearing
\* int_raw): for any number of keys and any length of the queue, with the screen going
\* dark and being woken at any point.
THEOREM NothingGetsStuck == KeysSpec => []NothingStuck
<1>1. KeysInv => NothingStuck
  <2> SUFFICES ASSUME KeysInv, events = <<>>, raw = {}, seen = down \cap Nav,
                      endWas = (End \in down), NEW k \in Believed, k \notin lost
               PROVE  k \in down
    BY DEF NothingStuck
  <2>1. k \in KeysOf
    BY DEF Believed
  <2>2. Agrees(k) /\ TakenDown(k)
    BY <2>1 DEF KeysInv, TakenDown
  <2>3. Len(events) = 0
    BY EmptySeq
  <2>4. Owed(k)
    BY <2>2, <2>3 DEF Agrees, Alternates
  <2> QED BY <2>4 DEF Owed
<1> QED BY <1>1, KeysInitInv, KeysInductive, PTL DEF KeysSpec
-----------------------------------------------------------------------------
(* The DSP *)

Loading == {"load", "release", "ready", "block", "rtc", "done", "irq"}
Posting == {"post", "slot", "in"}
Feeding == {"records", "ask", "taken", "read"} \cup Posting
DrvType == [pc : {"out"} \cup Loading \cup Feeding, n : Nat, r : {"fi", "cmd"},
            in : Nat, out : Nat, state : {"off", "booting", "running", "failed"}, held : BOOLEAN]
ShareType == [arm : SUBSET {"ready", "data", "start", "boot"}, ctl : SUBSET {"ready", "rtc", "done"},
              data : Nat, rec : Nat]
Index(r) == 0 .. Slots[r] - 1
RingType(r) == [in : Index(r), out : Index(r), slot : [Index(r) -> [n : Nat, more : BOOLEAN]]]
RomType == [runs : BOOLEAN, l1 : BOOLEAN, ask : {"none", "boot", "data", "start"}, copied : Seq(Nat),
            posted : Nat, frames : Seq(Nat), records : Seq(Nat), results : Nat, got : Seq(Nat)]

DspTypes ==
  /\ drv \in DrvType /\ sm \in ShareType
  /\ ring \in [fi : RingType("fi"), cmd : RingType("cmd"), pm : RingType("pm")]
  /\ rom \in [reset : BOOLEAN, d : RomType]
  /\ irq \in [latch : BOOLEAN, line : BOOLEAN, moved : BOOLEAN]

\* The driver's states and the DSP's: it is loaded, runs, or is held in reset.
States ==
  /\ drv.state = "booting" <=> drv.pc \in Loading
  /\ drv.pc \in Feeding => rom.d.l1
  /\ rom.d.l1 => drv.state = "running"
  /\ drv.state = "running" => ~rom.reset /\ rom.d.runs /\ rom.d.ask = "none" /\ rom.d.copied = Upto(ProgramBlocks)
  /\ drv.state \in {"off", "failed"} \/ drv.pc \in {"load", "release"} => rom.reset
  /\ rom.reset => rom.d = Fresh
  /\ drv.held <=> drv.state \in {"running", "booting"}
  /\ ~rom.d.l1 => rom.d.posted = 0 /\ rom.d.frames = <<>> /\ rom.d.records = <<>>

\* The download: what the boot ROM has, and which edge it is to answer.
Download ==
  /\ drv.pc \in Loading => drv.n \in Nat \ {0} /\ ~rom.d.runs
  /\ drv.pc \in {"load", "release", "ready"} => drv.n = 1 /\ rom.d.copied = <<>>
  /\ drv.pc = "release" => sm.arm = {"ready"} /\ sm.ctl = {}
  /\ drv.pc = "ready" => /\ ~rom.reset /\ sm.arm = {"ready"}
                         /\ rom.d.ask = IF "ready" \in sm.ctl THEN "none" ELSE "boot"
                         /\ sm.ctl \subseteq {"ready"}
  /\ drv.pc = "block" => /\ ~rom.reset /\ rom.d.ask = "none" /\ drv.n <= ProgramBlocks + 1
                         /\ "data" \notin sm.arm /\ "start" \notin sm.arm /\ "rtc" \notin sm.ctl
                         /\ rom.d.copied = Upto(drv.n - 1)
  /\ drv.pc \in {"rtc", "done", "irq"} => ~rom.reset /\ drv.n <= ProgramBlocks /\ sm.data = drv.n
  /\ drv.pc = "rtc" => /\ sm.arm = {"ready", "data"}
                       /\ rom.d.ask = IF "rtc" \in sm.ctl THEN "none" ELSE "data"
                       /\ "rtc" \in sm.ctl => "done" \notin sm.ctl
                       /\ rom.d.copied = Upto(drv.n - 1)
  /\ drv.pc = "done" => /\ "start" \in sm.arm /\ "data" \notin sm.arm
                        /\ \/ rom.d.ask = "start" /\ "done" \notin sm.ctl /\ rom.d.copied = Upto(drv.n - 1)
                           \/ rom.d.ask = "none" /\ "rtc" \notin sm.ctl /\ rom.d.copied = Upto(drv.n)
  /\ drv.pc = "irq" => /\ rom.d.ask = "none" /\ "data" \notin sm.arm /\ "rtc" \notin sm.ctl
                       /\ rom.d.copied = Upto(drv.n)

\* How far index i of a ring is ahead of o, and the slot j after o.
Gap(r, i, o) == IF i >= o THEN i - o ELSE i - o + Slots[r]
SlotAfter(r, o, j) == IF o + j < Slots[r] THEN o + j ELSE o + j - Slots[r]

\* The frames on their way are those posted after the last one carried out.
Frames ==
  /\ rom.d.frames = Upto(Len(rom.d.frames))
  /\ rom.d.posted - Len(rom.d.frames) = Gap("fi", ring.fi.in, ring.fi.out)
  /\ \A j \in 1 .. Gap("fi", ring.fi.in, ring.fi.out) :
       ring.fi.slot[SlotAfter("fi", ring.fi.out, j)].n = Len(rom.d.frames) + j

\* The frame or record that is being posted has a slot of its own.
Posts ==
  /\ drv.pc \in {"slot", "in"} => drv.in = NextSlot(drv.r, ring[drv.r].in)
  /\ drv.pc \in Posting /\ drv.r = "fi" => drv.n = rom.d.posted + 1
  /\ drv.pc \in {"slot", "in"} /\ drv.r = "fi" => Gap("fi", ring.fi.in, ring.fi.out) < Slots.fi - 1
  /\ drv.pc = "in" /\ drv.r = "fi" => ring.fi.slot[drv.in].n = drv.n
  /\ drv.pc = "ask" => drv.r = "fi"
  /\ drv.pc = "taken" => drv.r = "cmd"

\* While records are sent nothing but the DSP's taking of one can interrupt.
Commands ==
  /\ rom.d.records = Upto(Len(rom.d.records))
  /\ ring.cmd.out # ring.cmd.in => /\ Gap("cmd", ring.cmd.in, ring.cmd.out) = 1
                                   /\ sm.rec = Len(rom.d.records) + 1
  /\ drv.pc \in {"records", "taken"} \/ (drv.pc \in Posting /\ drv.r = "cmd") =>
       rom.d.posted = 0 /\ drv.n \in Nat \ {0}
  /\ drv.pc = "records" => Len(rom.d.records) = drv.n - 1 /\ ring.cmd.out = ring.cmd.in
  /\ drv.pc \in Posting /\ drv.r = "cmd" =>
       /\ Len(rom.d.records) = drv.n - 1 /\ ring.cmd.out = ring.cmd.in /\ sm.rec = drv.n
       /\ ~irq.moved /\ ~(irq.line /\ irq.latch)
  /\ drv.pc = "taken" => sm.rec = drv.n /\
       IF ring.cmd.out = ring.cmd.in THEN Len(rom.d.records) = drv.n
       ELSE Len(rom.d.records) = drv.n - 1 /\ ~irq.moved /\ ~(irq.line /\ irq.latch)

\* Where the driver reads the results from.
ReadsFrom == IF drv.pc = "read" THEN drv.out ELSE ring.pm.out

\* The results on their way are those given after the last one read; while the driver
\* reads, it is between the two indexes it began with.
Results ==
  /\ rom.d.got = Upto(Len(rom.d.got))
  /\ ReadsFrom \in Index("pm")
  /\ rom.d.results - Len(rom.d.got) = Gap("pm", ring.pm.in, ReadsFrom)
  /\ \A j \in 1 .. Gap("pm", ring.pm.in, ReadsFrom) :
       ring.pm.slot[SlotAfter("pm", ReadsFrom, j)].n = Len(rom.d.got) + j
  /\ drv.pc = "read" =>
       /\ drv.in \in Index("pm")
       /\ Gap("pm", drv.out, ring.pm.out) + Gap("pm", drv.in, drv.out) + Gap("pm", ring.pm.in, drv.in)
            = Gap("pm", ring.pm.in, ring.pm.out)

DspInv == DspTypes /\ States /\ Download /\ (rom.d.l1 => Frames /\ Posts /\ Commands /\ Results)

LEMMA UptoIs ==
  ASSUME NEW n \in Nat
  PROVE  /\ Upto(n) \in Seq(Nat) /\ Len(Upto(n)) = n
         /\ Append(Upto(n), n + 1) = Upto(n + 1)
         /\ Upto(0) = <<>>
<1>1. Upto(n) \in Seq(Nat) /\ Len(Upto(n)) = n
  BY DEF Upto
<1>2. Upto(n + 1) \in Seq(Nat) /\ Len(Upto(n + 1)) = n + 1
  BY DEF Upto
<1>3. \A i \in 1 .. n + 1 : Append(Upto(n), n + 1)[i] = Upto(n + 1)[i]
  BY <1>1 DEF Upto
<1>4. Append(Upto(n), n + 1) \in Seq(Nat) /\ Len(Append(Upto(n), n + 1)) = n + 1
  BY <1>1, AppendProperties
<1>5. Append(Upto(n), n + 1) = Upto(n + 1)
  BY <1>2, <1>3, <1>4, SeqEqual
<1>6. Upto(0) = <<>>
  BY EmptySeq DEF Upto
<1>7. QED
  BY <1>1, <1>5, <1>6

LEMMA FreshIs ==
  /\ Fresh \in RomType /\ ~Fresh.runs /\ ~Fresh.l1 /\ Fresh.ask = "none" /\ Fresh.copied = <<>> /\ Fresh.posted = 0
  /\ Fresh.frames = <<>> /\ Fresh.records = <<>> /\ Fresh.results = 0 /\ Fresh.got = <<>>
BY EmptySeq DEF Fresh, RomType

LEMMA OutsideIs ==
  ASSUME NEW d \in DrvType
  PROVE  /\ Outside(d) \in DrvType
         /\ Outside(d).pc = "out" /\ Outside(d).n = 0 /\ Outside(d).r = "fi" 
         /\ Outside(d).state = d.state /\ Outside(d).held = d.held
BY DEF Outside, DrvType

LEMMA ClearedIs ==
  /\ Cleared \in [fi : RingType("fi"), cmd : RingType("cmd"), pm : RingType("pm")]
  /\ Cleared.fi.in = 0 /\ Cleared.cmd.in = 0 /\ Cleared.pm.in = 0
  /\ Cleared.fi.out = 0 /\ Cleared.cmd.out = 0 /\ Cleared.pm.out = 0
<1> DEFINE C(r) == [in |-> 0, out |-> 0, slot |-> [i \in Index(r) |-> [n |-> 0, more |-> FALSE]]]
<1>1. ASSUME NEW r \in {"fi", "cmd", "pm"}
      PROVE  C(r) \in RingType(r)
  BY <1>1, DspAssumption DEF Slots, RingType, Index, DspAssumption
<1>2. Cleared = [r \in {"fi", "cmd", "pm"} |-> C(r)]
  BY DEF Cleared, Slots, Index
<1>3. Cleared.fi = C("fi") /\ Cleared.cmd = C("cmd") /\ Cleared.pm = C("pm")
  BY <1>2
<1>4. Cleared = [fi |-> C("fi"), cmd |-> C("cmd"), pm |-> C("pm")]
  BY <1>2
<1> HIDE DEF C
<1>5. Cleared \in [fi : RingType("fi"), cmd : RingType("cmd"), pm : RingType("pm")]
  BY <1>1, <1>4
<1>6. QED
  BY <1>3, <1>5 DEF C

\* Without layer 1 only the download matters.
LEMMA BootInv ==
  ASSUME DspInv, Boot
  PROVE  DspInv'
<1>1. /\ drv' \in DrvType /\ drv'.pc = "load" /\ drv'.n = 1 /\ drv'.state = "booting" /\ drv'.held
      /\ UNCHANGED <<sm, ring>>
  BY DEF DspInv, DspTypes, Boot, At, DrvType, Loading
<1>2. rom' \in [reset : BOOLEAN, d : RomType] /\ rom'.reset /\ rom'.d = Fresh
  <2>1. CASE drv.state = "running"
    <3>1. rom' = [reset |-> TRUE, d |-> Fresh]
      BY <2>1 DEF Boot, HoldReset
    <3>2. QED
      BY <3>1, FreshIs
  <2>2. CASE drv.state # "running"
    <3>1. drv.state \in {"off", "failed"} /\ rom' = rom
      BY <2>2 DEF Boot, DspInv, DspTypes, DrvType
    <3>2. QED
      BY <3>1 DEF DspInv, DspTypes, States
  <2>3. QED
    BY <2>1, <2>2
<1>3. irq' \in [latch : BOOLEAN, line : BOOLEAN, moved : BOOLEAN]
  BY DEF DspInv, DspTypes, Boot
<1>4. DspTypes'
  BY <1>1, <1>2, <1>3 DEF DspInv, DspTypes
<1>5. States'
  BY <1>1, <1>2, FreshIs DEF States, Loading, Feeding, Posting
<1>6. Download'
  <2>1. rom'.d.copied = <<>> /\ ~rom'.d.runs
    BY <1>2, FreshIs
  <2>2. QED
    BY <1>1, <2>1 DEF Download, Loading
<1>7. QED
  BY <1>2, <1>4, <1>5, <1>6, FreshIs DEF DspInv

LEMMA LoadInv ==
  ASSUME DspInv, Load
  PROVE  DspInv'
<1>1. /\ drv' \in DrvType /\ drv'.pc = "release" /\ drv'.n = drv.n /\ drv.n = 1
      /\ drv'.state = drv.state /\ drv'.held = drv.held /\ drv.state = "booting"
  BY DEF DspInv, DspTypes, Load, At, Goto, DrvType, Loading, Download, States
<1>2. rom' \in [reset : BOOLEAN, d : RomType] /\ rom'.reset /\ rom'.d = Fresh
  BY FreshIs DEF Load, HoldReset
<1>3. irq' = irq /\ ring' = Cleared /\ sm' \in ShareType /\ sm'.arm = {"ready"} /\ sm'.ctl = {}
  BY DEF DspInv, DspTypes, Load, ShareType
<1>4. DspTypes'
  BY <1>1, <1>2, <1>3, ClearedIs DEF DspInv, DspTypes
<1>5. States'
  BY <1>1, <1>2, FreshIs DEF DspInv, States, Loading, Feeding, Posting
<1>6. Download'
  <2>1. rom'.d.copied = <<>> /\ ~rom'.d.runs
    BY <1>2, FreshIs
  <2>2. QED
    BY <1>1, <1>3, <2>1 DEF Download, Loading
<1>7. QED
  BY <1>2, <1>4, <1>5, <1>6, FreshIs DEF DspInv

LEMMA ReleaseResetInv ==
  ASSUME DspInv, ReleaseReset
  PROVE  DspInv'
<1>1. /\ drv' \in DrvType /\ drv'.pc = "ready" /\ drv'.n = drv.n /\ drv.n = 1
      /\ drv'.state = drv.state /\ drv'.held = drv.held /\ drv.state = "booting" /\ sm' = sm /\ ring' = ring
  BY DEF DspInv, DspTypes, ReleaseReset, At, Goto, DrvType, Loading, Download, States
<1>2. rom.reset /\ rom.d = Fresh /\ sm.arm = {"ready"} /\ sm.ctl = {}
  BY DEF DspInv, States, Download, ReleaseReset, At
<1>3. /\ rom' \in [reset : BOOLEAN, d : RomType] /\ ~rom'.reset
      /\ rom'.d.ask = "boot" /\ ~rom'.d.runs /\ ~rom'.d.l1 /\ rom'.d.copied = <<>>
      /\ rom'.d.posted = 0 /\ rom'.d.frames = <<>> /\ rom'.d.records = <<>>
  BY <1>2, FreshIs DEF ReleaseReset, DspInv, DspTypes, RomType
<1>4. irq' \in [latch : BOOLEAN, line : BOOLEAN, moved : BOOLEAN]
  BY DEF DspInv, DspTypes, ReleaseReset
<1>5. DspTypes'
  BY <1>1, <1>3, <1>4 DEF DspInv, DspTypes
<1>6. States'
  BY <1>1, <1>3 DEF DspInv, States, Loading, Feeding, Posting
<1>7. Download'
  BY <1>1, <1>2, <1>3 DEF Download, Loading
<1>8. QED
  BY <1>3, <1>5, <1>6, <1>7 DEF DspInv

\* The DSP is as it was but for what it has to answer and, in the boot ROM, has copied.
SameRom ==
  /\ rom' \in [reset : BOOLEAN, d : RomType] /\ rom'.reset = rom.reset
  /\ rom'.d.runs = rom.d.runs /\ rom'.d.l1 = rom.d.l1 /\ rom'.d.posted = rom.d.posted
  /\ rom'.d.frames = rom.d.frames /\ rom'.d.records = rom.d.records

LEMMA SetsArm ==
  ASSUME DspTypes, NEW bits \in SUBSET {"ready", "data", "start", "boot"}, NEW w \in Nat,
         SetArm(bits, w)
  PROVE  /\ sm' \in ShareType /\ sm'.arm = bits /\ sm'.data = w /\ sm'.ctl = sm.ctl
         /\ SameRom /\ rom'.d.copied = rom.d.copied
         /\ rom'.d.ask = IF rom.reset THEN rom.d.ask
                         ELSE IF "data" \in bits /\ "data" \notin sm.arm THEN "data"
                         ELSE IF "start" \in bits /\ "start" \notin sm.arm THEN "start" ELSE rom.d.ask
<1>1. sm' \in ShareType /\ sm'.arm = bits /\ sm'.data = w /\ sm'.ctl = sm.ctl
  BY DEF SetArm, DspTypes, ShareType
<1>2. ArmEdge(sm.arm, bits) \in {"none", "data", "start"}
  BY DEF ArmEdge
<1>3. /\ rom' \in [reset : BOOLEAN, d : RomType]
      /\ rom'.d.copied = rom.d.copied /\ SameRom
      /\ rom'.d.ask = IF rom.reset \/ ArmEdge(sm.arm, bits) = "none" THEN rom.d.ask ELSE ArmEdge(sm.arm, bits)
  BY <1>2 DEF SetArm, DspTypes, RomType, SameRom
<1>4. QED
  BY <1>1, <1>3 DEF ArmEdge

\* A step of the download: what has to be shown is where it stands.
LEMMA LoadingKeeps ==
  ASSUME DspInv, drv.pc \in Loading, drv' \in DrvType, drv'.pc \in {"ready", "block", "rtc", "done", "irq"},
         drv'.state = drv.state, drv'.held = drv.held, ~rom.reset,
         sm' \in ShareType, ring' = ring, irq' \in [latch : BOOLEAN, line : BOOLEAN, moved : BOOLEAN],
         SameRom, Download'
  PROVE  DspInv'
<1>1. DspTypes'
  BY DEF DspInv, DspTypes, SameRom
<1>2. drv.state = "booting" /\ ~rom.d.l1
  BY DEF DspInv, States
<1>3. States'
  BY <1>2 DEF DspInv, States, SameRom, Loading, Feeding, Posting
<1>4. QED
  BY <1>1, <1>2, <1>3 DEF DspInv, SameRom

LEMMA KeepInv ==
  ASSUME DspInv, Keep
  PROVE  DspInv'
<1>1. drv.pc \in {"ready", "rtc", "done"} /\ drv.pc \in Loading /\ ~rom.reset /\ sm.data \in Nat
      /\ drv' = drv /\ ring' = ring /\ irq' = irq
  BY DEF DspInv, DspTypes, Download, Keep, Loading, ShareType
<1>2. /\ drv.pc = "ready" => Keepalive = {"ready"}
      /\ drv.pc = "rtc" => Keepalive = {"ready", "data"}
      /\ drv.pc = "done" => Keepalive = {"start"}
  BY DEF Keepalive, At
<1>3. SetArm(Keepalive, sm.data)
  BY DEF Keep
<1>4. /\ sm' \in ShareType /\ sm'.arm = Keepalive /\ sm'.data = sm.data /\ sm'.ctl = sm.ctl
      /\ SameRom /\ rom'.d.copied = rom.d.copied
      /\ rom'.d.ask = IF rom.reset THEN rom.d.ask
                      ELSE IF "data" \in Keepalive /\ "data" \notin sm.arm THEN "data"
                      ELSE IF "start" \in Keepalive /\ "start" \notin sm.arm THEN "start" ELSE rom.d.ask
  <2>1. Keepalive \in SUBSET {"ready", "data", "start", "boot"}
    BY <1>1, <1>2
  <2>2. QED
    BY <1>1, <1>3, <2>1, SetsArm DEF DspInv
<1>5. rom'.d.ask = rom.d.ask
  BY <1>1, <1>2, <1>4 DEF DspInv, Download
<1>6. Download'
  BY <1>1, <1>2, <1>4, <1>5 DEF DspInv, Download, SameRom
<1>7. QED
  BY <1>1, <1>4, <1>6, LoadingKeeps DEF DspInv, DspTypes

LEMMA PutBlockInv ==
  ASSUME DspInv, PutBlock
  PROVE  DspInv'
<1>1. /\ drv.pc = "block" /\ drv.n <= ProgramBlocks /\ drv.n \in Nat \ {0} /\ ~rom.reset /\ rom.d.ask = "none"
      /\ drv' \in DrvType /\ drv'.pc = "rtc" /\ drv'.n = drv.n /\ drv'.state = drv.state /\ drv'.held = drv.held
      /\ ring' = ring /\ irq' = irq /\ drv.pc \in Loading
  BY DEF DspInv, DspTypes, DrvType, Download, PutBlock, At, Goto, Loading
<1>2. SetArm({"ready", "data"}, drv.n)
  BY DEF PutBlock
<1>3. /\ sm' \in ShareType /\ sm'.arm = {"ready", "data"} /\ sm'.data = drv.n /\ sm'.ctl = sm.ctl
      /\ SameRom /\ rom'.d.copied = rom.d.copied /\ rom'.d.ask = "data"
  <2>1. "data" \notin sm.arm
    BY <1>1 DEF DspInv, Download
  <2>2. {"ready", "data"} \in SUBSET {"ready", "data", "start", "boot"} /\ drv.n \in Nat /\ DspTypes
    BY <1>1 DEF DspInv
  <2>3. QED
    BY ONLY <1>1, <1>2, <2>1, <2>2, SetsArm
<1>4. Download'
  BY <1>1, <1>3 DEF DspInv, Download, SameRom, Loading
<1>5. QED
  BY <1>1, <1>3, <1>4, LoadingKeeps DEF DspInv, DspTypes

LEMMA SeesReadyInv ==
  ASSUME DspInv, SeesReady
  PROVE  DspInv'
<1>1. /\ drv.pc = "ready" /\ "ready" \in sm.ctl /\ ~rom.reset /\ drv.pc \in Loading
      /\ drv' \in DrvType /\ drv'.pc = "block" /\ drv'.n = drv.n /\ drv'.state = drv.state /\ drv'.held = drv.held
      /\ sm' = sm /\ rom' = rom /\ ring' = ring /\ irq' = irq
  BY DEF DspInv, DspTypes, DrvType, Download, SeesReady, Seen, At, Goto, Loading
<1>2. SameRom
  BY <1>1 DEF SameRom, DspInv, DspTypes
<1>3. drv.n = 1 /\ 1 <= ProgramBlocks + 1 /\ rom.d.copied = Upto(1 - 1) /\ rom.d.ask = "none"
      /\ "rtc" \notin sm.ctl /\ "data" \notin sm.arm /\ "start" \notin sm.arm /\ ~rom.d.runs
  <2>1. Upto(0) = <<>> /\ 1 <= ProgramBlocks + 1 /\ 1 - 1 = 0
    BY DspAssumption, UptoIs DEF DspAssumption
  <2>2. rom.d.copied = <<>>
    BY <1>1 DEF DspInv, Download
  <2>3. rom.d.copied = Upto(1 - 1)
    BY <2>1, <2>2
  <2>4. QED
    BY <1>1, <2>1, <2>3 DEF DspInv, Download, Loading
<1>5. Download'
  <2>1. drv'.n \in Nat \ {0} /\ drv'.n <= ProgramBlocks + 1 /\ rom'.d.copied = Upto(drv'.n - 1)
    <3>1. drv'.n = 1 /\ rom'.d.copied = rom.d.copied
      BY <1>1, <1>3
    <3>2. 1 <= ProgramBlocks + 1 /\ rom.d.copied = Upto(1 - 1)
      BY <1>3
    <3>3. QED
      BY <3>1, <3>2
  <2>2. /\ rom'.reset = rom.reset /\ rom'.d.ask = rom.d.ask /\ rom'.d.runs = rom.d.runs
        /\ sm'.arm = sm.arm /\ sm'.ctl = sm.ctl
    BY <1>1
  <2>3. QED
    BY <1>1, <1>3, <2>1, <2>2 DEF Download
<1>4. QED
  BY <1>1, <1>2, <1>5, LoadingKeeps DEF DspInv, DspTypes

LEMMA SeesReadyToCopyInv ==
  ASSUME DspInv, SeesReadyToCopy
  PROVE  DspInv'
<1>1. /\ drv.pc = "rtc" /\ "rtc" \in sm.ctl /\ drv.n \in Nat \ {0} /\ ~rom.reset /\ rom.d.ask = "none"
      /\ drv' \in DrvType /\ drv'.pc = "done" /\ drv'.n = drv.n /\ drv'.state = drv.state /\ drv'.held = drv.held
      /\ ring' = ring /\ irq' = irq /\ drv.pc \in Loading /\ sm.arm = {"ready", "data"} /\ sm.data \in Nat
  BY DEF DspInv, DspTypes, DrvType, ShareType, Download, SeesReadyToCopy, Seen, At, Goto, Loading
<1>2. SetArm((sm.arm \ {"data"}) \cup {"start"}, sm.data) /\ (sm.arm \ {"data"}) \cup {"start"} = {"ready", "start"}
  BY <1>1 DEF SeesReadyToCopy
<1>3. /\ sm' \in ShareType /\ sm'.arm = {"ready", "start"} /\ sm'.data = sm.data /\ sm'.ctl = sm.ctl
      /\ SameRom /\ rom'.d.copied = rom.d.copied /\ rom'.d.ask = "start"
  BY <1>1, <1>2, SetsArm DEF DspInv
<1>4. Download'
  BY <1>1, <1>3 DEF DspInv, Download, SameRom, Loading
<1>5. QED
  BY <1>1, <1>3, <1>4, LoadingKeeps DEF DspInv, DspTypes

LEMMA SeesCopiedInv ==
  ASSUME DspInv, SeesCopied
  PROVE  DspInv'
<1>1. /\ drv.pc = "done" /\ "done" \in sm.ctl /\ ~rom.reset /\ drv.pc \in Loading
      /\ drv' \in DrvType /\ drv'.pc = "irq" /\ drv'.n = drv.n /\ drv'.state = drv.state /\ drv'.held = drv.held
      /\ sm' = sm /\ rom' = rom /\ ring' = ring /\ irq' = irq
  BY DEF DspInv, DspTypes, DrvType, Download, SeesCopied, Seen, At, Goto, Loading
<1>2. SameRom
  BY <1>1 DEF SameRom, DspInv, DspTypes
<1>3. Download'
  BY <1>1 DEF DspInv, Download, Loading
<1>4. QED
  BY <1>1, <1>2, <1>3, LoadingKeeps DEF DspInv, DspTypes

LEMMA SeesInterruptInv ==
  ASSUME DspInv, SeesInterrupt
  PROVE  DspInv'
<1>1. /\ drv.pc = "irq" /\ drv.n \in Nat \ {0} /\ drv.n <= ProgramBlocks /\ ~rom.reset /\ rom.d.ask = "none"
      /\ drv' \in DrvType /\ drv'.pc = "block" /\ drv'.n = drv.n + 1 /\ drv'.state = drv.state /\ drv'.held = drv.held
      /\ ring' = ring /\ drv.pc \in Loading /\ "data" \notin sm.arm /\ sm.data \in Nat
  <2>1. /\ drv.pc = "irq" /\ drv.n \in Nat \ {0} /\ drv.n <= ProgramBlocks /\ ~rom.reset /\ rom.d.ask = "none"
        /\ drv.pc \in Loading /\ "data" \notin sm.arm
    BY DEF DspInv, Download, SeesInterrupt, At, Loading
  <2>2. drv \in DrvType /\ sm.data \in Nat
    BY DEF DspInv, DspTypes, ShareType
  <2>3. drv' = [drv EXCEPT !.pc = "block", !.n = @ + 1] /\ ring' = ring
    BY DEF SeesInterrupt
  <2>4. /\ drv' \in DrvType /\ drv'.pc = "block" /\ drv'.n = drv.n + 1
        /\ drv'.state = drv.state /\ drv'.held = drv.held
    <3>1. drv.n + 1 \in Nat /\ "block" \in Loading
      BY <2>2 DEF DrvType, Loading
    <3>2. QED
      BY <2>2, <2>3, <3>1 DEF DrvType
  <2>5. QED
    BY <2>1, <2>2, <2>3, <2>4
<1> DEFINE bits == sm.arm \ {"start"}
<1>6. bits \in SUBSET {"ready", "data", "start", "boot"} /\ "start" \notin bits /\ ("data" \notin sm.arm => "data" \notin bits)
  BY DEF DspInv, DspTypes, ShareType
<1>2. SetArm(bits, sm.data) /\ irq' \in [latch : BOOLEAN, line : BOOLEAN, moved : BOOLEAN]
  BY DEF SeesInterrupt, DspInv, DspTypes
<1> HIDE DEF bits
<1>3. /\ sm' \in ShareType /\ sm'.arm = bits /\ sm'.data = sm.data /\ sm'.ctl = sm.ctl
      /\ SameRom /\ rom'.d.copied = rom.d.copied /\ rom'.d.ask = "none"
  BY <1>1, <1>2, <1>6, SetsArm DEF DspInv
<1>4. Download'
  <2>4. drv'.n \in Nat \ {0} /\ drv'.n <= ProgramBlocks + 1 /\ drv'.n - 1 = drv.n
    <3>1. drv.n \in Nat /\ ProgramBlocks \in Nat /\ drv.n <= ProgramBlocks /\ drv'.n = drv.n + 1
      BY <1>1, DspAssumption DEF DspAssumption
    <3>2. QED
      BY ONLY <3>1
  <2>1. rom.d.copied = Upto(drv'.n - 1)
    BY <1>1, <2>4 DEF DspInv, Download
  <2>2. ~rom.d.runs /\ "rtc" \notin sm.ctl
    BY <1>1 DEF DspInv, Download, Loading
  <2>3. QED
    BY <1>1, <1>3, <1>6, <2>1, <2>2, <2>4 DEF Download, SameRom, Loading
<1>5. QED
  BY <1>1, <1>2, <1>3, <1>4, LoadingKeeps DEF DspInv, DspTypes

LEMMA StartInv ==
  ASSUME DspInv, Start
  PROVE  DspInv'
<1>1. /\ drv.pc = "block" /\ drv.n > ProgramBlocks /\ ~rom.reset /\ rom.d.ask = "none" /\ drv.pc \in Loading
      /\ drv.n <= ProgramBlocks + 1 /\ rom.d.copied = Upto(drv.n - 1) /\ drv.n \in Nat
  BY DEF DspInv, DspTypes, DrvType, Download, Start, At, Loading
<1>2. drv.n - 1 = ProgramBlocks
  <2>1. ProgramBlocks \in Nat
    BY DspAssumption DEF DspAssumption
  <2>2. drv.n \in Nat /\ drv.n > ProgramBlocks /\ drv.n <= ProgramBlocks + 1
    BY <1>1
  <2>3. QED
    BY ONLY <2>1, <2>2
<1>3. /\ drv' \in DrvType /\ drv'.pc = "out" /\ drv'.state = "running" /\ drv'.held
  <2> DEFINE d == [drv EXCEPT !.state = "running"]
  <2>1. d \in DrvType /\ d.held /\ d.state = "running"
    BY <1>1 DEF DspInv, DspTypes, DrvType, States
  <2>2. drv' = Outside(d)
    BY DEF Start
  <2> HIDE DEF d
  <2>3. QED
    BY <2>1, <2>2, OutsideIs DEF DrvType
<1>4. ~rom.d.l1 /\ rom.d.posted = 0 /\ rom.d.frames = <<>> /\ rom.d.records = <<>>
  BY <1>1 DEF DspInv, States
<1>5. /\ rom' \in [reset : BOOLEAN, d : RomType] /\ ~rom'.reset /\ rom'.d.runs /\ rom'.d.ask = "none" /\ ~rom'.d.l1
      /\ rom'.d.copied = Upto(ProgramBlocks) /\ rom'.d.posted = 0 /\ rom'.d.frames = <<>> /\ rom'.d.records = <<>>
  BY <1>1, <1>2, <1>4 DEF Start, DspInv, DspTypes, RomType
<1>6. DspTypes'
  <2>1. sm' \in ShareType /\ ring' = ring /\ irq' = irq
    BY DEF Start, DspInv, DspTypes, ShareType
  <2>2. QED
    BY <2>1, <1>3, <1>5 DEF DspInv, DspTypes
<1>7. States'
  BY <1>3, <1>5 DEF States, Loading, Feeding, Posting
<1>8. Download'
  BY <1>3 DEF Download, Loading
<1>9. QED
  BY <1>5, <1>6, <1>7, <1>8 DEF DspInv

LEMMA FailInv ==
  ASSUME DspInv, Fail
  PROVE  DspInv'
<1>1. drv' \in DrvType /\ drv'.pc = "out" /\ drv'.state = "failed" /\ ~drv'.held
  <2>1. [drv EXCEPT !.state = "failed", !.held = FALSE] \in DrvType
    BY DEF DspInv, DspTypes, DrvType
  <2>2. [drv EXCEPT !.state = "failed", !.held = FALSE].state = "failed"
        /\ ~[drv EXCEPT !.state = "failed", !.held = FALSE].held
    BY DEF DspInv, DspTypes, DrvType
  <2>3. QED
    BY <2>1, <2>2, OutsideIs DEF Fail
<1>2. rom' \in [reset : BOOLEAN, d : RomType] /\ rom'.reset /\ rom'.d = Fresh
  BY FreshIs DEF Fail, HoldReset
<1>3. DspTypes'
  BY <1>1, <1>2 DEF Fail, DspInv, DspTypes
<1>4. States'
  BY <1>1, <1>2, FreshIs DEF States, Loading, Feeding, Posting
<1>5. Download'
  BY <1>1 DEF Download, Loading
<1>6. QED
  BY <1>2, <1>3, <1>4, <1>5, FreshIs DEF DspInv

LEMMA DspStopInv ==
  ASSUME DspInv, DspStop
  PROVE  DspInv'
<1>1. drv.pc = "out" /\ drv.state \in {"running", "failed"}
  BY DEF DspInv, DspTypes, DrvType, States, DspStop, At, Loading
<1>2. drv' \in DrvType /\ drv'.pc = "out" /\ drv'.state \in {"off", "failed"} /\ ~drv'.held
  BY <1>1 DEF DspInv, DspTypes, DrvType, DspStop
<1>3. rom' \in [reset : BOOLEAN, d : RomType] /\ rom'.reset /\ rom'.d = Fresh
  <2>1. CASE drv.state = "running"
    <3>1. rom' = [reset |-> TRUE, d |-> Fresh]
      BY <2>1 DEF DspStop, HoldReset
    <3>2. QED
      BY <3>1, FreshIs
  <2>2. CASE drv.state # "running"
    BY <2>2, <1>1 DEF DspStop, DspInv, DspTypes, States
  <2>3. QED
    BY <2>1, <2>2
<1>4. DspTypes'
  BY <1>2, <1>3 DEF DspStop, DspInv, DspTypes
<1>5. States'
  BY <1>2, <1>3, FreshIs DEF States, Loading, Feeding, Posting
<1>6. Download'
  BY <1>2 DEF Download, Loading
<1>7. QED
  BY <1>3, <1>4, <1>5, <1>6, FreshIs DEF DspInv

\* The boot ROM answers only in a download.
LEMMA AnswersInv ==
  ASSUME DspInv, NEW a \in {"boot", "data", "start"}, Answers(a)
  PROVE  /\ ~rom.reset /\ drv.pc \in {"ready", "block", "rtc", "done", "irq"} /\ drv.pc \in Loading
         /\ a = "boot" => drv.pc = "ready"
         /\ a = "data" => drv.pc = "rtc"
         /\ a = "start" => drv.pc = "done"
<1>1. ~rom.reset /\ rom.d.ask = a
  BY DEF Answers
<1>2. drv.state = "booting"
  BY <1>1 DEF DspInv, DspTypes, DrvType, States
<1>3. drv.pc \in Loading /\ drv.pc \notin {"load", "release"}
  BY <1>1, <1>2 DEF DspInv, States
<1>4. QED
  BY <1>1, <1>3 DEF DspInv, Download, Loading

LEMMA RomReadyInv ==
  ASSUME DspInv, RomReady
  PROVE  DspInv'
<1>1. ~rom.reset /\ drv.pc = "ready" /\ drv.pc \in Loading
  BY AnswersInv DEF RomReady
<1>2. /\ sm' \in ShareType /\ sm'.arm = sm.arm /\ sm'.ctl = {"ready"}
      /\ drv' = drv /\ ring' = ring /\ irq' = irq
  BY DEF RomReady, DspInv, DspTypes, ShareType
<1>3. SameRom /\ rom'.d.copied = rom.d.copied /\ rom'.d.ask = "none"
  BY DEF RomReady, DspInv, DspTypes, RomType, SameRom
<1>4. Download'
  BY <1>1, <1>2, <1>3 DEF DspInv, Download, SameRom
<1>5. QED
  BY <1>1, <1>2, <1>3, <1>4, LoadingKeeps DEF DspInv, DspTypes

LEMMA RomReadyToCopyInv ==
  ASSUME DspInv, RomReadyToCopy
  PROVE  DspInv'
<1>1. ~rom.reset /\ drv.pc = "rtc" /\ drv.pc \in Loading
  BY AnswersInv DEF RomReadyToCopy
<1>2. /\ sm' \in ShareType /\ sm'.arm = sm.arm /\ sm'.ctl = {"rtc"} /\ sm'.data = sm.data
      /\ drv' = drv /\ ring' = ring /\ irq' = irq
  BY DEF RomReadyToCopy, DspInv, DspTypes, ShareType
<1>3. SameRom /\ rom'.d.copied = rom.d.copied /\ rom'.d.ask = "none"
  BY DEF RomReadyToCopy, DspInv, DspTypes, RomType, SameRom
<1>4. Download'
  BY <1>1, <1>2, <1>3 DEF DspInv, Download, SameRom
<1>5. QED
  BY <1>1, <1>2, <1>3, <1>4, LoadingKeeps DEF DspInv, DspTypes

LEMMA RomCopyInv ==
  ASSUME DspInv, RomCopy
  PROVE  DspInv'
<1>1. ~rom.reset /\ drv.pc = "done" /\ drv.pc \in Loading /\ sm.data \in Nat /\ rom.d.copied \in Seq(Nat)
      /\ rom.d.ask = "start"
  BY AnswersInv DEF RomCopy, DspInv, DspTypes, ShareType, RomType, Answers
<1>2. /\ sm' \in ShareType /\ sm'.arm = sm.arm /\ sm'.ctl = {"done"} /\ sm'.data = sm.data
      /\ drv' = drv /\ ring' = ring /\ irq' \in [latch : BOOLEAN, line : BOOLEAN, moved : BOOLEAN]
  BY DEF RomCopy, DspInv, DspTypes, ShareType
<1>3. SameRom /\ rom'.d.copied = Append(rom.d.copied, sm.data) /\ rom'.d.ask = "none"
  <2> DEFINE c == Append(rom.d.copied, sm.data)
  <2>1. c \in Seq(Nat)
    BY <1>1, AppendProperties
  <2>2. rom' = [rom EXCEPT !.d.ask = "none", !.d.copied = c]
    BY DEF RomCopy
  <2> HIDE DEF c
  <2>3. SameRom /\ rom'.d.copied = c /\ rom'.d.ask = "none"
    BY <2>1, <2>2 DEF DspInv, DspTypes, RomType, SameRom
  <2>4. QED
    BY <2>3 DEF c
<1>4. /\ drv.n \in Nat \ {0} /\ drv.n <= ProgramBlocks /\ sm.data = drv.n /\ ~rom.d.runs
      /\ "start" \in sm.arm /\ "data" \notin sm.arm /\ rom.d.copied = Upto(drv.n - 1)
  BY <1>1 DEF DspInv, Download, Loading
<1>5. rom'.d.copied = Upto(drv.n)
  <2>1. drv.n - 1 \in Nat /\ (drv.n - 1) + 1 = drv.n
    BY <1>4
  <2>2. Append(Upto(drv.n - 1), drv.n) = Upto(drv.n)
    BY <2>1, UptoIs
  <2>3. QED
    BY <2>2, <1>3, <1>4
<1>6. Download'
  BY <1>1, <1>2, <1>3, <1>4, <1>5 DEF DspInv, Download, SameRom
<1>7. QED
  BY <1>1, <1>2, <1>3, <1>6, LoadingKeeps DEF DspInv, DspTypes

\* The indexes of a ring, without their remainders.
LEMMA RingFacts ==
  ASSUME NEW r \in {"fi", "cmd", "pm"}, NEW i \in Index(r), NEW o \in Index(r)
  PROVE  /\ Slots[r] \in Nat /\ Slots[r] > 1
         /\ Gap(r, i, o) \in 0 .. Slots[r] - 1
         /\ Gap(r, i, o) = 0 <=> i = o
         /\ NextSlot(r, i) \in Index(r)
         /\ NextSlot(r, i) = o <=> Gap(r, i, o) = Slots[r] - 1
         /\ NextSlot(r, i) # o => Gap(r, NextSlot(r, i), o) = Gap(r, i, o) + 1
         /\ i # o => Gap(r, i, NextSlot(r, o)) = Gap(r, i, o) - 1
         /\ NextSlot(r, o) = SlotAfter(r, o, 1)
         /\ \A j \in 0 .. Slots[r] - 1 : SlotAfter(r, o, j) \in Index(r)
         /\ \A j \in 1 .. Gap(r, i, o) : SlotAfter(r, o, j) # NextSlot(r, i)
         /\ \A j \in 1 .. Slots[r] - 2 : SlotAfter(r, NextSlot(r, o), j) = SlotAfter(r, o, j + 1)
         /\ SlotAfter(r, o, Gap(r, i, o) + 1) = NextSlot(r, i) \/ NextSlot(r, i) = o
<1> DEFINE s == Slots[r]
<1>1. s \in Nat /\ s > 1
  BY DspAssumption DEF Slots, DspAssumption
<1>2. i \in 0 .. s - 1 /\ o \in 0 .. s - 1
  BY DEF Index
<1>3. \A k \in 0 .. s - 1 : NextSlot(r, k) = IF k + 1 < s THEN k + 1 ELSE 0
  <2>1. ASSUME NEW k \in 0 .. s - 1
        PROVE  (k + 1) % s = IF k + 1 < s THEN k + 1 ELSE 0
    BY <1>1, <2>1
  <2>2. QED
    BY <2>1 DEF NextSlot
<1> HIDE DEF s
<1>4. \A a, b : Gap(r, a, b) = IF a >= b THEN a - b ELSE a - b + s
  BY DEF Gap, s
<1>5. \A a, b : SlotAfter(r, a, b) = IF a + b < s THEN a + b ELSE a + b - s
  BY DEF SlotAfter, s
<1>6. /\ Gap(r, i, o) \in 0 .. s - 1
      /\ Gap(r, i, o) = 0 <=> i = o
      /\ NextSlot(r, i) \in 0 .. s - 1
      /\ NextSlot(r, i) = o <=> Gap(r, i, o) = s - 1
      /\ NextSlot(r, i) # o => Gap(r, NextSlot(r, i), o) = Gap(r, i, o) + 1
  BY <1>1, <1>2, <1>3, <1>4
<1>7. i # o => Gap(r, i, NextSlot(r, o)) = Gap(r, i, o) - 1
  BY <1>1, <1>2, <1>3, <1>4
<1>8. NextSlot(r, o) = SlotAfter(r, o, 1) /\ (SlotAfter(r, o, Gap(r, i, o) + 1) = NextSlot(r, i) \/ NextSlot(r, i) = o)
  BY <1>1, <1>2, <1>3, <1>4, <1>5
<1>9. \A j \in 0 .. s - 1 : SlotAfter(r, o, j) \in 0 .. s - 1
  BY <1>1, <1>2, <1>5
<1>10. \A j \in 1 .. Gap(r, i, o) : SlotAfter(r, o, j) # NextSlot(r, i)
  BY <1>1, <1>2, <1>3, <1>4, <1>5
<1>11. \A j \in 1 .. s - 2 : SlotAfter(r, NextSlot(r, o), j) = SlotAfter(r, o, j + 1)
  BY <1>1, <1>2, <1>3, <1>5
<1>12. QED
  BY <1>1, <1>6, <1>7, <1>8, <1>9, <1>10, <1>11 DEF s, Index

\* The program the DSP runs, and that it runs it, stay as they are.
SameProgram ==
  /\ rom' \in [reset : BOOLEAN, d : RomType] /\ rom'.reset = rom.reset
  /\ rom'.d.runs = rom.d.runs /\ rom'.d.l1 = rom.d.l1 /\ rom'.d.ask = rom.d.ask
  /\ rom'.d.copied = rom.d.copied

RingsType == [fi : RingType("fi"), cmd : RingType("cmd"), pm : RingType("pm")]
IrqType == [latch : BOOLEAN, line : BOOLEAN, moved : BOOLEAN]

LEMMA RunningKeeps ==
  ASSUME DspInv, rom.d.l1, drv' \in DrvType, drv'.pc \in {"out"} \cup Feeding,
         drv'.state = drv.state, drv'.held = drv.held,
         sm' \in ShareType, ring' \in RingsType, irq' \in IrqType,
         SameProgram, Frames', Posts', Commands', Results'
  PROVE  DspInv'
<1>1. DspTypes'
  BY DEF DspTypes, SameProgram, RingsType, IrqType
<1>2. drv.state = "running"
  BY DEF DspInv, States
<1>3. States'
  BY <1>2 DEF DspInv, States, SameProgram, Loading, Feeding, Posting
<1>4. Download'
  BY DEF Download, Loading, Feeding, Posting
<1>5. QED
  BY <1>1, <1>3, <1>4 DEF DspInv

LEMMA L1StartInv ==
  ASSUME DspInv, L1Start
  PROVE  DspInv'
<1>1. /\ drv' \in DrvType /\ drv'.pc = "records" /\ drv'.n = 1 /\ drv'.state = "running" /\ drv'.held
  BY DEF DspInv, DspTypes, DrvType, States, L1Start, Feeding
<1>2. /\ ~rom.reset /\ rom.d.runs /\ rom.d.ask = "none" /\ rom.d.copied = Upto(ProgramBlocks) /\ rom.d.copied \in Seq(Nat)
  BY DEF DspInv, DspTypes, RomType, States, L1Start
<1>3. /\ rom' \in [reset : BOOLEAN, d : RomType] /\ ~rom'.reset /\ rom'.d.runs /\ rom'.d.ask = "none" /\ rom'.d.l1
      /\ rom'.d.copied = Upto(ProgramBlocks) /\ rom'.d.posted = 0 /\ rom'.d.frames = <<>> /\ rom'.d.records = <<>>
      /\ rom'.d.results = 0 /\ rom'.d.got = <<>>
  <2> DEFINE d == [Fresh EXCEPT !.copied = rom.d.copied, !.runs = TRUE, !.l1 = TRUE]
  <2>1. /\ d \in RomType /\ d.runs /\ d.ask = "none" /\ d.l1 /\ d.copied = rom.d.copied /\ d.posted = 0
        /\ d.frames = <<>> /\ d.records = <<>> /\ d.results = 0 /\ d.got = <<>>
    BY <1>2, FreshIs DEF RomType
  <2>2. rom' = [rom EXCEPT !.d = d]
    BY DEF L1Start
  <2> HIDE DEF d
  <2>3. QED
    BY <1>2, <2>1, <2>2 DEF DspInv, DspTypes
<1>4. sm' = sm /\ irq' \in IrqType /\ ring' = Cleared
  BY DEF L1Start, DspInv, DspTypes, IrqType
<1>5. DspTypes'
  BY <1>1, <1>3, <1>4, ClearedIs DEF DspInv, DspTypes, IrqType
<1>6. States'
  BY <1>1, <1>3 DEF States, Loading
<1>7. Download'
  BY <1>1 DEF Download, Loading
<1>8. /\ Gap("fi", ring'.fi.in, ring'.fi.out) = 0 /\ Gap("pm", ring'.pm.in, ring'.pm.out) = 0
      /\ ring'.cmd.in = ring'.cmd.out /\ 0 \in Index("pm")
  <2>1. 0 \in Index("fi") /\ 0 \in Index("pm")
    BY DspAssumption DEF DspAssumption, Index, Slots
  <2>2. Gap("fi", 0, 0) = 0 /\ Gap("pm", 0, 0) = 0
    BY <2>1, RingFacts
  <2>3. /\ ring'.fi.in = 0 /\ ring'.fi.out = 0 /\ ring'.pm.in = 0 /\ ring'.pm.out = 0
        /\ ring'.cmd.in = ring'.cmd.out
    BY <1>4, ClearedIs
  <2>4. QED
    BY <2>1, <2>2, <2>3
<1>9. \A q : q = <<>> => q = Upto(Len(q)) /\ Len(q) = 0
  BY UptoIs, EmptySeq
<1>12. /\ rom'.d.frames = Upto(Len(rom'.d.frames)) /\ Len(rom'.d.frames) = 0
       /\ rom'.d.records = Upto(Len(rom'.d.records)) /\ Len(rom'.d.records) = 0
       /\ rom'.d.got = Upto(Len(rom'.d.got)) /\ Len(rom'.d.got) = 0
  BY <1>3, <1>9
<1>10. Frames' /\ Posts' /\ Commands' /\ Results'
  <2>1. Frames'
    BY <1>3, <1>8, <1>12 DEF Frames
  <2>2. Posts'
    BY <1>1 DEF Posts, Posting
  <2>3. Commands'
    BY <1>1, <1>3, <1>8, <1>12 DEF Commands, Posting
  <2>4. Results'
    <3>1. ReadsFrom' = ring'.pm.out /\ ring'.pm.out \in Index("pm")
      BY <1>1, <1>4, ClearedIs, <1>8 DEF ReadsFrom
    <3>2. QED
      BY <1>1, <1>3, <1>8, <1>12, <3>1 DEF Results
  <2>5. QED
    BY <2>1, <2>2, <2>3, <2>4
<1>11. QED
  BY <1>5, <1>6, <1>7, <1>10 DEF DspInv

LEMMA PutRecordInv ==
  ASSUME DspInv, PutRecord, ~Preempted
  PROVE  DspInv'
<1>1. /\ drv.pc = "records" /\ rom.d.l1 /\ drv.n \in Nat
      /\ Frames /\ Posts /\ Commands /\ Results
  BY DEF DspInv, DspTypes, DrvType, States, PutRecord, At, Feeding
<1>2. /\ drv' \in DrvType /\ drv'.pc = "post" /\ drv'.r = "cmd" /\ drv'.n = drv.n
      /\ drv'.state = drv.state /\ drv'.held = drv.held
  BY DEF DspInv, DspTypes, DrvType, PutRecord, Feeding, Posting
<1>3. sm' \in ShareType /\ sm'.rec = drv.n /\ ring' = ring /\ rom' = rom /\ ring \in RingsType
  BY <1>1 DEF DspInv, DspTypes, ShareType, RingsType, PutRecord
<1>4. irq' \in IrqType /\ ~irq'.moved /\ irq'.latch = irq.latch /\ irq'.line = irq.line
  BY DEF DspInv, DspTypes, IrqType, PutRecord
<1>5. SameProgram
  BY <1>3 DEF SameProgram, DspInv, DspTypes
<1>6. Frames'
  BY <1>1, <1>3 DEF Frames
<1>7. Posts'
  BY <1>2 DEF Posts, Posting
<1>8. Commands'
  BY <1>1, <1>2, <1>3, <1>4 DEF Commands, Posting, Preempted
<1>9. Results'
  BY <1>1, <1>2, <1>3 DEF Results, ReadsFrom
<1>10. QED
  BY <1>1, <1>2, <1>3, <1>4, <1>5, <1>6, <1>7, <1>8, <1>9, RunningKeeps DEF Feeding, Posting

\* The driver leaves, or stays outside; rings and DSP do not change.
LEMMA RecordsSentInv ==
  ASSUME DspInv, RecordsSent \/ NotTaken
  PROVE  DspInv'
<1>1. /\ drv.pc \in {"records", "taken"} /\ rom.d.l1
      /\ Frames /\ Posts /\ Commands /\ Results
  BY DEF DspInv, DspTypes, DrvType, States, RecordsSent, NotTaken, At, Feeding
<1>2. /\ drv' \in DrvType /\ drv'.pc = "out"
      /\ drv'.state = drv.state /\ drv'.held = drv.held
  BY OutsideIs DEF DspInv, DspTypes, RecordsSent, NotTaken, Leave
<1>3. sm' = sm /\ ring' = ring /\ rom' = rom /\ irq' = irq
  BY DEF RecordsSent, NotTaken
<1>4. Frames'
  BY <1>1, <1>3 DEF Frames
<1>5. Posts'
  BY <1>2 DEF Posts, Posting
<1>6. Commands'
  BY <1>1, <1>2, <1>3 DEF Commands, Posting
<1>7. Results'
  BY <1>1, <1>2, <1>3 DEF Results, ReadsFrom
<1>8. SameProgram /\ sm' \in ShareType /\ ring' \in RingsType /\ irq' \in IrqType
  BY <1>3 DEF SameProgram, DspInv, DspTypes, RingsType, IrqType
<1>9. QED
  BY <1>1, <1>2, <1>4, <1>5, <1>6, <1>7, <1>8, RunningKeeps

LEMMA PostFrameInv ==
  ASSUME DspInv, PostFrame
  PROVE  DspInv'
<1>1. /\ drv.pc = "out" /\ rom.d.l1 /\ rom.d.posted \in Nat
      /\ Frames /\ Posts /\ Commands /\ Results
  BY DEF DspInv, DspTypes, RomType, PostFrame, At
<1>2. /\ drv' \in DrvType /\ drv'.pc = "post" /\ drv'.r = "fi" /\ drv'.n = rom.d.posted + 1
      /\ drv'.state = drv.state /\ drv'.held = drv.held
  <2>1. drv \in DrvType /\ rom.d.posted + 1 \in Nat /\ "post" \in Feeding
    BY <1>1 DEF DspInv, DspTypes, Feeding, Posting
  <2>2. drv' = [drv EXCEPT !.pc = "post", !.r = "fi", !.n = rom.d.posted + 1]
    BY DEF PostFrame
  <2>3. QED
    BY <2>1, <2>2 DEF DrvType
<1>3. sm' = sm /\ ring' = ring /\ rom' = rom /\ irq' = irq
  BY DEF PostFrame
<1>4. Frames'
  BY <1>1, <1>3 DEF Frames
<1>5. Posts'
  BY <1>2, <1>3 DEF Posts, Posting
<1>6. Commands'
  BY <1>1, <1>2, <1>3 DEF Commands, Posting
<1>7. Results'
  BY <1>1, <1>2, <1>3 DEF Results, ReadsFrom
<1>8. SameProgram /\ sm' \in ShareType /\ ring' \in RingsType /\ irq' \in IrqType
  BY <1>3 DEF SameProgram, DspInv, DspTypes, RingsType, IrqType
<1>9. QED
  BY <1>1, <1>2, <1>4, <1>5, <1>6, <1>7, <1>8, RunningKeeps DEF Feeding, Posting

LEMMA RecordTakenInv ==
  ASSUME DspInv, RecordTaken
  PROVE  DspInv'
<1>1. /\ drv.pc = "taken" /\ rom.d.l1 /\ drv.n \in Nat
      /\ Frames /\ Posts /\ Commands /\ Results
  BY DEF DspInv, DspTypes, DrvType, States, RecordTaken, At, Feeding
<1>2. /\ drv' \in DrvType /\ drv'.pc = "records" /\ drv'.n = drv.n + 1
      /\ drv'.state = drv.state /\ drv'.held = drv.held
  <2>1. drv \in DrvType /\ drv.n + 1 \in Nat /\ "records" \in Feeding
    BY <1>1 DEF DspInv, DspTypes, Feeding, Posting
  <2>2. drv' = [drv EXCEPT !.pc = "records", !.n = drv.n + 1]
    BY DEF RecordTaken
  <2>3. QED
    BY <2>1, <2>2 DEF DrvType
<1>3. sm' = sm /\ ring' = ring /\ rom' = rom /\ irq' = irq
  BY DEF RecordTaken
<1>4. Frames'
  BY <1>1, <1>3 DEF Frames
<1>5. Posts'
  BY <1>2 DEF Posts, Posting
<1>6. Commands'
  <2>1. ring.cmd.out = ring.cmd.in /\ Len(rom.d.records) = drv.n
    BY <1>1 DEF Commands, RecordTaken
  <2>2. QED
    BY <1>1, <1>2, <1>3, <2>1 DEF Commands, Posting
<1>7. Results'
  BY <1>1, <1>2, <1>3 DEF Results, ReadsFrom
<1>8. SameProgram /\ sm' \in ShareType /\ ring' \in RingsType /\ irq' \in IrqType
  BY <1>3 DEF SameProgram, DspInv, DspTypes, RingsType, IrqType
<1>9. QED
  BY <1>1, <1>2, <1>4, <1>5, <1>6, <1>7, <1>8, RunningKeeps DEF Feeding, Posting

LEMMA ReadBeginInv ==
  ASSUME DspInv, ReadBegin
  PROVE  DspInv'
<1>1. /\ drv.pc = "out" /\ rom.d.l1
      /\ Frames /\ Posts /\ Commands /\ Results
  BY DEF DspInv, DspTypes, ReadBegin, At
<1>2. ring.pm.in \in Index("pm") /\ ring.pm.out \in Index("pm")
  BY DEF DspInv, DspTypes, RingType
<1>3. ring.pm.in \in Nat /\ ring.pm.out \in Nat
  BY <1>2, RingFacts DEF Index
<1>4. PICK max \in 1 .. 2 :
        drv' = [drv EXCEPT !.pc = "read", !.in = ring.pm.in, !.out = ring.pm.out, !.n = max]
  BY DEF ReadBegin
<1>5. /\ drv' \in DrvType /\ drv'.pc = "read" /\ drv'.in = ring.pm.in /\ drv'.out = ring.pm.out
      /\ drv'.state = drv.state /\ drv'.held = drv.held
  <2>1. drv \in DrvType /\ "read" \in Feeding /\ max \in Nat
    BY DEF DspInv, DspTypes, Feeding
  <2>2. QED
    BY <1>3, <1>4, <2>1 DEF DrvType
<1>6. sm' = sm /\ ring' = ring /\ rom' = rom /\ irq' = irq
  BY DEF ReadBegin
<1>7. Frames'
  BY <1>1, <1>6 DEF Frames
<1>8. Posts'
  BY <1>5 DEF Posts, Posting
<1>9. Commands'
  BY <1>1, <1>5, <1>6 DEF Commands, Posting
<1>10. Results'
  <2>1. Gap("pm", ring.pm.out, ring.pm.out) = 0 /\ Gap("pm", ring.pm.in, ring.pm.in) = 0
        /\ Gap("pm", ring.pm.in, ring.pm.out) \in Nat
    BY <1>2, RingFacts
  <2>2. ReadsFrom = ring.pm.out /\ ReadsFrom' = ring.pm.out
    BY <1>1, <1>5 DEF ReadsFrom
  <2>3. Gap("pm", ring.pm.out, ring.pm.out) + Gap("pm", ring.pm.in, ring.pm.out) + Gap("pm", ring.pm.in, ring.pm.in)
          = Gap("pm", ring.pm.in, ring.pm.out)
    BY <2>1
  <2>4. QED
    BY <1>1, <1>2, <1>5, <1>6, <2>2, <2>3 DEF Results
<1>11. SameProgram /\ sm' \in ShareType /\ ring' \in RingsType /\ irq' \in IrqType
  BY <1>6 DEF SameProgram, DspInv, DspTypes, RingsType, IrqType
<1>12. QED
  BY <1>1, <1>5, <1>7, <1>8, <1>9, <1>10, <1>11, RunningKeeps DEF Feeding, Posting

LEMMA RingOf ==
  ASSUME DspTypes, NEW r \in {"fi", "cmd", "pm"}
  PROVE  /\ ring[r] \in RingType(r) /\ ring[r].in \in Index(r) /\ ring[r].out \in Index(r)
         /\ ring[r].in \in Nat /\ ring[r].out \in Nat
<1>1. ring[r] \in RingType(r)
  BY DEF DspTypes
<1>2. ring[r].in \in Index(r) /\ ring[r].out \in Index(r)
  BY <1>1 DEF RingType
<1>3. QED
  BY <1>1, <1>2, RingFacts DEF Index

LEMMA PostReadInv ==
  ASSUME DspInv, PostRead
  PROVE  DspInv'
<1> DEFINE i == NextSlot(drv.r, ring[drv.r].in)
           o == ring[drv.r].out
           p == IF i = o THEN "out" ELSE "slot"
<1>1. /\ drv.pc = "post" /\ rom.d.l1 /\ drv.r \in {"fi", "cmd"} /\ drv \in DrvType
      /\ Frames /\ Posts /\ Commands /\ Results
  BY DEF DspInv, DspTypes, DrvType, States, PostRead, At, Feeding, Posting
<1>2. i \in Nat /\ o \in Nat
  <2>1. ring[drv.r].in \in Index(drv.r) /\ o \in Nat
    BY <1>1, RingOf DEF DspInv
  <2>2. i \in Index(drv.r)
    BY <1>1, <2>1, RingFacts
  <2>3. QED
    BY <1>1, <2>1, <2>2, RingFacts DEF Index
<1>3. drv' = [drv EXCEPT !.pc = p, !.in = i, !.out = o]
  BY DEF PostRead
<1>4. p \in {"out", "slot"} /\ (p = "slot" => i # o)
  OBVIOUS
<1>5. sm' = sm /\ ring' = ring /\ rom' = rom /\ irq' = irq
  BY DEF PostRead
<1>6. i = NextSlot(drv.r, ring[drv.r].in) /\ o = ring[drv.r].out
  OBVIOUS
<1> HIDE DEF i, o, p
<1>7. /\ drv' \in DrvType /\ drv'.pc = p /\ drv'.in = i /\ drv'.n = drv.n /\ drv'.r = drv.r
      /\ drv'.state = drv.state /\ drv'.held = drv.held
  <2>1. p \in {"out"} \cup Feeding
    BY <1>4 DEF Feeding, Posting
  <2>2. QED
    BY <1>1, <1>2, <1>3, <2>1 DEF DrvType
<1>8. Frames'
  BY <1>1, <1>5 DEF Frames
<1>9. Posts'
  <2>1. drv.r = "fi" /\ p = "slot" => Gap("fi", ring.fi.in, ring.fi.out) < Slots.fi - 1
    <3>1. SUFFICES ASSUME drv.r = "fi", p = "slot"
                   PROVE  Gap("fi", ring.fi.in, ring.fi.out) < Slots.fi - 1
      OBVIOUS
    <3>2. NextSlot("fi", ring.fi.in) # ring.fi.out
      BY <3>1, <1>4, <1>6
    <3>3. ring.fi.in \in Index("fi") /\ ring.fi.out \in Index("fi")
      BY RingOf DEF DspInv
    <3>4. Gap("fi", ring.fi.in, ring.fi.out) # Slots["fi"] - 1 /\ Gap("fi", ring.fi.in, ring.fi.out) \in 0 .. Slots["fi"] - 1
          /\ Slots["fi"] \in Nat
      BY <3>2, <3>3, RingFacts, SMTT(20)
    <3>5. QED
      BY <3>4
  <2>2. QED
    BY <1>1, <1>4, <1>5, <1>6, <1>7, <2>1 DEF Posts, Posting
<1>10. Commands'
  BY <1>1, <1>4, <1>5, <1>7 DEF Commands, Posting
<1>11. Results'
  BY <1>1, <1>4, <1>5, <1>7 DEF Results, ReadsFrom
<1>12. SameProgram /\ sm' \in ShareType /\ ring' \in RingsType /\ irq' \in IrqType
  BY <1>5 DEF SameProgram, DspInv, DspTypes, RingsType, IrqType
<1>13. QED
  BY <1>1, <1>4, <1>7, <1>8, <1>9, <1>10, <1>11, <1>12, RunningKeeps DEF Feeding, Posting

\* The slot after the last one is not on its way to the DSP.
LEMMA PostSlotInv ==
  ASSUME DspInv, PostSlot
  PROVE  DspInv'
<1> DEFINE v == [n |-> drv.n, more |-> FALSE]
<1>1. /\ drv.pc = "slot" /\ rom.d.l1 /\ drv.r \in {"fi", "cmd"} /\ drv \in DrvType /\ drv.n \in Nat
      /\ Frames /\ Posts /\ Commands /\ Results
  BY DEF DspInv, DspTypes, DrvType, States, PostSlot, At, Feeding, Posting
<1>2. /\ drv' \in DrvType /\ drv'.pc = "in" /\ drv'.in = drv.in /\ drv'.n = drv.n /\ drv'.r = drv.r
      /\ drv'.state = drv.state /\ drv'.held = drv.held
  BY <1>1 DEF PostSlot, Goto, DrvType, Feeding, Posting
<1>3. sm' = sm /\ rom' = rom /\ irq' = irq /\ ring' = [ring EXCEPT ![drv.r].slot[drv.in] = v]
  BY DEF PostSlot
<1>4. v \in [n : Nat, more : BOOLEAN] /\ v.n = drv.n
  BY <1>1
<1> HIDE DEF v
<1>5. drv.in = NextSlot(drv.r, ring[drv.r].in) /\ drv.in \in Index(drv.r)
  <2>1. ring[drv.r].in \in Index(drv.r)
    BY <1>1, RingOf DEF DspInv
  <2>2. QED
    BY <1>1, <2>1, RingFacts DEF Posts
<1>6. /\ ring' \in RingsType /\ ring'.pm = ring.pm
      /\ ring'.fi.in = ring.fi.in /\ ring'.fi.out = ring.fi.out
      /\ ring'.cmd.in = ring.cmd.in /\ ring'.cmd.out = ring.cmd.out
      /\ drv.r = "fi" => ring'.fi.slot = [ring.fi.slot EXCEPT ![drv.in] = v]
      /\ drv.r = "cmd" => ring'.fi.slot = ring.fi.slot
  <2>1. CASE drv.r = "fi"
    <3>1. ring' = [ring EXCEPT !.fi.slot[drv.in] = v]
      BY <2>1, <1>3
    <3>2. QED
      BY <2>1, <3>1, <1>4, <1>5 DEF RingsType, RingType, DspInv, DspTypes
  <2>2. CASE drv.r = "cmd"
    <3>1. ring' = [ring EXCEPT !.cmd.slot[drv.in] = v]
      BY <2>2, <1>3
    <3>2. QED
      BY <2>2, <3>1, <1>4, <1>5 DEF RingsType, RingType, DspInv, DspTypes
  <2>3. QED
    BY <1>1, <2>1, <2>2
<1>7. Frames'
  <2>1. ASSUME NEW j \in 1 .. Gap("fi", ring.fi.in, ring.fi.out)
        PROVE  ring'.fi.slot[SlotAfter("fi", ring.fi.out, j)].n = Len(rom.d.frames) + j
    <3>1. ring.fi.slot[SlotAfter("fi", ring.fi.out, j)].n = Len(rom.d.frames) + j
      BY <1>1, <2>1 DEF Frames
    <3>2. CASE drv.r = "fi"
      <4>1. ring.fi.in \in Index("fi") /\ ring.fi.out \in Index("fi") /\ ring.fi.slot \in [Index("fi") -> [n : Nat, more : BOOLEAN]]
        BY DEF DspInv, DspTypes, RingType
      <4>2. SlotAfter("fi", ring.fi.out, j) # drv.in
        BY <2>1, <3>2, <4>1, <1>5, RingFacts
      <4>3. SlotAfter("fi", ring.fi.out, j) \in Index("fi")
        <5>1. j \in 0 .. Slots["fi"] - 1
          <6>1. Gap("fi", ring.fi.in, ring.fi.out) \in 0 .. Slots["fi"] - 1 /\ Slots["fi"] \in Nat
            BY <4>1, RingFacts
          <6>2. QED
            BY <2>1, <6>1
        <5>2. QED
          BY <5>1, <4>1, RingFacts
      <4>4. QED
        BY <3>1, <3>2, <4>1, <4>2, <4>3, <1>6
    <3>3. CASE drv.r = "cmd"
      BY <3>1, <3>3, <1>6
    <3>4. QED
      BY <1>1, <3>2, <3>3
  <2>2. rom' = rom /\ ring'.fi.in = ring.fi.in /\ ring'.fi.out = ring.fi.out
    BY ONLY <1>3, <1>6
  <2>3. Frames
    BY ONLY <1>1
  <2>4. QED
    BY ONLY <2>1, <2>2, <2>3 DEF Frames
<1>8. Posts'
  <2>1. ring'[drv.r].in = ring[drv.r].in
    BY <1>1, <1>6
  <2>2. drv.r = "fi" => ring'.fi.slot[drv.in].n = drv.n
    BY <1>4, <1>5, <1>6 DEF DspInv, DspTypes, RingType
  <2>3. QED
    BY <1>1, <1>2, <1>3, <1>6, <2>1, <2>2 DEF Posts, Posting
<1>9. Commands'
  BY <1>1, <1>2, <1>3, <1>6 DEF Commands, Posting
<1>10. Results'
  <2>1. rom' = rom /\ ring'.pm = ring.pm /\ drv.pc = "slot" /\ drv'.pc = "in"
    BY ONLY <1>1, <1>2, <1>3, <1>6
  <2>2. Results
    BY ONLY <1>1
  <2>3. ReadsFrom' = ReadsFrom
    BY ONLY <2>1 DEF ReadsFrom
  <2>4. QED
    BY ONLY <2>1, <2>2, <2>3 DEF Results
<1>11. SameProgram /\ sm' \in ShareType /\ irq' \in IrqType
  BY <1>3 DEF SameProgram, DspInv, DspTypes, IrqType
<1>12. QED
  BY <1>1, <1>2, <1>6, <1>7, <1>8, <1>9, <1>10, <1>11, RunningKeeps DEF Feeding, Posting

\* The index follows the slot, so the DSP finds what it says is there.
LEMMA PostInFrame ==
  ASSUME DspInv, PostIn, drv.r = "fi"
  PROVE  DspInv'
<1> DEFINE g == Gap("fi", ring.fi.in, ring.fi.out)
           f == ring.fi.slot
<1>1. /\ drv.pc = "in" /\ rom.d.l1 /\ drv \in DrvType /\ drv.n \in Nat
      /\ Frames /\ Posts /\ Commands /\ Results
  BY DEF DspInv, DspTypes, DrvType, States, PostIn, At, Feeding, Posting
<1>2. /\ drv' \in DrvType /\ drv'.pc \in {"out", "ask"} /\ drv'.r = "fi"
      /\ drv'.state = drv.state /\ drv'.held = drv.held
  <2>1. CASE Filled >= Dry
    <3>1. drv' = [drv EXCEPT !.pc = "ask"] /\ "ask" \in Feeding
      BY <2>1 DEF PostIn, Goto, Feeding
    <3>2. QED
      BY <1>1, <3>1 DEF DrvType
  <2>2. CASE ~(Filled >= Dry)
    BY <2>2, <1>1, OutsideIs DEF PostIn, Leave
  <2>3. QED
    BY <2>1, <2>2
<1>3. /\ sm' = sm /\ irq' = irq /\ ring' = [ring EXCEPT !.fi.in = drv.in]
      /\ rom' = [rom EXCEPT !.d.posted = drv.n]
  BY DEF PostIn
<1>4. ring.fi \in RingType("fi") /\ ring.fi.in \in Index("fi") /\ ring.fi.out \in Index("fi")
  BY RingOf DEF DspInv, DspTypes
<1>5. /\ drv.in = NextSlot("fi", ring.fi.in) /\ drv.n = rom.d.posted + 1
      /\ g < Slots.fi - 1 /\ f[drv.in].n = drv.n
  BY <1>1 DEF Posts, Posting
<1>6. g \in Nat /\ drv.in \in Index("fi") /\ drv.in # ring.fi.out /\ Gap("fi", drv.in, ring.fi.out) = g + 1
      /\ SlotAfter("fi", ring.fi.out, g + 1) = drv.in
  <2>1. Slots["fi"] \in Nat /\ g \in 0 .. Slots["fi"] - 1 /\ g # Slots["fi"] - 1
    BY <1>4, <1>5, RingFacts
  <2>2. NextSlot("fi", ring.fi.in) # ring.fi.out
    BY <1>4, <2>1, RingFacts
  <2>3. NextSlot("fi", ring.fi.in) \in Index("fi")
    BY <1>4, RingFacts
  <2>4. Gap("fi", NextSlot("fi", ring.fi.in), ring.fi.out) = g + 1
    BY <1>4, <2>2, RingFacts
  <2>5. SlotAfter("fi", ring.fi.out, g + 1) = NextSlot("fi", ring.fi.in)
    BY <1>4, <2>2, RingFacts
  <2>6. QED
    BY <2>1, <2>2, <2>3, <2>4, <2>5, <1>5
<1>7. /\ ring' \in RingsType /\ ring'.pm = ring.pm /\ ring'.cmd = ring.cmd
      /\ ring'.fi.in = drv.in /\ ring'.fi.out = ring.fi.out /\ ring'.fi.slot = f
  BY <1>3, <1>6 DEF RingsType, RingType, DspInv, DspTypes
<1>8. /\ SameProgram /\ rom'.d.posted = drv.n /\ rom'.d.frames = rom.d.frames /\ rom'.d.records = rom.d.records
      /\ rom'.d.got = rom.d.got /\ rom'.d.results = rom.d.results /\ rom.d.posted \in Nat
      /\ Len(rom.d.frames) \in Nat
  <2>1. rom \in [reset : BOOLEAN, d : RomType] /\ rom.d \in RomType
    BY DEF DspInv, DspTypes
  <2>2. rom.d.posted \in Nat /\ Len(rom.d.frames) \in Nat
    BY <2>1 DEF RomType
  <2>3. rom' = [rom EXCEPT !.d = [rom.d EXCEPT !.posted = drv.n]]
    BY <1>3, <2>1
  <2> DEFINE d == [rom.d EXCEPT !.posted = drv.n]
  <2>4. /\ d \in RomType /\ d.posted = drv.n /\ d.frames = rom.d.frames /\ d.records = rom.d.records
        /\ d.got = rom.d.got /\ d.results = rom.d.results /\ d.runs = rom.d.runs /\ d.l1 = rom.d.l1
        /\ d.ask = rom.d.ask /\ d.copied = rom.d.copied
    BY <2>1, <1>1 DEF RomType
  <2> HIDE DEF d
  <2>5. rom' = [rom EXCEPT !.d = d]
    BY <2>3 DEF d
  <2>6. rom' \in [reset : BOOLEAN, d : RomType] /\ rom'.d = d /\ rom'.reset = rom.reset
    BY <2>1, <2>4, <2>5
  <2>7. QED
    BY <2>2, <2>4, <2>6 DEF SameProgram
<1>9. Frames'
  <2>1. rom.d.posted - Len(rom.d.frames) = g /\ rom.d.frames = Upto(Len(rom.d.frames))
    BY <1>1 DEF Frames
  <2>2. ASSUME NEW j \in 1 .. g + 1
        PROVE  f[SlotAfter("fi", ring.fi.out, j)].n = Len(rom.d.frames) + j
    <3>1. CASE j = g + 1
      <4>1. Len(rom.d.frames) + (g + 1) = drv.n
        BY <1>5, <1>6, <1>8, <2>1
      <4>2. QED
        BY <3>1, <4>1, <1>5, <1>6
    <3>2. CASE j # g + 1
      <4>1. j \in 1 .. g
        BY <3>2, <2>2, <1>6
      <4>2. QED
        BY <4>1, <1>1 DEF Frames
    <3>3. QED
      BY <3>1, <3>2
  <2>3. drv.n - Len(rom.d.frames) = g + 1
    BY <1>5, <1>6, <1>8, <2>1
  <2> HIDE DEF g, f
  <2>4. QED
    BY <1>6, <1>7, <1>8, <2>1, <2>2, <2>3 DEF Frames
<1>10. Posts'
  BY <1>2 DEF Posts, Posting
<1>11. Commands'
  BY <1>1, <1>2, <1>3, <1>7, <1>8 DEF Commands, Posting
<1>12. Results'
  BY <1>1, <1>2, <1>7, <1>8 DEF Results, ReadsFrom
<1>13. sm' \in ShareType /\ irq' \in IrqType /\ drv'.pc \in {"out"} \cup Feeding
  BY <1>2, <1>3 DEF DspInv, DspTypes, IrqType, Feeding
<1>14. QED
  BY <1>1, <1>2, <1>7, <1>8, <1>9, <1>10, <1>11, <1>12, <1>13, RunningKeeps

LEMMA PostInCommand ==
  ASSUME DspInv, PostIn, drv.r = "cmd"
  PROVE  DspInv'
<1>1. /\ drv.pc = "in" /\ rom.d.l1 /\ drv \in DrvType /\ drv.n \in Nat
      /\ Frames /\ Posts /\ Commands /\ Results
  BY DEF DspInv, DspTypes, DrvType, States, PostIn, At, Feeding, Posting
<1>2. /\ drv' \in DrvType /\ drv'.pc = "taken" /\ drv'.n = drv.n /\ drv'.r = "cmd"
      /\ drv'.state = drv.state /\ drv'.held = drv.held
  <2>1. drv' = [drv EXCEPT !.pc = "taken"] /\ "taken" \in Feeding
    BY DEF PostIn, Goto, Feeding
  <2>2. QED
    BY <1>1, <2>1 DEF DrvType
<1>3. sm' = sm /\ irq' = irq /\ rom' = rom /\ ring' = [ring EXCEPT !.cmd.in = drv.in]
  BY DEF PostIn
<1>4. ring.cmd \in RingType("cmd") /\ ring.cmd.in \in Index("cmd") /\ ring.cmd.out \in Index("cmd")
  BY RingOf DEF DspInv, DspTypes
<1>5. /\ drv.in = NextSlot("cmd", ring.cmd.in) /\ ring.cmd.out = ring.cmd.in
      /\ Len(rom.d.records) = drv.n - 1 /\ sm.rec = drv.n /\ ~irq.moved /\ ~(irq.line /\ irq.latch)
      /\ drv.n \in Nat \ {0} /\ rom.d.posted = 0
  BY <1>1 DEF Posts, Commands, Posting
<1>6. drv.in \in Index("cmd") /\ Gap("cmd", drv.in, ring.cmd.out) = 1
  <2>1. Slots["cmd"] \in Nat /\ Slots["cmd"] > 1 /\ Gap("cmd", ring.cmd.in, ring.cmd.out) = 0
    BY <1>4, <1>5, RingFacts
  <2>2. Gap("cmd", ring.cmd.in, ring.cmd.out) # Slots["cmd"] - 1
    BY <2>1
  <2>3. NextSlot("cmd", ring.cmd.in) # ring.cmd.out /\ NextSlot("cmd", ring.cmd.in) \in Index("cmd")
    BY <1>4, <2>2, RingFacts
  <2>6. Gap("cmd", NextSlot("cmd", ring.cmd.in), ring.cmd.out) = Gap("cmd", ring.cmd.in, ring.cmd.out) + 1
    BY <1>4, <2>3, RingFacts
  <2>4. Gap("cmd", NextSlot("cmd", ring.cmd.in), ring.cmd.out) = 1
    BY <2>1, <2>6
  <2>5. QED
    BY <2>3, <2>4, <1>5
<1>7. /\ ring' \in RingsType /\ ring'.pm = ring.pm /\ ring'.fi = ring.fi
      /\ ring'.cmd.in = drv.in /\ ring'.cmd.out = ring.cmd.out
  BY <1>3, <1>6 DEF RingsType, RingType, DspInv, DspTypes
<1>8. ring'.cmd.in # ring'.cmd.out
  <2>1. Gap("cmd", drv.in, ring.cmd.out) = 0 <=> drv.in = ring.cmd.out
    BY <1>4, <1>6, RingFacts
  <2>2. QED
    BY <2>1, <1>6, <1>7
<1>9. Frames'
  BY <1>1, <1>3, <1>7 DEF Frames
<1>10. Posts'
  BY <1>2 DEF Posts, Posting
<1>11. Commands'
  BY <1>1, <1>2, <1>3, <1>5, <1>6, <1>7, <1>8 DEF Commands, Posting
<1>12. Results'
  BY <1>1, <1>2, <1>3, <1>7 DEF Results, ReadsFrom
<1>13. SameProgram /\ sm' \in ShareType /\ irq' \in IrqType /\ drv'.pc \in {"out"} \cup Feeding
  BY <1>2, <1>3 DEF SameProgram, DspInv, DspTypes, IrqType, Feeding
<1>14. QED
  BY <1>1, <1>2, <1>7, <1>9, <1>10, <1>11, <1>12, <1>13, RunningKeeps

LEMMA AskMoreInv ==
  ASSUME DspInv, AskMore
  PROVE  DspInv'
<1> DEFINE m == (drv.in + Slots.fi - 3) % Slots.fi
<1>1. /\ drv.pc = "ask" /\ rom.d.l1 /\ drv \in DrvType
      /\ Frames /\ Posts /\ Commands /\ Results
  BY DEF DspInv, DspTypes, DrvType, States, AskMore, At, Feeding
<1>2. /\ drv' \in DrvType /\ drv'.pc = "out"
      /\ drv'.state = drv.state /\ drv'.held = drv.held
  BY <1>1, OutsideIs DEF AskMore, Leave
<1>3. sm' = sm /\ irq' = irq /\ rom' = rom /\ ring' = [ring EXCEPT !.fi.slot[m].more = TRUE]
  BY DEF AskMore
<1>12. m \in Index("fi")
  <2>1. Slots.fi \in Nat /\ Slots.fi > 3 /\ drv.in \in Nat
    BY <1>1, DspAssumption DEF DspAssumption, Slots, DrvType
  <2>2. drv.in + Slots.fi - 3 \in Nat
    BY <2>1
  <2> DEFINE a == drv.in + Slots.fi - 3
             b == Slots.fi
  <2>3. a \in Nat /\ b \in Nat /\ b > 0 /\ m = a % b
    BY <2>1, <2>2
  <2> HIDE DEF a, b
  <2>4. m \in 0 .. b - 1
    BY <2>3
  <2> HIDE DEF m
  <2>5. QED
    BY <2>4 DEF Index, b
<1> HIDE DEF m
<1>4. /\ ring' \in RingsType /\ ring'.pm = ring.pm /\ ring'.cmd = ring.cmd
      /\ ring'.fi.in = ring.fi.in /\ ring'.fi.out = ring.fi.out
      /\ ring'.fi.slot = [ring.fi.slot EXCEPT ![m].more = TRUE]
  <2> DEFINE s == [ring.fi.slot EXCEPT ![m].more = TRUE]
  <2>1. ring.fi.slot \in [Index("fi") -> [n : Nat, more : BOOLEAN]] /\ ring \in RingsType
    BY DEF DspInv, DspTypes, RingType, RingsType
  <2>2. s \in [Index("fi") -> [n : Nat, more : BOOLEAN]]
    BY <2>1, <1>12
  <2>3. ring' = [ring EXCEPT !.fi.slot = s]
    BY <1>3
  <2>4. s = [ring.fi.slot EXCEPT ![m].more = TRUE]
    OBVIOUS
  <2> HIDE DEF s
  <2>5. /\ ring' \in RingsType /\ ring'.pm = ring.pm /\ ring'.cmd = ring.cmd
        /\ ring'.fi.in = ring.fi.in /\ ring'.fi.out = ring.fi.out /\ ring'.fi.slot = s
    BY <2>1, <2>2, <2>3 DEF RingsType, RingType
  <2>6. QED
    BY <2>4, <2>5
<1>5. \A i \in Index("fi") : ring'.fi.slot[i].n = ring.fi.slot[i].n
  BY <1>4 DEF DspInv, DspTypes, RingType
<1>6. Frames'
  <2>1. ring.fi.in \in Index("fi") /\ ring.fi.out \in Index("fi")
    BY RingOf DEF DspInv
  <2>2. ASSUME NEW j \in 1 .. Gap("fi", ring.fi.in, ring.fi.out)
        PROVE  ring'.fi.slot[SlotAfter("fi", ring.fi.out, j)].n = Len(rom.d.frames) + j
    <3>1. ring.fi.slot[SlotAfter("fi", ring.fi.out, j)].n = Len(rom.d.frames) + j
      BY <1>1, <2>2 DEF Frames
    <3>2. Gap("fi", ring.fi.in, ring.fi.out) \in 0 .. Slots["fi"] - 1 /\ Slots["fi"] \in Nat
      BY <2>1, RingFacts
    <3>3. j \in 0 .. Slots["fi"] - 1
      BY <2>2, <3>2
    <3>4. SlotAfter("fi", ring.fi.out, j) \in Index("fi")
      BY <2>1, <3>3, RingFacts
    <3>5. QED
      BY <3>1, <3>4, <1>5
  <2>3. QED
    BY <1>1, <1>3, <1>4, <2>2, ZenonT(30) DEF Frames
<1>7. Posts'
  BY <1>2 DEF Posts, Posting
<1>8. Commands'
  BY <1>1, <1>2, <1>3, <1>4 DEF Commands, Posting
<1>9. Results'
  BY <1>1, <1>2, <1>3, <1>4 DEF Results, ReadsFrom
<1>10. SameProgram /\ sm' \in ShareType /\ irq' \in IrqType /\ drv'.pc \in {"out"} \cup Feeding
  BY <1>2, <1>3 DEF SameProgram, DspInv, DspTypes, IrqType
<1>11. QED
  BY <1>1, <1>2, <1>4, <1>6, <1>7, <1>8, <1>9, <1>10, RunningKeeps

LEMMA ReadOneInv ==
  ASSUME DspInv, ReadOne
  PROVE  DspInv'
<1> DEFINE i == NextSlot("pm", drv.out)
           w == ring.pm.slot[i].n
           c == Append(rom.d.got, w)
           g == Gap("pm", ring.pm.in, drv.out)
           l == Len(rom.d.got)
<1>0. /\ i = NextSlot("pm", drv.out) /\ w = ring.pm.slot[i].n /\ c = Append(rom.d.got, w)
      /\ g = Gap("pm", ring.pm.in, drv.out) /\ l = Len(rom.d.got)
      /\ drv' = [drv EXCEPT !.out = i, !.n = drv.n - 1] /\ rom' = [rom EXCEPT !.d.got = c]
      /\ sm' = sm /\ ring' = ring /\ irq' = irq
  BY DEF ReadOne
<1> HIDE DEF i, w, c, g, l
<1>20. \A p, q \in Index("pm") :
         /\ Gap("pm", p, q) \in 0 .. Slots["pm"] - 1
         /\ Gap("pm", p, q) = 0 <=> p = q
         /\ NextSlot("pm", p) = q <=> Gap("pm", p, q) = Slots["pm"] - 1
         /\ NextSlot("pm", p) # q => Gap("pm", NextSlot("pm", p), q) = Gap("pm", p, q) + 1
         /\ p # q => Gap("pm", p, NextSlot("pm", q)) = Gap("pm", p, q) - 1
  BY RingFacts
<1>1. /\ drv.pc = "read" /\ rom.d.l1 /\ drv \in DrvType /\ drv.n \in Nat \ {0} /\ drv.out # drv.in
      /\ Frames /\ Posts /\ Commands /\ Results
  BY DEF DspInv, DspTypes, DrvType, States, ReadOne, At, Feeding
<1>2. /\ ring.pm \in RingType("pm") /\ ring.pm.in \in Index("pm") /\ ring.pm.out \in Index("pm")
      /\ drv.out \in Index("pm") /\ drv.in \in Index("pm") /\ Slots["pm"] \in Nat
  BY <1>1, RingOf, RingFacts DEF DspInv, Results, ReadsFrom
<1>3. i \in Index("pm") /\ i \in Nat /\ w \in Nat /\ i = SlotAfter("pm", drv.out, 1)
  <2>1. NextSlot("pm", drv.out) \in Index("pm") /\ NextSlot("pm", drv.out) = SlotAfter("pm", drv.out, 1)
    BY <1>2, RingFacts
  <2>2. i \in Index("pm") /\ i = SlotAfter("pm", drv.out, 1)
    BY <2>1, <1>0
  <2>3. ring.pm.slot[i] \in [n : Nat, more : BOOLEAN]
    BY <2>2, <1>2 DEF RingType
  <2>4. QED
    BY <2>2, <2>3, <1>0, <1>2 DEF Index
<1>4. /\ rom.d.got \in Seq(Nat) /\ rom.d.results \in Nat /\ l \in Nat /\ rom.d.got = Upto(l)
      /\ rom.d.results - l = g
      /\ \A j \in 1 .. g : ring.pm.slot[SlotAfter("pm", drv.out, j)].n = l + j
      /\ Gap("pm", drv.out, ring.pm.out) + Gap("pm", drv.in, drv.out) + Gap("pm", ring.pm.in, drv.in)
            = Gap("pm", ring.pm.in, ring.pm.out)
  <2>1. rom.d.got \in Seq(Nat) /\ rom.d.results \in Nat /\ Len(rom.d.got) \in Nat
    BY DEF DspInv, DspTypes, RomType
  <2>2. QED
    BY <1>0, <1>1, <2>1 DEF Results, ReadsFrom
<1>5. /\ Gap("pm", drv.in, drv.out) \in Nat \ {0} /\ Gap("pm", ring.pm.in, drv.in) \in Nat
      /\ Gap("pm", drv.out, ring.pm.out) \in Nat /\ Gap("pm", ring.pm.in, ring.pm.out) <= Slots["pm"] - 1
      /\ Gap("pm", ring.pm.in, ring.pm.out) \in Nat /\ g \in 0 .. Slots["pm"] - 1
  <2>1. /\ Gap("pm", drv.in, drv.out) \in 0 .. Slots["pm"] - 1 /\ Gap("pm", ring.pm.in, drv.in) \in 0 .. Slots["pm"] - 1
        /\ Gap("pm", drv.out, ring.pm.out) \in 0 .. Slots["pm"] - 1 /\ g \in 0 .. Slots["pm"] - 1
        /\ Gap("pm", ring.pm.in, ring.pm.out) \in 0 .. Slots["pm"] - 1
    BY <1>2, <1>0, <1>20
  <2>2. Gap("pm", drv.in, drv.out) # 0
    BY <1>1, <1>2, <1>0, <1>20
  <2>3. QED
    BY <1>2, <2>1, <2>2
\* What lies beyond where the driver reads is what lies before and after the index it knows.
<1>6. ring.pm.in # drv.out /\ i # ring.pm.out
  <2>1. ring.pm.in # drv.out
    <3>1. SUFFICES ASSUME ring.pm.in = drv.out PROVE FALSE
      OBVIOUS
    <3>2. Gap("pm", drv.out, ring.pm.out) = Gap("pm", ring.pm.in, ring.pm.out)
      BY <3>1
    <3>3. QED
      BY <3>2, <1>4, <1>5
  <2>2. i # ring.pm.out
    <3>1. Gap("pm", drv.out, ring.pm.out) # Slots["pm"] - 1
      BY <1>4, <1>5, <1>2
    <3>2. QED
      BY <3>1, <1>2, <1>0, <1>20
  <2>3. QED
    BY <2>1, <2>2
<1>7. /\ Gap("pm", ring.pm.in, i) = g - 1 /\ Gap("pm", drv.in, i) = Gap("pm", drv.in, drv.out) - 1
      /\ Gap("pm", i, ring.pm.out) = Gap("pm", drv.out, ring.pm.out) + 1
  <2>1. Gap("pm", ring.pm.in, i) = g - 1
    BY <1>2, <1>6, <1>0, <1>20
  <2>2. Gap("pm", drv.in, i) = Gap("pm", drv.in, drv.out) - 1
    BY <1>1, <1>2, <1>0, <1>20
  <2>3. Gap("pm", i, ring.pm.out) = Gap("pm", drv.out, ring.pm.out) + 1
    BY <1>2, <1>6, <1>0, <1>20
  <2>4. QED
    BY <2>1, <2>2, <2>3
<1>8. g # 0 /\ w = l + 1 /\ c = Upto(l + 1) /\ c \in Seq(Nat) /\ Len(c) = l + 1
  <2>1. g # 0
    BY <1>2, <1>6, <1>0, <1>20
  <2>2. 1 \in 1 .. g
    BY <2>1, <1>5, <1>2
  <2>3. w = l + 1
    BY <2>2, <1>0, <1>3, <1>4
  <2>4. c = Upto(l + 1)
    BY <2>3, <1>0, <1>4, UptoIs
  <2>5. c \in Seq(Nat) /\ Len(c) = l + 1
    BY <1>0, <1>3, <1>4, AppendProperties
  <2>6. QED
    BY <2>1, <2>3, <2>4, <2>5
<1>9. \A j \in 1 .. g - 1 : ring.pm.slot[SlotAfter("pm", i, j)].n = l + 1 + j
  <2>1. SUFFICES ASSUME NEW j \in 1 .. g - 1
                 PROVE  ring.pm.slot[SlotAfter("pm", i, j)].n = l + 1 + j
    OBVIOUS
  <2>2. j \in 1 .. Slots["pm"] - 2 /\ j + 1 \in 1 .. g /\ l + (j + 1) = l + 1 + j
    <3>1. g \in 0 .. Slots["pm"] - 1 /\ Slots["pm"] \in Nat /\ l \in Nat /\ j \in 1 .. g - 1
      BY <1>2, <1>4, <1>5
    <3>2. QED
      BY ONLY <3>1
  <2>3. SlotAfter("pm", i, j) = SlotAfter("pm", drv.out, j + 1)
    BY <1>0, <1>2, <2>2, RingFacts
  <2>4. QED
    BY <1>4, <2>2, <2>3
<1>11. /\ drv' \in DrvType /\ drv'.pc = "read" /\ drv'.out = i /\ drv'.in = drv.in
       /\ drv'.state = drv.state /\ drv'.held = drv.held
  <2>1. drv.n - 1 \in Nat
    BY <1>1
  <2>2. QED
    BY <1>1, <1>3, <1>0, <2>1 DEF DrvType
<1>12. /\ SameProgram /\ rom'.d.posted = rom.d.posted /\ rom'.d.frames = rom.d.frames /\ rom'.d.records = rom.d.records
       /\ rom'.d.got = c /\ rom'.d.results = rom.d.results
  BY <1>8, <1>0 DEF SameProgram, DspInv, DspTypes, RomType
<1>13. Frames'
  BY <1>1, <1>0, <1>12 DEF Frames
<1>14. Posts'
  BY <1>11 DEF Posts, Posting
<1>15. Commands'
  BY <1>1, <1>0, <1>11, <1>12 DEF Commands, Posting
<1>16. Results'
  <2>1. ReadsFrom' = i
    BY <1>11 DEF ReadsFrom
  <2>2. rom.d.results - (l + 1) = g - 1
    <3>1. rom.d.results - l = g /\ rom.d.results \in Nat /\ l \in Nat /\ g \in Nat
      BY <1>2, <1>4, <1>5
    <3>2. QED
      BY ONLY <3>1
  <2>3. Gap("pm", i, ring.pm.out) + Gap("pm", drv.in, i) + Gap("pm", ring.pm.in, drv.in)
            = Gap("pm", ring.pm.in, ring.pm.out)
    BY <1>4, <1>5, <1>7
  <2>4. c = Upto(Len(c)) /\ Len(c) = l + 1
    BY <1>8
  <2>5. QED
    <3>1. rom'.d.got = Upto(Len(rom'.d.got)) /\ Len(rom'.d.got) = l + 1
      BY <1>12, <2>4
    <3>2. rom'.d.results - Len(rom'.d.got) = Gap("pm", ring.pm.in, i)
      BY <3>1, <1>7, <1>12, <2>2
    <3>3. \A j \in 1 .. Gap("pm", ring.pm.in, i) : ring.pm.slot[SlotAfter("pm", i, j)].n = Len(rom'.d.got) + j
      BY <3>1, <1>7, <1>9
    <3>4. ring' = ring /\ drv'.in = drv.in /\ drv'.out = i
      BY <1>0, <1>11
    <3>5. QED
      BY <1>2, <1>3, <2>1, <2>3, <3>1, <3>2, <3>3, <3>4 DEF Results
<1>17. sm' \in ShareType /\ ring' \in RingsType /\ irq' \in IrqType /\ drv'.pc \in {"out"} \cup Feeding
  BY <1>0, <1>11 DEF DspInv, DspTypes, RingsType, IrqType, Feeding
<1>18. QED
  BY <1>1, <1>11, <1>12, <1>13, <1>14, <1>15, <1>16, <1>17, RunningKeeps

LEMMA ReadEndInv ==
  ASSUME DspInv, ReadEnd
  PROVE  DspInv'
<1>1. /\ drv.pc = "read" /\ rom.d.l1 /\ drv \in DrvType
      /\ Frames /\ Posts /\ Commands /\ Results
  BY DEF DspInv, DspTypes, DrvType, States, ReadEnd, At, Feeding
<1>2. drv.out \in Index("pm") /\ ReadsFrom = drv.out
  BY <1>1 DEF Results, ReadsFrom
<1>3. /\ drv' \in DrvType /\ drv'.pc = "out"
      /\ drv'.state = drv.state /\ drv'.held = drv.held
  BY <1>1, OutsideIs DEF ReadEnd, Leave
<1>4. sm' = sm /\ irq' = irq /\ rom' = rom /\ ring' = [ring EXCEPT !.pm.out = drv.out]
  BY DEF ReadEnd
<1>5. /\ ring' \in RingsType /\ ring'.fi = ring.fi /\ ring'.cmd = ring.cmd
      /\ ring'.pm.in = ring.pm.in /\ ring'.pm.out = drv.out /\ ring'.pm.slot = ring.pm.slot
  BY <1>2, <1>4 DEF RingsType, RingType, DspInv, DspTypes
<1>6. Frames'
  BY <1>1, <1>4, <1>5 DEF Frames
<1>7. Posts'
  BY <1>3 DEF Posts, Posting
<1>8. Commands'
  BY <1>1, <1>3, <1>4, <1>5 DEF Commands, Posting
<1>9. Results'
  <2>1. ReadsFrom' = drv.out
    BY <1>3, <1>5 DEF ReadsFrom
  <2>2. QED
    BY <1>1, <1>2, <1>3, <1>4, <1>5, <2>1 DEF Results
<1>10. SameProgram /\ sm' \in ShareType /\ irq' \in IrqType
  BY <1>4 DEF SameProgram, DspInv, DspTypes, IrqType
<1>11. QED
  BY <1>1, <1>3, <1>5, <1>6, <1>7, <1>8, <1>9, <1>10, RunningKeeps

\* No frame is carried out while records are sent: none has been posted.
LEMMA DspFrameInv ==
  ASSUME DspInv, DspFrame
  PROVE  DspInv'
<1> DEFINE i == NextSlot("fi", ring.fi.out)
           w == ring.fi.slot[i].n
           c == Append(rom.d.frames, w)
           g == Gap("fi", ring.fi.in, ring.fi.out)
           l == Len(rom.d.frames)
<1>0. /\ i = NextSlot("fi", ring.fi.out) /\ w = ring.fi.slot[i].n /\ c = Append(rom.d.frames, w)
      /\ g = Gap("fi", ring.fi.in, ring.fi.out) /\ l = Len(rom.d.frames)
      /\ ring' = [ring EXCEPT !.fi.out = i] /\ rom' = [rom EXCEPT !.d.frames = c]
      /\ sm' = sm /\ drv' = drv
  BY DEF DspFrame
<1> HIDE DEF i, w, c, g, l
<1>1. /\ rom.d.l1 /\ drv \in DrvType /\ ring.fi.out # ring.fi.in
      /\ Frames /\ Posts /\ Commands /\ Results
  BY DEF DspInv, DspTypes, DspFrame, Layer1
<1>2. /\ ring.fi \in RingType("fi") /\ ring.fi.in \in Index("fi") /\ ring.fi.out \in Index("fi")
      /\ Slots["fi"] \in Nat /\ g \in 0 .. Slots["fi"] - 1
  <2>1. ring.fi \in RingType("fi")
    BY DEF DspInv, DspTypes
  <2>2. ring.fi.in \in Index("fi") /\ ring.fi.out \in Index("fi")
    BY <2>1 DEF RingType
  <2>3. QED
    BY <2>1, <2>2, <1>0, RingFacts
<1>3. i \in Index("fi") /\ w \in Nat /\ i = SlotAfter("fi", ring.fi.out, 1)
  <2>1. i \in Index("fi") /\ i = SlotAfter("fi", ring.fi.out, 1)
    BY <1>0, <1>2, RingFacts
  <2>2. ring.fi.slot[i] \in [n : Nat, more : BOOLEAN]
    BY <2>1, <1>2 DEF RingType
  <2>3. QED
    BY <2>1, <2>2, <1>0
<1>4. /\ rom.d.frames \in Seq(Nat) /\ rom.d.posted \in Nat /\ l \in Nat /\ rom.d.frames = Upto(l)
      /\ rom.d.posted - l = g
      /\ \A j \in 1 .. g : ring.fi.slot[SlotAfter("fi", ring.fi.out, j)].n = l + j
  <2>1. rom.d.frames \in Seq(Nat) /\ rom.d.posted \in Nat /\ Len(rom.d.frames) \in Nat
    BY DEF DspInv, DspTypes, RomType
  <2>2. QED
    BY <1>0, <1>1, <2>1 DEF Frames
<1>5. g # 0 /\ Gap("fi", ring.fi.in, i) = g - 1 /\ rom.d.posted # 0
  <2>1. Gap("fi", ring.fi.in, ring.fi.out) # 0
    BY <1>1, <1>2, RingFacts
  <2>2. Gap("fi", ring.fi.in, i) = g - 1
    <3>1. \A p, q \in Index("fi") : p # q => Gap("fi", p, NextSlot("fi", q)) = Gap("fi", p, q) - 1
      BY RingFacts
    <3>2. QED
      BY <3>1, <1>0, <1>1, <1>2
  <2>3. QED
    BY <2>1, <2>2, <1>0, <1>2, <1>4
<1>6. w = l + 1 /\ c = Upto(l + 1) /\ c \in Seq(Nat) /\ Len(c) = l + 1
  <2>1. 1 \in 1 .. g
    BY <1>2, <1>5
  <2>2. w = l + 1
    BY <2>1, <1>0, <1>3, <1>4
  <2>3. QED
    BY <2>2, <1>0, <1>4, UptoIs, AppendProperties, SMTT(20)
<1>7. \A j \in 1 .. g - 1 : ring.fi.slot[SlotAfter("fi", i, j)].n = l + 1 + j
  <2>1. SUFFICES ASSUME NEW j \in 1 .. g - 1
                 PROVE  ring.fi.slot[SlotAfter("fi", i, j)].n = l + 1 + j
    OBVIOUS
  <2>2. j \in 1 .. Slots["fi"] - 2 /\ j + 1 \in 1 .. g /\ l + (j + 1) = l + 1 + j
    BY <1>2, <1>4, SMTT(20)
  <2>3. SlotAfter("fi", i, j) = SlotAfter("fi", ring.fi.out, j + 1)
    BY <1>0, <1>2, <2>2, RingFacts
  <2>4. QED
    BY <1>4, <2>2, <2>3
<1>8. /\ ring' \in RingsType /\ ring'.pm = ring.pm /\ ring'.cmd = ring.cmd
      /\ ring'.fi.in = ring.fi.in /\ ring'.fi.out = i /\ ring'.fi.slot = ring.fi.slot
  BY <1>0, <1>3 DEF RingsType, RingType, DspInv, DspTypes
<1>9. /\ SameProgram /\ rom'.d.posted = rom.d.posted /\ rom'.d.frames = c /\ rom'.d.records = rom.d.records
      /\ rom'.d.got = rom.d.got /\ rom'.d.results = rom.d.results
  BY <1>0, <1>6 DEF SameProgram, DspInv, DspTypes, RomType
<1>10. irq' \in IrqType
  BY DEF DspFrame, DspInv, DspTypes, IrqType, RingType
<1>11. Frames'
  <2>1. rom'.d.frames = Upto(Len(rom'.d.frames)) /\ Len(rom'.d.frames) = l + 1
    BY <1>6, <1>9
  <2>2. rom.d.posted - (l + 1) = g - 1
    BY <1>2, <1>4
  <2>3. rom'.d.posted - Len(rom'.d.frames) = Gap("fi", ring'.fi.in, ring'.fi.out)
    BY <2>1, <2>2, <1>5, <1>8, <1>9
  <2>4. \A j \in 1 .. Gap("fi", ring'.fi.in, ring'.fi.out) :
          ring'.fi.slot[SlotAfter("fi", ring'.fi.out, j)].n = Len(rom'.d.frames) + j
    BY <2>1, <1>5, <1>7, <1>8
  <2>5. QED
    BY <2>1, <2>3, <2>4 DEF Frames
<1>12. Posts'
  <2>1. drv.r \in {"fi", "cmd"}
    BY <1>1 DEF DrvType
  <2>2. ring'[drv.r].in = ring[drv.r].in
    BY <2>1, <1>8
  <2>3. g < Slots.fi - 1 => Gap("fi", ring'.fi.in, ring'.fi.out) < Slots.fi - 1
    BY <1>2, <1>5, <1>8
  <2>4. QED
    BY <1>0, <1>1, <1>8, <1>9, <2>2, <2>3 DEF Posts
<1>13. Commands'
  BY <1>0, <1>1, <1>5, <1>8, <1>9 DEF Commands, Posting
<1>14. Results'
  BY <1>0, <1>1, <1>8, <1>9, ZenonT(30) DEF Results, ReadsFrom
<1>15. drv' \in DrvType /\ drv'.pc \in {"out"} \cup Feeding /\ sm' \in ShareType
  BY <1>0, <1>1 DEF DspInv, DspTypes, DrvType, States
<1>16. QED
  BY <1>0, <1>1, <1>8, <1>9, <1>10, <1>11, <1>12, <1>13, <1>14, <1>15, RunningKeeps

LEMMA DspCommandInv ==
  ASSUME DspInv, DspCommand
  PROVE  DspInv'
<1> DEFINE c == Append(rom.d.records, sm.rec)
           l == Len(rom.d.records)
<1>0. /\ c = Append(rom.d.records, sm.rec) /\ l = Len(rom.d.records)
      /\ ring' = [ring EXCEPT !.cmd.out = NextSlot("cmd", ring.cmd.out)] /\ rom' = [rom EXCEPT !.d.records = c]
      /\ sm' = sm /\ drv' = drv
  BY DEF DspCommand
<1> HIDE DEF c, l
<1>1. /\ rom.d.l1 /\ drv \in DrvType /\ ring.cmd.out # ring.cmd.in
      /\ Frames /\ Posts /\ Commands /\ Results
  BY DEF DspInv, DspTypes, DspCommand, Layer1
<1>2. ring.cmd.in \in Index("cmd") /\ ring.cmd.out \in Index("cmd")
  BY RingOf DEF DspInv
<1>3. Gap("cmd", ring.cmd.in, ring.cmd.out) = 1 /\ sm.rec = l + 1
  BY <1>0, <1>1 DEF Commands
<1>4. NextSlot("cmd", ring.cmd.out) = ring.cmd.in
  <2>1. NextSlot("cmd", ring.cmd.out) \in Index("cmd")
    BY <1>2, RingFacts
  <2>2. Gap("cmd", ring.cmd.in, NextSlot("cmd", ring.cmd.out)) = Gap("cmd", ring.cmd.in, ring.cmd.out) - 1
    <3>1. \A p, q \in Index("cmd") : p # q => Gap("cmd", p, NextSlot("cmd", q)) = Gap("cmd", p, q) - 1
      BY RingFacts
    <3>2. QED
      BY <3>1, <1>1, <1>2
  <2>3. Gap("cmd", ring.cmd.in, NextSlot("cmd", ring.cmd.out)) = 0
    BY <2>2, <1>3
  <2>4. \A p, q \in Index("cmd") : Gap("cmd", p, q) = 0 => p = q
    BY RingFacts
  <2>5. QED
    BY <2>1, <2>3, <2>4, <1>2
<1>5. l \in Nat /\ rom.d.records = Upto(l) /\ rom.d.records \in Seq(Nat)
  <2>1. rom.d.records \in Seq(Nat) /\ Len(rom.d.records) \in Nat
    BY DEF DspInv, DspTypes, RomType
  <2>2. QED
    BY <2>1, <1>0, <1>1 DEF Commands
<1>6. c = Upto(l + 1) /\ c \in Seq(Nat) /\ Len(c) = l + 1
  BY <1>0, <1>3, <1>5, UptoIs, AppendProperties
<1>7. /\ ring' \in RingsType /\ ring'.pm = ring.pm /\ ring'.fi = ring.fi
      /\ ring'.cmd.in = ring.cmd.in /\ ring'.cmd.out = ring.cmd.in
  BY <1>0, <1>2, <1>4 DEF RingsType, RingType, DspInv, DspTypes
<1>8. /\ SameProgram /\ rom'.d.posted = rom.d.posted /\ rom'.d.frames = rom.d.frames /\ rom'.d.records = c
      /\ rom'.d.got = rom.d.got /\ rom'.d.results = rom.d.results
  BY <1>0, <1>6 DEF SameProgram, DspInv, DspTypes, RomType
<1>9. irq' \in IrqType
  BY DEF DspCommand, DspInv, DspTypes, IrqType
<1>10. Frames'
  BY <1>1, <1>7, <1>8 DEF Frames
<1>11. Posts'
  <2>1. drv.r \in {"fi", "cmd"}
    BY <1>1 DEF DrvType
  <2>2. ring'[drv.r].in = ring[drv.r].in
    BY <2>1, <1>7
  <2>3. QED
    BY <1>0, <1>1, <1>7, <1>8, <2>2 DEF Posts
<1>12. Commands'
  <2>1. rom'.d.records = Upto(Len(rom'.d.records)) /\ Len(rom'.d.records) = l + 1
    BY <1>6, <1>8
  <2>2. drv.pc \notin {"records"} /\ ~(drv.pc \in Posting /\ drv.r = "cmd")
    BY <1>1 DEF Commands
  <2>3. drv.pc = "taken" => l = drv.n - 1 /\ drv.n \in Nat \ {0} /\ sm.rec = drv.n /\ rom.d.posted = 0
    BY <1>0, <1>1 DEF Commands
  <2>4. drv.pc = "taken" => l + 1 = drv.n
    BY <2>3, <1>5
  <2>5. QED
    BY <1>0, <1>7, <1>8, <2>1, <2>2, <2>3, <2>4 DEF Commands
<1>13. Results'
  BY <1>0, <1>1, <1>7, <1>8, ZenonT(30) DEF Results, ReadsFrom
<1>14. drv' \in DrvType /\ drv'.pc \in {"out"} \cup Feeding /\ sm' \in ShareType
  BY <1>0, <1>1 DEF DspInv, DspTypes, DrvType, States
<1>15. QED
  BY <1>0, <1>1, <1>7, <1>8, <1>9, <1>10, <1>11, <1>12, <1>13, <1>14, RunningKeeps

\* The slot of the next result is outside what the driver still reads.
LEMMA DspResultInv ==
  ASSUME DspInv, DspResult
  PROVE  DspInv'
<1> DEFINE i == NextSlot("pm", ring.pm.in)
           n == rom.d.results + 1
           l == Len(rom.d.got)
           o == ReadsFrom
           g == Gap("pm", ring.pm.in, o)
<1>0. /\ i = NextSlot("pm", ring.pm.in) /\ n = rom.d.results + 1 /\ l = Len(rom.d.got) /\ o = ReadsFrom
      /\ g = Gap("pm", ring.pm.in, o) /\ i # ring.pm.out
      /\ ring' = [ring EXCEPT !.pm.slot[i].n = n, !.pm.in = i] /\ rom' = [rom EXCEPT !.d.results = n]
      /\ sm' = sm /\ drv' = drv /\ irq' = irq
  BY DEF DspResult
<1> HIDE DEF i, n, l, o, g
<1>1. /\ rom.d.l1 /\ drv \in DrvType
      /\ Frames /\ Posts /\ Commands /\ Results
  BY DEF DspInv, DspTypes, DspResult, Layer1
<1>2. /\ ring.pm \in RingType("pm") /\ ring.pm.in \in Index("pm") /\ ring.pm.out \in Index("pm")
      /\ o \in Index("pm") /\ Slots["pm"] \in Nat /\ g \in 0 .. Slots["pm"] - 1
  <2>1. ring.pm \in RingType("pm")
    BY DEF DspInv, DspTypes
  <2>2. ring.pm.in \in Index("pm") /\ ring.pm.out \in Index("pm")
    BY <2>1 DEF RingType
  <2>3. o \in Index("pm")
    BY <1>0, <1>1 DEF Results
  <2>4. QED
    BY <2>1, <2>2, <2>3, <1>0, RingFacts
<1>3. rom.d.results \in Nat /\ l \in Nat /\ rom.d.results - l = g /\ n \in Nat
  <2>1. rom.d.results \in Nat /\ Len(rom.d.got) \in Nat
    BY DEF DspInv, DspTypes, RomType
  <2>2. QED
    BY <1>0, <1>1, <2>1 DEF Results
<1>4. \A j \in 1 .. g : ring.pm.slot[SlotAfter("pm", o, j)].n = l + j
  BY <1>0, <1>1 DEF Results
<1>5. \A p, q \in Index("pm") :
         /\ Gap("pm", p, q) \in 0 .. Slots["pm"] - 1
         /\ NextSlot("pm", p) \in Index("pm")
         /\ NextSlot("pm", p) = q <=> Gap("pm", p, q) = Slots["pm"] - 1
         /\ NextSlot("pm", p) # q => Gap("pm", NextSlot("pm", p), q) = Gap("pm", p, q) + 1
         /\ \A j \in 1 .. Gap("pm", p, q) : SlotAfter("pm", q, j) # NextSlot("pm", p)
         /\ SlotAfter("pm", q, Gap("pm", p, q) + 1) = NextSlot("pm", p) \/ NextSlot("pm", p) = q
         /\ \A j \in 0 .. Slots["pm"] - 1 : SlotAfter("pm", q, j) \in Index("pm")
  <2>1. SUFFICES ASSUME NEW p \in Index("pm"), NEW q \in Index("pm")
                 PROVE  /\ Gap("pm", p, q) \in 0 .. Slots["pm"] - 1
                        /\ NextSlot("pm", p) \in Index("pm")
                        /\ NextSlot("pm", p) = q <=> Gap("pm", p, q) = Slots["pm"] - 1
                        /\ NextSlot("pm", p) # q => Gap("pm", NextSlot("pm", p), q) = Gap("pm", p, q) + 1
                        /\ \A j \in 1 .. Gap("pm", p, q) : SlotAfter("pm", q, j) # NextSlot("pm", p)
                        /\ SlotAfter("pm", q, Gap("pm", p, q) + 1) = NextSlot("pm", p) \/ NextSlot("pm", p) = q
                        /\ \A j \in 0 .. Slots["pm"] - 1 : SlotAfter("pm", q, j) \in Index("pm")
    OBVIOUS
  <2>2. /\ Gap("pm", p, q) \in 0 .. Slots["pm"] - 1
        /\ NextSlot("pm", p) \in Index("pm")
        /\ NextSlot("pm", p) = q <=> Gap("pm", p, q) = Slots["pm"] - 1
    BY <2>1, RingFacts
  <2>3. NextSlot("pm", p) # q => Gap("pm", NextSlot("pm", p), q) = Gap("pm", p, q) + 1
    BY <2>1, RingFacts
  <2>4. \A j \in 1 .. Gap("pm", p, q) : SlotAfter("pm", q, j) # NextSlot("pm", p)
    BY <2>1, RingFacts
  <2>5. SlotAfter("pm", q, Gap("pm", p, q) + 1) = NextSlot("pm", p) \/ NextSlot("pm", p) = q
    BY <2>1, RingFacts
  <2>6. \A j \in 0 .. Slots["pm"] - 1 : SlotAfter("pm", q, j) \in Index("pm")
    BY <2>1, RingFacts
  <2>7. QED
    BY <2>2, <2>3, <2>4, <2>5, <2>6
<1>6. /\ drv.pc = "read" => o = drv.out /\ drv.in \in Index("pm")
        /\ Gap("pm", drv.out, ring.pm.out) + Gap("pm", drv.in, drv.out) + Gap("pm", ring.pm.in, drv.in)
             = Gap("pm", ring.pm.in, ring.pm.out)
      /\ drv.pc # "read" => o = ring.pm.out
  BY <1>0, <1>1 DEF Results, ReadsFrom
<1>7. Gap("pm", ring.pm.in, ring.pm.out) < Slots["pm"] - 1 /\ Gap("pm", i, ring.pm.out) = Gap("pm", ring.pm.in, ring.pm.out) + 1
      /\ i \in Index("pm")
  <2>1. /\ Gap("pm", ring.pm.in, ring.pm.out) \in 0 .. Slots["pm"] - 1
        /\ Gap("pm", ring.pm.in, ring.pm.out) # Slots["pm"] - 1
    BY <1>0, <1>2, <1>5
  <2>2. Gap("pm", i, ring.pm.out) = Gap("pm", ring.pm.in, ring.pm.out) + 1 /\ i \in Index("pm")
    BY <1>0, <1>2, <1>5
  <2>3. QED
    BY <2>1, <2>2, <1>2
<1>8. ASSUME drv.pc = "read"
      PROVE  /\ g = Gap("pm", drv.in, o) + Gap("pm", ring.pm.in, drv.in)
             /\ i # drv.in /\ g < Slots["pm"] - 1
  <2>1. /\ o = drv.out /\ drv.in \in Index("pm")
        /\ Gap("pm", drv.out, ring.pm.out) + Gap("pm", drv.in, drv.out) + Gap("pm", ring.pm.in, drv.in)
             = Gap("pm", ring.pm.in, ring.pm.out)
    BY <1>6, <1>8
  <2> DEFINE a == Gap("pm", o, ring.pm.out)
             b == Gap("pm", drv.in, o)
             d == Gap("pm", ring.pm.in, drv.in)
             s == Slots["pm"]
  <2>2. a \in 0 .. s - 1 /\ b \in 0 .. s - 1 /\ d \in 0 .. s - 1 /\ s \in Nat
    BY <1>2, <1>5, <2>1
  <2>3. a + b + d < s - 1
    BY <1>7, <2>1
  <2>4. g = IF ring.pm.in >= o THEN ring.pm.in - o ELSE ring.pm.in - o + s
    BY <1>0 DEF Gap
  <2>5. b = IF drv.in >= o THEN drv.in - o ELSE drv.in - o + s
    BY DEF Gap
  <2>6. d = IF ring.pm.in >= drv.in THEN ring.pm.in - drv.in ELSE ring.pm.in - drv.in + s
    BY DEF Gap
  <2>7. o \in 0 .. s - 1 /\ drv.in \in 0 .. s - 1 /\ ring.pm.in \in 0 .. s - 1
    BY <1>2, <2>1 DEF Index
  <2> HIDE DEF a, b, d, s
  <2>8. g = b + d
    <3>1. g = b + d \/ b + d = g + s
      BY ONLY <2>2, <2>4, <2>5, <2>6, <2>7
    <3>2. g \in 0 .. s - 1
      BY ONLY <2>2, <2>4, <2>7
    <3>3. QED
      BY ONLY <2>2, <2>3, <3>1, <3>2
  <2>9. d # s - 1 /\ g < s - 1
    BY <2>2, <2>3, <2>8
  <2>10. i # drv.in
    BY <2>1, <2>9, <1>0, <1>2, <1>5 DEF d, s
  <2>11. QED
    BY <2>8, <2>9, <2>10 DEF b, d, s
<1>9. g < Slots["pm"] - 1
  BY <1>0, <1>6, <1>7, <1>8
<1>10. Gap("pm", i, o) = g + 1 /\ SlotAfter("pm", o, g + 1) = i
  <2>1. i # o
    BY <1>0, <1>2, <1>5, <1>9
  <2>2. QED
    BY <2>1, <1>0, <1>2, <1>5
<1>11. /\ ring' \in RingsType /\ ring'.fi = ring.fi /\ ring'.cmd = ring.cmd
       /\ ring'.pm.in = i /\ ring'.pm.out = ring.pm.out /\ ring'.pm.slot = [ring.pm.slot EXCEPT ![i].n = n]
  <2> DEFINE s == [ring.pm.slot EXCEPT ![i].n = n]
  <2>1. ring.pm.slot \in [Index("pm") -> [n : Nat, more : BOOLEAN]] /\ ring \in RingsType
    BY DEF DspInv, DspTypes, RingType, RingsType
  <2>2. s \in [Index("pm") -> [n : Nat, more : BOOLEAN]]
    BY <2>1, <1>3, <1>7
  <2>3. ring' = [ring EXCEPT !.pm.slot = s, !.pm.in = i]
    BY <1>0
  <2>4. s = [ring.pm.slot EXCEPT ![i].n = n]
    OBVIOUS
  <2> HIDE DEF s
  <2>5. /\ ring' \in RingsType /\ ring'.fi = ring.fi /\ ring'.cmd = ring.cmd
        /\ ring'.pm.in = i /\ ring'.pm.out = ring.pm.out /\ ring'.pm.slot = s
    BY <2>1, <2>2, <2>3, <1>7 DEF RingsType, RingType
  <2>6. QED
    BY <2>4, <2>5
<1>12. /\ SameProgram /\ rom'.d.posted = rom.d.posted /\ rom'.d.frames = rom.d.frames /\ rom'.d.records = rom.d.records
       /\ rom'.d.got = rom.d.got /\ rom'.d.results = n
  BY <1>0, <1>3 DEF SameProgram, DspInv, DspTypes, RomType
<1>13. ASSUME NEW j \in 1 .. g + 1
       PROVE  ring'.pm.slot[SlotAfter("pm", o, j)].n = l + j
  <2>1. ring.pm.slot \in [Index("pm") -> [n : Nat, more : BOOLEAN]]
    BY <1>2 DEF RingType
  <2>2. CASE j = g + 1
    <3>1. ring'.pm.slot[i].n = n
      BY <2>1, <1>7, <1>11
    <3>2. n = l + (g + 1)
      BY <1>0, <1>2, <1>3
    <3>3. QED
      BY <2>2, <3>1, <3>2, <1>10
  <2>3. CASE j # g + 1
    <3>1. j \in 1 .. g /\ j \in 0 .. Slots["pm"] - 1
      BY <2>3, <1>2, <1>13
    <3>2. SlotAfter("pm", o, j) # i /\ SlotAfter("pm", o, j) \in Index("pm")
      BY <3>1, <1>0, <1>2, <1>5
    <3>3. QED
      BY <2>1, <3>1, <3>2, <1>4, <1>11
  <2>4. QED
    BY <2>2, <2>3
<1>14. Frames'
  BY <1>1, <1>11, <1>12 DEF Frames
<1>15. Posts'
  <2>1. drv.r \in {"fi", "cmd"}
    BY <1>1 DEF DrvType
  <2>2. ring'[drv.r].in = ring[drv.r].in
    BY <2>1, <1>11
  <2>3. QED
    BY <1>0, <1>1, <1>11, <1>12, <2>2 DEF Posts
<1>16. Commands'
  BY <1>0, <1>1, <1>11, <1>12 DEF Commands
<1>17. Results'
  <2>1. ReadsFrom' = o
    BY <1>0, <1>11 DEF ReadsFrom
  <2>2. n - l = g + 1
    BY <1>0, <1>2, <1>3
  <2>3. drv.pc = "read" =>
          Gap("pm", drv.out, ring.pm.out) + Gap("pm", drv.in, drv.out) + Gap("pm", i, drv.in)
             = Gap("pm", i, ring.pm.out)
    <3>1. SUFFICES ASSUME drv.pc = "read"
                   PROVE  Gap("pm", drv.out, ring.pm.out) + Gap("pm", drv.in, drv.out) + Gap("pm", i, drv.in)
                            = Gap("pm", i, ring.pm.out)
      OBVIOUS
    <3>2. /\ o = drv.out /\ drv.in \in Index("pm")
          /\ Gap("pm", drv.out, ring.pm.out) + Gap("pm", drv.in, drv.out) + Gap("pm", ring.pm.in, drv.in)
               = Gap("pm", ring.pm.in, ring.pm.out)
      BY <1>6, <3>1
    <3>3. Gap("pm", i, drv.in) = Gap("pm", ring.pm.in, drv.in) + 1
      BY <1>8, <3>1, <3>2, <1>0, <1>2, <1>5
    <3>4. /\ Gap("pm", drv.out, ring.pm.out) \in Int /\ Gap("pm", drv.in, drv.out) \in Int
          /\ Gap("pm", ring.pm.in, drv.in) \in Int
      <4>1. /\ Gap("pm", drv.out, ring.pm.out) \in 0 .. Slots["pm"] - 1
            /\ Gap("pm", drv.in, drv.out) \in 0 .. Slots["pm"] - 1
            /\ Gap("pm", ring.pm.in, drv.in) \in 0 .. Slots["pm"] - 1
        BY <1>2, <1>5, <3>2
      <4>2. QED
        BY <4>1, <1>2
    <3>5. QED
      BY <3>2, <3>3, <3>4, <1>7
  <2>4. rom'.d.got = Upto(Len(rom'.d.got)) /\ Len(rom'.d.got) = l
    BY <1>0, <1>1, <1>12 DEF Results
  <2>5. QED
    BY <1>0, <1>2, <1>6, <1>10, <1>11, <1>12, <1>13, <2>1, <2>2, <2>3, <2>4, ZenonT(30) DEF Results
<1>18. drv' \in DrvType /\ drv'.pc \in {"out"} \cup Feeding /\ sm' \in ShareType /\ irq' \in IrqType
  BY <1>0, <1>1 DEF DspInv, DspTypes, DrvType, States, IrqType
<1>19. QED
  BY <1>0, <1>1, <1>11, <1>12, <1>14, <1>15, <1>16, <1>17, <1>18, RunningKeeps

LEMMA DspIsrInv ==
  ASSUME DspInv, DspIsr
  PROVE  DspInv'
<1>1. drv' = drv /\ sm' = sm /\ ring' = ring /\ rom' = rom /\ irq.line /\ irq.latch
  BY DEF DspIsr
<1>2. irq' \in IrqType
  <2>1. PICK storm \in BOOLEAN : irq' = [latch |-> FALSE, line |-> ~storm, moved |-> TRUE]
    BY DEF DspIsr
  <2>2. QED
    BY <2>1 DEF IrqType
<1>3. DspTypes' /\ States' /\ Download'
  BY <1>1, <1>2 DEF DspInv, DspTypes, States, Download, IrqType
<1>4. ASSUME rom.d.l1
      PROVE  Frames' /\ Posts' /\ Commands' /\ Results'
  <2>1. Frames /\ Posts /\ Commands /\ Results
    BY <1>4 DEF DspInv
  <2>2. Frames' /\ Results'
    BY <1>1, <2>1 DEF Frames, Results, ReadsFrom
  <2>3. Posts'
    BY <1>1, <2>1 DEF Posts
  <2>4. Commands'
    BY <1>1, <2>1 DEF Commands
  <2>5. QED
    BY <2>2, <2>3, <2>4
<1>5. QED
  BY <1>1, <1>3, <1>4 DEF DspInv

LEMMA DspStarts ==
  ASSUME DspInit
  PROVE  DspInv
<1>1. DspTypes
  BY FreshIs, ClearedIs, EmptySeq DEF DspInit, DspTypes, DrvType, ShareType
<1>2. States
  BY FreshIs DEF DspInit, States, Loading, Feeding, Posting
<1>3. Download
  BY DEF DspInit, Download, Loading
<1>4. ~rom.d.l1
  BY FreshIs DEF DspInit
<1>5. QED
  BY <1>1, <1>2, <1>3, <1>4 DEF DspInv

LEMMA DspSteps ==
  ASSUME DspInv, [DspNext]_dspvars
  PROVE  DspInv'
<1>1. ASSUME ~Preempted, DspDriver
      PROVE  DspInv'
  <2>1. CASE Boot \/ Load \/ ReleaseReset \/ Keep \/ PutBlock \/ SeesReady \/ SeesReadyToCopy \/ SeesCopied
             \/ SeesInterrupt \/ Start \/ Fail \/ DspStop
    BY <2>1, BootInv, LoadInv, ReleaseResetInv, KeepInv, PutBlockInv, SeesReadyInv, SeesReadyToCopyInv,
       SeesCopiedInv, SeesInterruptInv, StartInv, FailInv, DspStopInv
  <2>2. CASE L1Start \/ PutRecord \/ RecordsSent \/ NotTaken \/ PostFrame \/ PostRead \/ PostSlot
    BY <2>2, <1>1, L1StartInv, PutRecordInv, RecordsSentInv, PostFrameInv, PostReadInv, PostSlotInv
  <2>3. CASE PostIn
    <3>1. drv.r \in {"fi", "cmd"}
      BY DEF DspInv, DspTypes, DrvType
    <3>2. QED
      BY <2>3, <3>1, PostInFrame, PostInCommand
  <2>4. CASE AskMore \/ RecordTaken \/ ReadBegin \/ ReadOne \/ ReadEnd
    BY <2>4, AskMoreInv, RecordTakenInv, ReadBeginInv, ReadOneInv, ReadEndInv
  <2>5. QED
    BY <1>1, <2>1, <2>2, <2>3, <2>4 DEF DspDriver
<1>2. CASE Rom
  BY <1>2, RomReadyInv, RomReadyToCopyInv, RomCopyInv DEF Rom
<1>3. CASE DspFrame \/ DspCommand \/ DspResult \/ DspIsr
  BY <1>3, DspFrameInv, DspCommandInv, DspResultInv, DspIsrInv
<1>4. CASE UNCHANGED dspvars
  <2>1. drv' = drv /\ sm' = sm /\ ring' = ring /\ rom' = rom /\ irq' = irq
    BY <1>4 DEF dspvars
  <2>2. DspTypes' /\ States' /\ Download'
    BY <2>1 DEF DspInv, DspTypes, States, Download
  <2>3. (rom.d.l1 => Frames /\ Posts /\ Commands /\ Results)'
    BY <2>1 DEF DspInv, Frames, Posts, Commands, Results, ReadsFrom
  <2>4. QED
    BY <2>2, <2>3 DEF DspInv
<1>5. QED
  BY <1>1, <1>2, <1>3, <1>4 DEF DspNext

LEMMA DspInvKeeps ==
  ASSUME DspInv
  PROVE  DspKept
<1>1. Downloaded
  BY DEF DspInv, DspTypes, DrvType, States, Downloaded
<1>2. RingsKept
  <2>1. CASE rom.d.l1
    <3>1. Frames /\ Commands /\ Results
      BY <2>1 DEF DspInv
    <3>2. Len(rom.d.frames) \in Nat /\ Len(rom.d.got) \in Nat /\ rom.d.posted \in Nat /\ rom.d.results \in Nat
      BY DEF DspInv, DspTypes, RomType
    <3>3. Gap("fi", ring.fi.in, ring.fi.out) \in Nat /\ Gap("pm", ring.pm.in, ReadsFrom) \in Nat
      <4>1. ring.fi.in \in Index("fi") /\ ring.fi.out \in Index("fi") /\ ring.pm.in \in Index("pm")
            /\ ReadsFrom \in Index("pm")
        BY <3>1, RingOf DEF DspInv, Results
      <4>2. /\ Gap("fi", ring.fi.in, ring.fi.out) \in 0 .. Slots["fi"] - 1 /\ Slots["fi"] \in Nat
            /\ Gap("pm", ring.pm.in, ReadsFrom) \in 0 .. Slots["pm"] - 1 /\ Slots["pm"] \in Nat
        BY <4>1, RingFacts
      <4>3. QED
        BY ONLY <4>2
    <3>4. Len(rom.d.frames) <= rom.d.posted /\ Len(rom.d.got) <= rom.d.results
      BY <3>1, <3>2, <3>3 DEF Frames, Results
    <3>5. QED
      BY <3>1, <3>4 DEF RingsKept, InOrder, Frames, Commands, Results, At
  <2>2. CASE ~rom.d.l1
    <3>1. rom.d.posted = 0 /\ rom.d.frames = <<>> /\ rom.d.records = <<>> /\ drv.pc # "records"
      BY <2>2 DEF DspInv, States, Feeding
    <3>2. \A q : q = <<>> => q = Upto(Len(q)) /\ Len(q) = 0
      BY UptoIs, EmptySeq
    <3>3. QED
      BY <2>2, <3>1, <3>2 DEF RingsKept, InOrder, At, Layer1
  <2>3. QED
    BY <2>1, <2>2
<1>3. QED
  BY <1>1, <1>2 DEF DspKept

\* The DSP only runs with its whole program, whatever attempts were given up before, and
\* nothing on its rings is lost, repeated or read before it is there.
THEOREM DspIsFed == DspSpec => []DspKept
<1>1. DspInit => DspInv
  BY DspStarts
<1>2. DspInv /\ [DspNext]_dspvars => DspInv'
  BY DspSteps
<1>3. DspInv => DspKept
  BY DspInvKeeps
<1>4. QED
  BY <1>1, <1>2, <1>3, PTL DEF DspSpec
-----------------------------------------------------------------------------
(* The tick *)

\* Products of neighbours are apart by the factor.
LEMMA FactorApart ==
  ASSUME NEW a \in Int, NEW b \in Int, NEW c \in Nat \ {0}, a < b
  PROVE  a * c + c <= b * c
<1>1. b - a - 1 \in Nat
  OBVIOUS
<1>2. (b - a - 1) * c \in Nat
  BY <1>1
<1>3. (b - a - 1) * c = b * c - a * c - c
  OBVIOUS
<1>4. a * c \in Int /\ b * c \in Int
  OBVIOUS
<1>5. QED
  BY <1>2, <1>3, <1>4

LEMMA Divided ==
  ASSUME NEW a \in Int, NEW c \in Nat \ {0}
  PROVE  \E q \in Int, r \in 0 .. c - 1 : a \div c = q /\ a % c = r /\ a = q * c + r
<1>1. PICK q \in Int : a \div c = q
  OBVIOUS
<1>2. PICK r \in 0 .. c - 1 : a % c = r
  OBVIOUS
<1>3. a % c = a - c * (a \div c)
  OBVIOUS
<1>4. r = a - c * q /\ r \in Int
  BY <1>1, <1>2, <1>3
<1>5. c * q = q * c /\ c * q \in Int
  OBVIOUS
<1>6. a = q * c + r
  BY <1>4, <1>5
<1>7. QED
  BY <1>1, <1>2, <1>6

LEMMA RemainderIs ==
  ASSUME NEW a \in Int, NEW c \in Nat \ {0}, NEW q \in Int, NEW r \in 0 .. c - 1, a = q * c + r
  PROVE  a % c = r /\ a \div c = q
<1> DEFINE p == a \div c
           t == a % c
<1>1. p \in Int /\ t \in 0 .. c - 1 /\ a = p * c + t
  BY Divided
<1> HIDE DEF p, t
<1>2. q * c \in Int /\ p * c \in Int
  BY <1>1
<1>3. ~(p < q)
  <2>1. p < q => p * c + c <= q * c
    BY <1>1, FactorApart
  <2>2. QED
    BY <2>1, <1>1, <1>2
<1>4. ~(q < p)
  <2>1. q < p => q * c + c <= p * c
    BY <1>1, FactorApart
  <2>2. QED
    BY <2>1, <1>1, <1>2
<1>5. p = q
  BY <1>1, <1>3, <1>4
<1>6. t = r
  BY <1>1, <1>2, <1>5
<1>7. QED
  BY <1>5, <1>6 DEF p, t

\* A remainder may be taken before or after an addition.
LEMMA AddedMod ==
  ASSUME NEW a \in Int, NEW b \in Int, NEW c \in Nat \ {0}
  PROVE  /\ ((a % c) + b) % c = (a + b) % c
         /\ (a + b) % c \in 0 .. c - 1
<1> DEFINE p == a \div c
           t == a % c
           q == (t + b) \div c
           r == (t + b) % c
<1>1. p \in Int /\ t \in 0 .. c - 1 /\ a = p * c + t
  BY Divided
<1>2. t + b \in Int
  BY <1>1
<1>3. q \in Int /\ r \in 0 .. c - 1 /\ t + b = q * c + r
  BY <1>2, Divided
<1> HIDE DEF p, t, q, r
<1>4. (p + q) * c = p * c + q * c
  BY <1>1, <1>3
<1>5. p * c \in Int /\ q * c \in Int
  BY <1>1, <1>3
<1>6. a + b = (p + q) * c + r
  BY <1>1, <1>2, <1>3, <1>4, <1>5
<1>7. (a + b) % c = r
  <2>1. a + b \in Int /\ p + q \in Int
    BY <1>1, <1>3
  <2>2. QED
    BY <2>1, <1>1, <1>3, <1>6, RemainderIs
<1>8. QED
  BY <1>3, <1>7 DEF r, t

LEMMA SmallMod ==
  ASSUME NEW c \in Nat \ {0}, NEW a \in 0 .. c - 1
  PROVE  a % c = a
<1>1. a = 0 * c + a /\ a \in Int
  OBVIOUS
<1>2. QED
  BY <1>1, RemainderIs

\* The difference of two counts that wrap.
LEMMA MinusIs ==
  ASSUME NEW m \in Int, NEW a \in Int, NEW b \in Int, NEW c \in Nat \ {0}
  PROVE  /\ Minus((m + a) % c, (m + b) % c, c) = (a - b) % c
         /\ (a - b) \in 0 .. c - 1 => Minus((m + a) % c, (m + b) % c, c) = a - b
<1> DEFINE v == (m + a) % c
           y == (m + b) % c
           p == (m + b) \div c
<1>1. p \in Int /\ y \in 0 .. c - 1 /\ m + b = p * c + y
  BY Divided
<1> HIDE DEF y, p
<1>2. (v - y) % c = (m + a - y) % c
  <2>1. (v + (0 - y)) % c = ((m + a) + (0 - y)) % c
    <3>1. m + a \in Int /\ 0 - y \in Int
      BY <1>1
    <3>2. QED
      BY <3>1, AddedMod
  <2>2. v \in Int /\ m + a \in Int
    <3>1. v \in 0 .. c - 1
      BY Divided
    <3> HIDE DEF v
    <3>2. QED
      BY <3>1
  <2> HIDE DEF v
  <2>3. v + (0 - y) = v - y /\ (m + a) + (0 - y) = m + a - y
    BY <1>1, <2>2
  <2>4. QED
    BY <2>1, <2>3
<1>3. m + a - y = p * c + (a - b)
  <2>1. p * c \in Int
    BY <1>1
  <2>2. QED
    BY <1>1, <2>1
<1>4. (m + a - y) % c = (a - b) % c
  <2>1. (((p * c) % c) + (a - b)) % c = (p * c + (a - b)) % c
    <3>1. p * c \in Int /\ a - b \in Int
      BY <1>1
    <3>2. QED
      BY <3>1, AddedMod
  <2>2. (p * c) % c = 0
    <3>1. p * c = p * c + 0 /\ p * c \in Int /\ 0 \in 0 .. c - 1
      BY <1>1
    <3>2. QED
      BY <1>1, <3>1, RemainderIs
  <2>3. 0 + (a - b) = a - b
    OBVIOUS
  <2>4. QED
    BY <1>3, <2>1, <2>2, <2>3
<1>5. Minus((m + a) % c, (m + b) % c, c) = (a - b) % c
  BY <1>2, <1>4 DEF Minus, y
<1>6. (a - b) \in 0 .. c - 1 => (a - b) % c = a - b
  BY SmallMod
<1>7. QED
  BY <1>5, <1>6

LEMMA MinusMod ==
  \A m \in Int, a \in Int, b \in Int, c \in Nat \ {0} :
    Minus((m + a) % c, (m + b) % c, c) = (a - b) % c
<1>1. ASSUME NEW m \in Int, NEW a \in Int, NEW b \in Int, NEW c \in Nat \ {0}
      PROVE  Minus((m + a) % c, (m + b) % c, c) = (a - b) % c
  BY <1>1, MinusIs, ZenonT(60)
<1>2. QED
  BY ONLY <1>1, Zenon

LEMMA MinusSelf ==
  ASSUME NEW c \in Nat \ {0}, NEW m \in 0 .. c - 1, NEW a \in 0 .. c - 1
  PROVE  Minus((m + a) % c, m, c) = a
<1>1. m \in Int /\ a \in Int /\ 0 \in Int /\ a - 0 = a /\ m + 0 = m
  OBVIOUS
<1>2. m % c = m
  BY SmallMod
<1>3. a - 0 \in 0 .. c - 1 => Minus((m + a) % c, (m + 0) % c, c) = a - 0
  BY ONLY <1>1, c \in Nat \ {0}, MinusIs, ZenonT(60)
<1>4. QED
  BY <1>1, <1>2, <1>3

\* A number of whole ticks.
Multiple(v) == \E i \in Int : v = i * Period

LEMMA Multiples ==
  /\ \A v \in Int, y \in Int : Multiple(v) /\ Multiple(y) => Multiple(v + y) /\ Multiple(v - y)
  /\ \A v \in Int, d \in Int : Multiple(v) /\ v < d * Period => v <= (d - 1) * Period
  /\ \A i \in Int : Multiple(i * Period)
  /\ Multiple(0) /\ Multiple(Period)
<1>1. Period \in Nat \ {0}
  BY TicklessAssumption
<1>2. ASSUME NEW v \in Int, NEW y \in Int, Multiple(v), Multiple(y)
      PROVE  Multiple(v + y) /\ Multiple(v - y)
  <2>1. PICK i \in Int, j \in Int : v = i * Period /\ y = j * Period
    BY <1>2 DEF Multiple
  <2>2. v + y = (i + j) * Period /\ v - y = (i - j) * Period /\ i + j \in Int /\ i - j \in Int
    BY <1>1, <2>1
  <2>3. QED
    BY <2>2 DEF Multiple
<1>3. ASSUME NEW v \in Int, NEW d \in Int, Multiple(v), v < d * Period
      PROVE  v <= (d - 1) * Period
  <2>1. PICK i \in Int : v = i * Period
    BY <1>3 DEF Multiple
  <2>2. d <= i => d * Period <= i * Period
    <3>1. d < i => d * Period + Period <= i * Period
      BY <1>1, FactorApart
    <3>2. d * Period \in Int /\ i * Period \in Int
      BY <1>1
    <3>3. QED
      BY <1>1, <3>1, <3>2
  <2>3. i < d
    BY <1>1, <1>3, <2>1, <2>2
  <2>4. i * Period + Period <= d * Period
    BY <1>1, <2>3, FactorApart
  <2>5. (d - 1) * Period = d * Period - Period /\ d * Period \in Int /\ i * Period \in Int
    BY <1>1
  <2>6. QED
    BY <1>1, <2>1, <2>4, <2>5
<1>4. ASSUME NEW i \in Int PROVE Multiple(i * Period)
  BY DEF Multiple
<1>5. Multiple(0) /\ Multiple(Period)
  <2>1. 0 = 0 * Period /\ Period = 1 * Period
    BY <1>1
  <2>2. QED
    BY <2>1 DEF Multiple
<1>6. QED
  BY <1>2, <1>3, <1>4, <1>5

LEMMA MultipleBounds ==
  ASSUME NEW v \in Int, Multiple(v)
  PROVE  /\ v < 0 => v <= 0 - Period
         /\ v < Period => v <= 0
         /\ v < 4 * Period => v <= 3 * Period
<1>1. \A d \in Int : v < d * Period => v <= (d - 1) * Period
  BY Multiples
<1>2. /\ v < 0 * Period => v <= (0 - 1) * Period
      /\ v < 1 * Period => v <= (1 - 1) * Period
      /\ v < 4 * Period => v <= (4 - 1) * Period
  BY ONLY <1>1
<1>3. 0 * Period = 0 /\ (0 - 1) * Period = 0 - Period /\ 1 * Period = Period
      /\ (1 - 1) * Period = 0 /\ (4 - 1) * Period = 3 * Period
  BY TicklessAssumption
<1>4. QED
  BY <1>2, <1>3
-----------------------------------------------------------------------------
TickTypes ==
  /\ load \in Nat \ {0} /\ left \in 1 .. load /\ pending \in BOOLEAN
  /\ base \in 0 .. Cycles - 1 /\ mark \in 0 .. Cycles - 1 /\ ticks \in 0 .. Ticks - 1
  /\ phase \in {"tick", "sleep", "align"}
  /\ wake \in [Thread -> (0 .. Ticks - 1) \cup {Runnable, Forever}]
  /\ pc \in {"run", "idle", "wfi", "decide", "entry", "align", "dispatch", "tick"}
  /\ off \in 0 .. MaxOff
  /\ load >= MinLoad /\ load <= MaxSleep * Period

\* How long interrupts have been off; an end of a period is not served later than that.
Latency ==
  /\ pc \in On /\ ~pending => off = 0
  /\ pending => load - left < off

PhasesOfSleep ==
  /\ phase = "sleep" => pc \in {"wfi", "entry", "align"}
  /\ pc = "align" => phase = "sleep"

\* Every timeout is ahead.
TimeoutsAhead == \A w \in Timeouts : Minus(w, ticks, Ticks) \in 1 .. Ticks \div 2 - 1

Waiting ==
  pc = "wfi" =>
    /\ ReadyThreads = {}
    /\ ~pending /\ (\A w \in Timeouts : Until(w, ticks) > 3) => phase = "sleep"

\* The current period began s cycles after tick_mark.  The tick's periods begin soon
\* after a boundary, those of a sleep and of align() end on one.
Placed(s) ==
  /\ base = (mark + s) % Cycles
  /\ s + IntoPeriod >= 0
  /\ phase = "tick" =>
       load = Period /\ s <= MaxOff /\ \E b \in Int : Multiple(b) /\ s - b \in 0 .. MaxOff
  /\ phase = "align" /\ pc = "tick" => s = 0 /\ IntoPeriod < off
  /\ phase = "align" /\ pc # "tick" =>
       /\ Multiple(s + load) /\ s + load <= 3 * Period
       /\ s + load <= Period \/ load < MinLoad + Period
  /\ phase = "sleep" => Multiple(s + load) /\ s + load <= MaxSleep * Period
  /\ phase = "sleep" /\ pc = "wfi" =>
       \A w \in Timeouts : s + load <= Minus(w, ticks, Ticks) * Period
  /\ pc = "align" \/ pc = "decide" => s + IntoPeriod < Period + off
  /\ pc \in {"decide", "wfi"} /\ phase # "sleep" => s < Period

TickInv ==
  /\ TickTypes /\ Latency /\ PhasesOfSleep /\ TimeoutsAhead /\ Waiting
  /\ \E s \in Int : Placed(s)

\* The constants, as numbers.
LEMMA TickNumbers ==
  /\ Period \in Nat \ {0} /\ MinLoad \in 1 .. Period /\ MaxSleep \in Nat /\ MaxSleep >= 4
  /\ MaxOff \in 1 .. Period - 1 /\ Cycles \in Nat \ {0} /\ Ticks \in Nat \ {0}
  /\ Cycles \div 2 \in Nat /\ 2 * (Cycles \div 2) <= Cycles /\ Cycles <= 2 * (Cycles \div 2) + 1
  /\ Ticks \div 2 \in Nat /\ 2 * (Ticks \div 2) <= Ticks /\ Ticks <= 2 * (Ticks \div 2) + 1
  /\ MaxSleep < Ticks \div 2 /\ MaxSleep * Period < Cycles \div 2
  /\ MaxSleep * Period \in Nat /\ 4 * Period <= MaxSleep * Period
  /\ (MaxSleep + 1) * Period = MaxSleep * Period + Period
<1>1. /\ Period \in Nat \ {0} /\ MinLoad \in 1 .. Period /\ MaxSleep \in Nat /\ MaxSleep >= 4
      /\ MaxOff \in 1 .. Period - 1 /\ Cycles \in Nat /\ Ticks \in Nat
      /\ MaxSleep * Period < Cycles \div 2 /\ MaxSleep < Ticks \div 2
  BY TicklessAssumption
<1>2. /\ Cycles \div 2 \in Nat /\ 2 * (Cycles \div 2) <= Cycles /\ Cycles <= 2 * (Cycles \div 2) + 1
      /\ Ticks \div 2 \in Nat /\ 2 * (Ticks \div 2) <= Ticks /\ Ticks <= 2 * (Ticks \div 2) + 1
  BY <1>1
<1>3. MaxSleep * Period \in Nat /\ 4 * Period <= MaxSleep * Period
  <2>1. 4 * Period \in Nat /\ MaxSleep * Period \in Nat
    BY <1>1
  <2>2. 4 < MaxSleep => 4 * Period + Period <= MaxSleep * Period
    BY <1>1, FactorApart
  <2>3. QED
    BY <1>1, <2>1, <2>2
<1>4. (MaxSleep + 1) * Period = MaxSleep * Period + Period
  BY <1>1
<1>5. Cycles # 0 /\ Ticks # 0
  BY <1>1, <1>2, <1>3
<1>6. QED
  BY <1>1, <1>2, <1>3, <1>4, <1>5

\* The time, and what has passed since tick_mark.
LEMMA TimeIs ==
  ASSUME TickTypes, NEW s \in Int, base = (mark + s) % Cycles
  PROVE  /\ TimerNow = (mark + (s + IntoPeriod)) % Cycles /\ IntoPeriod \in Nat
         /\ TimerNow \in 0 .. Cycles - 1
         /\ IntoPeriod = IF pending THEN load + load - left ELSE load - left
         /\ s + IntoPeriod \in 0 .. Cycles - 1 => Elapsed = s + IntoPeriod
<1>1. /\ IntoPeriod \in Nat /\ Cycles \in Nat \ {0} /\ mark \in Int /\ mark \in 0 .. Cycles - 1
      /\ IntoPeriod = IF pending THEN load + load - left ELSE load - left
  BY TickNumbers DEF TickTypes, IntoPeriod
<1> DEFINE i == IntoPeriod
<1>2. i \in Int /\ mark + s \in Int /\ (mark + s) + i = mark + (s + i) /\ s + i \in Int
  BY <1>1
<1>3. (((mark + s) % Cycles) + i) % Cycles = ((mark + s) + i) % Cycles
      /\ ((mark + s) + i) % Cycles \in 0 .. Cycles - 1
  BY ONLY <1>1, <1>2, AddedMod, ZenonT(60)
<1>4. TimerNow = (base + i) % Cycles
  BY DEF TimerNow
<1>5. TimerNow = (mark + (s + i)) % Cycles /\ TimerNow \in 0 .. Cycles - 1
  BY ONLY <1>2, <1>3, <1>4, base = (mark + s) % Cycles
<1>6. s + i \in 0 .. Cycles - 1 => Elapsed = s + i
  BY <1>1, <1>5, MinusSelf DEF Elapsed
<1>7. QED
  BY <1>1, <1>5, <1>6

\* How much can have passed.
LEMMA PassedIs ==
  ASSUME TickTypes, Latency, NEW s \in Int, Placed(s)
  PROVE  /\ s + IntoPeriod \in 0 .. (MaxSleep + 1) * Period - 1
         /\ s + IntoPeriod \in 0 .. Cycles - 1
         /\ Elapsed = s + IntoPeriod
<1>1. /\ Period \in Nat \ {0} /\ MaxOff \in 1 .. Period - 1 /\ MaxSleep * Period \in Nat
      /\ 4 * Period <= MaxSleep * Period /\ (MaxSleep + 1) * Period = MaxSleep * Period + Period
      /\ Cycles \in Nat /\ Cycles \div 2 \in Nat /\ 2 * (Cycles \div 2) <= Cycles
      /\ MaxSleep * Period < Cycles \div 2
  BY TickNumbers
<1>2. /\ load \in Nat \ {0} /\ left \in 1 .. load /\ off \in 0 .. MaxOff
      /\ IntoPeriod = IF pending THEN load + load - left ELSE load - left
      /\ pending => load - left < off
  BY TimeIs DEF TickTypes, Latency, Placed
<1> DEFINE i == IntoPeriod
<1>3. i \in Nat /\ 0 <= s + i
  BY <1>2 DEF Placed
<1>4. s + i < MaxSleep * Period + Period
  <2>1. CASE phase = "tick"
    <3>1. load = Period /\ s <= MaxOff
      BY <2>1 DEF Placed
    <3>2. QED
      BY <3>1, <1>1, <1>2
  <2>2. CASE phase = "align" /\ pc = "tick"
    <3>1. s = 0 /\ i < off
      BY <2>2 DEF Placed
    <3>2. QED
      BY <3>1, <1>1, <1>2, <1>3
  <2>3. CASE phase = "align" /\ pc # "tick"
    <3>1. s + load <= 3 * Period
      BY <2>3 DEF Placed
    <3>2. QED
      BY <3>1, <1>1, <1>2
  <2>4. CASE phase = "sleep"
    <3>1. s + load <= MaxSleep * Period
      BY <2>4 DEF Placed
    <3>2. QED
      BY <3>1, <1>1, <1>2
  <2>5. QED
    BY <2>1, <2>2, <2>3, <2>4 DEF TickTypes
<1> HIDE DEF i
<1>5. s + i \in 0 .. MaxSleep * Period + Period - 1 /\ s + i \in 0 .. Cycles - 1
  BY <1>1, <1>3, <1>4
<1>6. Elapsed = s + i
  BY <1>5, TimeIs DEF Placed, i
<1>7. QED
  BY <1>1, <1>5, <1>6 DEF i

\* advance(): n whole ticks, and the timeouts that are due.
LEMMA AdvanceIs ==
  ASSUME TickTypes, TimeoutsAhead, NEW e \in 0 .. (MaxSleep + 1) * Period - 1, e \in 0 .. Cycles - 1,
         Advance((mark + e) % Cycles)
  PROVE  \E n \in 0 .. MaxSleep :
           /\ e - n * Period \in 0 .. Period - 1
           /\ \A v \in Int : (mark + v) % Cycles = (mark' + (v - n * Period)) % Cycles
           /\ mark' \in 0 .. Cycles - 1
           /\ ticks' = (ticks + n) % Ticks /\ ticks' \in 0 .. Ticks - 1
           /\ Minus(ticks', ticks, Ticks) = n
           /\ wake' \in [Thread -> (0 .. Ticks - 1) \cup {Runnable, Forever}]
           /\ TimeoutsAhead'
<1> DEFINE n == Minus((mark + e) % Cycles, mark, Cycles) \div Period
<1>1. /\ mark \in 0 .. Cycles - 1 /\ Cycles \in Nat \ {0} /\ ticks \in 0 .. Ticks - 1 /\ Ticks \in Nat \ {0}
      /\ Period \in Nat \ {0} /\ MaxSleep \in Nat /\ Ticks \div 2 \in Nat /\ 2 * (Ticks \div 2) <= Ticks
      /\ Ticks <= 2 * (Ticks \div 2) + 1 /\ MaxSleep < Ticks \div 2
  BY TickNumbers DEF TickTypes
<1>2. Minus((mark + e) % Cycles, mark, Cycles) = e
  BY <1>1, MinusSelf
<1>3. n = e \div Period
  BY <1>2
<1>4. n \in Int /\ e - n * Period \in 0 .. Period - 1
  <2>1. PICK q \in Int, r \in 0 .. Period - 1 : e \div Period = q /\ e = q * Period + r
    BY <1>1, Divided
  <2>2. q * Period \in Int
    BY <1>1
  <2>3. QED
    BY <1>3, <2>1, <2>2
<1>5. /\ mark' = (mark + n * Period) % Cycles /\ ticks' = (ticks + n) % Ticks
      /\ wake' = [t \in Thread |->
                    IF wake[t] \in Timeouts /\ Until(wake[t], ticks') <= 0 THEN Runnable ELSE wake[t]]
  BY DEF Advance
<1> HIDE DEF n
<1>6. n \in 0 .. MaxSleep
  <2>1. n * Period \in Int /\ (MaxSleep + 1) * Period \in Int /\ MaxSleep + 1 \in Int
    BY <1>1, <1>4
  <2>2. n < 0 => n * Period + Period <= 0 * Period
    BY <1>1, <1>4, FactorApart
  <2>3. MaxSleep + 1 < n => (MaxSleep + 1) * Period + Period <= n * Period
    BY <1>1, <1>4, <2>1, FactorApart
  <2>4. n # MaxSleep + 1
    BY <1>1, <1>4, <2>1
  <2>5. ~(n < 0)
    BY <1>1, <1>4, <2>1, <2>2
  <2>6. ~(MaxSleep + 1 < n)
    BY <1>1, <1>4, <2>1, <2>3
  <2>7. QED
    BY <1>1, <1>4, <2>4, <2>5, <2>6
<1> DEFINE y == n * Period
<1>7. y \in Int
  BY <1>1, <1>4
<1> HIDE DEF y
<1>8. \A v \in Int : (mark + v) % Cycles = (mark' + (v - y)) % Cycles
  <2>1. SUFFICES ASSUME NEW v \in Int PROVE (mark + v) % Cycles = (mark' + (v - y)) % Cycles
    OBVIOUS
  <2>2. mark + y \in Int /\ v - y \in Int /\ (mark + y) + (v - y) = mark + v
    BY <1>1, <1>7
  <2>3. (((mark + y) % Cycles) + (v - y)) % Cycles = ((mark + y) + (v - y)) % Cycles
    BY <1>1, <2>2, AddedMod
  <2>4. QED
    BY <1>5, <2>2, <2>3 DEF y
<1>9. mark' \in 0 .. Cycles - 1 /\ ticks' \in 0 .. Ticks - 1
  <2>1. mark \in Int /\ ticks \in Int /\ n \in Int
    BY <1>1, <1>4
  <2>2. (mark + y) % Cycles \in 0 .. Cycles - 1 /\ (ticks + n) % Ticks \in 0 .. Ticks - 1
    BY <1>1, <1>7, <2>1, AddedMod
  <2>3. QED
    BY <1>5, <2>2 DEF y
<1>10. \A w \in Int : Minus(w, ticks, Ticks) = (w - ticks) % Ticks /\ Minus(w, ticks', Ticks) = (w - ticks - n) % Ticks
  <2>1. SUFFICES ASSUME NEW w \in Int PROVE Minus(w, ticks', Ticks) = (w - ticks - n) % Ticks
    BY DEF Minus
  <2>2. ticks + n \in Int /\ w \in Int
    BY <1>1, <1>4
  <2>3. PICK q \in Int, r \in 0 .. Ticks - 1 : (ticks + n) % Ticks = r /\ ticks + n = q * Ticks + r
    BY <1>1, <2>2, Divided
  <2>4. (w - r) % Ticks = (w - ticks - n) % Ticks
    <3>0. w - r \in Int
      BY <2>3
    <3>1. PICK p \in Int, u \in 0 .. Ticks - 1 : (w - r) % Ticks = u /\ w - r = p * Ticks + u
      BY ONLY <1>1, <3>0, Divided
    <3>2. (p - q) * Ticks = p * Ticks - q * Ticks /\ p * Ticks \in Int /\ q * Ticks \in Int /\ p - q \in Int
      BY <1>1, <2>3, <3>1
    <3>3. w - ticks - n = (p - q) * Ticks + u /\ w - ticks - n \in Int
      BY <1>1, <1>4, <2>3, <3>1, <3>2
    <3>4. (w - ticks - n) % Ticks = u
      BY ONLY <1>1, <3>1, <3>2, <3>3, RemainderIs, ZenonT(60)
    <3>5. QED
      BY <3>1, <3>4
  <2>5. QED
    BY <1>5, <2>3, <2>4 DEF Minus
<1>11. Minus(ticks', ticks, Ticks) = n
  <2>1. n \in 0 .. Ticks - 1
    BY <1>1, <1>6
  <2>2. QED
    BY <1>1, <1>5, <2>1, MinusSelf
<1>12. wake' \in [Thread -> (0 .. Ticks - 1) \cup {Runnable, Forever}]
  BY <1>5 DEF TickTypes
<1>13. TimeoutsAhead'
  <2>1. SUFFICES ASSUME NEW t \in Thread, wake'[t] \notin {Runnable, Forever}
                 PROVE  Minus(wake'[t], ticks', Ticks) \in 1 .. Ticks \div 2 - 1
    BY DEF TimeoutsAhead, Timeouts
  <2>2. wake'[t] = wake[t] /\ wake[t] \in Timeouts /\ ~(Until(wake[t], ticks') <= 0)
    BY <1>5, <2>1 DEF Timeouts
  <2> DEFINE w == wake[t]
             d == Minus(w, ticks, Ticks)
  <2>3. w \in Int
    BY <2>1, <2>2 DEF TickTypes
  <2>4. d \in 1 .. Ticks \div 2 - 1
    BY <2>2 DEF TimeoutsAhead
  <2>5. PICK q \in Int, r \in 0 .. Ticks - 1 : (w - ticks) % Ticks = r /\ w - ticks = q * Ticks + r
    <3> HIDE DEF w
    <3>1. w - ticks \in Int
      BY <1>1, <2>3
    <3>2. QED
      BY ONLY <1>1, <3>1, Divided
  <2>6. d = r /\ w - ticks - n = q * Ticks + (d - n) /\ q * Ticks \in Int
    <3>1. d = r
      BY <1>10, <2>3, <2>5
    <3> HIDE DEF d, w
    <3>2. q * Ticks \in Int
      BY <1>1
    <3>3. QED
      BY <1>1, <1>4, <2>3, <2>5, <3>1, <3>2
  <2> HIDE DEF d, w
  <2>7. CASE n < d
    <3>1. d - n \in 0 .. Ticks - 1 /\ w - ticks - n \in Int
      BY <1>1, <1>6, <2>3, <2>4, <2>7
    <3>2. (w - ticks - n) % Ticks = d - n
      BY <1>1, <2>6, <3>1, RemainderIs
    <3>3. Minus(w, ticks', Ticks) = d - n
      BY <1>10, <2>3, <3>2
    <3>4. QED
      BY <1>6, <1>1, <2>2, <2>4, <2>7, <3>3 DEF w
  <2>8. CASE n = d
    <3>1. 0 \in 0 .. Ticks - 1 /\ w - ticks - n \in Int /\ w - ticks - n = q * Ticks + 0
      BY <1>1, <1>6, <2>3, <2>4, <2>6, <2>8
    <3>2. (w - ticks - n) % Ticks = 0
      BY <1>1, <3>1, RemainderIs
    <3>3. Until(w, ticks') = 0
      BY <1>1, <1>6, <1>10, <2>3, <3>2 DEF Until, Signed
    <3>4. QED
      BY <2>2, <3>3 DEF w
  <2>9. CASE d < n
    <3>1. d - n + Ticks \in 0 .. Ticks - 1 /\ w - ticks - n \in Int /\ d - n + Ticks >= Ticks \div 2
      BY <1>1, <1>6, <2>3, <2>4, <2>9
    <3>2. w - ticks - n = (q - 1) * Ticks + (d - n + Ticks) /\ q - 1 \in Int
      <4>1. (q - 1) * Ticks = q * Ticks - Ticks
        BY <1>1
      <4>2. QED
        BY <1>1, <1>6, <2>3, <2>4, <2>6, <4>1
    <3>3. (w - ticks - n) % Ticks = d - n + Ticks
      <4>1. \A m \in Int, p \in Int, u \in 0 .. Ticks - 1 : m = p * Ticks + u => m % Ticks = u
        BY <1>1, RemainderIs
      <4>2. QED
        BY ONLY <3>1, <3>2, <4>1
    <3>4. Minus(w, ticks', Ticks) = d - n + Ticks
      BY <1>10, <2>3, <3>3
    <3>5. Until(w, ticks') = d - n
      BY <1>1, <1>6, <2>4, <3>1, <3>4 DEF Until, Signed
    <3>6. QED
      BY <1>6, <2>2, <2>4, <2>9, <3>5 DEF w
  <2>10. QED
    BY <1>6, <2>4, <2>7, <2>8, <2>9
<1>14. QED
  BY <1>4, <1>5, <1>6, <1>8, <1>9, <1>11, <1>12, <1>13 DEF y

\* timer_restart() begins a period now.
LEMMA RestartIs ==
  ASSUME TickTypes, NEW s \in Int, base = (mark + s) % Cycles,
         NEW c \in Int, c >= MinLoad, Restart(c), mark' = mark
  PROVE  /\ load' = c /\ left' = c /\ ~pending' /\ pending' = FALSE /\ IntoPeriod' = 0
         /\ base' = (mark' + (s + IntoPeriod)) % Cycles /\ base' \in 0 .. Cycles - 1
         /\ TimerNow' = TimerNow
<1>1. load' = c /\ left' = c /\ pending' = FALSE /\ base' = TimerNow
  BY TickNumbers DEF Restart
<1>2. TimerNow = (mark + (s + IntoPeriod)) % Cycles /\ TimerNow \in 0 .. Cycles - 1
  BY TimeIs
<1>3. IntoPeriod' = 0
  BY <1>1 DEF IntoPeriod
<1>4. TimerNow' = TimerNow
  <2>1. TimerNow' = (base' + IntoPeriod') % Cycles
    BY DEF TimerNow
  <2>2. base' + 0 = base' /\ base' \in 0 .. Cycles - 1
    BY <1>1, <1>2
  <2>3. base' % Cycles = base'
    BY <2>2, TickNumbers, SmallMod
  <2>4. QED
    BY <1>1, <1>3, <2>1, <2>2, <2>3
<1>5. QED
  BY <1>1, <1>2, <1>3, <1>4

\* A cycle passes: the period's begin stays where it is, and the time goes on unless
\* a second period ends.
LEMMA PassInv ==
  ASSUME TickInv, Pass
  PROVE  TickInv' /\ (~(pending /\ left = 1) => TimerNow' = (TimerNow + 1) % Cycles)
<1>1. PICK s \in Int : Placed(s)
  BY DEF TickInv
<1>2. /\ load \in Nat \ {0} /\ left \in 1 .. load /\ off \in 0 .. MaxOff /\ pending \in BOOLEAN
      /\ IntoPeriod = IF pending THEN load + load - left ELSE load - left
      /\ pending => load - left < off
      /\ s + IntoPeriod >= 0
  BY <1>1, TimeIs DEF TickInv, TickTypes, Latency, Placed
<1>3. /\ Period \in Nat \ {0} /\ MaxOff \in 1 .. Period - 1 /\ MinLoad \in 1 .. Period
  BY TickNumbers
<1>4. /\ off < MaxOff /\ load' = load /\ base' = base /\ mark' = mark /\ ticks' = ticks /\ wake' = wake
      /\ phase' = phase /\ pc' = pc
      /\ IF left = 1 THEN left' = load /\ pending' = TRUE ELSE left' = left - 1 /\ pending' = pending
      /\ off' = IF pc \in On /\ ~pending' THEN 0 ELSE off + 1
  BY DEF Pass, clock
<1>5. /\ left' \in 1 .. load /\ off' \in 0 .. MaxOff /\ pending' \in BOOLEAN
      /\ pc \in On /\ ~pending' => off' = 0
      /\ pending' => load - left' < off' /\ off' = off + 1
      /\ pc \notin On => off' = off + 1
  <2>0. /\ left = 1 => left' = load /\ pending' = TRUE
        /\ left # 1 => left' = left - 1 /\ pending' = pending
    BY <1>4
  <2>1. left' \in 1 .. load /\ pending' \in BOOLEAN
    <3>1. pending' \in BOOLEAN
      BY <1>2, <2>0
    <3>2. left' = load \/ (left # 1 /\ left' = left - 1)
      BY <2>0
    <3>3. left' \in 1 .. load
      BY <1>2, <3>2
    <3>4. QED
      BY <3>1, <3>3
  <2>2. off' = off + 1 \/ (off' = 0 /\ pc \in On /\ ~pending')
    BY <1>4
  <2>3. off' \in 0 .. MaxOff
    BY <1>2, <1>3, <1>4, <2>2
  <2>4. pc \in On /\ ~pending' => off' = 0
    BY <1>4
  <2>5. pending' => off' = off + 1
    BY <1>4
  <2>6. pending' => load - left' < off'
    <3>1. CASE left = 1
      BY <1>2, <1>4, <2>5, <3>1
    <3>2. CASE left # 1
      <4>1. pending' => pending
        BY <2>0, <3>2
      <4>2. left' = left - 1
        BY <2>0, <3>2
      <4>3. QED
        BY <1>2, <2>5, <4>1, <4>2
    <3>3. QED
      BY <3>1, <3>2
  <2>7. QED
    BY <2>1, <2>2, <2>3, <2>4, <2>5, <2>6
<1>6. IntoPeriod' = IF pending' THEN load + load - left' ELSE load - left'
  BY <1>2, <1>4, <1>5 DEF IntoPeriod
<1> DEFINE i == IntoPeriod
           j == IntoPeriod'
<1>7. /\ i \in Nat /\ j \in Nat /\ j <= i + 1
      /\ ~(pending /\ left = 1) => j = i + 1
      /\ pending /\ left = 1 => j = load /\ i = load + load - 1 /\ load - 1 < off
  <2>1. i = (IF pending THEN load + load - left ELSE load - left)
        /\ j = (IF pending' THEN load + load - left' ELSE load - left')
    BY <1>2, <1>6
  <2> HIDE DEF i, j
  <2>2. CASE left = 1 /\ pending
    <3>1. left' = load /\ pending'
      BY <1>4, <2>2
    <3>2. QED
      BY <1>2, <2>1, <2>2, <3>1
  <2>3. CASE left = 1 /\ ~pending
    <3>1. left' = load /\ pending'
      BY <1>4, <2>3
    <3>2. QED
      BY <1>2, <2>1, <2>3, <3>1
  <2>4. CASE left # 1
    <3>1. left' = left - 1 /\ pending' = pending
      BY <1>4, <2>4
    <3>2. QED
      BY <1>2, <2>1, <2>4, <3>1
  <2>5. QED
    BY <2>2, <2>3, <2>4
<1> HIDE DEF i, j
<1>8. s + j >= 0
  <2>1. CASE ~(pending /\ left = 1)
    BY <1>2, <1>7, <2>1 DEF i
  <2>2. CASE pending /\ left = 1 /\ phase = "align" /\ pc = "tick"
    BY <1>1, <1>7, <2>2 DEF Placed
  <2>3. CASE pending /\ left = 1 /\ phase = "tick"
    <3>1. load = Period
      BY <1>1, <2>3 DEF Placed
    <3>2. QED
      BY <3>1, <1>2, <1>3, <1>7, <2>3
  <2>4. CASE pending /\ left = 1 /\ (phase = "sleep" \/ (phase = "align" /\ pc # "tick"))
    <3>1. Multiple(s + load) /\ s + load \in Int
      BY <1>1, <1>2, <2>4 DEF Placed
    <3>2. s + load < 0 * Period => s + load <= (0 - 1) * Period
      BY <3>1, Multiples
    <3>3. 0 * Period = 0 /\ (0 - 1) * Period = 0 - Period
      BY <1>3
    <3>4. s + load + (load - 1) >= 0 /\ load - 1 < Period
      BY <1>2, <1>3, <1>7, <2>4 DEF i
    <3>5. s + load >= 0
      BY <1>2, <1>3, <3>2, <3>3, <3>4
    <3>6. QED
      BY <1>7, <2>4, <3>5
  <2>5. QED
    BY <2>1, <2>2, <2>3, <2>4 DEF TickInv, TickTypes
<1>9. TickTypes'
  BY <1>4, <1>5 DEF TickInv, TickTypes
<1>10. Latency'
  BY <1>4, <1>5 DEF Latency
<1>11. PhasesOfSleep' /\ TimeoutsAhead'
  BY <1>4 DEF TickInv, PhasesOfSleep, TimeoutsAhead, Timeouts
<1>12. Waiting'
  <2>1. ~pending' => ~pending
    BY <1>4
  <2>2. QED
    BY <1>4, <2>1 DEF TickInv, Waiting, ReadyThreads, Timeouts
<1>13. Placed(s)'
  <2>1. (phase = "align" /\ pc = "tick")' => j < off'
    <3>1. phase = "align" /\ pc = "tick" => i < off /\ pc \notin On
      BY <1>1 DEF Placed, i, On
    <3>2. QED
      BY <1>2, <1>4, <1>5, <1>7, <3>1
  <2>2. (pc = "align" \/ pc = "decide")' => s + j < Period + off'
    <3>1. pc = "align" \/ pc = "decide" => s + i < Period + off /\ pc \notin On
      BY <1>1 DEF Placed, i, On
    <3>2. QED
      BY <1>2, <1>3, <1>4, <1>5, <1>7, <3>1
  <2>3. QED
    BY <1>1, <1>4, <1>8, <2>1, <2>2 DEF Placed, j, Timeouts
<1>14. ~(pending /\ left = 1) => TimerNow' = (TimerNow + 1) % Cycles
  <2>1. TimerNow = (base + i) % Cycles /\ TimerNow' = (base + j) % Cycles /\ base \in Int
    BY <1>4 DEF TimerNow, i, j, TickInv, TickTypes
  <2>2. base + i \in Int /\ (base + i) + 1 = base + (i + 1)
    BY <1>7, <2>1
  <2>3. (((base + i) % Cycles) + 1) % Cycles = ((base + i) + 1) % Cycles
    <3>1. Cycles \in Nat \ {0} /\ 1 \in Int
      BY TickNumbers
    <3>2. QED
      BY ONLY <2>2, <3>1, AddedMod
  <2>4. QED
    BY <1>7, <2>1, <2>2, <2>3
<1>15. QED
  BY <1>9, <1>10, <1>11, <1>12, <1>13, <1>14 DEF TickInv

\* The time is read from the timer alone.
LEMMA SameTime ==
  ASSUME UNCHANGED timer
  PROVE  IntoPeriod' = IntoPeriod /\ TimerNow' = TimerNow
BY DEF timer, IntoPeriod, TimerNow

\* A thread that asks for a timeout is woken within the word's half.
LEMMA BlocksInv ==
  ASSUME TickInv, NEW t \in Thread, NEW w \in Delays \cup {Forever}, Blocks(t, w)
  PROVE  TickInv'
<1>1. PICK s \in Int : Placed(s)
  BY DEF TickInv
<1> DEFINE v == IF w = Forever THEN w ELSE (ticks + w) % Ticks
<1>2. /\ pc = "run" /\ pc' \in {"idle", "run"} /\ wake' = [wake EXCEPT ![t] = v]
      /\ timer' = timer /\ load' = load /\ left' = left /\ pending' = pending /\ base' = base
      /\ mark' = mark /\ ticks' = ticks /\ phase' = phase /\ off' = off
  BY DEF Blocks, timer
<1>3. /\ ticks \in 0 .. Ticks - 1 /\ Ticks \in Nat \ {0} /\ Ticks \div 2 \in Nat /\ 2 * (Ticks \div 2) <= Ticks
  BY TickNumbers DEF TickInv, TickTypes
<1>4. w # Forever => v \in 0 .. Ticks - 1 /\ Minus(v, ticks, Ticks) \in 1 .. Ticks \div 2 - 1
  <2>1. SUFFICES ASSUME w # Forever
                 PROVE  v \in 0 .. Ticks - 1 /\ Minus(v, ticks, Ticks) \in 1 .. Ticks \div 2 - 1
    OBVIOUS
  <2>2. w \in 1 .. Ticks \div 2 - 1
    BY <2>1, TicklessAssumption
  <2>3. w \in 0 .. Ticks - 1 /\ w \in Int /\ ticks \in Int
    BY <1>3, <2>2
  <2>4. Minus((ticks + w) % Ticks, ticks, Ticks) = w
    BY <1>3, <2>3, MinusSelf
  <2>5. (ticks + w) % Ticks \in 0 .. Ticks - 1
    BY <1>3, <2>3, AddedMod
  <2>6. QED
    BY <2>1, <2>2, <2>4, <2>5
<1>5. v \in (0 .. Ticks - 1) \cup {Runnable, Forever}
  BY <1>4
<1> HIDE DEF v
<1>6. TickTypes'
  BY <1>2, <1>5 DEF TickInv, TickTypes
<1>7. Latency' /\ PhasesOfSleep' /\ Waiting'
  BY <1>2 DEF TickInv, Latency, PhasesOfSleep, Waiting, On
<1>8. TimeoutsAhead'
  <2>1. SUFFICES ASSUME NEW z \in Timeouts'
                 PROVE  Minus(z, ticks', Ticks) \in 1 .. Ticks \div 2 - 1
    BY DEF TimeoutsAhead
  <2>2. PICK u \in Thread : z = wake'[u] /\ z \notin {Runnable, Forever}
    BY <2>1 DEF Timeouts
  <2>3. CASE u = t
    <3>1. z = v /\ w # Forever
      BY <1>2, <2>2, <2>3 DEF TickInv, TickTypes, v
    <3>2. QED
      BY <1>2, <1>4, <3>1
  <2>4. CASE u # t
    <3>1. z \in Timeouts
      BY <1>2, <2>2, <2>4 DEF TickInv, TickTypes, Timeouts
    <3>2. QED
      BY <1>2, <3>1 DEF TickInv, TimeoutsAhead
  <2>5. QED
    BY <2>3, <2>4
<1>9. Placed(s)'
  <2>1. IntoPeriod' = IntoPeriod
    BY <1>2, SameTime
  <2>2. QED
    BY <1>1, <1>2, <2>1 DEF Placed
<1>10. QED
  BY <1>6, <1>7, <1>8, <1>9 DEF TickInv

\* A device's interrupt wakes a thread.
LEMMA DeviceIsrInv ==
  ASSUME TickInv, NEW t \in Thread, DeviceIsr(t)
  PROVE  TickInv'
<1>1. PICK s \in Int : Placed(s)
  BY DEF TickInv
<1>2. /\ pc = "dispatch" /\ pc' = pc /\ wake' = [wake EXCEPT ![t] = Runnable]
      /\ timer' = timer /\ load' = load /\ left' = left /\ pending' = pending /\ base' = base
      /\ mark' = mark /\ ticks' = ticks /\ phase' = phase /\ off' = off
  BY DEF DeviceIsr, timer
<1>3. TickTypes'
  BY <1>2 DEF TickInv, TickTypes
<1>4. Latency' /\ PhasesOfSleep' /\ Waiting'
  BY <1>2 DEF TickInv, Latency, PhasesOfSleep, Waiting, On
<1>5. Timeouts' \subseteq Timeouts
  BY <1>2 DEF TickInv, TickTypes, Timeouts
<1>6. TimeoutsAhead'
  BY <1>2, <1>5 DEF TickInv, TimeoutsAhead
<1>7. Placed(s)'
  <2>1. IntoPeriod' = IntoPeriod
    BY <1>2, SameTime
  <2>2. QED
    BY <1>1, <1>2, <2>1 DEF Placed
<1>8. QED
  BY <1>3, <1>4, <1>6, <1>7 DEF TickInv

\* Steps that only move the CPU: an interrupt is taken, or ends.
LEMMA MovesInv ==
  ASSUME TickInv, Irq \/ IrqExit
  PROVE  TickInv'
<1>1. PICK s \in Int : Placed(s)
  BY DEF TickInv
<1>2. /\ timer' = timer /\ load' = load /\ left' = left /\ pending' = pending /\ base' = base
      /\ mark' = mark /\ ticks' = ticks /\ phase' = phase /\ wake' = wake
      /\ \/ pc \in On /\ pc' = "entry" /\ off' = off
         \/ pc = "dispatch" /\ ~pending /\ pc' \in {"run", "idle"} /\ off' = 0
  BY DEF Irq, IrqExit, timer, clock
<1>3. TickTypes'
  BY <1>2, TickNumbers DEF TickInv, TickTypes
<1>4. Latency' /\ PhasesOfSleep' /\ Waiting'
  BY <1>2 DEF TickInv, Latency, PhasesOfSleep, Waiting, On
<1>5. TimeoutsAhead'
  BY <1>2 DEF TickInv, TimeoutsAhead, Timeouts
<1>6. Placed(s)'
  <2>1. IntoPeriod' = IntoPeriod
    BY <1>2, SameTime
  <2>2. phase = "sleep" => pc' # "wfi"
    BY <1>2
  <2>3. QED
    BY <1>1, <1>2, <2>1, <2>2 DEF Placed, On
<1>7. QED
  BY <1>3, <1>4, <1>5, <1>6 DEF TickInv

\* What advance() leaves of the invariant, whatever is done beside it.
LEMMA AdvancedBy ==
  ASSUME NEW s \in Int, NEW n \in Nat, Multiple(s + load), load \in Nat
  PROVE  Multiple((s - n * Period) + load)
<1>1. n * Period \in Int /\ n \in Int
  BY TickNumbers
<1>2. Multiple(n * Period)
  BY <1>1, Multiples
<1> DEFINE y == n * Period
<1> HIDE DEF y
<1>3. y \in Int /\ Multiple(y) /\ s + load \in Int /\ (s + load) - y = (s - y) + load
  BY <1>1, <1>2 DEF y
<1>4. Multiple((s + load) - y)
  BY ONLY <1>3, Multiple(s + load), Multiples
<1>5. QED
  BY <1>3, <1>4 DEF y

\* advance() by the idle thread, or at the end of a sleep.
LEMMA CatchUpInv ==
  ASSUME TickInv, IdleAdvance \/ IrqEntry
  PROVE  TickInv' /\ Minus(ticks', ticks, Ticks) <= MaxSleep + 1
<1>1. PICK s \in Int : Placed(s)
  BY DEF TickInv
<1>2. /\ timer' = timer /\ load' = load /\ left' = left /\ pending' = pending /\ base' = base
      /\ phase' = phase /\ off' = off /\ IntoPeriod' = IntoPeriod
  BY SameTime DEF IdleAdvance, IrqEntry, timer
<1>3. /\ Ticks \in Nat \ {0} /\ MaxSleep \in Nat /\ ticks \in 0 .. Ticks - 1
      /\ Period \in Nat \ {0} /\ load \in Nat \ {0} /\ off \in Nat /\ IntoPeriod \in Nat
  BY <1>1, TickNumbers, TimeIs DEF TickInv, TickTypes, Placed
<1>4. CASE pc = "entry" /\ phase # "sleep"
  <2>1. pc' = "dispatch" /\ mark' = mark /\ ticks' = ticks /\ wake' = wake
    BY <1>4 DEF IdleAdvance, IrqEntry, clock
  <2>2. TickTypes' /\ Latency' /\ PhasesOfSleep' /\ TimeoutsAhead' /\ Waiting'
    BY <1>2, <1>4, <2>1 DEF TickInv, TickTypes, Latency, PhasesOfSleep, TimeoutsAhead, Waiting, Timeouts, On
  <2>3. Placed(s)'
    BY <1>1, <1>2, <1>4, <2>1 DEF Placed
  <2>4. Minus(ticks', ticks, Ticks) = 0
    <3>1. ticks - ticks = 0 /\ 0 \in 0 .. Ticks - 1
      BY <1>3
    <3>2. QED
      BY <1>3, <2>1, <3>1, SmallMod DEF Minus
  <2>5. QED
    BY <1>3, <2>2, <2>3, <2>4 DEF TickInv
<1>5. CASE ~(pc = "entry" /\ phase # "sleep")
  <2>1. Advance(TimerNow) /\ \/ pc = "idle" /\ pc' = "decide" /\ phase # "sleep"
                             \/ pc = "entry" /\ pc' = "align" /\ phase = "sleep"
    BY <1>5 DEF IdleAdvance, IrqEntry, TickInv, PhasesOfSleep
  <2> DEFINE e == s + IntoPeriod
  <2>2. e \in 0 .. (MaxSleep + 1) * Period - 1 /\ e \in 0 .. Cycles - 1 /\ TimerNow = (mark + e) % Cycles
    BY <1>1, TimeIs, PassedIs DEF TickInv, Placed
  <2>3. e \in Int
    BY <1>3
  <2>4. PICK n \in 0 .. MaxSleep :
           /\ e - n * Period \in 0 .. Period - 1
           /\ \A v \in Int : (mark + v) % Cycles = (mark' + (v - n * Period)) % Cycles
           /\ mark' \in 0 .. Cycles - 1
           /\ ticks' = (ticks + n) % Ticks /\ ticks' \in 0 .. Ticks - 1
           /\ Minus(ticks', ticks, Ticks) = n
           /\ wake' \in [Thread -> (0 .. Ticks - 1) \cup {Runnable, Forever}]
           /\ TimeoutsAhead'
    <3> HIDE DEF e
    <3>1. QED
      BY <2>1, <2>2, AdvanceIs DEF TickInv
  <2> DEFINE y == n * Period
             z == s - y
  <2>5. y \in Nat /\ z \in Int /\ n \in Nat
    BY <1>3, <2>4
  <2>6. /\ z + IntoPeriod >= 0 /\ z + IntoPeriod < Period
        /\ z <= s /\ z < Period
    <3>1. e - y \in 0 .. Period - 1
      BY <2>4
    <3> HIDE DEF y
    <3>2. QED
      BY <1>3, <2>5, <3>1
  <2>7. base' = (mark' + z) % Cycles
    <3>1. base = (mark + s) % Cycles
      BY <1>1 DEF Placed
    <3>2. QED
      BY <1>2, <2>4, <3>1
  <2>8. TickTypes'
    BY <1>2, <2>1, <2>4 DEF TickInv, TickTypes
  <2>9. Latency' /\ PhasesOfSleep' /\ Waiting'
    BY <1>2, <2>1 DEF TickInv, Latency, PhasesOfSleep, Waiting, On
  <2>10. Multiple(s + load) => Multiple(z + load)
    BY <1>3, <2>5, AdvancedBy
  <2>11. Placed(z)'
    <3>1. ASSUME phase = "tick"
          PROVE  load = Period /\ z <= MaxOff /\ \E b \in Int : Multiple(b) /\ z - b \in 0 .. MaxOff
      <4>1. PICK b \in Int : Multiple(b) /\ s - b \in 0 .. MaxOff
        BY <1>1, <3>1 DEF Placed
      <4>2. Multiple(y)
        BY <2>5, Multiples
      <4> HIDE DEF y
      <4>3. b - y \in Int /\ z - (b - y) = s - b /\ Multiple(b - y)
        <5>1. b - y \in Int /\ z - (b - y) = s - b
          BY <2>5
        <5>2. y \in Int
          BY <2>5
        <5>3. QED
          BY ONLY <4>1, <4>2, <5>1, <5>2, Multiples
      <4>4. s <= MaxOff /\ load = Period /\ MaxOff \in Nat
        BY <1>1, <3>1, TickNumbers DEF Placed
      <4>5. z <= MaxOff
        BY ONLY <2>5, <2>6, <4>4
      <4>6. QED
        BY <4>1, <4>3, <4>4, <4>5
    <3>2. phase = "align" =>
            /\ Multiple(z + load) /\ z + load <= 3 * Period
            /\ z + load <= Period \/ load < MinLoad + Period
      <4>1. phase = "align" =>
              /\ Multiple(s + load) /\ s + load <= 3 * Period
              /\ s + load <= Period \/ load < MinLoad + Period
        BY <1>1, <2>1 DEF Placed
      <4>2. z + load <= s + load /\ s + load \in Int /\ z + load \in Int /\ 3 * Period \in Int
        BY <1>3, <2>5, <2>6
      <4> HIDE DEF z
      <4>3. QED
        BY <1>3, <2>10, <4>1, <4>2
    <3>3. phase = "sleep" => Multiple(z + load) /\ z + load <= MaxSleep * Period
      <4>1. phase = "sleep" => Multiple(s + load) /\ s + load <= MaxSleep * Period
        BY <1>1 DEF Placed
      <4>2. z + load <= s + load /\ s + load \in Int /\ z + load \in Int /\ MaxSleep * Period \in Int
        BY <1>3, <2>5, <2>6
      <4> HIDE DEF z
      <4>3. QED
        BY <2>10, <4>1, <4>2
    <3>4. z + IntoPeriod < Period + off
      BY <1>3, <2>5, <2>6
    <3> HIDE DEF z, y
    <3>5. QED
      BY <1>2, <2>1, <2>6, <2>7, <3>1, <3>2, <3>3, <3>4 DEF Placed
  <2>12. n <= MaxSleep + 1
    BY <1>3, <2>4
  <2>13. \E v \in Int : Placed(v)'
    BY <2>5, <2>11
  <2>14. QED
    BY <2>4, <2>8, <2>9, <2>12, <2>13 DEF TickInv
<1>6. QED
  BY <1>4, <1>5

\* A period of the timer ended: it is acknowledged and counted.
LEMMA TimerIsrInv ==
  ASSUME TickInv, TimerIsr
  PROVE  TickInv' /\ Minus(ticks', ticks, Ticks) <= MaxSleep + 1 /\ TimerNow' = TimerNow
<1>1. PICK s \in Int : Placed(s)
  BY DEF TickInv
<1>2. /\ pc = "dispatch" /\ pending /\ pending' = FALSE /\ base' = (base + load) % Cycles
      /\ Advance((base' + load - left) % Cycles) /\ pc' = "tick" /\ load' = load /\ left' = left
      /\ phase' = phase /\ off' = off
  BY DEF TimerIsr
<1>3. /\ Ticks \in Nat \ {0} /\ MaxSleep \in Nat /\ ticks \in 0 .. Ticks - 1 /\ Cycles \in Nat \ {0}
      /\ Period \in Nat \ {0} /\ load \in Nat \ {0} /\ left \in 1 .. load /\ off \in 0 .. MaxOff
      /\ load - left < off /\ MaxOff \in 1 .. Period - 1 /\ mark \in 0 .. Cycles - 1 /\ base \in 0 .. Cycles - 1
  BY <1>1, <1>2, TickNumbers DEF TickInv, TickTypes, Latency
<1>4. IntoPeriod = load + load - left /\ IntoPeriod' = load - left
  BY <1>2, <1>3 DEF IntoPeriod
<1> DEFINE e == s + IntoPeriod
<1>5. base' = (mark + (s + load)) % Cycles /\ base' \in 0 .. Cycles - 1
  <2>1. mark + s \in Int /\ load \in Int /\ (mark + s) + load = mark + (s + load)
    BY <1>3
  <2>2. /\ (((mark + s) % Cycles) + load) % Cycles = ((mark + s) + load) % Cycles
        /\ ((mark + s) + load) % Cycles \in 0 .. Cycles - 1
    BY ONLY <1>3, <2>1, AddedMod
  <2>3. base = (mark + s) % Cycles
    BY <1>1 DEF Placed
  <2>4. QED
    BY ONLY <1>2, <2>1, <2>2, <2>3
<1>6. (base' + load - left) % Cycles = (mark + e) % Cycles /\ TimerNow = (mark + e) % Cycles
      /\ TimerNow' = TimerNow
  <2>1. mark + (s + load) \in Int /\ load - left \in Int /\ (mark + (s + load)) + (load - left) = mark + e
    BY <1>3, <1>4
  <2>2. (((mark + (s + load)) % Cycles) + (load - left)) % Cycles = ((mark + (s + load)) + (load - left)) % Cycles
    BY ONLY <1>3, <2>1, AddedMod, ZenonT(60)
  <2>3. base' + load - left = base' + (load - left)
    BY <1>3, <1>5
  <2>4. (base' + (load - left)) % Cycles = (mark + e) % Cycles
    BY ONLY <1>5, <2>1, <2>2
  <2>5. TimerNow' = (base' + (load - left)) % Cycles
    BY <1>4 DEF TimerNow
  <2>6. TimerNow = (mark + e) % Cycles
    BY <1>1, TimeIs DEF TickInv, Placed
  <2>7. QED
    BY <2>3, <2>4, <2>5, <2>6
<1>7. e \in 0 .. (MaxSleep + 1) * Period - 1 /\ e \in 0 .. Cycles - 1 /\ e \in Int
  BY <1>1, <1>3, <1>4, PassedIs DEF TickInv
<1>8. PICK n \in 0 .. MaxSleep :
         /\ e - n * Period \in 0 .. Period - 1
         /\ \A v \in Int : (mark + v) % Cycles = (mark' + (v - n * Period)) % Cycles
         /\ mark' \in 0 .. Cycles - 1
         /\ ticks' = (ticks + n) % Ticks /\ ticks' \in 0 .. Ticks - 1
         /\ Minus(ticks', ticks, Ticks) = n
         /\ wake' \in [Thread -> (0 .. Ticks - 1) \cup {Runnable, Forever}]
         /\ TimeoutsAhead'
  <2> HIDE DEF e
  <2>1. Advance((mark + e) % Cycles)
    BY <1>2, <1>6
  <2>2. QED
    BY <1>7, <2>1, AdvanceIs DEF TickInv
<1> DEFINE y == n * Period
<1>0. y \in Nat /\ n \in Nat /\ s + load \in Int /\ (s + load) - y \in Int
  BY <1>3, <1>8
<1>21. PICK z \in Int : z = (s + load) - y
  BY <1>0
<1>9. y \in Nat /\ z \in Int /\ n \in Nat /\ s + load \in Int /\ z = (s + load) - y
  BY <1>0, <1>21
<1>10. base' = (mark' + z) % Cycles
  BY <1>5, <1>8, <1>9
<1>11. z + (load - left) \in 0 .. Period - 1
  <2>1. e - y \in 0 .. Period - 1
    BY <1>8
  <2> HIDE DEF y
  <2>2. QED
    BY <1>3, <1>4, <1>9, <2>1
<1>12. Multiple(y) /\ y \in Int
  BY <1>9, Multiples
<1> HIDE DEF y
<1>13. TickTypes'
  BY <1>2, <1>5, <1>8 DEF TickInv, TickTypes
<1>14. Latency' /\ PhasesOfSleep' /\ Waiting' /\ phase # "sleep"
  BY <1>2 DEF TickInv, Latency, PhasesOfSleep, Waiting, On
<1>15. ASSUME phase = "tick"
       PROVE  load = Period /\ z <= MaxOff /\ \E b \in Int : Multiple(b) /\ z - b \in 0 .. MaxOff
  <2>1. PICK b \in Int : Multiple(b) /\ s - b \in 0 .. MaxOff /\ load = Period
    BY <1>1, <1>15 DEF Placed
  <2>2. b + Period \in Int /\ Multiple(b + Period) /\ Period \in Int
    BY <1>3, <2>1, Multiples
  <2> DEFINE c == (b + Period) - y
  <2>3. c \in Int /\ Multiple(c)
    BY <1>12, <2>2, Multiples
  <2>4. z - c = s - b
    BY <1>3, <1>9, <2>1
  <2>5. z < Period /\ z - c \in 0 .. MaxOff
    BY <1>3, <1>9, <1>11, <2>1, <2>4
  <2>6. c <= 0
    <3>1. 1 * Period = Period /\ (1 - 1) * Period = 0
      BY <1>3
    <3>2. c < 1 * Period => c <= (1 - 1) * Period
      BY <2>3, Multiples
    <3> HIDE DEF c
    <3>3. QED
      BY <1>3, <1>9, <2>3, <2>5, <3>1, <3>2
  <2> HIDE DEF c
  <2>7. z <= MaxOff
    BY <1>3, <1>9, <2>3, <2>5, <2>6
  <2>8. QED
    BY <2>1, <2>3, <2>5, <2>7
<1>16. ASSUME phase = "align" PROVE z = 0 /\ load - left < off
  <2>1. Multiple(s + load)
    BY <1>1, <1>2, <1>16 DEF Placed
  <2>2. Multiple(z)
    BY <1>9, <1>12, <2>1, Multiples
  <2>3. (z < Period => z <= 0) /\ (z < 0 => z <= 0 - Period)
    BY ONLY <1>9, <2>2, MultipleBounds
  <2>4. QED
    BY <1>3, <1>9, <1>11, <2>3
<1>17. Placed(z)'
  <2>1. z + IntoPeriod' >= 0 /\ phase' = phase /\ pc' = "tick" /\ load' = load /\ off' = off
    BY <1>2, <1>4, <1>9, <1>11, <1>3
  <2>2. phase = "align" => z = 0 /\ IntoPeriod' < off'
    BY <1>4, <1>16, <2>1
  <2>3. QED
    BY ONLY <1>10, <1>14, <1>15, <2>1, <2>2 DEF Placed
<1>18. n <= MaxSleep + 1
  BY <1>3, <1>8
<1>19. \E v \in Int : Placed(v)'
  BY <1>9, <1>17
<1>20. QED
  BY <1>6, <1>8, <1>13, <1>14, <1>18, <1>19 DEF TickInv

\* A sleep ended early or late: the period up to a boundary of the tick.
LEMMA IrqAlignInv ==
  ASSUME TickInv, IrqAlign
  PROVE  TickInv' /\ TimerNow' = TimerNow
<1>1. PICK s \in Int : Placed(s)
  BY DEF TickInv
<1>2. /\ pc = "align" /\ Restart(RestOfTick) /\ phase' = "align" /\ pc' = "dispatch"
      /\ mark' = mark /\ ticks' = ticks /\ wake' = wake /\ off' = off
  BY DEF IrqAlign, Align, clock
<1>3. /\ Period \in Nat \ {0} /\ MinLoad \in 1 .. Period /\ off \in 0 .. MaxOff /\ MaxOff \in 1 .. Period - 1
      /\ Cycles \in Nat \ {0} /\ Cycles \div 2 \in Nat /\ MaxSleep * Period \in Nat
      /\ 4 * Period <= MaxSleep * Period /\ MaxSleep * Period < Cycles \div 2 /\ IntoPeriod \in Nat
  BY <1>1, TickNumbers, TimeIs DEF TickInv, TickTypes, Placed
<1>4. PICK e \in Int : e = s + IntoPeriod
  BY <1>3
<1>5. Elapsed = e /\ e >= 0 /\ e < Period + off
  BY <1>1, <1>2, <1>4, PassedIs DEF TickInv, Placed
<1> DEFINE r == Period - Signed(Minus(TimerNow, mark, Cycles), Cycles)
<1>6. r = Period - e
  <2>1. Minus(TimerNow, mark, Cycles) = e
    BY <1>5 DEF Elapsed
  <2>2. e < Cycles \div 2
    BY <1>3, <1>5
  <2>3. QED
    BY <2>1, <2>2 DEF Signed
<1>7. PICK q \in Int : q = (MinLoad - r + Period - 1) \div Period
  <2>1. r \in Int
    BY <1>3, <1>6
  <2> HIDE DEF r
  <2>2. MinLoad - r + Period - 1 \in Int
    BY <1>3, <2>1
  <2>3. QED
    BY <1>3, <2>2, Divided
<1>8. RestOfTick = IF r >= MinLoad THEN r ELSE r + Period * q
  BY <1>7 DEF RestOfTick
<1> HIDE DEF r
<1>9. PICK c \in Int :
         /\ c = RestOfTick /\ c >= MinLoad /\ c < MinLoad + Period
         /\ Multiple(e + c) /\ (e + c <= Period \/ c < MinLoad + Period)
  <2>1. CASE r >= MinLoad
    <3>1. RestOfTick = r /\ r \in Int /\ e + r = Period /\ r < MinLoad + Period
      BY <1>3, <1>5, <1>6, <1>8, <2>1
    <3>2. QED
      BY <2>1, <3>1, Multiples
  <2>2. CASE ~(r >= MinLoad)
    <3>1. RestOfTick = r + Period * q /\ r \in Int /\ Period * q = q * Period
      BY <1>3, <1>6, <1>8, <2>2
    <3>2. PICK u \in 0 .. Period - 1 : MinLoad - r + Period - 1 = q * Period + u
      <4>1. PICK m \in Int : m = MinLoad - r + Period - 1
        BY <1>3, <3>1
      <4>2. m \div Period = q
        BY <1>7, <4>1
      <4>3. PICK d \in Int, u \in 0 .. Period - 1 : m \div Period = d /\ m = d * Period + u
        <5>1. Period \in Nat \ {0}
          BY <1>3
        <5>2. QED
          BY ONLY <4>1, <5>1, Divided
      <4>4. QED
        BY ONLY <4>1, <4>2, <4>3
    <3>3. PICK y \in Int : y = q * Period /\ Multiple(y)
      BY <1>3, Multiples
    <3>4. MinLoad <= r + y /\ r + y < MinLoad + Period /\ r + y \in Int /\ e + (r + y) = Period + y
      BY <1>3, <1>4, <1>6, <3>1, <3>2, <3>3
    <3>5. Multiple(Period + y)
      BY <1>3, <3>3, Multiples
    <3>6. QED
      BY <3>1, <3>3, <3>4, <3>5
  <2>3. QED
    BY <2>1, <2>2
<1>10. /\ load' = c /\ left' = c /\ ~pending' /\ pending' = FALSE /\ IntoPeriod' = 0
       /\ base' = (mark' + e) % Cycles /\ base' \in 0 .. Cycles - 1 /\ TimerNow' = TimerNow
  BY <1>1, <1>2, <1>4, <1>9, RestartIs DEF TickInv, Placed
<1>11. e + c <= 3 * Period
  <2>1. e + c < 4 * Period
    BY <1>3, <1>5, <1>9
  <2>2. QED
    BY <1>9, <2>1, MultipleBounds
<1>12. TickTypes'
  <2>1. c \in Nat \ {0} /\ c <= MaxSleep * Period
    BY <1>3, <1>9
  <2>2. c \in 1 .. c
    BY <2>1
  <2>3. QED
    BY <1>2, <1>9, <1>10, <2>1, <2>2 DEF TickInv, TickTypes
<1>13. Latency' /\ PhasesOfSleep' /\ Waiting'
  BY <1>2, <1>10 DEF Latency, PhasesOfSleep, Waiting, On
<1>14. TimeoutsAhead'
  BY <1>2 DEF TickInv, TimeoutsAhead, Timeouts
<1>15. Placed(e)'
  <2>1. e + IntoPeriod' >= 0
    BY <1>5, <1>10
  <2>2. QED
    BY <1>2, <1>9, <1>10, <1>11, <2>1 DEF Placed
<1>16. QED
  BY <1>4, <1>10, <1>12, <1>13, <1>14, <1>15 DEF TickInv

\* The rest of kernel_tick(): after the aligning period the tick runs again.
LEMMA TickEndInv ==
  ASSUME TickInv, TickEnd
  PROVE  TickInv' /\ TimerNow' = TimerNow
<1>1. PICK s \in Int : Placed(s)
  BY DEF TickInv
<1>2. /\ pc = "tick" /\ pc' = "dispatch" /\ phase \in {"tick", "align"}
      /\ mark' = mark /\ ticks' = ticks /\ wake' = wake /\ off' = off
  BY DEF TickEnd, TickInv, TickTypes, PhasesOfSleep, clock
<1>3. /\ Period \in Nat \ {0} /\ MinLoad \in 1 .. Period /\ off \in 0 .. MaxOff /\ MaxOff \in 1 .. Period - 1
      /\ Period <= MaxSleep * Period /\ IntoPeriod \in Nat
  BY <1>1, TickNumbers, TimeIs DEF TickInv, TickTypes, Placed
<1>4. TimeoutsAhead'
  BY <1>2 DEF TickInv, TimeoutsAhead, Timeouts
<1>5. CASE phase = "tick"
  <2>1. /\ timer' = timer /\ load' = load /\ left' = left /\ pending' = pending /\ base' = base
        /\ phase' = phase
    BY <1>5 DEF TickEnd, timer
  <2>2. TickTypes'
    BY <1>2, <2>1 DEF TickInv, TickTypes
  <2>3. Latency' /\ PhasesOfSleep' /\ Waiting'
    BY <1>2, <2>1 DEF TickInv, Latency, PhasesOfSleep, Waiting, On
  <2>4. Placed(s)'
    <3>1. IntoPeriod' = IntoPeriod
      BY <2>1, SameTime
    <3>2. QED
      BY <1>1, <1>2, <1>5, <2>1, <3>1 DEF Placed
  <2>5. QED
    BY <1>4, <2>1, <2>2, <2>3, <2>4, SameTime DEF TickInv
<1>6. CASE phase = "align"
  <2>1. Restart(Period) /\ phase' = "tick"
    BY <1>6 DEF TickEnd
  <2>2. s = 0 /\ IntoPeriod < off
    BY <1>1, <1>2, <1>6 DEF Placed
  <2>3. PICK e \in Int : e = s + IntoPeriod
    BY <1>3
  <2>4. /\ load' = Period /\ left' = Period /\ ~pending' /\ pending' = FALSE /\ IntoPeriod' = 0
        /\ base' = (mark' + e) % Cycles /\ base' \in 0 .. Cycles - 1 /\ TimerNow' = TimerNow
    <3>1. Period \in Int /\ Period >= MinLoad
      BY <1>3
    <3>2. QED
      BY <1>1, <1>2, <2>1, <2>3, <3>1, RestartIs DEF TickInv, Placed
  <2>5. TickTypes'
    <3>1. Period >= MinLoad /\ Period \in 1 .. Period
      BY <1>3
    <3>2. QED
      BY <1>2, <1>3, <2>1, <2>4, <3>1 DEF TickInv, TickTypes
  <2>6. Latency' /\ PhasesOfSleep' /\ Waiting'
    BY <1>2, <2>1, <2>4 DEF Latency, PhasesOfSleep, Waiting, On
  <2>7. Placed(e)'
    <3>1. e \in 0 .. MaxOff /\ e - 0 \in 0 .. MaxOff /\ e <= MaxOff /\ Multiple(0) /\ e + IntoPeriod' >= 0
      BY <1>3, <2>2, <2>3, <2>4, Multiples
    <3>2. QED
      BY <1>2, <2>1, <2>4, <3>1 DEF Placed
  <2>8. QED
    BY <1>4, <2>3, <2>4, <2>5, <2>6, <2>7 DEF TickInv
<1>7. QED
  BY <1>2, <1>5, <1>6

\* The nearest timeout is one of them: the least of a set of numbers exists.
LEMMA LeastOf ==
  ASSUME NEW S \in SUBSET Nat, S # {}
  PROVE  \E m \in S : \A k \in S : m <= k
<1>1. PICK m \in S : \A k \in S : ~(<<k, m>> \in OpToRel(<, Nat))
  BY NatLessThanWellFounded, WFMin
<1>2. ASSUME NEW k \in S PROVE m <= k
  <2>1. m \in Nat /\ k \in Nat
    BY <1>1
  <2>2. k < m => <<k, m>> \in OpToRel(<, Nat)
    <3> SUFFICES ASSUME k < m PROVE <<k, m>> \in {r \in Nat \X Nat : r[1] < r[2]}
      BY DEF OpToRel
    <3> QED BY <2>1
  <2>3. ~(k < m)
    BY <1>1, <2>2
  <2>4. QED
    BY ONLY <2>1, <2>3
<1>3. QED
  BY <1>2

\* A timeout ahead is as far off as its difference says.
LEMMA UntilIs ==
  ASSUME TickTypes, TimeoutsAhead, NEW w \in Timeouts
  PROVE  Until(w, ticks) = Minus(w, ticks, Ticks) /\ Until(w, ticks) \in Nat \ {0}
<1>1. Minus(w, ticks, Ticks) \in 1 .. Ticks \div 2 - 1 /\ Ticks \div 2 \in Nat
  BY TickNumbers DEF TimeoutsAhead
<1>2. QED
  BY <1>1 DEF Until, Signed

\* How long the idle CPU may sleep.
LEMMA DeltaIs ==
  ASSUME TickTypes, TimeoutsAhead
  PROVE  /\ Delta \in 1 .. MaxSleep
         /\ \A w \in Timeouts : Delta <= Until(w, ticks)
         /\ (\A w \in Timeouts : Until(w, ticks) > 3) => Delta > 3
<1>1. MaxSleep \in Nat /\ MaxSleep >= 4
  BY TickNumbers
<1>2. Nearest \in SUBSET (Nat \ {0}) /\ \A w \in Timeouts : Until(w, ticks) \in Nearest
  BY UntilIs DEF Nearest
<1>3. CASE Nearest = {}
  BY <1>1, <1>2, <1>3 DEF Delta
<1>4. CASE Nearest # {}
  <2> DEFINE d == CHOOSE v \in Nearest : \A y \in Nearest : v <= y
  <2>1. d \in Nearest /\ \A y \in Nearest : d <= y
    <3>1. Nearest \in SUBSET Nat
      BY <1>2
    <3>2. \E v \in Nearest : \A y \in Nearest : v <= y
      BY ONLY <1>4, <3>1, LeastOf
    <3>3. QED
      BY <3>2
  <2>2. Delta = IF d < 1 THEN 1 ELSE IF d < MaxSleep THEN d ELSE MaxSleep
    BY <1>4 DEF Delta
  <2> HIDE DEF d
  <2>3. d \in Nat \ {0}
    BY <1>2, <2>1
  <2>4. Delta \in 1 .. MaxSleep /\ Delta <= d /\ (d > 3 => Delta > 3) /\ Delta \in Nat
    BY <1>1, <2>2, <2>3
  <2>5. \A w \in Timeouts : Delta <= Until(w, ticks)
    <3>1. SUFFICES ASSUME NEW w \in Timeouts PROVE Delta <= Until(w, ticks)
      OBVIOUS
    <3>2. d <= Until(w, ticks) /\ Until(w, ticks) \in Nat
      BY <1>2, <2>1
    <3>3. QED
      BY <2>3, <2>4, <3>2
  <2>6. (\A w \in Timeouts : Until(w, ticks) > 3) => d > 3
    BY <2>1 DEF Nearest
  <2>7. QED
    BY <2>4, <2>5, <2>6
<1>5. QED
  BY <1>3, <1>4

\* The idle thread decides: it runs a thread, or the CPU waits, in a long period if it may.
LEMMA IdleDecideInv ==
  ASSUME TickInv, IdleDecide
  PROVE  TickInv' /\ TimerNow' = TimerNow
<1>1. PICK s \in Int : Placed(s)
  BY DEF TickInv
<1>2. /\ pc = "decide" /\ mark' = mark /\ ticks' = ticks /\ wake' = wake
      /\ phase \in {"tick", "align"}
      /\ off' = IF pending' THEN off ELSE 0
  BY DEF IdleDecide, clock, TickInv, TickTypes, PhasesOfSleep
<1>3. /\ Period \in Nat \ {0} /\ MinLoad \in 1 .. Period /\ off \in 0 .. MaxOff /\ MaxOff \in 1 .. Period - 1
      /\ Cycles \in Nat \ {0} /\ Cycles \div 2 \in Nat /\ MaxSleep * Period \in Nat
      /\ 2 * (Cycles \div 2) <= Cycles /\ Cycles <= 2 * (Cycles \div 2) + 1 /\ MaxSleep \in Nat
      /\ 4 * Period <= MaxSleep * Period /\ MaxSleep * Period < Cycles \div 2 /\ IntoPeriod \in Nat
      /\ mark \in 0 .. Cycles - 1
  BY <1>1, TickNumbers, TimeIs DEF TickInv, TickTypes, Placed
<1>4. PICK e \in Int : e = s + IntoPeriod
  BY <1>3
<1>5. e >= 0 /\ e < Period + off /\ TimerNow = (mark + e) % Cycles /\ s < Period
  BY <1>1, <1>2, <1>4, TimeIs DEF TickInv, Placed
<1>6. TimeoutsAhead'
  BY <1>2 DEF TickInv, TimeoutsAhead, Timeouts
<1>7. /\ Delta \in 1 .. MaxSleep
      /\ \A w \in Timeouts : Delta <= Until(w, ticks)
      /\ (\A w \in Timeouts : Until(w, ticks) > 3) => Delta > 3
      /\ \A w \in Timeouts : Until(w, ticks) = Minus(w, ticks, Ticks) /\ Until(w, ticks) \in Nat
  BY DeltaIs, UntilIs DEF TickInv
<1>8. PICK v \in Int : v = Delta * Period /\ Multiple(v) /\ v <= MaxSleep * Period
                       /\ (Delta > 3 => v >= 4 * Period)
  <2>1. Delta \in Int /\ Delta * Period \in Int
    BY <1>3, <1>7
  <2>2. Delta < MaxSleep => Delta * Period + Period <= MaxSleep * Period
    BY <1>3, <2>1, FactorApart
  <2>3. Delta > 4 => 4 * Period + Period <= Delta * Period
    BY <1>3, <2>1, FactorApart
  <2>4. Multiple(Delta * Period)
    BY <2>1, Multiples
  <2>5. Delta * Period <= MaxSleep * Period
    BY <1>3, <1>7, <2>1, <2>2
  <2>6. Delta > 3 => Delta * Period >= 4 * Period
    BY <1>3, <2>1, <2>3
  <2>7. QED
    BY <2>1, <2>4, <2>5, <2>6
<1>9. v >= 0 => SleepFor = v - e
  <2>1. SUFFICES ASSUME v >= 0 PROVE SleepFor = v - e
    OBVIOUS
  <2>2. mark \in Int /\ v - e \in Int
    BY <1>3
  <2>3. Minus((mark + v) % Cycles, (mark + e) % Cycles, Cycles) = (v - e) % Cycles
    <3>1. Cycles \in Nat \ {0} /\ mark \in Int /\ v \in Int /\ e \in Int
      BY <1>3, <1>4, <1>8, <2>2
    <3>2. ASSUME NEW z \in Int, z = v
          PROVE  Minus((mark + z) % Cycles, (mark + e) % Cycles, Cycles) = (z - e) % Cycles
      <4>1. z \in Int
        BY <3>2
      <4>2. QED
        BY ONLY <3>1, <4>1, MinusMod, ZenonT(60)
    <3>3. QED
      BY <3>1, <3>2
  <2>4. e < Cycles \div 2 /\ v < Cycles \div 2
    BY <1>3, <1>5, <1>8
  <2>5. Signed((v - e) % Cycles, Cycles) = v - e
    <3>1. CASE v >= e
      <4>1. v - e \in 0 .. Cycles - 1 /\ v - e < Cycles \div 2
        BY <1>3, <1>5, <2>4, <3>1
      <4>2. (v - e) % Cycles = v - e
        BY <1>3, <4>1, SmallMod
      <4>3. QED
        BY <4>1, <4>2 DEF Signed
    <3>2. CASE v < e
      <4>1. v - e + Cycles \in 0 .. Cycles - 1 /\ ~(v - e + Cycles < Cycles \div 2)
        BY <1>3, <1>5, <2>1, <2>4, <3>2
      <4>2. v - e = (0 - 1) * Cycles + (v - e + Cycles) /\ 0 - 1 \in Int
        BY <1>3
      <4>3. (v - e) % Cycles = v - e + Cycles
        BY ONLY <1>3, <2>2, <4>1, <4>2, RemainderIs
      <4>4. QED
        BY <1>3, <4>1, <4>3 DEF Signed
    <3>3. QED
      BY <3>1, <3>2
  <2>6. QED
    BY <1>5, <1>8, <2>3, <2>5 DEF SleepFor
<1>10. v >= 0
  <2>1. Delta \in Nat
    BY <1>3, <1>7
  <2>2. QED
    BY <1>3, <1>8, <2>1
<1>11. CASE /\ ReadyThreads = {}
            /\ phase # "sleep" /\ Delta >= 3 /\ SleepFor >= 2 * Period
  <2>1. pc' = "wfi" /\ Restart(v - e) /\ phase' = "sleep" /\ v - e >= 2 * Period /\ v - e \in Int
    BY <1>9, <1>10, <1>11 DEF IdleDecide, Sleep
  <2> DEFINE c == v - e
  <2>2. c \in Int /\ c >= MinLoad /\ c \in Nat \ {0} /\ c <= MaxSleep * Period /\ e + c = v /\ c \in 1 .. c
    BY <1>3, <1>5, <1>8, <2>1
  <2>3. /\ load' = c /\ left' = c /\ ~pending' /\ pending' = FALSE /\ IntoPeriod' = 0
        /\ base' = (mark' + e) % Cycles /\ base' \in 0 .. Cycles - 1 /\ TimerNow' = TimerNow
    <3> HIDE DEF c
    <3>1. Restart(c)
      BY <2>1 DEF c
    <3>2. QED
      BY <1>1, <1>2, <1>4, <2>2, <3>1, RestartIs DEF TickInv, Placed
  <2> HIDE DEF c
  <2>4. TickTypes'
    <3>1. off' \in 0 .. MaxOff
      BY <1>2, <1>3, <2>3
    <3>2. QED
      BY <1>2, <2>1, <2>2, <2>3, <3>1 DEF TickInv, TickTypes
  <2>5. Latency' /\ PhasesOfSleep' /\ Waiting'
    BY <1>2, <1>11, <2>1, <2>3 DEF Latency, PhasesOfSleep, Waiting, On, ReadyThreads
  <2>6. \A w \in Timeouts : v <= Minus(w, ticks, Ticks) * Period
    <3>1. SUFFICES ASSUME NEW w \in Timeouts PROVE v <= Minus(w, ticks, Ticks) * Period
      OBVIOUS
    <3>2. PICK d \in Nat : d = Minus(w, ticks, Ticks) /\ Delta <= d
      BY <1>7
    <3>3. Delta \in Int /\ Delta * Period \in Int /\ d * Period \in Int
      BY <1>3, <1>7, <3>2
    <3>4. Delta < d => Delta * Period + Period <= d * Period
      BY <1>3, <3>3, FactorApart
    <3>5. QED
      BY <1>3, <1>8, <3>2, <3>3, <3>4
  <2>7. Placed(e)'
    <3>1. e + IntoPeriod' >= 0
      BY <1>5, <2>3
    <3>2. Timeouts' = Timeouts
      BY <1>2 DEF Timeouts
    <3>3. \A w \in Timeouts' : e + load' <= Minus(w, ticks', Ticks) * Period
      BY <1>2, <2>2, <2>3, <2>6, <3>2
    <3>4. QED
      BY <1>8, <2>1, <2>2, <2>3, <3>1, <3>3 DEF Placed
  <2>8. QED
    BY <1>4, <1>6, <2>3, <2>4, <2>5, <2>7 DEF TickInv
<1>12. CASE ~(/\ ReadyThreads = {}
              /\ phase # "sleep" /\ Delta >= 3 /\ SleepFor >= 2 * Period)
  <2>1. /\ timer' = timer /\ load' = load /\ left' = left /\ pending' = pending /\ base' = base
        /\ phase' = phase /\ pc' \in {"run", "wfi"} /\ (pc' = "wfi" => ReadyThreads = {})
    BY <1>12 DEF IdleDecide, Sleep, timer
  <2>2. IntoPeriod' = IntoPeriod /\ TimerNow' = TimerNow
    BY <2>1, SameTime
  <2>3. off' \in 0 .. MaxOff /\ (~pending' => off' = 0) /\ (pending' => off' = off)
    BY <1>2, <1>3
  <2>4. TickTypes'
    BY <1>2, <2>1, <2>3 DEF TickInv, TickTypes
  <2>5. Latency' /\ PhasesOfSleep'
    BY <1>2, <2>1, <2>3 DEF TickInv, Latency, PhasesOfSleep
  <2>6. Waiting'
    <3>1. ASSUME pc' = "wfi", \A w \in Timeouts : Until(w, ticks) > 3 PROVE FALSE
      <4>1. Delta > 3 /\ v >= 4 * Period /\ Delta \in Nat
        BY <1>3, <1>7, <1>8, <3>1
      <4>2. SleepFor >= 2 * Period
        BY <1>3, <1>5, <1>9, <1>10, <4>1
      <4>3. QED
        BY <1>2, <1>12, <2>1, <3>1, <4>1, <4>2
    <3>2. Timeouts' = Timeouts /\ ReadyThreads' = ReadyThreads
      BY <1>2 DEF Timeouts, ReadyThreads
    <3>3. QED
      BY <1>2, <2>1, <3>1, <3>2 DEF Waiting
  <2>7. Placed(s)'
    BY <1>1, <1>2, <1>5, <2>1, <2>2 DEF Placed
  <2>8. QED
    BY <1>6, <2>2, <2>4, <2>5, <2>6, <2>7 DEF TickInv
<1>13. QED
  BY <1>11, <1>12

LEMMA TickInitInv == TickInit => TickInv
<1>1. SUFFICES ASSUME TickInit PROVE TickInv
  OBVIOUS
<1>2. /\ Period \in Nat \ {0} /\ MinLoad \in 1 .. Period /\ MaxOff \in 1 .. Period - 1
      /\ Cycles \in Nat \ {0} /\ Ticks \in Nat \ {0} /\ Period <= MaxSleep * Period
  BY TickNumbers
<1>3. /\ load = Period /\ left = Period /\ pending = FALSE /\ base = 0 /\ mark = 0 /\ ticks = 0
      /\ phase = "tick" /\ wake = [t \in Thread |-> Runnable] /\ pc = "run" /\ off = 0
  BY <1>1 DEF TickInit
<1>4. TickTypes
  <2>1. Period \in 1 .. Period /\ Period >= MinLoad /\ 0 \in 0 .. Cycles - 1 /\ 0 \in 0 .. Ticks - 1
        /\ 0 \in 0 .. MaxOff
    BY <1>2
  <2>2. QED
    BY <1>2, <1>3, <2>1 DEF TickTypes
<1>5. Latency /\ PhasesOfSleep /\ Waiting
  BY <1>3 DEF Latency, PhasesOfSleep, Waiting, On
<1>6. TimeoutsAhead
  BY <1>3 DEF TimeoutsAhead, Timeouts
<1>7. IntoPeriod = 0
  BY <1>2, <1>3 DEF IntoPeriod
<1>8. Placed(0)
  <2>1. 0 % Cycles = 0
    <3>1. 0 \in 0 .. Cycles - 1
      BY <1>2
    <3>2. QED
      BY <1>2, <3>1, SmallMod
  <2>2. 0 - 0 \in 0 .. MaxOff /\ 0 <= MaxOff /\ 0 + 0 = 0 /\ 0 \in Int /\ Multiple(0)
    BY <1>2, Multiples
  <2>3. QED
    BY <1>3, <1>7, <2>1, <2>2 DEF Placed
<1>9. QED
  BY <1>4, <1>5, <1>6, <1>8 DEF TickInv

\* What TimeKept says of a step.
Counted ==
  /\ ~(Pass /\ pending /\ left = 1)
        => TimerNow' = IF Pass THEN (TimerNow + 1) % Cycles ELSE TimerNow
  /\ Minus(ticks', ticks, Ticks) <= MaxSleep + 1

LEMMA TickStep ==
  ASSUME TickInv, [TickNext]_tickvars
  PROVE  TickInv' /\ Counted
<1>1. ticks' = ticks => Minus(ticks', ticks, Ticks) <= MaxSleep + 1
  <2>1. ticks - ticks = 0 /\ 0 \in 0 .. Ticks - 1 /\ 0 <= MaxSleep + 1
    BY TickNumbers DEF TickInv, TickTypes
  <2>2. 0 % Ticks = 0
    BY <2>1, TickNumbers, SmallMod
  <2>3. QED
    BY <2>1, <2>2 DEF Minus
<1>2. CASE Pass
  BY <1>1, <1>2, PassInv DEF Counted, Pass, clock
<1>3. ASSUME ~Pass, TickInv', TimerNow' = TimerNow, Minus(ticks', ticks, Ticks) <= MaxSleep + 1
      PROVE  TickInv' /\ Counted
  BY <1>3 DEF Counted
<1>4. ASSUME ~Pass, NEW t \in Thread, DeviceIsr(t) PROVE TickInv' /\ Counted
  BY <1>1, <1>3, <1>4, DeviceIsrInv, SameTime DEF DeviceIsr
<1>5. ASSUME ~Pass, NEW t \in Thread, NEW w \in Delays \cup {Forever}, Blocks(t, w) PROVE TickInv' /\ Counted
  BY <1>1, <1>3, <1>5, BlocksInv, SameTime DEF Blocks
<1>6. ASSUME ~Pass, IdleAdvance \/ IrqEntry PROVE TickInv' /\ Counted
  <2>1. TimerNow' = TimerNow
    BY <1>6, SameTime DEF IdleAdvance, IrqEntry
  <2>2. QED
    BY <1>3, <1>6, <2>1, CatchUpInv
<1>7. ASSUME ~Pass, IdleDecide PROVE TickInv' /\ Counted
  BY <1>1, <1>3, <1>7, IdleDecideInv DEF IdleDecide, clock
<1>8. ASSUME ~Pass, Irq \/ IrqExit PROVE TickInv' /\ Counted
  BY <1>1, <1>3, <1>8, MovesInv, SameTime DEF Irq, IrqExit, clock
<1>9. ASSUME ~Pass, IrqAlign PROVE TickInv' /\ Counted
  BY <1>1, <1>3, <1>9, IrqAlignInv DEF IrqAlign, clock
<1>10. ASSUME ~Pass, TimerIsr PROVE TickInv' /\ Counted
  BY <1>3, <1>10, TimerIsrInv
<1>11. ASSUME ~Pass, TickEnd PROVE TickInv' /\ Counted
  BY <1>1, <1>3, <1>11, TickEndInv DEF TickEnd, clock
<1>12. ASSUME ~Pass, UNCHANGED tickvars PROVE TickInv' /\ Counted
  <2>1. /\ timer' = timer /\ load' = load /\ left' = left /\ pending' = pending /\ base' = base
        /\ mark' = mark /\ ticks' = ticks /\ wake' = wake /\ phase' = phase /\ pc' = pc /\ off' = off
    BY <1>12 DEF tickvars, timer, clock
  <2>2. TimerNow' = TimerNow /\ IntoPeriod' = IntoPeriod
    BY <2>1, SameTime
  <2>3. TickTypes' /\ Latency' /\ PhasesOfSleep' /\ TimeoutsAhead' /\ Waiting'
    BY <2>1 DEF TickInv, TickTypes, Latency, PhasesOfSleep, TimeoutsAhead, Waiting, Timeouts, ReadyThreads
  <2>4. \A s \in Int : Placed(s) => Placed(s)'
    BY <2>1, <2>2 DEF Placed, Timeouts
  <2>5. QED
    BY <1>1, <1>3, <1>12, <2>1, <2>2, <2>3, <2>4 DEF TickInv
<1>13. QED
  BY <1>2, <1>4, <1>5, <1>6, <1>7, <1>8, <1>9, <1>10, <1>11, <1>12 DEF TickNext, IdleThread, Handler

\* The invariant says when the CPU sleeps.
LEMMA TickInvSleeps == TickInv => SleepsRight
<1>1. SUFFICES ASSUME TickInv PROVE SleepsRight
  OBVIOUS
<1>2. PICK s \in Int : Placed(s)
  BY <1>1 DEF TickInv
<1>3. /\ Period \in Nat \ {0} /\ MinLoad \in 1 .. Period /\ MaxOff \in 1 .. Period - 1
      /\ load \in Nat \ {0} /\ left \in 1 .. load /\ MaxSleep * Period \in Nat
  BY <1>1, TickNumbers DEF TickInv, TickTypes
<1>4. TickTypeOK
  BY <1>1, <1>3 DEF TickInv, TickTypes, TickTypeOK, On
<1>5. TickFollows
  BY <1>1, <1>4 DEF TickInv, PhasesOfSleep, Waiting, TickFollows
<1>6. ASSUME pc = "wfi", ~pending, NEW w \in Timeouts
      PROVE  Elapsed + left < (Until(w, ticks) + 1) * Period + MinLoad
  <2>1. PICK d \in Nat : d = Until(w, ticks) /\ d = Minus(w, ticks, Ticks) /\ d # 0
    BY <1>1, UntilIs DEF TickInv
  <2>2. Elapsed = s + load - left
    <3>1. Elapsed = s + IntoPeriod /\ IntoPeriod = load - left
      BY <1>1, <1>2, <1>6, PassedIs, TimeIs DEF TickInv, Placed
    <3>2. QED
      BY <1>3, <3>1
  <2>3. Elapsed + left = s + load
    BY <1>3, <2>2
  <2>4. PICK y \in Int : y = d * Period /\ y >= Period
    <3>1. 1 < d => 1 * Period + Period <= d * Period
      BY <1>3, FactorApart
    <3>2. d = 1 => d * Period = Period
      BY <1>3
    <3>3. d * Period \in Int /\ 1 * Period = Period
      BY <1>3
    <3>4. QED
      BY <1>3, <2>1, <3>1, <3>2, <3>3
  <2>5. (Until(w, ticks) + 1) * Period = y + Period
    BY <1>3, <2>1, <2>4
  <2>6. CASE phase = "tick"
    <3>1. load = Period /\ s <= MaxOff
      BY <1>2, <2>6 DEF Placed
    <3>2. QED
      BY <1>3, <2>3, <2>4, <2>5, <3>1
  <2>7. CASE phase = "align"
    <3>1. (s + load <= Period \/ load < MinLoad + Period) /\ s < Period
      BY <1>2, <1>6, <2>7 DEF Placed
    <3>2. QED
      BY <1>3, <2>3, <2>4, <2>5, <3>1
  <2>8. CASE phase = "sleep"
    <3>1. s + load <= y
      BY <1>2, <1>6, <2>1, <2>4, <2>8 DEF Placed
    <3>2. QED
      BY <1>3, <2>3, <2>4, <2>5, <3>1
  <2>9. QED
    BY <1>1, <2>6, <2>7, <2>8 DEF TickInv, TickTypes
<1>7. NoOversleep
  BY <1>1, <1>6 DEF TickInv, Waiting, NoOversleep
<1>8. QED
  BY <1>5, <1>7 DEF SleepsRight

\* An idle CPU sleeps no longer than the threads allow and a busy one has its tick
\* (tickless_sleep(), align(), kernel_tick()), for any lengths of tick, sleep and counts.
THEOREM SleepsAreRight == TickSpec => []SleepsRight
<1>1. TickInv /\ [TickNext]_tickvars => TickInv'
  BY TickStep
<1>2. QED
  BY <1>1, TickInitInv, TickInvSleeps, PTL DEF TickSpec

\* Every cycle is counted once, whatever the timer's period is changed to, and a
\* catch-up counts no more ticks than a sleep can have lasted (timer_cycles(), advance()).
THEOREM TimeIsKept == TickSpec => TimeKept
<1>1. TickInv /\ [TickNext]_tickvars => TickInv'
  BY TickStep
<1>2. TickInv /\ [TickNext]_tickvars => [Counted]_tickvars
  BY TickStep
<1>3. TickInv /\ [TickNext]_tickvars =>
        [/\ ~(Pass /\ pending /\ left = 1)
               => TimerNow' = IF Pass THEN (TimerNow + 1) % Cycles ELSE TimerNow
         /\ Minus(ticks', ticks, Ticks) <= MaxSleep + 1]_tickvars
  BY <1>2 DEF Counted
<1>4. QED
  BY <1>1, <1>3, TickInitInv, PTL DEF TickSpec, TimeKept
=============================================================================
