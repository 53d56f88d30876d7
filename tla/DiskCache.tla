----------------------------- MODULE DiskCache -----------------------------
(***************************************************************************)
(* The FAT read-ahead of os/fs/diskio.c.  FatFs reads the FAT one sector at  *)
(* a time; the first read that misses fetches a window of sectors, the next  *)
(* ones are served from RAM.  The window must be what the card holds: after  *)
(* writes, after reads and writes that failed half-way, and after a USB host *)
(* has had the card (apps/usb.c, fs_resume in os/fs/fs.c).                   *)
(*                                                                         *)
(* FatFs calls in under its volume lock, so one disk_read or disk_write is   *)
(* under way at a time; the hand-over to the host does not take that lock    *)
(* and can happen while a read-ahead waits for the card.                     *)
(***************************************************************************)
EXTENDS Naturals

CONSTANTS
  Data,       \* the contents of a sector
  Sectors,    \* the number of sectors of the card
  Window      \* RA_SECTORS

ASSUME DiskAssumption == Sectors \in Nat \ {0} /\ Window \in Nat \ {0} /\ Data # {}

VARIABLES
  card,     \* what the card holds
  lo, hi,   \* ra_lo, ra_hi: the FAT, from lo to before hi
  first,    \* ra_first
  count,    \* ra_count
  buf,      \* ra_buf, by place in the window
  away,     \* a USB host has the card
  fetch     \* the sectors of the sd_read under way; its size is 0 if there is none

vars == <<card, lo, hi, first, count, buf, away, fetch>>

Sector == 0 .. Sectors - 1
Place == 0 .. Window - 1

TypeOK ==
  /\ card \in [Sector -> Data]
  /\ lo \in 0 .. Sectors /\ hi \in 0 .. Sectors
  /\ first \in Sector /\ count \in 0 .. Window
  /\ buf \in [Place -> Data]
  /\ away \in BOOLEAN
  /\ fetch \in [at : Sector, size : 0 .. Window]

NoFetch == [at |-> 0, size |-> 0]

\* fs_init has mounted the card and found the FAT.
Init ==
  /\ card \in [Sector -> Data]
  /\ lo \in 0 .. Sectors /\ hi \in lo .. Sectors
  /\ first = 0 /\ count = 0
  /\ buf \in [Place -> Data]
  /\ away = FALSE
  /\ fetch = NoFetch

InWindow(s) == first <= s /\ s < first + count
InFat(s) == lo <= s /\ s < hi

\* FatFs may call in: it has the card, and no other call is under way.
Ready == ~away /\ fetch.size = 0
-----------------------------------------------------------------------------
\* The sectors a miss on s fetches.
Ahead(s) == IF hi - s < Window THEN hi - s ELSE Window

\* disk_read of one FAT sector that is not in the window: sd_read starts.  (A
\* hit, and every other read, changes nothing here.)
ReadMiss(s) ==
  /\ Ready /\ InFat(s) /\ ~InWindow(s)
  /\ count' = 0
  /\ fetch' = [at |-> s, size |-> Ahead(s)]
  /\ UNCHANGED <<card, lo, hi, first, buf, away>>

Fetched(n) ==
  [i \in Place |-> IF i < n THEN card[fetch.at + i] ELSE buf[i]]

ReadDone ==
  /\ fetch.size > 0
  /\ buf' = Fetched(fetch.size)
  /\ first' = fetch.at /\ count' = fetch.size
  /\ fetch' = NoFetch
  /\ UNCHANGED <<card, lo, hi, away>>

\* Mutant: the window is set before the read.
ReadFailsKeepsWindow ==
  /\ fetch.size > 0
  /\ \E n \in 0 .. fetch.size : buf' = Fetched(n)
  /\ first' = fetch.at /\ count' = fetch.size
  /\ fetch' = NoFetch
  /\ UNCHANGED <<card, lo, hi, away>>

\* sd_read gave up: some of the blocks have arrived.
ReadFails ==
  /\ fetch.size > 0
  /\ \E n \in 0 .. fetch.size : buf' = Fetched(n)
  /\ fetch' = NoFetch
  /\ UNCHANGED <<card, lo, hi, first, count, away>>

\* The window after a write of d to the sectors from s to before e.
Patched(s, e, d) ==
  [i \in Place |-> IF i < count /\ s <= first + i /\ first + i < e
                   THEN d[first + i] ELSE buf[i]]

Written(s, e, d) == [t \in Sector |-> IF s <= t /\ t < e THEN d[t] ELSE card[t]]

Write(s, e, d) ==
  /\ Ready
  /\ card' = Written(s, e, d)
  /\ buf' = Patched(s, e, d)
  /\ UNCHANGED <<lo, hi, first, count, away, fetch>>

\* sd_write failed: "the card may hold either".
WriteFails(s, e, d) ==
  /\ Ready
  /\ card' \in {c \in [Sector -> Data] :
                  \A t \in Sector : c[t] = card[t] \/ c[t] = Written(s, e, d)[t]}
  /\ buf' = Patched(s, e, d)
  /\ count' = 0
  /\ UNCHANGED <<lo, hi, first, away, fetch>>
-----------------------------------------------------------------------------
\* usb_enter: disk_set_readahead(0, 0), whatever FatFs is doing.
HandOver ==
  /\ ~away
  /\ away' = TRUE
  /\ lo' = 0 /\ hi' = 0 /\ count' = 0
  /\ UNCHANGED <<card, first, buf, fetch>>

\* usb_msc.c writes to the card behind FatFs's back.
HostWrite(s, e, d) ==
  /\ away
  /\ card' = Written(s, e, d)
  /\ UNCHANGED <<lo, hi, first, count, buf, away, fetch>>

\* fs_resume has mounted the card: disk_set_readahead with the FAT the host
\* left.  A read-ahead of before the hand-over has ended: mounting the card
\* has read from it, and only one transfer at a time has the card (sd.c).
TakeBack ==
  /\ away /\ fetch.size = 0
  /\ away' = FALSE
  /\ lo' \in 0 .. Sectors /\ hi' \in lo' .. Sectors
  /\ count' = 0
  /\ UNCHANGED <<card, first, buf, fetch>>
-----------------------------------------------------------------------------
\* One transfer: the sectors from s to before e, and what to write there.
Next ==
  \/ \E s \in Sector : ReadMiss(s)
  \/ ReadDone \/ ReadFails
  \/ \E s \in Sector : \E e \in s + 1 .. Sectors : \E d \in [s .. e - 1 -> Data] :
        Write(s, e, d) \/ WriteFails(s, e, d) \/ HostWrite(s, e, d)
  \/ HandOver \/ TakeBack

Spec == Init /\ [][Next]_vars
-----------------------------------------------------------------------------
\* A sector FatFs would be served from the window is what the card holds.
ReadsCurrent ==
  ~away => \A s \in Sector : InFat(s) /\ InWindow(s) => buf[s - first] = card[s]

\* A read-ahead, and the window, never go past the end of the FAT: on a card
\* that ends there, they would fail every read before it.
InsideFat ==
  ~away => /\ count > 0 => lo <= first /\ first + count <= hi
           /\ fetch.size > 0 => lo <= fetch.at /\ fetch.at + fetch.size <= hi

\* The two together: what FatFs is served from the window (read_ahead, disk_write).
CacheCorrect == ReadsCurrent /\ InsideFat
=============================================================================
