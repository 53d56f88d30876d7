-------------------------------- MODULE Heap --------------------------------
(***************************************************************************)
(* The kernel heap, os/kernel/heap.c: first fit, a free list in address order *)
(* whose neighbours are joined again.  kmalloc and kfree change the list with *)
(* interrupts off, so each is one step.  Addresses and sizes count 8-byte     *)
(* units, the alignment; a block begins with a header of one unit.            *)
(***************************************************************************)
EXTENDS Integers, FiniteSets

CONSTANTS
  HeapSize,   \* the units between heap_init's start and end
  MinSplit,   \* MIN_SPLIT: a rest smaller than this stays with the block
  Sizes       \* what kmalloc is asked for, in units without the header

ASSUME HeapAssumption ==
  HeapSize \in Nat \ {0} /\ MinSplit \in Nat \ {0} /\ Sizes \subseteq Nat \ {0}

VARIABLES
  free,       \* the blocks of free_list; being in address order is how a set is kept
  used,       \* the blocks handed out
  freeUnits   \* free_bytes

heapvars == <<free, used, freeUnits>>

Block == [at : 0 .. HeapSize, size : 1 .. HeapSize]
EndOf(b) == b.at + b.size

HeapInit ==
  /\ free = {[at |-> 0, size |-> HeapSize]}
  /\ used = {} /\ freeUnits = HeapSize
-----------------------------------------------------------------------------
Fits(need) == {b \in free : b.size >= need}

First(bs) == CHOOSE b \in bs : \A c \in bs : b.at <= c.at

Splits(b, need) == b.size - need >= MinSplit

Rest(b, need) == [at |-> b.at + need, size |-> b.size - need]

\* What the caller gets of b.
Cut(b, need) == [at |-> b.at, size |-> IF Splits(b, need) THEN need ELSE b.size]

\* kmalloc returns NULL, and changes nothing, when no block fits.
kmalloc(n) ==
  LET need == n + 1
      b == First(Fits(need))
  IN  /\ Fits(need) # {}
      /\ free' = (free \ {b}) \cup (IF Splits(b, need) THEN {Rest(b, need)} ELSE {})
      /\ used' = used \cup {Cut(b, need)}
      /\ freeUnits' = freeUnits - Cut(b, need).size

Before(b) == {c \in free : EndOf(c) = b.at}
After(b)  == {c \in free : c.at = EndOf(b)}

\* A freed block with the neighbours that touch it.
Joined(b) ==
  LET at  == IF Before(b) = {} THEN b.at ELSE (CHOOSE c \in Before(b) : TRUE).at
      end == IF After(b) = {} THEN EndOf(b) ELSE EndOf(CHOOSE c \in After(b) : TRUE)
  IN  [at |-> at, size |-> end - at]

\* Mutant: a block is only joined with the one after it.
kfree_after(b) ==
  /\ used' = used \ {b}
  /\ free' = (free \ After(b))
             \cup {[at |-> b.at, size |-> Joined(b).size + Joined(b).at - b.at]}
  /\ freeUnits' = freeUnits + b.size

kfree(b) ==
  /\ used' = used \ {b}
  /\ free' = (free \ (Before(b) \cup After(b))) \cup {Joined(b)}
  /\ freeUnits' = freeUnits + b.size

HeapNext == (\E n \in Sizes : kmalloc(n)) \/ (\E b \in used : kfree(b))

HeapSpec == HeapInit /\ [][HeapNext]_heapvars
-----------------------------------------------------------------------------
HeapTypeOK == free \subseteq Block /\ used \subseteq Block /\ freeUnits \in Int

Apart(b, c) == EndOf(b) <= c.at \/ EndOf(c) <= b.at

\* No memory is handed out twice or lies outside the heap, whatever the order of
\* the calls, and a block on the free list is nobody's.
Disjoint ==
  /\ \A b \in free \cup used : EndOf(b) <= HeapSize
  /\ free \cap used = {}
  /\ \A b, c \in free \cup used : b # c => Apart(b, c)

\* Two free blocks never touch: a free stretch is one block, so that kmalloc
\* only fails when no stretch is long enough.
Coalesced == \A b, c \in free : EndOf(b) # c.at

\* The units that blocks take.
Units(bs) == {x \in 0 .. HeapSize - 1 : \E b \in bs : b.at <= x /\ x < EndOf(b)}

\* heap_free_bytes is what is free, and nothing leaks between the blocks.
FreeCounted ==
  /\ freeUnits = Cardinality(Units(free))
  /\ Units(free \cup used) = 0 .. HeapSize - 1

\* The heap is a partition into blocks, whatever was allocated and given back.
HeapSound == HeapTypeOK /\ Disjoint /\ Coalesced /\ FreeCounted
=============================================================================
