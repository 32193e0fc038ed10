------------------------------ MODULE AppHeap ------------------------------
(***************************************************************************)
(* The heap of an app: malloc, free and realloc of orchard/esplanade_app.c *)
(* over the kernel's chHeapAlloc and chHeapFree.                           *)
(*                                                                         *)
(* The heap is counted in units of 8 bytes, the size of a block's header   *)
(* and the alignment of all sizes.  A block at unit a with size n has its  *)
(* header in a and its n units in a + 1 .. a + n.  The kernel's free list  *)
(* is ordered by address, so that it is represented by the set of its      *)
(* blocks.  The kernel's calls hold the heap's mutex and are atomic;       *)
(* realloc makes two of them, and other threads run in between.            *)
(***************************************************************************)
EXTENDS Naturals, FiniteSets

CONSTANTS
  Unit,    \* bytes of a unit, the alignment of the heap
  Units,   \* units of the heap
  Thread,  \* threads of the app
  Sizes,   \* sizes in bytes that they ask for
  Limit,   \* a bound on the blocks of a thread
  Header,  \* content of a unit that holds a header
  Junk,    \* content of a free unit
  None     \* the thread is not in a call of realloc

Address == 0 .. Units - 1
UsedBlock == [at : Address, size : Address, by : Thread, asked : Sizes]
Move == [from : UsedBlock, to : UsedBlock]

ASSUME AppHeapAssumption ==
  /\ Unit \in Nat \ {0} /\ Units \in Nat \ {0} /\ Limit \in Nat
  /\ Sizes \subseteq Nat
  /\ {Header, Junk} \cap Thread = {} /\ Header # Junk
  /\ None \notin Move

VARIABLES
  free,   \* blocks [at, size] of the free list
  used,   \* allocated blocks [at, size, by, asked]: thread and bytes
  mem,    \* contents; a thread writes its name all over its blocks
  moving  \* the old and new block of a realloc that has to copy

vars == <<free, used, mem, moving>>

(* chHeapObjectInit *)
Init ==
  /\ free = {[at |-> 0, size |-> Units - 1]}
  /\ used = {}
  /\ mem = [u \in Address |-> IF u = 0 THEN Header ELSE Junk]
  /\ moving = [t \in Thread |-> None]

Body(b) == b.at + 1 .. b.at + b.size
After(b) == b.at + 1 + b.size  \* LIMIT
Write(m, units, x) == [u \in Address |-> IF u \in units THEN x ELSE m[u]]
Idle(t) == moving[t] = None

-----------------------------------------------------------------------------
(* MEM_ALIGN_NEXT of chHeapAlloc; realloc has its own rounding. *)
Align(bytes) == (bytes + Unit - 1) \div Unit

(* Mutant: rounded down. *)
NewSizeDown(bytes) == bytes \div Unit

NewSize(bytes) == IF bytes % Unit = 0 THEN bytes \div Unit ELSE bytes \div Unit + 1

Fitting(n) == {b \in free : b.size >= n}
FirstFit(n) == CHOOSE b \in Fitting(n) : \A c \in Fitting(n) : b.at <= c.at

(* Mutant: the fragment's header is not counted. *)
FragmentsNoHeader(b, n) ==
  IF b.size < n + 1 THEN {}
  ELSE {[at |-> b.at + 1 + n, size |-> b.size - n]}

(* What chHeapAlloc leaves of a free block in which it places n units: it  *)
(* takes the whole block if there is no room for another header.           *)
Fragments(b, n) ==
  IF b.size < n + 1 THEN {}
  ELSE {[at |-> b.at + 1 + n, size |-> b.size - n - 1]}

Taken(b, n) == IF b.size < n + 1 THEN b.size ELSE n

(* chHeapAlloc by thread t, which then writes x to the block *)
Alloc(t, bytes, x) ==
  LET n == Align(bytes)
      b == FirstFit(n)
      rest == Fragments(b, n)
      new == [at |-> b.at, size |-> Taken(b, n), by |-> t, asked |-> bytes]
  IN /\ free' = (free \ {b}) \cup rest
     /\ used' = used \cup {new}
     /\ mem' = Write(Write(mem, {b.at} \cup {f.at : f \in rest}, Header), Body(new), x)

(* malloc; without a block that fits it returns NULL. *)
Malloc(t, bytes) ==
  /\ Idle(t)
  /\ Cardinality({b \in used : b.by = t}) < Limit
  /\ Fitting(Align(bytes)) # {}
  /\ Alloc(t, bytes, t)
  /\ UNCHANGED moving

-----------------------------------------------------------------------------
(* Mutant: the block before is not merged. *)
MergedNextOnly(blocks, b) ==
  LET next == {f \in blocks : f.at = After(b)}
  IN (blocks \ next) \cup
       {[at |-> b.at, size |-> IF next = {} THEN b.size
                               ELSE b.size + 1 + (CHOOSE f \in next : TRUE).size]}

(* The free list after chHeapFree inserted b and merged it with the blocks *)
(* right after and right before it.                                        *)
Merged(blocks, b) ==
  LET next == {f \in blocks : f.at = After(b)}
      prev == {f \in blocks : After(f) = b.at}
      end  == IF next = {} THEN After(b) ELSE After(CHOOSE f \in next : TRUE)
      at   == IF prev = {} THEN b.at ELSE (CHOOSE f \in prev : TRUE).at
  IN (blocks \ (next \cup prev)) \cup {[at |-> at, size |-> end - at - 1]}

(* The contents of free blocks, headers excepted, are of no interest. *)
Scrapped(m, blocks) ==
  Write(Write(m, UNION {Body(f) : f \in blocks}, Junk), {f.at : f \in blocks}, Header)

(* free *)
Free(b) ==
  /\ Idle(b.by)
  /\ free' = Merged(free, b)
  /\ used' = used \ {b}
  /\ mem' = Scrapped(mem, free')
  /\ UNCHANGED moving

-----------------------------------------------------------------------------
(* realloc of a block that is long enough already *)
ReallocInPlace(b, bytes) ==
  /\ Idle(b.by)
  /\ b.size >= NewSize(bytes)
  /\ used' = (used \ {b}) \cup {[b EXCEPT !.asked = bytes]}
  /\ UNCHANGED <<free, mem, moving>>

(* realloc allocates another block, or returns NULL and keeps the old one. *)
ReallocAlloc(b, bytes) ==
  /\ Idle(b.by)
  /\ b.size < NewSize(bytes)
  /\ Fitting(Align(bytes)) # {}
  /\ Alloc(b.by, bytes, Junk)
  /\ moving' = [moving EXCEPT ![b.by] =
       [from |-> b, to |-> CHOOSE c \in used' : c \notin used]]

(* Mutant: the last unit is not copied. *)
CopiedShort(m, from, to, t) ==
  [u \in Address |-> IF u \notin Body(to) THEN m[u]
                     ELSE IF u - to.at < from.size THEN m[from.at + (u - to.at)]
                     ELSE IF u - to.at = from.size THEN m[u]
                     ELSE t]

(* memcpy of the old size, and chHeapFree of the old block; the thread     *)
(* writes the rest of the new one.                                         *)
Copied(m, from, to, t) ==
  [u \in Address |-> IF u \notin Body(to) THEN m[u]
                     ELSE IF u - to.at <= from.size THEN m[from.at + (u - to.at)]
                     ELSE t]

ReallocCopy(t) ==
  /\ ~Idle(t)
  /\ LET from == moving[t].from
         to == moving[t].to
     IN /\ free' = Merged(free, from)
        /\ used' = used \ {from}
        /\ mem' = Scrapped(Copied(mem, from, to, t), free')
  /\ moving' = [moving EXCEPT ![t] = None]

Next ==
  \/ \E t \in Thread : (\E bytes \in Sizes : Malloc(t, bytes)) \/ ReallocCopy(t)
  \/ \E b \in used : \/ Free(b)
                     \/ \E bytes \in Sizes : ReallocInPlace(b, bytes) \/ ReallocAlloc(b, bytes)

Spec == Init /\ [][Next]_vars

-----------------------------------------------------------------------------
Blocks == {[at |-> b.at, size |-> b.size] : b \in used} \cup free

(* Type invariant *)
TypeOK ==
  /\ free \subseteq [at : Address, size : Address]
  /\ used \subseteq UsedBlock
  /\ mem \in [Address -> Thread \cup {Header, Junk}]
  /\ moving \in [Thread -> Move \cup {None}]
  /\ \A t \in Thread : moving[t] # None => moving[t].from \in used /\ moving[t].to \in used

(* The blocks tile the heap: none overlaps another, none is lost, and each *)
(* ends where the next begins, however blocks were split and merged.       *)
Tiled ==
  /\ \A u \in Address : \E b \in Blocks : u \in b.at .. After(b) - 1
  /\ \A b \in Blocks : After(b) <= Units
  /\ \A b, c \in Blocks : b # c => After(b) <= c.at \/ After(c) <= b.at
  /\ \A b \in used, c \in used \cup free : b # c => b.at # c.at

(* No two free blocks touch.  With Tiled: when everything is freed the     *)
(* heap is one block again.                                                *)
Coalesced == \A b, c \in free : After(b) # c.at

(* A block is as long as was asked for last. *)
LongEnough == \A b \in used : b.size * Unit >= b.asked

(* What a thread wrote to its blocks is there until it frees them: the     *)
(* heap writes its headers elsewhere, and realloc has copied all of the    *)
(* old block, although other threads allocate and free in between.         *)
Intact ==
  \A b \in used :
    (\A t \in Thread : moving[t] # None => moving[t].to # b) => \A u \in Body(b) : mem[u] = b.by
=============================================================================
