--------------------------- MODULE AppHeapProofs ---------------------------
(***************************************************************************)
(* Proofs about the heap of an app, for heaps of every size, every         *)
(* alignment, and any number of threads that ask for any sizes.            *)
(***************************************************************************)
EXTENDS AppHeap, WellFoundedInduction, TLAPS

(* The list of free blocks is ordered by address: one comes first. *)
LEMMA FirstOfNaturals ==
  ASSUME NEW S \in SUBSET Nat, S # {}
  PROVE  \E x \in S : \A y \in S : x <= y
<1>1. IsWellFoundedOn(OpToRel(<, Nat), Nat)
  BY NatLessThanWellFounded
<1>2. PICK x \in S : \A y \in S : ~(<<y, x>> \in OpToRel(<, Nat))
  BY <1>1, WFMin
<1>3. \A y \in S : ~(y < x)
  BY <1>2 DEF OpToRel
<1> QED
  BY <1>3

USE AppHeapAssumption

-----------------------------------------------------------------------------
(* The units of a block, its header included *)
Region(b) == b.at .. b.at + b.size

(* Two blocks have no unit in common. *)
Apart(b, c) == After(b) <= c.at \/ After(c) <= b.at

(* A free list: blocks within the heap that neither overlap nor touch *)
FreeOK(blocks) ==
  /\ blocks \subseteq [at : Address, size : Address]
  /\ \A f \in blocks : After(f) <= Units
  /\ \A f, g \in blocks : f # g => Apart(f, g)
  /\ \A f, g \in blocks : After(f) # g.at

(* Every unit belongs to one block, free or allocated. *)
HeapInv ==
  /\ FreeOK(free)
  /\ \A b \in used : After(b) <= Units
  /\ \A b, c \in used : b # c => Apart(b, c)
  /\ \A b \in used, f \in free : Apart(b, f)
  /\ \A u \in Address : \/ \E b \in used : u \in Region(b)
                        \/ \E f \in free : u \in Region(f)

(* A thread moves from one of its blocks to another. *)
MovingInv ==
  \A t \in Thread : moving[t] # None =>
    /\ moving[t].from.by = t /\ moving[t].to.by = t
    /\ moving[t].from # moving[t].to

Inv == TypeOK /\ HeapInv /\ MovingInv /\ LongEnough /\ Intact

-----------------------------------------------------------------------------
(* MEM_ALIGN_NEXT and the rounding of realloc: no bytes are lost. *)
LEMMA Rounded ==
  ASSUME NEW bytes \in Nat
  PROVE  /\ Align(bytes) \in Nat /\ Align(bytes) * Unit >= bytes
         /\ NewSize(bytes) \in Nat /\ NewSize(bytes) * Unit >= bytes
<1>1. ASSUME NEW x \in Nat
      PROVE  /\ x \div Unit \in Nat
             /\ (x \div Unit) * Unit <= x /\ x < (x \div Unit) * Unit + Unit
  OBVIOUS
<1>2. ASSUME NEW x \in Nat, x % Unit = 0 PROVE (x \div Unit) * Unit >= x
  BY <1>2
<1>3. Align(bytes) \in Nat /\ Align(bytes) * Unit >= bytes
  <2> DEFINE x == bytes + Unit - 1
             q == x \div Unit
  <2>1. x \in Nat
    OBVIOUS
  <2>2. q \in Nat /\ x < q * Unit + Unit
    BY <1>1, <2>1
  <2>3. q * Unit \in Nat
    BY <2>2
  <2>4. Align(bytes) = q
    BY DEF Align
  <2> HIDE DEF q
  <2> QED
    BY <2>2, <2>3, <2>4
<1>4. NewSize(bytes) \in Nat /\ NewSize(bytes) * Unit >= bytes
  <2> DEFINE q == bytes \div Unit
  <2>1. q \in Nat /\ bytes < q * Unit + Unit /\ (bytes % Unit = 0 => q * Unit >= bytes)
    BY <1>1, <1>2
  <2>2. NewSize(bytes) = IF bytes % Unit = 0 THEN q ELSE q + 1
    BY DEF NewSize
  <2> HIDE DEF q
  <2>3. (q + 1) * Unit = q * Unit + Unit /\ q * Unit \in Nat
    BY <2>1
  <2> QED
    BY <2>1, <2>2, <2>3
<1> QED
  BY <1>3, <1>4

(* A longer block holds no fewer bytes. *)
LEMMA MoreUnits ==
  ASSUME NEW m \in Nat, NEW n \in Nat, m >= n
  PROVE  m * Unit >= n * Unit
OBVIOUS

(* The first block of the free list that fits *)
LEMMA FirstFits ==
  ASSUME FreeOK(free), NEW n \in Nat, Fitting(n) # {}
  PROVE  FirstFit(n) \in free /\ FirstFit(n).size >= n
<1> DEFINE S == {b.at : b \in Fitting(n)}
<1>1. S \in SUBSET Nat /\ S # {}
  BY DEF Fitting, FreeOK, Address
<1>2. PICK x \in S : \A y \in S : x <= y
  BY <1>1, FirstOfNaturals
<1>3. \E b \in Fitting(n) : \A c \in Fitting(n) : b.at <= c.at
  BY <1>2
<1>4. FirstFit(n) \in Fitting(n)
  BY <1>3 DEF FirstFit
<1> QED
  BY <1>4 DEF Fitting

-----------------------------------------------------------------------------
(* What chHeapAlloc makes of a free block b in which it places n units *)
LEMMA Split ==
  ASSUME FreeOK(free), NEW b \in free, NEW n \in Nat, b.size >= n
  PROVE  LET rest == Fragments(b, n)
             new == [at |-> b.at, size |-> Taken(b, n)]
         IN  /\ new.size \in Address /\ new.size >= n /\ After(new) <= After(b)
             /\ FreeOK((free \ {b}) \cup rest)
             /\ \A f \in (free \ {b}) \cup rest : Apart(new, f)
             /\ \A f \in rest : f.at \in Address /\ f.at >= After(new)
                                /\ f.size >= 0 /\ After(f) = After(b)
             /\ \A u \in Region(b) : u \in Region(new) \/ \E f \in rest : u \in Region(f)
<1> DEFINE rest == Fragments(b, n)
           new == [at |-> b.at, size |-> Taken(b, n)]
<1>0. b \in [at : Address, size : Address] /\ After(b) <= Units
  BY DEF FreeOK
<1>1. CASE b.size < n + 1
  <2>1. rest = {} /\ new.size = b.size /\ new.at = b.at
    BY <1>1 DEF Fragments, Taken
  <2> HIDE DEF rest, new
  <2>2. (free \ {b}) \cup rest = free \ {b}
    BY <2>1
  <2>3. FreeOK(free \ {b})
    BY DEF FreeOK
  <2>4. After(new) = After(b) /\ Region(new) = Region(b)
    BY <2>1 DEF After, Region
  <2>5. \A f \in free \ {b} : Apart(new, f)
    BY <2>1, <2>4 DEF FreeOK, Apart
  <2>6. /\ new.size \in Address /\ new.size >= n /\ After(new) <= After(b)
        /\ FreeOK((free \ {b}) \cup rest)
        /\ \A f \in (free \ {b}) \cup rest : Apart(new, f)
        /\ \A f \in rest : f.at \in Address /\ f.at >= After(new)
                           /\ f.size >= 0 /\ After(f) = After(b)
        /\ \A u \in Region(b) : u \in Region(new) \/ \E f \in rest : u \in Region(f)
    BY <1>0, <2>1, <2>2, <2>3, <2>4, <2>5 DEF After, Address
  <2> QED
    BY <2>6 DEF rest, new
<1>2. CASE ~(b.size < n + 1)
  <2> DEFINE g == [at |-> b.at + 1 + n, size |-> b.size - n - 1]
  <2>1. rest = {g} /\ new.size = n /\ new.at = b.at
    BY <1>2 DEF Fragments, Taken
  <2>2. /\ g.at = b.at + 1 + n /\ g.size = b.size - n - 1
        /\ g \in [at : Address, size : Address] /\ n \in Address
    BY <1>0, <1>2 DEF After, Address
  <2> HIDE DEF g
  <2>3. After(g) = After(b) /\ After(new) = g.at
    BY <1>0, <2>1, <2>2 DEF After, Address
  <2>4. ASSUME NEW f \in free, f # b
        PROVE  Apart(f, g) /\ Apart(new, f) /\ After(f) # g.at /\ After(g) # f.at
    <3>1. f \in [at : Address, size : Address] /\ Apart(f, b) /\ After(b) # f.at
      BY <2>4 DEF FreeOK
    <3> QED
      BY <1>0, <1>2, <2>1, <2>2, <2>3, <3>1 DEF Apart, After, Address
  <2>5. FreeOK((free \ {b}) \cup rest)
    BY <1>0, <2>1, <2>2, <2>3, <2>4 DEF FreeOK, Apart, After, Address
  <2>6. \A u \in Region(b) : u \in Region(new) \/ u \in Region(g)
    BY <1>0, <2>1, <2>2 DEF Region, Address
  <2> QED
    BY <1>0, <2>1, <2>2, <2>3, <2>4, <2>5, <2>6 DEF Apart, After, Address
<1> QED
  BY <1>1, <1>2

(* What chHeapFree makes of the free list and a block b that is not in it: *)
(* the block is merged with its neighbours, which end and begin where it   *)
(* begins and ends.                                                        *)
LEMMA MergedOK ==
  ASSUME NEW blocks, FreeOK(blocks),
         NEW b, b.at \in Address, b.size \in Address, After(b) <= Units,
         \A f \in blocks : Apart(b, f)
  PROVE  /\ FreeOK(Merged(blocks, b))
         /\ \A c : /\ c.at \in Address /\ c.size \in Address
                   /\ Apart(c, b) /\ \A f \in blocks : Apart(c, f)
                   => \A f \in Merged(blocks, b) : Apart(c, f)
         /\ \A u \in Address : u \in Region(b) \/ (\E f \in blocks : u \in Region(f))
                               => \E f \in Merged(blocks, b) : u \in Region(f)
<1> DEFINE next == {f \in blocks : f.at = After(b)}
           prev == {f \in blocks : After(f) = b.at}
           end == IF next = {} THEN After(b) ELSE After(CHOOSE f \in next : TRUE)
           at == IF prev = {} THEN b.at ELSE (CHOOSE f \in prev : TRUE).at
           m == [at |-> at, size |-> end - at - 1]
<1>0. /\ \A f \in blocks : f.at \in Address /\ f.size \in Address /\ After(f) <= Units
                           /\ Apart(b, f)
      /\ \A f, g \in blocks : f # g => Apart(f, g)
      /\ \A f, g \in blocks : After(f) # g.at
  BY DEF FreeOK
<1>1. Merged(blocks, b) = (blocks \ (next \cup prev)) \cup {m}
  BY DEF Merged
<1>2. /\ end \in Nat /\ end >= After(b) /\ end <= Units
      /\ \A f \in blocks : f.at = After(b) => After(f) = end
      /\ (\E f \in blocks : f.at = After(b) /\ After(f) = end) \/ end = After(b)
  <2>1. CASE next = {}
    BY <2>1 DEF After, Address
  <2>2. CASE next # {}
    <3> DEFINE n == CHOOSE f \in next : TRUE
    <3>1. n \in next /\ end = After(n)
      BY <2>2
    <3> HIDE DEF n
    <3>2. n \in blocks /\ n.at = After(b) /\ After(n) = end
      BY <3>1
    <3> HIDE DEF end, next
    <3>3. ASSUME NEW f \in blocks, f.at = After(b) PROVE f = n
      BY <1>0, <3>2, <3>3 DEF Apart, After, Address
    <3> QED
      BY <1>0, <3>2, <3>3 DEF After, Address
  <2> QED
    BY <2>1, <2>2
<1>3. /\ at \in Nat /\ at <= b.at
      /\ \A f \in blocks : After(f) = b.at => f.at = at
      /\ (\E f \in blocks : After(f) = b.at /\ f.at = at) \/ at = b.at
  <2>1. CASE prev = {}
    BY <2>1 DEF After, Address
  <2>2. CASE prev # {}
    <3> DEFINE p == CHOOSE f \in prev : TRUE
    <3>1. p \in prev /\ at = p.at
      BY <2>2
    <3> HIDE DEF p
    <3>2. p \in blocks /\ After(p) = b.at /\ p.at = at
      BY <3>1
    <3> HIDE DEF at, prev
    <3>3. ASSUME NEW f \in blocks, After(f) = b.at PROVE f = p
      BY <1>0, <3>2, <3>3 DEF Apart, After, Address
    <3> QED
      BY <1>0, <3>2, <3>3 DEF After, Address
  <2> QED
    BY <2>1, <2>2
<1> HIDE DEF end, at
<1>4. /\ m \in [at : Address, size : Address] /\ m.at = at /\ After(m) = end
      /\ After(m) <= Units /\ m.at + m.size = end - 1
  BY <1>2, <1>3 DEF After, Address
<1> HIDE DEF m
<1>5. ASSUME NEW c, c.at \in Address, c.size \in Address, Apart(c, b),
             \A f \in blocks : Apart(c, f)
      PROVE  Apart(c, m)
  <2>1. After(c) <= b.at => After(c) <= at
    BY <1>0, <1>3, <1>5 DEF Apart, After, Address
  <2>2. After(b) <= c.at => end <= c.at
    BY <1>0, <1>2, <1>5 DEF Apart, After, Address
  <2> QED
    BY <1>4, <1>5, <2>1, <2>2 DEF Apart
<1>6. ASSUME NEW f \in blocks \ (next \cup prev)
      PROVE  Apart(f, m) /\ After(f) # m.at /\ After(m) # f.at
  <2>0. f \in blocks /\ f.at # After(b) /\ After(f) # b.at
    OBVIOUS
  <2>1. After(f) # m.at /\ After(m) # f.at
    BY <1>0, <1>2, <1>3, <1>4, <2>0
  <2>2. After(f) <= b.at => After(f) <= at
    <3>1. CASE at = b.at
      BY <3>1
    <3>2. ASSUME NEW p \in blocks, After(p) = b.at, p.at = at PROVE After(f) <= b.at => After(f) <= at
      <4>1. f # p
        BY <2>0, <3>2
      <4> QED
        BY <1>0, <2>0, <3>2, <4>1 DEF Apart, After, Address
    <3> QED
      BY <1>3, <3>1, <3>2
  <2>3. After(b) <= f.at => end <= f.at
    <3>1. CASE end = After(b)
      BY <3>1
    <3>2. ASSUME NEW n \in blocks, n.at = After(b), After(n) = end PROVE After(b) <= f.at => end <= f.at
      <4>1. f # n
        BY <2>0, <3>2
      <4> QED
        BY <1>0, <2>0, <3>2, <4>1 DEF Apart, After, Address
    <3> QED
      BY <1>2, <3>1, <3>2
  <2> QED
    BY <1>0, <1>4, <2>0, <2>1, <2>2, <2>3 DEF Apart
<1>7. FreeOK(Merged(blocks, b))
  <2>1. After(m) # m.at
    BY <1>4 DEF After, Address
  <2> QED
    BY <1>1, <1>4, <1>6, <2>1 DEF FreeOK, Apart
<1>8. ASSUME NEW u \in Address, u \in Region(b) \/ (\E f \in blocks : u \in Region(f))
      PROVE  \E f \in Merged(blocks, b) : u \in Region(f)
  <2>1. CASE u \in Region(b)
    <3>1. u \in Region(m)
      BY <1>2, <1>3, <1>4, <2>1 DEF Region, After, Address
    <3> QED
      BY <1>1, <3>1
  <2>2. ASSUME NEW f \in blocks, u \in Region(f) PROVE \E g \in Merged(blocks, b) : u \in Region(g)
    <3>1. CASE f \in next
      <4>1. f.at = After(b) /\ After(f) = end
        BY <1>2, <3>1
      <4>2. u \in Region(m)
        BY <1>0, <1>3, <1>4, <2>2, <4>1 DEF Region, After, Address
      <4> QED
        BY <1>1, <4>2
    <3>2. CASE f \in prev
      <4>1. After(f) = b.at /\ f.at = at
        BY <1>3, <3>2
      <4>2. u \in Region(m)
        BY <1>0, <1>2, <1>4, <2>2, <4>1 DEF Region, After, Address
      <4> QED
        BY <1>1, <4>2
    <3> QED
      BY <1>1, <2>2, <3>1, <3>2
  <2> QED
    BY <1>8, <2>1, <2>2
<1> QED
  BY <1>1, <1>5, <1>7, <1>8

-----------------------------------------------------------------------------
(* chHeapAlloc: a new block of at least the size asked for, out of a free  *)
(* one; the contents of all others are left alone.                         *)
LEMMA AllocOK ==
  ASSUME Inv, NEW t \in Thread, NEW bytes \in Sizes, NEW x \in Thread \cup {Junk},
         Fitting(Align(bytes)) # {}, Alloc(t, bytes, x)
  PROVE  \E new \in UsedBlock :
           /\ new \notin used /\ used' = used \cup {new} /\ new.by = t
           /\ HeapInv'
           /\ new.size * Unit >= bytes /\ new.asked = bytes
           /\ mem' \in [Address -> Thread \cup {Header, Junk}]
           /\ \A u \in Body(new) : mem'[u] = x
           /\ \A c \in used : \A u \in Body(c) : mem'[u] = mem[u]
<1> DEFINE n == Align(bytes)
           b == FirstFit(n)
           rest == Fragments(b, n)
           new == [at |-> b.at, size |-> Taken(b, n), by |-> t, asked |-> bytes]
           place == [at |-> b.at, size |-> Taken(b, n)]
<1>0. n \in Nat /\ n * Unit >= bytes
  BY Rounded
<1>1. b \in free /\ b.size >= n
  BY <1>0, FirstFits DEF Inv, HeapInv
<1>2. b.at \in Address /\ b.size \in Address /\ After(b) <= Units
  BY <1>1 DEF Inv, HeapInv, FreeOK
<1>3. /\ free' = (free \ {b}) \cup rest /\ used' = used \cup {new}
      /\ mem' = Write(Write(mem, {b.at} \cup {f.at : f \in rest}, Header), Body(new), x)
  BY DEF Alloc
<1> HIDE DEF n, b
<1>4. /\ place.size \in Address /\ place.size >= n /\ After(place) <= After(b)
      /\ FreeOK((free \ {b}) \cup rest)
      /\ \A f \in (free \ {b}) \cup rest : Apart(place, f)
      /\ \A f \in rest : f.at \in Address /\ f.at >= After(place)
                         /\ f.size >= 0 /\ After(f) = After(b)
      /\ \A u \in Region(b) : u \in Region(place) \/ \E f \in rest : u \in Region(f)
  BY <1>0, <1>1, Split DEF Inv, HeapInv
<1> HIDE DEF rest
<1>5. /\ new \in UsedBlock /\ new.by = t /\ new.asked = bytes
      /\ new.at = b.at /\ place.at = b.at /\ new.size = place.size /\ After(new) = After(place)
      /\ Region(new) = Region(place)
  BY <1>2, <1>4 DEF UsedBlock, After, Region
<1> HIDE DEF new, place
<1>6. ASSUME NEW c \in used
      PROVE  /\ c.at \in Address /\ c.size \in Address /\ After(c) <= Units
             /\ Apart(c, b) /\ Apart(c, new) /\ Apart(new, c)
             /\ \A f \in rest : Apart(c, f) /\ f.at \notin Body(c)
             /\ b.at \notin Body(c) /\ Body(c) \subseteq Address
             /\ \A u \in Body(c) : u \notin Body(new)
  <2>1. /\ c.at \in Address /\ c.size \in Address /\ After(c) <= Units
        /\ Apart(c, b)
    BY <1>1 DEF Inv, HeapInv, TypeOK, UsedBlock
  <2>2. Apart(c, new) /\ Apart(new, c) /\ b.at \notin Body(c) /\ Body(c) \subseteq Address
    BY <1>2, <1>4, <1>5, <2>1 DEF Apart, After, Body, Address
  <2>3. \A u \in Body(c) : u \notin Body(new)
    BY <1>5, <2>1, <2>2 DEF Apart, After, Body, Address, UsedBlock
  <2>4. ASSUME NEW f \in rest PROVE Apart(c, f) /\ f.at \notin Body(c)
    <3>0. f.at \in Address /\ f.size \in Address
      BY <1>4 DEF FreeOK
    <3>1. f.at \in Nat /\ f.at >= b.at /\ f.at <= After(b) /\ After(f) = After(b)
      BY <1>2, <1>4, <1>5, <3>0 DEF After, Address
    <3>2. After(c) <= b.at \/ After(b) <= c.at
      BY <2>1 DEF Apart
    <3> QED
      BY <1>2, <2>1, <3>1, <3>2 DEF Apart, After, Body, Address
  <2> QED
    BY <2>1, <2>2, <2>3, <2>4
<1>7. new \notin used
  <2>1. ~Apart(new, new)
    BY <1>5 DEF Apart, After, UsedBlock, Address
  <2> QED
    BY <1>6, <2>1
<1>8. HeapInv'
  <2>1. \A f \in free' : Apart(new, f)
    BY <1>3, <1>4, <1>5 DEF Apart
  <2>2. \A c \in used, f \in free' : Apart(c, f)
    BY <1>3, <1>6 DEF Inv, HeapInv
  <2>3. After(new) <= Units
    BY <1>2, <1>4, <1>5 DEF After, Address, UsedBlock
  <2>4. ASSUME NEW u \in Address
        PROVE  (\E c \in used' : u \in Region(c)) \/ (\E f \in free' : u \in Region(f))
    BY <1>1, <1>3, <1>4, <1>5 DEF Inv, HeapInv
  <2> QED
    BY <1>3, <1>4, <1>6, <2>1, <2>2, <2>3, <2>4 DEF Inv, HeapInv
<1>9. new.size * Unit >= bytes
  <2>1. new.size \in Nat /\ new.size >= n
    BY <1>4, <1>5 DEF Address
  <2>2. new.size * Unit >= n * Unit
    BY <1>0, <2>1, MoreUnits
  <2> QED
    BY <1>0, <2>1, <2>2
<1>10. mem' \in [Address -> Thread \cup {Header, Junk}]
  BY <1>3 DEF Inv, TypeOK, Write
<1>11. \A u \in Body(new) : mem'[u] = x
  <2>1. Body(new) \subseteq Address
    BY <1>2, <1>4, <1>5 DEF Body, After, Address, UsedBlock
  <2> QED
    BY <1>3, <2>1 DEF Write
<1>12. \A c \in used : \A u \in Body(c) : mem'[u] = mem[u]
  BY <1>3, <1>6 DEF Write
<1> QED
  BY <1>3, <1>5, <1>7, <1>8, <1>9, <1>10, <1>11, <1>12

(* chHeapFree of a block; blocks that are still allocated keep what is in  *)
(* them.                                                                   *)
LEMMA FreeStepOK ==
  ASSUME Inv, NEW b \in used, NEW m \in [Address -> Thread \cup {Header, Junk}],
         free' = Merged(free, b), used' = used \ {b}, mem' = Scrapped(m, free')
  PROVE  /\ HeapInv'
         /\ mem' \in [Address -> Thread \cup {Header, Junk}]
         /\ \A c \in used' : \A u \in Body(c) : mem'[u] = m[u]
<1>0. /\ b.at \in Address /\ b.size \in Address /\ After(b) <= Units
      /\ \A f \in free : Apart(b, f)
      /\ FreeOK(free)
  BY DEF Inv, TypeOK, UsedBlock, HeapInv
<1>1. /\ FreeOK(Merged(free, b))
      /\ \A c : /\ c.at \in Address /\ c.size \in Address
                /\ Apart(c, b) /\ \A f \in free : Apart(c, f)
                => \A f \in Merged(free, b) : Apart(c, f)
      /\ \A u \in Address : u \in Region(b) \/ (\E f \in free : u \in Region(f))
                            => \E f \in Merged(free, b) : u \in Region(f)
  BY <1>0, MergedOK
<1>2. ASSUME NEW c \in used'
      PROVE  /\ c \in used /\ c.at \in Address /\ c.size \in Address /\ After(c) <= Units
             /\ \A f \in free' : Apart(c, f)
  BY <1>1 DEF Inv, TypeOK, UsedBlock, HeapInv
<1>3. HeapInv'
  BY <1>1, <1>2 DEF Inv, HeapInv
<1>4. mem' \in [Address -> Thread \cup {Header, Junk}]
  BY DEF Scrapped, Write
<1>5. ASSUME NEW c \in used', NEW u \in Body(c) PROVE mem'[u] = m[u]
  <2>1. u \in Address
    BY <1>2 DEF Body, After, Address
  <2>2. ASSUME NEW f \in free' PROVE u \notin Body(f) /\ u # f.at
    <3>1. f.at \in Address /\ f.size \in Address
      BY <1>1 DEF FreeOK
    <3>2. c.at \in Address /\ c.size \in Address /\ Apart(c, f)
      BY <1>2
    <3>3. u \in Nat /\ c.at < u /\ u < After(c)
      BY <3>2 DEF Body, After, Address
    <3>4. After(c) \in Nat /\ After(f) \in Nat
      BY <3>1, <3>2 DEF After, Address
    <3>5. u <= f.at - 1 \/ u >= After(f)
      BY <3>1, <3>2, <3>3, <3>4 DEF Apart, Address
    <3> QED
      BY <3>1, <3>3, <3>5 DEF After, Body, Address
  <2> QED
    BY <2>1, <2>2 DEF Scrapped, Write
<1> QED
  BY <1>3, <1>4, <1>5

-----------------------------------------------------------------------------
(* The heap begins as one free block. *)
LEMMA InitInv == Init => Inv
<1> SUFFICES ASSUME Init PROVE Inv
  OBVIOUS
<1> DEFINE f == [at |-> 0, size |-> Units - 1]
<1>1. free = {f} /\ used = {} /\ f \in [at : Address, size : Address] /\ f.at = 0 /\ After(f) = Units
  BY DEF Init, Address, After
<1>2. moving = [t \in Thread |-> None] /\ mem \in [Address -> Thread \cup {Header, Junk}]
  BY DEF Init
<1> HIDE DEF f
<1>3. TypeOK
  BY <1>1, <1>2 DEF TypeOK
<1>4. HeapInv
  BY <1>1 DEF HeapInv, FreeOK, Apart, After, Region, Address
<1>5. MovingInv /\ LongEnough /\ Intact
  BY <1>1, <1>2 DEF MovingInv, LongEnough, Intact
<1> QED
  BY <1>3, <1>4, <1>5 DEF Inv

(* malloc *)
LEMMA MallocStep ==
  ASSUME Inv, NEW t \in Thread, NEW bytes \in Sizes, Malloc(t, bytes)
  PROVE  Inv'
<1>1. PICK new \in UsedBlock :
        /\ new \notin used /\ used' = used \cup {new} /\ new.by = t
        /\ HeapInv'
        /\ new.size * Unit >= bytes /\ new.asked = bytes
        /\ mem' \in [Address -> Thread \cup {Header, Junk}]
        /\ \A u \in Body(new) : mem'[u] = t
        /\ \A c \in used : \A u \in Body(c) : mem'[u] = mem[u]
  BY AllocOK DEF Malloc
<1>2. moving' = moving
  BY DEF Malloc
<1>3. TypeOK'
  BY <1>1, <1>2 DEF Inv, HeapInv, FreeOK, TypeOK
<1>4. MovingInv' /\ LongEnough'
  BY <1>1, <1>2 DEF Inv, MovingInv, LongEnough
<1>5. Intact'
  BY <1>1, <1>2 DEF Inv, Intact
<1> QED
  BY <1>1, <1>3, <1>4, <1>5 DEF Inv

(* free *)
LEMMA FreeStep == ASSUME Inv, NEW b \in used, Free(b) PROVE Inv'
<1>1. mem \in [Address -> Thread \cup {Header, Junk}] /\ b.by \in Thread
  BY DEF Inv, TypeOK, UsedBlock
<1>2. /\ free' = Merged(free, b) /\ used' = used \ {b} /\ mem' = Scrapped(mem, free')
      /\ moving' = moving /\ moving[b.by] = None
  BY DEF Free, Idle
<1>3. /\ HeapInv' /\ mem' \in [Address -> Thread \cup {Header, Junk}]
      /\ \A c \in used' : \A u \in Body(c) : mem'[u] = mem[u]
  BY <1>1, <1>2, FreeStepOK
<1>4. TypeOK'
  <2>1. ASSUME NEW t \in Thread, moving[t] # None
        PROVE  moving[t].from \in used' /\ moving[t].to \in used'
    BY <1>2, <2>1 DEF Inv, TypeOK, MovingInv
  <2> QED
    BY <1>2, <1>3, <2>1 DEF Inv, HeapInv, FreeOK, TypeOK
<1>5. MovingInv' /\ LongEnough'
  BY <1>2 DEF Inv, MovingInv, LongEnough
<1>6. Intact'
  BY <1>2, <1>3 DEF Inv, Intact
<1> QED
  BY <1>3, <1>4, <1>5, <1>6 DEF Inv

(* realloc of a block that is long enough *)
LEMMA ReallocInPlaceStep ==
  ASSUME Inv, NEW b \in used, NEW bytes \in Sizes, ReallocInPlace(b, bytes)
  PROVE  Inv'
<1> DEFINE d == [b EXCEPT !.asked = bytes]
<1>1. /\ b \in UsedBlock /\ moving[b.by] = None /\ b.size >= NewSize(bytes)
      /\ used' = (used \ {b}) \cup {d} /\ UNCHANGED <<free, mem, moving>>
  BY DEF ReallocInPlace, Idle, Inv, TypeOK
<1>2. /\ d \in UsedBlock /\ d.at = b.at /\ d.size = b.size /\ d.by = b.by /\ d.asked = bytes
      /\ Body(d) = Body(b) /\ Region(d) = Region(b) /\ After(d) = After(b)
  BY <1>1 DEF UsedBlock, Body, Region, After
<1> HIDE DEF d
<1>3. ASSUME NEW t \in Thread, moving[t] # None
      PROVE  /\ moving[t].from \in used \ {b} /\ moving[t].to \in used \ {b}
             /\ moving[t].to # d
  BY <1>1, <1>2, <1>3 DEF Inv, TypeOK, MovingInv, UsedBlock
<1>4. TypeOK'
  BY <1>1, <1>2, <1>3 DEF Inv, TypeOK
<1>5. HeapInv'
  <2>1. \A c \in used \ {b} : Apart(c, d) /\ Apart(d, c)
    BY <1>2 DEF Inv, HeapInv, Apart
  <2>2. \A f \in free : Apart(d, f)
    BY <1>2 DEF Inv, HeapInv, Apart
  <2>3. After(d) <= Units
    BY <1>2 DEF Inv, HeapInv
  <2>4. \A u \in Address : (\E c \in used' : u \in Region(c)) \/ (\E f \in free : u \in Region(f))
    BY <1>1, <1>2 DEF Inv, HeapInv
  <2> QED
    BY <1>1, <2>1, <2>2, <2>3, <2>4 DEF Inv, HeapInv
<1>6. MovingInv'
  BY <1>1 DEF Inv, MovingInv
<1>7. LongEnough'
  <2>1. b.size \in Nat /\ bytes \in Nat
    BY <1>1 DEF UsedBlock, Address
  <2>2. NewSize(bytes) \in Nat /\ NewSize(bytes) * Unit >= bytes
    BY <2>1, Rounded
  <2>3. b.size * Unit >= NewSize(bytes) * Unit
    BY <1>1, <2>1, <2>2, MoreUnits
  <2>4. d.size * Unit >= d.asked
    BY <1>2, <2>1, <2>2, <2>3
  <2> QED
    BY <1>1, <2>4 DEF Inv, LongEnough
<1>8. Intact'
  <2>1. \A u \in Body(b) : mem[u] = b.by
    BY <1>1, <1>3 DEF Inv, Intact
  <2> QED
    BY <1>1, <1>2, <2>1 DEF Inv, Intact
<1> QED
  BY <1>4, <1>5, <1>6, <1>7, <1>8 DEF Inv

(* The first half of a realloc that moves: the new block is allocated. *)
LEMMA ReallocAllocStep ==
  ASSUME Inv, NEW b \in used, NEW bytes \in Sizes, ReallocAlloc(b, bytes)
  PROVE  Inv'
<1> DEFINE t == b.by
<1>0. b \in UsedBlock /\ t \in Thread /\ moving[t] = None
  BY DEF ReallocAlloc, Idle, Inv, TypeOK, UsedBlock
<1>1. PICK new \in UsedBlock :
        /\ new \notin used /\ used' = used \cup {new} /\ new.by = t
        /\ HeapInv'
        /\ new.size * Unit >= bytes /\ new.asked = bytes
        /\ mem' \in [Address -> Thread \cup {Header, Junk}]
        /\ \A u \in Body(new) : mem'[u] = Junk
        /\ \A c \in used : \A u \in Body(c) : mem'[u] = mem[u]
  BY <1>0, AllocOK DEF ReallocAlloc
<1>2. (CHOOSE c \in used' : c \notin used) = new
  BY <1>1
<1>3. moving' = [moving EXCEPT ![t] = [from |-> b, to |-> new]]
  BY <1>2 DEF ReallocAlloc
<1>4. [from |-> b, to |-> new] \in Move
  BY <1>0, <1>1 DEF Move
<1>5. /\ moving'[t] # None /\ moving'[t].from = b /\ moving'[t].to = new
      /\ \A s \in Thread \ {t} : moving'[s] = moving[s]
  BY <1>0, <1>3, <1>4 DEF Inv, TypeOK
<1>6. TypeOK'
  <2>1. moving' \in [Thread -> Move \cup {None}]
    BY <1>3, <1>4 DEF Inv, TypeOK
  <2> QED
    BY <1>1, <1>5, <2>1 DEF Inv, HeapInv, FreeOK, TypeOK
<1>7. MovingInv' /\ LongEnough'
  BY <1>0, <1>1, <1>5 DEF Inv, MovingInv, LongEnough
<1>8. Intact'
  <2> SUFFICES ASSUME NEW c \in used', \A s \in Thread : moving'[s] # None => moving'[s].to # c,
                      NEW u \in Body(c)
               PROVE  mem'[u] = c.by
    BY DEF Intact
  <2>1. c \in used
    BY <1>0, <1>1, <1>5
  <2>2. \A s \in Thread : moving[s] # None => moving[s].to # c
    BY <1>0, <1>5
  <2> QED
    BY <1>1, <2>1, <2>2 DEF Inv, Intact
<1> QED
  BY <1>1, <1>6, <1>7, <1>8 DEF Inv

(* The second half: the old block is copied and freed, whatever other      *)
(* threads did to the heap in between.                                     *)
LEMMA ReallocCopyStep == ASSUME Inv, NEW t \in Thread, ReallocCopy(t) PROVE Inv'
<1> DEFINE from == moving[t].from
           to == moving[t].to
           m == Copied(mem, from, to, t)
<1>0. /\ moving[t] # None /\ from \in used /\ to \in used /\ from # to
      /\ from.by = t /\ to.by = t
      /\ free' = Merged(free, from) /\ used' = used \ {from}
      /\ mem' = Scrapped(m, free')
      /\ moving' = [moving EXCEPT ![t] = None]
  BY DEF ReallocCopy, Idle, Inv, TypeOK, MovingInv
<1>1. moving'[t] = None /\ \A s \in Thread \ {t} : moving'[s] = moving[s]
  BY <1>0 DEF Inv, TypeOK
<1> HIDE DEF from, to
<1>2. /\ from.at \in Address /\ from.size \in Address /\ After(from) <= Units
      /\ to.at \in Address /\ to.size \in Address /\ After(to) <= Units
  BY <1>0 DEF Inv, TypeOK, UsedBlock, HeapInv
<1>3. ASSUME NEW u \in Body(to), u - to.at <= from.size
      PROVE  from.at + (u - to.at) \in Body(from) /\ from.at + (u - to.at) \in Address
  BY <1>2, <1>3 DEF Body, After, Address
<1>4. m \in [Address -> Thread \cup {Header, Junk}]
  <2>1. \A u \in Address : m[u] \in Thread \cup {Header, Junk}
    BY <1>3 DEF Copied, Inv, TypeOK
  <2> QED
    BY <2>1 DEF Copied
<1>5. \A u \in Body(to) : m[u] = t
  <2>1. \A u \in Body(from) : mem[u] = t
    <3>1. \A s \in Thread : moving[s] # None => moving[s].to # from
      BY <1>0 DEF Inv, MovingInv, to
    <3> QED
      BY <1>0, <3>1 DEF Inv, Intact
  <2>2. Body(to) \subseteq Address
    BY <1>2 DEF Body, After, Address
  <2> QED
    BY <1>3, <2>1, <2>2 DEF Copied
<1>6. ASSUME NEW c \in used, c # to PROVE \A u \in Body(c) : m[u] = mem[u]
  <2>1. c.at \in Address /\ c.size \in Address /\ After(c) <= Units /\ Apart(c, to)
    BY <1>0, <1>6 DEF Inv, TypeOK, UsedBlock, HeapInv
  <2>2. \A u \in Body(c) : u \in Address /\ u \notin Body(to)
    BY <1>2, <2>1 DEF Apart, After, Body, Address
  <2> QED
    BY <2>2 DEF Copied
<1> HIDE DEF m
<1>7. /\ HeapInv' /\ mem' \in [Address -> Thread \cup {Header, Junk}]
      /\ \A c \in used' : \A u \in Body(c) : mem'[u] = m[u]
  BY <1>0, <1>4, FreeStepOK
<1>8. TypeOK'
  <2>1. ASSUME NEW s \in Thread \ {t}, moving[s] # None
        PROVE  moving[s].from \in used' /\ moving[s].to \in used'
    BY <1>0, <2>1 DEF Inv, TypeOK, MovingInv
  <2>2. moving' \in [Thread -> Move \cup {None}]
    BY <1>0 DEF Inv, TypeOK
  <2> QED
    BY <1>0, <1>1, <1>7, <2>1, <2>2 DEF Inv, HeapInv, FreeOK, TypeOK
<1>9. MovingInv' /\ LongEnough'
  BY <1>0, <1>1 DEF Inv, MovingInv, LongEnough
<1>10. Intact'
  <2> SUFFICES ASSUME NEW c \in used', \A s \in Thread : moving'[s] # None => moving'[s].to # c,
                      NEW u \in Body(c)
               PROVE  mem'[u] = c.by
    BY DEF Intact
  <2>1. CASE c = to
    BY <1>0, <1>5, <1>7, <2>1
  <2>2. CASE c # to
    <3>1. \A s \in Thread : moving[s] # None => moving[s].to # c
      BY <1>1, <2>2 DEF to
    <3> QED
      BY <1>0, <1>6, <1>7, <2>2, <3>1 DEF Inv, Intact
  <2> QED
    BY <2>1, <2>2
<1> QED
  BY <1>7, <1>8, <1>9, <1>10 DEF Inv

(* Every call of a thread keeps the invariant. *)
LEMMA InvStep == Inv /\ [Next]_vars => Inv'
<1> SUFFICES ASSUME Inv, [Next]_vars PROVE Inv'
  OBVIOUS
<1>1. CASE UNCHANGED vars
  BY <1>1 DEF Inv, vars, TypeOK, HeapInv, MovingInv, LongEnough, Intact
<1> QED
  BY <1>1, MallocStep, FreeStep, ReallocInPlaceStep, ReallocAllocStep, ReallocCopyStep DEF Next

(* Every state of the heap that malloc, free and realloc reach is good. *)
LEMMA Invariance == Spec => []Inv
BY InitInv, InvStep, PTL DEF Spec

-----------------------------------------------------------------------------
(* The blocks of the kernel's heap tile it, whatever malloc, free and      *)
(* realloc are called with and in which order.                             *)
THEOREM HeapIsTiled == Spec => []Tiled
<1>1. Inv => Tiled
  <2> SUFFICES ASSUME Inv PROVE Tiled
    OBVIOUS
  <2>1. ASSUME NEW b \in used \cup free
        PROVE  b.at \in Address /\ b.size \in Address /\ After(b) <= Units
    <3>1. CASE b \in used
      BY <3>1 DEF Inv, TypeOK, HeapInv, UsedBlock
    <3>2. CASE b \in free
      BY <3>2 DEF Inv, HeapInv, FreeOK
    <3> QED
      BY <3>1, <3>2
  <2>2. ASSUME NEW b \in used \cup free
        PROVE  LET p == [at |-> b.at, size |-> b.size]
               IN  p \in Blocks /\ After(p) = After(b) /\ Region(b) = p.at .. After(p) - 1
    BY <2>1 DEF Blocks, After, Region, Inv, TypeOK, Address
  <2>3. ASSUME NEW p \in Blocks
        PROVE  \E b \in used \cup free : p.at = b.at /\ p.size = b.size /\ After(p) = After(b)
    BY DEF Blocks, After
  <2>4. \A u \in Address : \E p \in Blocks : u \in p.at .. After(p) - 1
    BY <2>2 DEF Inv, HeapInv
  <2>5. \A p \in Blocks : After(p) <= Units
    BY <2>1, <2>3
  <2>6. ASSUME NEW b \in used \cup free, NEW c \in used \cup free, b # c
        PROVE  (After(b) <= c.at \/ After(c) <= b.at) /\ b.at # c.at
    <3>1. Apart(b, c)
      BY <2>6 DEF Inv, HeapInv, FreeOK, Apart
    <3> QED
      BY <2>1, <3>1 DEF Apart, After, Address
  <2>7. ASSUME NEW p \in Blocks, NEW q \in Blocks, p # q
        PROVE  After(p) <= q.at \/ After(q) <= p.at
    <3>1. PICK b \in used \cup free : p.at = b.at /\ p.size = b.size /\ After(p) = After(b)
      BY <2>3
    <3>2. PICK c \in used \cup free : q.at = c.at /\ q.size = c.size /\ After(q) = After(c)
      BY <2>3
    <3>3. b # c
      <4>1. p = [at |-> p.at, size |-> p.size] /\ q = [at |-> q.at, size |-> q.size]
        BY DEF Blocks, Inv, TypeOK
      <4> QED
        BY <2>7, <3>1, <3>2, <4>1
    <3> QED
      BY <2>6, <3>1, <3>2, <3>3
  <2> QED
    BY <2>4, <2>5, <2>6, <2>7 DEF Tiled
<1> QED BY <1>1, Invariance, PTL

(* chHeapFree merges a block with both of its neighbours. *)
THEOREM FreeBlocksMerge == Spec => []Coalesced
<1>1. Inv => Coalesced
  BY DEF Inv, HeapInv, FreeOK, Coalesced
<1> QED BY <1>1, Invariance, PTL

(* malloc and realloc return no block that is too short, though they round *)
(* the size up in two different ways.                                      *)
THEOREM NeverTooShort == Spec => []LongEnough
<1>1. Inv => LongEnough
  BY DEF Inv
<1> QED BY <1>1, Invariance, PTL

(* The contents of a block survive all that the heap does with others, and *)
(* a realloc that copies between two calls of the kernel.                  *)
THEOREM ContentsSurvive == Spec => []Intact
<1>1. Inv => Intact
  BY DEF Inv
<1> QED BY <1>1, Invariance, PTL

(* Nothing is lost in the long run: when an app has freed all its blocks,  *)
(* whichever way chHeapAlloc split and chHeapFree merged them, the heap is *)
(* the one free block of chHeapObjectInit again.                           *)
THEOREM NoFragmentsLeft == Spec => [](used = {} => free = {[at |-> 0, size |-> Units - 1]})
<1>1. Inv => (used = {} => free = {[at |-> 0, size |-> Units - 1]})
  <2> SUFFICES ASSUME Inv, used = {} PROVE free = {[at |-> 0, size |-> Units - 1]}
    OBVIOUS
  <2>0. \A u \in Address : \E f \in free : u \in Region(f)
    BY DEF Inv, HeapInv
  <2>1. ASSUME NEW f \in free
        PROVE  f \in [at : Address, size : Address] /\ After(f) <= Units
    BY DEF Inv, HeapInv, FreeOK
  <2>2. PICK f \in free : 0 \in Region(f)
    BY <2>0 DEF Address
  <2>3. f.at = 0 /\ f.size \in Address
    BY <2>1, <2>2 DEF Region, Address
  <2>4. After(f) = Units
    <3> SUFFICES ASSUME After(f) # Units PROVE FALSE
      OBVIOUS
    <3>1. After(f) \in Address
      BY <2>1, <2>3 DEF After, Address
    <3>2. PICK g \in free : After(f) \in Region(g)
      BY <2>0, <3>1
    <3>3. g.at \in Address /\ g.size \in Address /\ g # f /\ After(f) # g.at
      BY <2>1, <2>3, <3>2 DEF Inv, HeapInv, FreeOK, Region, After, Address
    <3>4. Apart(f, g)
      BY <3>3 DEF Inv, HeapInv, FreeOK
    <3> QED
      BY <2>3, <3>1, <3>2, <3>3, <3>4 DEF Apart, After, Region, Address
  <2>5. f = [at |-> 0, size |-> Units - 1]
    BY <2>1, <2>3, <2>4 DEF After, Address
  <2>6. ASSUME NEW g \in free PROVE g = f
    <3> SUFFICES ASSUME g # f PROVE FALSE
      OBVIOUS
    <3>1. Apart(f, g)
      BY DEF Inv, HeapInv, FreeOK
    <3> QED
      BY <2>1, <2>3, <2>4, <3>1 DEF Apart, After, Address
  <2> QED
    BY <2>5, <2>6
<1> QED BY <1>1, Invariance, PTL
=============================================================================
