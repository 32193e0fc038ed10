---------------------------- MODULE TimersProofs ----------------------------
(***************************************************************************)
(* Proofs about the timers of an app and the kernel's list of timers, for  *)
(* any number of timers and slots, every width of systime_t and of the     *)
(* counter of callbacks, and all delays but 0.                             *)
(***************************************************************************)
EXTENDS Timers, WellFoundedInduction, FiniteSetTheorems, SequenceTheorems, TLAPS

(* Of natural numbers one is the least. *)
LEMMA FirstOfNaturals ==
  ASSUME NEW S \in SUBSET Nat, S # {}
  PROVE  \E x \in S : \A y \in S : x <= y
<1>1. IsWellFoundedOn(OpToRel(<, Nat), Nat)
  BY NatLessThanWellFounded
<1>2. PICK x \in S : \A y \in S : ~(<<y, x>> \in OpToRel(<, Nat))
  BY <1>1, WFMin
<1>3. \A y \in S : ~(y < x)
  BY <1>2 DEF OpToRel
<1> QED
  BY <1>3

(* The running sum of the deltas of a list exists. *)
IsSum(f, l) == f = [j \in 0 .. Len(l) |-> IF j = 0 THEN 0 ELSE f[j - 1] + l[j].delta]

(* The sums of the deltas exist. *)
LEMMA SumExists == ASSUME NEW l, Len(l) \in Nat PROVE \E f : IsSum(f, l)
<1> DEFINE Part(f, m) == f = [j \in 0 .. m |-> IF j = 0 THEN 0 ELSE f[j - 1] + l[j].delta]
           Bad == {m \in Nat : ~\E f : Part(f, m)}
<1>1. SUFFICES ASSUME Bad # {} PROVE FALSE
  BY DEF IsSum
<1>2. PICK m \in Bad : \A n \in Bad : m <= n
  BY <1>1, FirstOfNaturals
<1>3. CASE m = 0
  <2>1. Part([j \in 0 .. 0 |-> 0], 0)
    OBVIOUS
  <2> QED
    BY <1>2, <1>3, <2>1
<1>4. CASE m > 0
  <2>0. Bad \subseteq Nat
    OBVIOUS
  <2>1. m - 1 \in Nat /\ m - 1 \notin Bad
    <3> HIDE DEF Bad
    <3> QED
      BY <1>2, <1>4, <2>0
  <2>2. PICK f : Part(f, m - 1)
    BY <2>1
  <2> DEFINE g == [j \in 0 .. m |-> IF j = m THEN f[m - 1] + l[m].delta ELSE f[j]]
  <2>3. Part(g, m)
    BY <2>1, <2>2
  <2> QED
    BY <1>2, <2>3
<1> QED
  BY <1>2, <1>3, <1>4

(* Ahead adds the deltas up, one at a time. *)
LEMMA AheadIsSum ==
  ASSUME NEW l, Len(l) \in Nat
  PROVE  /\ Ahead(l, 0) = 0
         /\ \A k \in 1 .. Len(l) : Ahead(l, k) = Ahead(l, k - 1) + l[k].delta
<1> DEFINE f == CHOOSE g : IsSum(g, l)
<1>1. IsSum(f, l)
  BY SumExists
<1>2. \A k : Ahead(l, k) = f[k]
  BY DEF Ahead, IsSum
<1> HIDE DEF f
<1>3. \A j \in 0 .. Len(l) : f[j] = IF j = 0 THEN 0 ELSE f[j - 1] + l[j].delta
  BY <1>1 DEF IsSum
<1> QED
  BY <1>2, <1>3
-----------------------------------------------------------------------------
USE VirtualTimersAssumption, TimersAssumption

Entry == [vt : Timer \cup Sleeper, delta : 0 .. SystimeMod - 1, par : 0 .. Slots]

(* What adds up like the deltas of a list is the ticks until they fire. *)
LEMMA AheadIsUnique ==
  ASSUME NEW l, Len(l) \in Nat, NEW g, g[0] = 0,
         \A j \in 1 .. Len(l) : g[j] = g[j - 1] + l[j].delta
  PROVE  \A k \in 0 .. Len(l) : Ahead(l, k) = g[k]
<1> DEFINE Bad == {k \in 0 .. Len(l) : Ahead(l, k) # g[k]}
<1>0. Bad \in SUBSET Nat
  OBVIOUS
<1>1. SUFFICES ASSUME Bad # {} PROVE FALSE
  OBVIOUS
<1>2. PICK m \in Bad : \A n \in Bad : m <= n
  BY <1>0, <1>1, FirstOfNaturals
<1>3. m \in 1 .. Len(l)
  BY <1>2, AheadIsSum
<1>4. m - 1 \notin Bad
  <2> HIDE DEF Bad
  <2> QED
    BY <1>0, <1>2, <1>3
<1>5. Ahead(l, m - 1) = g[m - 1]
  BY <1>3, <1>4
<1> QED
  BY <1>2, <1>3, <1>5, AheadIsSum

(* The timers of a list fire in its order. *)
LEMMA AheadGrows ==
  ASSUME NEW l \in Seq(Entry)
  PROVE  /\ \A k \in 0 .. Len(l) : Ahead(l, k) \in Nat
         /\ \A k \in 1 .. Len(l) : Ahead(l, k) >= Ahead(l, k - 1)
         /\ \A j, k \in 0 .. Len(l) : j <= k => Ahead(l, j) <= Ahead(l, k)
<1>0. /\ Len(l) \in Nat /\ \A k \in 1 .. Len(l) : l[k].delta \in Nat
  <2>1. \A k \in 1 .. Len(l) : l[k] \in Entry
    OBVIOUS
  <2> QED
    BY <2>1 DEF Entry
<1>1. \A k \in 0 .. Len(l) : Ahead(l, k) \in Nat
  <2> DEFINE Bad == {k \in 0 .. Len(l) : Ahead(l, k) \notin Nat}
  <2>0. Bad \in SUBSET Nat
    OBVIOUS
  <2>1. SUFFICES ASSUME Bad # {} PROVE FALSE
    OBVIOUS
  <2>2. PICK m \in Bad : \A n \in Bad : m <= n
    BY <2>0, <2>1, FirstOfNaturals
  <2>3. m \in 1 .. Len(l)
    BY <1>0, <2>2, AheadIsSum
  <2>4. m - 1 \notin Bad
    <3> HIDE DEF Bad
    <3> QED
      BY <2>0, <2>2, <2>3
  <2>5. Ahead(l, m - 1) \in Nat
    BY <1>0, <2>3, <2>4
  <2> QED
    BY <1>0, <2>2, <2>3, <2>5, AheadIsSum
<1>2. \A k \in 1 .. Len(l) : Ahead(l, k) >= Ahead(l, k - 1)
  BY <1>0, <1>1, AheadIsSum, SMTT(30)
<1>3. ASSUME NEW j \in 0 .. Len(l)
      PROVE  \A k \in 0 .. Len(l) : j <= k => Ahead(l, j) <= Ahead(l, k)
  <2> DEFINE Bad == {k \in 0 .. Len(l) : j <= k /\ ~(Ahead(l, j) <= Ahead(l, k))}
  <2>0. Bad \in SUBSET Nat
    OBVIOUS
  <2>1. SUFFICES ASSUME Bad # {} PROVE FALSE
    OBVIOUS
  <2>2. PICK m \in Bad : \A n \in Bad : m <= n
    BY <2>0, <2>1, FirstOfNaturals
  <2>3. m \in 1 .. Len(l) /\ j <= m - 1
    BY <1>0, <1>1, <2>2
  <2>4. m - 1 \notin Bad
    <3> HIDE DEF Bad
    <3> QED
      BY <2>0, <2>2, <2>3
  <2>5. Ahead(l, j) <= Ahead(l, m - 1)
    BY <1>0, <2>3, <2>4
  <2>6. Ahead(l, m - 1) <= Ahead(l, m)
    BY <1>1, <1>2, <2>3
  <2>7. Ahead(l, j) \in Nat /\ Ahead(l, m - 1) \in Nat /\ Ahead(l, m) \in Nat
    BY <1>0, <1>1, <2>3
  <2> QED
    BY <2>2, <2>5, <2>6, <2>7
<1> QED
  BY <1>1, <1>2, <1>3

(* The scan of chVTDoSetI stops. *)
LEMMA PlaceOK ==
  ASSUME NEW l \in Seq(Entry), NEW delay \in Nat
  PROVE  LET k == Place(l, delay)
         IN  /\ k \in 1 .. Len(l) + 1
             /\ k <= Len(l) => Ahead(l, k) >= delay
             /\ \A j \in 1 .. k - 1 : Ahead(l, j) < delay
<1> DEFINE S == {k \in 1 .. Len(l) : Ahead(l, k) >= delay}
<1>0. Len(l) \in Nat /\ \A k \in 0 .. Len(l) : Ahead(l, k) \in Nat
  BY AheadGrows
<1>1. \E k \in 1 .. Len(l) + 1 :
        /\ k <= Len(l) => Ahead(l, k) >= delay
        /\ \A j \in 1 .. k - 1 : Ahead(l, j) < delay
  <2>1. CASE S = {}
    BY <1>0, <2>1
  <2>2. CASE S # {}
    <3>0. S \in SUBSET Nat
      OBVIOUS
    <3>1. PICK k \in S : \A j \in S : k <= j
      BY <2>2, <3>0, FirstOfNaturals
    <3>2. \A j \in 1 .. k - 1 : j \notin S
      <4> HIDE DEF S
      <4> QED
        BY <3>0, <3>1
    <3> QED
      BY <1>0, <3>1, <3>2
  <2> QED
    BY <2>1, <2>2
<1> QED
  BY <1>1 DEF Place

-----------------------------------------------------------------------------
(* A list that e is linked into *)
LEMMA Inserted ==
  ASSUME NEW S, NEW l \in Seq(S), NEW e \in S, NEW k \in 1 .. Len(l) + 1
  PROVE  /\ InsertAt(l, k, e) \in Seq(S) /\ Len(InsertAt(l, k, e)) = Len(l) + 1
         /\ \A j \in 1 .. Len(l) + 1 :
              InsertAt(l, k, e)[j] = IF j < k THEN l[j] ELSE IF j = k THEN e ELSE l[j - 1]
<1> DEFINE a == SubSeq(l, 1, k - 1)
           b == SubSeq(l, k, Len(l))
           c == a \o <<e>>
<1>1. a \in Seq(S) /\ Len(a) = k - 1 /\ \A j \in 1 .. k - 1 : a[j] = l[j]
  BY SubSeqProperties
<1>2. b \in Seq(S) /\ Len(b) = Len(l) - k + 1 /\ \A j \in 1 .. Len(l) - k + 1 : b[j] = l[k + j - 1]
  BY SubSeqProperties
<1>3. InsertAt(l, k, e) = c \o b
  BY DEF InsertAt
<1> HIDE DEF a, b
<1>4. c \in Seq(S) /\ Len(c) = k /\ \A j \in 1 .. k : c[j] = IF j < k THEN l[j] ELSE e
  BY <1>1
<1> HIDE DEF c
<1>5. /\ c \o b \in Seq(S) /\ Len(c \o b) = Len(c) + Len(b)
      /\ \A j \in 1 .. Len(c) + Len(b) : (c \o b)[j] = IF j <= Len(c) THEN c[j] ELSE b[j - Len(c)]
  BY <1>2, <1>4, ConcatProperties
<1>6. ASSUME NEW j \in 1 .. Len(l) + 1, j > k PROVE b[j - k] = l[j - 1]
  BY <1>2, <1>6
<1> QED
  BY <1>2, <1>3, <1>4, <1>5, <1>6

(* A list that its k-th entry is taken out of *)
LEMMA Removed ==
  ASSUME NEW S, NEW l \in Seq(S), NEW k \in 1 .. Len(l)
  PROVE  /\ RemoveAt(l, k) \in Seq(S) /\ Len(RemoveAt(l, k)) = Len(l) - 1
         /\ \A j \in 1 .. Len(l) - 1 : RemoveAt(l, k)[j] = IF j < k THEN l[j] ELSE l[j + 1]
<1> DEFINE a == SubSeq(l, 1, k - 1)
           b == SubSeq(l, k + 1, Len(l))
<1>1. a \in Seq(S) /\ Len(a) = k - 1 /\ \A j \in 1 .. k - 1 : a[j] = l[j]
  BY SubSeqProperties
<1>2. b \in Seq(S) /\ Len(b) = Len(l) - k /\ \A j \in 1 .. Len(l) - k : b[j] = l[k + j]
  BY SubSeqProperties
<1>3. RemoveAt(l, k) = a \o b
  BY DEF RemoveAt
<1> HIDE DEF a, b
<1>4. /\ a \o b \in Seq(S) /\ Len(a \o b) = Len(a) + Len(b)
      /\ \A j \in 1 .. Len(a) + Len(b) : (a \o b)[j] = IF j <= Len(a) THEN a[j] ELSE b[j - Len(a)]
  <2>1. a \in Seq(S) /\ b \in Seq(S)
    BY <1>1, <1>2
  <2> QED
    BY <2>1, ConcatProperties
<1>5. ASSUME NEW j \in 1 .. Len(l) - 1, j >= k PROVE b[j - (k - 1)] = l[j + 1]
  BY <1>2, <1>5
<1> QED
  BY <1>1, <1>2, <1>3, <1>4, <1>5

-----------------------------------------------------------------------------
(* m is the list l without its k-th entry, and the others keep their timer *)
(* and their parameter.                                                    *)
Shorter(m, l, k) ==
  /\ m \in Seq(Entry) /\ l \in Seq(Entry) /\ k \in 1 .. Len(l) /\ Len(m) = Len(l) - 1
  /\ \A j \in 1 .. Len(m) :
       LET r == IF j < k THEN j ELSE j + 1
       IN  m[j].vt = l[r].vt /\ m[j].par = l[r].par

(* They also fire when they would. *)
Without(m, l, k) ==
  /\ Shorter(m, l, k)
  /\ \A j \in 1 .. Len(m) : Ahead(m, j) = Ahead(l, IF j < k THEN j ELSE j + 1)

(* No timer is further away than systime_t can tell. *)
Near(l) == \A k \in 1 .. Len(l) : Ahead(l, k) < SystimeMod

(* chVTDoSetI links a timer in and leaves the others to fire when they     *)
(* would.                                                                  *)
LEMMA DoSetOK ==
  ASSUME NEW l \in Seq(Entry), NEW t \in Timer \cup Sleeper,
         NEW delay \in 0 .. SystimeMod - 1, NEW par \in 0 .. Slots
  PROVE  LET m == DoSet(l, t, delay, par)
         IN  \E k \in 1 .. Len(l) + 1 :
               /\ Without(l, m, k)
               /\ m[k].vt = t /\ m[k].par = par /\ Ahead(m, k) = delay
<1> DEFINE k == Place(l, delay)
           delta == delay - Ahead(l, k - 1)
           rest == IF k > Len(l) THEN l ELSE [l EXCEPT ![k].delta = @ - delta]
           e == [vt |-> t, delta |-> delta, par |-> par]
           m == InsertAt(rest, k, e)
<1>0. DoSet(l, t, delay, par) = m
  BY DEF DoSet
<1>1. /\ k \in 1 .. Len(l) + 1
      /\ k <= Len(l) => Ahead(l, k) >= delay
      /\ \A j \in 1 .. k - 1 : Ahead(l, j) < delay
  BY PlaceOK
<1>2. /\ Len(l) \in Nat /\ \A j \in 0 .. Len(l) : Ahead(l, j) \in Nat
      /\ Ahead(l, 0) = 0
      /\ \A j \in 1 .. Len(l) : Ahead(l, j) = Ahead(l, j - 1) + l[j].delta
  BY AheadGrows, AheadIsSum
<1>3. \A j \in 1 .. Len(l) : l[j] \in Entry
  OBVIOUS
<1> HIDE DEF k
<1>4. delta \in 0 .. SystimeMod - 1 /\ Ahead(l, k - 1) \in Nat
  BY <1>1, <1>2
<1>5. e \in Entry /\ e.vt = t /\ e.par = par /\ e.delta = delta
  BY <1>4 DEF Entry
<1> HIDE DEF e, delta
<1>6. /\ rest \in Seq(Entry) /\ Len(rest) = Len(l)
      /\ \A j \in 1 .. Len(l) :
           /\ rest[j].vt = l[j].vt /\ rest[j].par = l[j].par
           /\ rest[j].delta = IF j = k THEN l[j].delta - delta ELSE l[j].delta
  <2>1. CASE k > Len(l)
    BY <1>1, <2>1
  <2>2. CASE k <= Len(l)
    <3>1. l[k] \in Entry /\ l[k].delta - delta \in 0 .. SystimeMod - 1
      <4>1. k \in 1 .. Len(l)
        BY <1>1, <2>2
      <4>2. l[k] \in Entry /\ Ahead(l, k) = Ahead(l, k - 1) + l[k].delta
        BY <1>2, <1>3, <4>1
      <4>3. l[k].delta \in 0 .. SystimeMod - 1
        BY <4>2 DEF Entry
      <4>4. l[k].delta >= delta
        BY <1>1, <1>4, <2>2, <4>2, <4>3 DEF delta
      <4> QED
        BY <1>4, <4>2, <4>3, <4>4
    <3> DEFINE x == [l[k] EXCEPT !.delta = @ - delta]
    <3>2. x \in Entry /\ x.vt = l[k].vt /\ x.par = l[k].par /\ x.delta = l[k].delta - delta
      BY <3>1 DEF Entry
    <3>3. rest = [l EXCEPT ![k] = x]
      BY <1>1, <1>2, <2>2
    <3> HIDE DEF x, rest
    <3> QED
      BY <1>1, <1>2, <2>2, <3>2, <3>3
  <2> QED
    BY <1>1, <1>2, <2>1, <2>2
<1> HIDE DEF rest
<1>7. /\ m \in Seq(Entry) /\ Len(m) = Len(l) + 1
      /\ \A j \in 1 .. Len(l) + 1 :
           m[j] = IF j < k THEN rest[j] ELSE IF j = k THEN e ELSE rest[j - 1]
  BY <1>1, <1>5, <1>6, Inserted
<1> HIDE DEF m
<1> DEFINE g == [j \in 0 .. Len(l) + 1 |->
                   IF j < k THEN Ahead(l, j) ELSE IF j = k THEN delay ELSE Ahead(l, j - 1)]
<1>8. \A j \in 0 .. Len(m) : Ahead(m, j) = g[j]
  <2>1. g[0] = 0
    BY <1>1, <1>2
  <2>2. ASSUME NEW j \in 1 .. Len(m) PROVE g[j] = g[j - 1] + m[j].delta
    <3>1. CASE j < k
      <4>1. m[j].delta = l[j].delta
        BY <1>1, <1>6, <1>7, <2>2, <3>1
      <4> QED
        BY <1>1, <1>2, <1>7, <3>1, <4>1
    <3>2. CASE j = k
      <4>1. m[j].delta = delay - Ahead(l, k - 1)
        BY <1>5, <1>7, <2>2, <3>2 DEF delta
      <4>2. g[j] = delay /\ g[j - 1] = Ahead(l, k - 1)
        BY <1>1, <1>2, <1>7, <3>2
      <4> QED
        BY <1>4, <4>1, <4>2
    <3>3. CASE j = k + 1
      <4>1. m[j].delta = l[k].delta - delta
        BY <1>1, <1>2, <1>6, <1>7, <3>3
      <4>2. g[j] = Ahead(l, k) /\ g[j - 1] = delay
        BY <1>1, <1>2, <1>7, <3>3
      <4>3. k \in 1 .. Len(l)
        BY <1>1, <1>2, <1>7, <3>3
      <4>4. l[k] \in Entry /\ Ahead(l, k) = Ahead(l, k - 1) + l[k].delta
        BY <1>2, <1>3, <4>3
      <4>5. l[k].delta \in Nat
        BY <4>4 DEF Entry
      <4> HIDE DEF g
      <4> QED
        BY <1>4, <4>1, <4>2, <4>4, <4>5 DEF delta
    <3>4. CASE j > k + 1
      <4>1. j - 1 \in 1 .. Len(l) /\ j - 1 # k
        BY <1>1, <1>2, <1>7, <3>4
      <4>2. m[j].delta = l[j - 1].delta
        <5>1. m[j] = rest[j - 1]
          BY <1>1, <1>7, <2>2, <3>4
        <5> QED
          BY <1>6, <4>1, <5>1
      <4>3. g[j] = Ahead(l, j - 1) /\ g[j - 1] = Ahead(l, j - 2)
        BY <1>1, <1>2, <1>7, <3>4
      <4> QED
        BY <1>2, <4>1, <4>2, <4>3
    <3> QED
      BY <1>1, <1>7, <3>1, <3>2, <3>3, <3>4
  <2> HIDE DEF g
  <2>3. Len(m) \in Nat /\ \A j \in 1 .. Len(m) : g[j] = g[j - 1] + m[j].delta
    BY <1>2, <1>7, <2>2
  <2> QED
    BY <2>1, <2>3, AheadIsUnique
<1>9. \A j \in 1 .. Len(l) :
        LET r == IF j < k THEN j ELSE j + 1
        IN  l[j].vt = m[r].vt /\ l[j].par = m[r].par /\ Ahead(l, j) = Ahead(m, r)
  <2> SUFFICES ASSUME NEW j \in 1 .. Len(l), NEW r, r = IF j < k THEN j ELSE j + 1
               PROVE  l[j].vt = m[r].vt /\ l[j].par = m[r].par /\ Ahead(l, j) = Ahead(m, r)
    OBVIOUS
  <2>1. r \in 1 .. Len(l) + 1 /\ m[r] = rest[j]
    BY <1>1, <1>2, <1>7
  <2>2. Ahead(m, r) = g[r] /\ g[r] = Ahead(l, j)
    BY <1>1, <1>2, <1>7, <1>8, <2>1
  <2> QED
    BY <1>6, <2>1, <2>2
<1>10. m[k].vt = t /\ m[k].par = par /\ Ahead(m, k) = delay
  BY <1>1, <1>2, <1>5, <1>7, <1>8
<1>11. Without(l, m, k)
  BY <1>1, <1>2, <1>7, <1>9 DEF Without, Shorter
<1> QED
  BY <1>0, <1>1, <1>10, <1>11

(* chVTDoResetI takes a timer out; its delta goes to the next one, and the *)
(* others fire when they would: the sum does not wrap if no timer is       *)
(* further away than systime_t can tell.                                   *)
LEMMA DoResetOK ==
  ASSUME NEW l \in Seq(Entry), NEW t, IsArmed(l, t)
  PROVE  \E k \in 1 .. Len(l) :
           /\ l[k].vt = t /\ Shorter(DoReset(l, t), l, k)
           /\ Near(l) => Without(DoReset(l, t), l, k)
<1> DEFINE k == CHOOSE j \in Position(l, t) : TRUE
           sum == (l[k + 1].delta + l[k].delta) % SystimeMod
           rest == IF k = Len(l) THEN l
                   ELSE [l EXCEPT ![k + 1].delta = (@ + l[k].delta) % SystimeMod]
           m == RemoveAt(rest, k)
<1>0. DoReset(l, t) = m
  BY DEF DoReset
<1>1. k \in 1 .. Len(l) /\ l[k].vt = t
  <2>1. k \in Position(l, t)
    BY DEF IsArmed
  <2> HIDE DEF k
  <2> QED
    BY <2>1 DEF Position
<1> HIDE DEF k
<1>2. /\ Len(l) \in Nat /\ \A j \in 0 .. Len(l) : Ahead(l, j) \in Nat
      /\ Ahead(l, 0) = 0
      /\ \A j \in 1 .. Len(l) : Ahead(l, j) = Ahead(l, j - 1) + l[j].delta
  BY AheadGrows, AheadIsSum
<1>3. \A j \in 1 .. Len(l) : l[j] \in Entry /\ l[j].delta \in 0 .. SystimeMod - 1
  <2>1. \A j \in 1 .. Len(l) : l[j] \in Entry
    OBVIOUS
  <2> QED
    BY <2>1 DEF Entry
<1>40. ASSUME k < Len(l) PROVE sum \in 0 .. SystimeMod - 1
  <2>1. l[k].delta \in Nat /\ l[k + 1].delta \in Nat
    BY <1>1, <1>2, <1>3, <1>40
  <2>2. \A x \in Nat : x % SystimeMod \in 0 .. SystimeMod - 1
    OBVIOUS
  <2>3. l[k + 1].delta + l[k].delta \in Nat
    BY <2>1
  <2> QED
    BY <2>2, <2>3
<1>4. ASSUME k < Len(l), Near(l) PROVE sum = l[k + 1].delta + l[k].delta
  <2>1. k + 1 \in 1 .. Len(l) /\ k - 1 \in 0 .. Len(l)
    BY <1>1, <1>2, <1>4
  <2>2. Ahead(l, k + 1) = Ahead(l, k - 1) + l[k].delta + l[k + 1].delta
    BY <1>1, <1>2, <1>3, <2>1
  <2>3. l[k + 1].delta + l[k].delta \in 0 .. SystimeMod - 1
    <3>1. Ahead(l, k + 1) < SystimeMod
      BY <1>4, <2>1 DEF Near
    <3>2. Ahead(l, k - 1) \in Nat
      BY <1>2, <2>1
    <3>3. l[k].delta \in Nat /\ l[k + 1].delta \in Nat
      BY <1>1, <1>3, <2>1
    <3> QED
      BY <2>2, <3>1, <3>2, <3>3, SMTT(30)
  <2>4. \A x \in 0 .. SystimeMod - 1 : x % SystimeMod = x
    OBVIOUS
  <2> QED
    BY <2>3, <2>4
<1> HIDE DEF sum
<1>5. /\ rest \in Seq(Entry) /\ Len(rest) = Len(l)
      /\ \A j \in 1 .. Len(l) :
           /\ rest[j].vt = l[j].vt /\ rest[j].par = l[j].par
           /\ rest[j].delta = IF j = k + 1 THEN sum ELSE l[j].delta
  <2>1. CASE k = Len(l)
    BY <1>1, <1>2, <2>1
  <2>2. CASE k < Len(l)
    <3> DEFINE x == [l[k + 1] EXCEPT !.delta = (@ + l[k].delta) % SystimeMod]
    <3>1. k + 1 \in 1 .. Len(l) /\ l[k + 1] \in Entry /\ sum \in 0 .. SystimeMod - 1
      BY <1>1, <1>2, <1>3, <1>40, <2>2
    <3>2. x \in Entry /\ x.vt = l[k + 1].vt /\ x.par = l[k + 1].par /\ x.delta = sum
      BY <3>1 DEF Entry, sum
    <3>3. rest = [l EXCEPT ![k + 1] = x]
      BY <1>1, <1>2, <2>2
    <3> HIDE DEF x, rest
    <3> QED
      BY <1>1, <1>2, <3>1, <3>2, <3>3, SMTT(30)
  <2> QED
    BY <1>1, <1>2, <2>1, <2>2
<1> HIDE DEF rest
<1>6. /\ m \in Seq(Entry) /\ Len(m) = Len(l) - 1
      /\ \A j \in 1 .. Len(l) - 1 : m[j] = IF j < k THEN rest[j] ELSE rest[j + 1]
  <2>1. k \in 1 .. Len(rest) /\ Len(rest) = Len(l) /\ rest \in Seq(Entry)
    BY <1>1, <1>5
  <2> QED
    BY <2>1, Removed
<1> HIDE DEF m
<1> DEFINE g == [j \in 0 .. Len(l) - 1 |-> IF j < k THEN Ahead(l, j) ELSE Ahead(l, j + 1)]
<1>7. ASSUME Near(l) PROVE \A j \in 0 .. Len(m) : Ahead(m, j) = g[j]
  <2>1. g[0] = 0
    BY <1>1, <1>2
  <2>2. ASSUME NEW j \in 1 .. Len(m) PROVE g[j] = g[j - 1] + m[j].delta
    <3>1. CASE j < k
      <4>1. m[j].delta = l[j].delta
        <5>1. m[j] = rest[j] /\ j \in 1 .. Len(l) /\ j # k + 1
          BY <1>1, <1>2, <1>6, <2>2, <3>1
        <5> QED
          BY <1>5, <5>1
      <4>2. g[j] = Ahead(l, j) /\ g[j - 1] = Ahead(l, j - 1)
        BY <1>1, <1>2, <1>6, <3>1
      <4>3. j \in 1 .. Len(l)
        BY <1>2, <1>6
      <4>4. Ahead(l, j) = Ahead(l, j - 1) + l[j].delta
        BY <1>2, <4>3
      <4> HIDE DEF g
      <4> QED
        BY <4>1, <4>2, <4>4
    <3>2. CASE j = k
      <4>1. m[j].delta = sum /\ k + 1 \in 1 .. Len(l) /\ k < Len(l)
        <5>1. m[j] = rest[k + 1] /\ k + 1 \in 1 .. Len(l)
          BY <1>1, <1>2, <1>6, <2>2, <3>2
        <5> QED
          BY <1>1, <1>2, <1>5, <5>1
      <4>2. g[j] = Ahead(l, k + 1) /\ g[j - 1] = Ahead(l, k - 1)
        BY <1>1, <1>2, <1>6, <3>2
      <4>3. Ahead(l, k + 1) = Ahead(l, k - 1) + l[k].delta + l[k + 1].delta
        BY <1>1, <1>2, <1>3, <4>1, SMTT(30)
      <4>4. Ahead(l, k - 1) \in Nat /\ l[k].delta \in Nat /\ l[k + 1].delta \in Nat
        BY <1>1, <1>2, <1>3, <4>1
      <4> HIDE DEF g
      <4> QED
        BY <1>4, <1>7, <4>1, <4>2, <4>3, <4>4
    <3>3. CASE j > k
      <4>1. m[j].delta = l[j + 1].delta /\ j + 1 \in 1 .. Len(l)
        <5>1. j + 1 \in 1 .. Len(l) /\ j + 1 # k + 1 /\ j \in 1 .. Len(l) - 1 /\ ~(j < k)
          BY <1>1, <1>2, <1>6, <2>2, <3>3
        <5>2. m[j] = rest[j + 1]
          BY <1>6, <5>1
        <5> QED
          BY <1>5, <5>1, <5>2
      <4>2. g[j] = Ahead(l, j + 1) /\ g[j - 1] = Ahead(l, j)
        BY <1>1, <1>2, <1>6, <3>3
      <4> QED
        BY <1>2, <4>1, <4>2
    <3> QED
      BY <1>1, <1>6, <3>1, <3>2, <3>3
  <2> HIDE DEF g
  <2>3. Len(m) \in Nat /\ \A j \in 1 .. Len(m) : g[j] = g[j - 1] + m[j].delta
    BY <1>1, <1>2, <1>6, <2>2
  <2> QED
    BY <2>1, <2>3, AheadIsUnique
<1>8. \A j \in 1 .. Len(m) :
        LET r == IF j < k THEN j ELSE j + 1
        IN  /\ m[j].vt = l[r].vt /\ m[j].par = l[r].par
            /\ Near(l) => Ahead(m, j) = Ahead(l, r)
  <2> SUFFICES ASSUME NEW j \in 1 .. Len(m), NEW r, r = IF j < k THEN j ELSE j + 1
               PROVE  /\ m[j].vt = l[r].vt /\ m[j].par = l[r].par
                      /\ Near(l) => Ahead(m, j) = Ahead(l, r)
    OBVIOUS
  <2>1. r \in 1 .. Len(l) /\ m[j] = rest[r]
    BY <1>1, <1>2, <1>6
  <2>2. (Near(l) => Ahead(m, j) = g[j]) /\ g[j] = Ahead(l, r)
    BY <1>1, <1>2, <1>6, <1>7
  <2> QED
    BY <1>5, <2>1, <2>2
<1>9. Shorter(m, l, k) /\ (Near(l) => Without(m, l, k))
  BY <1>1, <1>6, <1>8 DEF Without, Shorter
<1> QED
  BY <1>0, <1>1, <1>9

(* The tick takes off a timer whose time has come. *)
LEMMA TailOK == ASSUME NEW l \in Seq(Entry), Due(l) PROVE Without(Tail(l), l, 1)
<1> DEFINE m == Tail(l)
<1>1. /\ m \in Seq(Entry) /\ Len(m) = Len(l) - 1 /\ Len(l) \in Nat /\ Len(l) >= 1
      /\ \A j \in 1 .. Len(m) : m[j] = l[j + 1]
  BY HeadTailProperties DEF Due
<1> HIDE DEF m
<1>2. /\ \A j \in 0 .. Len(l) : Ahead(l, j) \in Nat
      /\ Ahead(l, 0) = 0 /\ l[1].delta = 0
      /\ \A j \in 1 .. Len(l) : Ahead(l, j) = Ahead(l, j - 1) + l[j].delta
  <2>1. \A j \in 0 .. Len(l) : Ahead(l, j) \in Nat
    BY AheadGrows
  <2>2. l[1].delta = 0
    BY DEF Due
  <2>3. Ahead(l, 0) = 0 /\ \A j \in 1 .. Len(l) : Ahead(l, j) = Ahead(l, j - 1) + l[j].delta
    BY <1>1, AheadIsSum
  <2> QED
    BY <2>1, <2>2, <2>3
<1> DEFINE g == [j \in 0 .. Len(m) |-> Ahead(l, j + 1)]
<1>3. g[0] = 0
  BY <1>1, <1>2
<1>4. Len(m) \in Nat /\ \A j \in 1 .. Len(m) : g[j] = g[j - 1] + m[j].delta
  <2>1. Len(m) \in Nat
    BY <1>1
  <2>2. ASSUME NEW j \in 1 .. Len(m) PROVE g[j] = g[j - 1] + m[j].delta
    <3>1. g[j] = Ahead(l, j + 1) /\ g[j - 1] = Ahead(l, j)
      BY <2>1
    <3>2. m[j].delta = l[j + 1].delta
      BY <1>1
    <3>3. j + 1 \in 1 .. Len(l)
      BY <1>1
    <3>4. Ahead(l, j + 1) = Ahead(l, j) + l[j + 1].delta
      BY <1>2, <3>3
    <3> HIDE DEF g
    <3> QED
      BY <3>1, <3>2, <3>4
  <2> HIDE DEF g
  <2> QED
    BY <2>1, <2>2
<1>5. \A j \in 1 .. Len(m) : g[j] = Ahead(l, j + 1)
  BY <1>1
<1> HIDE DEF g
<1>6. \A j \in 0 .. Len(m) : Ahead(m, j) = g[j]
  BY <1>3, <1>4, AheadIsUnique
<1>7. Without(m, l, 1)
  BY <1>1, <1>5, <1>6, SMTT(30) DEF Without, Shorter
<1> QED
  BY <1>7 DEF m

(* What an unsigned number is when one more than it is counted down. *)
LEMMA WrapsOnce ==
  ASSUME NEW M \in Nat \ {0}, NEW d \in 1 .. M - 1
  PROVE  (d + M - 1) % M = d - 1
<1> DEFINE x == d - 1
<1>1. x \in 0 .. M - 1 /\ d + M - 1 = x + M
  OBVIOUS
<1> HIDE DEF x
<1>2. (x + M) % M = x
  BY <1>1
<1> QED
  BY <1>1, <1>2 DEF x

(* Counting on modulo M. *)
LEMMA WrapsNext ==
  ASSUME NEW M \in Nat \ {0}, NEW x \in Nat
  PROVE  ((x % M) + 1) % M = (x + 1) % M
<1> DEFINE q == x \div M
           r == x % M
<1>1. q \in Int /\ r \in 0 .. M - 1 /\ x = q * M + r
  <2>1. x = M * (x \div M) + (x % M)
    OBVIOUS
  <2> QED
    BY <2>1
<1> HIDE DEF q, r
<1>2. CASE r + 1 < M
  <2>1. (r + 1) % M = r + 1
    BY <1>1, <1>2
  <2>2. (q * M + (r + 1)) % M = r + 1
    BY <1>1, <1>2
  <2> QED
    BY <1>1, <2>1, <2>2 DEF r
<1>3. CASE r + 1 = M
  <2>1. (q * M + M) % M = 0
    BY <1>1
  <2>2. M % M = 0
    OBVIOUS
  <2> QED
    BY <1>1, <1>3, <2>1, <2>2 DEF r
<1> QED
  BY <1>1, <1>2, <1>3

(* A tick changes one delta only, *)
LEMMA TickedShape ==
  ASSUME NEW l \in Seq(Entry)
  PROVE  /\ Ticked(l) \in Seq(Entry) /\ Len(Ticked(l)) = Len(l)
         /\ \A j \in 1 .. Len(l) :
              /\ Ticked(l)[j].vt = l[j].vt /\ Ticked(l)[j].par = l[j].par
              /\ Ticked(l)[j].delta = IF j = 1 THEN (l[1].delta + SystimeMod - 1) % SystimeMod
                                               ELSE l[j].delta
<1>1. CASE l = <<>>
  BY <1>1 DEF Ticked
<1>2. CASE l # <<>>
  <2> DEFINE y == (l[1].delta + SystimeMod - 1) % SystimeMod
             x == [l[1] EXCEPT !.delta = y]
             m == [l EXCEPT ![1] = x]
  <2>0. Ticked(l) = m
    BY <1>2 DEF Ticked
  <2>1. l[1] \in Entry /\ Len(l) \in Nat /\ 1 \in 1 .. Len(l)
    BY <1>2
  <2>2. l[1].delta \in Nat
    BY <1>2, <2>1 DEF Entry
  <2>3. y \in 0 .. SystimeMod - 1
    <3>1. \A z \in Nat : z % SystimeMod \in 0 .. SystimeMod - 1
      OBVIOUS
    <3>2. l[1].delta + SystimeMod - 1 \in Nat
      BY <2>2
    <3> QED
      BY <3>1, <3>2
  <2> HIDE DEF y
  <2>4. x \in Entry /\ x.vt = l[1].vt /\ x.par = l[1].par /\ x.delta = y
    BY <2>1, <2>3 DEF Entry
  <2> HIDE DEF x
  <2>5. /\ m \in Seq(Entry) /\ Len(m) = Len(l)
        /\ \A j \in 1 .. Len(l) : m[j] = IF j = 1 THEN x ELSE l[j]
    BY <2>1, <2>4
  <2> HIDE DEF m
  <2>6. \A j \in 1 .. Len(l) :
          /\ m[j].vt = l[j].vt /\ m[j].par = l[j].par
          /\ m[j].delta = IF j = 1 THEN y ELSE l[j].delta
    BY <2>4, <2>5
  <2> QED
    BY <2>0, <2>5, <2>6 DEF y
<1> QED
  BY <1>1, <1>2

(* and brings every timer one tick closer if none is due. *)
LEMMA TickedOK ==
  ASSUME NEW l \in Seq(Entry), ~Due(l)
  PROVE  \A j \in 1 .. Len(l) : Ahead(Ticked(l), j) = Ahead(l, j) - 1
<1>1. CASE l = <<>>
  BY <1>1
<1>2. CASE l # <<>>
  <2> DEFINE m == Ticked(l)
  <2>1. l[1] \in Entry /\ Len(l) \in Nat /\ 1 \in 1 .. Len(l)
    BY <1>2
  <2>2. l[1].delta \in 1 .. SystimeMod - 1
    BY <1>2, <2>1 DEF Due, Entry
  <2>3. (l[1].delta + SystimeMod - 1) % SystimeMod = l[1].delta - 1
    <3>1. \A d \in 1 .. SystimeMod - 1 : (d + SystimeMod - 1) % SystimeMod = d - 1
      BY WrapsOnce
    <3> QED
      BY <2>2, <3>1
  <2>4. /\ m \in Seq(Entry) /\ Len(m) = Len(l)
        /\ \A j \in 1 .. Len(l) : j # 1 => m[j].delta = l[j].delta
    BY TickedShape
  <2>5. m[1].delta = l[1].delta - 1
    <3>1. m[1].delta = (l[1].delta + SystimeMod - 1) % SystimeMod
      BY <2>1, TickedShape
    <3> QED
      BY <2>3, <3>1
  <2> HIDE DEF m
  <2>6. /\ \A j \in 0 .. Len(l) : Ahead(l, j) \in Nat
        /\ Ahead(l, 0) = 0
        /\ \A j \in 1 .. Len(l) : Ahead(l, j) = Ahead(l, j - 1) + l[j].delta
    BY AheadGrows, AheadIsSum
  <2> DEFINE g == [j \in 0 .. Len(l) |-> IF j = 0 THEN 0 ELSE Ahead(l, j) - 1]
  <2>7. \A j \in 1 .. Len(m) : g[j] = g[j - 1] + m[j].delta
    <3> SUFFICES ASSUME NEW j \in 1 .. Len(l) PROVE g[j] = g[j - 1] + m[j].delta
      BY <2>4
    <3>0. l[j].delta \in Nat
      <4>1. l[j] \in Entry
        OBVIOUS
      <4> QED
        BY <4>1 DEF Entry
    <3>1. CASE j = 1
      BY <2>1, <2>2, <2>5, <2>6, <3>1
    <3>2. CASE j > 1
      <4>1. g[j] = Ahead(l, j) - 1 /\ g[j - 1] = Ahead(l, j - 1) - 1
        BY <2>1, <3>2
      <4>2. m[j].delta = l[j].delta
        BY <2>4, <3>2
      <4>3. Ahead(l, j) = Ahead(l, j - 1) + l[j].delta /\ Ahead(l, j - 1) \in Nat
        BY <2>1, <2>6
      <4> HIDE DEF g
      <4> QED
        BY <3>0, <4>1, <4>2, <4>3
    <3> QED
      BY <3>1, <3>2
  <2>8. g[0] = 0 /\ \A j \in 1 .. Len(l) : g[j] = Ahead(l, j) - 1
    BY <2>1
  <2> HIDE DEF g
  <2>9. \A j \in 0 .. Len(m) : Ahead(m, j) = g[j]
    BY <2>1, <2>4, <2>7, <2>8, AheadIsUnique
  <2> QED
    BY <2>1, <2>4, <2>8, <2>9 DEF m
<1> QED
  BY <1>1, <1>2

-----------------------------------------------------------------------------
(* A timer is in the list once; those of the app come with a slot. *)
ListOK(l) ==
  /\ l \in Seq(Entry)
  /\ \A j, k \in 1 .. Len(l) : j # k => l[j].vt # l[k].vt
  /\ \A k \in 1 .. Len(l) :
       /\ l[k].vt \in Timer => l[k].par \in Slot
       /\ l[k].vt \in Sleeper => l[k].par = NoSlot

(* ArmedOwnsSlot for a list, a table of callbacks and a call of setTimer. *)
Owns(l, cb, st) ==
  /\ \A k \in 1 .. Len(l) : l[k].vt \in Timer =>
       /\ cb[l[k].par] # Null
       /\ \A j \in 1 .. Len(l) : j # k => l[j].par # l[k].par
       /\ st # NoSetting => st[2] # l[k].par
  /\ st # NoSetting => cb[st[2]] # Null

(* Which timers a list without one of them holds. *)
LEMMA ShorterHolds ==
  ASSUME NEW m, NEW l, NEW k, Shorter(m, l, k)
  PROVE  /\ \A j \in 1 .. Len(m) : \E r \in 1 .. Len(l) :
              r # k /\ m[j].vt = l[r].vt /\ m[j].par = l[r].par /\ r = IF j < k THEN j ELSE j + 1
         /\ \A r \in 1 .. Len(l) : r # k => \E j \in 1 .. Len(m) :
              m[j].vt = l[r].vt /\ m[j].par = l[r].par /\ r = IF j < k THEN j ELSE j + 1
<1>1. Len(m) \in Nat /\ Len(l) \in Nat /\ Len(m) = Len(l) - 1 /\ k \in 1 .. Len(l)
  BY DEF Shorter
<1>2. \A j \in 1 .. Len(m) :
        LET r == IF j < k THEN j ELSE j + 1 IN m[j].vt = l[r].vt /\ m[j].par = l[r].par
  BY DEF Shorter
<1>3. ASSUME NEW j \in 1 .. Len(m)
      PROVE  \E r \in 1 .. Len(l) :
               r # k /\ m[j].vt = l[r].vt /\ m[j].par = l[r].par /\ r = IF j < k THEN j ELSE j + 1
  <2> DEFINE r == IF j < k THEN j ELSE j + 1
  <2>1. r \in 1 .. Len(l) /\ r # k
    BY <1>1
  <2> QED
    BY <1>2, <2>1
<1>4. ASSUME NEW r \in 1 .. Len(l), r # k
      PROVE  \E j \in 1 .. Len(m) :
               m[j].vt = l[r].vt /\ m[j].par = l[r].par /\ r = IF j < k THEN j ELSE j + 1
  <2> DEFINE j == IF r < k THEN r ELSE r - 1
  <2>1. j \in 1 .. Len(m) /\ r = IF j < k THEN j ELSE j + 1
    BY <1>1, <1>4
  <2> HIDE DEF j
  <2>2. m[j].vt = l[r].vt /\ m[j].par = l[r].par
    BY <1>2, <2>1
  <2> QED
    BY <2>1, <2>2
<1> QED
  BY <1>3, <1>4

(* Taking a timer out disturbs no other. *)
LEMMA ShorterOK ==
  ASSUME NEW m, NEW l, NEW k, Shorter(m, l, k), ListOK(l), NEW cb, NEW st
  PROVE  /\ ListOK(m) /\ ~IsArmed(m, l[k].vt)
         /\ Owns(l, cb, st) => Owns(m, cb, st)
<1>1. m \in Seq(Entry) /\ k \in 1 .. Len(l) /\ Len(m) \in Nat
  BY DEF Shorter
<1>2. PICK at \in [1 .. Len(m) -> 1 .. Len(l)] :
        \A j \in 1 .. Len(m) :
          /\ at[j] # k /\ at[j] = IF j < k THEN j ELSE j + 1
          /\ m[j].vt = l[at[j]].vt /\ m[j].par = l[at[j]].par
  <2> DEFINE a == [j \in 1 .. Len(m) |-> IF j < k THEN j ELSE j + 1]
  <2>1. ASSUME NEW j \in 1 .. Len(m)
        PROVE  /\ a[j] \in 1 .. Len(l) /\ a[j] # k /\ a[j] = IF j < k THEN j ELSE j + 1
               /\ m[j].vt = l[a[j]].vt /\ m[j].par = l[a[j]].par
    <3>1. PICK r \in 1 .. Len(l) : /\ r # k /\ m[j].vt = l[r].vt /\ m[j].par = l[r].par
                                   /\ r = IF j < k THEN j ELSE j + 1
      BY ShorterHolds
    <3>2. a[j] = r
      BY <3>1
    <3> HIDE DEF a
    <3> QED
      BY <3>1, <3>2
  <2>2. a \in [1 .. Len(m) -> 1 .. Len(l)]
    BY <2>1
  <2> QED
    BY <2>1, <2>2
<1>3. ASSUME NEW j \in 1 .. Len(m), NEW r \in 1 .. Len(m), j # r PROVE at[j] # at[r]
  <2>1. (at[j] = IF j < k THEN j ELSE j + 1) /\ (at[r] = IF r < k THEN r ELSE r + 1)
    BY <1>2
  <2>2. j \in Nat /\ r \in Nat /\ k \in Nat
    BY <1>1
  <2> QED
    BY <1>3, <2>1, <2>2
<1>4. ListOK(m)
  <2>1. \A j, r \in 1 .. Len(m) : j # r => m[j].vt # m[r].vt
    BY <1>2, <1>3, SMTT(30) DEF ListOK
  <2>2. \A j \in 1 .. Len(m) :
          /\ m[j].vt \in Timer => m[j].par \in Slot
          /\ m[j].vt \in Sleeper => m[j].par = NoSlot
    BY <1>2 DEF ListOK
  <2> QED
    BY <1>1, <2>1, <2>2 DEF ListOK
<1>5. ~IsArmed(m, l[k].vt)
  <2>1. ASSUME NEW j \in 1 .. Len(m) PROVE m[j].vt # l[k].vt
    <3>1. at[j] \in 1 .. Len(l) /\ at[j] # k /\ m[j].vt = l[at[j]].vt
      BY <1>2
    <3> QED
      BY <1>1, <3>1 DEF ListOK
  <2> QED
    BY <1>1, <2>1 DEF IsArmed, Position
<1>6. ASSUME Owns(l, cb, st) PROVE Owns(m, cb, st)
  <2>1. ASSUME NEW h \in 1 .. Len(m), m[h].vt \in Timer
        PROVE  /\ cb[m[h].par] # Null
               /\ \A j \in 1 .. Len(m) : j # h => m[j].par # m[h].par
               /\ st # NoSetting => st[2] # m[h].par
    <3>1. at[h] \in 1 .. Len(l) /\ m[h].vt = l[at[h]].vt /\ m[h].par = l[at[h]].par
      BY <1>2
    <3>2. /\ cb[l[at[h]].par] # Null
          /\ \A j \in 1 .. Len(l) : j # at[h] => l[j].par # l[at[h]].par
          /\ st # NoSetting => st[2] # l[at[h]].par
      BY <1>6, <2>1, <3>1 DEF Owns
    <3>3. ASSUME NEW j \in 1 .. Len(m), j # h PROVE m[j].par # m[h].par
      <4>1. at[j] \in 1 .. Len(l) /\ at[j] # at[h] /\ m[j].par = l[at[j]].par
        BY <1>2, <1>3, <3>3
      <4> QED
        BY <3>1, <3>2, <4>1
    <3> QED
      BY <3>1, <3>2, <3>3
  <2> QED
    BY <1>6, <2>1 DEF Owns
<1> QED
  BY <1>4, <1>5, <1>6

(* chVTResetI *)
LEMMA ResetOK ==
  ASSUME NEW l, ListOK(l), NEW t, NEW cb, NEW st
  PROVE  /\ ListOK(Reset(l, t)) /\ ~IsArmed(Reset(l, t), t)
         /\ Owns(l, cb, st) => Owns(Reset(l, t), cb, st)
<1>1. CASE IsArmed(l, t)
  <2>1. PICK k \in 1 .. Len(l) : l[k].vt = t /\ Shorter(DoReset(l, t), l, k)
    BY <1>1, DoResetOK DEF ListOK
  <2> QED
    BY <1>1, <2>1, ShorterOK DEF Reset
<1>2. CASE ~IsArmed(l, t)
  BY <1>2 DEF Reset
<1> QED
  BY <1>1, <1>2

(* A timer that is not armed is linked in. *)
LEMMA LongerOK ==
  ASSUME NEW l, ListOK(l), NEW t \in Timer \cup Sleeper, ~IsArmed(l, t),
         NEW d \in 0 .. SystimeMod - 1, NEW par \in 0 .. Slots,
         t \in Timer => par \in Slot, t \in Sleeper => par = NoSlot, NEW cb
  PROVE  LET m == DoSet(l, t, d, par)
         IN  /\ ListOK(m)
             /\ \A st : t \in Timer /\ st = <<t, par>> /\ Owns(l, cb, st) => Owns(m, cb, NoSetting)
             /\ \A st : t \in Sleeper /\ Owns(l, cb, st) => Owns(m, cb, st)
<1> DEFINE m == DoSet(l, t, d, par)
<1>1. PICK k \in 1 .. Len(l) + 1 : Without(l, m, k) /\ m[k].vt = t /\ m[k].par = par
  <2>1. l \in Seq(Entry)
    BY DEF ListOK
  <2> QED
    BY <2>1, DoSetOK
<1> HIDE DEF m
<1>2. /\ Shorter(l, m, k) /\ m \in Seq(Entry) /\ k \in 1 .. Len(m) /\ Len(l) = Len(m) - 1
      /\ Len(m) \in Nat
  BY <1>1 DEF Without, Shorter
<1>3. \A j \in 1 .. Len(m) : j # k => \E r \in 1 .. Len(l) :
        m[j].vt = l[r].vt /\ m[j].par = l[r].par /\ j = IF r < k THEN r ELSE r + 1
  <2>0. Shorter(l, m, k)
    BY <1>2
  <2>1. \A r \in 1 .. Len(m) : r # k => \E j \in 1 .. Len(l) :
          l[j].vt = m[r].vt /\ l[j].par = m[r].par /\ r = IF j < k THEN j ELSE j + 1
    BY <2>0, ShorterHolds
  <2> QED
    BY <2>1
<1>4. \A r \in 1 .. Len(l) : l[r].vt # t
  BY DEF IsArmed, Position, ListOK
<1>5. ListOK(m)
  <2>1. ASSUME NEW j \in 1 .. Len(m), NEW h \in 1 .. Len(m), j # h PROVE m[j].vt # m[h].vt
    <3>1. CASE j = k \/ h = k
      BY <1>1, <1>3, <1>4, <2>1, <3>1
    <3>2. CASE j # k /\ h # k
      <4>1. PICK r \in 1 .. Len(l) : m[j].vt = l[r].vt /\ j = IF r < k THEN r ELSE r + 1
        BY <1>3, <3>2
      <4>2. PICK q \in 1 .. Len(l) : m[h].vt = l[q].vt /\ h = IF q < k THEN q ELSE q + 1
        BY <1>3, <3>2
      <4> QED
        BY <2>1, <4>1, <4>2 DEF ListOK
    <3> QED
      BY <3>1, <3>2
  <2>2. \A j \in 1 .. Len(m) :
          /\ m[j].vt \in Timer => m[j].par \in Slot
          /\ m[j].vt \in Sleeper => m[j].par = NoSlot
    BY <1>1, <1>3 DEF ListOK
  <2> QED
    BY <1>2, <2>1, <2>2 DEF ListOK
<1>6. ASSUME NEW st, NEW ns, Owns(l, cb, st), ns = NoSetting \/ ns = st,
             ns # NoSetting => cb[ns[2]] # Null,
             t \in Timer => st = <<t, par>> /\ ns = NoSetting
      PROVE  Owns(m, cb, ns)
  <2> SUFFICES ASSUME NEW h \in 1 .. Len(m), m[h].vt \in Timer
               PROVE  /\ cb[m[h].par] # Null
                      /\ \A j \in 1 .. Len(m) : j # h => m[j].par # m[h].par
                      /\ ns # NoSetting => ns[2] # m[h].par
    BY <1>6 DEF Owns
  <2>1. CASE h = k
    <3>1. t \in Timer /\ st = <<t, par>> /\ ns = NoSetting /\ m[h].par = par /\ par \in Slot
      BY <1>1, <1>6, <2>1
    <3>2. st # NoSetting /\ st[2] = par
      BY <3>1 DEF NoSetting
    <3>3. cb[par] # Null
      BY <1>6, <3>2 DEF Owns
    <3>4. \A r \in 1 .. Len(l) : l[r].par # par
      <4> TAKE r \in 1 .. Len(l)
      <4>1. CASE l[r].vt \in Timer
        BY <1>6, <3>2, <4>1 DEF Owns
      <4>2. CASE l[r].vt \in Sleeper
        BY <3>1, <4>2 DEF ListOK, NoSlot, Slot
      <4>3. l[r] \in Entry
        BY DEF ListOK
      <4> QED
        BY <4>1, <4>2, <4>3 DEF Entry
    <3> QED
      BY <1>3, <2>1, <3>1, <3>3, <3>4
  <2>2. CASE h # k
    <3>1. PICK r \in 1 .. Len(l) : /\ m[h].vt = l[r].vt /\ m[h].par = l[r].par
                                   /\ h = IF r < k THEN r ELSE r + 1
      BY <1>3, <2>2
    <3>2. l[r].vt \in Timer /\ l[r].par \in Slot
      BY <3>1 DEF ListOK
    <3>3. /\ cb[l[r].par] # Null
          /\ \A q \in 1 .. Len(l) : q # r => l[q].par # l[r].par
          /\ st # NoSetting => st[2] # l[r].par
      BY <1>6, <3>2 DEF Owns
    <3>4. ASSUME NEW j \in 1 .. Len(m), j # h PROVE m[j].par # m[h].par
      <4>1. CASE j = k /\ t \in Timer
        <5>1. st = <<t, par>>
          BY <1>6, <4>1
        <5>2. st # NoSetting /\ st[2] = par
          BY <5>1 DEF NoSetting
        <5> QED
          BY <1>1, <3>1, <3>3, <4>1, <5>2
      <4>2. CASE j = k /\ t \in Sleeper
        BY <1>1, <3>1, <3>2, <4>2 DEF NoSlot, Slot
      <4>3. CASE j # k
        <5>1. PICK q \in 1 .. Len(l) : m[j].par = l[q].par /\ j = IF q < k THEN q ELSE q + 1
          BY <1>3, <4>3
        <5> QED
          BY <3>1, <3>3, <3>4, <5>1
      <4> QED
        BY <4>1, <4>2, <4>3
    <3> QED
      BY <1>6, <3>1, <3>3, <3>4
  <2> QED
    BY <2>1, <2>2
<1>7. ASSUME NEW st, t \in Timer, st = <<t, par>>, Owns(l, cb, st) PROVE Owns(m, cb, NoSetting)
  BY <1>6, <1>7
<1>8. ASSUME NEW st, t \in Sleeper, Owns(l, cb, st) PROVE Owns(m, cb, st)
  <2>1. st # NoSetting => cb[st[2]] # Null
    BY <1>8 DEF Owns
  <2>2. t \notin Timer
    BY <1>8
  <2> QED
    BY <1>6, <1>8, <2>1, <2>2
<1> QED
  BY <1>5, <1>7, <1>8 DEF m

(* A tick keeps the timers. *)
LEMMA TickKeeps ==
  ASSUME NEW l, ListOK(l), NEW cb, NEW st
  PROVE  ListOK(Ticked(l)) /\ (Owns(l, cb, st) => Owns(Ticked(l), cb, st))
<1>1. /\ Ticked(l) \in Seq(Entry) /\ Len(Ticked(l)) = Len(l)
      /\ \A j \in 1 .. Len(l) : Ticked(l)[j].vt = l[j].vt /\ Ticked(l)[j].par = l[j].par
  BY TickedShape DEF ListOK
<1> QED
  BY <1>1 DEF ListOK, Owns

-----------------------------------------------------------------------------
Taken == Slots - Cardinality(FreeScheduled)

(* The variables but for the list, and with no bound on what is owed. *)
Plain ==
  /\ vtcallbacks \in [Slot -> Callback \cup {Null}]
  /\ firing \in BOOLEAN
  /\ scheduled \in [Slot -> Callback \cup {Null}]
  /\ num \in 0 .. CountMod - 1 /\ reg \in 0 .. CountMod - 1
  /\ pc \in {"app", "scan", "call", "load", "store"}
  /\ i \in 1 .. Slots + 1
  /\ setting \in {NoSetting} \cup (Timer \X Slot)
  /\ owed \in [Callback -> Int]
  /\ raced \in BOOLEAN

(* The interrupt runs on only while a timer is due. *)
FireInv == firing => Due(vtlist)

(* runCallbacks is at a slot, and holds the callback it calls there until  *)
(* it returns.                                                             *)
CallInv ==
  /\ pc \in {"call", "load", "store"} => i \in Slot
  /\ pc = "call" => scheduled[i] # Null

(* The counter, one too large until it is reduced. *)
CountInv ==
  ~raced =>
    /\ pc \notin {"load", "store"} => num = Taken
    /\ pc \in {"load", "store"} => num = (Taken + 1) % CountMod
    /\ pc = "store" => reg = num

ListInv == ListOK(vtlist) /\ FireInv /\ Owns(vtlist, vtcallbacks, setting)
TableInv == CallInv /\ CalledOnce /\ CountInv

Inv == Plain /\ ListInv /\ TableInv

(* Slots are finitely many. *)
LEMMA SlotsFinite ==
  /\ IsFiniteSet(Slot) /\ Cardinality(Slot) = Slots
  /\ \A S \in SUBSET Slot : IsFiniteSet(S) /\ Cardinality(S) \in 0 .. Slots
<1>1. IsFiniteSet(Slot) /\ Cardinality(Slot) = Slots
  <2>1. Slots \in Int /\ 1 \in Int /\ ~(1 > Slots) /\ Slots - 1 + 1 = Slots
    OBVIOUS
  <2> QED
    BY <2>1, FS_Interval DEF Slot
<1>2. ASSUME NEW S \in SUBSET Slot PROVE IsFiniteSet(S) /\ Cardinality(S) \in 0 .. Slots
  <2>1. IsFiniteSet(S) /\ Cardinality(S) <= Cardinality(Slot)
    BY <1>1, FS_Subset
  <2>2. Cardinality(S) \in Nat
    BY <2>1, FS_CardinalityType
  <2> QED
    BY <1>1, <2>1, <2>2
<1> QED
  BY <1>1, <1>2

(* The set that CalledOnce counts. *)
Waiting(c) == {s \in Slot : scheduled[s] = c /\ ~(pc = "call" /\ s = i)}

(* The invariant contains the properties. *)
LEMMA InvImplies == ASSUME Inv PROVE TypeOK /\ ArmedOwnsSlot /\ CalledOnce /\ CountIsExact
<1>1. ASSUME NEW c \in Callback PROVE owed[c] \in 0 .. Slots
  <2>1. Waiting(c) \in SUBSET Slot /\ owed[c] = Cardinality(Waiting(c))
    BY DEF Waiting, CalledOnce, Inv, TableInv
  <2> QED
    BY <2>1, SlotsFinite
<1>2. owed \in [Callback -> 0 .. Slots]
  BY <1>1 DEF Inv, Plain
<1>3. vtlist \in Seq([vt : Timer \cup Sleeper, delta : 0 .. SystimeMod - 1, par : 0 .. Slots])
  BY DEF Inv, ListInv, ListOK, Entry
<1>4. TypeOK
  BY <1>2, <1>3 DEF TypeOK, Inv, Plain
<1>5. ArmedOwnsSlot
  <2>1. DOMAIN vtlist = 1 .. Len(vtlist)
    BY DEF Inv, ListInv, ListOK
  <2>2. Owns(vtlist, vtcallbacks, setting)
    BY DEF Inv, ListInv
  <2> QED
    BY <2>1, <2>2 DEF ArmedOwnsSlot, Owns
<1> QED
  BY <1>4, <1>5 DEF CountIsExact, Inv, TableInv, CountInv, Taken

(* The timers start in a good state. *)
LEMMA InitOK == Init => Inv
<1> SUFFICES ASSUME Init PROVE Inv
  OBVIOUS
<1>1. Plain
  <2>1. 0 \in 0 .. CountMod - 1 /\ 1 \in 1 .. Slots + 1
    OBVIOUS
  <2>2. [c \in Callback |-> 0] \in [Callback -> Int]
    OBVIOUS
  <2>3. [r \in Slot |-> Null] \in [Slot -> Callback \cup {Null}]
    OBVIOUS
  <2> QED
    BY <2>1, <2>2, <2>3 DEF Init, Plain
<1>2. ListInv
  BY DEF Init, ListInv, ListOK, Owns, FireInv, NoSetting
<1>3. CallInv
  BY DEF Init, CallInv
<1>4. CalledOnce
  <2>1. ASSUME NEW c \in Callback PROVE owed[c] = Cardinality(Waiting(c))
    <3>1. Waiting(c) = {}
      BY DEF Init, Waiting
    <3> QED
      BY <3>1, FS_EmptySet DEF Init
  <2> QED
    BY <2>1 DEF CalledOnce, Waiting
<1>5. CountInv
  <2>1. FreeScheduled = Slot
    BY DEF Init, FreeScheduled
  <2>2. Taken = 0
    BY <2>1, SlotsFinite DEF Taken
  <2> QED
    BY <2>2 DEF Init, CountInv
<1> QED
  BY <1>1, <1>2, <1>3, <1>4, <1>5 DEF Inv, TableInv

-----------------------------------------------------------------------------
(* What setTimer, resetTimer, sleeping threads and the tick do to the list. *)
LEMMA ListStep == ASSUME Inv, [Next]_vars PROVE ListInv'
<1>0. Plain /\ ListOK(vtlist) /\ FireInv /\ Owns(vtlist, vtcallbacks, setting)
  BY DEF Inv, ListInv
<1>1. ASSUME NEW u \in Use, TakeSlot(u[1], u[2]) PROVE ListInv'
  <2>1. PICK s \in Slot : /\ vtcallbacks[s] = Null
                          /\ vtcallbacks' = [vtcallbacks EXCEPT ![s] = u[2]]
                          /\ setting' = <<u[1], s>>
    BY <1>1 DEF TakeSlot
  <2>2. u[2] \in Callback /\ vtlist' = vtlist /\ firing' = firing /\ setting = NoSetting
    BY <1>1 DEF TakeSlot, InApp
  <2>3. setting'[2] = s /\ vtcallbacks'[s] # Null
    BY <1>0, <2>1, <2>2 DEF Plain
  <2>4. ASSUME NEW k \in 1 .. Len(vtlist), vtlist[k].vt \in Timer
        PROVE  s # vtlist[k].par /\ vtcallbacks'[vtlist[k].par] # Null
    <3>1. vtlist[k].par \in Slot /\ vtcallbacks[vtlist[k].par] # Null
      BY <1>0, <2>4 DEF ListOK, Owns
    <3> QED
      BY <1>0, <2>1, <3>1 DEF Plain
  <2>5. Owns(vtlist', vtcallbacks', setting')
    BY <1>0, <2>2, <2>3, <2>4 DEF Owns
  <2> QED
    BY <1>0, <2>2, <2>5 DEF ListInv, FireInv
<1>2. ASSUME NEW d \in Delay, Arm(d) PROVE ListInv'
  <2> DEFINE t == setting[1]
             l == Reset(vtlist, t)
             par == setting[2]
  <2>1. /\ setting = <<t, par>> /\ t \in Timer /\ par \in Slot /\ setting' = NoSetting
        /\ vtcallbacks' = vtcallbacks /\ ~firing /\ ~firing' /\ d \in 0 .. SystimeMod - 1
    BY <1>0, <1>2 DEF Arm, Plain
  <2>2. vtlist' = DoSet(l, t, d, par)
    BY <1>2 DEF Arm, Set
  <2>3. ListOK(l) /\ ~IsArmed(l, t) /\ Owns(l, vtcallbacks, setting)
    BY <1>0, ResetOK
  <2> HIDE DEF l, t, par
  <2>4. t \notin Sleeper /\ par \in 0 .. Slots
    BY <2>1 DEF Slot
  <2>5. ListOK(vtlist') /\ Owns(vtlist', vtcallbacks, NoSetting)
    BY <2>1, <2>2, <2>3, <2>4, LongerOK
  <2> QED
    BY <2>1, <2>5 DEF ListInv, FireInv
<1>3. ASSUME NEW t \in Timer, ResetTimer(t) PROVE ListInv'
  BY <1>0, <1>3, ResetOK DEF ResetTimer, InApp, ListInv, FireInv
<1>4. ASSUME NEW t \in Sleeper, WakeEarly(t) PROVE ListInv'
  <2>1. vtlist' = Reset(vtlist, t)
    BY <1>4 DEF WakeEarly, Reset
  <2> QED
    BY <1>0, <1>4, <2>1, ResetOK DEF WakeEarly, ListInv, FireInv
<1>5. ASSUME NEW t \in Sleeper, NEW d \in Delay, Sleep(t, d) PROVE ListInv'
  <2>1. t \notin Timer /\ NoSlot \in 0 .. Slots /\ d \in 0 .. SystimeMod - 1
    BY DEF NoSlot
  <2>2. ListOK(vtlist') /\ Owns(vtlist', vtcallbacks, setting)
    BY <1>0, <1>5, <2>1, LongerOK DEF Sleep
  <2> QED
    BY <1>5, <2>2 DEF Sleep, ListInv, FireInv
<1>6. CASE Tick
  BY <1>0, <1>6, TickKeeps DEF Tick, ListInv, FireInv
<1>7. CASE Fire
  <2>1. Due(vtlist) /\ vtlist' = Tail(vtlist) /\ firing' = Due(vtlist') /\ setting' = setting
    BY <1>0, <1>7 DEF Fire, FireInv
  <2>2. Shorter(vtlist', vtlist, 1)
    BY <1>0, <2>1, TailOK DEF Without, ListOK
  <2>3. ListOK(vtlist') /\ Owns(vtlist', vtcallbacks, setting)
    BY <1>0, <2>2, ShorterOK
  <2> DEFINE s == vtlist[1].par
  <2>4. CASE s = NoSlot
    <3>1. vtcallbacks' = vtcallbacks
      BY <1>7, <2>4 DEF Fire
    <3> QED
      BY <2>1, <2>3, <3>1 DEF ListInv, FireInv
  <2>5. CASE s # NoSlot
    <3>1. vtcallbacks' = [vtcallbacks EXCEPT ![s] = Null]
      BY <1>7, <2>5 DEF Fire
    <3>2. 1 \in 1 .. Len(vtlist) /\ vtlist[1] \in Entry
      BY <1>0, <2>1 DEF Due, ListOK
    <3>3. vtlist[1].vt \in Timer
      BY <1>0, <2>5, <3>2 DEF ListOK, Entry
    <3>4. /\ \A j \in 1 .. Len(vtlist) : j # 1 => vtlist[j].par # s
          /\ setting # NoSetting => setting[2] # s
      BY <1>0, <3>2, <3>3 DEF Owns
    <3>5. \A j \in 1 .. Len(vtlist') : vtlist'[j].par # s
      <4>1. \A j \in 1 .. Len(vtlist') : \E r \in 1 .. Len(vtlist) :
              r # 1 /\ vtlist'[j].par = vtlist[r].par
        BY <2>2, ShorterHolds
      <4> QED
        BY <3>4, <4>1
    <3>6. Owns(vtlist', vtcallbacks', setting')
      <4>1. \A r \in Slot : r # s => vtcallbacks'[r] = vtcallbacks[r]
        BY <1>0, <3>1 DEF Plain
      <4>2. ASSUME NEW k \in 1 .. Len(vtlist'), vtlist'[k].vt \in Timer
            PROVE  vtcallbacks'[vtlist'[k].par] # Null
        <5>1. vtlist'[k].par \in Slot /\ vtlist'[k].par # s
          BY <2>3, <3>5, <4>2 DEF ListOK
        <5>2. vtcallbacks[vtlist'[k].par] # Null
          BY <2>3, <4>2 DEF Owns
        <5> QED
          BY <4>1, <5>1, <5>2
      <4>3. setting # NoSetting => vtcallbacks'[setting[2]] # Null
        <5>1. setting # NoSetting => setting[2] \in Slot /\ vtcallbacks[setting[2]] # Null
          BY <1>0 DEF Plain, Owns
        <5> QED
          BY <3>4, <4>1, <5>1
      <4> QED
        BY <2>1, <2>3, <4>2, <4>3 DEF Owns
    <3> QED
      BY <2>1, <2>3, <3>6 DEF ListInv, FireInv
  <2> QED
    BY <2>4, <2>5
<1>8. CASE RunCallbacks \/ Scan \/ ScanDone \/ Return \/ LoadCount \/ StoreCount \/ UNCHANGED vars
  <2>1. UNCHANGED <<vtlist, vtcallbacks, setting, firing>>
    BY <1>8 DEF RunCallbacks, Scan, ScanDone, Return, LoadCount, StoreCount, vars
  <2> QED
    BY <1>0, <2>1 DEF ListInv, FireInv
<1> QED
  BY <1>1, <1>2, <1>3, <1>4, <1>5, <1>6, <1>7, <1>8 DEF Next

-----------------------------------------------------------------------------
(* A callback is posted to a free slot, or dropped. *)
LEMMA PostOK ==
  ASSUME Inv, NEW c \in Callback, Post(c), UNCHANGED <<pc, i, reg>>
  PROVE  /\ scheduled' \in [Slot -> Callback \cup {Null}] /\ num' \in 0 .. CountMod - 1
         /\ owed' \in [Callback -> Int] /\ raced' \in BOOLEAN
         /\ TableInv'
<1>0. Plain /\ CallInv /\ CalledOnce /\ CountInv
  BY DEF Inv, TableInv
<1>1. CASE FreeScheduled = {}
  <2>1. UNCHANGED <<scheduled, num, owed, raced, pc, i, reg>>
    BY <1>1 DEF Post
  <2> QED
    BY <1>0, <2>1 DEF Plain, TableInv, CallInv, CalledOnce, CountInv, Taken, FreeScheduled
<1>2. CASE FreeScheduled # {}
  <2>1. PICK s \in FreeScheduled : scheduled' = [scheduled EXCEPT ![s] = c]
    BY <1>2 DEF Post
  <2>2. /\ num' = (num + 1) % CountMod
        /\ owed' = [owed EXCEPT ![c] = @ + 1]
        /\ raced' = (raced \/ pc = "store")
    BY <1>2 DEF Post
  <2>3. s \in Slot /\ scheduled[s] = Null
    BY <2>1 DEF FreeScheduled
  <2>4. num' \in 0 .. CountMod - 1
    <3>1. \A x \in Nat : x % CountMod \in 0 .. CountMod - 1
      OBVIOUS
    <3>2. num + 1 \in Nat
      BY <1>0 DEF Plain
    <3> QED
      BY <2>2, <3>1, <3>2
  <2>5. CallInv'
    BY <1>0, <2>1, <2>3 DEF Plain, CallInv
  <2>6. CalledOnce'
    <3> SUFFICES ASSUME NEW a \in Callback PROVE owed'[a] = Cardinality(Waiting(a)')
      BY DEF CalledOnce, Waiting
    <3>1. owed[a] = Cardinality(Waiting(a)) /\ IsFiniteSet(Waiting(a))
      BY <1>0, SlotsFinite DEF CalledOnce, Waiting
    <3>2. CASE a = c
      <4>1. Waiting(a)' = Waiting(a) \cup {s} /\ s \notin Waiting(a)
        BY <1>0, <2>1, <2>3, <3>2 DEF Waiting, Plain, CallInv
      <4>2. Cardinality(Waiting(a) \cup {s}) = Cardinality(Waiting(a)) + 1
        BY <3>1, <4>1, FS_AddElement
      <4>3. owed'[a] = owed[a] + 1
        BY <1>0, <2>2, <3>2 DEF Plain
      <4> QED
        BY <3>1, <4>1, <4>2, <4>3
    <3>3. CASE a # c
      <4>1. Waiting(a)' = Waiting(a)
        BY <1>0, <2>1, <2>3, <3>3 DEF Waiting, Plain
      <4>2. owed'[a] = owed[a]
        BY <1>0, <2>2, <3>3 DEF Plain
      <4> QED
        BY <3>1, <4>1, <4>2
    <3> QED
      BY <3>2, <3>3
  <2>7. CountInv'
    <3>1. FreeScheduled' = FreeScheduled \ {s}
      BY <1>0, <2>1, <2>3 DEF FreeScheduled, Plain
    <3>2. FreeScheduled \in SUBSET Slot /\ FreeScheduled' \in SUBSET Slot
      BY DEF FreeScheduled
    <3>3. Cardinality(FreeScheduled') = Cardinality(FreeScheduled) - 1
      BY <2>1, <3>1, <3>2, SlotsFinite, FS_RemoveElement
    <3>4. Taken' = Taken + 1 /\ Taken' \in 0 .. Slots /\ Taken \in 0 .. Slots
      <4>1. Cardinality(FreeScheduled) \in 0 .. Slots /\ Cardinality(FreeScheduled') \in 0 .. Slots
        BY <3>2, SlotsFinite
      <4> QED
        BY <3>3, <4>1 DEF Taken
    <3>5. ASSUME ~raced, pc \notin {"load", "store"} PROVE num' = Taken'
      <4>1. num = Taken
        BY <1>0, <3>5 DEF CountInv
      <4>2. \A x \in 0 .. Slots : x % CountMod = x
        OBVIOUS
      <4> QED
        BY <2>2, <3>4, <4>1, <4>2
    <3>6. ASSUME ~raced, pc = "load" PROVE num' = (Taken' + 1) % CountMod
      <4>1. num = (Taken + 1) % CountMod
        BY <1>0, <3>6 DEF CountInv
      <4>2. \A x \in Nat : ((x % CountMod) + 1) % CountMod = (x + 1) % CountMod
        <5>1. CountMod \in Nat \ {0}
          OBVIOUS
        <5> QED
          BY <5>1, WrapsNext
      <4> QED
        BY <2>2, <3>4, <4>1, <4>2
    <3> QED
      BY <1>0, <2>2, <3>5, <3>6 DEF CountInv, Plain
  <2>8. scheduled' \in [Slot -> Callback \cup {Null}]
    BY <1>0, <2>1 DEF Plain
  <2>9. owed' \in [Callback -> Int] /\ raced' \in BOOLEAN
    BY <1>0, <2>2 DEF Plain
  <2> QED
    BY <2>4, <2>5, <2>6, <2>7, <2>8, <2>9 DEF TableInv
<1> QED
  BY <1>1, <1>2

(* The tables and the counter over a step of the thread or the interrupt. *)
LEMMA TableStep == ASSUME Inv, [Next]_vars PROVE Plain' /\ TableInv'
<1>0. Plain /\ CallInv /\ CalledOnce /\ CountInv
  BY DEF Inv, TableInv
<1>1. ASSUME NEW u \in Use, TakeSlot(u[1], u[2]) PROVE Plain' /\ TableInv'
  <2>1. PICK s \in Slot : /\ vtcallbacks' = [vtcallbacks EXCEPT ![s] = u[2]]
                          /\ setting' = <<u[1], s>>
    BY <1>1 DEF TakeSlot
  <2>2. u[1] \in Timer /\ u[2] \in Callback
    OBVIOUS
  <2>3. UNCHANGED <<vtlist, firing, scheduled, num, pc, i, reg, owed, raced>>
    BY <1>1 DEF TakeSlot
  <2>4. Plain'
    BY <1>0, <2>1, <2>2, <2>3 DEF Plain
  <2> QED
    BY <1>0, <2>3, <2>4 DEF TableInv, CallInv, CalledOnce, CountInv, Taken, FreeScheduled
<1>2. ASSUME UNCHANGED <<vtcallbacks, scheduled, num, pc, i, reg, owed, raced>>,
             firing' \in BOOLEAN, setting' \in {NoSetting, setting}
      PROVE  Plain' /\ TableInv'
  <2>1. Plain'
    BY <1>0, <1>2 DEF Plain
  <2> QED
    BY <1>0, <1>2, <2>1 DEF TableInv, CallInv, CalledOnce, CountInv, Taken, FreeScheduled
<1>3. ASSUME \/ \E d \in Delay : Arm(d)
             \/ \E t \in Timer : ResetTimer(t)
             \/ \E t \in Sleeper : WakeEarly(t) \/ \E d \in Delay : Sleep(t, d)
             \/ Tick \/ UNCHANGED vars
      PROVE  Plain' /\ TableInv'
  <2>1. /\ UNCHANGED <<vtcallbacks, scheduled, num, pc, i, reg, owed, raced>>
        /\ setting' \in {NoSetting, setting}
    BY <1>3 DEF Arm, ResetTimer, WakeEarly, Sleep, Tick, vars
  <2>2. firing' = firing \/ firing' = Due(vtlist')
    BY <1>3 DEF Arm, ResetTimer, WakeEarly, Sleep, Tick, vars
  <2>3. firing' \in BOOLEAN
    BY <1>0, <2>2 DEF Plain, Due
  <2> QED
    BY <1>2, <2>1, <2>3
<1>4. CASE Fire
  <2>1. UNCHANGED <<pc, i, reg, setting>> /\ firing' \in BOOLEAN
    BY <1>4 DEF Fire, Due
  <2> DEFINE s == vtlist[1].par
  <2>2. CASE s = NoSlot
    <3>1. UNCHANGED <<vtcallbacks, scheduled, num, owed, raced>>
      BY <1>4, <2>2 DEF Fire
    <3> QED
      BY <1>2, <2>1, <3>1
  <2>3. CASE s # NoSlot
    <3>1. vtcallbacks' = [vtcallbacks EXCEPT ![s] = Null] /\ Post(vtcallbacks[s])
      BY <1>4, <2>3 DEF Fire
    <3>2. vtcallbacks[s] \in Callback
      <4>1. ListOK(vtlist) /\ Owns(vtlist, vtcallbacks, setting) /\ Due(vtlist)
        BY <1>4 DEF Inv, ListInv, FireInv, Fire
      <4>2. 1 \in 1 .. Len(vtlist) /\ vtlist[1] \in Entry
        BY <4>1 DEF Due, ListOK
      <4>3. vtlist[1].vt \in Timer
        BY <2>3, <4>1, <4>2 DEF ListOK, Entry
      <4>4. s \in Slot /\ vtcallbacks[s] # Null
        BY <4>1, <4>2, <4>3 DEF ListOK, Owns
      <4> QED
        BY <1>0, <4>4 DEF Plain
    <3>3. /\ scheduled' \in [Slot -> Callback \cup {Null}] /\ num' \in 0 .. CountMod - 1
          /\ owed' \in [Callback -> Int] /\ raced' \in BOOLEAN
          /\ TableInv'
      BY <2>1, <3>1, <3>2, PostOK
    <3>4. vtcallbacks' \in [Slot -> Callback \cup {Null}]
      BY <1>0, <3>1 DEF Plain
    <3>5. Plain'
      BY <1>0, <2>1, <3>3, <3>4 DEF Plain
    <3> QED
      BY <3>3, <3>5
  <2> QED
    BY <2>2, <2>3
<1>5. CASE RunCallbacks \/ ScanDone
  <2>1. /\ UNCHANGED <<vtcallbacks, firing, scheduled, num, reg, setting, owed, raced>>
        /\ pc \in {"app", "scan"} /\ pc' \in {"app", "scan"} /\ i' = 1
    BY <1>5 DEF RunCallbacks, ScanDone
  <2>2. Plain'
    BY <1>0, <2>1 DEF Plain
  <2> QED
    BY <1>0, <2>1, <2>2 DEF TableInv, CallInv, CalledOnce, CountInv, Taken, FreeScheduled
<1>6. CASE Scan
  <2>0. /\ UNCHANGED <<vtcallbacks, firing, scheduled, num, reg, setting, raced>>
        /\ pc = "scan" /\ i \in Slot
    BY <1>0, <1>6 DEF Scan, Plain, Slot
  <2>1. CASE scheduled[i] = Null
    <3>1. i' = i + 1 /\ UNCHANGED <<pc, owed>>
      BY <1>6, <2>1 DEF Scan
    <3>2. Plain'
      BY <1>0, <2>0, <3>1 DEF Plain, Slot
    <3> QED
      BY <1>0, <2>0, <3>1, <3>2 DEF TableInv, CallInv, CalledOnce, CountInv, Taken, FreeScheduled
  <2>2. CASE scheduled[i] # Null
    <3>1. pc' = "call" /\ i' = i /\ owed' = [owed EXCEPT ![scheduled[i]] = @ - 1]
      BY <1>6, <2>2 DEF Scan
    <3>2. Plain'
      <4>1. scheduled[i] \in Callback
        BY <1>0, <2>0, <2>2 DEF Plain
      <4>2. owed' \in [Callback -> Int]
        BY <1>0, <3>1, <4>1 DEF Plain
      <4> QED
        BY <1>0, <2>0, <3>1, <4>2 DEF Plain
    <3>3. CallInv'
      BY <2>0, <2>2, <3>1 DEF CallInv
    <3>4. CountInv'
      BY <1>0, <2>0, <3>1 DEF CountInv, Taken, FreeScheduled
    <3>5. CalledOnce'
      <4> SUFFICES ASSUME NEW a \in Callback PROVE owed'[a] = Cardinality(Waiting(a)')
        BY DEF CalledOnce, Waiting
      <4>1. owed[a] = Cardinality(Waiting(a)) /\ IsFiniteSet(Waiting(a))
        BY <1>0, SlotsFinite DEF CalledOnce, Waiting
      <4>2. CASE a = scheduled[i]
        <5>1. Waiting(a)' = Waiting(a) \ {i} /\ i \in Waiting(a)
          BY <2>0, <3>1, <4>2 DEF Waiting
        <5>2. Cardinality(Waiting(a) \ {i}) = Cardinality(Waiting(a)) - 1
          BY <4>1, <5>1, FS_RemoveElement
        <5>3. owed'[a] = owed[a] - 1
          BY <1>0, <3>1, <4>2 DEF Plain
        <5> QED
          BY <4>1, <5>1, <5>2, <5>3
      <4>3. CASE a # scheduled[i]
        <5>1. Waiting(a)' = Waiting(a)
          BY <2>0, <3>1, <4>3 DEF Waiting
        <5>2. owed'[a] = owed[a]
          BY <1>0, <3>1, <4>3 DEF Plain
        <5> QED
          BY <4>1, <5>1, <5>2
      <4> QED
        BY <4>2, <4>3
    <3> QED
      BY <3>2, <3>3, <3>4, <3>5 DEF TableInv
  <2> QED
    BY <2>1, <2>2
<1>7. CASE Return
  <2>1. /\ UNCHANGED <<vtcallbacks, firing, num, i, reg, setting, owed, raced>>
        /\ pc = "call" /\ pc' = "load" /\ scheduled' = [scheduled EXCEPT ![i] = Null]
    BY <1>7 DEF Return
  <2>2. i \in Slot /\ scheduled[i] # Null
    BY <1>0, <2>1 DEF CallInv
  <2>3. Plain'
    BY <1>0, <2>1, <2>2 DEF Plain
  <2>4. CalledOnce'
    <3> SUFFICES ASSUME NEW a \in Callback PROVE owed'[a] = Cardinality(Waiting(a)')
      BY DEF CalledOnce, Waiting
    <3>1. Waiting(a)' = Waiting(a)
      BY <1>0, <2>1, <2>2 DEF Waiting, Plain
    <3> QED
      BY <1>0, <2>1, <3>1 DEF CalledOnce, Waiting
  <2>5. CountInv'
    <3>1. FreeScheduled' = FreeScheduled \cup {i} /\ i \notin FreeScheduled
      BY <1>0, <2>1, <2>2 DEF FreeScheduled, Plain
    <3>2. FreeScheduled \in SUBSET Slot /\ FreeScheduled' \in SUBSET Slot
      BY DEF FreeScheduled
    <3>3. Cardinality(FreeScheduled') = Cardinality(FreeScheduled) + 1
      BY <3>1, <3>2, SlotsFinite, FS_AddElement
    <3>4. Taken = Taken' + 1 /\ Taken \in 0 .. Slots
      <4>1. Cardinality(FreeScheduled) \in 0 .. Slots /\ Cardinality(FreeScheduled') \in 0 .. Slots
        BY <3>2, SlotsFinite
      <4> QED
        BY <3>3, <4>1 DEF Taken
    <3>5. \A x \in 0 .. Slots : x % CountMod = x
      OBVIOUS
    <3>6. ~raced => num = (Taken' + 1) % CountMod
      BY <1>0, <2>1, <3>4, <3>5 DEF CountInv
    <3> QED
      BY <2>1, <3>6 DEF CountInv
  <2>6. CallInv'
    BY <2>1, <2>2 DEF CallInv
  <2> QED
    BY <2>3, <2>4, <2>5, <2>6 DEF TableInv
<1>8. CASE LoadCount
  <2>1. /\ UNCHANGED <<vtcallbacks, firing, scheduled, num, i, setting, owed, raced>>
        /\ pc = "load" /\ pc' = "store" /\ reg' = num
    BY <1>8 DEF LoadCount
  <2>2. Plain'
    BY <1>0, <2>1 DEF Plain
  <2> QED
    BY <1>0, <2>1, <2>2 DEF TableInv, CallInv, CalledOnce, CountInv, Taken, FreeScheduled
<1>9. CASE StoreCount
  <2>1. /\ UNCHANGED <<vtcallbacks, firing, scheduled, reg, setting, owed, raced>>
        /\ pc = "store" /\ pc' = "scan" /\ i' = i + 1
        /\ num' = (reg + CountMod - 1) % CountMod
    BY <1>9 DEF StoreCount
  <2>2. i \in Slot
    BY <1>0, <2>1 DEF CallInv
  <2>3. num' \in 0 .. CountMod - 1
    <3>1. \A x \in Nat : x % CountMod \in 0 .. CountMod - 1
      OBVIOUS
    <3>2. reg + CountMod - 1 \in Nat
      BY <1>0 DEF Plain
    <3> QED
      BY <2>1, <3>1, <3>2
  <2>4. Plain'
    BY <1>0, <2>1, <2>2, <2>3 DEF Plain, Slot
  <2>5. ASSUME ~raced PROVE num' = Taken
    <3>1. reg = (Taken + 1) % CountMod
      BY <1>0, <2>1, <2>5 DEF CountInv
    <3>2. Taken \in 0 .. Slots
      <4>1. Cardinality(FreeScheduled) \in 0 .. Slots
        BY SlotsFinite DEF FreeScheduled
      <4> QED
        BY <4>1 DEF Taken
    <3>3. CASE Taken + 1 < CountMod
      <4>1. reg = Taken + 1
        <5>1. \A x \in 0 .. CountMod - 1 : x % CountMod = x
          OBVIOUS
        <5> QED
          BY <3>1, <3>2, <3>3, <5>1
      <4>2. reg \in 1 .. CountMod - 1 /\ CountMod \in Nat \ {0}
        BY <3>2, <3>3, <4>1
      <4>3. (reg + CountMod - 1) % CountMod = reg - 1
        BY <4>2, WrapsOnce
      <4> QED
        BY <2>1, <3>2, <4>1, <4>3
    <3>4. CASE Taken + 1 = CountMod
      <4>1. reg = 0
        <5>1. CountMod % CountMod = 0
          OBVIOUS
        <5> QED
          BY <3>1, <3>4, <5>1
      <4>2. (CountMod - 1) % CountMod = CountMod - 1
        OBVIOUS
      <4> QED
        BY <2>1, <3>2, <3>4, <4>1, <4>2
    <3> QED
      BY <3>2, <3>3, <3>4
  <2>6. CountInv'
    <3>1. Taken' = Taken
      BY <2>1 DEF Taken, FreeScheduled
    <3> QED
      BY <2>1, <2>5, <3>1 DEF CountInv
  <2>7. CallInv' /\ CalledOnce'
    BY <1>0, <2>1 DEF CallInv, CalledOnce
  <2> QED
    BY <2>4, <2>6, <2>7 DEF TableInv
<1> QED
  BY <1>1, <1>3, <1>4, <1>5, <1>6, <1>7, <1>8, <1>9 DEF Next

(* Inv is an invariant of the timers. *)
LEMMA Invariance == Spec => []Inv
<1>1. Inv /\ [Next]_vars => Inv'
  BY ListStep, TableStep DEF Inv
<1> QED
  BY <1>1, InitOK, PTL DEF Spec

(* The variables keep their types; in particular no delta of the list      *)
(* leaves systime_t and the counter of callbacks stays in its width.       *)
THEOREM TypeCorrect == Spec => []TypeOK
<1>1. Inv => TypeOK
  BY InvImplies
<1> QED
  BY <1>1, Invariance, PTL

(* A timer that setTimer armed, or is about to arm, owns a slot of         *)
(* vtcallbacks that holds its callback until the interrupt takes it.       *)
THEOREM SlotIsOwned == Spec => []ArmedOwnsSlot
<1>1. Inv => ArmedOwnsSlot
  BY InvImplies
<1> QED
  BY <1>1, Invariance, PTL

(* runCallbacks calls what the interrupt posted to scheduled_callbacks     *)
(* once, whenever timers fire during its scan.                             *)
THEOREM CallsAreExact == Spec => []CalledOnce
<1>1. Inv => CalledOnce
  BY InvImplies
<1> QED
  BY <1>1, Invariance, PTL

(* num_scheduled_callbacks counts the slots that are taken, as long as no  *)
(* timer fires between its load and its store.                             *)
THEOREM CounterIsExact == Spec => []CountIsExact
<1>1. Inv => CountIsExact
  BY InvImplies
<1> QED
  BY <1>1, Invariance, PTL

-----------------------------------------------------------------------------
(* The countdowns of a list. *)
LEMMA LeftOf ==
  ASSUME NEW l, ListOK(l)
  PROVE  /\ \A k \in 1 .. Len(l) : /\ l[k].vt \in Timer \cup Sleeper
                                   /\ TicksLeft(l)[l[k].vt] = Ahead(l, k) /\ Ahead(l, k) \in Nat
         /\ \A t \in Timer \cup Sleeper :
              (\A k \in 1 .. Len(l) : l[k].vt # t) => TicksLeft(l)[t] = -1
<1>1. l \in Seq(Entry) /\ DOMAIN l = 1 .. Len(l) /\ Len(l) \in Nat
  BY DEF ListOK
<1>2. ASSUME NEW k \in 1 .. Len(l)
      PROVE  /\ l[k].vt \in Timer \cup Sleeper
             /\ TicksLeft(l)[l[k].vt] = Ahead(l, k) /\ Ahead(l, k) \in Nat
  <2>1. l[k].vt \in Timer \cup Sleeper
    <3>1. l[k] \in Entry
      BY <1>1
    <3> QED
      BY <3>1 DEF Entry
  <2>2. Position(l, l[k].vt) = {k}
    BY <1>1 DEF Position, ListOK
  <2>3. IsArmed(l, l[k].vt) /\ (CHOOSE j \in Position(l, l[k].vt) : TRUE) = k
    BY <2>2 DEF IsArmed
  <2>4. TicksLeft(l)[l[k].vt] = Ahead(l, k)
    BY <2>1, <2>3 DEF TicksLeft
  <2> QED
    BY <1>1, <2>1, <2>4, AheadGrows
<1>3. ASSUME NEW t \in Timer \cup Sleeper, \A k \in 1 .. Len(l) : l[k].vt # t
      PROVE  TicksLeft(l)[t] = -1
  <2>1. ~IsArmed(l, t)
    BY <1>1, <1>3 DEF IsArmed, Position
  <2> QED
    BY <2>1 DEF TicksLeft
<1> QED
  BY <1>2, <1>3

(* A timer taken out or linked in leaves the other countdowns alone. *)
LEMMA WithoutLeft ==
  ASSUME NEW m, NEW l, NEW k, Without(m, l, k), ListOK(l)
  PROVE  /\ TicksLeft(m) = [TicksLeft(l) EXCEPT ![l[k].vt] = -1]
         /\ TicksLeft(l) = [TicksLeft(m) EXCEPT ![l[k].vt] = Ahead(l, k)]
         /\ Near(l) => Near(m)
         /\ Near(m) /\ Ahead(l, k) < SystimeMod => Near(l)
<1>0. Shorter(m, l, k)
  BY DEF Without
<1>1. /\ Shorter(m, l, k) /\ k \in 1 .. Len(l) /\ Len(l) \in Nat /\ Len(m) \in Nat
      /\ Len(m) = Len(l) - 1
      /\ \A j \in 1 .. Len(m) : Ahead(m, j) = Ahead(l, IF j < k THEN j ELSE j + 1)
  BY DEF Without, Shorter
<1>2. ListOK(m) /\ ~IsArmed(m, l[k].vt)
  BY <1>1, ShorterOK
<1>3. DOMAIN TicksLeft(m) = Timer \cup Sleeper /\ DOMAIN TicksLeft(l) = Timer \cup Sleeper
  BY DEF TicksLeft
<1>4. l[k].vt \in Timer \cup Sleeper /\ TicksLeft(l)[l[k].vt] = Ahead(l, k)
  BY <1>1, LeftOf
<1>5. TicksLeft(m)[l[k].vt] = -1
  BY <1>2, <1>4 DEF TicksLeft
<1>6. \A r \in 1 .. Len(l) : r # k => \E j \in 1 .. Len(m) :
        m[j].vt = l[r].vt /\ Ahead(m, j) = Ahead(l, r)
  <2>1. \A r \in 1 .. Len(l) : r # k => \E j \in 1 .. Len(m) :
          m[j].vt = l[r].vt /\ m[j].par = l[r].par /\ r = IF j < k THEN j ELSE j + 1
    BY <1>0, ShorterHolds
  <2> QED
    BY <1>1, <2>1
<1>7. \A j \in 1 .. Len(m) : \E r \in 1 .. Len(l) :
        r # k /\ m[j].vt = l[r].vt /\ Ahead(m, j) = Ahead(l, r)
  <2>1. \A j \in 1 .. Len(m) : \E r \in 1 .. Len(l) :
          r # k /\ m[j].vt = l[r].vt /\ m[j].par = l[r].par /\ r = IF j < k THEN j ELSE j + 1
    BY <1>0, ShorterHolds
  <2> QED
    BY <1>1, <2>1
<1>8. ASSUME NEW t \in Timer \cup Sleeper, t # l[k].vt PROVE TicksLeft(m)[t] = TicksLeft(l)[t]
  <2>1. CASE \E r \in 1 .. Len(l) : l[r].vt = t
    <3>1. PICK r \in 1 .. Len(l) : l[r].vt = t
      BY <2>1
    <3>2. PICK j \in 1 .. Len(m) : m[j].vt = t /\ Ahead(m, j) = Ahead(l, r)
      BY <1>6, <1>8, <3>1
    <3>3. TicksLeft(l)[t] = Ahead(l, r)
      BY <3>1, LeftOf
    <3>4. TicksLeft(m)[t] = Ahead(m, j)
      BY <1>2, <3>2, LeftOf
    <3> QED
      BY <3>2, <3>3, <3>4
  <2>2. CASE \A r \in 1 .. Len(l) : l[r].vt # t
    <3>1. \A j \in 1 .. Len(m) : m[j].vt # t
      BY <1>7, <2>2
    <3>2. TicksLeft(l)[t] = -1
      BY <2>2, LeftOf
    <3>3. TicksLeft(m)[t] = -1
      BY <1>2, <3>1, LeftOf
    <3> QED
      BY <3>2, <3>3
  <2> QED
    BY <2>1, <2>2
<1>9. Near(l) => Near(m)
  BY <1>7 DEF Near
<1>10. Near(m) /\ Ahead(l, k) < SystimeMod => Near(l)
  BY <1>6 DEF Near
<1>11. TicksLeft(m) \in [Timer \cup Sleeper -> Int]
  <2>1. ASSUME NEW t \in Timer \cup Sleeper PROVE TicksLeft(m)[t] \in Int
    <3>1. CASE \E j \in 1 .. Len(m) : m[j].vt = t
      BY <1>2, <3>1, LeftOf
    <3>2. CASE \A j \in 1 .. Len(m) : m[j].vt # t
      BY <1>2, <3>2, LeftOf
    <3> QED
      BY <3>1, <3>2
  <2> QED
    BY <2>1 DEF TicksLeft
<1> DEFINE L == TicksLeft(l)
           M == TicksLeft(m)
<1>12. L = [t \in Timer \cup Sleeper |-> L[t]] /\ M = [t \in Timer \cup Sleeper |-> M[t]]
  BY DEF TicksLeft
<1> HIDE DEF L, M
<1>13. \A t \in Timer \cup Sleeper : t # l[k].vt => M[t] = L[t]
  BY <1>8 DEF L, M
<1>14. M[l[k].vt] = -1 /\ L[l[k].vt] = Ahead(l, k)
  BY <1>4, <1>5 DEF L, M
<1>15. M = [L EXCEPT ![l[k].vt] = -1] /\ L = [M EXCEPT ![l[k].vt] = Ahead(l, k)]
  BY <1>4, <1>12, <1>13, <1>14
<1> QED
  BY <1>9, <1>10, <1>15 DEF L, M

(* The interrupt has timers to call when a countdown is at zero. *)
LEMMA DueIsUp ==
  ASSUME NEW l, ListOK(l)
  PROVE  Due(l) <=> \E t \in Timer \cup Sleeper : TicksLeft(l)[t] = 0
<1>1. /\ l \in Seq(Entry) /\ Len(l) \in Nat
      /\ \A j \in 1 .. Len(l) : Ahead(l, j) = Ahead(l, j - 1) + l[j].delta
      /\ Ahead(l, 0) = 0 /\ \A j \in 0 .. Len(l) : Ahead(l, j) \in Nat
      /\ \A j, k \in 0 .. Len(l) : j <= k => Ahead(l, j) <= Ahead(l, k)
  BY AheadIsSum, AheadGrows DEF ListOK
<1>2. ASSUME Due(l) PROVE \E t \in Timer \cup Sleeper : TicksLeft(l)[t] = 0
  <2>1. 1 \in 1 .. Len(l) /\ l[1].delta = 0
    BY <1>1, <1>2 DEF Due
  <2>2. Ahead(l, 1) = 0
    BY <1>1, <2>1
  <2> QED
    BY <2>1, <2>2, LeftOf
<1>3. ASSUME NEW t \in Timer \cup Sleeper, TicksLeft(l)[t] = 0 PROVE Due(l)
  <2>1. \E k \in 1 .. Len(l) : l[k].vt = t
    BY <1>3, LeftOf
  <2>2. PICK k \in 1 .. Len(l) : l[k].vt = t
    BY <2>1
  <2>3. Ahead(l, k) = 0
    BY <1>3, <2>2, LeftOf
  <2>4. 1 \in 1 .. Len(l) /\ 1 <= k /\ 1 \in 0 .. Len(l) /\ k \in 0 .. Len(l)
    BY <1>1
  <2>5. Ahead(l, 1) = 0
    BY <1>1, <2>3, <2>4
  <2>6. l[1] \in Entry /\ l[1].delta = 0 /\ l # <<>>
    <3>1. l[1] \in Entry
      BY <1>1, <2>4
    <3>2. l[1].delta \in Nat
      BY <3>1 DEF Entry
    <3> QED
      BY <1>1, <2>4, <2>5, <3>1, <3>2
  <2> QED
    BY <2>6 DEF Due
<1> QED
  BY <1>2, <1>3

(* chVTResetI stops one countdown, *)
LEMMA ResetLeft ==
  ASSUME NEW l, ListOK(l), Near(l), NEW t \in Timer \cup Sleeper
  PROVE  /\ TicksLeft(Reset(l, t)) = [TicksLeft(l) EXCEPT ![t] = -1]
         /\ Near(Reset(l, t))
<1>1. CASE IsArmed(l, t)
  <2>1. PICK k \in 1 .. Len(l) : l[k].vt = t /\ Without(DoReset(l, t), l, k)
    BY <1>1, DoResetOK DEF ListOK
  <2> QED
    BY <1>1, <2>1, WithoutLeft DEF Reset
<1>2. CASE ~IsArmed(l, t)
  <2>1. TicksLeft(l)[t] = -1 /\ Reset(l, t) = l
    BY <1>2 DEF TicksLeft, Reset
  <2>2. TicksLeft(l) = [TicksLeft(l) EXCEPT ![t] = -1]
    <3> DEFINE L == TicksLeft(l)
    <3>1. L = [r \in Timer \cup Sleeper |-> L[r]] /\ L[t] = -1
      BY <2>1 DEF TicksLeft
    <3> HIDE DEF L
    <3>2. L = [L EXCEPT ![t] = -1]
      BY <3>1
    <3> QED
      BY <3>2 DEF L
  <2> QED
    BY <2>1, <2>2
<1> QED
  BY <1>1, <1>2

(* chVTDoSetI starts one, *)
LEMMA SetLeft ==
  ASSUME NEW l, ListOK(l), Near(l), NEW t \in Timer \cup Sleeper, NEW d \in 0 .. SystimeMod - 1,
         NEW par \in 0 .. Slots, ListOK(DoSet(l, t, d, par))
  PROVE  /\ TicksLeft(DoSet(l, t, d, par)) = [TicksLeft(l) EXCEPT ![t] = d]
         /\ Near(DoSet(l, t, d, par))
<1> DEFINE m == DoSet(l, t, d, par)
<1>1. PICK k \in 1 .. Len(l) + 1 :
        Without(l, m, k) /\ m[k].vt = t /\ m[k].par = par /\ Ahead(m, k) = d
  <2>1. l \in Seq(Entry)
    BY DEF ListOK
  <2> QED
    BY <2>1, DoSetOK
<1>2. ListOK(m)
  OBVIOUS
<1> HIDE DEF m
<1>3. TicksLeft(m) = [TicksLeft(l) EXCEPT ![t] = d] /\ (Ahead(m, k) < SystimeMod => Near(m))
  BY <1>1, <1>2, WithoutLeft
<1> QED
  BY <1>1, <1>3 DEF m

(* and the tick reduces all of them. *)
LEMMA TickLeft ==
  ASSUME NEW l, ListOK(l), ~Due(l), Near(l)
  PROVE  /\ TicksLeft(Ticked(l)) =
              [t \in Timer \cup Sleeper |->
                 IF TicksLeft(l)[t] = -1 THEN -1 ELSE TicksLeft(l)[t] - 1]
         /\ Near(Ticked(l))
<1> DEFINE m == Ticked(l)
<1>1. /\ l \in Seq(Entry) /\ m \in Seq(Entry) /\ Len(m) = Len(l)
      /\ \A j \in 1 .. Len(l) : m[j].vt = l[j].vt /\ Ahead(m, j) = Ahead(l, j) - 1
  BY TickedShape, TickedOK DEF ListOK
<1>2. ListOK(m)
  BY TickKeeps
<1> HIDE DEF m
<1>3. ASSUME NEW t \in Timer \cup Sleeper
      PROVE  TicksLeft(m)[t] = IF TicksLeft(l)[t] = -1 THEN -1 ELSE TicksLeft(l)[t] - 1
  <2>1. CASE \E k \in 1 .. Len(l) : l[k].vt = t
    <3>1. PICK k \in 1 .. Len(l) : l[k].vt = t
      BY <2>1
    <3>2. TicksLeft(l)[t] = Ahead(l, k) /\ Ahead(l, k) \in Nat
      BY <3>1, LeftOf
    <3>3. k \in 1 .. Len(m) /\ m[k].vt = t /\ Ahead(m, k) = Ahead(l, k) - 1
      BY <1>1, <3>1
    <3>4. TicksLeft(m)[t] = Ahead(m, k)
      BY <1>2, <3>3, LeftOf
    <3> QED
      BY <3>2, <3>3, <3>4
  <2>2. CASE \A k \in 1 .. Len(l) : l[k].vt # t
    <3>1. TicksLeft(l)[t] = -1
      BY <2>2, LeftOf
    <3>2. \A k \in 1 .. Len(m) : m[k].vt # t
      BY <1>1, <2>2
    <3>3. TicksLeft(m)[t] = -1
      BY <1>2, <3>2, LeftOf
    <3> QED
      BY <3>1, <3>3
  <2> QED
    BY <2>1, <2>2
<1>4. Near(m)
  <2> SUFFICES ASSUME NEW k \in 1 .. Len(m) PROVE Ahead(m, k) < SystimeMod
    BY DEF Near
  <2>1. Ahead(m, k) = Ahead(l, k) - 1 /\ Ahead(l, k) \in Nat /\ Ahead(l, k) < SystimeMod
    BY <1>1, LeftOf DEF Near
  <2> QED
    BY <2>1
<1>5. TicksLeft(m) = [t \in Timer \cup Sleeper |-> TicksLeft(m)[t]]
  BY DEF TicksLeft
<1> QED
  BY <1>3, <1>4, <1>5 DEF m

-----------------------------------------------------------------------------
(* No countdown wraps, and none is at zero but while the interrupt runs. *)
TimeInv == Near(vtlist) /\ firing = Due(vtlist)

(* Every step of the timers is one of the clock, or leaves it alone. *)
LEMMA ClockStep ==
  ASSUME 0 \notin Delay, Inv, Inv', TimeInv, [Next]_vars
  PROVE  TimeInv' /\ [Clock!Next]_(TicksLeft(vtlist))
<1> DEFINE T == Timer \cup Sleeper
           L == TicksLeft(vtlist)
<1>0. ListOK(vtlist) /\ ListOK(vtlist') /\ Near(vtlist) /\ firing = Due(vtlist)
  BY DEF Inv, ListInv, TimeInv
<1>1. \A d \in Delay : d \in 0 .. SystimeMod - 1 /\ d # 0
  OBVIOUS
<1>2. ~firing => \A t \in T : L[t] # 0
  BY <1>0, DueIsUp
<1>3. ASSUME ~firing, ~firing', NEW t \in T, NEW d \in Delay,
             L' = [L EXCEPT ![t] = d], Near(vtlist')
      PROVE  TimeInv' /\ Clock!Next
  <2>1. DOMAIN L = T
    BY DEF TicksLeft
  <2> HIDE DEF L
  <2>2. \A r \in T : L'[r] # 0
    BY <1>1, <1>2, <1>3, <2>1
  <2>3. ~Due(vtlist')
    BY <1>0, <2>2, DueIsUp DEF L
  <2>4. Clock!Set(t, d)
    BY <1>2, <1>3 DEF Clock!Set, Clock!TimeUp, L
  <2>5. Clock!Next
    BY <2>4 DEF Clock!Next
  <2>6. firing' = FALSE /\ Due(vtlist') = FALSE
    <3>1. firing' \in BOOLEAN
      BY DEF Inv, Plain
    <3> QED
      BY <1>3, <2>3, <3>1 DEF Due
  <2> QED
    BY <1>3, <2>5, <2>6 DEF TimeInv
<1>4. ASSUME ~firing, ~firing', NEW t \in T, L' = [L EXCEPT ![t] = -1], Near(vtlist')
      PROVE  TimeInv' /\ Clock!Next
  <2>1. DOMAIN L = T
    BY DEF TicksLeft
  <2> HIDE DEF L
  <2>2. \A r \in T : L'[r] # 0
    BY <1>2, <1>4, <2>1
  <2>3. ~Due(vtlist')
    BY <1>0, <2>2, DueIsUp DEF L
  <2>4. Clock!Clear(t)
    BY <1>2, <1>4 DEF Clock!Clear, Clock!TimeUp, Clock!Off, L
  <2>5. Clock!Next
    BY <2>4 DEF Clock!Next
  <2>6. firing' = FALSE /\ Due(vtlist') = FALSE
    <3>1. firing' \in BOOLEAN
      BY DEF Inv, Plain
    <3> QED
      BY <1>4, <2>3, <3>1 DEF Due
  <2> QED
    BY <1>4, <2>5, <2>6 DEF TimeInv
<1>5. ASSUME NEW d \in Delay, Arm(d) PROVE TimeInv' /\ Clock!Next
  <2> DEFINE t == setting[1]
             l == Reset(vtlist, t)
             par == setting[2]
  <2>1. t \in Timer /\ par \in 0 .. Slots /\ ~firing /\ ~firing'
    BY <1>5 DEF Arm, Inv, Plain, Slot
  <2>2. vtlist' = DoSet(l, t, d, par)
    BY <1>5 DEF Arm, Set
  <2> HIDE DEF t, par
  <2>3. ListOK(l)
    BY <1>0, ResetOK
  <2>4. TicksLeft(l) = [L EXCEPT ![t] = -1] /\ Near(l)
    BY <1>0, <2>1, ResetLeft
  <2>5. L' = [TicksLeft(l) EXCEPT ![t] = d] /\ Near(vtlist')
    <3> HIDE DEF l
    <3> QED
      BY <1>0, <1>1, <2>1, <2>2, <2>3, <2>4, SetLeft
  <2>6. L' = [L EXCEPT ![t] = d]
    <3> HIDE DEF L, l
    <3> QED
      BY <2>4, <2>5
  <2> QED
    BY <1>3, <2>1, <2>5, <2>6
<1>6. ASSUME NEW t \in Timer, ResetTimer(t) PROVE TimeInv' /\ Clock!Next
  <2>1. vtlist' = Reset(vtlist, t) /\ ~firing /\ ~firing' /\ t \in T
    BY <1>6 DEF ResetTimer, InApp
  <2>2. L' = [L EXCEPT ![t] = -1] /\ Near(vtlist')
    BY <1>0, <2>1, ResetLeft
  <2> QED
    BY <1>4, <2>1, <2>2
<1>7. ASSUME NEW t \in Sleeper, WakeEarly(t) PROVE TimeInv' /\ Clock!Next
  <2>1. vtlist' = Reset(vtlist, t) /\ ~firing /\ ~firing' /\ t \in T
    BY <1>7 DEF WakeEarly, Reset
  <2>2. L' = [L EXCEPT ![t] = -1] /\ Near(vtlist')
    BY <1>0, <2>1, ResetLeft
  <2> QED
    BY <1>4, <2>1, <2>2
<1>8. ASSUME NEW t \in Sleeper, NEW d \in Delay, Sleep(t, d) PROVE TimeInv' /\ Clock!Next
  <2>1. /\ vtlist' = DoSet(vtlist, t, d, NoSlot) /\ ~firing /\ ~firing' /\ t \in T
        /\ NoSlot \in 0 .. Slots
    BY <1>8 DEF Sleep, NoSlot
  <2>2. L' = [L EXCEPT ![t] = d] /\ Near(vtlist')
    BY <1>0, <1>1, <2>1, SetLeft
  <2> QED
    BY <1>3, <2>1, <2>2
<1>9. CASE Tick
  <2>1. vtlist' = Ticked(vtlist) /\ ~firing /\ firing' = Due(vtlist')
    BY <1>9 DEF Tick
  <2>2. L' = [t \in T |-> IF L[t] = -1 THEN -1 ELSE L[t] - 1] /\ Near(vtlist')
    BY <1>0, <2>1, TickLeft
  <2>3. Clock!Tick
    BY <1>2, <2>1, <2>2 DEF Clock!Tick, Clock!TimeUp, Clock!Off
  <2>4. Clock!Next
    BY <2>3 DEF Clock!Next
  <2> QED
    BY <2>1, <2>2, <2>4 DEF TimeInv
<1>10. CASE Fire
  <2> DEFINE t == vtlist[1].vt
  <2>1. Due(vtlist) /\ vtlist' = Tail(vtlist) /\ firing' = Due(vtlist')
    BY <1>0, <1>10 DEF Fire
  <2>2. Without(vtlist', vtlist, 1)
    BY <1>0, <2>1, TailOK DEF ListOK
  <2>3. L' = [L EXCEPT ![t] = -1] /\ Near(vtlist')
    BY <1>0, <2>2, WithoutLeft
  <2>4. t \in T /\ L[t] = 0
    <3>1. 1 \in 1 .. Len(vtlist) /\ Len(vtlist) \in Nat /\ vtlist[1].delta = 0
      BY <1>0, <2>1 DEF Due, ListOK
    <3>2. Ahead(vtlist, 1) = 0
      BY <3>1, AheadIsSum
    <3> QED
      BY <1>0, <3>1, <3>2, LeftOf
  <2>5. Clock!Ring(t)
    BY <2>3, <2>4 DEF Clock!Ring, Clock!Off
  <2>6. Clock!Next
    BY <2>4, <2>5 DEF Clock!Next
  <2> QED
    BY <2>1, <2>3, <2>6 DEF TimeInv
<1>11. CASE \/ \E u \in Use : TakeSlot(u[1], u[2])
            \/ RunCallbacks \/ Scan \/ ScanDone \/ Return \/ LoadCount \/ StoreCount
            \/ UNCHANGED vars
  <2>1. UNCHANGED <<vtlist, firing>>
    BY <1>11 DEF TakeSlot, RunCallbacks, Scan, ScanDone, Return, LoadCount, StoreCount, vars
  <2> QED
    BY <1>0, <2>1 DEF TimeInv
<1> QED
  BY <1>5, <1>6, <1>7, <1>8, <1>9, <1>10, <1>11 DEF Next

(* The kernel's list of deltas implements independent countdowns, if no    *)
(* timer is set with a delay of 0, which chVTDoSetI forbids: every timer   *)
(* fires at the tick that its own delay asked for, whichever others are    *)
(* set, reset, set again or fire in between.                               *)
THEOREM ImplementsClock == ASSUME 0 \notin Delay PROVE Spec => ClockSpec
<1>1. Init => TimeInv /\ Clock!Init
  <2> SUFFICES ASSUME Init PROVE TimeInv /\ Clock!Init
    OBVIOUS
  <2>1. vtlist = <<>> /\ ~Due(vtlist) /\ firing = FALSE
    BY DEF Init, Due
  <2>2. \A t \in Timer \cup Sleeper : ~IsArmed(vtlist, t)
    BY <2>1 DEF IsArmed, Position
  <2>3. TicksLeft(vtlist) = [t \in Timer \cup Sleeper |-> -1]
    BY <2>2 DEF TicksLeft
  <2>4. Near(vtlist) /\ Due(vtlist) = FALSE
    BY <2>1 DEF Near, Due
  <2>5. Clock!Init
    BY <2>3 DEF Clock!Init, Clock!Off
  <2> QED
    BY <2>1, <2>4, <2>5 DEF TimeInv
<1>2. Inv /\ Inv' /\ TimeInv /\ [Next]_vars => TimeInv' /\ [Clock!Next]_(TicksLeft(vtlist))
  BY ClockStep
<1> QED
  BY <1>1, <1>2, Invariance, PTL DEF Spec, ClockSpec, Clock!Spec
=============================================================================
