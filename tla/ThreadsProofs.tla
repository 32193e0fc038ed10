---------------------------- MODULE ThreadsProofs ----------------------------
(***************************************************************************)
(* Proofs about the kernel's threads and mutexes, for any number of        *)
(* threads with any priorities, mutexes and references.                    *)
(***************************************************************************)
EXTENDS Threads, WellFoundedInduction, SequenceTheorems, TLAPS

(* Of natural numbers one is the least. *)
LEMMA FirstOfNaturals ==
  ASSUME NEW S \in SUBSET Nat, S # {}
  PROVE  \E x \in S : \A y \in S : x <= y
<1>1. IsWellFoundedOn(OpToRel(<, Nat), Nat)
  BY NatLessThanWellFounded
<1>2. PICK x \in S : \A y \in S : ~(<<y, x>> \in OpToRel(<, Nat))
  BY <1>1, WFMin
<1>3. \A y \in S : ~(y < x)
  BY <1>2 DEF OpToRel
<1> QED
  BY <1>3

-----------------------------------------------------------------------------
(* A list that e is linked into *)
LEMMA Inserted ==
  ASSUME NEW S, NEW l \in Seq(S), NEW e \in S, NEW k \in 1 .. Len(l) + 1
  PROVE  /\ InsertAt(l, k, e) \in Seq(S) /\ Len(InsertAt(l, k, e)) = Len(l) + 1
         /\ \A j \in 1 .. Len(l) + 1 :
              InsertAt(l, k, e)[j] = IF j < k THEN l[j] ELSE IF j = k THEN e ELSE l[j - 1]
<1> DEFINE a == SubSeq(l, 1, k - 1)
           b == SubSeq(l, k, Len(l))
           c == a \o <<e>>
<1>1. a \in Seq(S) /\ Len(a) = k - 1 /\ \A j \in 1 .. k - 1 : a[j] = l[j]
  BY SubSeqProperties
<1>2. b \in Seq(S) /\ Len(b) = Len(l) - k + 1 /\ \A j \in 1 .. Len(l) - k + 1 : b[j] = l[k + j - 1]
  BY SubSeqProperties
<1>3. InsertAt(l, k, e) = c \o b
  BY DEF InsertAt
<1> HIDE DEF a, b
<1>4. c \in Seq(S) /\ Len(c) = k /\ \A j \in 1 .. k : c[j] = IF j < k THEN l[j] ELSE e
  BY <1>1
<1> HIDE DEF c
<1>5. /\ c \o b \in Seq(S) /\ Len(c \o b) = Len(c) + Len(b)
      /\ \A j \in 1 .. Len(c) + Len(b) : (c \o b)[j] = IF j <= Len(c) THEN c[j] ELSE b[j - Len(c)]
  BY <1>2, <1>4, ConcatProperties
<1>6. ASSUME NEW j \in 1 .. Len(l) + 1, j > k PROVE b[j - k] = l[j - 1]
  BY <1>2, <1>6
<1> QED
  BY <1>2, <1>3, <1>4, <1>5, <1>6

(* A list that its k-th entry is taken out of *)
LEMMA Removed ==
  ASSUME NEW S, NEW l \in Seq(S), NEW k \in 1 .. Len(l)
  PROVE  /\ RemoveAt(l, k) \in Seq(S) /\ Len(RemoveAt(l, k)) = Len(l) - 1
         /\ \A j \in 1 .. Len(l) - 1 : RemoveAt(l, k)[j] = IF j < k THEN l[j] ELSE l[j + 1]
<1> DEFINE a == SubSeq(l, 1, k - 1)
           b == SubSeq(l, k + 1, Len(l))
<1>1. a \in Seq(S) /\ Len(a) = k - 1 /\ \A j \in 1 .. k - 1 : a[j] = l[j]
  BY SubSeqProperties
<1>2. b \in Seq(S) /\ Len(b) = Len(l) - k /\ \A j \in 1 .. Len(l) - k : b[j] = l[k + j]
  BY SubSeqProperties
<1>3. RemoveAt(l, k) = a \o b
  BY DEF RemoveAt
<1> HIDE DEF a, b
<1>4. /\ a \o b \in Seq(S) /\ Len(a \o b) = Len(a) + Len(b)
      /\ \A j \in 1 .. Len(a) + Len(b) : (a \o b)[j] = IF j <= Len(a) THEN a[j] ELSE b[j - Len(a)]
  <2>1. a \in Seq(S) /\ b \in Seq(S)
    BY <1>1, <1>2
  <2> QED
    BY <2>1, ConcatProperties
<1>5. ASSUME NEW j \in 1 .. Len(l) - 1, j >= k PROVE b[j - (k - 1)] = l[j + 1]
  BY <1>2, <1>5
<1> QED
  BY <1>1, <1>2, <1>3, <1>4, <1>5

-----------------------------------------------------------------------------
USE ThreadsAssumption

(* A list of threads, each of them once *)
Queue == {q \in Seq(Thread) : IsInjective(q)}

(* in the order of their priorities *)
Sorted(q, p) == \A i, j \in 1 .. Len(q) : i < j => p[q[i]] >= p[q[j]]

Prios == [Thread -> Nat \ {0}]

(* A queue is a sequence of threads without repetitions. *)
LEMMA QueueFacts ==
  ASSUME NEW q \in Queue
  PROVE  /\ q \in Seq(Thread) /\ Len(q) \in Nat /\ DOMAIN q = 1 .. Len(q)
         /\ \A i, j \in 1 .. Len(q) : q[i] = q[j] => i = j
         /\ \A x : x \in ToSet(q) <=> \E i \in 1 .. Len(q) : q[i] = x
         /\ ToSet(q) \subseteq Thread
         /\ q = <<>> <=> ToSet(q) = {}
<1>1. q \in Seq(Thread) /\ Len(q) \in Nat /\ DOMAIN q = 1 .. Len(q)
  BY DEF Queue
<1>2. \A i, j \in 1 .. Len(q) : q[i] = q[j] => i = j
  BY <1>1 DEF Queue, IsInjective
<1>3. \A x : x \in ToSet(q) <=> \E i \in 1 .. Len(q) : q[i] = x
  BY <1>1 DEF ToSet
<1>4. ToSet(q) \subseteq Thread
  BY <1>1, <1>3
<1>5. q = <<>> => ToSet(q) = {}
  BY <1>1 DEF ToSet
<1>6. ASSUME ToSet(q) = {} PROVE q = <<>>
  <2>1. ~(1 \in 1 .. Len(q))
    BY <1>3, <1>6
  <2>2. Len(q) = 0
    BY <1>1, <2>1
  <2> QED
    BY <1>1, <2>2
<1> QED
  BY <1>1, <1>2, <1>3, <1>4, <1>5, <1>6

(* A thread is linked into a list, *)
LEMMA InsertAtOK ==
  ASSUME NEW q \in Queue, NEW t \in Thread, t \notin ToSet(q), NEW k \in 1 .. Len(q) + 1, NEW p
  PROVE  LET m == InsertAt(q, k, t)
         IN  /\ m \in Queue /\ ToSet(m) = ToSet(q) \cup {t} /\ m # <<>>
             /\ m[1] = t \/ (q # <<>> /\ m[1] = q[1])
             /\ /\ Sorted(q, p)
                /\ \A i \in 1 .. k - 1 : p[q[i]] >= p[t]
                /\ \A i \in k .. Len(q) : p[t] >= p[q[i]]
                => Sorted(m, p)
<1> DEFINE m == InsertAt(q, k, t)
<1>0. /\ q \in Seq(Thread) /\ Len(q) \in Nat
      /\ \A i, j \in 1 .. Len(q) : q[i] = q[j] => i = j
      /\ \A x : x \in ToSet(q) <=> \E i \in 1 .. Len(q) : q[i] = x
  BY QueueFacts
<1>6. /\ m \in Seq(Thread) /\ Len(m) = Len(q) + 1
      /\ \A j \in 1 .. Len(q) + 1 :
           m[j] = IF j < k THEN q[j] ELSE IF j = k THEN t ELSE q[j - 1]
  BY <1>0, Inserted
<1> HIDE DEF m
<1>7. /\ m \in Seq(Thread) /\ Len(m) = Len(q) + 1 /\ DOMAIN m = 1 .. Len(q) + 1
      /\ \A j \in 1 .. Len(q) + 1 :
           m[j] = IF j < k THEN q[j] ELSE IF j = k THEN t ELSE q[j - 1]
  <2>1. DOMAIN m = 1 .. Len(m)
    BY <1>6
  <2> QED
    BY <1>6, <2>1
<1>8. m # <<>> /\ (m[1] = t \/ (q # <<>> /\ m[1] = q[1]))
  BY <1>0, <1>7
<1>9. ToSet(m) = ToSet(q) \cup {t}
  <2>1. \A x : x \in ToSet(m) <=> \E j \in 1 .. Len(q) + 1 : m[j] = x
    BY <1>7 DEF ToSet
  <2>2. ASSUME NEW j \in 1 .. Len(q) + 1 PROVE m[j] \in ToSet(q) \cup {t}
    <3>1. CASE j < k
      <4>1. j \in 1 .. Len(q) /\ m[j] = q[j]
        BY <1>0, <1>7, <3>1
      <4> QED
        BY <1>0, <4>1
    <3>2. CASE j = k
      BY <1>7, <3>2
    <3>3. CASE j > k
      <4>1. j - 1 \in 1 .. Len(q) /\ m[j] = q[j - 1]
        BY <1>0, <1>7, <3>3, SMTT(30)
      <4> QED
        BY <1>0, <4>1
    <3> QED
      BY <3>1, <3>2, <3>3
  <2>3. ASSUME NEW i \in 1 .. Len(q) PROVE \E j \in 1 .. Len(q) + 1 : m[j] = q[i]
    <3>1. CASE i < k
      BY <1>0, <1>7, <3>1, SMTT(30)
    <3>2. CASE i >= k
      <4>1. i + 1 \in 1 .. Len(q) + 1 /\ ~(i + 1 < k) /\ i + 1 # k /\ (i + 1) - 1 = i
        BY <1>0, <3>2
      <4>2. m[i + 1] = q[(i + 1) - 1]
        BY <1>7, <4>1
      <4> QED
        BY <4>1, <4>2
    <3> QED
      BY <3>1, <3>2
  <2>4. m[k] = t /\ k \in 1 .. Len(q) + 1
    BY <1>7
  <2>5. \A x \in ToSet(q) \cup {t} : x \in ToSet(m)
    BY <1>0, <2>1, <2>3, <2>4
  <2> QED
    BY <2>1, <2>2, <2>5
<1>10. m \in Queue
  <2>1. ASSUME NEW i \in 1 .. Len(q) + 1, NEW j \in 1 .. Len(q) + 1, i < j PROVE m[i] # m[j]
    <3>1. CASE j < k
      <4>1. /\ i \in 1 .. Len(q) /\ j \in 1 .. Len(q) /\ i # j
            /\ m[i] = q[i] /\ m[j] = q[j]
        BY <1>0, <1>7, <2>1, <3>1, SMTT(30)
      <4> QED
        BY <1>0, <4>1
    <3>2. CASE j = k
      <4>1. m[j] = t /\ m[i] = q[i] /\ i \in 1 .. Len(q)
        BY <1>0, <1>7, <2>1, <3>2
      <4> QED
        BY <1>0, <4>1
    <3>3. CASE i < k /\ j > k
      <4>1. m[i] = q[i] /\ i \in 1 .. Len(q) /\ m[j] = q[j - 1] /\ j - 1 \in 1 .. Len(q) /\ i # j - 1
        BY <1>0, <1>7, <2>1, <3>3
      <4> QED
        BY <1>0, <4>1
    <3>4. CASE i = k
      <4>1. m[i] = t /\ m[j] = q[j - 1] /\ j - 1 \in 1 .. Len(q)
        BY <1>0, <1>7, <2>1, <3>4
      <4> QED
        BY <1>0, <4>1
    <3>5. CASE i > k
      <4>1. /\ m[i] = q[i - 1] /\ i - 1 \in 1 .. Len(q)
            /\ m[j] = q[j - 1] /\ j - 1 \in 1 .. Len(q) /\ i - 1 # j - 1
        BY <1>0, <1>7, <2>1, <3>5
      <4> QED
        BY <1>0, <4>1
    <3> QED
      BY <2>1, <3>1, <3>2, <3>3, <3>4, <3>5
  <2>2. \A i, j \in 1 .. Len(q) + 1 : m[i] = m[j] => i = j
    BY <1>0, <2>1
  <2> QED
    BY <1>7, <2>2 DEF Queue, IsInjective
<1>11. ASSUME Sorted(q, p), \A i \in 1 .. k - 1 : p[q[i]] >= p[t],
              \A i \in k .. Len(q) : p[t] >= p[q[i]]
       PROVE  Sorted(m, p)
  <2> SUFFICES ASSUME NEW i \in 1 .. Len(q) + 1, NEW j \in 1 .. Len(q) + 1, i < j
               PROVE  p[m[i]] >= p[m[j]]
    BY <1>7 DEF Sorted
  <2>1. CASE j < k
    <3>1. i \in 1 .. Len(q) /\ j \in 1 .. Len(q) /\ i < k
      BY <1>0, <2>1
    <3>2. m[i] = q[i] /\ m[j] = q[j]
      BY <1>7, <2>1, <3>1
    <3> QED
      BY <1>11, <3>1, <3>2 DEF Sorted
  <2>2. CASE j = k
    <3>1. i \in 1 .. k - 1 /\ m[i] = q[i] /\ m[j] = t
      BY <1>0, <1>7, <2>2
    <3> QED
      BY <1>11, <3>1
  <2>3. CASE i < k /\ j > k
    <3>1. /\ m[i] = q[i] /\ i \in 1 .. Len(q) /\ m[j] = q[j - 1] /\ j - 1 \in 1 .. Len(q)
          /\ i < j - 1
      BY <1>0, <1>7, <2>3
    <3> QED
      BY <1>11, <3>1 DEF Sorted
  <2>4. CASE i = k
    <3>1. m[i] = t /\ m[j] = q[j - 1] /\ j - 1 \in k .. Len(q)
      BY <1>0, <1>7, <2>4, SMTT(30)
    <3> QED
      BY <1>11, <3>1
  <2>5. CASE i > k
    <3>1. /\ m[i] = q[i - 1] /\ i - 1 \in 1 .. Len(q)
          /\ m[j] = q[j - 1] /\ j - 1 \in 1 .. Len(q) /\ i - 1 < j - 1
      BY <1>0, <1>7, <2>5
    <3> QED
      BY <1>11, <3>1 DEF Sorted
  <2> QED
    BY <1>0, <2>1, <2>2, <2>3, <2>4, <2>5
<1> QED
  BY <1>8, <1>9, <1>10, <1>11 DEF m

(* What linking t into q gives. *)
Linked(m, q, t, p) ==
  /\ m \in Queue /\ ToSet(m) = ToSet(q) \cup {t} /\ m # <<>>
  /\ m[1] = t \/ (q # <<>> /\ m[1] = q[1])
  /\ Sorted(q, p) => Sorted(m, p)

(* chSchReadyI and queue_prio_insert, *)
LEMMA BehindOK ==
  ASSUME NEW q \in Queue, NEW t \in Thread, t \notin ToSet(q), NEW p \in Prios
  PROVE  Linked(InsertBehind(q, t, p), q, t, p)
<1>0. q \in Seq(Thread) /\ Len(q) \in Nat /\ \A i \in 1 .. Len(q) : q[i] \in Thread
  BY QueueFacts
<1>1. p[t] \in Nat /\ \A i \in 1 .. Len(q) : p[q[i]] \in Nat
  BY <1>0 DEF Prios
<1> DEFINE Fits(j) == /\ \A i \in 1 .. j - 1 : p[q[i]] >= p[t]
                      /\ j <= Len(q) => p[q[j]] < p[t]
           S == {j \in 1 .. Len(q) : p[q[j]] < p[t]}
           k == CHOOSE j \in 1 .. Len(q) + 1 : Fits(j)
<1>2. \E j \in 1 .. Len(q) + 1 : Fits(j)
  <2>1. CASE S = {}
    <3>1. \A i \in 1 .. Len(q) : p[q[i]] >= p[t]
      BY <1>1, <2>1
    <3>2. Fits(Len(q) + 1) /\ Len(q) + 1 \in 1 .. Len(q) + 1
      BY <1>0, <3>1
    <3> QED
      BY <3>2
  <2>2. CASE S # {}
    <3>0. S \in SUBSET Nat
      OBVIOUS
    <3>1. PICK j \in S : \A i \in S : j <= i
      BY <2>2, <3>0, FirstOfNaturals
    <3>2. \A i \in 1 .. j - 1 : i \notin S
      <4> HIDE DEF S
      <4> QED
        BY <3>0, <3>1
    <3>3. j \in 1 .. Len(q) /\ p[q[j]] < p[t]
      BY <3>1
    <3>4. ASSUME NEW i \in 1 .. j - 1 PROVE p[q[i]] >= p[t]
      <4>1. i \in 1 .. Len(q)
        BY <1>0, <3>3
      <4>2. ~(p[q[i]] < p[t])
        BY <3>2, <4>1
      <4> QED
        BY <1>1, <4>1, <4>2
    <3>5. Fits(j) /\ j \in 1 .. Len(q) + 1
      BY <1>0, <3>3, <3>4
    <3> QED
      BY <3>5
  <2> QED
    BY <2>1, <2>2
<1>3. k \in 1 .. Len(q) + 1 /\ Fits(k)
  BY <1>2
<1>4. InsertBehind(q, t, p) = InsertAt(q, k, t)
  BY DEF InsertBehind
<1> HIDE DEF k
<1>5. ASSUME Sorted(q, p) PROVE \A i \in k .. Len(q) : p[t] >= p[q[i]]
  <2> TAKE i \in k .. Len(q)
  <2>1. k \in 1 .. Len(q) /\ i \in 1 .. Len(q) /\ (i = k \/ k < i) /\ k <= Len(q)
    BY <1>0, <1>3
  <2>2. p[q[k]] < p[t] /\ (k < i => p[q[k]] >= p[q[i]])
    BY <1>3, <1>5, <2>1 DEF Sorted
  <2>3. p[q[k]] \in Nat /\ p[q[i]] \in Nat
    BY <1>1, <2>1
  <2> QED
    BY <1>1, <2>1, <2>2, <2>3
<1>6. \A i \in 1 .. k - 1 : p[q[i]] >= p[t]
  BY <1>3
<1> QED
  BY <1>3, <1>4, <1>5, <1>6, InsertAtOK DEF Linked

(* and the loop of chSchDoRescheduleAhead *)
LEMMA AheadOK ==
  ASSUME NEW q \in Queue, NEW t \in Thread, t \notin ToSet(q), NEW p \in Prios
  PROVE  Linked(InsertAhead(q, t, p), q, t, p)
<1>0. q \in Seq(Thread) /\ Len(q) \in Nat /\ \A i \in 1 .. Len(q) : q[i] \in Thread
  BY QueueFacts
<1>1. p[t] \in Nat /\ \A i \in 1 .. Len(q) : p[q[i]] \in Nat
  BY <1>0 DEF Prios
<1> DEFINE Fits(j) == /\ \A i \in 1 .. j - 1 : p[q[i]] > p[t]
                      /\ j <= Len(q) => p[q[j]] <= p[t]
           S == {j \in 1 .. Len(q) : p[q[j]] <= p[t]}
           k == CHOOSE j \in 1 .. Len(q) + 1 : Fits(j)
<1>2. \E j \in 1 .. Len(q) + 1 : Fits(j)
  <2>1. CASE S = {}
    <3>1. \A i \in 1 .. Len(q) : p[q[i]] > p[t]
      BY <1>1, <2>1
    <3>2. Fits(Len(q) + 1) /\ Len(q) + 1 \in 1 .. Len(q) + 1
      BY <1>0, <3>1
    <3> QED
      BY <3>2
  <2>2. CASE S # {}
    <3>0. S \in SUBSET Nat
      OBVIOUS
    <3>1. PICK j \in S : \A i \in S : j <= i
      BY <2>2, <3>0, FirstOfNaturals
    <3>2. \A i \in 1 .. j - 1 : i \notin S
      <4> HIDE DEF S
      <4> QED
        BY <3>0, <3>1
    <3>3. j \in 1 .. Len(q) /\ p[q[j]] <= p[t]
      BY <3>1
    <3>4. ASSUME NEW i \in 1 .. j - 1 PROVE p[q[i]] > p[t]
      <4>1. i \in 1 .. Len(q)
        BY <1>0, <3>3
      <4>2. ~(p[q[i]] <= p[t])
        BY <3>2, <4>1
      <4> QED
        BY <1>1, <4>1, <4>2
    <3>5. Fits(j) /\ j \in 1 .. Len(q) + 1
      BY <1>0, <3>3, <3>4
    <3> QED
      BY <3>5
  <2> QED
    BY <2>1, <2>2
<1>3. k \in 1 .. Len(q) + 1 /\ Fits(k)
  BY <1>2
<1>4. InsertAhead(q, t, p) = InsertAt(q, k, t)
  BY DEF InsertAhead
<1> HIDE DEF k
<1>5. ASSUME Sorted(q, p) PROVE \A i \in k .. Len(q) : p[t] >= p[q[i]]
  <2> TAKE i \in k .. Len(q)
  <2>1. k \in 1 .. Len(q) /\ i \in 1 .. Len(q) /\ (i = k \/ k < i) /\ k <= Len(q)
    BY <1>0, <1>3
  <2>2. p[q[k]] <= p[t] /\ (k < i => p[q[k]] >= p[q[i]])
    BY <1>3, <1>5, <2>1 DEF Sorted
  <2>3. p[q[k]] \in Nat /\ p[q[i]] \in Nat
    BY <1>1, <2>1
  <2> QED
    BY <1>1, <2>1, <2>2, <2>3
<1>6. \A i \in 1 .. k - 1 : p[q[i]] >= p[t]
  <2> TAKE i \in 1 .. k - 1
  <2>1. p[q[i]] > p[t] /\ i \in 1 .. Len(q)
    BY <1>0, <1>3
  <2> QED
    BY <1>1, <2>1
<1> QED
  BY <1>3, <1>4, <1>5, <1>6, InsertAtOK DEF Linked

(* What taking t out of q gives. *)
Unlinked(m, q, t, p) ==
  /\ m \in Queue /\ ToSet(m) = ToSet(q) \ {t}
  /\ Sorted(q, p) => Sorted(m, p)

(* Unlinking the element at one place of a queue *)
LEMMA RemoveAtOK ==
  ASSUME NEW q \in Queue, NEW k \in 1 .. Len(q), NEW p, NEW m \in Seq(Thread),
         Len(m) = Len(q) - 1,
         \A j \in 1 .. Len(q) - 1 : m[j] = IF j < k THEN q[j] ELSE q[j + 1]
  PROVE  Unlinked(m, q, q[k], p)
<1>0. /\ q \in Seq(Thread) /\ Len(q) \in Nat
      /\ \A i, j \in 1 .. Len(q) : q[i] = q[j] => i = j
      /\ \A x : x \in ToSet(q) <=> \E i \in 1 .. Len(q) : q[i] = x
  BY QueueFacts
<1>1. DOMAIN m = 1 .. Len(q) - 1
  OBVIOUS
<1> DEFINE At(j) == IF j < k THEN j ELSE j + 1
<1>2. ASSUME NEW j \in 1 .. Len(q) - 1
      PROVE  At(j) \in 1 .. Len(q) /\ At(j) # k /\ m[j] = q[At(j)]
  <2>1. m[j] = IF j < k THEN q[j] ELSE q[j + 1]
    OBVIOUS
  <2>2. j \in Nat /\ k \in 1 .. Len(q) /\ Len(q) \in Nat /\ j <= Len(q) - 1 /\ j >= 1
    BY <1>0
  <2>3. CASE j < k
    BY <2>1, <2>2, <2>3
  <2>4. CASE j >= k
    BY <2>1, <2>2, <2>4
  <2> QED
    BY <2>2, <2>3, <2>4
<1>3. ASSUME NEW i \in 1 .. Len(q) - 1, NEW j \in 1 .. Len(q) - 1, i < j PROVE At(i) < At(j)
  <2>1. i \in Int /\ j \in Int /\ k \in Int
    OBVIOUS
  <2> QED
    BY <1>3, <2>1
<1>4. ASSUME NEW i \in 1 .. Len(q), i # k PROVE \E j \in 1 .. Len(q) - 1 : At(j) = i
  <2>1. CASE i < k
    <3>1. i \in 1 .. Len(q) - 1 /\ At(i) = i
      BY <1>0, <2>1
    <3> QED
      BY <3>1
  <2>2. CASE i > k
    <3>1. i - 1 \in 1 .. Len(q) - 1 /\ At(i - 1) = i
      BY <1>0, <2>2
    <3> QED
      BY <3>1
  <2> QED
    BY <1>4, <2>1, <2>2
<1> HIDE DEF At
<1>5. \A x : x \in ToSet(m) <=> \E j \in 1 .. Len(q) - 1 : m[j] = x
  BY <1>1 DEF ToSet
<1>6. \A i \in 1 .. Len(q) : i # k => q[i] # q[k]
  BY <1>0
<1>7. ToSet(m) = ToSet(q) \ {q[k]}
  <2>1. ASSUME NEW x \in ToSet(m) PROVE x \in ToSet(q) \ {q[k]}
    <3>1. PICK j \in 1 .. Len(q) - 1 : m[j] = x
      BY <1>5
    <3>2. At(j) \in 1 .. Len(q) /\ At(j) # k /\ x = q[At(j)]
      BY <1>2, <3>1
    <3> QED
      BY <1>0, <1>6, <3>2
  <2>2. ASSUME NEW x \in ToSet(q) \ {q[k]} PROVE x \in ToSet(m)
    <3>1. PICK i \in 1 .. Len(q) : q[i] = x
      BY <1>0
    <3>2. PICK j \in 1 .. Len(q) - 1 : At(j) = i
      BY <1>4, <3>1
    <3> QED
      BY <1>2, <1>5, <3>1, <3>2
  <2> QED
    BY <2>1, <2>2
<1>8. m \in Queue
  <2>1. ASSUME NEW i \in 1 .. Len(q) - 1, NEW j \in 1 .. Len(q) - 1, i < j PROVE m[i] # m[j]
    <3>1. At(i) \in 1 .. Len(q) /\ At(j) \in 1 .. Len(q) /\ At(i) # At(j)
      BY <1>2, <1>3, <2>1
    <3>2. m[i] = q[At(i)] /\ m[j] = q[At(j)]
      BY <1>2
    <3> QED
      BY <1>0, <3>1, <3>2
  <2>2. \A i, j \in 1 .. Len(q) - 1 : m[i] = m[j] => i = j
    BY <1>0, <2>1
  <2> QED
    BY <1>1, <2>2 DEF Queue, IsInjective
<1>9. ASSUME Sorted(q, p) PROVE Sorted(m, p)
  <2> SUFFICES ASSUME NEW i \in 1 .. Len(q) - 1, NEW j \in 1 .. Len(q) - 1, i < j
               PROVE  p[m[i]] >= p[m[j]]
    BY DEF Sorted
  <2>1. At(i) \in 1 .. Len(q) /\ At(j) \in 1 .. Len(q) /\ At(i) < At(j)
    BY <1>2, <1>3
  <2>2. p[q[At(i)]] >= p[q[At(j)]]
    BY <1>9, <2>1 DEF Sorted
  <2> QED
    BY <1>2, <2>2
<1> QED
  BY <1>7, <1>8, <1>9 DEF Unlinked

(* queue_dequeue *)
LEMMA DequeueOK ==
  ASSUME NEW q \in Queue, NEW t \in ToSet(q), NEW p
  PROVE  Unlinked(Dequeue(q, t), q, t, p)
<1> DEFINE k == CHOOSE j \in DOMAIN q : q[j] = t
<1>0. q \in Seq(Thread) /\ DOMAIN q = 1 .. Len(q) /\ \E j \in 1 .. Len(q) : q[j] = t
  BY QueueFacts
<1>1. k \in 1 .. Len(q) /\ q[k] = t
  BY <1>0
<1>2. Dequeue(q, t) = RemoveAt(q, k)
  BY DEF Dequeue
<1> HIDE DEF k
<1>3. /\ RemoveAt(q, k) \in Seq(Thread) /\ Len(RemoveAt(q, k)) = Len(q) - 1
      /\ \A j \in 1 .. Len(q) - 1 : RemoveAt(q, k)[j] = IF j < k THEN q[j] ELSE q[j + 1]
  BY <1>0, <1>1, Removed, ZenonT(30)
<1>4. Unlinked(RemoveAt(q, k), q, q[k], p)
  BY <1>1, <1>3, RemoveAtOK
<1> QED
  BY <1>1, <1>2, <1>4

(* queue_fifo_remove *)
LEMMA TailOK ==
  ASSUME NEW q \in Queue, q # <<>>, NEW p
  PROVE  /\ Unlinked(Tail(q), q, Head(q), p) /\ Head(q) = q[1]
         /\ Head(q) \in ToSet(q) /\ Head(q) \in Thread
         /\ Sorted(q, p) => \A x \in ToSet(q) \ {Head(q)} : p[x] <= p[Head(q)]
<1>0. /\ q \in Seq(Thread) /\ Len(q) \in Nat /\ 1 \in 1 .. Len(q) /\ Head(q) = q[1]
      /\ \A x : x \in ToSet(q) <=> \E i \in 1 .. Len(q) : q[i] = x
  BY QueueFacts
<1>1. /\ Tail(q) \in Seq(Thread) /\ Len(Tail(q)) = Len(q) - 1
      /\ \A j \in 1 .. Len(Tail(q)) : Tail(q)[j] = q[j + 1]
  BY <1>0, HeadTailProperties
<1>2. Unlinked(Tail(q), q, q[1], p)
  <2>1. \A j \in 1 .. Len(q) - 1 : Tail(q)[j] = IF j < 1 THEN q[j] ELSE q[j + 1]
    BY <1>1
  <2> QED
    BY <1>0, <1>1, <2>1, RemoveAtOK
<1>3. ASSUME Sorted(q, p), NEW x \in ToSet(q) \ {q[1]} PROVE p[x] <= p[q[1]]
  <2>1. PICK i \in 1 .. Len(q) : q[i] = x
    BY <1>0
  <2>2. 1 < i
    BY <1>0, <1>3, <2>1
  <2> QED
    BY <1>0, <1>3, <2>1, <2>2 DEF Sorted
<1> QED
  BY <1>0, <1>2, <1>3

-----------------------------------------------------------------------------
(* What making the threads of ts ready one by one leads to *)
IsReadied(f, q, ts) ==
  f = [k \in 0 .. Len(ts) |-> IF k = 0 THEN q ELSE InsertBehind(f[k - 1], ts[k], prio)]

(* The queue that results from readying one thread after the other exists. *)
LEMMA ReadiedExists == ASSUME NEW q, NEW ts, Len(ts) \in Nat PROVE \E f : IsReadied(f, q, ts)
<1> DEFINE Part(f, m) ==
             f = [k \in 0 .. m |-> IF k = 0 THEN q ELSE InsertBehind(f[k - 1], ts[k], prio)]
           Bad == {m \in Nat : ~\E f : Part(f, m)}
<1>1. SUFFICES ASSUME Bad # {} PROVE FALSE
  BY DEF IsReadied
<1>2. PICK m \in Bad : \A n \in Bad : m <= n
  BY <1>1, FirstOfNaturals
<1>3. CASE m = 0
  <2>1. Part([j \in 0 .. 0 |-> q], 0)
    OBVIOUS
  <2> QED
    BY <1>2, <1>3, <2>1
<1>4. CASE m > 0
  <2>0. Bad \subseteq Nat
    OBVIOUS
  <2>1. m - 1 \in Nat /\ m - 1 \notin Bad
    <3> HIDE DEF Bad
    <3> QED
      BY <1>2, <1>4, <2>0
  <2>2. PICK f : Part(f, m - 1)
    BY <2>1
  <2> DEFINE g == [j \in 0 .. m |-> IF j = m THEN InsertBehind(f[m - 1], ts[m], prio) ELSE f[j]]
  <2>3. Part(g, m)
    BY <2>1, <2>2
  <2> QED
    BY <1>2, <2>3
<1> QED
  BY <1>2, <1>3, <1>4

(* The loop of chThdExitS: all of ts are in the ready list, in order. *)
LEMMA ReadyAllOK ==
  ASSUME NEW q \in Queue, NEW ts \in Queue, ToSet(ts) \cap ToSet(q) = {}, prio \in Prios
  PROVE  LET m == ReadyAll(q, ts)
         IN  /\ m \in Queue /\ ToSet(m) = ToSet(q) \cup ToSet(ts)
             /\ Sorted(q, prio) => Sorted(m, prio)
<1> DEFINE f == CHOOSE g : IsReadied(g, q, ts)
<1>0. /\ ts \in Seq(Thread) /\ Len(ts) \in Nat
      /\ \A i, j \in 1 .. Len(ts) : ts[i] = ts[j] => i = j
      /\ \A x : x \in ToSet(ts) <=> \E i \in 1 .. Len(ts) : ts[i] = x
  BY QueueFacts
<1>1. IsReadied(f, q, ts)
  BY <1>0, ReadiedExists
<1>2. ReadyAll(q, ts) = f[Len(ts)]
  BY DEF ReadyAll, IsReadied
<1> HIDE DEF f
<1>3. f[0] = q /\ \A k \in 1 .. Len(ts) : f[k] = InsertBehind(f[k - 1], ts[k], prio)
  <2>1. \A k \in 0 .. Len(ts) :
          f[k] = IF k = 0 THEN q ELSE InsertBehind(f[k - 1], ts[k], prio)
    BY <1>1 DEF IsReadied
  <2> QED
    BY <1>0, <2>1
<1> DEFINE Good(k) == /\ f[k] \in Queue
                      /\ ToSet(f[k]) = ToSet(q) \cup {ts[i] : i \in 1 .. k}
                      /\ Sorted(q, prio) => Sorted(f[k], prio)
           Bad == {k \in 0 .. Len(ts) : ~Good(k)}
<1>4. Bad = {}
  <2>0. Bad \in SUBSET Nat
    OBVIOUS
  <2>1. SUFFICES ASSUME Bad # {} PROVE FALSE
    OBVIOUS
  <2>2. PICK m \in Bad : \A n \in Bad : m <= n
    BY <2>0, <2>1, FirstOfNaturals
  <2>3. m \in 0 .. Len(ts) /\ ~Good(m)
    BY <2>2
  <2>4. Good(0)
    BY <1>3
  <2>5. m \in 1 .. Len(ts) /\ m - 1 \in 0 .. Len(ts)
    <3> HIDE DEF Good
    <3> QED
      BY <2>3, <2>4
  <2>6. m - 1 \notin Bad
    <3> HIDE DEF Bad
    <3> QED
      BY <2>0, <2>2, <2>5
  <2>7. Good(m - 1)
    BY <2>5, <2>6
  <2>8. ts[m] \in Thread /\ ts[m] \notin ToSet(f[m - 1])
    <3>1. ts[m] \in Thread /\ ts[m] \in ToSet(ts)
      BY <1>0, <2>5
    <3>2. \A i \in 1 .. m - 1 : ts[i] # ts[m]
      BY <1>0, <2>5
    <3>3. ToSet(f[m - 1]) = ToSet(q) \cup {ts[i] : i \in 1 .. m - 1}
      BY <2>7
    <3> QED
      BY <3>1, <3>2, <3>3
  <2>9. Linked(f[m], f[m - 1], ts[m], prio)
    BY <1>3, <2>5, <2>7, <2>8, BehindOK, SMTT(30)
  <2>10. {ts[i] : i \in 1 .. m} = {ts[i] : i \in 1 .. m - 1} \cup {ts[m]}
    BY <2>5
  <2>11. Good(m)
    BY <2>7, <2>9, <2>10 DEF Linked
  <2> QED
    BY <2>3, <2>11
<1>5. Good(Len(ts))
  BY <1>0, <1>4
<1>6. {ts[i] : i \in 1 .. Len(ts)} = ToSet(ts)
  BY <1>0
<1> QED
  BY <1>2, <1>5, <1>6

-----------------------------------------------------------------------------
(* The first of a sorted list is the most urgent. *)
LEMMA FirstOK ==
  ASSUME NEW q \in Queue, NEW p \in Prios
  PROVE  /\ FirstPrio(q, p) \in Nat
         /\ q # <<>> => FirstPrio(q, p) = p[q[1]] /\ q[1] \in ToSet(q) /\ q[1] \in Thread
         /\ q = <<>> => FirstPrio(q, p) = 0
         /\ Sorted(q, p) => \A x \in ToSet(q) : p[x] <= FirstPrio(q, p)
<1>1. q # <<>> => FirstPrio(q, p) = p[q[1]] /\ q[1] \in ToSet(q) /\ q[1] \in Thread
  BY TailOK DEF FirstPrio
<1>2. q = <<>> => FirstPrio(q, p) = 0
  BY DEF FirstPrio
<1>3. FirstPrio(q, p) \in Nat
  BY <1>1, <1>2 DEF Prios
<1>4. ASSUME Sorted(q, p), NEW x \in ToSet(q) PROVE p[x] <= FirstPrio(q, p)
  <2>1. q # <<>>
    BY <1>4, QueueFacts
  <2>2. x = q[1] \/ x \in ToSet(q) \ {Head(q)}
    BY <1>4, <2>1, TailOK
  <2>3. p[x] \in Nat
    BY <1>4, QueueFacts DEF Prios
  <2>4. Head(q) = q[1]
    BY <2>1, TailOK
  <2>5. x # q[1] => p[x] <= p[q[1]]
    BY <1>4, <2>1, <2>2, <2>4, TailOK
  <2> QED
    BY <1>1, <2>1, <2>3, <2>5
<1> QED
  BY <1>1, <1>2, <1>3, <1>4

(* The order of a list depends on the priorities of its threads only. *)
LEMMA SortedKept ==
  ASSUME NEW q \in Queue, NEW p, NEW v, \A x \in ToSet(q) : v[x] = p[x], Sorted(q, p)
  PROVE  Sorted(q, v)
<1>1. \A i \in 1 .. Len(q) : v[q[i]] = p[q[i]]
  <2>1. \A i \in 1 .. Len(q) : q[i] \in ToSet(q)
    BY QueueFacts
  <2> QED
    BY <2>1
<1> QED
  BY <1>1 DEF Sorted

-----------------------------------------------------------------------------
Runnable == {"current", "ready"}
Value == {None} \cup Ref \cup Mutex \cup Msg

(* The current thread and the ready list *)
SchedInv ==
  /\ \A t \in Thread : state[t] = "current" <=> t = cur
  /\ ready \in Queue /\ ToSet(ready) = {t \in Thread : state[t] = "ready"}
  /\ state[Main] \in Runnable

(* The types of what a switch of threads changes *)
SwitchTypes ==
  /\ cur \in Thread /\ state \in [Thread -> State] /\ u \in [Thread -> Value]
  /\ timer \in [Thread -> BOOLEAN] /\ slices \in [Thread -> 0 .. Quantum] /\ missed \in BOOLEAN

(* A step leaves alone the threads that wait, but for those in A, and lets *)
(* none that runs wait.                                                    *)
Others(A) ==
  \A x \in Thread \ A :
    /\ state'[x] \in Runnable <=> state[x] \in Runnable
    /\ state[x] \notin Runnable => state'[x] = state[x] /\ u'[x] = u[x] /\ timer'[x] = timer[x]
    /\ timer'[x] /\ state[x] \in Runnable => timer[x] /\ state'[x] \in {"ready", state[x]}

(* No message of a thread that was woken is overwritten. *)
Kept ==
  \A t \in Thread : state[t] \in {"ready", "final"} /\ state'[t] = state[t] => u'[t] = u[t]

(* The current thread is as urgent as those that are ready. *)
Top == \A x \in ToSet(ready) : prio[x] <= prio[cur]

(* chSchGoSleepS *)
LEMMA GoSleepOK ==
  ASSUME SwitchTypes, SchedInv, NEW rd \in Queue, ToSet(rd) = ToSet(ready), cur # Main,
         NEW st \in State \ Runnable, NEW w \in Value, NEW tm \in [Thread -> BOOLEAN],
         \A x \in Thread \ {cur} : tm[x] = timer[x],
         prio' \in Prios, GoSleep(st, w, rd, tm)
  PROVE  /\ SwitchTypes' /\ SchedInv' /\ Others({cur}) /\ Kept
         /\ state'[cur] = st /\ u'[cur] = w /\ timer'[cur] = tm[cur]
         /\ Sorted(rd, prio') => Sorted(ready', prio') /\ Top'
<1> DEFINE h == Head(rd)
<1>1. Main \in ToSet(rd) /\ rd # <<>>
  BY QueueFacts DEF SchedInv, Runnable
<1>2. /\ Unlinked(Tail(rd), rd, h, prio') /\ h \in ToSet(rd) /\ h \in Thread
      /\ Sorted(rd, prio') => \A x \in ToSet(rd) \ {h} : prio'[x] <= prio'[h]
  BY <1>1, TailOK
<1>3. /\ cur' = h /\ ready' = Tail(rd) /\ missed' = FALSE
      /\ u' = [[u EXCEPT ![cur] = w] EXCEPT ![h] = None]
      /\ state' = [[state EXCEPT ![cur] = st] EXCEPT ![h] = "current"]
      /\ timer' = [tm EXCEPT ![h] = FALSE]
      /\ slices' = [slices EXCEPT ![cur] = Quantum]
  BY DEF GoSleep, MakeCurrent
<1> HIDE DEF h
<1>4. state[h] = "ready" /\ h # cur /\ state[cur] = "current" /\ cur \in Thread
  BY <1>2 DEF SchedInv, SwitchTypes
<1>5. /\ state'[cur] = st /\ u'[cur] = w /\ timer'[cur] = tm[cur]
      /\ state'[h] = "current" /\ timer'[h] = FALSE
      /\ \A x \in Thread \ {cur, h} : state'[x] = state[x] /\ u'[x] = u[x] /\ timer'[x] = timer[x]
  BY <1>2, <1>3, <1>4 DEF SwitchTypes
<1>6. SwitchTypes'
  <2>1. Quantum \in 0 .. Quantum /\ None \in Value /\ "current" \in State /\ st \in State
    BY DEF Value, State
  <2>2. state' \in [Thread -> State] /\ u' \in [Thread -> Value]
    BY <1>3, <2>1 DEF SwitchTypes
  <2>3. timer' \in [Thread -> BOOLEAN] /\ slices' \in [Thread -> 0 .. Quantum]
    BY <1>3, <2>1 DEF SwitchTypes
  <2> QED
    BY <1>2, <1>3, <2>2, <2>3 DEF SwitchTypes
<1>7. SchedInv'
  <2>1. \A t \in Thread : state'[t] = "current" <=> t = cur'
    <3>1. st # "current"
      BY DEF Runnable
    <3>2. ASSUME NEW t \in Thread \ {cur, h} PROVE state'[t] # "current" /\ t # cur'
      BY <1>3, <1>5 DEF SchedInv
    <3> QED
      BY <1>3, <1>4, <1>5, <3>1, <3>2
  <2>2. ToSet(ready') = {t \in Thread : state'[t] = "ready"} /\ ready' \in Queue
    <3>1. ToSet(ready') = ToSet(ready) \ {h} /\ ready' \in Queue
      BY <1>2, <1>3 DEF Unlinked
    <3>2. \A t \in Thread : state'[t] = "ready" <=> state[t] = "ready" /\ t # h
      BY <1>4, <1>5 DEF Runnable
    <3> QED
      BY <3>1, <3>2 DEF SchedInv
  <2>3. state'[Main] \in Runnable
    BY <1>5 DEF SchedInv, Runnable
  <2> QED
    BY <2>1, <2>2, <2>3 DEF SchedInv
<1>8. Others({cur})
  BY <1>4, <1>5 DEF Others, Runnable, SchedInv
<1>9. ASSUME Sorted(rd, prio') PROVE Sorted(ready', prio') /\ Top'
  <2>1. Sorted(ready', prio') /\ ToSet(ready') = ToSet(rd) \ {h}
    BY <1>2, <1>3, <1>9 DEF Unlinked
  <2>2. \A x \in ToSet(ready') : prio'[x] <= prio'[cur']
    BY <1>2, <1>3, <1>9, <2>1
  <2> QED
    BY <2>1, <2>2 DEF Top
<1>10. Kept
  BY <1>4, <1>5 DEF Kept
<1> QED
  BY <1>5, <1>6, <1>7, <1>8, <1>9, <1>10

(* chSchWakeupS of a thread that waits *)
LEMMA WakeupOK ==
  ASSUME SwitchTypes, SchedInv, NEW t \in Thread, state[t] \notin Runnable, NEW msg \in Msg,
         prio \in Prios, prio' = prio, Wakeup(t, msg), UNCHANGED <<slices, missed>>
  PROVE  /\ SwitchTypes' /\ SchedInv' /\ Others({t}) /\ Kept
         /\ state'[t] \in Runnable /\ (timer'[t] => timer[t] /\ state'[t] = "ready")
         /\ Sorted(ready, prio) => Sorted(ready', prio')
         /\ Top => Top'
<1>0. /\ ready \in Queue /\ ToSet(ready) = {x \in Thread : state[x] = "ready"}
      /\ cur \in Thread /\ state[cur] = "current" /\ t # cur /\ t # Main
      /\ t \notin ToSet(ready) /\ cur \notin ToSet(ready)
  BY DEF SchedInv, SwitchTypes, Runnable
<1>1. CASE prio[t] <= prio[cur]
  <2>1. /\ ready' = InsertBehind(ready, t, prio) /\ UNCHANGED <<cur, timer>>
        /\ state' = [state EXCEPT ![t] = "ready"] /\ u' = [u EXCEPT ![t] = msg]
    BY <1>1 DEF Wakeup
  <2>2. Linked(ready', ready, t, prio)
    BY <1>0, <2>1, BehindOK
  <2>3. /\ state'[t] = "ready"
        /\ \A x \in Thread \ {t} : state'[x] = state[x] /\ u'[x] = u[x] /\ timer'[x] = timer[x]
    BY <1>0, <2>1 DEF SwitchTypes
  <2>4. SwitchTypes'
    BY <2>1 DEF SwitchTypes, Value, State
  <2>5. SchedInv'
    BY <1>0, <2>1, <2>2, <2>3 DEF SchedInv, Linked, Runnable
  <2>6. Others({t})
    BY <2>3 DEF Others
  <2>7. Top => Top'
    BY <1>1, <2>1, <2>2 DEF Top, Linked
  <2>8. Kept
    BY <2>3 DEF Kept, Runnable
  <2> QED
    BY <2>1, <2>2, <2>3, <2>4, <2>5, <2>6, <2>7, <2>8 DEF Linked, Runnable
<1>2. CASE ~(prio[t] <= prio[cur])
  <2>1. /\ ready' = InsertBehind(ready, cur, prio) /\ cur' = t
        /\ u' = [u EXCEPT ![t] = None]
        /\ state' = [[state EXCEPT ![cur] = "ready"] EXCEPT ![t] = "current"]
        /\ timer' = [timer EXCEPT ![t] = FALSE]
    BY <1>2 DEF Wakeup, MakeCurrent
  <2>2. Linked(ready', ready, cur, prio)
    BY <1>0, <2>1, BehindOK
  <2>3. /\ state'[t] = "current" /\ state'[cur] = "ready" /\ timer'[t] = FALSE
        /\ timer'[cur] = timer[cur]
        /\ \A x \in Thread \ {t, cur} :
             state'[x] = state[x] /\ u'[x] = u[x] /\ timer'[x] = timer[x]
    BY <1>0, <2>1 DEF SwitchTypes
  <2>4. SwitchTypes'
    BY <2>1 DEF SwitchTypes, Value, State
  <2>5. SchedInv'
    BY <1>0, <2>1, <2>2, <2>3, ZenonT(30) DEF SchedInv, Linked, Runnable
  <2>6. Others({t})
    BY <1>0, <2>3 DEF Others, Runnable, SchedInv
  <2>7. Top => Top'
    <3>1. prio[cur] \in Nat /\ prio[t] \in Nat /\ \A x \in ToSet(ready) : prio[x] \in Nat
      BY <1>0 DEF Prios
    <3>2. prio[cur] <= prio[t]
      BY <1>2, <3>1
    <3>3. ToSet(ready') = ToSet(ready) \cup {cur} /\ cur' = t
      BY <2>1, <2>2 DEF Linked
    <3> QED
      BY <3>1, <3>2, <3>3 DEF Top
  <2>8. Kept
    BY <1>0, <2>3 DEF Kept, Runnable
  <2> QED
    BY <2>2, <2>3, <2>4, <2>5, <2>6, <2>7, <2>8 DEF Linked, Runnable
<1> QED
  BY <1>1, <1>2

(* chSchReadyI, in an interrupt *)
LEMMA ReadyIOK ==
  ASSUME SwitchTypes, SchedInv, NEW t \in Thread, state[t] \notin Runnable, NEW msg \in Msg,
         prio \in Prios, prio' = prio, ReadyI(t, msg), UNCHANGED <<cur, slices, missed>>,
         timer' = timer \/ timer' = [timer EXCEPT ![t] = FALSE]
  PROVE  /\ SwitchTypes' /\ SchedInv' /\ Others({t}) /\ Kept
         /\ state'[t] = "ready" /\ u'[t] = msg
         /\ Sorted(ready, prio) => Sorted(ready', prio')
<1>0. /\ ready \in Queue /\ ToSet(ready) = {x \in Thread : state[x] = "ready"}
      /\ cur \in Thread /\ state[cur] = "current" /\ t # cur /\ t # Main
      /\ t \notin ToSet(ready)
  BY DEF SchedInv, SwitchTypes, Runnable
<1>1. /\ ready' = InsertBehind(ready, t, prio)
      /\ state' = [state EXCEPT ![t] = "ready"] /\ u' = [u EXCEPT ![t] = msg]
  BY DEF ReadyI
<1>2. Linked(ready', ready, t, prio)
  BY <1>0, <1>1, BehindOK
<1>3. /\ state'[t] = "ready" /\ u'[t] = msg
      /\ \A x \in Thread \ {t} : state'[x] = state[x] /\ u'[x] = u[x] /\ timer'[x] = timer[x]
  BY <1>0, <1>1 DEF SwitchTypes
<1>4. SwitchTypes'
  <2>1. timer' \in [Thread -> BOOLEAN]
    BY DEF SwitchTypes
  <2> QED
    BY <1>1, <2>1 DEF SwitchTypes, Value, State
<1>5. SchedInv'
  BY <1>0, <1>1, <1>2, <1>3 DEF SchedInv, Linked, Runnable
<1>6. Others({t})
  BY <1>3 DEF Others
<1>7. Kept
  BY <1>3 DEF Kept, Runnable
<1> QED
  BY <1>2, <1>3, <1>4, <1>5, <1>6, <1>7 DEF Linked

(* chSchDoRescheduleBehind and chSchDoRescheduleAhead: the current thread  *)
(* goes to the ready list rd, and its first thread runs.  The states st    *)
(* are those of rd, in which one thread may have been made ready.          *)
LEMMA SwitchOK ==
  ASSUME SwitchTypes, SchedInv, NEW rd \in Queue, rd # <<>>, NEW A,
         NEW st \in [Thread -> State], \A x \in Thread \ A : st[x] = state[x],
         \A x \in A : st[x] = "ready", cur \notin A, A \subseteq Thread,
         ToSet(rd) = {t \in Thread : st[t] = "ready"},
         prio' \in Prios, slices' \in [Thread -> 0 .. Quantum], missed' = FALSE,
         \/ ready' = InsertBehind(Tail(rd), cur, prio')
         \/ ready' = InsertAhead(Tail(rd), cur, prio'),
         MakeCurrent(Head(rd), [st EXCEPT ![cur] = "ready"], timer, u)
  PROVE  /\ SwitchTypes' /\ SchedInv' /\ Others(A) /\ Kept
         /\ \A a \in A : state'[a] \in Runnable /\ (timer'[a] => timer[a] /\ state'[a] = "ready")
         /\ Sorted(rd, prio') => Sorted(ready', prio')
         /\ Sorted(rd, prio') /\ prio'[cur] <= FirstPrio(rd, prio') => Top'
<1> DEFINE h == Head(rd)
<1>1. /\ Unlinked(Tail(rd), rd, h, prio') /\ h \in ToSet(rd) /\ h \in Thread /\ h = rd[1]
      /\ Sorted(rd, prio') => \A x \in ToSet(rd) \ {h} : prio'[x] <= prio'[h]
  BY TailOK
<1>2. /\ cur' = h /\ u' = [u EXCEPT ![h] = None]
      /\ state' = [[st EXCEPT ![cur] = "ready"] EXCEPT ![h] = "current"]
      /\ timer' = [timer EXCEPT ![h] = FALSE]
  BY DEF MakeCurrent
<1> HIDE DEF h
<1>3. cur \in Thread /\ state[cur] = "current" /\ st[cur] = "current" /\ st[h] = "ready" /\ h # cur
  BY <1>1 DEF SchedInv, SwitchTypes
<1>4. cur \notin ToSet(Tail(rd)) /\ Tail(rd) \in Queue /\ ToSet(Tail(rd)) = ToSet(rd) \ {h}
  BY <1>1, <1>3 DEF Unlinked
<1>5. Linked(ready', Tail(rd), cur, prio')
  BY <1>3, <1>4, BehindOK, AheadOK
<1>6. /\ state'[cur] = "ready" /\ state'[h] = "current" /\ timer'[h] = FALSE
      /\ timer'[cur] = timer[cur] /\ u'[cur] = u[cur]
      /\ \A x \in Thread \ {cur, h} : state'[x] = st[x] /\ u'[x] = u[x] /\ timer'[x] = timer[x]
  BY <1>1, <1>2, <1>3 DEF SwitchTypes
<1>7. SwitchTypes'
  <2>1. state' \in [Thread -> State] /\ u' \in [Thread -> Value] /\ timer' \in [Thread -> BOOLEAN]
    BY <1>2 DEF SwitchTypes, Value, State
  <2> QED
    BY <1>1, <1>2, <2>1 DEF SwitchTypes
<1>8. \A t \in Thread : st[t] = "current" <=> t = cur
  BY DEF SchedInv
<1>9. SchedInv'
  <2>1. \A t \in Thread : state'[t] = "current" <=> t = cur'
    BY <1>2, <1>3, <1>6, <1>8
  <2>2. \A t \in Thread : state'[t] = "ready" <=> t = cur \/ (st[t] = "ready" /\ t # h)
    BY <1>3, <1>6
  <2>3. ready' \in Queue /\ ToSet(ready') = {t \in Thread : state'[t] = "ready"}
    BY <1>3, <1>4, <1>5, <2>2 DEF Linked
  <2>4. state'[Main] \in Runnable
    <3>1. st[Main] \in Runnable
      BY DEF SchedInv, Runnable
    <3> QED
      BY <1>6, <3>1 DEF Runnable
  <2> QED
    BY <2>1, <2>3, <2>4 DEF SchedInv
<1>10. Others(A)
  <2> SUFFICES ASSUME NEW x \in Thread \ A
               PROVE  /\ state'[x] \in Runnable <=> state[x] \in Runnable
                      /\ state[x] \notin Runnable =>
                           state'[x] = state[x] /\ u'[x] = u[x] /\ timer'[x] = timer[x]
                      /\ timer'[x] /\ state[x] \in Runnable =>
                           timer[x] /\ state'[x] \in {"ready", state[x]}
    BY DEF Others
  <2>1. st[x] = state[x]
    OBVIOUS
  <2>2. CASE x = cur
    BY <1>3, <1>6, <2>2 DEF Runnable
  <2>3. CASE x = h
    BY <1>3, <1>6, <2>1, <2>3 DEF Runnable
  <2>4. CASE x \notin {cur, h}
    BY <1>6, <2>1, <2>4
  <2> QED
    BY <2>2, <2>3, <2>4
<1>11. \A a \in A : state'[a] \in Runnable /\ (timer'[a] => timer[a] /\ state'[a] = "ready")
  BY <1>6 DEF Runnable
<1>12. Kept
  BY <1>6 DEF Kept
<1>13. Sorted(rd, prio') => Sorted(ready', prio')
  BY <1>1, <1>5 DEF Linked, Unlinked
<1>14. ASSUME Sorted(rd, prio'), prio'[cur] <= FirstPrio(rd, prio') PROVE Top'
  <2>1. FirstPrio(rd, prio') = prio'[h]
    BY <1>1, FirstOK
  <2>2. ToSet(ready') = (ToSet(rd) \ {h}) \cup {cur}
    BY <1>4, <1>5 DEF Linked
  <2> QED
    BY <1>1, <1>2, <1>14, <2>1, <2>2 DEF Top
<1> QED
  BY <1>7, <1>9, <1>10, <1>11, <1>12, <1>13, <1>14

-----------------------------------------------------------------------------
(* References and the timers of waiting calls *)
WaitInv ==
  /\ \A r \in Ref, t \in Thread : ref[r] = t <=> state[t] = "suspended" /\ u[t] = r
  /\ \A t \in Thread : timer[t] => state[t] \in {"suspended", "sleeping", "ready"}
  /\ \A t \in Thread : state[t] = "sleeping" => timer[t]
  /\ \A t \in Thread : state[t] = "suspended" => u[t] \in Ref

(* The queues of the mutexes *)
QueueInv ==
  /\ \A m \in Mutex : ToSet(queue[m]) = {t \in Thread : state[t] = "wtmtx" /\ u[t] = m}
  /\ \A t \in Thread : state[t] = "wtmtx" => u[t] \in Mutex

(* The mutexes and their owners *)
OwnInv ==
  /\ \A m \in Mutex, t \in Thread : owner[m] = t <=> m \in ToSet(mtxlist[t])
  /\ \A t \in Thread : IsInjective(mtxlist[t])
  /\ \A m \in Mutex : owner[m] = None => queue[m] = <<>>

(* The threads that wait for the end of another; each waits for one. *)
ExitInv ==
  /\ \A t \in Thread : \A w \in ToSet(waiting[t]) : state[w] = "wtexit"
  /\ \A w \in Thread : state[w] = "wtexit" =>
       \E t \in Thread : w \in ToSet(waiting[t]) /\ state[t] # "final"
  /\ \A s, t \in Thread : s # t => ToSet(waiting[s]) \cap ToSet(waiting[t]) = {}

(* A walk is part of a call of a thread of the app. *)
WalkInv ==
  walk # NoWalk => isr = NoIsr /\ cur # Main /\ owner[walk[1]] \notin {None, cur}

RestTypes ==
  /\ prio \in Prios
  /\ ref \in [Ref -> Thread \cup {None}]
  /\ owner \in [Mutex -> Thread \cup {None}]
  /\ mtxlist \in [Thread -> Seq(Mutex)]
  /\ queue \in [Mutex -> Queue]
  /\ waiting \in [Thread -> Queue]
  /\ isr \in {NoIsr, "tick", "irq"}
  /\ walk \in {NoWalk} \cup (Mutex \X Thread)

(* The lists and the waits *)
Inv ==
  /\ SwitchTypes /\ RestTypes
  /\ SchedInv /\ WaitInv /\ QueueInv /\ OwnInv /\ ExitInv /\ WalkInv

(* The order of the lists *)
OrderInv ==
  /\ Sorted(ready, prio)
  /\ \A m \in Mutex : Sorted(queue[m], prio)
  /\ Running /\ ~missed => Top

(* What a step has to keep *)
Good == Inv' /\ Kept /\ (OrderInv => OrderInv')

(* The references and timers of all threads but those in A stay right. *)
LEMMA WaitKept ==
  ASSUME NEW A \in SUBSET Thread, WaitInv, Others(A),
         \A a \in A : /\ timer'[a] => state'[a] \in {"suspended", "sleeping", "ready"}
                      /\ state'[a] = "sleeping" => timer'[a]
                      /\ state'[a] = "suspended" => u'[a] \in Ref,
         \A r \in Ref, a \in A : ref'[r] = a <=> state'[a] = "suspended" /\ u'[a] = r,
         \A r \in Ref, t \in Thread \ A : ref'[r] = t <=> ref[r] = t
  PROVE  WaitInv'
<1>1. ASSUME NEW x \in Thread \ A
      PROVE  /\ timer'[x] => state'[x] \in {"suspended", "sleeping", "ready"}
             /\ state'[x] = "sleeping" => timer'[x]
             /\ state'[x] = "suspended" => u'[x] \in Ref
             /\ \A r \in Ref : ref'[r] = x <=> state'[x] = "suspended" /\ u'[x] = r
  <2>1. CASE state[x] \in Runnable
    <3>1. state'[x] \in Runnable /\ (timer'[x] => timer[x] /\ state'[x] \in {"ready", state[x]})
      BY <2>1 DEF Others
    <3> QED
      BY <2>1, <3>1 DEF WaitInv, Runnable
  <2>2. CASE state[x] \notin Runnable
    <3>1. state'[x] = state[x] /\ u'[x] = u[x] /\ timer'[x] = timer[x]
      BY <2>2 DEF Others
    <3> QED
      BY <3>1 DEF WaitInv
  <2> QED
    BY <2>1, <2>2
<1>2. ASSUME NEW x \in Thread
      PROVE  /\ timer'[x] => state'[x] \in {"suspended", "sleeping", "ready"}
             /\ state'[x] = "sleeping" => timer'[x]
             /\ state'[x] = "suspended" => u'[x] \in Ref
  <2>1. CASE x \in A
    BY <2>1
  <2>2. CASE x \notin A
    BY <1>1, <2>2
  <2> QED
    BY <2>1, <2>2
<1>3. ASSUME NEW x \in Thread, NEW r \in Ref
      PROVE  ref'[r] = x <=> state'[x] = "suspended" /\ u'[x] = r
  BY <1>1
<1> QED
  BY <1>2, <1>3 DEF WaitInv

(* None in A waits for a mutex: the queues stay right. *)
LEMMA QueueKept ==
  ASSUME NEW A \in SUBSET Thread, QueueInv, Others(A), UNCHANGED queue,
         \A a \in A : state[a] # "wtmtx" /\ state'[a] # "wtmtx"
  PROVE  QueueInv'
<1>1. ASSUME NEW x \in Thread
      PROVE  /\ state'[x] = "wtmtx" <=> state[x] = "wtmtx"
             /\ state[x] = "wtmtx" => u'[x] = u[x]
  BY DEF Others, Runnable
<1> QED
  BY <1>1 DEF QueueInv

(* None in A waits for the end of a thread or ends. *)
LEMMA ExitKept ==
  ASSUME NEW A \in SUBSET Thread, ExitInv, RestTypes, Others(A), UNCHANGED waiting,
         \A a \in A : state[a] # "wtexit" /\ state'[a] \notin {"wtexit", "final"}
  PROVE  ExitInv'
<1>1. ASSUME NEW x \in Thread
      PROVE  /\ state'[x] = "wtexit" <=> state[x] = "wtexit"
             /\ state'[x] = "final" => state[x] = "final"
  BY DEF Others, Runnable
<1>2. \A t \in Thread : ToSet(waiting[t]) \subseteq Thread
  BY QueueFacts DEF RestTypes
<1> QED
  BY <1>1, <1>2 DEF ExitInv

(* What a call that is not about mutexes nor the end of a thread keeps *)
LEMMA CallKept ==
  ASSUME NEW A \in SUBSET Thread, Inv, Others(A), Kept, SwitchTypes', SchedInv', WaitInv',
         walk = NoWalk, UNCHANGED <<prio, owner, mtxlist, queue, waiting, walk>>,
         ref' \in [Ref -> Thread \cup {None}], isr' \in {NoIsr, "tick", "irq"},
         \A a \in A : /\ state[a] \notin {"wtmtx", "wtexit"}
                      /\ state'[a] \notin {"wtmtx", "wtexit", "final"},
         OrderInv => Sorted(ready', prio) /\ (isr' = NoIsr /\ ~missed' => Top')
  PROVE  Good
<1>1. RestTypes'
  BY DEF Inv, RestTypes
<1>2. QueueInv'
  BY QueueKept DEF Inv
<1>3. ExitInv'
  BY ExitKept DEF Inv
<1>4. OwnInv' /\ WalkInv'
  BY DEF Inv, OwnInv, WalkInv
<1>5. OrderInv => OrderInv'
  BY DEF OrderInv, Running
<1> QED
  BY <1>1, <1>2, <1>3, <1>4, <1>5 DEF Good, Inv

-----------------------------------------------------------------------------
(* createThread *)
LEMMA CreateOK == ASSUME Inv, NEW t \in Thread, Create(t) PROVE Good
<1>1. /\ Running /\ state[t] = "wtstart" /\ Wakeup(t, "ok")
      /\ UNCHANGED <<prio, slices, ref, owner, mtxlist, queue, waiting, isr, missed, walk>>
  BY DEF Create
<1>2. SwitchTypes /\ SchedInv /\ prio \in Prios /\ WaitInv
  BY DEF Inv, RestTypes
<1>3. /\ SwitchTypes' /\ SchedInv' /\ Others({t}) /\ Kept
      /\ state'[t] \in Runnable /\ (timer'[t] => timer[t] /\ state'[t] = "ready")
      /\ Sorted(ready, prio) => Sorted(ready', prio')
      /\ Top => Top'
  <2>1. state[t] \notin Runnable /\ "ok" \in Msg /\ prio' = prio /\ UNCHANGED <<slices, missed>>
    BY <1>1 DEF Runnable, Msg
  <2> QED
    BY <1>1, <1>2, <2>1, WakeupOK
<1>4. WaitInv'
  <2>1. \A r \in Ref : ref[r] # t
    BY <1>1, <1>2 DEF WaitInv
  <2> QED
    BY <1>1, <1>2, <1>3, <2>1, WaitKept DEF Runnable
<1>5. OrderInv => Sorted(ready', prio) /\ (isr' = NoIsr /\ ~missed' => Top')
  BY <1>1, <1>3 DEF OrderInv, Running
<1>6. /\ ref' \in [Ref -> Thread \cup {None}] /\ isr' \in {NoIsr, "tick", "irq"} /\ walk = NoWalk
      /\ state[t] \notin {"wtmtx", "wtexit"} /\ state'[t] \notin {"wtmtx", "wtexit", "final"}
  BY <1>1, <1>3 DEF Inv, RestTypes, Running, Runnable
<1> QED
  BY <1>1, <1>3, <1>4, <1>5, <1>6, CallKept

(* suspendThread and suspendThreadTimeout *)
LEMMA SuspendOK == ASSUME Inv, NEW r \in Ref, NEW b \in BOOLEAN, Suspend(r, b) PROVE Good
<1> DEFINE tm == [timer EXCEPT ![cur] = b]
<1>1. /\ Running /\ cur # Main /\ ref[r] = None /\ ref' = [ref EXCEPT ![r] = cur]
      /\ GoSleep("suspended", r, ready, tm)
      /\ UNCHANGED <<prio, owner, mtxlist, queue, waiting, isr, walk>>
  BY DEF Suspend, InApp
<1>2. SwitchTypes /\ SchedInv /\ prio \in Prios /\ WaitInv /\ cur \in Thread
  BY DEF Inv, RestTypes, SwitchTypes
<1>3. tm \in [Thread -> BOOLEAN] /\ tm[cur] = b /\ \A x \in Thread \ {cur} : tm[x] = timer[x]
  BY <1>2 DEF SwitchTypes
<1> HIDE DEF tm
<1>4. /\ SwitchTypes' /\ SchedInv' /\ Others({cur}) /\ Kept
      /\ state'[cur] = "suspended" /\ u'[cur] = r /\ timer'[cur] = b
      /\ Sorted(ready, prio') => Sorted(ready', prio') /\ Top'
  <2>1. ready \in Queue /\ "suspended" \in State \ Runnable /\ r \in Value /\ prio' \in Prios
    BY <1>1, <1>2 DEF SchedInv, Runnable, State, Value
  <2> QED
    BY <1>1, <1>2, <1>3, <2>1, GoSleepOK
<1>5. WaitInv'
  <2>1. state[cur] = "current" /\ \A x \in Ref : ref[x] # cur
    BY <1>2 DEF SchedInv, WaitInv
  <2>2. \A x \in Ref : ref'[x] = cur <=> state'[cur] = "suspended" /\ u'[cur] = x
    BY <1>1, <1>4, <2>1 DEF Inv, RestTypes
  <2>3. \A x \in Ref, t \in Thread \ {cur} : ref'[x] = t <=> ref[x] = t
    BY <1>1 DEF Inv, RestTypes
  <2> QED
    BY <1>2, <1>4, <2>2, <2>3, WaitKept
<1>6. OrderInv => Sorted(ready', prio) /\ (isr' = NoIsr /\ ~missed' => Top')
  BY <1>1, <1>4 DEF OrderInv
<1>7. /\ ref' \in [Ref -> Thread \cup {None}] /\ isr' \in {NoIsr, "tick", "irq"} /\ walk = NoWalk
      /\ state[cur] \notin {"wtmtx", "wtexit"} /\ state'[cur] \notin {"wtmtx", "wtexit", "final"}
  BY <1>1, <1>2, <1>4 DEF Inv, RestTypes, Running, SchedInv
<1> QED
  BY <1>1, <1>2, <1>4, <1>5, <1>6, <1>7, CallKept

(* resumeThread *)
LEMMA ResumeOK == ASSUME Inv, NEW r \in Ref, Resume(r) PROVE Good
<1> DEFINE t == ref[r]
<1>1. /\ Running /\ ref[r] # None /\ ref' = [ref EXCEPT ![r] = None] /\ Wakeup(t, "ok")
      /\ UNCHANGED <<prio, slices, owner, mtxlist, queue, waiting, isr, missed, walk>>
  BY DEF Resume, InApp
<1>2. SwitchTypes /\ SchedInv /\ prio \in Prios /\ WaitInv
  BY DEF Inv, RestTypes
<1>3. t \in Thread /\ state[t] = "suspended" /\ \A x \in Ref : ref[x] = t <=> x = r
  BY <1>1 DEF Inv, RestTypes, WaitInv
<1> HIDE DEF t
<1>4. /\ SwitchTypes' /\ SchedInv' /\ Others({t}) /\ Kept
      /\ state'[t] \in Runnable /\ (timer'[t] => timer[t] /\ state'[t] = "ready")
      /\ Sorted(ready, prio) => Sorted(ready', prio')
      /\ Top => Top'
  <2>1. state[t] \notin Runnable /\ "ok" \in Msg /\ prio' = prio /\ UNCHANGED <<slices, missed>>
    BY <1>1, <1>3 DEF Runnable, Msg
  <2> QED
    BY <1>1, <1>2, <1>3, <2>1, WakeupOK
<1>5. WaitInv'
  <2>1. \A x \in Ref : ref'[x] # t
    BY <1>1, <1>3 DEF Inv, RestTypes
  <2>2. \A x \in Ref, y \in Thread \ {t} : ref'[x] = y <=> ref[x] = y
    BY <1>1, <1>3 DEF Inv, RestTypes
  <2> QED
    BY <1>2, <1>3, <1>4, <2>1, <2>2, WaitKept DEF Runnable
<1>6. OrderInv => Sorted(ready', prio) /\ (isr' = NoIsr /\ ~missed' => Top')
  BY <1>1, <1>4 DEF OrderInv, Running
<1>7. /\ ref' \in [Ref -> Thread \cup {None}] /\ isr' \in {NoIsr, "tick", "irq"} /\ walk = NoWalk
      /\ state[t] \notin {"wtmtx", "wtexit"} /\ state'[t] \notin {"wtmtx", "wtexit", "final"}
  BY <1>1, <1>3, <1>4 DEF Inv, RestTypes, Running, Runnable
<1> QED
  BY <1>1, <1>3, <1>4, <1>5, <1>6, <1>7, CallKept

(* resumeThreadI *)
LEMMA ResumeIOK == ASSUME Inv, NEW r \in Ref, ResumeI(r) PROVE Good
<1> DEFINE t == ref[r]
<1>1. /\ isr # NoIsr /\ ref[r] # None /\ ref' = [ref EXCEPT ![r] = None] /\ ReadyI(t, "ok")
      /\ UNCHANGED <<cur, prio, slices, timer, owner, mtxlist, queue, waiting, isr, missed, walk>>
  BY DEF ResumeI
<1>2. SwitchTypes /\ SchedInv /\ prio \in Prios /\ WaitInv /\ walk = NoWalk
  BY <1>1 DEF Inv, RestTypes, WalkInv
<1>3. t \in Thread /\ state[t] = "suspended" /\ \A x \in Ref : ref[x] = t <=> x = r
  BY <1>1 DEF Inv, RestTypes, WaitInv
<1> HIDE DEF t
<1>4. /\ SwitchTypes' /\ SchedInv' /\ Others({t}) /\ Kept /\ state'[t] = "ready"
      /\ Sorted(ready, prio) => Sorted(ready', prio')
  <2>1. /\ state[t] \notin Runnable /\ "ok" \in Msg /\ prio' = prio
        /\ UNCHANGED <<cur, slices, missed>> /\ timer' = timer
    BY <1>1, <1>3 DEF Runnable, Msg
  <2> QED
    BY <1>1, <1>2, <1>3, <2>1, ReadyIOK
<1>5. WaitInv'
  <2>1. \A x \in Ref : ref'[x] # t
    BY <1>1, <1>3 DEF Inv, RestTypes
  <2>2. \A x \in Ref, y \in Thread \ {t} : ref'[x] = y <=> ref[x] = y
    BY <1>1, <1>3 DEF Inv, RestTypes
  <2> QED
    BY <1>2, <1>3, <1>4, <2>1, <2>2, WaitKept
<1>6. OrderInv => Sorted(ready', prio) /\ (isr' = NoIsr /\ ~missed' => Top')
  BY <1>1, <1>4 DEF OrderInv
<1>7. /\ ref' \in [Ref -> Thread \cup {None}] /\ isr' \in {NoIsr, "tick", "irq"}
      /\ state[t] \notin {"wtmtx", "wtexit"} /\ state'[t] \notin {"wtmtx", "wtexit", "final"}
  BY <1>1, <1>3, <1>4 DEF Inv, RestTypes
<1> QED
  BY <1>1, <1>2, <1>3, <1>4, <1>5, <1>6, <1>7, CallKept

(* wakeup, the callback of a thread's timer *)
LEMMA TimeoutOK == ASSUME Inv, NEW t \in Thread, Timeout(t) PROVE Good
<1>1. /\ isr = "tick" /\ timer[t] /\ timer' = [timer EXCEPT ![t] = FALSE]
      /\ UNCHANGED <<cur, prio, slices, owner, mtxlist, queue, waiting, isr, missed, walk>>
  BY DEF Timeout
<1>2. SwitchTypes /\ SchedInv /\ prio \in Prios /\ WaitInv /\ walk = NoWalk
  BY <1>1 DEF Inv, RestTypes, WalkInv, NoIsr
<1>3. isr' \in {NoIsr, "tick", "irq"} /\ isr' # NoIsr
  BY <1>1 DEF NoIsr
<1>4. CASE state[t] = "ready"
  <2>1. UNCHANGED <<u, ready, state, ref>>
    BY <1>4 DEF Timeout
  <2>2. SwitchTypes' /\ SchedInv' /\ Kept
    BY <1>1, <1>2, <2>1 DEF SwitchTypes, SchedInv, Kept
  <2>3. Others({})
    BY <1>1, <1>2, <1>4, <2>1 DEF Others, SwitchTypes, Runnable
  <2>4. WaitInv' /\ ref' \in [Ref -> Thread \cup {None}]
    BY <1>2, <2>1, <2>3, WaitKept DEF Inv, RestTypes
  <2>5. OrderInv => Sorted(ready', prio)
    BY <2>1 DEF OrderInv
  <2> QED
    BY <1>1, <1>2, <1>3, <2>2, <2>3, <2>4, <2>5, CallKept
<1>5. CASE state[t] # "ready"
  <2>1. /\ ref' = IF state[t] = "suspended" THEN [ref EXCEPT ![u[t]] = None] ELSE ref
        /\ ReadyI(t, "timeout")
    BY <1>5 DEF Timeout
  <2>2. state[t] \in {"suspended", "sleeping"} /\ state[t] \notin Runnable
    BY <1>1, <1>2, <1>5 DEF WaitInv, Runnable
  <2>3. /\ SwitchTypes' /\ SchedInv' /\ Others({t}) /\ Kept /\ state'[t] = "ready"
        /\ Sorted(ready, prio) => Sorted(ready', prio')
    <3>1. "timeout" \in Msg /\ prio' = prio /\ UNCHANGED <<cur, slices, missed>>
      BY <1>1 DEF Msg
    <3> QED
      BY <1>1, <1>2, <2>1, <2>2, <3>1, ReadyIOK
  <2>4. /\ ref' \in [Ref -> Thread \cup {None}]
        /\ \A x \in Ref : ref'[x] # t
        /\ \A x \in Ref, y \in Thread \ {t} : ref'[x] = y <=> ref[x] = y
    <3>1. ref \in [Ref -> Thread \cup {None}]
      BY DEF Inv, RestTypes
    <3>2. CASE state[t] = "suspended"
      <4>1. u[t] \in Ref /\ \A x \in Ref : ref[x] = t <=> x = u[t]
        BY <1>2, <3>2 DEF WaitInv
      <4> QED
        BY <2>1, <3>1, <3>2, <4>1
    <3>3. CASE state[t] # "suspended"
      <4>1. \A x \in Ref : ref[x] # t
        BY <1>2, <3>3 DEF WaitInv
      <4> QED
        BY <2>1, <3>1, <3>3, <4>1
    <3> QED
      BY <3>2, <3>3
  <2>5. WaitInv'
    BY <1>2, <2>3, <2>4, WaitKept
  <2>6. OrderInv => Sorted(ready', prio)
    BY <1>1, <2>3 DEF OrderInv
  <2> QED
    BY <1>1, <1>2, <1>3, <2>2, <2>3, <2>4, <2>5, <2>6, CallKept
<1> QED
  BY <1>4, <1>5

(* threadSleep, threadSleepUntil and delay *)
LEMMA SleepOK == ASSUME Inv, Sleep PROVE Good
<1> DEFINE tm == [timer EXCEPT ![cur] = TRUE]
<1>1. /\ Running /\ cur # Main /\ GoSleep("sleeping", None, ready, tm)
      /\ UNCHANGED <<prio, ref, owner, mtxlist, queue, waiting, isr, walk>>
  BY DEF Sleep, InApp
<1>2. SwitchTypes /\ SchedInv /\ prio \in Prios /\ WaitInv /\ cur \in Thread
  BY DEF Inv, RestTypes, SwitchTypes
<1>3. tm \in [Thread -> BOOLEAN] /\ tm[cur] = TRUE /\ \A x \in Thread \ {cur} : tm[x] = timer[x]
  BY <1>2 DEF SwitchTypes
<1> HIDE DEF tm
<1>4. /\ SwitchTypes' /\ SchedInv' /\ Others({cur}) /\ Kept
      /\ state'[cur] = "sleeping" /\ timer'[cur] = TRUE
      /\ Sorted(ready, prio') => Sorted(ready', prio') /\ Top'
  <2>1. ready \in Queue /\ "sleeping" \in State \ Runnable /\ None \in Value /\ prio' \in Prios
    BY <1>1, <1>2 DEF SchedInv, Runnable, State, Value
  <2> QED
    BY <1>1, <1>2, <1>3, <2>1, GoSleepOK
<1>5. WaitInv'
  <2>1. \A x \in Ref : ref[x] # cur
    BY <1>2 DEF SchedInv, WaitInv
  <2> QED
    BY <1>1, <1>2, <1>4, <2>1, WaitKept
<1>6. OrderInv => Sorted(ready', prio) /\ (isr' = NoIsr /\ ~missed' => Top')
  BY <1>1, <1>4 DEF OrderInv
<1>7. /\ ref' \in [Ref -> Thread \cup {None}] /\ isr' \in {NoIsr, "tick", "irq"} /\ walk = NoWalk
      /\ state[cur] \notin {"wtmtx", "wtexit"} /\ state'[cur] \notin {"wtmtx", "wtexit", "final"}
  BY <1>1, <1>2, <1>4 DEF Inv, RestTypes, Running, SchedInv
<1> QED
  BY <1>1, <1>2, <1>4, <1>5, <1>6, <1>7, CallKept

(* A switch to the first of the ready list, which is as urgent as the      *)
(* current thread                                                          *)
LEMMA SwitchGood ==
  ASSUME Inv, walk = NoWalk, FirstPrio(ready, prio) >= prio[cur],
         RescheduleBehind \/ (RescheduleAhead(ready, prio, state) /\ UNCHANGED slices),
         isr' = NoIsr, UNCHANGED <<prio, ref, owner, mtxlist, queue, waiting, walk>>
  PROVE  Good
<1>1. SwitchTypes /\ SchedInv /\ prio \in Prios /\ WaitInv /\ cur \in Thread /\ ready \in Queue
  BY DEF Inv, RestTypes, SwitchTypes, SchedInv
<1>2. ready # <<>>
  <2>1. prio[cur] \in Nat \ {0} /\ FirstPrio(ready, prio) \in Nat
    BY <1>1, FirstOK DEF Prios
  <2> QED
    BY <1>1, <2>1, FirstOK
<1>3. /\ MakeCurrent(Head(ready), [state EXCEPT ![cur] = "ready"], timer, u) /\ missed' = FALSE
      /\ \/ ready' = InsertBehind(Tail(ready), cur, prio')
         \/ ready' = InsertAhead(Tail(ready), cur, prio')
  BY DEF RescheduleBehind, RescheduleAhead
<1>4. slices' \in [Thread -> 0 .. Quantum] /\ prio' \in Prios
  <2>1. Quantum \in 0 .. Quantum
    OBVIOUS
  <2> QED
    BY <1>1, <2>1 DEF RescheduleBehind, SwitchTypes
<1>5. /\ SwitchTypes' /\ SchedInv' /\ Others({}) /\ Kept
      /\ Sorted(ready, prio') => Sorted(ready', prio') /\ Top'
  <2>1. state \in [Thread -> State] /\ ToSet(ready) = {t \in Thread : state[t] = "ready"}
    BY <1>1 DEF SwitchTypes, SchedInv
  <2>2. prio'[cur] <= FirstPrio(ready, prio')
    <3>1. prio[cur] \in Nat /\ FirstPrio(ready, prio) \in Nat
      BY <1>1, FirstOK DEF Prios
    <3> QED
      BY <3>1
  <2>3. PICK A : A = {}
    OBVIOUS
  <2>4. /\ A \subseteq Thread /\ cur \notin A /\ \A x \in A : state[x] = "ready"
        /\ \A x \in Thread \ A : state[x] = state[x]
    BY <2>3
  <2>5. /\ SwitchTypes' /\ SchedInv' /\ Others(A) /\ Kept
        /\ Sorted(ready, prio') => Sorted(ready', prio')
        /\ Sorted(ready, prio') /\ prio'[cur] <= FirstPrio(ready, prio') => Top'
    BY <1>1, <1>2, <1>3, <1>4, <2>1, <2>4, SwitchOK
  <2> QED
    BY <2>2, <2>3, <2>5
<1>6. WaitInv'
  BY <1>1, <1>5, WaitKept
<1>7. OrderInv => Sorted(ready', prio) /\ (isr' = NoIsr /\ ~missed' => Top')
  BY <1>5 DEF OrderInv
<1>8. ref' \in [Ref -> Thread \cup {None}]
  BY DEF Inv, RestTypes
<1> QED
  BY <1>5, <1>6, <1>7, <1>8, CallKept

(* A step that leaves the threads alone *)
LEMMA StillGood ==
  ASSUME Inv, walk = NoWalk, isr' \in {NoIsr, "tick", "irq"},
         slices' \in [Thread -> 0 .. Quantum], missed' \in BOOLEAN,
         UNCHANGED <<cur, ready, state, prio, u, timer, ref, owner, mtxlist, queue, waiting, walk>>,
         OrderInv => (isr' = NoIsr /\ ~missed' => Top)
  PROVE  Good
<1>1. SwitchTypes' /\ SchedInv' /\ WaitInv' /\ Kept
  BY DEF Inv, SwitchTypes, SchedInv, WaitInv, Kept
<1>2. Others({})
  BY DEF Others
<1>3. OrderInv => Sorted(ready', prio) /\ (isr' = NoIsr /\ ~missed' => Top')
  BY DEF OrderInv, Top
<1>4. ref' \in [Ref -> Thread \cup {None}]
  BY DEF Inv, RestTypes
<1> QED
  BY <1>1, <1>2, <1>3, <1>4, CallKept

(* yieldThread *)
LEMMA YieldOK == ASSUME Inv, Yield PROVE Good
<1>1. /\ Running /\ FirstPrio(ready, prio) >= prio[cur] /\ RescheduleBehind
      /\ UNCHANGED <<prio, ref, owner, mtxlist, queue, waiting, isr, walk>>
  BY DEF Yield, InApp
<1> QED
  BY <1>1, SwitchGood DEF Running

(* An interrupt begins, *)
LEMMA InterruptOK == ASSUME Inv, Interrupt \/ Tick PROVE Good
<1>1. /\ Running /\ isr' \in {"tick", "irq"}
      /\ UNCHANGED <<cur, ready, state, prio, u, timer, ref, owner, mtxlist, queue, waiting, missed, walk>>
      /\ \/ slices' = slices
         \/ slices' = [slices EXCEPT ![cur] = IF @ > 0 THEN @ - 1 ELSE 0]
  BY DEF Interrupt, Tick
<1>2. slices' \in [Thread -> 0 .. Quantum]
  <2>1. cur \in Thread /\ slices \in [Thread -> 0 .. Quantum]
    BY DEF Inv, SwitchTypes
  <2>2. (IF slices[cur] > 0 THEN slices[cur] - 1 ELSE 0) \in 0 .. Quantum
    <3>1. slices[cur] \in 0 .. Quantum
      BY <2>1
    <3> QED
      BY <3>1
  <2> QED
    BY <1>1, <2>1, <2>2
<1>3. walk = NoWalk /\ isr' # NoIsr /\ isr' \in {NoIsr, "tick", "irq"} /\ missed' \in BOOLEAN
  BY <1>1 DEF Running, NoIsr, Inv, SwitchTypes
<1> QED
  BY <1>1, <1>2, <1>3, StillGood

(* and returns, *)
LEMMA EpilogueOK == ASSUME Inv, Epilogue PROVE Good
<1> DEFINE p1 == FirstPrio(ready, prio)
           p2 == prio[cur]
<1>1. /\ isr # NoIsr /\ isr' = NoIsr
      /\ UNCHANGED <<prio, ref, owner, mtxlist, queue, waiting, walk>>
      /\ \/ slices[cur] > 0 /\ p1 > p2 /\ RescheduleAhead(ready, prio, state) /\ UNCHANGED slices
         \/ slices[cur] = 0 /\ p1 >= p2 /\ RescheduleBehind
         \/ /\ IF slices[cur] > 0 THEN p1 <= p2 ELSE p1 < p2
            /\ missed' = FALSE
            /\ UNCHANGED <<cur, ready, state, u, timer, slices>>
  BY DEF Epilogue
<1>2. walk = NoWalk
  BY <1>1 DEF Inv, WalkInv
<1>3. p1 \in Nat /\ p2 \in Nat /\ (OrderInv => \A x \in ToSet(ready) : prio[x] <= p1)
  BY FirstOK DEF Inv, RestTypes, SwitchTypes, SchedInv, Prios, OrderInv
<1>4. \A x \in ToSet(ready) : prio[x] \in Nat
  BY QueueFacts DEF Inv, RestTypes, SchedInv, Prios
<1>5. CASE p1 > p2 /\ RescheduleAhead(ready, prio, state) /\ UNCHANGED slices
  BY <1>1, <1>2, <1>3, <1>5, SwitchGood
<1>6. CASE p1 >= p2 /\ RescheduleBehind
  BY <1>1, <1>2, <1>6, SwitchGood
<1>7. CASE /\ IF slices[cur] > 0 THEN p1 <= p2 ELSE p1 < p2
           /\ missed' = FALSE
           /\ UNCHANGED <<cur, ready, state, u, timer, slices>>
  <2> HIDE DEF p1
  <2>1. p1 <= p2
    BY <1>3, <1>7
  <2>2. OrderInv => Top
    BY <1>3, <1>4, <2>1 DEF Top
  <2>3. slices' \in [Thread -> 0 .. Quantum] /\ missed' \in BOOLEAN /\ isr' \in {NoIsr, "tick", "irq"}
    BY <1>1, <1>7 DEF Inv, SwitchTypes
  <2> QED
    BY <1>1, <1>2, <1>7, <2>2, <2>3, StillGood
<1> QED
  BY <1>1, <1>5, <1>6, <1>7

(* or does so without an epilogue. *)
LEMMA ReturnBareOK == ASSUME Inv, ReturnBare PROVE Good
<1> DEFINE p1 == FirstPrio(ready, prio)
           p2 == prio[cur]
<1>1. /\ isr = "irq" /\ isr' = NoIsr /\ missed' = (missed \/ p1 > p2)
      /\ UNCHANGED <<cur, ready, state, prio, slices, u, timer, ref, owner, mtxlist, queue, waiting, walk>>
  BY DEF ReturnBare
<1>2. walk = NoWalk /\ isr' \in {NoIsr, "tick", "irq"}
  BY <1>1 DEF Inv, WalkInv, NoIsr
<1>3. p1 \in Nat /\ p2 \in Nat /\ (OrderInv => \A x \in ToSet(ready) : prio[x] <= p1)
  BY FirstOK DEF Inv, RestTypes, SwitchTypes, SchedInv, Prios, OrderInv
<1>4. \A x \in ToSet(ready) : prio[x] \in Nat
  BY QueueFacts DEF Inv, RestTypes, SchedInv, Prios
<1>5. slices' \in [Thread -> 0 .. Quantum] /\ missed' \in BOOLEAN
  <2>1. missed \in BOOLEAN /\ slices \in [Thread -> 0 .. Quantum]
    BY DEF Inv, SwitchTypes
  <2> HIDE DEF p1, p2
  <2> QED
    BY <1>1, <2>1
<1>6. OrderInv => (isr' = NoIsr /\ ~missed' => Top)
  <2>1. ASSUME ~missed' PROVE p1 <= p2
    <3>1. ~(p1 > p2)
      BY <1>1, <2>1, Zenon
    <3> HIDE DEF p1, p2
    <3> QED
      BY <1>3, <3>1
  <2> HIDE DEF p1
  <2> QED
    BY <1>3, <1>4, <2>1 DEF Top
<1> QED
  BY <1>1, <1>2, <1>5, <1>6, StillGood

-----------------------------------------------------------------------------
(* A list that e is put in front of *)
LEMMA Consed ==
  ASSUME NEW S, NEW l \in Seq(S), IsInjective(l), NEW e \in S, e \notin ToSet(l)
  PROVE  /\ <<e>> \o l \in Seq(S) /\ IsInjective(<<e>> \o l)
         /\ ToSet(<<e>> \o l) = ToSet(l) \cup {e}
<1> DEFINE m == <<e>> \o l
<1>1. /\ m \in Seq(S) /\ DOMAIN m = 1 .. Len(l) + 1 /\ Len(l) \in Nat
      /\ \A j \in 1 .. Len(l) + 1 : m[j] = IF j = 1 THEN e ELSE l[j - 1]
  <2>1. <<e>> \in Seq(S) /\ Len(<<e>>) = 1 /\ <<e>>[1] = e
    OBVIOUS
  <2>2. /\ m \in Seq(S) /\ Len(m) = 1 + Len(l)
        /\ \A j \in 1 .. 1 + Len(l) : m[j] = IF j <= 1 THEN <<e>>[j] ELSE l[j - 1]
    BY <2>1, ConcatProperties
  <2>3. DOMAIN m = 1 .. Len(m) /\ Len(l) \in Nat
    BY <2>2
  <2> QED
    BY <2>1, <2>2, <2>3
<1> HIDE DEF m
<1>2. \A x : x \in ToSet(l) <=> \E i \in 1 .. Len(l) : l[i] = x
  BY DEF ToSet
<1>3. \A x : x \in ToSet(m) <=> \E i \in 1 .. Len(l) + 1 : m[i] = x
  BY <1>1 DEF ToSet
<1>4. ASSUME NEW j \in 1 .. Len(l) + 1 PROVE m[j] \in ToSet(l) \cup {e}
  <2>1. CASE j = 1
    BY <1>1, <2>1
  <2>2. CASE j # 1
    <3>1. j - 1 \in 1 .. Len(l) /\ m[j] = l[j - 1]
      BY <1>1, <2>2
    <3> QED
      BY <1>2, <3>1
  <2> QED
    BY <2>1, <2>2
<1>5. ASSUME NEW i \in 1 .. Len(l) PROVE l[i] \in ToSet(m)
  <2>1. i + 1 \in 1 .. Len(l) + 1 /\ i + 1 # 1 /\ (i + 1) - 1 = i
    BY <1>1
  <2>2. m[i + 1] = l[i]
    BY <1>1, <2>1
  <2> QED
    BY <1>3, <2>1, <2>2
<1>6. e \in ToSet(m)
  <2>1. 1 \in 1 .. Len(l) + 1 /\ m[1] = e
    BY <1>1
  <2> QED
    BY <1>3, <2>1
<1>7. ToSet(m) = ToSet(l) \cup {e}
  BY <1>2, <1>3, <1>4, <1>5, <1>6
<1>8. \A i, j \in 1 .. Len(l) : l[i] = l[j] => i = j
  BY <1>1 DEF IsInjective
<1>9. ASSUME NEW i \in 1 .. Len(l) + 1, NEW j \in 1 .. Len(l) + 1, i < j PROVE m[i] # m[j]
  <2>1. j - 1 \in 1 .. Len(l) /\ m[j] = l[j - 1]
    BY <1>1, <1>9
  <2>2. CASE i = 1
    BY <1>1, <1>2, <2>1, <2>2
  <2>3. CASE i # 1
    <3>1. i - 1 \in 1 .. Len(l) /\ m[i] = l[i - 1] /\ i - 1 # j - 1
      BY <1>1, <1>9, <2>3
    <3> QED
      BY <1>8, <2>1, <3>1
  <2> QED
    BY <2>2, <2>3
<1>10. IsInjective(m)
  <2>1. \A i, j \in 1 .. Len(l) + 1 : m[i] = m[j] => i = j
    BY <1>1, <1>9
  <2> QED
    BY <1>1, <2>1 DEF IsInjective
<1> QED
  BY <1>1, <1>7, <1>10 DEF m

(* A list without its first entry *)
LEMMA Tailed ==
  ASSUME NEW S, NEW l \in Seq(S), IsInjective(l), l # <<>>
  PROVE  /\ Tail(l) \in Seq(S) /\ IsInjective(Tail(l))
         /\ Head(l) \in ToSet(l) /\ Head(l) \in S
         /\ ToSet(Tail(l)) = ToSet(l) \ {Head(l)}
<1> DEFINE m == Tail(l)
<1>1. /\ m \in Seq(S) /\ Len(m) = Len(l) - 1 /\ Len(l) \in Nat \ {0}
      /\ \A j \in 1 .. Len(m) : m[j] = l[j + 1]
  BY HeadTailProperties
<1>2. Head(l) = l[1] /\ 1 \in 1 .. Len(l) /\ l[1] \in S
  BY <1>1
<1> HIDE DEF m
<1>3. DOMAIN m = 1 .. Len(l) - 1 /\ DOMAIN l = 1 .. Len(l)
  BY <1>1
<1>4. \A x : x \in ToSet(l) <=> \E i \in 1 .. Len(l) : l[i] = x
  BY <1>3 DEF ToSet
<1>5. \A x : x \in ToSet(m) <=> \E i \in 1 .. Len(l) - 1 : m[i] = x
  BY <1>3 DEF ToSet
<1>6. \A i, j \in 1 .. Len(l) : l[i] = l[j] => i = j
  BY <1>3 DEF IsInjective
<1>7. ASSUME NEW j \in 1 .. Len(l) - 1
      PROVE  j + 1 \in 1 .. Len(l) /\ m[j] = l[j + 1] /\ l[j + 1] # l[1]
  <2>1. j + 1 \in 1 .. Len(l) /\ j + 1 # 1 /\ j \in 1 .. Len(m)
    BY <1>1
  <2> QED
    BY <1>1, <1>2, <1>6, <2>1
<1>8. ASSUME NEW i \in 1 .. Len(l), l[i] # l[1] PROVE l[i] \in ToSet(m)
  <2>1. i - 1 \in 1 .. Len(l) - 1 /\ (i - 1) + 1 = i
    BY <1>1, <1>8
  <2>2. m[i - 1] = l[i]
    BY <1>7, <2>1
  <2> QED
    BY <1>5, <2>1, <2>2
<1>9. ToSet(m) = ToSet(l) \ {l[1]}
  <2>1. ASSUME NEW x \in ToSet(m) PROVE x \in ToSet(l) \ {l[1]}
    <3>1. PICK j \in 1 .. Len(l) - 1 : m[j] = x
      BY <1>5
    <3> QED
      BY <1>4, <1>7, <3>1
  <2>2. ASSUME NEW x \in ToSet(l) \ {l[1]} PROVE x \in ToSet(m)
    BY <1>4, <1>8
  <2> QED
    BY <2>1, <2>2
<1>10. IsInjective(m)
  <2>1. ASSUME NEW i \in 1 .. Len(l) - 1, NEW j \in 1 .. Len(l) - 1, m[i] = m[j] PROVE i = j
    <3>1. i + 1 = j + 1
      BY <1>6, <1>7, <2>1
    <3> QED
      BY <1>1, <3>1
  <2> QED
    BY <1>3, <2>1 DEF IsInjective
<1> QED
  BY <1>1, <1>2, <1>4, <1>9, <1>10 DEF m

-----------------------------------------------------------------------------
(* waitThread *)
LEMMA WaitOK == ASSUME Inv, NEW t \in Thread, Wait(t) PROVE Good
<1>1. /\ Running /\ cur # Main /\ t # cur /\ state[t] \notin {"wtstart", "final"}
      /\ waiting' = [waiting EXCEPT ![t] = <<cur>> \o @]
      /\ GoSleep("wtexit", None, ready, timer)
      /\ UNCHANGED <<prio, ref, owner, mtxlist, queue, isr, walk>>
  BY DEF Wait, InApp
<1>2. /\ SwitchTypes /\ SchedInv /\ prio \in Prios /\ WaitInv /\ cur \in Thread
      /\ timer \in [Thread -> BOOLEAN] /\ state[cur] = "current" /\ waiting \in [Thread -> Queue]
  BY DEF Inv, RestTypes, SwitchTypes, SchedInv
<1>3. /\ SwitchTypes' /\ SchedInv' /\ Others({cur}) /\ Kept
      /\ state'[cur] = "wtexit" /\ timer'[cur] = timer[cur]
      /\ Sorted(ready, prio') => Sorted(ready', prio') /\ Top'
  <2>1. /\ ready \in Queue /\ "wtexit" \in State \ Runnable /\ None \in Value /\ prio' \in Prios
        /\ ToSet(ready) = ToSet(ready) /\ \A x \in Thread \ {cur} : timer[x] = timer[x]
    BY <1>1, <1>2 DEF SchedInv, Runnable, State, Value
  <2> QED
    BY <1>1, <1>2, <2>1, GoSleepOK
<1>4. WaitInv'
  <2>1. ~timer[cur] /\ \A x \in Ref : ref[x] # cur
    BY <1>2 DEF WaitInv
  <2> QED
    BY <1>1, <1>2, <1>3, <2>1, WaitKept
<1>5. QueueInv'
  <2>1. state[cur] # "wtmtx" /\ state'[cur] # "wtmtx" /\ UNCHANGED queue /\ QueueInv
    BY <1>1, <1>2, <1>3 DEF Inv
  <2> QED
    BY <1>2, <1>3, <2>1, QueueKept
<1>6. \A s \in Thread : cur \notin ToSet(waiting[s])
  BY <1>2 DEF Inv, ExitInv
<1>7. waiting[t] \in Seq(Thread) /\ IsInjective(waiting[t])
  BY <1>2 DEF Queue
<1>8. /\ <<cur>> \o waiting[t] \in Queue
      /\ ToSet(<<cur>> \o waiting[t]) = ToSet(waiting[t]) \cup {cur}
  <2>1. cur \notin ToSet(waiting[t])
    BY <1>6
  <2> QED
    BY <1>2, <1>7, <2>1, Consed DEF Queue
<1>9. /\ waiting' \in [Thread -> Queue]
      /\ ToSet(waiting'[t]) = ToSet(waiting[t]) \cup {cur}
      /\ \A s \in Thread \ {t} : waiting'[s] = waiting[s]
  BY <1>1, <1>2, <1>8
<1>10. ExitInv'
  <2>1. ASSUME NEW x \in Thread \ {cur}
        PROVE  /\ state'[x] = "wtexit" <=> state[x] = "wtexit"
               /\ state'[x] = "final" <=> state[x] = "final"
    BY <1>3 DEF Others, Runnable
  <2>2. \A s \in Thread : ToSet(waiting[s]) \subseteq Thread
    BY <1>2, QueueFacts
  <2>3. ASSUME NEW s \in Thread, NEW w \in ToSet(waiting'[s]) PROVE state'[w] = "wtexit"
    <3>1. w = cur \/ w \in ToSet(waiting[s])
      BY <1>9
    <3>2. w \in ToSet(waiting[s]) => state[w] = "wtexit" /\ w \in Thread
      BY <2>2 DEF Inv, ExitInv
    <3> QED
      BY <1>2, <1>3, <2>1, <3>1, <3>2
  <2>4. ASSUME NEW w \in Thread, state'[w] = "wtexit"
        PROVE  \E s \in Thread : w \in ToSet(waiting'[s]) /\ state'[s] # "final"
    <3>1. CASE w = cur
      <4>1. cur \in ToSet(waiting'[t]) /\ state'[t] # "final"
        BY <1>1, <1>9, <2>1
      <4> QED
        BY <3>1, <4>1
    <3>2. CASE w # cur
      <4>1. PICK s \in Thread : w \in ToSet(waiting[s]) /\ state[s] # "final"
        BY <2>1, <2>4, <3>2 DEF Inv, ExitInv
      <4>2. w \in ToSet(waiting'[s]) /\ state'[s] # "final"
        BY <1>3, <1>9, <2>1, <4>1
      <4> QED
        BY <4>2
    <3> QED
      BY <3>1, <3>2
  <2>5. ASSUME NEW s \in Thread, NEW x \in Thread, s # x
        PROVE  ToSet(waiting'[s]) \cap ToSet(waiting'[x]) = {}
    <3>1. ToSet(waiting[s]) \cap ToSet(waiting[x]) = {}
      BY <2>5 DEF Inv, ExitInv
    <3> QED
      BY <1>6, <1>9, <2>5, <3>1
  <2> QED
    BY <2>3, <2>4, <2>5 DEF ExitInv
<1>11. RestTypes' /\ OwnInv' /\ WalkInv'
  BY <1>1, <1>9 DEF Inv, RestTypes, OwnInv, WalkInv, Running
<1>12. OrderInv => OrderInv'
  BY <1>1, <1>3 DEF OrderInv
<1> QED
  BY <1>3, <1>4, <1>5, <1>10, <1>11, <1>12 DEF Good, Inv

(* mutexLock and mutexTryLock of a free mutex *)
LEMMA TakeOK == ASSUME Inv, NEW m \in Mutex, Take(m) PROVE Good
<1>1. /\ Running /\ owner[m] = None /\ owner' = [owner EXCEPT ![m] = cur]
      /\ mtxlist' = [mtxlist EXCEPT ![cur] = <<m>> \o @]
      /\ UNCHANGED <<cur, ready, state, prio, slices, u, timer, ref, queue, waiting, isr, missed, walk>>
  BY DEF Take, InApp
<1>2. /\ cur \in Thread /\ owner \in [Mutex -> Thread \cup {None}]
      /\ mtxlist \in [Thread -> Seq(Mutex)] /\ OwnInv
  BY DEF Inv, SwitchTypes, RestTypes
<1>3. /\ <<m>> \o mtxlist[cur] \in Seq(Mutex) /\ IsInjective(<<m>> \o mtxlist[cur])
      /\ ToSet(<<m>> \o mtxlist[cur]) = ToSet(mtxlist[cur]) \cup {m}
  <2>1. m \notin ToSet(mtxlist[cur]) /\ IsInjective(mtxlist[cur]) /\ mtxlist[cur] \in Seq(Mutex)
    BY <1>1, <1>2 DEF OwnInv
  <2> QED
    BY <2>1, Consed
<1>4. /\ owner' \in [Mutex -> Thread \cup {None}] /\ mtxlist' \in [Thread -> Seq(Mutex)]
      /\ owner'[m] = cur /\ \A n \in Mutex \ {m} : owner'[n] = owner[n]
      /\ IsInjective(mtxlist'[cur]) /\ ToSet(mtxlist'[cur]) = ToSet(mtxlist[cur]) \cup {m}
      /\ \A t \in Thread \ {cur} : mtxlist'[t] = mtxlist[t]
  BY <1>1, <1>2, <1>3
<1>5. OwnInv'
  <2>1. ASSUME NEW n \in Mutex, NEW t \in Thread PROVE owner'[n] = t <=> n \in ToSet(mtxlist'[t])
    <3>1. owner[n] = t <=> n \in ToSet(mtxlist[t])
      BY <1>2 DEF OwnInv
    <3> QED
      BY <1>1, <1>4, <3>1
  <2>2. \A t \in Thread : IsInjective(mtxlist'[t])
    BY <1>2, <1>4 DEF OwnInv
  <2>3. \A n \in Mutex : owner'[n] = None => queue'[n] = <<>>
    BY <1>1, <1>2, <1>4 DEF OwnInv
  <2> QED
    BY <2>1, <2>2, <2>3 DEF OwnInv
<1>6. SwitchTypes' /\ RestTypes'
  BY <1>1, <1>4 DEF Inv, SwitchTypes, RestTypes
<1>7. SchedInv' /\ WaitInv' /\ QueueInv' /\ ExitInv' /\ Kept
  <2>1. UNCHANGED <<cur, ready, state, u, timer, ref, queue, waiting>>
    BY <1>1
  <2>2. SchedInv' /\ WaitInv' /\ Kept
    BY <2>1 DEF Inv, SchedInv, WaitInv, Kept
  <2>3. QueueInv' /\ ExitInv'
    BY <2>1 DEF Inv, QueueInv, ExitInv
  <2> QED
    BY <2>2, <2>3
<1>8. WalkInv'
  BY <1>1 DEF WalkInv, Running
<1>9. OrderInv => OrderInv'
  BY <1>1 DEF OrderInv, Running, Top
<1> QED
  BY <1>5, <1>6, <1>7, <1>8, <1>9 DEF Good, Inv

(* mutexLock of a mutex that has an owner *)
LEMMA LockOK == ASSUME Inv, NEW m \in Mutex, Lock(m) PROVE Good
<1>1. /\ Running /\ cur # Main /\ owner[m] \notin {None, cur} /\ walk' = <<m, owner[m]>>
      /\ UNCHANGED <<cur, ready, state, prio, slices, u, timer, ref, owner, mtxlist, queue, waiting, isr, missed>>
  BY DEF Lock, InApp
<1>2. owner[m] \in Thread
  BY <1>1 DEF Inv, RestTypes
<1>3. walk' \in Mutex \X Thread /\ walk'[1] = m /\ walk' # NoWalk
  BY <1>1, <1>2 DEF NoWalk
<1>4. SwitchTypes' /\ RestTypes'
  BY <1>1, <1>3 DEF Inv, SwitchTypes, RestTypes
<1>5. SchedInv' /\ WaitInv' /\ QueueInv' /\ ExitInv' /\ OwnInv' /\ Kept
  BY <1>1 DEF Inv, SchedInv, WaitInv, QueueInv, ExitInv, OwnInv, Kept
<1>6. WalkInv'
  BY <1>1, <1>3 DEF WalkInv, Running
<1>7. OrderInv => OrderInv'
  BY <1>1, <1>3 DEF OrderInv, Running
<1> QED
  BY <1>4, <1>5, <1>6, <1>7 DEF Good, Inv

(* exitThread *)
LEMMA ExitOK == ASSUME Inv, Exit PROVE Good
<1> DEFINE W == ToSet(waiting[cur])
           rd == ReadyAll(ready, waiting[cur])
           h == Head(rd)
           st == [t \in Thread |-> IF t = cur THEN "final"
                                   ELSE IF t \in W THEN "ready" ELSE state[t]]
           A == W \cup {cur}
<1>1. /\ Running /\ cur # Main /\ mtxlist[cur] = <<>>
      /\ waiting' = [waiting EXCEPT ![cur] = <<>>]
      /\ ready' = Tail(rd) /\ MakeCurrent(h, st, timer, [u EXCEPT ![cur] = "ok"])
      /\ missed' = FALSE /\ slices' = [slices EXCEPT ![cur] = Quantum]
      /\ UNCHANGED <<prio, ref, owner, mtxlist, queue, isr, walk>>
  BY DEF Exit, InApp
<1>2. /\ SwitchTypes /\ SchedInv /\ prio \in Prios /\ WaitInv /\ cur \in Thread
      /\ state[cur] = "current" /\ waiting \in [Thread -> Queue] /\ ready \in Queue
      /\ ToSet(ready) = {t \in Thread : state[t] = "ready"} /\ state \in [Thread -> State]
  BY DEF Inv, RestTypes, SwitchTypes, SchedInv
<1>3. W \subseteq Thread /\ cur \notin W /\ \A w \in W : state[w] = "wtexit"
  <2>1. W \subseteq Thread
    BY <1>2, QueueFacts
  <2>2. \A w \in W : state[w] = "wtexit"
    BY <1>2 DEF Inv, ExitInv
  <2> QED
    BY <1>2, <2>1, <2>2
<1>4. rd \in Queue /\ ToSet(rd) = ToSet(ready) \cup W /\ (Sorted(ready, prio) => Sorted(rd, prio))
  <2>1. W \cap ToSet(ready) = {} /\ waiting[cur] \in Queue
    BY <1>2, <1>3
  <2> QED
    BY <1>2, <2>1, ReadyAllOK
<1>5. rd # <<>>
  <2>1. Main \in ToSet(ready)
    BY <1>1, <1>2 DEF SchedInv, Runnable
  <2> QED
    BY <1>4, <2>1, QueueFacts
<1> HIDE DEF rd
<1>6. /\ Unlinked(Tail(rd), rd, h, prio) /\ h \in ToSet(rd) /\ h \in Thread
      /\ Sorted(rd, prio) => \A x \in ToSet(rd) \ {h} : prio[x] <= prio[h]
  BY <1>4, <1>5, TailOK
<1>7. /\ cur' = h /\ u' = [[u EXCEPT ![cur] = "ok"] EXCEPT ![h] = None]
      /\ state' = [st EXCEPT ![h] = "current"] /\ timer' = [timer EXCEPT ![h] = FALSE]
  BY <1>1 DEF MakeCurrent
<1>8. h # cur /\ (state[h] = "ready" \/ h \in W)
  BY <1>2, <1>3, <1>4, <1>6
<1> HIDE DEF h
<1>9. /\ st[cur] = "final" /\ \A x \in W : st[x] = "ready"
      /\ \A x \in Thread \ A : st[x] = state[x]
  BY <1>2, <1>3
<1>10. st \in [Thread -> State]
  BY <1>2 DEF State
<1> HIDE DEF st, W
<1>11. /\ state'[cur] = "final" /\ state'[h] = "current" /\ timer'[h] = FALSE
       /\ timer'[cur] = timer[cur]
       /\ \A x \in Thread \ {cur, h} : u'[x] = u[x] /\ timer'[x] = timer[x] /\ state'[x] = st[x]
  BY <1>2, <1>6, <1>7, <1>8, <1>9, <1>10 DEF SwitchTypes
<1>12. SwitchTypes'
  <2>1. Quantum \in 0 .. Quantum /\ None \in Value /\ "ok" \in Value /\ "current" \in State
    BY DEF Value, State, Msg
  <2>2. state' \in [Thread -> State] /\ u' \in [Thread -> Value]
    BY <1>2, <1>7, <1>10, <2>1 DEF SwitchTypes
  <2>3. timer' \in [Thread -> BOOLEAN] /\ slices' \in [Thread -> 0 .. Quantum]
    BY <1>1, <1>2, <1>7, <2>1 DEF SwitchTypes
  <2> QED
    BY <1>1, <1>6, <1>7, <2>2, <2>3 DEF SwitchTypes
<1>13. \A x \in W \ {h} : state'[x] = "ready"
  BY <1>3, <1>9, <1>11
<1>14. \A x \in Thread \ (A \cup {h}) : state'[x] = state[x]
  BY <1>9, <1>11
<1>15. SchedInv'
  <2>1. \A t \in Thread : state'[t] = "current" <=> t = cur'
    <3>1. \A t \in Thread \ (A \cup {h}) : state'[t] # "current"
      BY <1>2, <1>14 DEF SchedInv
    <3> QED
      BY <1>7, <1>11, <1>13, <3>1
  <2>2. ToSet(ready') = (ToSet(ready) \cup W) \ {h} /\ ready' \in Queue
    BY <1>1, <1>4, <1>6 DEF Unlinked
  <2>3. \A t \in Thread : state'[t] = "ready" <=> t \in (ToSet(ready) \cup W) \ {h}
    <3>1. \A t \in Thread \ (A \cup {h}) : state'[t] = "ready" <=> t \in ToSet(ready)
      BY <1>2, <1>14
    <3>2. cur \notin ToSet(ready) \cup W
      BY <1>2, <1>3
    <3> QED
      BY <1>8, <1>11, <1>13, <3>1, <3>2
  <2>4. ToSet(ready') = {t \in Thread : state'[t] = "ready"}
    BY <1>2, <1>3, <2>2, <2>3
  <2>5. state'[Main] \in Runnable
    <3>1. state[Main] \in Runnable /\ Main \notin A
      BY <1>1, <1>2, <1>3 DEF SchedInv, Runnable
    <3> QED
      BY <1>11, <1>14, <3>1 DEF Runnable
  <2> QED
    BY <2>1, <2>2, <2>4, <2>5 DEF SchedInv
<1>16. Others(A)
  <2> SUFFICES ASSUME NEW x \in Thread \ A
               PROVE  /\ state'[x] \in Runnable <=> state[x] \in Runnable
                      /\ state[x] \notin Runnable =>
                           state'[x] = state[x] /\ u'[x] = u[x] /\ timer'[x] = timer[x]
                      /\ timer'[x] /\ state[x] \in Runnable =>
                           timer[x] /\ state'[x] \in {"ready", state[x]}
    BY DEF Others
  <2>1. CASE x = h
    BY <1>8, <1>11, <2>1 DEF Runnable
  <2>2. CASE x # h
    BY <1>11, <1>14, <2>2
  <2> QED
    BY <2>1, <2>2
<1>17. Kept
  BY <1>2, <1>3, <1>8, <1>11 DEF Kept
<1>18. \A a \in A : a \in Thread /\ state'[a] \in {"final", "ready", "current"} /\ ~timer[a]
  <2>1. \A a \in A : a \in Thread /\ state[a] \in {"current", "wtexit"}
    BY <1>2, <1>3
  <2> QED
    BY <1>2, <1>11, <1>13, <2>1 DEF WaitInv
<1>19. \A a \in A : ~timer'[a] /\ state[a] \in {"current", "wtexit"}
  BY <1>2, <1>3, <1>11, <1>18
<1> HIDE DEF A
<1>20. A \in SUBSET Thread
  BY <1>18
<1>21. WaitInv'
  <2>1. \A r \in Ref, a \in A : ref[r] # a
    BY <1>2, <1>18, <1>19 DEF WaitInv
  <2>2. \A a \in A : /\ timer'[a] => state'[a] \in {"suspended", "sleeping", "ready"}
                     /\ state'[a] = "sleeping" => timer'[a]
                     /\ state'[a] = "suspended" => u'[a] \in Ref
    BY <1>18, <1>19
  <2>3. \A r \in Ref, a \in A : ref'[r] = a <=> state'[a] = "suspended" /\ u'[a] = r
    BY <1>1, <1>18, <2>1
  <2>4. \A r \in Ref, t \in Thread \ A : ref'[r] = t <=> ref[r] = t
    BY <1>1
  <2> QED
    BY <1>2, <1>16, <1>20, <2>2, <2>3, <2>4, WaitKept
<1>22. QueueInv'
  <2>1. \A a \in A : state[a] # "wtmtx" /\ state'[a] # "wtmtx"
    BY <1>18, <1>19
  <2>2. QueueInv /\ UNCHANGED queue
    BY <1>1 DEF Inv
  <2> QED
    BY <1>16, <1>20, <2>1, <2>2, QueueKept
<1>23. /\ waiting' \in [Thread -> Queue] /\ ToSet(waiting'[cur]) = {}
       /\ \A s \in Thread \ {cur} : waiting'[s] = waiting[s]
  <2>1. <<>> \in Queue
    BY DEF Queue, IsInjective
  <2>2. waiting'[cur] = <<>>
    BY <1>1, <1>2
  <2> QED
    BY <1>1, <1>2, <2>1, <2>2, QueueFacts
<1>24. ExitInv'
  <2>1. \A s, t \in Thread : s # t => ToSet(waiting[s]) \cap ToSet(waiting[t]) = {}
    BY DEF Inv, ExitInv
  <2>2. \A s \in Thread : ToSet(waiting[s]) \subseteq Thread
    BY <1>2, QueueFacts
  <2>3. ASSUME NEW s \in Thread, NEW w \in ToSet(waiting'[s]) PROVE state'[w] = "wtexit"
    <3>1. s # cur /\ w \in ToSet(waiting[s]) /\ w \in Thread
      BY <1>23, <2>2
    <3>2. state[w] = "wtexit" /\ w \notin A
      BY <1>2, <2>1, <3>1 DEF Inv, ExitInv, A, W
    <3> QED
      BY <1>16, <3>1, <3>2 DEF Others, Runnable
  <2>4. ASSUME NEW w \in Thread, state'[w] = "wtexit"
        PROVE  \E s \in Thread : w \in ToSet(waiting'[s]) /\ state'[s] # "final"
    <3>1. w \notin A
      BY <1>18, <2>4
    <3>2. state[w] = "wtexit"
      BY <1>16, <2>4, <3>1 DEF Others, Runnable
    <3>3. PICK s \in Thread : w \in ToSet(waiting[s]) /\ state[s] # "final"
      BY <3>2 DEF Inv, ExitInv
    <3>4. s # cur
      BY <3>1, <3>3 DEF A, W
    <3>5. state'[s] # "final"
      <4>1. CASE s \in W
        BY <1>11, <1>13, <4>1
      <4>2. CASE s \notin W
        <5>1. s \in Thread \ A
          BY <3>4, <4>2 DEF A
        <5> QED
          BY <1>16, <3>3, <5>1 DEF Others, Runnable
      <4> QED
        BY <4>1, <4>2
    <3> QED
      BY <1>23, <3>3, <3>4, <3>5
  <2>5. ASSUME NEW s \in Thread, NEW x \in Thread, s # x
        PROVE  ToSet(waiting'[s]) \cap ToSet(waiting'[x]) = {}
    BY <1>23, <2>1, <2>5
  <2> QED
    BY <2>3, <2>4, <2>5 DEF ExitInv
<1>25. RestTypes' /\ OwnInv' /\ WalkInv'
  BY <1>1, <1>23 DEF Inv, RestTypes, OwnInv, WalkInv, Running
<1>26. ASSUME OrderInv PROVE OrderInv'
  <2>1. Sorted(rd, prio)
    BY <1>4, <1>26 DEF OrderInv
  <2>2. Sorted(ready', prio) /\ ToSet(ready') = ToSet(rd) \ {h}
    BY <1>1, <1>6, <2>1 DEF Unlinked
  <2>3. \A x \in ToSet(ready') : prio'[x] <= prio'[cur']
    BY <1>1, <1>6, <1>7, <2>1, <2>2
  <2> QED
    BY <1>1, <1>26, <2>2, <2>3 DEF OrderInv, Top
<1> QED
  BY <1>12, <1>15, <1>17, <1>21, <1>22, <1>24, <1>25, <1>26 DEF Good, Inv

-----------------------------------------------------------------------------
(* The walk of chMtxLockS goes on to the next owner: the list of the       *)
(* thread that it leaves is in order again.                                *)
LEMMA WalkOnOK == ASSUME Inv, WalkOn PROVE Good
<1> DEFINE t == walk[2]
           n == u[t]
           q == Dequeue(queue[n], t)
<1>1. /\ walk # NoWalk /\ prio[t] < prio[cur] /\ state[t] = "wtmtx" /\ prio' = Boost(t)
      /\ queue' = [queue EXCEPT ![n] = InsertBehind(Dequeue(@, t), t, prio')]
      /\ walk' = <<walk[1], owner[n]>>
      /\ UNCHANGED <<cur, ready, state, slices, u, timer, ref, owner, mtxlist, waiting, isr, missed>>
  BY DEF WalkOn
<1>2. walk \in Mutex \X Thread
  BY <1>1 DEF Inv, RestTypes
<1>3. t \in Thread /\ walk[1] \in Mutex
  BY <1>2
<1>4. /\ cur \in Thread /\ prio \in Prios /\ queue \in [Mutex -> Queue] /\ QueueInv /\ OwnInv
      /\ owner \in [Mutex -> Thread \cup {None}]
  BY DEF Inv, SwitchTypes, RestTypes
<1>5. n \in Mutex /\ t \in ToSet(queue[n]) /\ queue[n] \in Queue
  BY <1>1, <1>3, <1>4 DEF QueueInv
<1>6. owner[n] \in Thread
  BY <1>4, <1>5, QueueFacts DEF OwnInv
<1>7. prio' \in Prios /\ \A x \in Thread \ {t} : prio'[x] = prio[x]
  BY <1>1, <1>3, <1>4 DEF Boost, Prios
<1>8. Unlinked(q, queue[n], t, prio)
  BY <1>5, DequeueOK
<1>9. queue'[n] = InsertBehind(q, t, prio') /\ \A m \in Mutex \ {n} : queue'[m] = queue[m]
  BY <1>1, <1>4, <1>5
<1> HIDE DEF t, n, q
<1>10. q \in Queue /\ ToSet(q) = ToSet(queue[n]) \ {t}
  BY <1>8 DEF Unlinked
<1>11. Linked(queue'[n], q, t, prio')
  <2>1. t \notin ToSet(q)
    BY <1>10
  <2> QED
    BY <1>3, <1>7, <1>9, <1>10, <2>1, BehindOK
<1>12. queue'[n] \in Queue /\ ToSet(queue'[n]) = ToSet(queue[n])
  BY <1>5, <1>10, <1>11 DEF Linked
<1>13. queue' \in [Mutex -> Queue] /\ \A m \in Mutex : ToSet(queue'[m]) = ToSet(queue[m])
  <2>1. queue' = [queue EXCEPT ![n] = queue'[n]]
    BY <1>1, <1>4, <1>5, <1>9 DEF q, t
  <2>2. queue' \in [Mutex -> Queue]
    BY <1>4, <1>12, <2>1
  <2> QED
    BY <1>9, <1>12, <2>2
<1>14. QueueInv'
  BY <1>1, <1>4, <1>13 DEF QueueInv
<1>15. OwnInv'
  <2>1. ASSUME NEW m \in Mutex, owner[m] = None PROVE queue'[m] = <<>>
    <3>1. ToSet(queue[m]) = {}
      BY <1>4, <2>1, QueueFacts DEF OwnInv
    <3> QED
      BY <1>13, <3>1, QueueFacts
  <2> QED
    BY <1>1, <1>4, <2>1 DEF OwnInv
<1>16. walk' \in Mutex \X Thread /\ walk' # NoWalk /\ walk'[1] = walk[1]
  BY <1>1, <1>3, <1>6 DEF NoWalk
<1>17. SwitchTypes' /\ RestTypes'
  BY <1>1, <1>7, <1>13, <1>16 DEF Inv, SwitchTypes, RestTypes
<1>18. SchedInv' /\ WaitInv' /\ ExitInv' /\ Kept
  <2>1. UNCHANGED <<cur, ready, state, u, timer, ref, waiting>>
    BY <1>1
  <2>2. SchedInv' /\ WaitInv' /\ Kept
    BY <2>1 DEF Inv, SchedInv, WaitInv, Kept
  <2>3. ExitInv'
    BY <2>1 DEF Inv, ExitInv
  <2> QED
    BY <2>2, <2>3
<1>19. WalkInv'
  BY <1>1, <1>16 DEF Inv, WalkInv
<1>20. ASSUME OrderInv PROVE OrderInv'
  <2>1. Sorted(ready, prio')
    <3>1. ready \in Queue /\ \A x \in ToSet(ready) : x \in Thread \ {t}
      BY <1>1 DEF Inv, SchedInv
    <3>2. Sorted(ready, prio) /\ \A x \in ToSet(ready) : prio'[x] = prio[x]
      BY <1>7, <1>20, <3>1 DEF OrderInv
    <3> QED
      BY <3>1, <3>2, SortedKept
  <2>2. Sorted(q, prio')
    <3>1. Sorted(q, prio)
      BY <1>5, <1>8, <1>20 DEF OrderInv, Unlinked
    <3>2. \A x \in ToSet(q) : x \in Thread \ {t}
      BY <1>10, QueueFacts
    <3>3. \A x \in ToSet(q) : prio'[x] = prio[x]
      BY <1>7, <3>2
    <3> QED
      BY <1>10, <3>1, <3>3, SortedKept
  <2>3. Sorted(queue'[n], prio')
    BY <1>11, <2>2 DEF Linked
  <2>4. ASSUME NEW m \in Mutex \ {n} PROVE Sorted(queue'[m], prio')
    <3>1. \A x \in ToSet(queue[m]) : x \in Thread \ {t}
      BY <1>4 DEF QueueInv, n
    <3>2. queue[m] \in Queue /\ Sorted(queue[m], prio) /\ \A x \in ToSet(queue[m]) : prio'[x] = prio[x]
      BY <1>4, <1>7, <1>20, <3>1 DEF OrderInv
    <3>3. Sorted(queue[m], prio')
      BY <3>2, SortedKept
    <3> QED
      BY <1>9, <3>3
  <2> QED
    BY <1>1, <1>16, <2>1, <2>3, <2>4 DEF OrderInv, Running
<1> QED
  BY <1>14, <1>15, <1>17, <1>18, <1>19, <1>20 DEF Good, Inv

(* The walk ends, and the thread sleeps in the queue of the mutex. *)
LEMMA WalkEndOK ==
  ASSUME Inv, WalkEnd
  PROVE  /\ Good
         /\ ToSet(queue'[walk[1]]) = ToSet(queue[walk[1]]) \cup {cur}
         /\ \A n \in Mutex \ {walk[1]} : queue'[n] = queue[n]
<1> DEFINE m == walk[1]
           t == walk[2]
           boost == prio[t] < prio[cur]
           rd == IF boost /\ state[t] = "ready"
                   THEN InsertBehind(Dequeue(ready, t), t, prio') ELSE ready
<1>1. /\ walk # NoWalk /\ ~(boost /\ state[t] = "wtmtx")
      /\ prio' = IF boost THEN Boost(t) ELSE prio
      /\ queue' = [queue EXCEPT ![m] = InsertBehind(@, cur, prio')]
      /\ GoSleep("wtmtx", m, rd, timer) /\ walk' = NoWalk
      /\ UNCHANGED <<ref, owner, mtxlist, waiting, isr>>
  BY DEF WalkEnd
<1>2. walk \in Mutex \X Thread
  BY <1>1 DEF Inv, RestTypes
<1>3. t \in Thread /\ m \in Mutex
  BY <1>2
<1>4. /\ SwitchTypes /\ SchedInv /\ WaitInv /\ cur \in Thread /\ state[cur] = "current"
      /\ prio \in Prios /\ queue \in [Mutex -> Queue] /\ QueueInv /\ OwnInv /\ ready \in Queue
      /\ ToSet(ready) = {x \in Thread : state[x] = "ready"} /\ timer \in [Thread -> BOOLEAN]
  BY DEF Inv, SwitchTypes, RestTypes, SchedInv
<1>5. cur # Main /\ owner[m] # None
  BY <1>1 DEF Inv, WalkInv
<1>6. prio' \in Prios /\ \A x \in Thread : prio'[x] = prio[x] \/ (x = t /\ boost)
  <2>1. CASE boost
    <3>1. prio' = [prio EXCEPT ![t] = prio[cur]]
      BY <1>1, <2>1 DEF Boost
    <3> HIDE DEF t, boost
    <3> QED
      BY <1>3, <1>4, <2>1, <3>1 DEF Prios
  <2>2. CASE ~boost
    BY <1>1, <1>4, <2>2
  <2> QED
    BY <2>1, <2>2
<1> HIDE DEF m
<1>7. /\ rd \in Queue /\ ToSet(rd) = ToSet(ready)
      /\ Sorted(ready, prio) => Sorted(rd, prio')
  <2>1. CASE boost /\ state[t] = "ready"
    <3> DEFINE q == Dequeue(ready, t)
    <3>1. t \in ToSet(ready) /\ rd = InsertBehind(q, t, prio')
      BY <1>3, <1>4, <2>1
    <3> HIDE DEF rd, t
    <3>2. Unlinked(q, ready, t, prio)
      BY <1>4, <3>1, DequeueOK
    <3> HIDE DEF q
    <3>3. q \in Queue /\ ToSet(q) = ToSet(ready) \ {t} /\ t \notin ToSet(q)
      BY <3>2 DEF Unlinked
    <3>4. Linked(rd, q, t, prio')
      BY <1>3, <1>6, <3>1, <3>3, BehindOK
    <3>5. \A x \in ToSet(q) : prio'[x] = prio[x]
      BY <1>6, <3>3, QueueFacts
    <3>6. Sorted(ready, prio) => Sorted(q, prio')
      BY <3>2, <3>3, <3>5, SortedKept DEF Unlinked
    <3>7. rd \in Queue /\ ToSet(rd) = ToSet(q) \cup {t} /\ (Sorted(q, prio') => Sorted(rd, prio'))
      BY <3>4 DEF Linked
    <3> QED
      BY <3>1, <3>3, <3>6, <3>7
  <2>2. CASE ~(boost /\ state[t] = "ready")
    <3>1. rd = ready
      BY <2>2
    <3>2. \A x \in ToSet(ready) : x \in Thread /\ state[x] = "ready"
      BY <1>4
    <3> HIDE DEF rd, t, boost
    <3>3. \A x \in ToSet(ready) : prio'[x] = prio[x]
      BY <1>6, <2>2, <3>2
    <3> QED
      BY <1>4, <3>1, <3>3, SortedKept
  <2> QED
    BY <2>1, <2>2
<1> HIDE DEF rd
<1>8. /\ SwitchTypes' /\ SchedInv' /\ Others({cur}) /\ Kept
      /\ state'[cur] = "wtmtx" /\ u'[cur] = m /\ timer'[cur] = timer[cur]
      /\ Sorted(rd, prio') => Sorted(ready', prio') /\ Top'
  <2>1. /\ "wtmtx" \in State \ Runnable /\ m \in Value
        /\ \A x \in Thread \ {cur} : timer[x] = timer[x]
    BY <1>3 DEF Runnable, State, Value
  <2>2. GoSleep("wtmtx", m, rd, timer)
    BY <1>1
  <2> QED
    BY <1>4, <1>5, <1>6, <1>7, <2>1, <2>2, GoSleepOK
<1>9. WaitInv'
  <2>1. ~timer[cur] /\ \A x \in Ref : ref[x] # cur
    BY <1>4 DEF WaitInv
  <2> QED
    BY <1>1, <1>4, <1>8, <2>1, WaitKept
<1>10. ExitInv'
  <2>1. ExitInv /\ RestTypes /\ UNCHANGED waiting
    BY <1>1 DEF Inv
  <2> QED
    BY <1>4, <1>8, <2>1, ExitKept
<1>11. cur \notin ToSet(queue[m]) /\ queue[m] \in Queue
  BY <1>3, <1>4 DEF QueueInv
<1>12. queue'[m] = InsertBehind(queue[m], cur, prio') /\ \A n \in Mutex \ {m} : queue'[n] = queue[n]
  BY <1>1, <1>3, <1>4
<1>13. Linked(queue'[m], queue[m], cur, prio')
  BY <1>4, <1>6, <1>11, <1>12, BehindOK
<1>14. /\ queue' \in [Mutex -> Queue] /\ ToSet(queue'[m]) = ToSet(queue[m]) \cup {cur}
  <2>1. queue'[m] \in Queue /\ ToSet(queue'[m]) = ToSet(queue[m]) \cup {cur}
    BY <1>13 DEF Linked
  <2>2. queue' = [queue EXCEPT ![m] = queue'[m]]
    BY <1>1, <1>3, <1>4, <1>12
  <2> QED
    BY <1>4, <2>1, <2>2
<1>15. QueueInv'
  <2>1. ASSUME NEW x \in Thread \ {cur}
        PROVE  /\ state'[x] = "wtmtx" <=> state[x] = "wtmtx"
               /\ state[x] = "wtmtx" => u'[x] = u[x]
    BY <1>8 DEF Others, Runnable
  <2>2. ASSUME NEW n \in Mutex
        PROVE  ToSet(queue'[n]) = {x \in Thread : state'[x] = "wtmtx" /\ u'[x] = n}
    <3>1. ToSet(queue[n]) = {x \in Thread : state[x] = "wtmtx" /\ u[x] = n}
      BY <1>4 DEF QueueInv
    <3>2. ASSUME NEW x \in Thread
          PROVE  x \in ToSet(queue'[n]) <=> state'[x] = "wtmtx" /\ u'[x] = n
      <4>1. CASE x = cur
        BY <1>4, <1>8, <1>12, <1>14, <3>1, <4>1
      <4>2. CASE x # cur
        BY <1>12, <1>14, <2>1, <3>1, <4>2
      <4> QED
        BY <4>1, <4>2
    <3>3. ToSet(queue'[n]) \subseteq Thread
      BY <1>14, QueueFacts
    <3> QED
      BY <3>2, <3>3
  <2>3. \A x \in Thread : state'[x] = "wtmtx" => u'[x] \in Mutex
    BY <1>3, <1>4, <1>8, <2>1 DEF QueueInv
  <2> QED
    BY <2>2, <2>3 DEF QueueInv
<1>16. OwnInv'
  BY <1>1, <1>4, <1>5, <1>12 DEF OwnInv
<1>17. RestTypes' /\ WalkInv'
  BY <1>1, <1>6, <1>14 DEF Inv, RestTypes, WalkInv
<1>18. ASSUME OrderInv PROVE OrderInv'
  <2>1. Sorted(ready', prio') /\ Top'
    BY <1>7, <1>8, <1>18 DEF OrderInv
  <2>2. ASSUME NEW n \in Mutex PROVE Sorted(queue[n], prio')
    <3>1. \A x \in ToSet(queue[n]) : x \in Thread /\ state[x] = "wtmtx"
      BY <1>4 DEF QueueInv
    <3>2. boost => state[t] # "wtmtx"
      BY <1>1
    <3> HIDE DEF t, boost
    <3>3. \A x \in ToSet(queue[n]) : prio'[x] = prio[x]
      BY <1>6, <3>1, <3>2
    <3>4. Sorted(queue[n], prio) /\ queue[n] \in Queue
      BY <1>4, <1>18 DEF OrderInv
    <3> QED
      BY <3>3, <3>4, SortedKept
  <2>3. Sorted(queue'[m], prio')
    BY <1>3, <1>13, <2>2 DEF Linked
  <2>4. \A n \in Mutex : Sorted(queue'[n], prio')
    BY <1>12, <2>2, <2>3
  <2> QED
    BY <2>1, <2>4 DEF OrderInv
<1>19. Good
  BY <1>8, <1>9, <1>10, <1>15, <1>16, <1>17, <1>18 DEF Good, Inv
<1> QED
  BY <1>12, <1>14, <1>19 DEF m

-----------------------------------------------------------------------------
(* Of natural numbers that are bounded one is the greatest. *)
LEMMA MaxOK ==
  ASSUME NEW S \in SUBSET Nat, S # {}, NEW b \in Nat, \A x \in S : x <= b
  PROVE  Max(S) \in S /\ \A x \in S : x <= Max(S)
<1> DEFINE D == {b - x : x \in S}
<1>1. D \in SUBSET Nat /\ D # {}
  OBVIOUS
<1>2. PICK d \in D : \A y \in D : d <= y
  BY <1>1, FirstOfNaturals
<1>3. PICK a \in S : d = b - a
  BY <1>2
<1>4. ASSUME NEW x \in S PROVE x <= a
  <2>1. b - a <= b - x
    BY <1>2, <1>3
  <2>2. a \in Nat /\ x \in Nat
    OBVIOUS
  <2> QED
    BY <2>1, <2>2
<1>5. \E x \in S : \A y \in S : x >= y
  <2>1. \A y \in S : a >= y
    <3> TAKE y \in S
    <3>1. y <= a /\ y \in Nat /\ a \in Nat
      BY <1>4
    <3> QED
      BY <3>1
  <2> QED
    BY <2>1
<1>6. Max(S) \in S /\ \A y \in S : Max(S) >= y
  BY <1>5 DEF Max
<1> HIDE DEF D
<1> QED
  BY <1>6

(* The priorities that queues of a list of mutexes hand down are bounded. *)
LEMMA Bounded ==
  ASSUME NEW l \in Seq(Mutex), queue \in [Mutex -> Queue], prio \in Prios
  PROVE  \E b \in Nat : \A i \in 1 .. Len(l) : FirstPrio(queue[l[i]], prio) <= b
<1> DEFINE B(k) == \E b \in Nat : \A i \in 1 .. k : FirstPrio(queue[l[i]], prio) <= b
           Bad == {k \in 0 .. Len(l) : ~B(k)}
<1>0. Bad \in SUBSET Nat /\ Len(l) \in Nat
  OBVIOUS
<1>1. SUFFICES ASSUME Bad # {} PROVE FALSE
  <2>1. Bad = {} => B(Len(l))
    <3> HIDE DEF B
    <3> QED
      BY <1>0
  <2> QED
    BY <2>1
<1>2. PICK k \in Bad : \A j \in Bad : k <= j
  BY <1>0, <1>1, FirstOfNaturals
<1>3. k \in 0 .. Len(l) /\ ~B(k)
  BY <1>2
<1>4. B(0)
  <2>1. \A i \in 1 .. 0 : FirstPrio(queue[l[i]], prio) <= 0
    OBVIOUS
  <2> QED
    BY <2>1
<1>5. k \in 1 .. Len(l) /\ k - 1 \in 0 .. Len(l)
  <2> HIDE DEF B
  <2> QED
    BY <1>3, <1>4
<1>6. B(k - 1)
  <2>1. k - 1 \notin Bad
    <3> HIDE DEF Bad
    <3> QED
      BY <1>0, <1>2, <1>5
  <2> HIDE DEF B
  <2> QED
    BY <1>5, <2>1
<1>7. PICK b \in Nat : \A i \in 1 .. k - 1 : FirstPrio(queue[l[i]], prio) <= b
  BY <1>6
<1> DEFINE P(i) == FirstPrio(queue[l[i]], prio)
<1>8. \A i \in 1 .. Len(l) : P(i) \in Nat
  BY FirstOK
<1>9. \A i \in 1 .. k - 1 : P(i) <= b
  BY <1>7
<1> HIDE DEF P, B, Bad
<1>10. b + P(k) \in Nat /\ \A i \in 1 .. k : P(i) <= b + P(k)
  <2>1. P(k) \in Nat
    BY <1>5, <1>8
  <2>2. ASSUME NEW i \in 1 .. k PROVE P(i) <= b + P(k)
    <3>1. i \in 1 .. Len(l) /\ (i = k \/ i \in 1 .. k - 1)
      BY <1>0, <1>5
    <3>2. P(i) \in Nat /\ (i # k => P(i) <= b)
      BY <1>8, <1>9, <3>1
    <3> QED
      BY <2>1, <3>2
  <2> QED
    BY <2>1, <2>2
<1>11. B(k)
  BY <1>10 DEF P, B
<1> QED
  BY <1>3, <1>11

(* The priority that chMtxUnlock computes *)
LEMMA NewPrioOK ==
  ASSUME NEW t \in Thread, NEW l \in Seq(Mutex), queue \in [Mutex -> Queue], prio \in Prios
  PROVE  LET p == NewPrio(t, ToSet(l))
         IN  /\ p \in Nat \ {0} /\ Base[t] <= p
             /\ p = Base[t] \/ \E m \in ToSet(l) : p = FirstPrio(queue[m], prio)
             /\ \A m \in ToSet(l) : FirstPrio(queue[m], prio) <= p
<1> DEFINE F == {FirstPrio(queue[m], prio) : m \in ToSet(l)}
           S == {Base[t]} \cup F
<1>1. \A m : m \in ToSet(l) <=> \E i \in 1 .. Len(l) : m = l[i]
  BY DEF ToSet
<1>2. PICK b \in Nat : \A i \in 1 .. Len(l) : FirstPrio(queue[l[i]], prio) <= b
  BY Bounded
<1>3. \A m \in ToSet(l) : FirstPrio(queue[m], prio) <= b /\ FirstPrio(queue[m], prio) \in Nat
  <2> TAKE m \in ToSet(l)
  <2>1. m \in Mutex /\ FirstPrio(queue[m], prio) <= b
    BY <1>1, <1>2
  <2> QED
    BY <2>1, FirstOK
<1>4. F \in SUBSET Nat /\ \A x \in F : x <= b
  BY <1>3
<1>5. Base[t] \in Nat \ {0}
  OBVIOUS
<1>6. NewPrio(t, ToSet(l)) = Max(S)
  BY DEF NewPrio
<1> HIDE DEF F
<1>7. S \in SUBSET Nat /\ S # {} /\ Base[t] + b \in Nat /\ \A x \in S : x <= Base[t] + b
  <2>1. \A x \in F : x <= Base[t] + b
    <3> TAKE x \in F
    <3>1. x \in Nat /\ x <= b
      BY <1>4
    <3> QED
      BY <1>5, <3>1
  <2>2. Base[t] + b \in Nat /\ Base[t] <= Base[t] + b
    BY <1>5
  <2>3. \A x \in S : x \in Nat /\ x <= Base[t] + b
    BY <1>4, <1>5, <2>1, <2>2
  <2> QED
    BY <2>2, <2>3
<1> HIDE DEF S
<1>8. Max(S) \in S /\ \A x \in S : x <= Max(S)
  BY <1>7, MaxOK
<1>9. Max(S) \in Nat /\ Base[t] <= Max(S)
  BY <1>7, <1>8 DEF S
<1>10. Max(S) \in Nat \ {0}
  BY <1>5, <1>9
<1>11. Max(S) = Base[t] \/ \E m \in ToSet(l) : Max(S) = FirstPrio(queue[m], prio)
  BY <1>8 DEF S, F
<1>12. \A m \in ToSet(l) : FirstPrio(queue[m], prio) <= Max(S)
  <2>1. \A m \in ToSet(l) : FirstPrio(queue[m], prio) \in S
    BY DEF S, F
  <2> QED
    BY <1>8, <2>1
<1> QED
  BY <1>6, <1>9, <1>10, <1>11, <1>12

(* mutexUnlock of a mutex that no thread waits for *)
LEMMA UnlockFreeOK ==
  ASSUME Inv, Running, mtxlist[cur] # <<>>, queue[Head(mtxlist[cur])] = <<>>,
         owner' = [owner EXCEPT ![Head(mtxlist[cur])] = None],
         mtxlist' = [mtxlist EXCEPT ![cur] = Tail(mtxlist[cur])],
         UNCHANGED <<cur, ready, state, prio, u, timer, queue, missed, slices, ref, waiting, isr, walk>>
  PROVE  Good
<1> DEFINE m == Head(mtxlist[cur])
           rest == Tail(mtxlist[cur])
<1>1. /\ cur \in Thread /\ owner \in [Mutex -> Thread \cup {None}]
      /\ mtxlist \in [Thread -> Seq(Mutex)] /\ OwnInv
  BY DEF Inv, SwitchTypes, RestTypes
<1>2. /\ rest \in Seq(Mutex) /\ IsInjective(rest) /\ m \in ToSet(mtxlist[cur]) /\ m \in Mutex
      /\ ToSet(rest) = ToSet(mtxlist[cur]) \ {m}
  <2>1. mtxlist[cur] \in Seq(Mutex) /\ IsInjective(mtxlist[cur])
    BY <1>1 DEF OwnInv
  <2> QED
    BY <2>1, Tailed
<1> HIDE DEF m, rest
<1>3. /\ owner' \in [Mutex -> Thread \cup {None}] /\ mtxlist' \in [Thread -> Seq(Mutex)]
      /\ owner'[m] = None /\ \A n \in Mutex \ {m} : owner'[n] = owner[n]
      /\ mtxlist'[cur] = rest /\ \A t \in Thread \ {cur} : mtxlist'[t] = mtxlist[t]
  <2>1. owner' = [owner EXCEPT ![m] = None] /\ mtxlist' = [mtxlist EXCEPT ![cur] = rest]
    BY DEF m, rest
  <2> QED
    BY <1>1, <1>2, <2>1
<1>4. OwnInv'
  <2>1. ASSUME NEW n \in Mutex, NEW t \in Thread PROVE owner'[n] = t <=> n \in ToSet(mtxlist'[t])
    <3>1. owner[n] = t <=> n \in ToSet(mtxlist[t])
      BY <1>1 DEF OwnInv
    <3>2. owner[m] = cur
      BY <1>1, <1>2 DEF OwnInv
    <3>3. CASE n = m
      <4>1. n \notin ToSet(mtxlist'[t])
        BY <1>2, <1>3, <3>1, <3>2, <3>3
      <4> QED
        BY <1>3, <3>3, <4>1
    <3>4. CASE n # m
      BY <1>2, <1>3, <3>1, <3>4
    <3> QED
      BY <3>3, <3>4
  <2>2. \A t \in Thread : IsInjective(mtxlist'[t])
    BY <1>1, <1>2, <1>3 DEF OwnInv
  <2>3. \A n \in Mutex : owner'[n] = None => queue'[n] = <<>>
    BY <1>1, <1>3 DEF OwnInv, m
  <2> QED
    BY <2>1, <2>2, <2>3 DEF OwnInv
<1>5. SwitchTypes' /\ RestTypes'
  BY <1>3 DEF Inv, SwitchTypes, RestTypes
<1>6. SchedInv' /\ WaitInv' /\ Kept
  BY DEF Inv, SchedInv, WaitInv, Kept
<1>7. QueueInv' /\ ExitInv'
  BY DEF Inv, QueueInv, ExitInv
<1>8. WalkInv'
  BY DEF WalkInv, Running
<1>9. OrderInv => OrderInv'
  BY DEF OrderInv, Running, Top
<1> QED
  BY <1>4, <1>5, <1>6, <1>7, <1>8, <1>9 DEF Good, Inv

(* What mutexUnlock of a mutex that threads wait for does; t is the first  *)
(* of them, p the new priority of the thread that unlocks.                 *)
HandOver(m, t, p) ==
  /\ m \in ToSet(mtxlist[cur]) /\ m \in Mutex /\ t = queue[m][1]
  /\ t \in Thread /\ t # cur /\ state[t] = "wtmtx" /\ u[t] = m /\ owner[m] = cur
  /\ p \in Nat \ {0} /\ Base[cur] <= p
  /\ \A n \in ToSet(mtxlist[cur]) \ {m} : FirstPrio(queue[n], prio) <= p
  /\ \/ p = Base[cur]
     \/ \E n \in ToSet(mtxlist[cur]) \ {m} : p = FirstPrio(queue[n], prio)
  /\ prio'[cur] = p /\ \A x \in Thread \ {cur} : prio'[x] = prio[x]
  /\ ToSet(queue'[m]) = ToSet(queue[m]) \ {t} /\ \A n \in Mutex \ {m} : queue'[n] = queue[n]
  /\ owner'[m] = t /\ \A n \in Mutex \ {m} : owner'[n] = owner[n]

(* mutexUnlock of a mutex that threads wait for *)
LEMMA UnlockNextOK ==
  ASSUME Inv, Unlock, queue[Head(mtxlist[cur])] # <<>>
  PROVE  Good /\ \E m, t, p : HandOver(m, t, p)
<1> DEFINE m == Head(mtxlist[cur])
           rest == Tail(mtxlist[cur])
           t == Head(queue[m])
           p == NewPrio(cur, ToSet(rest))
           rd == InsertBehind(ready, t, prio')
           st == [state EXCEPT ![t] = "ready"]
<1>1. /\ Running /\ mtxlist[cur] # <<>>
      /\ prio' = [prio EXCEPT ![cur] = p]
      /\ queue' = [queue EXCEPT ![m] = Tail(@)]
      /\ owner' = [owner EXCEPT ![m] = t]
      /\ mtxlist' = [mtxlist EXCEPT ![cur] = rest, ![t] = <<m>> \o @]
      /\ IF FirstPrio(rd, prio') > prio'[cur]
           THEN RescheduleAhead(rd, prio', st)
           ELSE /\ ready' = rd /\ state' = st /\ missed' = FALSE
                /\ UNCHANGED <<cur, u, timer>>
      /\ UNCHANGED <<slices, ref, waiting, isr, walk>>
  BY DEF Unlock, InApp
<1>2. /\ cur \in Thread /\ owner \in [Mutex -> Thread \cup {None}] /\ state[cur] = "current"
      /\ mtxlist \in [Thread -> Seq(Mutex)] /\ OwnInv /\ QueueInv /\ queue \in [Mutex -> Queue]
      /\ prio \in Prios /\ SwitchTypes /\ SchedInv /\ WaitInv /\ ready \in Queue
      /\ ToSet(ready) = {x \in Thread : state[x] = "ready"} /\ state \in [Thread -> State]
  BY DEF Inv, SwitchTypes, RestTypes, SchedInv
<1>3. /\ rest \in Seq(Mutex) /\ IsInjective(rest) /\ m \in ToSet(mtxlist[cur]) /\ m \in Mutex
      /\ ToSet(rest) = ToSet(mtxlist[cur]) \ {m}
  <2>1. mtxlist[cur] \in Seq(Mutex) /\ IsInjective(mtxlist[cur])
    BY <1>2 DEF OwnInv
  <2> QED
    BY <1>1, <2>1, Tailed
<1>4. /\ p \in Nat \ {0} /\ Base[cur] <= p
      /\ p = Base[cur] \/ \E n \in ToSet(rest) : p = FirstPrio(queue[n], prio)
      /\ \A n \in ToSet(rest) : FirstPrio(queue[n], prio) <= p
  BY <1>2, <1>3, NewPrioOK
<1> HIDE DEF p
<1>5. /\ Unlinked(Tail(queue[m]), queue[m], t, prio) /\ t = queue[m][1]
      /\ t \in ToSet(queue[m]) /\ t \in Thread /\ queue[m] \in Queue
  <2>1. queue[m] \in Queue /\ queue[m] # <<>>
    BY <1>2, <1>3
  <2> QED
    BY <2>1, TailOK
<1>6. state[t] = "wtmtx" /\ u[t] = m /\ t # cur
  BY <1>2, <1>3, <1>5 DEF QueueInv
<1>7. queue'[m] = Tail(queue[m]) /\ \A n \in Mutex \ {m} : queue'[n] = queue[n]
  BY <1>1, <1>2, <1>3
<1> HIDE DEF rest, m, t
<1>8. /\ queue' \in [Mutex -> Queue] /\ ToSet(queue'[m]) = ToSet(queue[m]) \ {t}
      /\ Sorted(queue[m], prio) => Sorted(queue'[m], prio)
  <2>1. queue'[m] \in Queue /\ ToSet(queue'[m]) = ToSet(queue[m]) \ {t}
    BY <1>5, <1>7 DEF Unlinked
  <2>2. queue' = [queue EXCEPT ![m] = queue'[m]]
    BY <1>1, <1>2, <1>3, <1>7
  <2> QED
    BY <1>2, <1>5, <1>7, <2>1, <2>2 DEF Unlinked
<1>9. prio' \in Prios /\ prio'[cur] = p /\ \A x \in Thread \ {cur} : prio'[x] = prio[x]
  BY <1>1, <1>2, <1>4 DEF Prios
<1>10. owner[m] = cur /\ m \notin ToSet(mtxlist[t])
  BY <1>2, <1>3, <1>5, <1>6 DEF OwnInv
<1>11. /\ <<m>> \o mtxlist[t] \in Seq(Mutex) /\ IsInjective(<<m>> \o mtxlist[t])
       /\ ToSet(<<m>> \o mtxlist[t]) = ToSet(mtxlist[t]) \cup {m}
  <2>1. mtxlist[t] \in Seq(Mutex) /\ IsInjective(mtxlist[t])
    BY <1>2, <1>5 DEF OwnInv
  <2> QED
    BY <1>3, <1>10, <2>1, Consed
<1>12. /\ owner' \in [Mutex -> Thread \cup {None}] /\ mtxlist' \in [Thread -> Seq(Mutex)]
       /\ owner'[m] = t /\ \A n \in Mutex \ {m} : owner'[n] = owner[n]
       /\ mtxlist'[cur] = rest /\ mtxlist'[t] = <<m>> \o mtxlist[t]
       /\ \A x \in Thread \ {cur, t} : mtxlist'[x] = mtxlist[x]
  BY <1>1, <1>2, <1>3, <1>5, <1>6, <1>11
<1>13. HandOver(m, t, p)
  BY <1>3, <1>4, <1>5, <1>6, <1>7, <1>8, <1>9, <1>10, <1>11, <1>12 DEF HandOver
<1>14. OwnInv'
  <2>1. ASSUME NEW n \in Mutex, NEW x \in Thread PROVE owner'[n] = x <=> n \in ToSet(mtxlist'[x])
    <3>1. owner[n] = x <=> n \in ToSet(mtxlist[x])
      BY <1>2 DEF OwnInv
    <3>2. CASE n = m
      <4>1. CASE x = t
        BY <1>11, <1>12, <3>2, <4>1
      <4>2. CASE x = cur
        BY <1>3, <1>6, <1>12, <3>2, <4>2
      <4>3. CASE x \notin {cur, t}
        BY <1>10, <1>12, <3>1, <3>2, <4>3
      <4> QED
        BY <4>1, <4>2, <4>3
    <3>3. CASE n # m
      <4>1. CASE x = t
        BY <1>11, <1>12, <3>1, <3>3, <4>1
      <4>2. CASE x = cur
        BY <1>3, <1>12, <3>1, <3>3, <4>2
      <4>3. CASE x \notin {cur, t}
        BY <1>12, <3>1, <3>3, <4>3
      <4> QED
        BY <4>1, <4>2, <4>3
    <3> QED
      BY <3>2, <3>3
  <2>2. \A x \in Thread : IsInjective(mtxlist'[x])
    BY <1>2, <1>3, <1>11, <1>12 DEF OwnInv
  <2>3. \A n \in Mutex : owner'[n] = None => queue'[n] = <<>>
    <3>1. t # None
      BY <1>5
    <3>2. \A n \in Mutex : owner[n] = None => queue[n] = <<>>
      BY <1>2 DEF OwnInv
    <3> QED
      BY <1>7, <1>12, <3>1, <3>2
  <2> QED
    BY <2>1, <2>2, <2>3 DEF OwnInv
<1>15. Linked(rd, ready, t, prio')
  <2>1. t \notin ToSet(ready)
    BY <1>2, <1>6
  <2> QED
    BY <1>2, <1>5, <1>9, <2>1, BehindOK
<1> HIDE DEF rd
<1>16. /\ st \in [Thread -> State] /\ st[t] = "ready"
       /\ \A x \in Thread \ {t} : st[x] = state[x]
  BY <1>2, <1>5 DEF State
<1>17. IF FirstPrio(rd, prio') > prio'[cur]
         THEN RescheduleAhead(rd, prio', st)
         ELSE /\ ready' = rd /\ state' = st /\ missed' = FALSE
              /\ UNCHANGED <<cur, u, timer>>
  BY <1>1 DEF rd
<1> HIDE DEF st
<1>18. rd \in Queue /\ rd # <<>> /\ ToSet(rd) = {x \in Thread : st[x] = "ready"}
  BY <1>2, <1>5, <1>15, <1>16 DEF Linked
<1>19. Sorted(ready, prio) => Sorted(rd, prio')
  <2>1. \A x \in ToSet(ready) : x \in Thread /\ prio'[x] = prio[x]
    BY <1>2, <1>9
  <2> QED
    BY <1>2, <1>15, <2>1, SortedKept DEF Linked
<1>20. /\ SwitchTypes' /\ SchedInv' /\ Others({t}) /\ Kept
       /\ state'[t] \in Runnable /\ (timer'[t] => timer[t])
       /\ Sorted(rd, prio') => Sorted(ready', prio') /\ Top'
  <2>1. FirstPrio(rd, prio') \in Nat /\ prio'[cur] \in Nat
    BY <1>2, <1>9, <1>18, FirstOK DEF Prios
  <2>2. CASE FirstPrio(rd, prio') > prio'[cur]
    <3>1. /\ MakeCurrent(Head(rd), [st EXCEPT ![cur] = "ready"], timer, u) /\ missed' = FALSE
          /\ ready' = InsertAhead(Tail(rd), cur, prio')
      BY <1>17, <2>2 DEF RescheduleAhead
    <3>2. PICK A : A = {t}
      OBVIOUS
    <3>3. /\ A \subseteq Thread /\ cur \notin A /\ \A x \in A : st[x] = "ready"
          /\ \A x \in Thread \ A : st[x] = state[x]
      BY <1>5, <1>6, <1>16, <3>2
    <3>4. slices' \in [Thread -> 0 .. Quantum]
      BY <1>1, <1>2 DEF SwitchTypes
    <3>5. /\ SwitchTypes' /\ SchedInv' /\ Others(A) /\ Kept
          /\ \A a \in A : state'[a] \in Runnable /\ (timer'[a] => timer[a] /\ state'[a] = "ready")
          /\ Sorted(rd, prio') => Sorted(ready', prio')
          /\ Sorted(rd, prio') /\ prio'[cur] <= FirstPrio(rd, prio') => Top'
      BY <1>2, <1>9, <1>16, <1>18, <3>1, <3>3, <3>4, SwitchOK
    <3>6. prio'[cur] <= FirstPrio(rd, prio')
      BY <2>1, <2>2
    <3> QED
      BY <3>2, <3>5, <3>6
  <2>3. CASE ~(FirstPrio(rd, prio') > prio'[cur])
    <3>1. ready' = rd /\ state' = st /\ missed' = FALSE /\ UNCHANGED <<cur, u, timer>>
      BY <1>17, <2>3
    <3>2. SwitchTypes'
      BY <1>1, <1>2, <1>16, <3>1 DEF SwitchTypes
    <3>3. SchedInv'
      <4>1. \A x \in Thread : state'[x] = "current" <=> x = cur'
        BY <1>2, <1>6, <1>16, <3>1 DEF SchedInv
      <4>2. state'[Main] \in Runnable
        BY <1>2, <1>16, <3>1 DEF SchedInv, Runnable
      <4> QED
        BY <1>18, <3>1, <4>1, <4>2 DEF SchedInv
    <3>4. Others({t})
      BY <1>16, <3>1 DEF Others
    <3>5. Kept
      BY <3>1 DEF Kept
    <3>6. ASSUME Sorted(rd, prio') PROVE Top'
      <4>1. \A x \in ToSet(rd) : prio'[x] <= FirstPrio(rd, prio') /\ prio'[x] \in Nat
        BY <1>9, <1>18, <3>6, FirstOK DEF Prios
      <4>2. FirstPrio(rd, prio') <= prio'[cur]
        BY <2>1, <2>3
      <4>3. \A x \in ToSet(rd) : prio'[x] <= prio'[cur]
        BY <2>1, <4>1, <4>2
      <4> QED
        BY <3>1, <4>3 DEF Top
    <3> QED
      BY <1>16, <3>1, <3>2, <3>3, <3>4, <3>5, <3>6 DEF Runnable
  <2> QED
    BY <2>2, <2>3
<1>21. WaitInv'
  <2>1. ~timer[t]
    <3>1. timer[t] => state[t] \in {"suspended", "sleeping", "ready"}
      BY <1>2, <1>5 DEF WaitInv
    <3> QED
      BY <1>6, <3>1
  <2>2. \A x \in Ref : ref[x] # t
    BY <1>2, <1>5, <1>6 DEF WaitInv
  <2> QED
    BY <1>1, <1>2, <1>5, <1>20, <2>1, <2>2, WaitKept DEF Runnable
<1>22. ExitInv'
  <2>1. ExitInv /\ RestTypes /\ UNCHANGED waiting
    BY <1>1 DEF Inv
  <2>2. state[t] # "wtexit" /\ state'[t] \notin {"wtexit", "final"}
    BY <1>6, <1>20 DEF Runnable
  <2> QED
    BY <1>5, <1>20, <2>1, <2>2, ExitKept
<1>23. QueueInv'
  <2>1. ASSUME NEW x \in Thread \ {t}
        PROVE  /\ state'[x] = "wtmtx" <=> state[x] = "wtmtx"
               /\ state[x] = "wtmtx" => u'[x] = u[x]
    BY <1>20 DEF Others, Runnable
  <2>2. ASSUME NEW n \in Mutex
        PROVE  ToSet(queue'[n]) = {x \in Thread : state'[x] = "wtmtx" /\ u'[x] = n}
    <3>1. ToSet(queue[n]) = {x \in Thread : state[x] = "wtmtx" /\ u[x] = n}
      BY <1>2 DEF QueueInv
    <3>2. ASSUME NEW x \in Thread
          PROVE  x \in ToSet(queue'[n]) <=> state'[x] = "wtmtx" /\ u'[x] = n
      <4>1. CASE x = t
        BY <1>6, <1>7, <1>8, <1>20, <3>1, <4>1 DEF Runnable
      <4>2. CASE x # t
        BY <1>7, <1>8, <2>1, <3>1, <4>2
      <4> QED
        BY <4>1, <4>2
    <3>3. ToSet(queue'[n]) \subseteq Thread
      BY <1>8, QueueFacts
    <3> QED
      BY <3>2, <3>3
  <2>3. \A x \in Thread : state'[x] = "wtmtx" => u'[x] \in Mutex
    BY <1>2, <1>20, <2>1 DEF QueueInv, Runnable
  <2> QED
    BY <2>2, <2>3 DEF QueueInv
<1>24. RestTypes' /\ WalkInv'
  BY <1>1, <1>8, <1>9, <1>12 DEF Inv, RestTypes, WalkInv, Running
<1>25. ASSUME OrderInv PROVE OrderInv'
  <2>1. Sorted(ready', prio') /\ Top'
    BY <1>19, <1>20, <1>25 DEF OrderInv
  <2>2. ASSUME NEW n \in Mutex PROVE Sorted(queue'[n], prio')
    <3>1. queue'[n] \in Queue /\ Sorted(queue'[n], prio)
      BY <1>7, <1>8, <1>25 DEF OrderInv
    <3>2. \A x \in ToSet(queue'[n]) : x \in Thread \ {cur}
      <4>1. \A x \in ToSet(queue[n]) : x \in Thread \ {cur}
        BY <1>2 DEF QueueInv
      <4> QED
        BY <1>7, <1>8, <4>1
    <3>3. \A x \in ToSet(queue'[n]) : prio'[x] = prio[x]
      BY <1>9, <3>2
    <3> QED
      BY <3>1, <3>3, SortedKept
  <2> QED
    BY <2>1, <2>2 DEF OrderInv
<1>26. Good
  BY <1>14, <1>20, <1>21, <1>22, <1>23, <1>24, <1>25 DEF Good, Inv
<1> QED
  BY <1>13, <1>26

(* mutexUnlock *)
LEMMA UnlockOK == ASSUME Inv, Unlock PROVE Good
<1>1. CASE queue[Head(mtxlist[cur])] = <<>>
  <2>1. /\ Running /\ mtxlist[cur] # <<>>
        /\ owner' = [owner EXCEPT ![Head(mtxlist[cur])] = None]
        /\ mtxlist' = [mtxlist EXCEPT ![cur] = Tail(mtxlist[cur])]
        /\ UNCHANGED <<cur, ready, state, prio, u, timer, queue, missed>>
        /\ UNCHANGED <<slices, ref, waiting, isr, walk>>
    BY <1>1 DEF Unlock, InApp
  <2> QED
    BY <1>1, <2>1, UnlockFreeOK
<1>2. CASE queue[Head(mtxlist[cur])] # <<>>
  BY <1>2, UnlockNextOK
<1> QED
  BY <1>1, <1>2

(* Every step *)
LEMMA StepGood == ASSUME Inv, [Next]_vars PROVE Good
<1>1. ASSUME NEW t \in Thread, Create(t) \/ Wait(t) \/ Timeout(t) PROVE Good
  BY <1>1, CreateOK, WaitOK, TimeoutOK
<1>2. ASSUME NEW r \in Ref, Resume(r) \/ ResumeI(r) PROVE Good
  BY <1>2, ResumeOK, ResumeIOK
<1>3. ASSUME NEW r \in Ref, NEW b \in BOOLEAN, Suspend(r, b) PROVE Good
  BY <1>3, SuspendOK
<1>4. ASSUME NEW m \in Mutex, Take(m) \/ Lock(m) PROVE Good
  BY <1>4, TakeOK, LockOK
<1>5. CASE Yield \/ Sleep \/ Exit
  BY <1>5, YieldOK, SleepOK, ExitOK
<1>6. CASE WalkOn \/ WalkEnd \/ Unlock
  BY <1>6, WalkOnOK, WalkEndOK, UnlockOK
<1>7. CASE Interrupt \/ Tick \/ Epilogue \/ ReturnBare
  BY <1>7, InterruptOK, EpilogueOK, ReturnBareOK
<1>8. CASE UNCHANGED vars
  <2>0. UNCHANGED <<cur, ready, state, prio, slices, u, timer, ref, owner, mtxlist, queue, waiting, isr, missed, walk>>
    BY <1>8 DEF vars
  <2>1. SwitchTypes' /\ RestTypes'
    BY <2>0 DEF Inv, SwitchTypes, RestTypes
  <2>2. SchedInv' /\ WaitInv' /\ Kept
    BY <2>0 DEF Inv, SchedInv, WaitInv, Kept
  <2>3. QueueInv' /\ OwnInv' /\ ExitInv' /\ WalkInv'
    <3>1. QueueInv'
      BY <2>0 DEF Inv, QueueInv
    <3>2. OwnInv'
      BY <2>0 DEF Inv, OwnInv
    <3>3. ExitInv'
      BY <2>0 DEF Inv, ExitInv
    <3>4. WalkInv'
      BY <2>0 DEF Inv, WalkInv
    <3> QED
      BY <3>1, <3>2, <3>3, <3>4
  <2>4. OrderInv => OrderInv'
    BY <2>0 DEF OrderInv, Running, Top
  <2> QED
    BY <2>1, <2>2, <2>3, <2>4 DEF Good, Inv
<1> QED
  BY <1>1, <1>2, <1>3, <1>4, <1>5, <1>6, <1>7, <1>8 DEF Next

(* The start *)
LEMMA InitGood == ASSUME Init PROVE Inv /\ OrderInv
<1>1. /\ cur = Main /\ ready = <<>> /\ prio = Base
      /\ state = [t \in Thread |-> IF t = Main THEN "current" ELSE "wtstart"]
      /\ slices = [t \in Thread |-> Quantum] /\ u = [t \in Thread |-> None]
      /\ timer = [t \in Thread |-> FALSE] /\ ref = [r \in Ref |-> None]
      /\ owner = [m \in Mutex |-> None] /\ mtxlist = [t \in Thread |-> <<>>]
      /\ queue = [m \in Mutex |-> <<>>] /\ waiting = [t \in Thread |-> <<>>]
      /\ isr = NoIsr /\ missed = FALSE /\ walk = NoWalk
  BY DEF Init
<1>2. <<>> \in Queue /\ ToSet(<<>>) = {} /\ IsInjective(<<>>) /\ \A p : Sorted(<<>>, p)
  BY DEF Queue, ToSet, IsInjective, Sorted
<1>3. SwitchTypes
  <2>1. Quantum \in 0 .. Quantum
    OBVIOUS
  <2> QED
    BY <1>1, <2>1 DEF SwitchTypes, State, Value
<1>4. RestTypes
  BY <1>1, <1>2 DEF RestTypes, Prios
<1>5. SchedInv
  BY <1>1, <1>2 DEF SchedInv, Runnable
<1>6. WaitInv
  BY <1>1 DEF WaitInv
<1>7. QueueInv
  BY <1>1, <1>2 DEF QueueInv
<1>8. OwnInv
  <2>1. \A t \in Thread : mtxlist[t] = <<>>
    BY <1>1
  <2>2. \A m \in Mutex : owner[m] = None /\ queue[m] = <<>>
    BY <1>1
  <2>3. \A t \in Thread : t # None
    OBVIOUS
  <2> QED
    BY <1>2, <2>1, <2>2, <2>3 DEF OwnInv
<1>9. ExitInv
  <2>1. \A t \in Thread : ToSet(waiting[t]) = {} /\ state[t] # "wtexit"
    BY <1>1, <1>2
  <2> QED
    BY <2>1 DEF ExitInv
<1>10. WalkInv
  BY <1>1 DEF WalkInv
<1>11. OrderInv
  BY <1>1, <1>2 DEF OrderInv, Top
<1> QED
  BY <1>3, <1>4, <1>5, <1>6, <1>7, <1>8, <1>9, <1>10, <1>11 DEF Inv

(* The invariant holds. *)
LEMMA Invariance == Spec => [](Inv /\ OrderInv)
<1>1. Init => Inv /\ OrderInv
  BY InitGood
<1>2. Inv /\ OrderInv /\ [Next]_vars => (Inv /\ OrderInv)'
  BY StepGood DEF Good
<1> QED
  BY <1>1, <1>2, PTL DEF Spec

-----------------------------------------------------------------------------
(* All variables of the kernel have their types. *)
THEOREM TypeCorrect == Spec => []TypeOK
<1>1. Inv => TypeOK
  <2>1. Queue \subseteq Seq(Thread) /\ Prios \subseteq [Thread -> Nat]
    BY DEF Queue, Prios
  <2> QED
    BY <2>1 DEF Inv, SwitchTypes, RestTypes, SchedInv, TypeOK, Value
<1> QED
  BY <1>1, Invariance, PTL

(* Every list of the kernel holds exactly the threads whose state says so, *)
(* once each; no thread waits for one that has ended or for a mutex that   *)
(* is free, and a mutex is in the list of its owner, and in no other       *)
(* (chschd.c, chthreads.c, chmtx.c).                                       *)
THEOREM ListsAreExact == Spec => []ListsAgree
<1>1. ASSUME Inv PROVE ListsAgree
  <2>1. \A q \in Queue : IsInjective(q)
    BY DEF Queue
  <2>2. Holds(ready, {t \in Thread : state[t] = "ready"})
    BY <1>1, <2>1 DEF Inv, SchedInv, Holds
  <2>3. \A m \in Mutex : Holds(queue[m], {t \in Thread : state[t] = "wtmtx" /\ u[t] = m})
    BY <1>1, <2>1 DEF Inv, QueueInv, RestTypes, Holds
  <2>4. \A t \in Thread : state[t] = "current" <=> t = cur
    BY <1>1 DEF Inv, SchedInv
  <2> QED
    BY <1>1, <2>2, <2>3, <2>4 DEF Inv, ExitInv, OwnInv, ListsAgree
<1> QED
  BY <1>1, Invariance, PTL

(* A reference names a thread as long as it is suspended there, and an     *)
(* armed timer belongs to a call that its thread has not left, however     *)
(* timeouts, resumes and switches interleave (chthreads.c, chschd.c).      *)
THEOREM WaitsAreExact == Spec => []WaitsAgree
<1>1. Inv => WaitsAgree
  BY DEF Inv, WaitInv, WaitsAgree
<1> QED
  BY <1>1, Invariance, PTL

(* The ready list and the queues are in the order of the priorities at all *)
(* times, boosts included, and outside of interrupts and walks no thread   *)
(* of higher priority is ready, unless a handler without an epilogue left  *)
(* one (chSchReadyI, queue_prio_insert, chSchDoReschedule).                *)
THEOREM ListsAreOrdered == Spec => []PriorityOrder
<1>1. ASSUME Inv, OrderInv PROVE PriorityOrder
  <2>1. /\ ready \in Queue /\ queue \in [Mutex -> Queue] /\ prio \in Prios /\ cur \in Thread
        /\ Sorted(ready, prio) /\ \A m \in Mutex : Sorted(queue[m], prio)
    BY <1>1 DEF Inv, SchedInv, RestTypes, SwitchTypes, OrderInv
  <2>2. \A q \in Queue : DOMAIN q = 1 .. Len(q)
    BY QueueFacts
  <2>3. \A i, j \in DOMAIN ready : i < j => prio[ready[i]] >= prio[ready[j]]
    BY <2>1, <2>2 DEF Sorted
  <2>4. \A m \in Mutex : \A i, j \in DOMAIN queue[m] :
          i < j => prio[queue[m][i]] >= prio[queue[m][j]]
    BY <2>1, <2>2 DEF Sorted
  <2>5. ASSUME Running, ~missed PROVE FirstPrio(ready, prio) <= prio[cur]
    <3>1. prio[cur] \in Nat
      BY <2>1 DEF Prios
    <3>2. CASE ready = <<>>
      BY <2>1, <3>1, <3>2, FirstOK
    <3>3. CASE ready # <<>>
      <4>1. FirstPrio(ready, prio) = prio[ready[1]] /\ ready[1] \in ToSet(ready)
        BY <2>1, <3>3, FirstOK
      <4> QED
        BY <1>1, <2>5, <4>1 DEF OrderInv, Top
    <3> QED
      BY <3>2, <3>3
  <2> QED
    BY <2>3, <2>4, <2>5 DEF PriorityOrder
<1> QED
  BY <1>1, Invariance, PTL

(* A thread that was woken returns from its call with the message of       *)
(* whoever woke it first, and an exit code stays what it is: no step of    *)
(* any call, interrupt or timeout overwrites it (wakeup, chSchReadyI).     *)
THEOREM MessagesStay == Spec => MessageStays
<1>1. Inv /\ OrderInv /\ [Next]_vars =>
        [\A t \in Thread :
           state[t] \in {"ready", "final"} /\ state'[t] = state[t] => u'[t] = u[t]]_vars
  BY StepGood DEF Good, Kept
<1> QED
  BY <1>1, Invariance, PTL DEF Spec, MessageStays

-----------------------------------------------------------------------------
(* w waits for a mutex that t owns. *)
Waits(w, t) == \E m \in Mutex : owner[m] = t /\ w \in ToSet(queue[m])

(* t has its priority of itself or from a thread that waits for it. *)
Earned(t) == prio[t] = Base[t] \/ \E w \in Thread : Waits(w, t) /\ prio[w] = prio[t]

(* While the current thread walks from o, the owner of its mutex, and has  *)
(* come to x: only x may be less urgent than one that waits for it, and    *)
(* that one is no more urgent than the current thread; o has the priority  *)
(* of the current thread in advance.                                       *)
BoostInv(o, x) ==
  /\ \A w, t \in Thread : Waits(w, t) => prio[w] <= prio[t] \/ (t = x /\ prio[w] <= prio[cur])
  /\ \A t \in Thread : \/ Earned(t)
                       \/ t = o /\ prio[t] = prio[cur]
                       \/ t = x /\ prio[t] < prio[cur]
  /\ x # o => /\ prio[o] >= prio[cur]
              /\ \E w \in Thread : Waits(w, x) /\ prio[w] = prio[cur]

(* No thread is less urgent than one that waits for it, and none is more   *)
(* urgent than it has to be.                                               *)
SettledInv ==
  \A t \in Thread : Earned(t) /\ \A w \in Thread : Waits(w, t) => prio[w] <= prio[t]

InhInv ==
  /\ \A t \in Thread : Base[t] <= prio[t]
  /\ walk = NoWalk => SettledInv
  /\ walk # NoWalk => BoostInv(owner[walk[1]], walk[2])

(* A step that neither changes a priority nor who waits for whom *)
LEMMA InhKept ==
  ASSUME InhInv, walk = NoWalk, UNCHANGED <<prio, walk>>,
         \A w, t \in Thread : Waits(w, t)' <=> Waits(w, t)
  PROVE  InhInv'
<1>1. \A t \in Thread : Earned(t) => Earned(t)'
  BY DEF Earned
<1>2. SettledInv'
  BY <1>1 DEF InhInv, SettledInv
<1> QED
  BY <1>2 DEF InhInv

(* Inheritance is untouched by steps that change no priority and no mutex. *)
LEMMA SameKept ==
  ASSUME InhInv, walk = NoWalk, UNCHANGED <<prio, walk, owner, queue>> PROVE InhInv'
<1>1. \A w, t \in Thread : Waits(w, t)' <=> Waits(w, t)
  BY DEF Waits
<1> QED
  BY <1>1, InhKept

(* mutexLock and mutexTryLock of a free mutex *)
LEMMA TakeInh == ASSUME Inv, InhInv, NEW m \in Mutex, Take(m) PROVE InhInv'
<1>1. /\ walk = NoWalk /\ owner[m] = None /\ owner' = [owner EXCEPT ![m] = cur]
      /\ UNCHANGED <<prio, queue, walk>>
  BY DEF Take, InApp, Running
<1>2. queue[m] = <<>> /\ ToSet(queue[m]) = {}
  <2>1. queue[m] = <<>> /\ queue[m] \in Queue
    BY <1>1 DEF Inv, OwnInv, RestTypes
  <2> QED
    BY <2>1, QueueFacts
<1>3. \A n \in Mutex \ {m} : owner'[n] = owner[n]
  BY <1>1 DEF Inv, RestTypes
<1>4. \A w, t \in Thread : Waits(w, t)' <=> Waits(w, t)
  BY <1>1, <1>2, <1>3 DEF Waits
<1> QED
  BY <1>1, <1>4, InhKept

(* mutexLock of a mutex that has an owner *)
LEMMA LockInh == ASSUME Inv, InhInv, NEW m \in Mutex, Lock(m) PROVE InhInv'
<1>1. /\ walk = NoWalk /\ walk' = <<m, owner[m]>> /\ UNCHANGED <<cur, prio, owner, queue>>
  BY DEF Lock, InApp, Running
<1>2. walk' # NoWalk /\ walk'[1] = m /\ walk'[2] = owner[m]
  BY <1>1 DEF NoWalk
<1>3. SettledInv
  BY <1>1 DEF InhInv
<1>4. \A w, t \in Thread : Waits(w, t)' <=> Waits(w, t)
  BY <1>1 DEF Waits
<1>5. \A t \in Thread : Earned(t)'
  BY <1>1, <1>3, <1>4 DEF SettledInv, Earned
<1>6. \A w, t \in Thread : Waits(w, t)' => prio'[w] <= prio'[t]
  BY <1>1, <1>3, <1>4 DEF SettledInv
<1>7. BoostInv(owner[m], owner[m])'
  BY <1>5, <1>6 DEF BoostInv
<1>8. BoostInv(owner[walk[1]], walk[2])'
  BY <1>1, <1>2, <1>7 DEF BoostInv
<1> QED
  BY <1>1, <1>2, <1>8 DEF InhInv

(* The walk goes on from x to y. *)
LEMMA WalkOnInh == ASSUME Inv, Inv', InhInv, WalkOn PROVE InhInv'
<1>0. PICK x, n, o, y, c :
        x = walk[2] /\ n = u[x] /\ o = owner[walk[1]] /\ y = owner[n] /\ c = prio[cur]
  OBVIOUS
<1>1. /\ walk # NoWalk /\ prio[x] < c /\ state[x] = "wtmtx" /\ prio' = Boost(x)
      /\ walk' = <<walk[1], y>> /\ UNCHANGED <<cur, state, u, owner>>
  BY <1>0 DEF WalkOn
<1>2. walk \in Mutex \X Thread
  BY <1>1 DEF Inv, RestTypes
<1>3. x \in Thread /\ walk[1] \in Mutex
  BY <1>0, <1>2
<1>4. cur \in Thread /\ prio \in Prios /\ QueueInv /\ QueueInv'
  BY DEF Inv, SwitchTypes, RestTypes
<1>5. walk' # NoWalk /\ walk'[1] = walk[1] /\ walk'[2] = y /\ o = owner'[walk'[1]]
  BY <1>0, <1>1 DEF NoWalk
<1>6. n \in Mutex /\ x \in ToSet(queue[n]) /\ \A m \in Mutex : x \in ToSet(queue[m]) => m = n
  BY <1>0, <1>1, <1>3, <1>4 DEF QueueInv
<1>7. o \in Thread
  BY <1>0, <1>1, <1>3 DEF Inv, WalkInv, RestTypes
<1>8. BoostInv(o, x) /\ \A t \in Thread : Base[t] <= prio[t]
  BY <1>0, <1>1 DEF InhInv
<1>9. x # cur /\ prio'[x] = c /\ \A t \in Thread \ {x} : prio'[t] = prio[t]
  <2>1. c \in Nat /\ prio[x] \in Nat /\ c = prio[cur]
    BY <1>0, <1>3, <1>4 DEF Prios
  <2>2. x # cur
    BY <1>1, <2>1
  <2> QED
    BY <1>1, <1>3, <1>4, <2>1, <2>2 DEF Boost, Prios
<1>10. c \in Nat /\ prio'[cur'] = c /\ cur' = cur /\ \A t \in Thread : prio[t] \in Nat /\ Base[t] \in Nat
  BY <1>0, <1>1, <1>4, <1>9 DEF Prios
<1>11. \A w, t \in Thread : Waits(w, t)' <=> Waits(w, t)
  <2>1. \A m \in Mutex : ToSet(queue'[m]) = ToSet(queue[m])
    BY <1>1, <1>4 DEF QueueInv
  <2> QED
    BY <1>1, <2>1 DEF Waits
<1>12. Waits(x, y) /\ \A t \in Thread : Waits(x, t) => t = y
  BY <1>0, <1>6 DEF Waits
<1>13. y \in Thread
  <2>1. walk' \in Mutex \X Thread
    BY <1>5 DEF Inv, RestTypes
  <2> QED
    BY <1>5, <2>1
<1>14. /\ \A w, t \in Thread : Waits(w, t) => prio[w] <= prio[t] \/ (t = x /\ prio[w] <= c)
       /\ \A t \in Thread : Earned(t) \/ (t = o /\ prio[t] = c) \/ (t = x /\ prio[t] < c)
       /\ x # o => prio[o] >= c /\ \E w \in Thread : Waits(w, x) /\ prio[w] = c
  BY <1>0, <1>8 DEF BoostInv
<1>15. \A t \in Thread : Base[t] <= prio'[t]
  <2> TAKE t \in Thread
  <2>1. CASE t = x
    <3>1. Base[x] <= prio[x] /\ prio[x] < c /\ prio[x] \in Nat /\ Base[x] \in Nat
      BY <1>1, <1>3, <1>8, <1>10
    <3> QED
      BY <1>9, <1>10, <2>1, <3>1
  <2>2. CASE t # x
    BY <1>8, <1>9, <2>2
  <2> QED
    BY <2>1, <2>2
<1>16. prio[x] < c
  BY <1>1
<1>17. ASSUME NEW w \in Thread, NEW t \in Thread, Waits(w, t)
       PROVE  prio'[w] <= prio'[t] \/ (t = y /\ prio'[w] <= c)
  <2>1. CASE w = x
    BY <1>9, <1>10, <1>12, <1>17, <2>1
  <2>2. CASE w # x /\ t = x
    <3>1. prio[w] <= prio[x] \/ prio[w] <= c
      BY <1>14, <1>17, <2>2
    <3>2. prio[w] <= c
      BY <1>3, <1>10, <1>16, <3>1
    <3> QED
      BY <1>9, <2>2, <3>2
  <2>3. CASE w # x /\ t # x
    BY <1>9, <1>14, <1>17, <2>3
  <2> QED
    BY <2>1, <2>2, <2>3
<1>18. ASSUME NEW t \in Thread
       PROVE  \/ Earned(t)'
              \/ t = o /\ prio'[t] = c
              \/ t = y /\ prio'[t] < c
  <2>1. CASE t = x /\ x = o
    BY <1>9, <2>1
  <2>2. CASE t = x /\ x # o
    <3>1. PICK w \in Thread : Waits(w, x) /\ prio[w] = c
      BY <1>14, <2>2
    <3>2. w # x
      BY <1>3, <1>10, <1>16, <3>1
    <3>3. Waits(w, x)' /\ prio'[w] = prio'[x]
      BY <1>3, <1>9, <1>11, <3>1, <3>2
    <3> QED
      BY <2>2, <3>3 DEF Earned
  <2>3. CASE t # x
    <3>1. prio'[t] = prio[t]
      BY <1>9, <2>3
    <3>2. Earned(t) \/ (t = o /\ prio[t] = c)
      BY <1>14, <2>3
    <3>3. CASE prio[t] = Base[t]
      BY <3>1, <3>3 DEF Earned
    <3>4. ASSUME NEW w \in Thread, Waits(w, t), prio[w] = prio[t], w # x PROVE Earned(t)'
      <4>1. Waits(w, t)' /\ prio'[w] = prio'[t]
        BY <1>9, <1>11, <3>1, <3>4
      <4> QED
        BY <4>1 DEF Earned
    <3>5. ASSUME Waits(x, t), prio[x] = prio[t] PROVE t = y /\ prio'[t] < c
      BY <1>12, <1>16, <3>1, <3>5
    <3> QED
      BY <1>3, <3>1, <3>2, <3>3, <3>4, <3>5 DEF Earned
  <2> QED
    BY <2>1, <2>2, <2>3
<1>19. prio'[o] >= c
  <2>1. CASE x = o
    BY <1>9, <1>10, <2>1
  <2>2. CASE x # o
    BY <1>7, <1>9, <1>14, <2>2
  <2> QED
    BY <2>1, <2>2
<1>20. \E w \in Thread : Waits(w, y)' /\ prio'[w] = c
  BY <1>3, <1>9, <1>11, <1>12, <1>13
<1>21. BoostInv(owner[walk[1]], walk[2])'
  <2>1. owner'[walk'[1]] = o /\ walk'[2] = y /\ prio'[cur'] = c
    BY <1>5, <1>10
  <2>2. \A w, t \in Thread : Waits(w, t)' => prio'[w] <= prio'[t] \/ (t = y /\ prio'[w] <= c)
    BY <1>11, <1>17
  <2> QED
    BY <1>18, <1>19, <1>20, <2>1, <2>2 DEF BoostInv
<1> QED
  BY <1>5, <1>15, <1>21 DEF InhInv

(* The walk ends at x; the current thread waits for o. *)
LEMMA WalkEndInh == ASSUME Inv, InhInv, WalkEnd PROVE InhInv'
<1>0. PICK x, m, o, c : x = walk[2] /\ m = walk[1] /\ o = owner[m] /\ c = prio[cur]
  OBVIOUS
<1>1. /\ walk # NoWalk /\ ~(prio[x] < c /\ state[x] = "wtmtx")
      /\ prio' = IF prio[x] < c THEN Boost(x) ELSE prio
      /\ walk' = NoWalk /\ UNCHANGED owner
  BY <1>0 DEF WalkEnd
<1>2. walk \in Mutex \X Thread
  BY <1>1 DEF Inv, RestTypes
<1>3. x \in Thread /\ m \in Mutex
  BY <1>0, <1>2
<1>4. cur \in Thread /\ prio \in Prios /\ QueueInv /\ state[cur] = "current"
  BY DEF Inv, SwitchTypes, RestTypes, SchedInv
<1>5. o \in Thread
  BY <1>0, <1>1, <1>3 DEF Inv, WalkInv, RestTypes
<1>6. ToSet(queue'[m]) = ToSet(queue[m]) \cup {cur} /\ \A n \in Mutex \ {m} : queue'[n] = queue[n]
  BY <1>0, WalkEndOK
<1>7. /\ \A w, t \in Thread : Waits(w, t) => prio[w] <= prio[t] \/ (t = x /\ prio[w] <= c)
      /\ \A t \in Thread : Earned(t) \/ (t = o /\ prio[t] = c) \/ (t = x /\ prio[t] < c)
      /\ x # o => prio[o] >= c /\ \E w \in Thread : Waits(w, x) /\ prio[w] = c
      /\ \A t \in Thread : Base[t] <= prio[t]
  BY <1>0, <1>1 DEF InhInv, BoostInv
<1>8. c \in Nat /\ c = prio[cur] /\ \A t \in Thread : prio[t] \in Nat /\ Base[t] \in Nat
  BY <1>0, <1>4 DEF Prios
<1>9. /\ prio[x] < c => prio'[x] = c /\ x # cur
      /\ \A t \in Thread : t # x \/ ~(prio[x] < c) => prio'[t] = prio[t]
  <2>1. CASE prio[x] < c
    <3>1. prio' = [prio EXCEPT ![x] = c]
      BY <1>1, <1>8, <2>1 DEF Boost
    <3>2. x # cur
      BY <1>4, <1>8, <2>1
    <3> QED
      BY <1>3, <1>4, <2>1, <3>1, <3>2 DEF Prios
  <2>2. CASE ~(prio[x] < c)
    BY <1>1, <2>2
  <2> QED
    BY <2>1, <2>2
<1>10. prio'[cur] = c
  BY <1>4, <1>8, <1>9
<1>11. \A w, t \in Thread : Waits(w, t)' <=> Waits(w, t) \/ (w = cur /\ t = o)
  <2>1. \A w, t \in Thread : Waits(w, t)' => Waits(w, t) \/ (w = cur /\ t = o)
    BY <1>0, <1>1, <1>6 DEF Waits
  <2>2. \A w, t \in Thread : Waits(w, t) => Waits(w, t)'
    BY <1>1, <1>6 DEF Waits
  <2>3. \A w, t \in Thread : w = cur /\ t = o => Waits(w, t)'
    <3>1. o = owner'[m] /\ cur \in ToSet(queue'[m])
      BY <1>0, <1>1, <1>6
    <3> QED
      BY <1>3, <3>1 DEF Waits
  <2> QED
    BY <2>1, <2>2, <2>3
<1>12. \A w, t \in Thread : Waits(w, t) => prio'[w] = prio[w] /\ w # cur
  <2>1. \A w, t \in Thread : Waits(w, t) => state[w] = "wtmtx"
    BY <1>4 DEF Waits, QueueInv
  <2> QED
    BY <1>1, <1>4, <1>9, <2>1
<1>13. \A t \in Thread : prio'[t] \in Nat /\ prio[t] <= prio'[t] /\ (t = x => c <= prio'[t])
  <2> TAKE t \in Thread
  <2>1. CASE t = x /\ prio[x] < c
    BY <1>8, <1>9, <2>1
  <2>2. CASE ~(t = x /\ prio[x] < c)
    <3>1. prio'[t] = prio[t] /\ prio[t] \in Nat
      BY <1>8, <1>9, <2>2
    <3> QED
      BY <1>8, <2>2, <3>1
  <2> QED
    BY <2>1, <2>2
<1>14. c <= prio'[o]
  <2>1. CASE x = o
    BY <1>5, <1>13, <2>1
  <2>2. CASE x # o
    <3>1. prio[o] >= c /\ prio'[o] = prio[o]
      BY <1>5, <1>7, <1>9, <2>2
    <3> QED
      BY <1>5, <1>8, <3>1
  <2> QED
    BY <2>1, <2>2
<1>15. ASSUME NEW w \in Thread, NEW t \in Thread, Waits(w, t)' PROVE prio'[w] <= prio'[t]
  <2>1. CASE Waits(w, t)
    <3>1. prio[w] <= prio[t] \/ (t = x /\ prio[w] <= c)
      BY <1>7, <2>1
    <3>2. prio'[w] = prio[w] /\ prio[w] \in Nat /\ prio[t] \in Nat
      BY <1>8, <1>12, <2>1
    <3> QED
      BY <1>8, <1>13, <3>1, <3>2
  <2>2. CASE w = cur /\ t = o
    BY <1>10, <1>14, <2>2
  <2> QED
    BY <1>11, <1>15, <2>1, <2>2
<1>16. ASSUME NEW t \in Thread PROVE Earned(t)'
  <2>1. ASSUME t = o, prio'[t] = c PROVE Earned(t)'
    <3>1. \E w \in Thread : Waits(w, t)' /\ prio'[w] = prio'[t]
      BY <1>4, <1>10, <1>11, <2>1
    <3> QED
      BY <3>1 DEF Earned
  <2>2. ASSUME NEW w \in Thread, Waits(w, t), prio[w] = prio'[t] PROVE Earned(t)'
    <3>1. Waits(w, t)' /\ prio'[w] = prio'[t]
      BY <1>11, <1>12, <2>2
    <3> QED
      BY <3>1 DEF Earned
  <2>3. CASE t = x /\ prio[x] < c
    <3>1. prio'[t] = c
      BY <1>9, <2>3
    <3>2. CASE x = o
      BY <2>1, <2>3, <3>1, <3>2
    <3>3. CASE x # o
      <4>1. PICK w \in Thread : Waits(w, x) /\ prio[w] = c
        BY <1>7, <3>3
      <4> QED
        BY <2>2, <2>3, <3>1, <4>1
    <3> QED
      BY <3>2, <3>3
  <2>4. CASE ~(t = x /\ prio[x] < c)
    <3>1. prio'[t] = prio[t]
      BY <1>9, <2>4
    <3>2. Earned(t) \/ (t = o /\ prio[t] = c)
      BY <1>7, <2>4
    <3>3. CASE prio[t] = Base[t]
      BY <3>1, <3>3 DEF Earned
    <3>4. CASE t = o /\ prio[t] = c
      BY <2>1, <3>1, <3>4
    <3>5. CASE \E w \in Thread : Waits(w, t) /\ prio[w] = prio[t]
      BY <2>2, <3>1, <3>5
    <3> QED
      BY <3>2, <3>3, <3>4, <3>5 DEF Earned
  <2> QED
    BY <2>3, <2>4
<1>17. \A t \in Thread : Base[t] <= prio'[t]
  <2> TAKE t \in Thread
  <2>1. Base[t] <= prio[t] /\ prio[t] <= prio'[t]
    BY <1>7, <1>13
  <2> QED
    BY <1>8, <1>13, <2>1
<1> QED
  BY <1>1, <1>15, <1>16, <1>17 DEF InhInv, SettledInv

(* mutexUnlock: the thread falls back to what it still has to inherit, and *)
(* the new owner is as urgent as those that wait behind it.                *)
LEMMA UnlockInh == ASSUME Inv, OrderInv, InhInv, Unlock PROVE InhInv'
<1>1. walk = NoWalk /\ walk' = NoWalk /\ SettledInv
  BY DEF Unlock, InApp, Running, InhInv
<1>2. /\ cur \in Thread /\ owner \in [Mutex -> Thread \cup {None}] /\ state[cur] = "current"
      /\ OwnInv /\ QueueInv /\ queue \in [Mutex -> Queue] /\ prio \in Prios
  BY DEF Inv, SwitchTypes, RestTypes, SchedInv
<1>3. CASE queue[Head(mtxlist[cur])] = <<>>
  <2>1. PICK m : m = Head(mtxlist[cur])
    OBVIOUS
  <2>2. owner' = [owner EXCEPT ![m] = None] /\ UNCHANGED <<prio, queue>> /\ mtxlist[cur] # <<>>
    BY <1>3, <2>1 DEF Unlock
  <2>3. ToSet(queue[m]) = {}
    BY <1>3, <2>1 DEF ToSet
  <2>4. \A n \in Mutex \ {m} : owner'[n] = owner[n]
    BY <1>2, <2>2
  <2>5. \A w, t \in Thread : Waits(w, t)' <=> Waits(w, t)
    BY <2>2, <2>3, <2>4 DEF Waits
  <2> QED
    BY <1>1, <2>2, <2>5, InhKept
<1>4. CASE queue[Head(mtxlist[cur])] # <<>>
  <2>1. PICK m, t, p : HandOver(m, t, p)
    BY <1>4, UnlockNextOK
  <2>2. PICK me : me = cur
    OBVIOUS
  <2>3. /\ m \in ToSet(mtxlist[me]) /\ m \in Mutex /\ t = queue[m][1]
        /\ t \in Thread /\ t # me /\ state[t] = "wtmtx" /\ u[t] = m /\ owner[m] = me
        /\ p \in Nat \ {0} /\ Base[me] <= p
        /\ \A n \in ToSet(mtxlist[me]) \ {m} : FirstPrio(queue[n], prio) <= p
        /\ \/ p = Base[me]
           \/ \E n \in ToSet(mtxlist[me]) \ {m} : p = FirstPrio(queue[n], prio)
        /\ prio'[me] = p /\ \A x \in Thread \ {me} : prio'[x] = prio[x]
        /\ ToSet(queue'[m]) = ToSet(queue[m]) \ {t} /\ \A n \in Mutex \ {m} : queue'[n] = queue[n]
        /\ owner'[m] = t /\ \A n \in Mutex \ {m} : owner'[n] = owner[n]
    BY <2>1, <2>2 DEF HandOver
  <2>4. \A n \in Mutex : n \in ToSet(mtxlist[me]) <=> owner[n] = me
    BY <1>2, <2>2 DEF OwnInv
  <2>5. ASSUME NEW n \in Mutex, NEW w \in ToSet(queue[n])
        PROVE  /\ w \in Thread /\ w # me /\ u[w] = n
               /\ prio'[w] = prio[w] /\ prio[w] \in Nat /\ prio[w] <= FirstPrio(queue[n], prio)
    <3>1. w \in Thread /\ w # me /\ u[w] = n
      BY <1>2, <2>2 DEF QueueInv
    <3>2. prio'[w] = prio[w] /\ prio[w] \in Nat
      BY <1>2, <2>3, <3>1 DEF Prios
    <3>3. queue[n] \in Queue /\ Sorted(queue[n], prio)
      BY <1>2 DEF OrderInv
    <3> QED
      BY <1>2, <3>1, <3>2, <3>3, FirstOK
  <2>6. ASSUME NEW n \in Mutex PROVE FirstPrio(queue[n], prio) \in Nat
    BY <1>2, FirstOK
  <2>7. ASSUME NEW y \in Thread PROVE Base[y] <= prio'[y]
    BY <2>3 DEF InhInv
  <2>8. ASSUME NEW w \in Thread, NEW y \in Thread, Waits(w, y)' PROVE prio'[w] <= prio'[y]
    <3>1. PICK n \in Mutex : owner'[n] = y /\ w \in ToSet(queue'[n])
      BY <2>8 DEF Waits
    <3>2. CASE n = m
      <4>1. y = t /\ w \in ToSet(queue[m])
        BY <2>3, <3>1, <3>2
      <4>2. FirstPrio(queue[m], prio) = prio[t] /\ prio'[t] = prio[t]
        <5>1. queue[m] # <<>> /\ queue[m] \in Queue
          BY <1>2, <2>3, <4>1, QueueFacts
        <5> QED
          BY <1>2, <2>3, <5>1, FirstOK
      <4> QED
        BY <2>3, <2>5, <4>1, <4>2
    <3>3. CASE n # m
      <4>1. owner[n] = y /\ w \in ToSet(queue[n])
        BY <2>3, <3>1, <3>3
      <4>2. CASE y = me
        <5>1. FirstPrio(queue[n], prio) <= p
          BY <2>3, <2>4, <3>3, <4>1, <4>2
        <5>2. prio'[w] <= p
          BY <2>3, <2>5, <2>6, <4>1, <5>1
        <5> QED
          BY <2>3, <4>2, <5>2
      <4>3. CASE y # me
        <5>1. Waits(w, y)
          BY <4>1 DEF Waits
        <5>2. prio[w] <= prio[y]
          BY <1>1, <5>1 DEF SettledInv
        <5> QED
          BY <2>3, <2>5, <4>1, <4>3, <5>2
      <4> QED
        BY <4>2, <4>3
    <3> QED
      BY <3>2, <3>3
  <2>9. ASSUME NEW n \in Mutex \ {m}, NEW w \in ToSet(queue[n]), NEW y \in Thread,
               owner[n] = y, prio[w] = prio'[y]
        PROVE  Earned(y)'
    <3>1. owner'[n] = y /\ w \in ToSet(queue'[n]) /\ w \in Thread /\ prio'[w] = prio'[y]
      BY <2>3, <2>5, <2>9
    <3>2. Waits(w, y)'
      BY <3>1 DEF Waits
    <3> QED
      BY <3>1, <3>2 DEF Earned
  <2>10. ASSUME NEW y \in Thread PROVE Earned(y)'
    <3>1. CASE y = me
      <4>1. CASE p = Base[me]
        BY <2>3, <3>1, <4>1 DEF Earned
      <4>2. CASE p # Base[me]
        <5>1. PICK n \in ToSet(mtxlist[me]) \ {m} : p = FirstPrio(queue[n], prio)
          BY <2>3, <4>2
        <5>2. n \in Mutex \ {m}
          <6>1. mtxlist[me] \in Seq(Mutex)
            BY <1>2, <2>2 DEF Inv, RestTypes
          <6> QED
            BY <5>1, <6>1 DEF ToSet
        <5>3. owner[n] = me /\ queue[n] \in Queue
          BY <1>2, <2>4, <5>1, <5>2
        <5>4. queue[n] # <<>>
          BY <1>2, <2>3, <5>1, <5>3, FirstOK
        <5>5. queue[n][1] \in ToSet(queue[n]) /\ p = prio[queue[n][1]]
          BY <1>2, <5>1, <5>3, <5>4, FirstOK
        <5> QED
          BY <2>3, <2>9, <3>1, <5>2, <5>3, <5>5
      <4> QED
        BY <4>1, <4>2
    <3>2. CASE y # me
      <4>1. prio'[y] = prio[y] /\ Earned(y)
        BY <1>1, <2>3, <3>2 DEF SettledInv
      <4>2. CASE prio[y] = Base[y]
        BY <4>1, <4>2 DEF Earned
      <4>3. CASE prio[y] # Base[y]
        <5>1. PICK w \in Thread : Waits(w, y) /\ prio[w] = prio[y]
          BY <4>1, <4>3 DEF Earned
        <5>2. PICK n \in Mutex : owner[n] = y /\ w \in ToSet(queue[n])
          BY <5>1 DEF Waits
        <5>3. n # m
          BY <2>3, <3>2, <5>2
        <5> QED
          BY <2>9, <4>1, <5>1, <5>2, <5>3
      <4> QED
        BY <4>2, <4>3
    <3> QED
      BY <3>1, <3>2
  <2> QED
    BY <1>1, <2>7, <2>8, <2>10 DEF InhInv, SettledInv
<1> QED
  BY <1>3, <1>4

(* Every step *)
LEMMA StepInh == ASSUME Inv, OrderInv, InhInv, [Next]_vars PROVE InhInv'
<1>0. Inv'
  BY StepGood DEF Good
<1>1. ASSUME NEW t \in Thread, Create(t) \/ Wait(t) PROVE InhInv'
  BY <1>1, SameKept DEF Create, Wait, InApp, Running
<1>2. ASSUME NEW r \in Ref, Resume(r) PROVE InhInv'
  BY <1>2, SameKept DEF Resume, InApp, Running
<1>3. ASSUME NEW r \in Ref, NEW b \in BOOLEAN, Suspend(r, b) PROVE InhInv'
  BY <1>3, SameKept DEF Suspend, InApp, Running
<1>4. isr # NoIsr => walk = NoWalk
  BY DEF Inv, WalkInv
<1>5. ASSUME NEW t \in Thread, Timeout(t) PROVE InhInv'
  BY <1>4, <1>5, SameKept DEF Timeout, NoIsr
<1>6. ASSUME NEW r \in Ref, ResumeI(r) PROVE InhInv'
  BY <1>4, <1>6, SameKept DEF ResumeI
<1>7. CASE Yield \/ Sleep \/ Exit
  BY <1>7, SameKept DEF Yield, Sleep, Exit, InApp, Running
<1>8. CASE Interrupt \/ Tick
  BY <1>8, SameKept DEF Interrupt, Tick, Running
<1>9. CASE Epilogue
  BY <1>4, <1>9, SameKept DEF Epilogue
<1>10. CASE ReturnBare
  BY <1>4, <1>10, SameKept DEF ReturnBare, NoIsr
<1>11. ASSUME NEW m \in Mutex, Take(m) \/ Lock(m) PROVE InhInv'
  BY <1>11, TakeInh, LockInh
<1>12. CASE WalkOn \/ WalkEnd \/ Unlock
  BY <1>0, <1>12, WalkOnInh, WalkEndInh, UnlockInh
<1>13. CASE UNCHANGED vars
  <2>1. UNCHANGED <<cur, prio, owner, queue, walk>>
    BY <1>13 DEF vars
  <2>2. \A w, t \in Thread : Waits(w, t)' <=> Waits(w, t)
    BY <2>1 DEF Waits
  <2>3. CASE walk = NoWalk
    BY <2>1, <2>3, SameKept
  <2>4. CASE walk # NoWalk
    <3>1. PICK o, x : o = owner[walk[1]] /\ x = walk[2]
      OBVIOUS
    <3>2. BoostInv(o, x) /\ \A t \in Thread : Base[t] <= prio[t]
      BY <2>4, <3>1 DEF InhInv
    <3>3. \A t \in Thread : Earned(t) => Earned(t)'
      BY <2>1, <2>2 DEF Earned
    <3>4. o = owner'[walk'[1]] /\ x = walk'[2] /\ walk' # NoWalk
      BY <2>1, <2>4, <3>1
    <3>5. BoostInv(o, x)'
      <4>1. /\ \A w, t \in Thread : Waits(w, t) => prio[w] <= prio[t] \/ (t = x /\ prio[w] <= prio[cur])
            /\ \A t \in Thread : Earned(t) \/ (t = o /\ prio[t] = prio[cur]) \/ (t = x /\ prio[t] < prio[cur])
            /\ x # o => prio[o] >= prio[cur] /\ \E w \in Thread : Waits(w, x) /\ prio[w] = prio[cur]
        BY <3>2 DEF BoostInv
      <4>2. \A w \in Thread : Waits(w, x)' <=> Waits(w, x)
        BY <2>1 DEF Waits
      <4> QED
        BY <2>1, <2>2, <3>3, <4>1, <4>2 DEF BoostInv
    <3>6. BoostInv(owner[walk[1]], walk[2])'
      BY <3>4, <3>5 DEF BoostInv
    <3> QED
      BY <2>1, <3>2, <3>4, <3>6 DEF InhInv
  <2> QED
    BY <2>3, <2>4
<1> QED
  BY <1>1, <1>2, <1>3, <1>5, <1>6, <1>7, <1>8, <1>9, <1>10, <1>11, <1>12, <1>13 DEF Next

(* Nobody owns a mutex at the start. *)
LEMMA InitInh == ASSUME Init PROVE InhInv
<1>1. /\ prio = Base /\ walk = NoWalk /\ queue = [m \in Mutex |-> <<>>]
  BY DEF Init
<1>2. ToSet(<<>>) = {}
  BY DEF ToSet
<1>3. \A w, t : ~Waits(w, t)
  BY <1>1, <1>2 DEF Waits
<1>4. SettledInv
  BY <1>1, <1>3 DEF SettledInv, Earned
<1>5. \A t \in Thread : Base[t] <= prio[t]
  <2>1. \A t \in Thread : Base[t] \in Nat
    OBVIOUS
  <2> QED
    BY <1>1, <2>1
<1> QED
  BY <1>1, <1>4, <1>5 DEF InhInv

(* Priority inheritance is exact: but for a walk under way a thread has    *)
(* its base priority or that of the most urgent thread that waits, in      *)
(* however many steps, for a mutex that it owns, after any locks, walks    *)
(* with interleaved owners and unlocks (chMtxLockS, chMtxUnlock).          *)
THEOREM InheritanceIsExact == Spec => []Inherited
<1>1. Init => InhInv
  BY InitInh
<1>2. Inv /\ OrderInv /\ InhInv /\ [Next]_vars => InhInv'
  BY StepInh
<1>3. ASSUME Inv, InhInv PROVE Inherited
  <2> SUFFICES ASSUME walk = NoWalk, NEW t \in Thread
               PROVE  prio[t] = Max({Base[t]} \cup
                        {prio[w] : w \in UNION {ToSet(queue[m]) : m \in ToSet(mtxlist[t])}})
    BY DEF Inherited
  <2> DEFINE W == UNION {ToSet(queue[m]) : m \in ToSet(mtxlist[t])}
             S == {Base[t]} \cup {prio[w] : w \in W}
  <2>1. /\ prio \in Prios /\ OwnInv /\ queue \in [Mutex -> Queue] /\ mtxlist \in [Thread -> Seq(Mutex)]
    BY <1>3 DEF Inv, RestTypes
  <2>2. ToSet(mtxlist[t]) \subseteq Mutex
    <3>1. mtxlist[t] \in Seq(Mutex)
      BY <2>1
    <3> QED
      BY <3>1 DEF ToSet
  <2>3. \A w : w \in W <=> Waits(w, t)
    <3>1. \A m \in Mutex : m \in ToSet(mtxlist[t]) <=> owner[m] = t
      BY <2>1 DEF OwnInv
    <3> QED
      BY <2>2, <3>1 DEF Waits
  <2>4. W \subseteq Thread
    <3>1. \A m \in Mutex : ToSet(queue[m]) \subseteq Thread
      BY <2>1, QueueFacts
    <3> QED
      BY <2>2, <3>1
  <2>5. prio[t] \in Nat /\ Base[t] \in Nat /\ \A w \in Thread : prio[w] \in Nat
    BY <2>1 DEF Prios
  <2> HIDE DEF W
  <2>6. SettledInv /\ Base[t] <= prio[t]
    BY <1>3 DEF InhInv
  <2>7. S \in SUBSET Nat /\ S # {} /\ \A x \in S : x <= prio[t]
    BY <2>3, <2>4, <2>5, <2>6 DEF SettledInv
  <2>8. prio[t] \in S
    <3>1. prio[t] = Base[t] \/ \E w \in Thread : Waits(w, t) /\ prio[w] = prio[t]
      BY <2>6 DEF SettledInv, Earned
    <3> QED
      BY <2>3, <3>1
  <2>9. prio[t] = Max(S)
    <3> HIDE DEF S
    <3>1. Max(S) \in S /\ \A x \in S : x <= Max(S)
      BY <2>5, <2>7, MaxOK
    <3>2. Max(S) \in Nat /\ Max(S) <= prio[t] /\ prio[t] <= Max(S)
      BY <2>7, <2>8, <3>1
    <3> QED
      BY <2>5, <3>2
  <2> QED
    BY <2>9 DEF W
<1> QED
  BY <1>1, <1>2, <1>3, Invariance, PTL DEF Spec
=============================================================================
