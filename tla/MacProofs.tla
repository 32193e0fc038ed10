----------------------------- MODULE MacProofs -----------------------------
(***************************************************************************)
(* Proofs about Mac, for every width of a byte, length of the preamble and *)
(* length of the packets: the packet buffer is not overrun, a complete     *)
(* packet survives the rest of the batch it ended in, and packets begin    *)
(* where the stream has a preamble with its sync bytes, and only there.    *)
(***************************************************************************)
EXTENDS Mac, WellFoundedInduction, TLAPS

-----------------------------------------------------------------------------
(* A set of naturals has a least member. *)
LEMMA FirstOfNaturals ==
  ASSUME NEW S \in SUBSET Nat, S # {}
  PROVE  \E x \in S : \A y \in S : x <= y
  <1>1. IsWellFoundedOn(OpToRel(<, Nat), Nat)
    BY NatLessThanWellFounded
  <1>2. PICK x \in S : \A y \in S : ~(<<y, x>> \in OpToRel(<, Nat))
    BY <1>1, WFMin
  <1>3. \A y \in S : ~(y < x)
    BY <1>2 DEF OpToRel
  <1>4. QED
    BY <1>3

(* The powers of two up to the m-th exist. *)
LEMMA PowersExist ==
  ASSUME NEW m \in Nat
  PROVE  \E f : f = [n \in 0 .. m |-> IF n = 0 THEN 1 ELSE 2 * f[n - 1]]
  <1> DEFINE Powers(f, k) == f = [n \in 0 .. k |-> IF n = 0 THEN 1 ELSE 2 * f[n - 1]]
             Bad == {k \in Nat : ~\E f : Powers(f, k)}
  <1>1. SUFFICES ASSUME Bad # {} PROVE FALSE
    OBVIOUS
  <1>2. PICK k \in Bad : \A n \in Bad : k <= n
    BY <1>1, FirstOfNaturals
  <1>3. CASE k = 0
    <2>1. Powers([n \in 0 .. 0 |-> 1], 0)
      OBVIOUS
    <2>2. QED
      BY <1>2, <1>3, <2>1
  <1>4. CASE k > 0
    <2>1. k - 1 \in Nat /\ k - 1 \notin Bad
      <3>1. Bad \subseteq Nat
        OBVIOUS
      <3> HIDE DEF Bad
      <3>2. QED
        BY <1>2, <1>4, <3>1
    <2>2. PICK f : Powers(f, k - 1)
      BY <2>1
    <2> DEFINE g == [n \in 0 .. k |-> IF n = k THEN 2 * f[k - 1] ELSE f[n]]
    <2>3. Powers(g, k)
      BY <2>1, <2>2
    <2>4. QED
      BY <1>2, <2>3
  <1>5. QED
    BY <1>2, <1>3, <1>4

(* A power of two is twice the one before it. *)
LEMMA PowerStep ==
  /\ Pow2[0] = 1
  /\ \A n \in 1 .. ByteBits : Pow2[n] = 2 * Pow2[n - 1]
  <1> DEFINE f == CHOOSE g : g = [n \in 0 .. ByteBits |-> IF n = 0 THEN 1 ELSE 2 * g[n - 1]]
  <1>1. f = [n \in 0 .. ByteBits |-> IF n = 0 THEN 1 ELSE 2 * f[n - 1]]
    BY PowersExist, MacAssumption
  <1>2. Pow2 = f
    BY DEF Pow2
  <1> HIDE DEF f
  <1>3. \A n \in 0 .. ByteBits : f[n] = IF n = 0 THEN 1 ELSE 2 * f[n - 1]
    BY <1>1
  <1>4. QED
    BY <1>2, <1>3, MacAssumption

(* Powers of two are positive. *)
LEMMA PowerType == \A n \in 0 .. ByteBits : Pow2[n] \in Nat \ {0}
  <1> DEFINE Bad == {n \in 0 .. ByteBits : Pow2[n] \notin Nat \ {0}}
  <1>1. SUFFICES ASSUME Bad # {} PROVE FALSE
    OBVIOUS
  <1>2. PICK n \in Bad : \A k \in Bad : n <= k
    <2>1. Bad \in SUBSET Nat
      BY MacAssumption
    <2> HIDE DEF Bad
    <2>2. QED
      BY <1>1, <2>1, FirstOfNaturals
  <1>3. n # 0
    BY <1>2, PowerStep
  <1>4. n \in 1 .. ByteBits /\ n - 1 \in 0 .. ByteBits /\ n - 1 \notin Bad
    <2>1. n \in 1 .. ByteBits /\ Bad \subseteq Int
      BY <1>2, <1>3, MacAssumption
    <2> HIDE DEF Bad
    <2>2. QED
      BY <1>2, <2>1, MacAssumption
  <1>5. Pow2[n - 1] \in Nat \ {0}
    BY <1>4
  <1>6. Pow2[n] = 2 * Pow2[n - 1]
    BY <1>4, PowerStep
  <1>7. QED
    BY <1>2, <1>5, <1>6

(* The top bit, seen from a byte of which n bits are missing *)
LEMMA TopBitSplit == \A n \in 1 .. ByteBits : TopBit = Pow2[ByteBits - n] * Pow2[n - 1]
  <1> DEFINE Bad == {n \in 1 .. ByteBits : TopBit # Pow2[ByteBits - n] * Pow2[n - 1]}
  <1>1. SUFFICES ASSUME Bad # {} PROVE FALSE
    OBVIOUS
  <1>2. PICK n \in Bad : \A k \in Bad : n <= k
    <2>1. Bad \in SUBSET Nat
      BY MacAssumption
    <2> HIDE DEF Bad
    <2>2. QED
      BY <1>1, <2>1, FirstOfNaturals
  <1>3. n # 1
    <2>1. Pow2[ByteBits - 1] \in Nat /\ Pow2[1 - 1] = 1
      BY PowerType, PowerStep, MacAssumption
    <2>2. QED
      BY <1>2, <2>1 DEF TopBit
  <1>4. n \in 2 .. ByteBits /\ n - 1 \in 1 .. ByteBits /\ n - 1 \notin Bad
    <2>1. n \in 2 .. ByteBits /\ Bad \subseteq Int
      BY <1>2, <1>3, MacAssumption
    <2> HIDE DEF Bad
    <2>2. QED
      BY <1>2, <2>1, MacAssumption
  <1> DEFINE h == Pow2[ByteBits - n]
             l == Pow2[n - 2]
  <1>5. TopBit = Pow2[ByteBits - (n - 1)] * Pow2[(n - 1) - 1]
    BY <1>4
  <1>6. h \in Nat /\ l \in Nat
    BY <1>4, PowerType, MacAssumption
  <1>7. Pow2[ByteBits - (n - 1)] = 2 * h
    <2>1. ByteBits - (n - 1) \in 1 .. ByteBits /\ (ByteBits - (n - 1)) - 1 = ByteBits - n
      BY <1>4, MacAssumption
    <2>2. QED
      BY <2>1, PowerStep
  <1>8. Pow2[n - 1] = 2 * l /\ Pow2[(n - 1) - 1] = l
    <2>1. n - 1 \in 1 .. ByteBits /\ (n - 1) - 1 = n - 2
      BY <1>4, MacAssumption
    <2>2. QED
      BY <2>1, PowerStep
  <1> HIDE DEF h, l
  <1>9. (2 * h) * l = h * (2 * l)
    BY <1>6
  <1>10. TopBit = h * Pow2[n - 1]
    BY <1>5, <1>7, <1>8, <1>9
  <1>11. QED
    BY <1>2, <1>10 DEF h

(* 0x80 is a positive number, and a byte is less than the next power. *)
LEMMA TopBitType == TopBit \in Nat \ {0} /\ 2 * TopBit = Pow2[ByteBits]
  <1>1. ByteBits - 1 \in 0 .. ByteBits /\ ByteBits \in 1 .. ByteBits
    BY MacAssumption
  <1>2. QED
    BY <1>1, PowerType, PowerStep DEF TopBit

(* Quotient and remainder are unique. *)
LEMMA Division ==
  ASSUME NEW m \in Nat \ {0}, NEW q \in Nat, NEW r \in 0 .. m - 1
  PROVE  (q * m + r) \div m = q /\ (q * m + r) % m = r
  <1> DEFINE s == q * m + r
             d == s \div m
             e == s % m
  <1>1. s \in Nat
    OBVIOUS
  <1>2. d \in Int /\ e \in 0 .. m - 1 /\ s = d * m + e
    <2> HIDE DEF s
    <2>1. s = m * (s \div m) + (s % m)
      BY <1>1
    <2>2. QED
      BY <1>1, <2>1
  <1> HIDE DEF d, e
  <1>3. (d - q) * m = r - e
    BY <1>2
  <1>4. d - q \in Int /\ r - e < m /\ r - e > 0 - m
    BY <1>2
  <1>5. d - q = 0
    <2>1. CASE d - q >= 1
      <3>1. (d - q) * m >= 1 * m
        BY <1>4, <2>1
      <3>2. QED
        BY <1>3, <1>4, <3>1
    <2>2. CASE d - q <= 0 - 1
      <3>1. (q - d) * m >= 1 * m
        BY <1>4, <2>2, <1>2
      <3>2. (q - d) * m = 0 - (d - q) * m
        BY <1>2
      <3>3. QED
        BY <1>2, <1>3, <1>4, <3>1, <3>2
    <2>3. QED
      BY <1>4, <2>1, <2>2
  <1>6. d = q /\ e = r
    BY <1>2, <1>3, <1>5
  <1>7. QED
    BY <1>6 DEF d, e, s

(* The lowest bits of a number, and the one above them *)
LEMMA OneMoreBit ==
  ASSUME NEW s \in Nat, NEW p \in Nat \ {0}
  PROVE  /\ s % p \in 0 .. p - 1 /\ (s \div p) % 2 \in {0, 1}
         /\ s % (2 * p) = (s % p) + ((s \div p) % 2) * p
  <1> DEFINE q == s \div p
             r == s % p
             h == q \div 2
             t == q % 2
  <1>1. q \in Nat /\ r \in 0 .. p - 1 /\ s = q * p + r
    <2>1. s = p * (s \div p) + (s % p) /\ s \div p \in Int /\ s % p \in 0 .. p - 1
      OBVIOUS
    <2>2. s \div p \in Nat
      OBVIOUS
    <2>3. QED
      BY <2>1, <2>2
  <1>2. h \in Nat /\ t \in {0, 1} /\ q = 2 * h + t
    <2> HIDE DEF q
    <2>1. QED
      BY <1>1
  <1> HIDE DEF q, r, h, t
  <1>3. t * p + r \in 0 .. 2 * p - 1
    BY <1>1, <1>2
  <1>4. s = h * (2 * p) + (t * p + r)
    <2>1. q * p = h * (2 * p) + t * p
      BY <1>2
    <2>2. QED
      BY <1>1, <1>2, <2>1
  <1>5. s % (2 * p) = t * p + r
    <2>1. 2 * p \in Nat \ {0}
      OBVIOUS
    <2>2. QED
      BY <1>2, <1>3, <1>4, <2>1, Division
  <1>6. s % (2 * p) = r + t * p
    BY <1>1, <1>2, <1>5
  <1>7. QED
    BY <1>1, <1>2, <1>6 DEF q, r, h, t

-----------------------------------------------------------------------------

(* What the counters of each state hold. *)
StateInv ==
  /\ mstate = "SYNC" => bitpos \in 1 .. ByteBits /\ sync_count \in 0 .. 2
  /\ mstate = "PACKET" => /\ bitpos \in 1 .. ByteBits
                          /\ pkt_len = 0 => pkt_read <= HeaderLen + 1
                          /\ pkt_len # 0 => /\ pkt_read < pkt_len
                                            /\ HeaderOk
                                            /\ pkt_read > HeaderLen
                                            /\ pkt_len = LenFromHeader

(* How many bits the MAC has spent on the way to the next packet: at least *)
(* so many bits of the batch followed the end of a packet that is ready.   *)
Spent ==
  IF mstate = "IDLE" THEN idle_zeros
  ELSE IdleZeros + sync_count * ByteBits + (ByteBits - bitpos)

BatchInv == pktReady => bits >= 1 /\ Spent <= bits - 1

Inv == TypeOK /\ StateInv /\ NoOverwrite /\ ReadyIsWhole /\ BatchInv

(* The framing starts in a good state. *)
LEMMA InitInv == Init => Inv
  <1> SUFFICES ASSUME Init
               PROVE  Inv
    OBVIOUS
  <1>1. 0 \in Byte
    BY TopBitType DEF Byte
  <1>2. header \in Byte \X Byte
    BY <1>1 DEF Init, MacInit
  <1>3. matching \in BOOLEAN /\ pktReady \in BOOLEAN /\ ~pktReady
    BY DEF Init, MacInit
  <1>4. TypeOK
    BY <1>1, <1>2, <1>3, MacAssumption, BatchAssumption DEF Init, MacInit, TypeOK
  <1>5. QED
    BY <1>3, <1>4 DEF Init, MacInit, Inv, StateInv, NoOverwrite, ReadyIsWhole, BatchInv

(* Shifting a bit into a byte gives a byte. *)
LEMMA ShiftedIsByte ==
  ASSUME TypeOK, NEW bit \in {0, 1}
  PROVE  Shifted(bit) \in Byte
  <1>1. TopBit \in Nat \ {0}
    BY TopBitType
  <1>2. curbyte \in 0 .. 2 * TopBit - 1
    BY DEF TypeOK, Byte
  <1>3. curbyte \div 2 \in 0 .. TopBit - 1
    BY <1>1, <1>2
  <1>4. bit * TopBit \in {0, TopBit}
    BY <1>1
  <1>5. QED
    BY <1>1, <1>3, <1>4 DEF Shifted, Byte

(* putBitMac keeps the invariant, case by case. *)
LEMMA BitStep ==
  ASSUME Inv, NEW bit \in {0, 1}, Bit(bit)
  PROVE  Inv'
  <1> USE MacAssumption, TopBitType DEF Inv, TypeOK, StateInv, NoOverwrite, ReadyIsWhole, BatchInv
  <1>1. bits' = bits + 1 /\ bits' \in 0 .. BatchBits /\ bits \in Nat
    BY BatchAssumption DEF Bit
  <1>2. CASE IdleCount(bit)
    BY <1>1, <1>2 DEF IdleCount, Spent, HeaderOk, LenFromHeader
  <1>3. CASE IdleSaturate(bit)
    BY <1>1, <1>3 DEF IdleSaturate, Spent, HeaderOk, LenFromHeader
  <1>4. CASE IdleToSync(bit)
    BY <1>1, <1>4 DEF IdleToSync, Spent, HeaderOk, LenFromHeader, Byte
  <1>5. CASE SyncShift(bit)
    BY <1>1, <1>5, ShiftedIsByte DEF SyncShift, Spent, HeaderOk, LenFromHeader
  <1>6. CASE SyncZeroByte(bit)
    BY <1>1, <1>6 DEF SyncZeroByte, Spent, HeaderOk, LenFromHeader, Byte
  <1>7. CASE SyncByte(bit)
    BY <1>1, <1>7, BatchAssumption DEF SyncByte, Spent, HeaderOk, LenFromHeader, Byte
  <1>8. CASE PacketReject(bit)
    BY <1>1, <1>8 DEF PacketReject, Spent, HeaderOk, LenFromHeader
  <1>9. CASE PacketBit(bit)
    <2>1. ~pktReady /\ mstate = "PACKET" /\ bitpos \in 1 .. ByteBits /\ Shifted(bit) \in Byte
      BY <1>9, ShiftedIsByte DEF PacketBit, LoadBit
    <2>2. pkt_len' \in {0, CtrlLen, DataLen}
      BY <1>9 DEF PacketBit, LoadBit, LenFromHeader
    <2>3. header' \in Byte \X Byte /\ curbyte' \in Byte /\ bitpos' \in 1 .. ByteBits
      BY <1>9, <2>1 DEF PacketBit, LoadBit, Byte
    <2>4. pkt_len' = 0 => pkt_len = 0 /\ pkt_read <= HeaderLen
      BY <1>9 DEF PacketBit, LoadBit, HeaderDue, LenFromHeader
    <2>5. pkt_len' # 0 => /\ HeaderOk /\ pkt_len' = LenFromHeader
                          /\ pkt_read > HeaderLen /\ pkt_read < pkt_len'
      BY <1>9, <2>1 DEF PacketBit, LoadBit, HeaderDue, LenFromHeader
    <2>6. pkt_len' # 0 => header' = header
      BY <1>9, <2>5 DEF PacketBit, LoadBit
    <2>7. pkt_read' \in {pkt_read, pkt_read + 1}
      BY <1>9 DEF PacketBit, LoadBit
    <2>8. CASE pkt_len' # 0 /\ pkt_read' >= pkt_len'
      <3>1. pktReady' /\ pktReady' \in BOOLEAN
        BY <1>9, <2>8 DEF PacketBit, LoadBit
      <3>2. mstate' = "IDLE" /\ idle_zeros' = 0 /\ UNCHANGED <<sync_count, matching>>
        BY <1>9, <2>8 DEF PacketBit, LoadBit
      <3>3. pkt_read' = pkt_len' /\ pkt_read' \in 0 .. DataLen
        BY <2>2, <2>5, <2>7, <2>8
      <3>4. HeaderOk' /\ LenFromHeader' = LenFromHeader
        BY <2>5, <2>6, <2>8 DEF HeaderOk, LenFromHeader
      <3>5. TypeOK'
        BY <1>1, <2>2, <2>3, <3>1, <3>2, <3>3
      <3>6. QED
        BY <1>1, <2>5, <2>8, <3>1, <3>2, <3>3, <3>4, <3>5 DEF Spent
    <2>9. CASE ~(pkt_len' # 0 /\ pkt_read' >= pkt_len')
      <3>1. UNCHANGED <<pktReady, mstate, idle_zeros, sync_count, matching>>
        BY <1>9, <2>9 DEF PacketBit, LoadBit
      <3>2. pkt_len' # 0 => HeaderOk' /\ LenFromHeader' = LenFromHeader
        BY <2>5, <2>6 DEF HeaderOk, LenFromHeader
      <3>3. pkt_read' \in 0 .. DataLen
        BY <2>2, <2>4, <2>7, <2>9
      <3>4. TypeOK'
        BY <1>1, <2>2, <2>3, <3>1, <3>3
      <3>5. StateInv'
        BY <2>2, <2>3, <2>4, <2>5, <2>7, <2>9, <3>1, <3>2, <3>3
      <3>6. QED
        BY <2>1, <3>1, <3>4, <3>5
    <2>10. QED
      BY <2>8, <2>9
  <1>10. QED
    BY <1>2, <1>3, <1>4, <1>5, <1>6, <1>7, <1>8, <1>9 DEF Bit, PutBitMac

(* So do the loop's steps between batches. *)
LEMMA InvStep == Inv /\ [Next]_vars => Inv'
  <1> SUFFICES ASSUME Inv, [Next]_vars
               PROVE  Inv'
    OBVIOUS
  <1>1. ASSUME NEW bit \in {0, 1}, Bit(bit)
        PROVE  Inv'
    BY <1>1, BitStep
  <1>2. CASE NextBatch
    BY <1>2, BatchAssumption, MacAssumption
       DEF NextBatch, macVars, Inv, TypeOK, StateInv, NoOverwrite, ReadyIsWhole, BatchInv,
           HeaderOk, LenFromHeader
  <1>3. CASE TakePacket
    <2>1. ~pktReady' /\ pktReady' \in BOOLEAN
      BY <1>3 DEF TakePacket
    <2>2. TypeOK' /\ StateInv'
      BY <1>3, <2>1, BatchAssumption
         DEF TakePacket, Inv, TypeOK, StateInv, HeaderOk, LenFromHeader
    <2>3. QED
      BY <2>1, <2>2 DEF Inv, NoOverwrite, ReadyIsWhole, BatchInv
  <1>4. CASE UNCHANGED vars
    BY <1>4 DEF vars, macVars, Inv, TypeOK, StateInv, NoOverwrite, ReadyIsWhole, BatchInv,
           HeaderOk, LenFromHeader, Spent
  <1>5. QED
    BY <1>1, <1>2, <1>3, <1>4 DEF Next

(* Every state of the framing is good. *)
LEMMA Invariance == Spec => []Inv
  BY InitInv, InvStep, PTL DEF Spec

(* Every counter of the MAC stays in range; the packet buffer is not overrun. *)
THEOREM TypeCorrect == Spec => []TypeOK
  <1>1. Inv => TypeOK
    BY DEF Inv
  <1>2. QED
    BY <1>1, Invariance, PTL

(* A complete packet is never overwritten before the updater has seen it,  *)
(* as long as a batch carries at most IdleZeros + 3 * ByteBits bits.       *)
THEOREM BufferIsFree == Spec => []NoOverwrite
  <1>1. Inv => NoOverwrite
    BY DEF Inv
  <1>2. QED
    BY <1>1, Invariance, PTL

(* What the updater gets is a whole packet of one of the two kinds. *)
THEOREM PacketIsWhole == Spec => []ReadyIsWhole
  <1>1. Inv => ReadyIsWhole
    BY DEF Inv
  <1>2. QED
    BY <1>1, Invariance, PTL

-----------------------------------------------------------------------------
(* The bits of the current byte that have arrived, how many they are, and  *)
(* how many of the sync bytes with it                                      *)
Got == ByteBits - bitpos
Part == curbyte \div Pow2[bitpos]
Position == sync_count * ByteBits + Got

(* The bits that have arrived are the upper ones; the rest is zero. *)
PartInv == mstate = "SYNC" => curbyte = Part * Pow2[bitpos] /\ Part \in 0 .. Pow2[Got] - 1

(* The zeros that the MAC knows of.  It knows of all but those at the end  *)
(* of the byte before a byte of zeros, fewer than a byte.                  *)
ZerosInv ==
  /\ zeros \in 0 .. LongRun + 1
  /\ mstate = "IDLE" => /\ idle_zeros > IdleZeros \/ zeros <= idle_zeros + ByteBits - 1
                        /\ zeros >= idle_zeros \/ zeros > LongRun
  /\ mstate = "SYNC" => IF curbyte = 0 THEN Got <= zeros /\ zeros <= Got + ByteBits - 1
                                       ELSE zeros <= Got - 1
  /\ mstate = "PACKET" => zeros = 0

(* So far everything is as in the sync bytes. *)
InSync == mstate = "SYNC" /\ matching /\ Part = Sync[sync_count + 1] % Pow2[Got]

(* The MAC is in step with the stream. *)
SeenInv ==
  /\ seen \in {0} \cup 2 .. SyncBits
  /\ long \in BOOLEAN
  /\ mstate = "SYNC" => Position >= 2
  /\ InSync => seen = Position
  /\ seen \in 2 .. SyncBits - 1 /\ long => InSync /\ seen = Position
  /\ seen = SyncBits /\ long => mstate = "PACKET"

StreamInv == PartInv /\ ZerosInv /\ SeenInv

(* What SYNC does with a bit: it goes on top of those that have arrived. *)
LEMMA ShiftedPart ==
  ASSUME Inv, PartInv, mstate = "SYNC", NEW bit \in {0, 1}
  PROVE  /\ Got \in 0 .. ByteBits - 1 /\ Part \in 0 .. Pow2[Got] - 1
         /\ Pow2[Got + 1] = 2 * Pow2[Got] /\ Pow2[Got] \in Nat \ {0}
         /\ Shifted(bit) = (Part + bit * Pow2[Got]) * Pow2[bitpos - 1]
         /\ Pow2[bitpos - 1] \in Nat \ {0}
         /\ curbyte = 0 <=> Part = 0
         /\ Shifted(bit) = 0 <=> bit = 0 /\ curbyte = 0
  <1> DEFINE b == Pow2[bitpos - 1]
             g == Pow2[Got]
             x == Part
  <1>1. bitpos \in 1 .. ByteBits /\ Got \in 0 .. ByteBits - 1 /\ bitpos = ByteBits - Got
    BY MacAssumption DEF Inv, StateInv, Got
  <1>2. g \in Nat \ {0} /\ b \in Nat \ {0}
    <2>1. Got \in 0 .. ByteBits /\ bitpos - 1 \in 0 .. ByteBits
      BY <1>1, MacAssumption
    <2>2. QED
      BY <2>1, PowerType
  <1>3. Pow2[Got + 1] = 2 * g
    <2>1. Got + 1 \in 1 .. ByteBits /\ (Got + 1) - 1 = Got
      BY <1>1, MacAssumption
    <2>2. QED
      BY <2>1, PowerStep
  <1>4. Pow2[bitpos] = 2 * b
    BY <1>1, PowerStep
  <1>5. TopBit = g * b
    BY <1>1, TopBitSplit DEF Got
  <1>6. x \in 0 .. g - 1 /\ curbyte = x * (2 * b)
    BY <1>4 DEF PartInv
  <1> HIDE DEF x, g, b
  <1>7. curbyte = 2 * (x * b) /\ x * b \in Nat /\ x \in Nat
    BY <1>2, <1>6
  <1>8. curbyte \div 2 = x * b
    <2> DEFINE y == x * b
    <2> HIDE DEF y
    <2>1. (2 * y) \div 2 = y
      BY <1>7 DEF y
    <2>2. QED
      BY <1>7, <2>1 DEF y
  <1>9. Shifted(bit) = (x + bit * g) * b
    <2>1. CASE bit = 0
      BY <1>2, <1>7, <1>8, <2>1, <1>5 DEF Shifted
    <2>2. CASE bit = 1
      <3>1. Shifted(bit) = x * b + g * b
        BY <1>2, <1>7, <1>8, <1>5, <2>2 DEF Shifted
      <3>2. x * b + g * b = (x + g) * b
        BY <1>2, <1>7
      <3>3. QED
        BY <1>2, <2>2, <3>1, <3>2
    <2>3. QED
      BY <2>1, <2>2
  <1>10. \A n \in Nat : n * b = 0 <=> n = 0
    BY <1>2
  <1>11. curbyte = 0 <=> x = 0
    BY <1>7, <1>10
  <1>12. x + bit * g \in Nat /\ (x + bit * g = 0 <=> bit = 0 /\ x = 0)
    BY <1>2, <1>7
  <1>13. Shifted(bit) = 0 <=> bit = 0 /\ curbyte = 0
    BY <1>9, <1>10, <1>11, <1>12
  <1>14. QED
    BY <1>1, <1>2, <1>3, <1>6, <1>9, <1>11, <1>13 DEF x, g, b

(* The part of a byte after a bit was shifted in *)
LEMMA PartStep ==
  ASSUME Inv, PartInv, NEW bit \in {0, 1}, SyncShift(bit)
  PROVE  /\ Got' = Got + 1 /\ Part' = Part + bit * Pow2[Got]
         /\ PartInv'
  <1>0. mstate = "SYNC" /\ mstate' = "SYNC" /\ bitpos' = bitpos - 1 /\ curbyte' = Shifted(bit)
    BY DEF SyncShift
  <1>1. Got' = Got + 1
    BY <1>0, MacAssumption DEF Got, Inv, StateInv
  <1> DEFINE y == Part + bit * Pow2[Got]
  <1>2. curbyte' = y * Pow2[bitpos']
    BY <1>0, ShiftedPart
  <1>3. y \in 0 .. Pow2[Got + 1] - 1
    BY <1>0, ShiftedPart
  <1>4. Pow2[bitpos'] \in Nat \ {0}
    BY <1>0, ShiftedPart
  <1> HIDE DEF y
  <1>5. Part' = y
    <2>1. y \in Nat /\ 0 \in 0 .. Pow2[bitpos'] - 1
      BY <1>3, <1>4
    <2>2. (y * Pow2[bitpos'] + 0) \div Pow2[bitpos'] = y
      BY <1>4, <2>1, Division
    <2>3. QED
      BY <1>2, <1>4, <2>1, <2>2 DEF Part
  <1>6. QED
    BY <1>1, <1>2, <1>3, <1>5 DEF PartInv, y

(* A part of nothing *)
LEMMA PartEmpty ==
  ASSUME bitpos' = ByteBits, curbyte' = 0
  PROVE  Got' = 0 /\ Part' = 0 /\ PartInv'
  <1>1. Pow2[ByteBits] \in Nat \ {0} /\ Pow2[0] = 1
    BY PowerType, PowerStep, MacAssumption
  <1>2. Got' = 0
    BY MacAssumption DEF Got
  <1>3. Part' = 0
    <2>1. (0 * Pow2[ByteBits] + 0) \div Pow2[ByteBits] = 0
      BY <1>1, Division
    <2>2. QED
      BY <1>1, <2>1 DEF Part
  <1>4. QED
    BY <1>1, <1>2, <1>3 DEF PartInv

(* The two bits that the MAC begins with *)
LEMMA PartFirst ==
  ASSUME bitpos' = ByteBits - 2, curbyte' = TopBit
  PROVE  Got' = 2 /\ Part' = 2 /\ Pow2[2] = 4 /\ PartInv'
  <1> DEFINE p == Pow2[ByteBits - 2]
  <1>1. p \in Nat \ {0} /\ TopBit = 2 * p
    <2>1. ByteBits - 1 \in 1 .. ByteBits /\ ByteBits - 2 \in 0 .. ByteBits
           /\ (ByteBits - 1) - 1 = ByteBits - 2
      BY MacAssumption
    <2>2. QED
      BY <2>1, PowerType, PowerStep DEF TopBit
  <1>2. Got' = 2
    BY MacAssumption DEF Got
  <1>3. Pow2[2] = 4
    BY PowerStep, MacAssumption
  <1>4. Part' = 2
    <2> HIDE DEF p
    <2>1. (2 * p + 0) \div p = 2
      BY <1>1, Division
    <2>2. Part' = TopBit \div p
      BY DEF Part, p
    <2>3. QED
      BY <1>1, <2>1, <2>2
  <1>5. QED
    BY <1>1, <1>2, <1>3, <1>4 DEF PartInv

(* The bits that have arrived, with one more, are those of the sync byte.  *)
Match(bit) ==
  matching /\ Part + bit * Pow2[Got] = Sync[sync_count + 1] % Pow2[Got + 1]

(* Where the MAC is in the sync bytes *)
LEMMA PositionType ==
  ASSUME Inv, mstate = "SYNC"
  PROVE  /\ sync_count \in 0 .. 2 /\ Got \in 0 .. ByteBits - 1
         /\ Sync[sync_count + 1] \in Byte \ {0} /\ Sync[sync_count + 1] \in Nat
         /\ Position \in Nat /\ Position < SyncBits
         /\ Position \div ByteBits = sync_count /\ Position % ByteBits = Got
  <1>1. sync_count \in 0 .. 2 /\ Got \in 0 .. ByteBits - 1
    BY MacAssumption DEF Inv, StateInv, Got
  <1>2. Sync[sync_count + 1] \in Byte \ {0}
    BY <1>1, MacAssumption
  <1>3. Byte \subseteq Nat
    BY TopBitType DEF Byte
  <1>4. Position \in Nat /\ Position < SyncBits
    BY <1>1, MacAssumption DEF Position, SyncBits
  <1>5. Position \div ByteBits = sync_count /\ Position % ByteBits = Got
    <2>1. ByteBits \in Nat \ {0} /\ sync_count \in Nat
      BY <1>1, MacAssumption
    <2>2. QED
      BY <1>1, <2>1, Division DEF Position
  <1>6. QED
    BY <1>1, <1>2, <1>3, <1>4, <1>5

(* One more bit is right if it is the next one of the sync bytes and those *)
(* before it were right.                                                   *)
LEMMA MatchBit ==
  ASSUME Inv, PartInv, mstate = "SYNC", NEW bit \in {0, 1}
  PROVE  Match(bit) <=> InSync /\ bit = SyncBit(Position + 1)
  <1> DEFINE s == Sync[sync_count + 1]
             g == Pow2[Got]
             x == Part
             t == (s \div g) % 2
             r == s % g
  <1>1. s \in Nat /\ g \in Nat \ {0} /\ Pow2[Got + 1] = 2 * g /\ x \in 0 .. g - 1
    BY PositionType, ShiftedPart
  <1>2. SyncBit(Position + 1) = t
    <2>1. (Position + 1) - 1 = Position
      BY PositionType
    <2>2. QED
      BY <2>1, PositionType DEF SyncBit
  <1>3. r \in 0 .. g - 1 /\ t \in {0, 1} /\ s % Pow2[Got + 1] = r + t * g
    <2> HIDE DEF s, g
    <2>1. QED
      BY <1>1, OneMoreBit
  <1>4. InSync <=> matching /\ x = r
    BY DEF InSync
  <1>5. Match(bit) <=> matching /\ x + bit * g = r + t * g
    BY <1>3 DEF Match
  <1> HIDE DEF s, g, x, t, r
  <1>6. x + bit * g = r + t * g <=> x = r /\ bit = t
    BY <1>1, <1>3
  <1>7. QED
    BY <1>2, <1>4, <1>5, <1>6

(* A bit that comes while the MAC collects the sync bytes *)
LEMMA SeenInSync ==
  ASSUME Inv, StreamInv, mstate = "SYNC", NEW bit \in {0, 1}, Record(bit)
  PROVE  /\ seen' \in {0} \cup 2 .. SyncBits /\ long' \in BOOLEAN
         /\ Match(bit) => seen' = Position + 1
         /\ seen' # 0 /\ long' => Match(bit) /\ seen' = Position + 1
  <1>1. zeros <= IdleZeros /\ zeros \in Nat /\ IdleZeros \in Nat
    BY PositionType, MacAssumption DEF StreamInv, ZerosInv, LongRun
  <1>2. Position \in 2 .. SyncBits - 1 /\ SyncBits \in Nat
    BY PositionType, MacAssumption DEF StreamInv, SeenInv, SyncBits
  <1>3. seen' = IF seen \in 2 .. SyncBits - 1 /\ bit = SyncBit(seen + 1) THEN seen + 1 ELSE 0
    BY <1>1 DEF Record
  <1>4. seen' # 2
    BY <1>2, <1>3 DEF StreamInv, SeenInv
  <1>5. long' = long
    BY <1>4 DEF Record
  <1>6. Match(bit) <=> InSync /\ bit = SyncBit(Position + 1)
    BY MatchBit DEF StreamInv
  <1>7. Match(bit) => seen' = Position + 1
    BY <1>2, <1>3, <1>6 DEF StreamInv, SeenInv
  <1>8. ASSUME seen' # 0, long'
        PROVE  Match(bit) /\ seen' = Position + 1
    <2>1. seen \in 2 .. SyncBits - 1 /\ bit = SyncBit(seen + 1) /\ long
      BY <1>3, <1>5, <1>8
    <2>2. InSync /\ seen = Position
      BY <2>1 DEF StreamInv, SeenInv
    <2>3. QED
      BY <1>6, <1>7, <2>1, <2>2
  <1>9. seen' \in {0} \cup 2 .. SyncBits
    BY <1>2, <1>3
  <1>10. QED
    BY <1>5, <1>7, <1>8, <1>9 DEF StreamInv, SeenInv

(* A bit that comes while the MAC is idle, and does not end a long run *)
LEMMA SeenIdle ==
  ASSUME Inv, StreamInv, mstate = "IDLE", NEW bit \in {0, 1}, Record(bit),
         bit = 1 => zeros < LongRun
  PROVE  /\ seen' \in {0} \cup 2 .. SyncBits /\ long' \in BOOLEAN
         /\ seen' # 0 => ~long'
  <1>1. SyncBits \in Nat /\ SyncBits > 2
    BY MacAssumption DEF SyncBits
  <1>2. seen \in 2 .. SyncBits - 1 => ~long
    BY DEF StreamInv, SeenInv, InSync
  <1>3. seen \in {0} \cup 2 .. SyncBits /\ long \in BOOLEAN
    BY DEF StreamInv, SeenInv
  <1>4. zeros \in Int /\ LongRun \in Int
    BY MacAssumption DEF StreamInv, ZerosInv, LongRun
  <1>5. CASE zeros > IdleZeros /\ bit = 1
    <2>1. seen' = 2
      BY <1>5 DEF Record
    <2>2. ~(zeros >= LongRun)
      BY <1>4, <1>5
    <2>3. long' = (zeros >= LongRun)
      BY <2>1 DEF Record
    <2>4. long' \in BOOLEAN
      BY <2>3
    <2>5. ~long'
      BY <2>2, <2>3, Zenon
    <2>6. 2 \in 2 .. SyncBits
      BY <1>1
    <2>7. QED
      BY <2>1, <2>4, <2>5, <2>6
  <1>6. CASE ~(zeros > IdleZeros /\ bit = 1)
    <2>1. seen' = IF seen \in 2 .. SyncBits - 1 /\ bit = SyncBit(seen + 1) THEN seen + 1 ELSE 0
      BY <1>6 DEF Record
    <2>2. seen' # 2
      BY <1>1, <2>1
    <2>3. long' = long
      BY <2>2 DEF Record
    <2>4. QED
      BY <1>1, <1>2, <1>3, <2>1, <2>3
  <1>7. QED
    BY <1>5, <1>6

(* MAC_IDLE goes on: no long run ends there. *)
LEMMA IdleStream ==
  ASSUME Inv, StreamInv, NEW bit \in {0, 1}, IdleCount(bit) \/ IdleSaturate(bit), Record(bit)
  PROVE  StreamInv'
  <1>1. mstate = "IDLE" /\ mstate' = "IDLE"
    BY DEF IdleCount, IdleSaturate
  <1>2. idle_zeros \in Nat /\ zeros \in 0 .. LongRun + 1 /\ LongRun = IdleZeros + ByteBits
    BY MacAssumption DEF Inv, TypeOK, StreamInv, ZerosInv, LongRun
  <1>3. zeros' = IF bit = 1 THEN 0 ELSE IF zeros <= LongRun THEN zeros + 1 ELSE zeros
    BY <1>1 DEF Record
  <1>4. bit = 1 => zeros < LongRun
    BY <1>1, <1>2, MacAssumption DEF IdleCount, IdleSaturate, StreamInv, ZerosInv
  <1>5. LongRun' = LongRun
    BY DEF LongRun
  <1>6. ZerosInv'
    <2>1. CASE IdleCount(bit)
      BY <1>1, <1>2, <1>3, <1>5, <2>1, MacAssumption DEF IdleCount, StreamInv, ZerosInv
    <2>2. CASE IdleSaturate(bit)
      BY <1>1, <1>2, <1>3, <1>5, <2>2, MacAssumption DEF IdleSaturate, StreamInv, ZerosInv
    <2>3. QED
      BY <2>1, <2>2
  <1>7. SeenInv'
    BY <1>1, <1>4, SeenIdle, MacAssumption DEF SeenInv, InSync, SyncBits
  <1>8. QED
    BY <1>1, <1>6, <1>7 DEF StreamInv, PartInv

(* A one after more than IdleZeros zeros begins the sync bytes. *)
LEMMA SyncBegins ==
  ASSUME Inv, StreamInv, NEW bit \in {0, 1}, IdleToSync(bit), Record(bit)
  PROVE  StreamInv'
  <1>1. /\ mstate = "IDLE" /\ mstate' = "SYNC" /\ bit = 1 /\ idle_zeros > IdleZeros
        /\ bitpos' = ByteBits - 2 /\ curbyte' = TopBit /\ sync_count' = 0 /\ matching'
    BY DEF IdleToSync
  <1>2. Got' = 2 /\ Part' = 2 /\ Pow2[2] = 4 /\ PartInv'
    BY <1>1, PartFirst
  <1>3. zeros > IdleZeros /\ zeros' = 0
    BY <1>1, MacAssumption DEF Record, StreamInv, ZerosInv, LongRun, Inv, TypeOK
  <1>4. ZerosInv'
    <2>1. curbyte' # 0
      BY <1>1, TopBitType
    <2>2. 0 \in 0 .. LongRun + 1
      BY MacAssumption DEF LongRun
    <2>3. QED
      BY <1>1, <1>2, <1>3, <2>1, <2>2 DEF ZerosInv, LongRun
  <1>5. seen' = 2
    BY <1>1, <1>3 DEF Record
  <1>6. long' \in BOOLEAN
    <2>1. long' = (zeros >= LongRun)
      BY <1>5 DEF Record
    <2>2. QED
      BY <2>1
  <1>7. Position' = 2
    BY <1>1, <1>2, MacAssumption DEF Position
  <1>8. InSync'
    <2>1. Sync[0 + 1] % 4 = 2
      BY MacAssumption
    <2>2. QED
      BY <1>1, <1>2, <2>1 DEF InSync
  <1>9. SyncBits > 2 /\ SyncBits \in Nat
    BY MacAssumption DEF SyncBits
  <1>10. SeenInv'
    BY <1>5, <1>6, <1>7, <1>8, <1>9 DEF SeenInv, SyncBits
  <1>11. QED
    BY <1>2, <1>4, <1>10 DEF StreamInv

(* The bits within a sync byte *)
LEMMA SyncGoesOn ==
  ASSUME Inv, StreamInv, NEW bit \in {0, 1}, SyncShift(bit), Record(bit)
  PROVE  StreamInv'
  <1>1. /\ mstate = "SYNC" /\ mstate' = "SYNC" /\ bitpos > 1 /\ curbyte' = Shifted(bit)
        /\ sync_count' = sync_count /\ matching' = matching
    BY DEF SyncShift
  <1>2. Got' = Got + 1 /\ Part' = Part + bit * Pow2[Got] /\ PartInv'
    BY PartStep DEF StreamInv
  <1>3. Got + 1 \in 1 .. ByteBits - 1 /\ Got \in Nat
    BY <1>1, MacAssumption DEF Got, Inv, StateInv
  <1>4. ZerosInv'
    <2>1. zeros \in Nat /\ zeros <= LongRun /\ LongRun \in Nat
      BY <1>1, <1>3, MacAssumption DEF StreamInv, ZerosInv, LongRun
    <2>2. zeros' = IF bit = 1 THEN 0 ELSE zeros + 1
      BY <1>1, <2>1 DEF Record
    <2>3. curbyte' = 0 <=> bit = 0 /\ curbyte = 0
      BY <1>1, ShiftedPart DEF StreamInv
    <2>4. zeros' \in 0 .. LongRun + 1
      BY <2>1, <2>2
    <2>5. IF curbyte = 0 THEN Got <= zeros /\ zeros <= Got + ByteBits - 1 ELSE zeros <= Got - 1
      BY <1>1 DEF StreamInv, ZerosInv
    <2>6. IF curbyte' = 0 THEN Got' <= zeros' /\ zeros' <= Got' + ByteBits - 1
                          ELSE zeros' <= Got' - 1
      BY <1>2, <1>3, <2>1, <2>2, <2>3, <2>5, MacAssumption
    <2>7. QED
      BY <1>1, <2>4, <2>6 DEF ZerosInv, LongRun
  <1>5. Position' = Position + 1 /\ Position' < SyncBits /\ Position' >= 2
    <2>1. Position = sync_count * ByteBits + Got /\ Position' = sync_count * ByteBits + (Got + 1)
      BY <1>1, <1>2 DEF Position
    <2>2. sync_count \in 0 .. 2 /\ Position >= 2
      BY <1>1, PositionType DEF StreamInv, SeenInv
    <2>3. QED
      BY <1>3, <2>1, <2>2, MacAssumption DEF SyncBits
  <1>6. InSync' <=> Match(bit)
    BY <1>1, <1>2 DEF InSync, Match
  <1>7. SeenInv'
    <2>1. /\ seen' \in {0} \cup 2 .. SyncBits /\ long' \in BOOLEAN
          /\ Match(bit) => seen' = Position + 1
          /\ seen' # 0 /\ long' => Match(bit) /\ seen' = Position + 1
      BY <1>1, SeenInSync
    <2>2. SyncBits \in Nat /\ Position \in Nat
      BY <1>1, PositionType, MacAssumption DEF SyncBits
    <2>3. ~(seen' = SyncBits /\ long')
      <3>1. SUFFICES ASSUME seen' = SyncBits, long' PROVE FALSE
        OBVIOUS
      <3>2. seen' # 0
        BY <3>1, MacAssumption DEF SyncBits
      <3>3. QED
        BY <1>5, <2>1, <2>2, <3>1, <3>2
    <2>4. seen' \in 2 .. SyncBits - 1 /\ long' => InSync' /\ seen' = Position'
      BY <1>5, <1>6, <2>1, <2>2
    <2>5. QED
      BY <1>5, <1>6, <2>1, <2>3, <2>4 DEF SeenInv, SyncBits
  <1>8. QED
    BY <1>2, <1>4, <1>7 DEF StreamInv

(* The last bit of a sync byte *)
LEMMA LastBit ==
  ASSUME Inv, StreamInv, NEW bit \in {0, 1}, mstate = "SYNC", bitpos = 1
  PROVE  /\ Got = ByteBits - 1 /\ Shifted(bit) = Part + bit * Pow2[Got]
         /\ Match(bit) <=> matching /\ Shifted(bit) = Sync[sync_count + 1]
  <1>1. Got = ByteBits - 1 /\ Got + 1 = ByteBits /\ bitpos - 1 = 0
    BY MacAssumption DEF Got
  <1> DEFINE y == Part + bit * Pow2[Got]
             s == Sync[sync_count + 1]
  <1>2. Shifted(bit) = y * Pow2[bitpos - 1] /\ y \in Nat
    BY ShiftedPart DEF StreamInv
  <1>3. Shifted(bit) = y
    <2> HIDE DEF y
    <2>1. QED
      BY <1>1, <1>2, PowerStep
  <1>4. s % Pow2[Got + 1] = s
    <2>1. s \in 0 .. Pow2[ByteBits] - 1 /\ Pow2[ByteBits] \in Nat \ {0}
      BY PositionType, TopBitType DEF Byte
    <2> HIDE DEF s
    <2>2. (0 * Pow2[ByteBits] + s) % Pow2[ByteBits] = s
      BY <2>1, Division
    <2>3. QED
      BY <1>1, <2>1, <2>2
  <1>5. QED
    BY <1>1, <1>3, <1>4 DEF Match

(* A byte of zeros: back to idle.  The zeros before it in the byte before  *)
(* are forgotten.                                                          *)
LEMMA SyncGivesUp ==
  ASSUME Inv, StreamInv, NEW bit \in {0, 1}, SyncZeroByte(bit), Record(bit)
  PROVE  StreamInv'
  <1>1. /\ mstate = "SYNC" /\ mstate' = "IDLE" /\ bitpos = 1 /\ Shifted(bit) = 0
        /\ idle_zeros' = ByteBits
    BY DEF SyncZeroByte
  <1>2. Got = ByteBits - 1 /\ ~Match(bit)
    BY <1>1, LastBit, PositionType
  <1>3. bit = 0 /\ curbyte = 0
    BY <1>1, ShiftedPart DEF StreamInv
  <1>4. zeros \in Nat /\ ByteBits - 1 <= zeros /\ zeros <= 2 * (ByteBits - 1)
    BY <1>1, <1>2, <1>3, MacAssumption DEF StreamInv, ZerosInv
  <1>5. zeros' = zeros + 1
    BY <1>1, <1>3, <1>4, MacAssumption DEF Record, LongRun
  <1>6. ZerosInv'
    BY <1>1, <1>4, <1>5, MacAssumption DEF ZerosInv, LongRun
  <1>7. SeenInv'
    <2>1. /\ seen' \in {0} \cup 2 .. SyncBits /\ long' \in BOOLEAN
          /\ ~(seen' # 0 /\ long')
      BY <1>1, <1>2, SeenInSync
    <2>2. SyncBits # 0 /\ 0 \notin 2 .. SyncBits - 1
      BY MacAssumption DEF SyncBits
    <2>3. QED
      BY <1>1, <2>1, <2>2 DEF SeenInv, InSync, SyncBits
  <1>8. QED
    BY <1>1, <1>6, <1>7 DEF StreamInv, PartInv

(* A sync byte is complete: the third one, if all were right, begins a     *)
(* packet.                                                                 *)
LEMMA SyncByteEnds ==
  ASSUME Inv, StreamInv, NEW bit \in {0, 1}, SyncByte(bit), Record(bit)
  PROVE  StreamInv' /\ (mstate' = "PACKET" => seen' = SyncBits)
  <1>1. /\ mstate = "SYNC" /\ bitpos = 1 /\ Shifted(bit) # 0
        /\ bitpos' = ByteBits /\ curbyte' = 0 /\ sync_count' = sync_count + 1
    BY DEF SyncByte
  <1>2. /\ Got = ByteBits - 1
        /\ Match(bit) <=> matching /\ Shifted(bit) = Sync[sync_count + 1]
    BY <1>1, LastBit
  <1>3. matching' <=> Match(bit)
    BY <1>2 DEF SyncByte
  <1>4. sync_count \in 0 .. 2
    BY <1>1, PositionType
  <1>5. sync_count < 2 => mstate' = "SYNC"
    BY <1>1, <1>4 DEF SyncByte
  <1>6. sync_count = 2 => IF matching' THEN mstate' = "PACKET"
                          ELSE mstate' = "IDLE" /\ idle_zeros' = 0
    BY DEF SyncByte
  <1>7. Got' = 0 /\ Part' = 0 /\ PartInv'
    BY <1>1, PartEmpty
  <1>8. Position' = Position + 1 /\ Position + 1 = (sync_count + 1) * ByteBits
    BY <1>1, <1>2, <1>4, <1>7, MacAssumption DEF Position
  <1>9. ZerosInv'
    <2>1. zeros \in Nat /\ (curbyte # 0 => zeros <= ByteBits - 2) /\ zeros <= LongRun
      BY <1>1, <1>2, MacAssumption DEF StreamInv, ZerosInv, LongRun
    <2>2. zeros' = IF mstate' = "PACKET" \/ bit = 1 THEN 0 ELSE zeros + 1
      BY <2>1 DEF Record
    <2>3. bit = 1 \/ curbyte # 0
      BY <1>1, ShiftedPart DEF StreamInv
    <2>4. zeros' \in 0 .. ByteBits - 1 /\ (mstate' = "PACKET" => zeros' = 0)
      BY <2>1, <2>2, <2>3, MacAssumption
    <2>5. zeros' \in 0 .. LongRun + 1
      BY <2>4, MacAssumption DEF LongRun
    <2>6. mstate' = "IDLE" => idle_zeros' = 0
      BY <1>4, <1>5, <1>6
    <2>7. QED
      BY <1>1, <1>7, <2>4, <2>5, <2>6, MacAssumption DEF ZerosInv, LongRun
  <1>10. /\ seen' \in {0} \cup 2 .. SyncBits /\ long' \in BOOLEAN
         /\ Match(bit) => seen' = Position + 1
         /\ seen' # 0 /\ long' => Match(bit) /\ seen' = Position + 1
    BY <1>1, SeenInSync
  <1>11. 0 \notin 2 .. SyncBits - 1 /\ SyncBits # 0 /\ SyncBits \in Nat
    BY MacAssumption DEF SyncBits
  <1>12. CASE sync_count < 2
    <2>1. Sync[sync_count' + 1] % Pow2[0] = 0
      <3>1. Sync[sync_count + 2] \in Nat /\ sync_count' + 1 = sync_count + 2
        BY <1>1, <1>4, <1>12, TopBitType, MacAssumption DEF Byte
      <3>2. Pow2[0] = 1
        BY PowerStep
      <3>3. QED
        BY <3>1, <3>2
    <2>2. InSync' <=> Match(bit)
      BY <1>3, <1>5, <1>7, <1>12, <2>1 DEF InSync
    <2>3. Position' >= 2 /\ Position' < SyncBits
      BY <1>4, <1>8, <1>12, MacAssumption DEF SyncBits
    <2>4. ~(seen' = SyncBits /\ long')
      BY <1>8, <1>10, <1>11, <2>3
    <2>5. SeenInv'
      BY <1>5, <1>8, <1>10, <1>11, <1>12, <2>2, <2>3, <2>4 DEF SeenInv, SyncBits
    <2>6. QED
      BY <1>5, <1>7, <1>9, <1>12, <2>5 DEF StreamInv
  <1>13. CASE sync_count = 2
    <2>1. mstate' # "SYNC" /\ (mstate' = "PACKET" <=> Match(bit))
      BY <1>3, <1>6, <1>13
    <2>2. Position + 1 = SyncBits
      BY <1>8, <1>13, MacAssumption DEF SyncBits
    <2>3. seen' \in 2 .. SyncBits - 1 => ~long'
      BY <1>10, <1>11, <2>2
    <2>4. SeenInv'
      BY <1>10, <1>11, <2>1, <2>2, <2>3 DEF SeenInv, InSync, SyncBits
    <2>5. QED
      BY <1>7, <1>9, <1>10, <2>1, <2>2, <2>4 DEF StreamInv
  <1>14. QED
    BY <1>4, <1>12, <1>13

(* Within a packet nothing is looked for. *)
LEMMA PacketStream ==
  ASSUME Inv, StreamInv, NEW bit \in {0, 1}, PacketReject(bit) \/ PacketBit(bit), Record(bit)
  PROVE  StreamInv'
  <1>1. /\ mstate = "PACKET" /\ mstate' \in {"IDLE", "PACKET"}
        /\ mstate' = "IDLE" => idle_zeros' = 0
    BY DEF PacketReject, PacketBit
  <1>2. zeros = 0
    BY <1>1 DEF StreamInv, ZerosInv
  <1>3. zeros' \in {0, 1} /\ (mstate' = "PACKET" => zeros' = 0)
    BY <1>2, MacAssumption DEF Record, LongRun
  <1>4. ZerosInv'
    BY <1>1, <1>3, MacAssumption DEF ZerosInv, LongRun
  <1>5. seen' = 0
    BY <1>1 DEF Record
  <1>6. long' = long
    BY <1>5 DEF Record
  <1>7. 0 \notin 2 .. SyncBits - 1 /\ SyncBits # 0
    BY MacAssumption DEF SyncBits
  <1>8. SeenInv'
    BY <1>1, <1>5, <1>6, <1>7 DEF StreamInv, SeenInv, InSync, SyncBits
  <1>9. QED
    BY <1>1, <1>4, <1>8 DEF StreamInv, PartInv

(* Every step keeps the MAC in step with the stream, and a packet begins   *)
(* with its last sync bit.                                                 *)
LEMMA StreamStep ==
  Inv /\ StreamInv /\ [Next]_vars =>
    StreamInv' /\ (mstate # "PACKET" /\ mstate' = "PACKET" => seen' = SyncBits)
  <1> SUFFICES ASSUME Inv, StreamInv, [Next]_vars
               PROVE  StreamInv' /\ (mstate # "PACKET" /\ mstate' = "PACKET" => seen' = SyncBits)
    OBVIOUS
  <1>1. ASSUME NEW bit \in {0, 1}, Bit(bit), Record(bit)
        PROVE  StreamInv' /\ (mstate # "PACKET" /\ mstate' = "PACKET" => seen' = SyncBits)
    <2>1. CASE IdleCount(bit) \/ IdleSaturate(bit)
      BY <1>1, <2>1, IdleStream DEF IdleCount, IdleSaturate
    <2>2. CASE IdleToSync(bit)
      BY <1>1, <2>2, SyncBegins DEF IdleToSync
    <2>3. CASE SyncShift(bit)
      BY <1>1, <2>3, SyncGoesOn DEF SyncShift
    <2>4. CASE SyncZeroByte(bit)
      BY <1>1, <2>4, SyncGivesUp DEF SyncZeroByte
    <2>5. CASE SyncByte(bit)
      BY <1>1, <2>5, SyncByteEnds
    <2>6. CASE PacketReject(bit) \/ PacketBit(bit)
      BY <1>1, <2>6, PacketStream DEF PacketReject, PacketBit
    <2>7. QED
      BY <1>1, <2>1, <2>2, <2>3, <2>4, <2>5, <2>6 DEF Bit, PutBitMac
  <1>2. ASSUME UNCHANGED <<mstate, idle_zeros, bitpos, curbyte, sync_count, matching,
                           zeros, seen, long>>
        PROVE  StreamInv' /\ (mstate # "PACKET" /\ mstate' = "PACKET" => seen' = SyncBits)
    BY <1>2 DEF StreamInv, PartInv, ZerosInv, SeenInv, InSync, Part, Got, Position, LongRun, SyncBits
  <1>3. CASE NextBatch /\ UNCHANGED <<zeros, seen, long>>
    BY <1>2, <1>3 DEF NextBatch, macVars
  <1>4. CASE TakePacket /\ UNCHANGED <<zeros, seen, long>>
    BY <1>2, <1>4 DEF TakePacket
  <1>5. CASE UNCHANGED vars
    BY <1>2, <1>5 DEF vars, macVars
  <1>6. QED
    BY <1>1, <1>3, <1>4, <1>5 DEF Next

(* The MAC is in step with the stream at all times. *)
LEMMA StreamInvariance == Spec => []StreamInv
  <1>1. Init => StreamInv
    <2> SUFFICES ASSUME Init PROVE StreamInv
      OBVIOUS
    <2>1. ZerosInv
      BY MacAssumption DEF Init, MacInit, ZerosInv, LongRun
    <2>2. SeenInv
      BY MacAssumption DEF Init, MacInit, SeenInv, InSync, SyncBits
    <2>3. QED
      BY <2>1, <2>2 DEF Init, MacInit, StreamInv, PartInv
  <1>2. QED
    BY <1>1, StreamStep, Invariance, PTL DEF Spec

(* A run of IdleZeros and one byte of zeros gets the MAC out of any false  *)
(* start, and the sync bytes after such a run always begin a packet,       *)
(* whatever was received before.                                           *)
THEOREM SyncAlwaysCaught == Spec => []SyncIsCaught
  <1>1. Inv /\ StreamInv => SyncIsCaught
    <2> SUFFICES ASSUME Inv, StreamInv PROVE SyncIsCaught
      OBVIOUS
    <2>1. ASSUME zeros >= LongRun
          PROVE  mstate = "IDLE" /\ idle_zeros > IdleZeros
      <3>1. mstate # "PACKET"
        BY <2>1, MacAssumption DEF StreamInv, ZerosInv, LongRun
      <3>2. mstate # "SYNC"
        <4>1. mstate = "SYNC" => Got \in 0 .. ByteBits - 1
          BY PositionType
        <4>2. QED
          BY <2>1, <4>1, MacAssumption DEF StreamInv, ZerosInv, LongRun
      <3>3. mstate = "IDLE"
        BY <3>1, <3>2 DEF Inv, TypeOK
      <3>4. QED
        BY <2>1, <3>3, MacAssumption DEF StreamInv, ZerosInv, LongRun, Inv, TypeOK
    <2>2. QED
      BY <2>1 DEF SyncIsCaught, StreamInv, SeenInv
  <1>2. QED
    BY <1>1, Invariance, StreamInvariance, PTL

(* A packet begins only behind more than IdleZeros zeros and exactly the   *)
(* three sync bytes: no noise is taken for a packet.                       *)
THEOREM PacketsFollowSync == Spec => PacketAfterSync
  <1>1. Inv /\ StreamInv /\ [Next]_vars =>
          [mstate # "PACKET" /\ mstate' = "PACKET" => seen' = SyncBits]_vars
    BY StreamStep
  <1>2. QED
    BY <1>1, Invariance, StreamInvariance, PTL DEF Spec, PacketAfterSync
=============================================================================
