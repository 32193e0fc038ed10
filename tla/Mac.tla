-------------------------------- MODULE Mac --------------------------------
(***************************************************************************)
(* The framing layer of the boot loader, putBitMac of                      *)
(* orchard/esplanade_mac.c, and the loop of orchard/main.c that feeds it:  *)
(* phy_demodulate delivers the bits of one batch of samples, one call of   *)
(* putBitMac per bit, and demod_loop looks at pktReady between batches     *)
(* only.                                                                   *)
(*                                                                         *)
(* Bytes keep the width ByteBits, so that small instances can be checked;  *)
(* the code has ByteBits = 8, IdleZeros = 32, Sync = AA 55 42.             *)
(***************************************************************************)
EXTENDS Integers, Sequences

CONSTANTS
  ByteBits,    \* bits per byte
  IdleZeros,   \* idle_zeros has to exceed this before a 1 starts a sync
  IdleCap,     \* idle_zeros saturates here
  Sync,        \* the three sync bytes
  Versions,    \* the packet versions accepted
  CtrlType, DataType,  \* PKTTYPE_CTRL, PKTTYPE_DATA
  CtrlLen, DataLen,    \* CTRL_LEN, DATA_LEN in bytes
  HeaderLen,   \* sizeof(demod_pkt_header_t)
  BatchBits    \* most bits that one batch of samples can carry

(* Powers of two *)
Pow2[n \in 0 .. ByteBits] == IF n = 0 THEN 1 ELSE 2 * Pow2[n - 1]

TopBit == Pow2[ByteBits - 1]     \* 0x80
Byte   == 0 .. 2 * TopBit - 1

ASSUME MacAssumption ==
  /\ ByteBits \in Nat /\ ByteBits >= 3
  /\ IdleZeros \in Nat /\ IdleCap \in Nat
  /\ IdleCap > IdleZeros /\ IdleCap >= ByteBits
  /\ IdleZeros >= 2 * (ByteBits - 1)  \* no preamble fits into two nonzero bytes
  /\ Sync \in [1 .. 3 -> Byte \ {0}]
  /\ Sync[1] % 4 = 2          \* lowest bits first: a 0, then a 1
  /\ HeaderLen \in Nat \ {0, 1}
  /\ CtrlLen \in Nat /\ DataLen \in Nat
  /\ HeaderLen + 1 < CtrlLen /\ CtrlLen <= DataLen
  /\ CtrlType # DataType

(* A batch is shorter than the shortest preamble with its sync bytes. *)
ASSUME BatchAssumption ==
  BatchBits \in Nat \ {0} /\ BatchBits <= IdleZeros + 3 * ByteBits

VARIABLES
  mstate,      \* MAC_IDLE, MAC_SYNC or MAC_PACKET
  idle_zeros,  \* length of the run of zeros seen while idle
  bitpos,      \* g_bitpos: bits missing from the current byte
  curbyte,     \* g_curbyte: bits arrive lowest first
  sync_count,  \* number of sync bytes received so far
  matching,    \* the bytes in mac_sync[0 .. sync_count - 1] are the sync bytes
  pkt_len,     \* expected length of the packet, 0 while it is not known
  pkt_read,    \* number of bytes stored in pkt
  header,      \* pkt.header: <<version, type>>
  pktReady,    \* the packet in pkt is complete and not yet processed
  bits         \* number of bits of the current batch delivered so far

macVars == <<mstate, idle_zeros, bitpos, curbyte, sync_count, matching,
             pkt_len, pkt_read, header, pktReady>>

-----------------------------------------------------------------------------
(* g_curbyte >>= 1, with the new bit on top *)
Shifted(bit) == curbyte \div 2 + bit * TopBit

MacInit ==
  /\ mstate = "IDLE" /\ idle_zeros = 0
  /\ bitpos = ByteBits + 1 /\ curbyte = 0
  /\ sync_count = 0 /\ matching = TRUE
  /\ pkt_len = 0 /\ pkt_read = 0 /\ header = <<0, 0>>
  /\ pktReady = FALSE

(* case MAC_IDLE.  The 1 that ends the run is the second bit of the first  *)
(* sync byte; the zero before it was its lowest bit.                       *)

IdleCount(bit) ==
  /\ mstate = "IDLE"
  /\ idle_zeros <= IdleZeros
  /\ idle_zeros' = IF bit = 1 THEN 0 ELSE idle_zeros + 1
  /\ UNCHANGED <<mstate, bitpos, curbyte, sync_count, matching,
                 pkt_len, pkt_read, header, pktReady>>

(* Mutant: the count of zeros does not saturate. *)
IdleSaturateNever(bit) ==
  /\ mstate = "IDLE"
  /\ idle_zeros > IdleZeros /\ bit = 0
  /\ idle_zeros' = idle_zeros + 1
  /\ UNCHANGED <<mstate, bitpos, curbyte, sync_count, matching,
                 pkt_len, pkt_read, header, pktReady>>

IdleSaturate(bit) ==
  /\ mstate = "IDLE"
  /\ idle_zeros > IdleZeros /\ bit = 0
  /\ idle_zeros' = IF idle_zeros < IdleCap THEN idle_zeros + 1 ELSE idle_zeros
  /\ UNCHANGED <<mstate, bitpos, curbyte, sync_count, matching,
                 pkt_len, pkt_read, header, pktReady>>

(* Mutant: only the 1 is taken for a bit of the first sync byte. *)
IdleToSyncLate(bit) ==
  /\ mstate = "IDLE"
  /\ idle_zeros > IdleZeros /\ bit = 1
  /\ mstate' = "SYNC"
  /\ bitpos' = ByteBits - 1
  /\ curbyte' = TopBit
  /\ sync_count' = 0 /\ matching' = TRUE
  /\ UNCHANGED <<idle_zeros, pkt_len, pkt_read, header, pktReady>>

IdleToSync(bit) ==
  /\ mstate = "IDLE"
  /\ idle_zeros > IdleZeros /\ bit = 1
  /\ mstate' = "SYNC"
  /\ bitpos' = ByteBits - 2
  /\ curbyte' = TopBit
  /\ sync_count' = 0 /\ matching' = TRUE
  /\ UNCHANGED <<idle_zeros, pkt_len, pkt_read, header, pktReady>>

(* case MAC_SYNC *)

SyncShift(bit) ==
  /\ mstate = "SYNC"
  /\ bitpos > 1
  /\ curbyte' = Shifted(bit)
  /\ bitpos' = bitpos - 1
  /\ UNCHANGED <<mstate, idle_zeros, sync_count, matching,
                 pkt_len, pkt_read, header, pktReady>>

(* A zero byte: a false trigger, back to idle with a byte of zeros seen. *)
SyncZeroByte(bit) ==
  /\ mstate = "SYNC"
  /\ bitpos = 1 /\ Shifted(bit) = 0
  /\ mstate' = "IDLE"
  /\ idle_zeros' = ByteBits
  /\ bitpos' = 0 /\ curbyte' = 0
  /\ UNCHANGED <<sync_count, matching, pkt_len, pkt_read, header, pktReady>>

(* Mutant: the three bytes are not compared with the sync sequence. *)
SyncByteUnchecked(bit) ==
  /\ mstate = "SYNC"
  /\ bitpos = 1 /\ Shifted(bit) # 0
  /\ sync_count' = sync_count + 1
  /\ IF sync_count + 1 < 3
       THEN UNCHANGED <<mstate, pkt_len, pkt_read>>
       ELSE mstate' = "PACKET" /\ pkt_len' = 0 /\ pkt_read' = 0
  /\ bitpos' = ByteBits /\ curbyte' = 0
  /\ UNCHANGED <<idle_zeros, matching, header, pktReady>>

SyncByte(bit) ==
  /\ mstate = "SYNC"
  /\ bitpos = 1 /\ Shifted(bit) # 0
  /\ sync_count' = sync_count + 1
  /\ matching' = (matching /\ Shifted(bit) = Sync[sync_count + 1])
  /\ IF sync_count + 1 < 3
       THEN UNCHANGED <<mstate, idle_zeros, pkt_len, pkt_read>>
       ELSE IF matching'
         THEN /\ mstate' = "PACKET"
              /\ pkt_len' = 0 /\ pkt_read' = 0
              /\ UNCHANGED idle_zeros
         ELSE /\ mstate' = "IDLE"
              /\ idle_zeros' = 0
              /\ UNCHANGED <<pkt_len, pkt_read>>
  /\ bitpos' = ByteBits /\ curbyte' = 0
  /\ UNCHANGED <<header, pktReady>>

(* case MAC_PACKET *)

(* Checked at the first bit after the header and one more byte are in. *)
HeaderDue == pkt_len = 0 /\ pkt_read > HeaderLen

HeaderOk == header[1] \in Versions /\ header[2] \in {CtrlType, DataType}

LenFromHeader == IF header[2] = CtrlType THEN CtrlLen ELSE DataLen

(* goto make_idle: the bit is dropped. *)
PacketReject(bit) ==
  /\ mstate = "PACKET"
  /\ HeaderDue /\ ~HeaderOk
  /\ mstate' = "IDLE" /\ idle_zeros' = 0
  /\ UNCHANGED <<bitpos, curbyte, sync_count, matching,
                 pkt_len, pkt_read, header, pktReady>>

(* The next bit, and with the last one of a byte the byte. *)
LoadBit(bit) ==
  IF bitpos > 1
    THEN /\ curbyte' = Shifted(bit) /\ bitpos' = bitpos - 1
         /\ UNCHANGED <<pkt_read, header>>
    ELSE /\ curbyte' = 0 /\ bitpos' = ByteBits
         /\ pkt_read' = pkt_read + 1
         /\ header' = IF pkt_read < 2
                        THEN [header EXCEPT ![pkt_read + 1] = Shifted(bit)]
                        ELSE header

(* Mutant: the last byte of the packet is followed by one more. *)
PacketBitOneMore(bit) ==
  /\ mstate = "PACKET"
  /\ HeaderDue => HeaderOk
  /\ pkt_len' = IF HeaderDue THEN LenFromHeader ELSE pkt_len
  /\ LoadBit(bit)
  /\ IF pkt_len' # 0 /\ pkt_read' > pkt_len'
       THEN pktReady' = TRUE /\ mstate' = "IDLE" /\ idle_zeros' = 0
       ELSE UNCHANGED <<pktReady, mstate, idle_zeros>>
  /\ UNCHANGED <<sync_count, matching>>

(* Mutant: a complete packet does not leave MAC_PACKET. *)
PacketBitNoIdle(bit) ==
  /\ mstate = "PACKET"
  /\ HeaderDue => HeaderOk
  /\ pkt_len' = IF HeaderDue THEN LenFromHeader ELSE pkt_len
  /\ LoadBit(bit)
  /\ pktReady' = (pktReady \/ (pkt_len' # 0 /\ pkt_read' >= pkt_len'))
  /\ UNCHANGED <<mstate, idle_zeros, sync_count, matching>>

PacketBit(bit) ==
  /\ mstate = "PACKET"
  /\ HeaderDue => HeaderOk
  /\ pkt_len' = IF HeaderDue THEN LenFromHeader ELSE pkt_len
  /\ LoadBit(bit)
  /\ IF pkt_len' # 0 /\ pkt_read' >= pkt_len'
       THEN pktReady' = TRUE /\ mstate' = "IDLE" /\ idle_zeros' = 0
       ELSE UNCHANGED <<pktReady, mstate, idle_zeros>>
  /\ UNCHANGED <<sync_count, matching>>

PutBitMac(bit) ==
  \/ IdleCount(bit) \/ IdleSaturate(bit) \/ IdleToSync(bit)
  \/ SyncShift(bit) \/ SyncZeroByte(bit) \/ SyncByte(bit)
  \/ PacketReject(bit) \/ PacketBit(bit)

-----------------------------------------------------------------------------
(* phy_demodulate: the next bit of the batch. *)
Bit(bit) ==
  /\ bits < BatchBits
  /\ PutBitMac(bit)
  /\ bits' = bits + 1

(* demod_loop, while (!pktReady): another batch of samples. *)
NextBatch ==
  /\ ~pktReady
  /\ bits' = 0
  /\ UNCHANGED macVars

(* demod_loop: updaterPacketProcess ends with pktReady = 0; then the next  *)
(* batch of samples.                                                       *)
TakePacket ==
  /\ pktReady
  /\ pktReady' = FALSE
  /\ bits' = 0
  /\ UNCHANGED <<mstate, idle_zeros, bitpos, curbyte, sync_count, matching,
                 pkt_len, pkt_read, header>>

-----------------------------------------------------------------------------
(* History of the received stream, for the properties: the zeros at its    *)
(* end since the MAC was last in a packet, how many bits of the sync       *)
(* pattern followed more than IdleZeros zeros, and whether that run was a  *)
(* long one.                                                               *)
VARIABLES zeros, seen, long

vars == <<macVars, bits, zeros, seen, long>>

(* A run this long gets the MAC out of any false start. *)
LongRun == IdleZeros + ByteBits

SyncBits == 3 * ByteBits
SyncBit(k) ==
  (Sync[(k - 1) \div ByteBits + 1] \div Pow2[(k - 1) % ByteBits]) % 2

Record(bit) ==
  /\ zeros' = IF mstate' = "PACKET" \/ bit = 1 THEN 0
              ELSE IF zeros <= LongRun THEN zeros + 1 ELSE zeros
  /\ seen' = IF mstate = "PACKET" THEN 0
             ELSE IF zeros > IdleZeros /\ bit = 1 THEN 2
             ELSE IF seen \in 2 .. SyncBits - 1 /\ bit = SyncBit(seen + 1) THEN seen + 1
             ELSE 0
  /\ long' = IF seen' = 2 THEN zeros >= LongRun ELSE long

Init == MacInit /\ bits = 0 /\ zeros = 0 /\ seen = 0 /\ long = FALSE

Next ==
  \/ \E bit \in {0, 1} : Bit(bit) /\ Record(bit)
  \/ NextBatch /\ UNCHANGED <<zeros, seen, long>>
  \/ TakePacket /\ UNCHANGED <<zeros, seen, long>>

Spec == Init /\ [][Next]_vars

-----------------------------------------------------------------------------
(* Properties *)

(* Type invariant of the framing layer; the byte counter stays inside the  *)
(* packet buffer.                                                          *)
TypeOK ==
  /\ mstate \in {"IDLE", "SYNC", "PACKET"}
  /\ idle_zeros \in 0 .. IdleCap
  /\ bitpos \in 0 .. ByteBits + 1
  /\ curbyte \in Byte
  /\ sync_count \in 0 .. 3
  /\ matching \in BOOLEAN
  /\ pkt_len \in {0, CtrlLen, DataLen}
  /\ pkt_read \in 0 .. DataLen
  /\ header \in Byte \X Byte
  /\ pktReady \in BOOLEAN
  /\ bits \in 0 .. BatchBits

(* What putBitMac asserts when it finds a sync sequence: the packet buffer *)
(* is free.  A packet that is complete is not overwritten by the rest of   *)
(* the batch, although pktReady is looked at between batches only.         *)
NoOverwrite == pktReady => mstate # "PACKET"

(* A complete packet is one of the two kinds, with all of its bytes. *)
ReadyIsWhole ==
  pktReady => /\ HeaderOk
              /\ pkt_len = LenFromHeader
              /\ pkt_read = pkt_len

(* Whatever noise came before, false triggers included, a run of IdleZeros *)
(* and one byte of zeros outside a packet gets the MAC ready for a sync,   *)
(* and a sync pattern received after such a run is always recognised.      *)
SyncIsCaught ==
  /\ zeros >= LongRun => mstate = "IDLE" /\ idle_zeros > IdleZeros
  /\ seen = SyncBits /\ long => mstate = "PACKET"

(* A packet begins only where the stream held more than IdleZeros zeros    *)
(* followed by exactly the three sync bytes.                               *)
PacketAfterSync ==
  [][mstate # "PACKET" /\ mstate' = "PACKET" => seen' = SyncBits]_vars
=============================================================================
