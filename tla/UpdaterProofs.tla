--------------------------- MODULE UpdaterProofs ---------------------------
(***************************************************************************)
(* Proofs about Updater, for every set of programs, every geometry of the  *)
(* flash and with or without failing flash commands.                       *)
(*                                                                         *)
(* Inv is the inductive invariant that holds whether or not flash commands *)
(* fail; CleanInv adds what holds as long as none does.                    *)
(***************************************************************************)
EXTENDS Updater, TLAPS

Lengths == 1 .. BlockWords * (BlockMax + 1)
Hashes  == {FullHash(Size[p], Image[p]) : p \in Program}

HdrType ==
  /\ DOMAIN hdr = HdrField
  /\ hdr = [f \in HdrField |-> hdr[f]]
  /\ hdr.magic \in {Blank, Torn, Magic}
  /\ hdr.fullhash \in Hashes \cup {Blank, Torn}
  /\ hdr.length \in Lengths \cup {Blank, Torn}
  /\ hdr.guid \in Program \cup {Blank, Torn}

(* What the registers hold at each place of the code. *)
PcInv ==
  /\ pc = "boot" => astate = "IDLE"
  /\ pc = "process" => pkt \in Packet
  /\ pc = "erase" => at \in Sector
  /\ pc = "erase" /\ after = "header" => pkt \in CtrlPacket
  /\ pc = "header" => pkt \in CtrlPacket /\ at \in 0 .. LastField
  /\ pc \in {"map", "data", "check", "complete"} => pkt \in DataPacket
  /\ pc = "data" => at \in 0 .. BlockWords - 1

(* What is blank while an operation is under way: the header and the mark  *)
(* behind the first erase command, the rest of a header that is being      *)
(* written, the map entry and the rest of a block about to be programmed.  *)
BlankInv ==
  /\ pc = "erase" /\ at # 0 => hdr = BlankHdr /\ complete = Blank
  /\ pc = "header" => complete = Blank
  /\ pc = "header" => \A k \in at .. LastField : hdr[FieldAt(k)] = Blank
  /\ pc = "map" => blockmap[pkt.block] = Blank
  /\ pc = "data" => \A k \in at .. BlockWords - 1 : data[First(pkt.block) + k] = Blank

(* A complete image is out of reach of the block being programmed. *)
MarkInv ==
  /\ CompleteMeansVerified
  /\ complete # Blank => hdr.magic = Magic
  /\ pc \in {"map", "data"} /\ complete # Blank =>
       pkt.block \notin 0 .. NumBlocks(hdr.length) - 1
  /\ pc = "complete" => Verified /\ hdr.magic = Magic
  /\ pc \in {"map", "data", "check"} => hdr.magic = Magic
  /\ pc \in {"listen", "process"} /\ astate = "UPDATED" => complete # Blank

(* The inductive invariant: a flash command may fail at any time. *)
Inv == TypeOK /\ HdrType /\ PcInv /\ BlankInv /\ MarkInv

(* An erase has blanked everything below the sector it is at, and a header *)
(* is written to blank flash, field by field.                              *)
CleanErase ==
  /\ pc = "erase" /\ at # 0 => blockmap = [b \in Block |-> Blank]
  /\ pc = "erase" => \A i \in Addr : SectorOf(i) < at => data[i] = Blank
  /\ pc = "header" => /\ blockmap = [b \in Block |-> Blank]
                      /\ data = [i \in Addr |-> Blank]
  /\ pc = "header" => \A k \in 0 .. at - 1 :
                        hdr[FieldAt(k)] = Proto(pkt.prog)[FieldAt(k)]
  /\ pc = "data" => blockmap[pkt.block] # Blank

(* The inductive invariant while no flash command fails. *)
CleanInv == ~FlashFaults => GuidMeansHeader /\ BlankEntryMeansBlankBlock /\ CleanErase

-----------------------------------------------------------------------------
(***************************************************************************)
(* Arithmetic.                                                             *)
(***************************************************************************)

USE ConstantsAssumption

(* What \div computes for a positive divisor. *)
LEMMA DivFacts ==
  ASSUME NEW a \in Nat, NEW w \in Nat \ {0}
  PROVE  /\ a \div w \in Nat
         /\ w * (a \div w) <= a
         /\ a < w * (a \div w) + w
  BY SMT

(* Multiplication is monotonic. *)
LEMMA MulMono ==
  ASSUME NEW a \in Nat, NEW b \in Nat, NEW w \in Nat, a <= b
  PROVE  a * w <= b * w
  BY SMT

(* Division is monotonic. *)
LEMMA DivMono ==
  ASSUME NEW a \in Nat, NEW b \in Nat, NEW w \in Nat \ {0}, a <= b
  PROVE  a \div w <= b \div w
  BY SMT

(* An address within n units is in one of the first n. *)
LEMMA DivBound ==
  ASSUME NEW a \in Nat, NEW n \in Nat, NEW w \in Nat \ {0}, a < w * n
  PROVE  a \div w < n
  BY SMT

(***************************************************************************)
(* Facts about the operators of the model.                                 *)
(***************************************************************************)

(* The words of a block are addresses of the program area. *)
LEMMA WordsInAddr ==
  ASSUME NEW b \in Block, NEW k \in 0 .. BlockWords - 1
  PROVE  /\ First(b) \in Nat
         /\ First(b) + k \in Addr
  <1>1. First(b) \in Nat
    BY DEF Block, First
  <1>2. b * BlockWords <= BlockMax * BlockWords
    BY MulMono DEF Block
  <1>3. BlockWords * (BlockMax + 1) = BlockMax * BlockWords + BlockWords
    BY SMT
  <1>4. QED
    BY <1>1, <1>2, <1>3 DEF First, Addr, Block

(* A block past the end of an image of n words holds none of its words. *)
LEMMA BlockPastEnd ==
  ASSUME NEW n \in Lengths, NEW b \in Block, b \notin 0 .. NumBlocks(n) - 1,
         NEW k \in 0 .. BlockWords - 1
  PROVE  First(b) + k \notin 0 .. n - 1
  <1> DEFINE q == (n - 1) \div BlockWords
  <1>1. n - 1 \in Nat /\ n \in Nat
    BY DEF Lengths
  <1>2. q \in Nat /\ n - 1 < BlockWords * q + BlockWords
    BY <1>1, DivFacts
  <1>3. q + 1 <= b
    BY <1>2 DEF NumBlocks, Block
  <1>4. (q + 1) * BlockWords <= b * BlockWords
    BY <1>2, <1>3, MulMono DEF Block
  <1>5. (q + 1) * BlockWords = BlockWords * q + BlockWords
    BY <1>2
  <1> HIDE DEF q
  <1>6. b * BlockWords \in Nat
    BY DEF Block
  <1>7. QED
    BY <1>1, <1>2, <1>4, <1>5, <1>6 DEF First

(* The blocks of an image are blocks of the program area. *)
LEMMA ImageBlocks ==
  ASSUME NEW n \in Lengths
  PROVE  0 .. NumBlocks(n) - 1 \subseteq Block
  <1>1. n - 1 \in Nat /\ n - 1 < BlockWords * (BlockMax + 1)
    BY DEF Lengths
  <1>2. (n - 1) \div BlockWords < BlockMax + 1
    BY <1>1, DivBound
  <1>3. (n - 1) \div BlockWords \in Nat
    BY <1>1, DivFacts
  <1>4. QED
    BY <1>2, <1>3 DEF NumBlocks, Block

(* The words of an image are words of the program area. *)
LEMMA ImageWords ==
  ASSUME NEW n \in Lengths
  PROVE  0 .. n - 1 \subseteq Addr
  BY DEF Lengths, Addr

(* Every word is in one of the sectors that flashEraseSectors erases. *)
LEMMA SectorOfAddr ==
  ASSUME NEW i \in Addr
  PROVE  SectorOf(i) \in Sector
  <1>1. i \in Nat /\ i < BlockWords * (BlockMax + 1)
    BY DEF Addr
  <1>2. BlockOf(i) \in Nat /\ BlockOf(i) < BlockMax + 1
    BY <1>1, DivBound, DivFacts DEF BlockOf
  <1>3. BlockOf(i) + 1 \in Nat /\ BlockMax + 1 \in Nat /\ BlockOf(i) + 1 <= BlockMax + 1
    BY <1>2
  <1>4. (BlockOf(i) + 1) \div SectorBlocks <= (BlockMax + 1) \div SectorBlocks
    BY <1>3, DivMono
  <1>5. (BlockOf(i) + 1) \div SectorBlocks \in Nat
    BY <1>3, DivFacts
  <1>6. (BlockMax + 1) \div SectorBlocks \in Nat
    BY <1>3, DivFacts
  <1>7. QED
    BY <1>4, <1>5, <1>6 DEF SectorOf, Sector

(* The erase starts from sector 0. *)
LEMMA SectorZero == 0 \in Sector /\ Sector \subseteq Nat
  BY DivFacts DEF Sector

(* The header fields are written in this order, and no other field follows. *)
LEMMA Fields ==
  /\ FieldAt(0) = "magic" /\ FieldAt(1) = "fullhash"
  /\ FieldAt(2) = "length" /\ FieldAt(3) = "guid"
  /\ \A k \in 0 .. LastField : FieldAt(k) \in HdrField
  BY DEF FieldAt, HdrField, LastField

(* The header that a control packet describes *)
LEMMA ProtoType ==
  ASSUME NEW p \in Program
  PROVE  /\ Proto(p).magic = Magic
         /\ Proto(p).fullhash \in Hashes
         /\ Proto(p).length \in Lengths
         /\ Proto(p).guid = p
         /\ DOMAIN Proto(p) = HdrField
  BY ProgramAssumption DEF Proto, HdrField, Hashes, Lengths

(* The hash covers the words of the image and nothing else. *)
LEMMA HashOfPrefix ==
  ASSUME NEW n, NEW d, NEW e, \A i \in 0 .. n - 1 : d[i] = e[i]
  PROVE  FullHash(n, d) = FullHash(n, e)
  BY DEF FullHash

-----------------------------------------------------------------------------
(* The inductive invariant holds initially. *)
LEMMA InitInv == Init => Inv
  BY SectorZero DEF Init, Inv, TypeOK, HdrType, PcInv, BlankInv, MarkInv,
     CompleteMeansVerified, BlankHdr, HdrField, Mark, FlashValue

(* Every step keeps the types and what each pc implies. *)
LEMMA TypeStep == Inv /\ [Next]_vars => TypeOK' /\ HdrType' /\ PcInv'
  <1> SUFFICES ASSUME Inv, [Next]_vars
               PROVE  TypeOK' /\ HdrType' /\ PcInv'
    OBVIOUS
  <1> USE DEF Inv, TypeOK, HdrType, PcInv
  <1>1. ASSUME NEW held \in BOOLEAN, Boot(held)
        PROVE  TypeOK' /\ HdrType' /\ PcInv'
    BY <1>1 DEF Boot, flash
  <1>2. ASSUME NEW m \in Packet, Receive(m)
        PROVE  TypeOK' /\ HdrType' /\ PcInv'
    BY <1>2 DEF Receive, flash
  <1>3. CASE IdleIgnore
    BY <1>3 DEF IdleIgnore, Return, flash
  <1>4. CASE IdleResume
    BY <1>4 DEF IdleResume, Return, flash
  <1>5. CASE IdleNewProgram
    BY <1>5, SectorZero DEF IdleNewProgram, StartErase, flash, Packet, CtrlPacket, DataPacket
  <1>6. CASE EraseSector
    BY <1>6, SectorZero DEF EraseSector, EraseDone, Return, BlankHdr, HdrField, Mark, FlashValue, LastField
  <1>7. CASE EraseFault
    BY <1>7 DEF EraseFault, EraseDone, Return, flash, LastField
  <1>8. CASE ProgramHeader
    <2>1. pkt.prog \in Program /\ at \in {0, 1, 2, 3} /\ pkt \in CtrlPacket
      BY <1>8 DEF ProgramHeader, CtrlPacket, LastField
    <2>2. PICK v \in Programmed(Proto(pkt.prog)[FieldAt(at)]) :
            hdr' = [hdr EXCEPT ![FieldAt(at)] = v]
      BY <1>8 DEF ProgramHeader
    <2>3. v \in {Proto(pkt.prog)[FieldAt(at)], Blank, Torn}
      BY <2>2 DEF Programmed
    <2>4. HdrType'
      <3>1. CASE at = 0
        BY <2>1, <2>2, <2>3, <3>1, Fields, ProtoType, ZenonT(30) DEF HdrField
      <3>2. CASE at = 1
        BY <2>1, <2>2, <2>3, <3>2, Fields, ProtoType, ZenonT(30) DEF HdrField
      <3>3. CASE at = 2
        BY <2>1, <2>2, <2>3, <3>3, Fields, ProtoType, ZenonT(30) DEF HdrField
      <3>4. CASE at = 3
        BY <2>1, <2>2, <2>3, <3>4, Fields, ProtoType DEF HdrField
      <3>5. QED
        BY <2>1, <3>1, <3>2, <3>3, <3>4
    <2>5. TypeOK' /\ PcInv'
      BY <1>8, <2>1, <2>4 DEF ProgramHeader, Return, LastField
    <2>6. QED
      BY <2>4, <2>5
  <1>9. CASE UpdatingBadMagic
    BY <1>9, SectorZero DEF UpdatingBadMagic, StartErase, flash
  <1>10. CASE UpdatingIgnore
    BY <1>10 DEF UpdatingIgnore, Return, flash
  <1>11. CASE UpdatingBlock
    BY <1>11 DEF UpdatingBlock, flash, Packet, CtrlPacket, DataPacket
  <1>12. CASE ProgramMap
    <2>1. PICK v \in Mark : blockmap' = [blockmap EXCEPT ![pkt.block] = v]
      BY <1>12 DEF ProgramMap, Programmed, Mark
    <2>2. blockmap' \in [Block -> Mark]
      BY <2>1
    <2>3. pc' \in {"data", "check"} /\ at' = 0 /\ pkt \in DataPacket
      BY <1>12 DEF ProgramMap
    <2>4. UNCHANGED <<astate, pkt, after, hdr, complete, data>>
      BY <1>12 DEF ProgramMap
    <2>5. QED
      BY <2>2, <2>3, <2>4
  <1>13. CASE ProgramData
    BY <1>13, WordsInAddr, ProgramAssumption DEF ProgramData, Programmed, FlashValue, DataPacket
  <1>14. CASE CheckNotDone
    BY <1>14 DEF CheckNotDone, Return, flash
  <1>15. CASE CheckGood
    BY <1>15 DEF CheckGood, flash
  <1>16. CASE CheckBad
    BY <1>16, SectorZero DEF CheckBad, StartErase, flash
  <1>17. CASE CheckGarbageLength
    BY <1>17, SectorZero DEF CheckGarbageLength, StartErase, Return, flash
  <1>18. CASE ProgramComplete
    BY <1>18 DEF ProgramComplete, BootToUserApp, Return, Programmed, Mark
  <1>19. CASE UpdatedBoot
    BY <1>19 DEF UpdatedBoot, BootToUserApp, Return, flash
  <1>20. CASE FailError
    BY <1>20 DEF FailError, flash
  <1>21. CASE PowerLoss
    BY <1>21 DEF PowerLoss, Restart, flash
  <1>22. CASE PowerLossTorn
    BY <1>22, Fields, WordsInAddr DEF PowerLossTorn, Restart, HdrField, Mark, FlashValue, FieldAt, DataPacket
  <1>23. CASE UNCHANGED vars
    BY <1>23 DEF vars
  <1>24. QED
    BY <1>1, <1>2, <1>3, <1>4, <1>5, <1>6, <1>7, <1>8, <1>9, <1>10, <1>11,
       <1>12, <1>13, <1>14, <1>15, <1>16, <1>17, <1>18, <1>19, <1>20, <1>21,
       <1>22, <1>23 DEF Next, Process

(* What is blank while an operation is under way stays blank until its turn. *)
LEMMA BlankStep == Inv /\ [Next]_vars => BlankInv'
  <1> SUFFICES ASSUME Inv, [Next]_vars
               PROVE  BlankInv'
    OBVIOUS
  <1> USE DEF Inv, BlankInv
  <1>1. ASSUME NEW held \in BOOLEAN, Boot(held)
        PROVE  BlankInv'
    BY <1>1 DEF Boot, flash
  <1>2. ASSUME NEW m \in Packet, Receive(m)
        PROVE  BlankInv'
    BY <1>2 DEF Receive, flash
  <1>3. CASE IdleIgnore \/ IdleResume \/ UpdatingIgnore \/ CheckNotDone
    BY <1>3 DEF IdleIgnore, IdleResume, UpdatingIgnore, CheckNotDone, Return
  <1>4. CASE IdleNewProgram \/ UpdatingBadMagic \/ CheckBad
    BY <1>4 DEF IdleNewProgram, UpdatingBadMagic, CheckBad, StartErase
  <1>5. CASE EraseSector
    <2>1. hdr' = BlankHdr /\ complete' = Blank
      BY <1>5 DEF EraseSector
    <2>2. CASE pc' = "erase"
      BY <2>1, <2>2
    <2>3. CASE pc' = "header"
      BY <2>1, <2>3, Fields, <1>5 DEF EraseSector, EraseDone, Return, BlankHdr, LastField
    <2>4. pc' \notin {"map", "data"}
      BY <1>5 DEF EraseSector, EraseDone, Return
    <2>5. QED
      BY <2>1, <2>2, <2>3, <2>4
  <1>6. CASE EraseFault
    <2>1. UNCHANGED flash
      BY <1>6 DEF EraseFault
    <2>2. CASE pc' = "header"
      <3>1. hdr = BlankHdr /\ at' = 0 /\ hdr' = hdr
        BY <1>6, <2>2 DEF EraseFault, EraseDone, Return, flash
      <3>2. complete' = Blank
        BY <3>1, <2>1, MarkAssumption
           DEF MarkInv, flash, BlankHdr, HdrField
      <3>3. QED
        BY <3>1, <3>2, <2>2, Fields DEF BlankHdr, LastField
    <2>3. pc' \in {"header", "listen"}
      BY <1>6 DEF EraseFault, EraseDone, Return
    <2>4. QED
      BY <2>2, <2>3
  <1>7. CASE ProgramHeader
    <2>1. PICK v : hdr' = [hdr EXCEPT ![FieldAt(at)] = v]
      BY <1>7 DEF ProgramHeader
    <2>2. at \in 0 .. LastField /\ complete = Blank /\ complete' = complete
      BY <1>7 DEF ProgramHeader, PcInv
    <2>3. ASSUME pc' = "header", NEW k \in at' .. LastField
          PROVE  hdr'[FieldAt(k)] = Blank
      <3>1. at' = at + 1 /\ k \in at .. LastField /\ k # at /\ k \in 0 .. LastField
        BY <1>7, <2>2, <2>3 DEF ProgramHeader, Return, LastField
      <3>2. FieldAt(k) # FieldAt(at)
        BY <2>2, <3>1 DEF FieldAt, LastField
      <3>3. QED
        BY <1>7, <2>1, <3>1, <3>2, Fields DEF HdrType, ProgramHeader
    <2>4. pc' \in {"header", "listen"}
      BY <1>7 DEF ProgramHeader, Return
    <2>5. QED
      BY <2>2, <2>3, <2>4
  <1>8. CASE UpdatingBlock
    BY <1>8 DEF UpdatingBlock, flash
  <1>9. CASE ProgramMap
    <2>1. CASE pc' = "data"
      <3>1. \A i \in WordsOf(pkt.block) : data[i] = Blank
        BY <1>9, <2>1 DEF ProgramMap
      <3>2. pkt.block \in Block
        BY <1>9 DEF ProgramMap, PcInv, DataPacket
      <3>3. \A k \in 0 .. BlockWords - 1 : First(pkt.block) + k \in WordsOf(pkt.block)
        BY <3>2, WordsInAddr DEF WordsOf, Addr
      <3>4. QED
        BY <1>9, <2>1, <3>1, <3>3 DEF ProgramMap
    <2>2. pc' \in {"data", "check"}
      BY <1>9 DEF ProgramMap
    <2>3. QED
      BY <2>1, <2>2
  <1>10. CASE ProgramData
    <2>1. pkt.block \in Block /\ at \in 0 .. BlockWords - 1 /\ First(pkt.block) \in Nat
      BY <1>10, WordsInAddr DEF ProgramData, PcInv, DataPacket
    <2>2. ASSUME pc' = "data", NEW k \in at' .. BlockWords - 1
          PROVE  data'[First(pkt.block) + k] = Blank
      <3>1. at' = at + 1 /\ k \in at .. BlockWords - 1 /\ k # at /\ k \in 0 .. BlockWords - 1
        BY <1>10, <2>1, <2>2 DEF ProgramData
      <3>2. First(pkt.block) + k \in Addr /\ First(pkt.block) + k # First(pkt.block) + at
        BY <2>1, <3>1, WordsInAddr
      <3>3. PICK v : data' = [data EXCEPT ![First(pkt.block) + at] = v]
        BY <1>10 DEF ProgramData
      <3>4. data[First(pkt.block) + k] = Blank
        BY <1>10, <3>1 DEF ProgramData
      <3>5. QED
        BY <3>2, <3>3, <3>4 DEF TypeOK
    <2>3. pc' \in {"data", "check"} /\ UNCHANGED pkt
      BY <1>10 DEF ProgramData
    <2>4. QED
      BY <2>2, <2>3
  <1>11. CASE CheckGood \/ CheckGarbageLength
    BY <1>11 DEF CheckGood, CheckGarbageLength, StartErase, Return
  <1>12. CASE ProgramComplete \/ UpdatedBoot
    BY <1>12 DEF ProgramComplete, UpdatedBoot, BootToUserApp, Return
  <1>13. CASE FailError
    BY <1>13 DEF FailError
  <1>14. CASE PowerLoss \/ PowerLossTorn
    BY <1>14 DEF PowerLoss, PowerLossTorn, Restart
  <1>15. CASE UNCHANGED vars
    BY <1>15 DEF vars
  <1>16. QED
    BY <1>1, <1>2, <1>3, <1>4, <1>5, <1>6, <1>7, <1>8, <1>9, <1>10, <1>11,
       <1>12, <1>13, <1>14, <1>15 DEF Next, Process

(* Verified depends on the header, the block map and the image only. *)
LEMMA VerifiedFrame ==
  ASSUME UNCHANGED <<hdr, blockmap, data>>
  PROVE  Verified' <=> Verified
  BY DEF Verified, LengthReadable, AllDone, HashMatches

(* Programming a block past the end of the image leaves a verified image so. *)
LEMMA VerifiedPastEnd ==
  ASSUME Inv, Verified, pkt.block \in Block, UNCHANGED hdr,
         pkt.block \notin 0 .. NumBlocks(hdr.length) - 1,
         \A b \in Block : b # pkt.block => blockmap'[b] = blockmap[b],
         NEW k \in 0 .. BlockWords - 1,
         \A i \in Addr : i # First(pkt.block) + k => data'[i] = data[i]
  PROVE  Verified' /\ FullHash(hdr.length, data') = FullHash(hdr.length, data)
  <1>1. hdr.length \in Lengths
    BY DEF Inv, HdrType, Verified, LengthReadable
  <1>2. AllDone'
    <2>1. \A b \in 0 .. NumBlocks(hdr.length) - 1 : blockmap'[b] = blockmap[b]
      BY <1>1, ImageBlocks
    <2>2. QED
      BY <2>1 DEF Verified, AllDone
  <1>3. \A i \in 0 .. hdr.length - 1 : data'[i] = data[i]
    BY <1>1, ImageWords, BlockPastEnd
  <1>4. FullHash(hdr.length, data') = FullHash(hdr.length, data)
    BY <1>3, HashOfPrefix
  <1>5. QED
    BY <1>2, <1>4 DEF Verified, LengthReadable, HashMatches

(* The mark "complete" is set after verification and removed before the    *)
(* image is touched.                                                       *)
LEMMA MarkStep == Inv /\ [Next]_vars => MarkInv'
  <1> SUFFICES ASSUME Inv, [Next]_vars
               PROVE  MarkInv'
    OBVIOUS
  <1> USE DEF Inv, MarkInv, CompleteMeansVerified
  <1>0. ASSUME UNCHANGED flash, pc' \notin {"map", "data", "complete", "check"},
               pc' \in {"listen", "process"} /\ astate' = "UPDATED" => complete # Blank
        PROVE  MarkInv'
    BY <1>0, VerifiedFrame DEF flash
  <1>1. ASSUME NEW held \in BOOLEAN, Boot(held)
        PROVE  MarkInv'
    BY <1>0, <1>1 DEF Boot, PcInv
  <1>2. ASSUME NEW m \in Packet, Receive(m)
        PROVE  MarkInv'
    BY <1>0, <1>2 DEF Receive
  <1>3. CASE IdleIgnore \/ IdleResume \/ UpdatingIgnore \/ CheckNotDone
    BY <1>0, <1>3 DEF IdleIgnore, IdleResume, UpdatingIgnore, CheckNotDone, Return
  <1>4. CASE IdleNewProgram \/ UpdatingBadMagic \/ CheckBad
    BY <1>0, <1>4 DEF IdleNewProgram, UpdatingBadMagic, CheckBad, StartErase
  <1>5. CASE EraseSector
    <2>1. complete' = Blank
      BY <1>5 DEF EraseSector, BlankInv
    <2>2. pc' \in {"erase", "header"} \/ (pc' = "listen" /\ astate' # "UPDATED")
      BY <1>5 DEF EraseSector, EraseDone, Return
    <2>3. QED
      BY <2>1, <2>2
  <1>6. CASE EraseFault
    BY <1>0, <1>6 DEF EraseFault, EraseDone, Return
  <1>7. CASE ProgramHeader
    <2>1. complete' = Blank
      BY <1>7 DEF ProgramHeader, BlankInv
    <2>2. pc' = "header" \/ (pc' = "listen" /\ astate' # "UPDATED")
      BY <1>7 DEF ProgramHeader, Return
    <2>3. QED
      BY <2>1, <2>2
  <1>8. CASE UpdatingBlock
    <2>1. UNCHANGED <<hdr, complete, blockmap, data, pkt>> /\ pc' \in {"map", "check"}
          /\ hdr.magic = Magic
      BY <1>8 DEF UpdatingBlock, flash
    <2>2. complete # Blank /\ pc' = "map" =>
            pkt.block \notin 0 .. NumBlocks(hdr.length) - 1
      BY <1>8 DEF UpdatingBlock, Verified, AllDone
    <2>3. QED
      BY <2>1, <2>2, VerifiedFrame
  <1>9. CASE ProgramMap
    <2>1. pkt.block \in Block /\ pc = "map"
      BY <1>9 DEF ProgramMap, PcInv, DataPacket
    <2>2. UNCHANGED <<pkt, hdr, complete, data>> /\ pc' \in {"data", "check"}
      BY <1>9 DEF ProgramMap
    <2>3. \A b \in Block : b # pkt.block => blockmap'[b] = blockmap[b]
      BY <1>9 DEF ProgramMap, TypeOK
    <2>4. complete # Blank => Verified'
      BY <2>1, <2>2, <2>3, VerifiedPastEnd
    <2>5. QED
      BY <2>1, <2>2, <2>4
  <1>10. CASE ProgramData
    <2>1. pkt.block \in Block /\ pc = "data" /\ at \in 0 .. BlockWords - 1
      BY <1>10 DEF ProgramData, PcInv, DataPacket
    <2>2. UNCHANGED <<pkt, hdr, complete, blockmap>> /\ pc' \in {"data", "check"}
      BY <1>10 DEF ProgramData
    <2>3. \A i \in Addr : i # First(pkt.block) + at => data'[i] = data[i]
      BY <1>10 DEF ProgramData, TypeOK
    <2>4. complete # Blank => Verified'
      BY <2>1, <2>2, <2>3, VerifiedPastEnd
    <2>5. QED
      BY <2>1, <2>2, <2>4
  <1>11. CASE CheckGood
    BY <1>11, VerifiedFrame DEF CheckGood, Verified, flash
  <1>12. CASE CheckGarbageLength
    BY <1>0, <1>12 DEF CheckGarbageLength, Return, StartErase
  <1>13. CASE ProgramComplete
    <2>1. UNCHANGED <<hdr, blockmap, data>> /\ Verified /\ hdr.magic = Magic
      BY <1>13 DEF ProgramComplete
    <2>2. pc' = "app" \/ (pc' = "listen" /\ astate' # "UPDATED")
      BY <1>13 DEF ProgramComplete, BootToUserApp, Return
    <2>3. QED
      BY <2>1, <2>2, VerifiedFrame
  <1>14. CASE UpdatedBoot
    BY <1>0, <1>14 DEF UpdatedBoot, BootToUserApp, Return
  <1>15. CASE FailError
    BY <1>0, <1>15 DEF FailError
  <1>16. CASE PowerLoss
    BY <1>0, <1>16 DEF PowerLoss, Restart
  <1>17. CASE PowerLossTorn
    <2>1. pc' = "boot"
      BY <1>17 DEF PowerLossTorn, Restart
    <2>2. CASE pc = "header"
      BY <1>17, <2>1, <2>2 DEF PowerLossTorn, BlankInv
    <2>3. CASE pc = "map"
      <3>1. pkt.block \in Block /\ UNCHANGED <<hdr, complete, data>>
        BY <1>17, <2>3 DEF PowerLossTorn, PcInv, DataPacket
      <3>2. \A b \in Block : b # pkt.block => blockmap'[b] = blockmap[b]
        BY <1>17, <2>3 DEF PowerLossTorn, TypeOK
      <3>3. complete # Blank => Verified'
        BY <2>3, <3>1, <3>2, VerifiedPastEnd
      <3>4. QED
        BY <2>1, <3>1, <3>3
    <2>4. CASE pc = "data"
      <3>1. pkt.block \in Block /\ at \in 0 .. BlockWords - 1
            /\ UNCHANGED <<hdr, complete, blockmap>>
        BY <1>17, <2>4 DEF PowerLossTorn, PcInv, DataPacket
      <3>2. \A i \in Addr : i # First(pkt.block) + at => data'[i] = data[i]
        BY <1>17, <2>4 DEF PowerLossTorn, TypeOK
      <3>3. complete # Blank => Verified'
        BY <2>4, <3>1, <3>2, VerifiedPastEnd
      <3>4. QED
        BY <2>1, <3>1, <3>3
    <2>5. CASE pc = "complete"
      BY <1>17, <2>1, <2>5, VerifiedFrame DEF PowerLossTorn
    <2>6. QED
      BY <1>17, <2>2, <2>3, <2>4, <2>5 DEF PowerLossTorn
  <1>18. CASE UNCHANGED vars
    BY <1>18, VerifiedFrame DEF vars
  <1>19. QED
    BY <1>1, <1>2, <1>3, <1>4, <1>5, <1>6, <1>7, <1>8, <1>9, <1>10, <1>11,
       <1>12, <1>13, <1>14, <1>15, <1>16, <1>17, <1>18 DEF Next, Process

-----------------------------------------------------------------------------
(* Every step keeps the invariant. *)
LEMMA InvStep == Inv /\ [Next]_vars => Inv'
  BY TypeStep, BlankStep, MarkStep DEF Inv

(* The inductive invariant holds throughout, with or without failing flash *)
(* commands.                                                               *)
THEOREM Invariance == Spec => []Inv
  BY InitInv, InvStep, PTL DEF Spec

(* Every register and every word of flash keeps its type. *)
THEOREM TypeCorrect == Spec => []TypeOK
  <1>1. Inv => TypeOK
    BY DEF Inv
  <1>2. QED
    BY <1>1, Invariance, PTL

(* A header marked complete describes the image in flash, for every set of *)
(* programs, geometry of the flash, order of packets, power failure and    *)
(* failure of a flash command.                                             *)
THEOREM CompleteIsVerified == Spec => []CompleteMeansVerified
  <1>1. Inv => CompleteMeansVerified
    BY DEF Inv, MarkInv
  <1>2. QED
    BY <1>1, Invariance, PTL

(* The updater starts no app but a verified one with a valid app header. *)
THEOREM StartsVerified == Spec => UpdaterStartsVerifiedApp
  <1>1. ASSUME Inv, [Next]_vars, pc' = "app", pc # "boot", pc # "app"
        PROVE  Verified' /\ AppIsValid'
    <2>1. ProgramComplete \/ UpdatedBoot
      BY <1>1 DEF Next, Process, Boot, Receive, IdleIgnore, IdleResume, IdleNewProgram,
           EraseSector, EraseFault, EraseDone, ProgramHeader, UpdatingBadMagic,
           UpdatingIgnore, UpdatingBlock, ProgramMap, ProgramData, CheckNotDone,
           CheckGood, CheckBad, CheckGarbageLength, FailError, PowerLoss,
           PowerLossTorn, Restart, Return, StartErase, vars
    <2>2. Verified /\ UNCHANGED <<hdr, blockmap, data>>
      BY <1>1, <2>1 DEF ProgramComplete, UpdatedBoot, Inv, MarkInv,
           CompleteMeansVerified, flash
    <2>3. AppIsValid
      BY <1>1, <2>1 DEF ProgramComplete, UpdatedBoot, BootToUserApp, Return
    <2>4. QED
      BY <2>2, <2>3, VerifiedFrame DEF AppIsValid
  <1>2. ASSUME Inv, [Next]_vars, pc' = "app", pc = "app"
        PROVE  UNCHANGED vars
    BY <1>2 DEF Next, Process, Boot, Receive, IdleIgnore, IdleResume, IdleNewProgram,
           EraseSector, EraseFault, EraseDone, ProgramHeader, UpdatingBadMagic,
           UpdatingIgnore, UpdatingBlock, ProgramMap, ProgramData, CheckNotDone,
           CheckGood, CheckBad, CheckGarbageLength, FailError, PowerLoss,
           PowerLossTorn, Restart, Return, StartErase, vars,
           ProgramComplete, UpdatedBoot, BootToUserApp
  <1>3. Inv /\ [Next]_vars =>
          [pc' = "app" /\ pc # "boot" => Verified' /\ AppIsValid']_vars
    BY <1>1, <1>2
  <1>4. QED
    BY <1>3, Invariance, PTL DEF Spec, UpdaterStartsVerifiedApp

-----------------------------------------------------------------------------
(* A programmed word changes by an erase only. *)
THEOREM NeverOverprogrammed == Spec => NoOverprogram
  <1> DEFINE
       Keeps == /\ \A i \in Addr : data[i] # Blank => data'[i] \in {data[i], Blank}
                /\ \A b \in Block : blockmap[b] # Blank => blockmap'[b] \in {blockmap[b], Blank}
                /\ \A f \in HdrField : hdr[f] # Blank => hdr'[f] \in {hdr[f], Blank}
                /\ complete # Blank => complete' \in {complete, Blank}
  <1>1. ASSUME Inv, [Next]_vars
        PROVE  Keeps
    <2>0. Inv
      BY <1>1
    <2> USE <2>0 DEF Inv
    <2>1. CASE UNCHANGED flash
      BY <2>1 DEF flash
    <2>2. CASE EraseSector
      BY <2>2 DEF EraseSector, BlankHdr
    <2>3. CASE ProgramHeader
      <3>1. hdr[FieldAt(at)] = Blank /\ UNCHANGED <<complete, blockmap, data>>
        BY <2>3 DEF ProgramHeader, BlankInv, PcInv, LastField
      <3>2. \A f \in HdrField : f # FieldAt(at) => hdr'[f] = hdr[f]
        BY <2>3 DEF ProgramHeader, HdrType
      <3>3. QED
        BY <3>1, <3>2
    <2>4. CASE ProgramMap
      BY <2>4 DEF ProgramMap, BlankInv, TypeOK
    <2>5. CASE ProgramData
      <3>1. at \in 0 .. BlockWords - 1 /\ at \in at .. BlockWords - 1
        BY <2>5 DEF ProgramData, PcInv
      <3>2. data[First(pkt.block) + at] = Blank
        BY <2>5, <3>1 DEF ProgramData, BlankInv
      <3>3. QED
        BY <2>5, <3>2 DEF ProgramData, TypeOK
    <2>6. CASE ProgramComplete
      BY <2>6 DEF ProgramComplete
    <2>7. CASE PowerLossTorn
      <3>1. CASE pc = "header"
        <4>1. hdr[FieldAt(at)] = Blank /\ UNCHANGED <<complete, blockmap, data>>
          BY <2>7, <3>1 DEF PowerLossTorn, BlankInv, PcInv, LastField
        <4>2. \A f \in HdrField : f # FieldAt(at) => hdr'[f] = hdr[f]
          BY <2>7, <3>1 DEF PowerLossTorn, HdrType
        <4>3. QED
          BY <4>1, <4>2
      <3>2. CASE pc = "map"
        BY <2>7, <3>2 DEF PowerLossTorn, BlankInv, TypeOK
      <3>3. CASE pc = "data"
        <4>1. at \in 0 .. BlockWords - 1 /\ at \in at .. BlockWords - 1
          BY <3>3 DEF PcInv
        <4>2. data[First(pkt.block) + at] = Blank
          BY <3>3, <4>1 DEF BlankInv
        <4>3. QED
          BY <2>7, <3>3, <4>2 DEF PowerLossTorn, TypeOK
      <3>4. CASE pc = "complete"
        BY <2>7, <3>4 DEF PowerLossTorn
      <3>5. QED
        BY <2>7, <3>1, <3>2, <3>3, <3>4 DEF PowerLossTorn
    <2>8. QED
      BY <1>1, <2>1, <2>2, <2>3, <2>4, <2>5, <2>6, <2>7
         DEF Next, Process, Boot, Receive, IdleIgnore, IdleResume, IdleNewProgram,
             EraseFault, UpdatingBadMagic, UpdatingIgnore, UpdatingBlock, CheckNotDone,
             CheckGood, CheckBad, CheckGarbageLength, UpdatedBoot, FailError, PowerLoss,
             flash, vars
  <1>2. Inv /\ [Next]_vars => [Keeps]_vars
    BY <1>1
  <1>3. QED
    BY <1>2, Invariance, PTL DEF Spec, NoOverprogram

-----------------------------------------------------------------------------
(* The initial state has no image installed. *)
LEMMA StoreInit == Init => Store!Init
  BY DEF Init, Store!Init, Installed

(* Every step of the updater is a step of the store or leaves it alone. *)
LEMMA StoreStep == Inv /\ [Next]_vars => [Store!Next]_Installed
  <1> SUFFICES ASSUME Inv, [Next]_vars
               PROVE  [Store!Next]_Installed
    OBVIOUS
  <1> USE DEF Inv
  <1>1. CASE UNCHANGED <<hdr, complete, data>>
    BY <1>1 DEF Installed
  <1>2. CASE complete = Blank /\ complete' = Blank
    BY <1>2 DEF Installed
  <1>3. CASE EraseSector
    <2>1. complete' = Blank
      BY <1>3 DEF EraseSector, BlankInv
    <2>2. QED
      BY <2>1 DEF Installed, Store!Next, Store!Wipe
  <1>4. CASE ProgramHeader \/ (PowerLossTorn /\ pc = "header")
    BY <1>2, <1>4 DEF ProgramHeader, PowerLossTorn, BlankInv
  <1>5. CASE ProgramMap \/ (PowerLossTorn /\ pc = "map")
    BY <1>1, <1>5 DEF ProgramMap, PowerLossTorn
  <1>6. CASE ProgramData \/ (PowerLossTorn /\ pc = "data")
    <2>1. CASE complete = Blank
      BY <1>2, <1>6, <2>1 DEF ProgramData, PowerLossTorn
    <2>2. CASE complete # Blank
      <3>1. pkt.block \in Block /\ at \in 0 .. BlockWords - 1 /\ pc = "data"
            /\ UNCHANGED <<hdr, complete, blockmap>>
        BY <1>6 DEF ProgramData, PowerLossTorn, PcInv, DataPacket
      <3>2. \A i \in Addr : i # First(pkt.block) + at => data'[i] = data[i]
        BY <1>6 DEF ProgramData, PowerLossTorn, TypeOK
      <3>3. Verified /\ pkt.block \notin 0 .. NumBlocks(hdr.length) - 1
        BY <2>2, <3>1 DEF MarkInv, CompleteMeansVerified
      <3>4. FullHash(hdr.length, data') = FullHash(hdr.length, data)
        BY <3>1, <3>2, <3>3, VerifiedPastEnd
      <3>5. QED
        BY <2>2, <3>1, <3>4 DEF Installed
    <2>3. QED
      BY <2>1, <2>2
  <1>7. CASE ProgramComplete \/ (PowerLossTorn /\ pc = "complete")
    <2>1. UNCHANGED <<hdr, data>> /\ Verified
      BY <1>7 DEF ProgramComplete, PowerLossTorn, MarkInv
    <2>2. CASE complete # Blank
      BY <1>1, <1>7, <2>1, <2>2 DEF ProgramComplete, PowerLossTorn
    <2>3. CASE complete = Blank /\ complete' # Blank
      <3>1. hdr.length \in Lengths /\ data \in [Addr -> Word \cup {Torn}]
        BY <2>1 DEF HdrType, TypeOK, FlashValue, Verified, LengthReadable
      <3>2. FullHash(hdr.length, data) \notin {Blank, Torn}
        BY <3>1, HashAssumption DEF Lengths
      <3>3. FullHash(hdr.length, data) \in Hashes
        BY <2>1, <3>2 DEF HdrType, Verified, HashMatches
      <3>4. Installed = None /\ Installed' = FullHash(hdr.length, data)
        BY <2>1, <2>3 DEF Installed
      <3>5. QED
        BY <3>3, <3>4 DEF Store!Next, Store!Install, Hashes
    <2>4. QED
      BY <1>2, <2>2, <2>3
  <1>8. QED
    BY <1>1, <1>3, <1>4, <1>5, <1>6, <1>7
       DEF Next, Process, Boot, Receive, IdleIgnore, IdleResume, IdleNewProgram,
           EraseFault, UpdatingBadMagic, UpdatingIgnore, UpdatingBlock, CheckNotDone,
           CheckGood, CheckBad, CheckGarbageLength, UpdatedBoot, FailError, PowerLoss,
           PowerLossTorn, flash, vars

(* The updater implements the program store. *)
THEOREM ImplementsStore == Spec => StoreSpec
  BY StoreInit, StoreStep, Invariance, PTL DEF Spec, StoreSpec, Store!Spec

-----------------------------------------------------------------------------
(***************************************************************************)
(* While no flash command fails.                                           *)
(***************************************************************************)

(* Two blocks share no word. *)
LEMMA BlocksDisjoint ==
  ASSUME NEW b \in Block, NEW c \in Block, b # c, NEW k \in 0 .. BlockWords - 1
  PROVE  First(c) + k \notin WordsOf(b)
  <1>1. CASE b + 1 <= c
    <2>1. (b + 1) * BlockWords <= c * BlockWords
      BY <1>1, MulMono DEF Block
    <2>2. (b + 1) * BlockWords = b * BlockWords + BlockWords
      BY DEF Block
    <2>3. b * BlockWords \in Nat /\ c * BlockWords \in Nat
      BY DEF Block
    <2>4. QED
      BY <2>1, <2>2, <2>3 DEF First, WordsOf
  <1>2. CASE c + 1 <= b
    <2>1. (c + 1) * BlockWords <= b * BlockWords
      BY <1>2, MulMono DEF Block
    <2>2. (c + 1) * BlockWords = c * BlockWords + BlockWords
      BY DEF Block
    <2>3. b * BlockWords \in Nat /\ c * BlockWords \in Nat
      BY DEF Block
    <2>4. QED
      BY <2>1, <2>2, <2>3 DEF First, WordsOf
  <1>3. QED
    BY <1>1, <1>2 DEF Block

(* A block lies within the program's flash. *)
LEMMA WordsOfInAddr ==
  ASSUME NEW b \in Block
  PROVE  WordsOf(b) \subseteq Addr
  <1>1. ASSUME NEW i \in WordsOf(b)
        PROVE  i \in Addr
    <2>1. First(b) \in Nat
      BY DEF First, Block
    <2>2. i - First(b) \in 0 .. BlockWords - 1 /\ i = First(b) + (i - First(b))
      BY <1>1, <2>1 DEF WordsOf
    <2>3. QED
      BY <2>2, WordsInAddr
  <1>2. QED
    BY <1>1

(* Flash starts clean. *)
LEMMA CleanInit == Init => CleanInv
  <1> SUFFICES ASSUME Init
               PROVE  GuidMeansHeader /\ BlankEntryMeansBlankBlock /\ CleanErase
    BY DEF CleanInv
  <1>1. hdr.guid = Blank /\ hdr.magic = Blank /\ pc = "boot"
    BY DEF Init, BlankHdr, HdrField
  <1>2. QED
    BY <1>1, ProgramAssumption
       DEF GuidMeansHeader, BlankEntryMeansBlankBlock, CleanErase

(* The header is written in order, its guid last, after a full erase. *)
LEMMA GuidStep == Inv /\ CleanInv /\ [Next]_vars => GuidMeansHeader'
  <1> SUFFICES ASSUME Inv, CleanInv, [Next]_vars, ~FlashFaults
               PROVE  \A p \in Program : hdr'.guid = p => hdr' = Proto(p)
    BY DEF GuidMeansHeader
  <1> USE DEF Inv, CleanInv
  <1>1. CASE UNCHANGED hdr
    BY <1>1 DEF GuidMeansHeader
  <1>2. CASE EraseSector
    <2>1. hdr' = BlankHdr
      BY <1>2 DEF EraseSector, BlankInv
    <2>2. QED
      BY <2>1, ProgramAssumption DEF BlankHdr, HdrField
  <1>3. CASE ProgramHeader
    <2>1. at \in {0, 1, 2, 3} /\ pkt.prog \in Program
      BY <1>3 DEF ProgramHeader, PcInv, LastField, CtrlPacket
    <2>2. hdr' = [hdr EXCEPT ![FieldAt(at)] = Proto(pkt.prog)[FieldAt(at)]]
      BY <1>3 DEF ProgramHeader, Programmed
    <2>3. CASE at # 3
      <3>1. FieldAt(at) # "guid" /\ hdr[FieldAt(3)] = Blank
        BY <1>3, <2>1, <2>3 DEF FieldAt, BlankInv, LastField, ProgramHeader
      <3>2. hdr'.guid = Blank
        BY <2>2, <3>1, Fields DEF HdrType
      <3>3. QED
        BY <3>2, ProgramAssumption
    <2>4. CASE at = 3
      <3>1. /\ hdr[FieldAt(0)] = Proto(pkt.prog)[FieldAt(0)]
            /\ hdr[FieldAt(1)] = Proto(pkt.prog)[FieldAt(1)]
            /\ hdr[FieldAt(2)] = Proto(pkt.prog)[FieldAt(2)]
        BY <1>3, <2>4 DEF ProgramHeader, CleanErase
      <3>2. \A f \in HdrField : hdr'[f] = Proto(pkt.prog)[f]
        BY <2>2, <2>4, <3>1, Fields DEF HdrField, HdrType
      <3>3. hdr' = [f \in HdrField |-> hdr'[f]]
        BY <2>2 DEF HdrType
      <3>4. Proto(pkt.prog) = [f \in HdrField |-> Proto(pkt.prog)[f]]
        BY <2>1, ProtoType DEF Proto, HdrField
      <3>5. hdr' = Proto(pkt.prog) /\ Proto(pkt.prog).guid = pkt.prog
        BY <2>1, <3>2, <3>3, <3>4, ProtoType
      <3>6. QED
        BY <3>5
    <2>5. QED
      BY <2>3, <2>4
  <1>4. CASE PowerLossTorn /\ pc = "header"
    <2>1. at \in {0, 1, 2, 3} /\ hdr[FieldAt(3)] = Blank
      BY <1>4 DEF PcInv, LastField, BlankInv
    <2>2. hdr' = [hdr EXCEPT ![FieldAt(at)] = Torn]
      BY <1>4 DEF PowerLossTorn
    <2>3. hdr'.guid \in {Blank, Torn}
      BY <2>1, <2>2, Fields DEF HdrType, HdrField
    <2>4. QED
      BY <2>3, ProgramAssumption
  <1>5. QED
    BY <1>1, <1>2, <1>3, <1>4
       DEF Next, Process, Boot, Receive, IdleIgnore, IdleResume, IdleNewProgram,
           EraseFault, UpdatingBadMagic, UpdatingIgnore, UpdatingBlock, CheckNotDone,
           CheckGood, CheckBad, CheckGarbageLength, UpdatedBoot, FailError, PowerLoss,
           PowerLossTorn, ProgramMap, ProgramData, ProgramComplete, flash, vars

(* Behind an erase everything is blank; a header is written to blank flash. *)
LEMMA CleanEraseStep == Inv /\ CleanInv /\ [Next]_vars /\ ~FlashFaults => CleanErase'
  <1> SUFFICES ASSUME Inv, CleanInv, [Next]_vars, ~FlashFaults
               PROVE  CleanErase'
    OBVIOUS
  <1> USE DEF Inv, CleanInv
  <1>1. CASE pc' \notin {"erase", "header", "data"}
    BY <1>1 DEF CleanErase
  <1>2. CASE pc' = "erase" /\ at' = 0
    <2>1. \A i \in Addr : SectorOf(i) \in Nat
      BY SectorOfAddr, SectorZero
    <2>2. QED
      BY <1>2, <2>1 DEF CleanErase
  <1>3. CASE EraseSector
    <2>1. \A i \in Addr : SectorOf(i) \in Nat /\ at \in Nat
      BY SectorOfAddr, SectorZero DEF TypeOK
    <2>2. \A i \in Addr : SectorOf(i) < at + 1 => data'[i] = Blank
      BY <1>3, <2>1 DEF EraseSector, CleanErase
    <2>3. blockmap' = [b \in Block |-> Blank] /\ hdr' = BlankHdr
      BY <1>3 DEF EraseSector, CleanErase, BlankInv
    <2>4. CASE at + 1 \in Sector
      BY <1>3, <2>2, <2>3, <2>4 DEF EraseSector, CleanErase
    <2>5. CASE at + 1 \notin Sector
      <3>1. \A i \in Addr : SectorOf(i) < at + 1
        BY <1>3, <2>1, <2>5, SectorOfAddr DEF EraseSector, PcInv, Sector
      <3>2. data' = [i \in Addr |-> data'[i]]
        BY <1>3 DEF EraseSector
      <3>3. data' = [i \in Addr |-> Blank]
        BY <2>2, <3>1, <3>2
      <3>4. (pc' = "header" /\ at' = 0) \/ pc' = "listen"
        BY <1>3, <2>5 DEF EraseSector, EraseDone, Return
      <3>5. QED
        BY <2>3, <3>3, <3>4 DEF CleanErase
    <2>6. QED
      BY <2>4, <2>5
  <1>4. CASE ProgramHeader
    <2>1. CASE pc' = "header"
      <3>1. at \in 0 .. LastField /\ at' = at + 1 /\ pc = "header"
            /\ UNCHANGED <<blockmap, data, pkt>>
        BY <1>4, <2>1 DEF ProgramHeader, Return, PcInv
      <3>2. hdr' = [hdr EXCEPT ![FieldAt(at)] = Proto(pkt.prog)[FieldAt(at)]]
        BY <1>4 DEF ProgramHeader, Programmed
      <3>3. ASSUME NEW k \in 0 .. at' - 1
            PROVE  hdr'[FieldAt(k)] = Proto(pkt.prog)[FieldAt(k)]
        <4>1. FieldAt(k) \in HdrField
          BY <3>1, Fields DEF LastField
        <4>2. CASE k = at
          BY <3>2, <4>1, <4>2 DEF HdrType
        <4>3. CASE k # at
          <5>1. k \in 0 .. at - 1
            BY <3>1, <4>3
          <5>2. hdr[FieldAt(k)] = Proto(pkt.prog)[FieldAt(k)]
            BY <3>1, <5>1 DEF CleanErase
          <5>3. FieldAt(k) # FieldAt(at)
            BY <3>1, <5>1 DEF FieldAt, LastField
          <5>4. QED
            BY <3>2, <4>1, <5>2, <5>3 DEF HdrType
        <4>4. QED
          BY <4>2, <4>3
      <3>4. QED
        BY <2>1, <3>1, <3>3 DEF CleanErase
    <2>2. QED
      BY <1>4, <2>1 DEF ProgramHeader, Return, CleanErase
  <1>5. CASE ProgramMap
    <2>1. blockmap' = [blockmap EXCEPT ![pkt.block] = Zero] /\ UNCHANGED pkt
      BY <1>5 DEF ProgramMap, Programmed
    <2>2. pkt.block \in Block /\ pc' \in {"data", "check"}
      BY <1>5 DEF ProgramMap, PcInv, DataPacket
    <2>3. QED
      BY <2>1, <2>2, MarkAssumption DEF CleanErase, TypeOK
  <1>6. CASE ProgramData
    BY <1>6 DEF ProgramData, CleanErase
  <1>7. CASE UNCHANGED vars
    BY <1>7 DEF vars, CleanErase
  <1>8. CASE IdleNewProgram \/ UpdatingBadMagic \/ CheckBad \/ CheckGarbageLength
    BY <1>1, <1>2, <1>8 DEF IdleNewProgram, UpdatingBadMagic, CheckBad,
       CheckGarbageLength, StartErase, Return
  <1>9. QED
    BY <1>1, <1>3, <1>4, <1>5, <1>6, <1>7, <1>8
       DEF Next, Process, Boot, Receive, IdleIgnore, IdleResume,
           EraseFault, UpdatingIgnore, UpdatingBlock, CheckNotDone,
           CheckGood, UpdatedBoot, FailError, PowerLoss, Restart,
           PowerLossTorn, ProgramComplete, BootToUserApp, Return

(* A block's map entry is cleared before the block is programmed. *)
LEMMA EntryStep == Inv /\ CleanInv /\ [Next]_vars => BlankEntryMeansBlankBlock'
  <1> SUFFICES ASSUME Inv, CleanInv, [Next]_vars, ~FlashFaults, hdr'.magic # Blank
               PROVE  \A b \in Block : blockmap'[b] = Blank =>
                        \A i \in WordsOf(b) : data'[i] = Blank
    BY DEF BlankEntryMeansBlankBlock
  <1> USE DEF Inv, CleanInv
  <1>1. CASE UNCHANGED <<hdr, blockmap, data>>
    BY <1>1 DEF BlankEntryMeansBlankBlock
  <1>2. CASE EraseSector
    BY <1>2 DEF EraseSector, BlankInv, BlankHdr, HdrField
  <1>3. CASE ProgramHeader \/ (PowerLossTorn /\ pc = "header")
    <2>1. data' = [i \in Addr |-> Blank]
      BY <1>3 DEF ProgramHeader, PowerLossTorn, CleanErase
    <2>2. QED
      BY <2>1, WordsOfInAddr
  <1>4. CASE ProgramMap \/ (PowerLossTorn /\ pc = "map")
    <2>1. PICK v \in {Zero, Torn} : blockmap' = [blockmap EXCEPT ![pkt.block] = v]
      BY <1>4 DEF ProgramMap, PowerLossTorn, Programmed
    <2>2. UNCHANGED <<hdr, data>> /\ v # Blank
      BY <1>4, <2>1, MarkAssumption DEF ProgramMap, PowerLossTorn
    <2>3. QED
      BY <2>1, <2>2 DEF BlankEntryMeansBlankBlock, TypeOK
  <1>5. CASE ProgramData \/ (PowerLossTorn /\ pc = "data")
    <2>1. pkt.block \in Block /\ at \in 0 .. BlockWords - 1 /\ blockmap[pkt.block] # Blank
          /\ UNCHANGED <<hdr, blockmap>>
      BY <1>5 DEF ProgramData, PowerLossTorn, PcInv, DataPacket, CleanErase
    <2>2. \A i \in Addr : i # First(pkt.block) + at => data'[i] = data[i]
      BY <1>5 DEF ProgramData, PowerLossTorn, TypeOK
    <2>3. ASSUME NEW b \in Block, blockmap'[b] = Blank, NEW i \in WordsOf(b)
          PROVE  data'[i] = Blank
      <3>1. b # pkt.block /\ data[i] = Blank
        BY <2>1, <2>3 DEF BlankEntryMeansBlankBlock
      <3>2. i # First(pkt.block) + at /\ i \in Addr
        BY <2>1, <3>1, BlocksDisjoint, WordsOfInAddr
      <3>3. QED
        BY <2>2, <3>1, <3>2
    <2>4. QED
      BY <2>3
  <1>6. QED
    BY <1>1, <1>2, <1>3, <1>4, <1>5
       DEF Next, Process, Boot, Receive, IdleIgnore, IdleResume, IdleNewProgram,
           EraseFault, UpdatingBadMagic, UpdatingIgnore, UpdatingBlock, CheckNotDone,
           CheckGood, CheckBad, CheckGarbageLength, UpdatedBoot, FailError, PowerLoss,
           PowerLossTorn, ProgramComplete, flash, vars

(* Without failed commands flash stays clean at every step. *)
LEMMA CleanStep == Inv /\ CleanInv /\ [Next]_vars => CleanInv'
  BY GuidStep, CleanEraseStep, EntryStep DEF CleanInv

(* Hence it is clean always. *)
LEMMA CleanInvariance == Spec => []CleanInv
  BY CleanInit, CleanStep, Invariance, PTL DEF Spec

(* Resuming a transfer by its guid is safe while no flash command fails. *)
THEOREM GuidIdentifiesHeader == Spec => []GuidMeansHeader
  <1>1. CleanInv => GuidMeansHeader
    BY DEF CleanInv, GuidMeansHeader
  <1>2. QED
    BY <1>1, CleanInvariance, PTL

(* No block is programmed twice while no flash command fails. *)
THEOREM BlankEntryIsBlankBlock == Spec => []BlankEntryMeansBlankBlock
  <1>1. CleanInv => BlankEntryMeansBlankBlock
    BY DEF CleanInv, BlankEntryMeansBlankBlock
  <1>2. QED
    BY <1>1, CleanInvariance, PTL
=============================================================================
