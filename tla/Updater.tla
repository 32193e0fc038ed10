------------------------------ MODULE Updater ------------------------------
(***************************************************************************)
(* The over-the-air updater of the ChibiChip boot loader:                  *)
(* orchard/esplanade_updater.c (the packet state machine), the flash       *)
(* commands it issues through orchard/flash.c, and the boot decision of    *)
(* demod_thread in orchard/main.c.                                         *)
(*                                                                         *)
(* One step is one flash command (a sector erase, the programming of one   *)
(* long word) or the code between two commands, so that the power can fail *)
(* between any two commands, and in the middle of a word.  A word that was *)
(* being programmed when the power failed reads as Torn.                   *)
(*                                                                         *)
(* Flash layout: sector 0 starts with a slot of one block for the storage  *)
(* header (program ID, "complete", block map); the program's block b is in *)
(* slot b + 1.                                                             *)
(***************************************************************************)
EXTENDS Integers, FiniteSets

CONSTANTS
  Program,       \* the programs that may be sent; a program stands for its guid
  Size,          \* Size[p]: the "length" of program p, in words
  Image,         \* Image[p][i]: word i of p; padding from word Size[p] on
  AppHeader,     \* AppHeader[i]: what appIsValid requires of word i
  Word,          \* the values of a long word
  Blank,         \* an erased long word, 0xFFFFFFFF; a program word may be blank
  Torn,          \* a long word whose programming was cut short
  None,          \* no packet
  BlockWords,    \* words per block (BLOCK_SIZE / 4)
  BlockMax,      \* highest block number
  SectorBlocks,  \* blocks per sector
  FlashFaults    \* TRUE if a flash command may fail (F_ERR_LOWLEVEL)

Block  == 0 .. BlockMax
Addr   == 0 .. BlockWords * (BlockMax + 1) - 1
Sector == 0 .. (BlockMax + 1) \div SectorBlocks

ASSUME ConstantsAssumption ==
  /\ BlockWords \in Nat \ {0}
  /\ SectorBlocks \in Nat \ {0}
  /\ BlockMax \in Nat
  /\ FlashFaults \in BOOLEAN
  /\ Blank \in Word
  /\ Torn \notin Word
  /\ None \notin [type : {"ctrl"}, prog : Program, ok : BOOLEAN]
  /\ None \notin [type : {"data"}, prog : Program, block : Block, ok : BOOLEAN]

ASSUME ProgramAssumption ==
  /\ Size \in [Program -> 1 .. BlockWords * (BlockMax + 1)]
  /\ Image \in [Program -> [Addr -> Word]]
  /\ Blank \notin Program /\ Torn \notin Program
  /\ DOMAIN AppHeader \subseteq Addr
  /\ \A i \in DOMAIN AppHeader : AppHeader[i] \in Word

(* The program hash is taken to be collision free: it is the hashed words. *)
FullHash(n, d) == [i \in 0 .. n - 1 |-> d[i]]

(* A hash is neither the erased nor a torn word. *)
ASSUME HashAssumption ==
  \A n \in 1 .. BlockWords * (BlockMax + 1), d \in [Addr -> Word \cup {Torn}] :
    FullHash(n, d) \notin {Blank, Torn, None}

Zero  == "zero"     \* 0x00000000, what the block map and complete are set to
Magic == "Chib"     \* STORAGE_MAGIC

ASSUME MarkAssumption == {Zero, Magic} \cap {Blank, Torn} = {}

VARIABLES
  pc,        \* where the boot loader is
  astate,    \* the updater's state
  pkt,       \* the packet being processed, or None while pktReady = 0
  at,        \* the sector, field or word that the flash command is at
  after,     \* what follows the erase in progress
  hdr,       \* flash: the program ID fields of storage_header
  complete,  \* flash: storage_header.complete
  blockmap,  \* flash: storage_header.blockmap
  data       \* flash: the program area

flash == <<hdr, complete, blockmap, data>>
vars  == <<pc, astate, pkt, at, after, hdr, complete, blockmap, data>>

-----------------------------------------------------------------------------
(* Packets, as updaterPacketProcess sees them: ok is the packet's own      *)
(* murmur3 check.  A data packet does not say which program it belongs to. *)

CtrlPacket == [type : {"ctrl"}, prog : Program, ok : BOOLEAN]
DataPacket == [type : {"data"}, prog : Program, block : Block, ok : BOOLEAN]
Packet     == CtrlPacket \cup DataPacket

(* Mutant: the guid is written first. *)
FieldAtGuidFirst(k) == IF k = 0 THEN "guid"
                       ELSE IF k = 1 THEN "magic"
                       ELSE IF k = 2 THEN "fullhash" ELSE "length"

(* The fields of storage_header_ram in the order flashProgram writes them. *)
(* version comes first and is never read; guid is four words long.         *)
HdrField == {"magic", "fullhash", "length", "guid"}
FieldAt(k) == IF k = 0 THEN "magic"
              ELSE IF k = 1 THEN "fullhash"
              ELSE IF k = 2 THEN "length" ELSE "guid"
LastField == 3

Proto(p) == [magic    |-> Magic,
             fullhash |-> FullHash(Size[p], Image[p]),
             length   |-> Size[p],
             guid     |-> p]

BlankHdr == [f \in HdrField |-> Blank]

(* Words of block b; first word of block b. *)
First(b)     == b * BlockWords
WordsOf(b)   == First(b) .. First(b) + BlockWords - 1
BlockOf(i)   == i \div BlockWords
SectorOf(i)  == (BlockOf(i) + 1) \div SectorBlocks
NumBlocks(n) == ((n - 1) \div BlockWords) + 1

AppIsValid == \A i \in DOMAIN AppHeader : data[i] = AppHeader[i]

-----------------------------------------------------------------------------
Init ==
  /\ pc = "boot" /\ astate = "IDLE" /\ pkt = None /\ at = 0 /\ after = "idle"
  /\ hdr = BlankHdr
  /\ complete = Blank
  /\ blockmap = [b \in Block |-> Blank]
  /\ data = [i \in Addr |-> Blank]

(* demod_thread: unless the button is held a valid app runs at once. *)
Boot(held) ==
  /\ pc = "boot"
  /\ pc' = IF ~held /\ AppIsValid THEN "app" ELSE "listen"
  /\ UNCHANGED <<astate, pkt, at, after, flash>>

(* The MAC delivers a packet: pktReady = 1, demod_loop calls the updater. *)
Receive(m) ==
  /\ pc = "listen"
  /\ pkt' = m
  /\ pc' = "process"
  /\ UNCHANGED <<astate, at, after, flash>>

(* Mutant: pktReady is not cleared. *)
ReturnKeepsPacket(s) ==
  /\ astate' = s
  /\ pc' = "listen"
  /\ UNCHANGED pkt
  /\ at' = 0

(* The end of updaterPacketProcess: pktReady = 0. *)
Return(s) ==
  /\ astate' = s
  /\ pc' = "listen"
  /\ pkt' = None
  /\ at' = 0

(* Mutant: the erase starts one sector too late. *)
StartEraseLate(next) ==
  /\ pc' = "erase"
  /\ at' = 1
  /\ after' = next

(* flashEraseSectors(SECTOR_MIN, SECTOR_COUNT) begins. *)
StartErase(next) ==
  /\ pc' = "erase"
  /\ at' = 0
  /\ after' = next

(* bootToUserApp: the thread exits if the app is valid and returns if not; *)
(* both callers then set APP_FAIL.                                         *)
BootToUserApp ==
  IF AppIsValid
    THEN /\ pc' = "app" /\ astate' = "UPDATED" /\ pkt' = None /\ at' = 0
    ELSE Return("FAIL")

-----------------------------------------------------------------------------
(* case APP_IDLE *)

SameProgram == pkt.type = "ctrl" /\ pkt.ok /\ hdr.guid = pkt.prog

(* Mutant: a resend is taken for complete whatever the mark says. *)
IdleResumeUnchecked ==
  /\ pc = "process" /\ astate = "IDLE"
  /\ SameProgram
  /\ Return("UPDATED")
  /\ UNCHANGED <<after, flash>>

IdleIgnore ==
  /\ pc = "process" /\ astate = "IDLE"
  /\ ~(pkt.type = "ctrl" /\ pkt.ok)
  /\ Return("IDLE")
  /\ UNCHANGED <<after, flash>>

IdleResume ==
  /\ pc = "process" /\ astate = "IDLE"
  /\ SameProgram
  /\ Return(IF complete = Blank THEN "UPDATING" ELSE "UPDATED")
  /\ UNCHANGED <<after, flash>>

IdleNewProgram ==
  /\ pc = "process" /\ astate = "IDLE"
  /\ pkt.type = "ctrl" /\ pkt.ok /\ ~SameProgram
  /\ StartErase("header")
  /\ UNCHANGED <<astate, pkt, flash>>

-----------------------------------------------------------------------------
(* Flash commands *)

(* What follows the erase; flashProgram refuses a header that is not blank. *)
EraseDone(h) ==
  \/ /\ after = "header" /\ h = BlankHdr
     /\ pc' = "header" /\ at' = 0 /\ UNCHANGED <<astate, pkt>>
  \/ after = "header" /\ h # BlankHdr /\ Return("UPDATING")
  \/ after = "idle" /\ Return("IDLE")
  \/ after = "fail" /\ Return("FAIL")

(* FTFx_CMD_SECTERASE of sector at.  Sector 0 holds the storage header. *)
EraseSector ==
  /\ pc = "erase"
  /\ data' = [i \in Addr |-> IF SectorOf(i) = at THEN Blank ELSE data[i]]
  /\ IF at = 0
       THEN /\ hdr' = BlankHdr
            /\ complete' = Blank
            /\ blockmap' = [b \in Block |-> Blank]
       ELSE UNCHANGED <<hdr, complete, blockmap>>
  /\ IF at + 1 \in Sector
       THEN at' = at + 1 /\ UNCHANGED <<pc, astate, pkt>>
       ELSE EraseDone(hdr')
  /\ UNCHANGED after

(* A failed erase command ends flashEraseSectors; its result is ignored. *)
EraseFault ==
  /\ FlashFaults
  /\ pc = "erase"
  /\ EraseDone(hdr)
  /\ UNCHANGED <<after, flash>>

(* What a long word that is programmed with v reads as when the command    *)
(* returns: the command may fail half way, and flashProgram goes on.       *)
Programmed(v) == IF FlashFaults THEN {v, Torn, Blank} ELSE {v}

(* init_storage_header: one field per step. *)
ProgramHeader ==
  /\ pc = "header"
  /\ \E v \in Programmed(Proto(pkt.prog)[FieldAt(at)]) :
       hdr' = [hdr EXCEPT ![FieldAt(at)] = v]
  /\ IF at < LastField
       THEN at' = at + 1 /\ UNCHANGED <<pc, astate, pkt>>
       ELSE Return("UPDATING")
  /\ UNCHANGED <<after, complete, blockmap, data>>

-----------------------------------------------------------------------------
(* case APP_UPDATING *)

UpdatingBadMagic ==
  /\ pc = "process" /\ astate = "UPDATING"
  /\ hdr.magic # Magic
  /\ StartErase("idle")
  /\ UNCHANGED <<astate, pkt, flash>>

(* Mutant: the block is programmed before its map entry is cleared. *)
UpdatingBlockDataFirst ==
  /\ pc = "process" /\ astate = "UPDATING"
  /\ hdr.magic = Magic
  /\ pkt.type = "data" /\ pkt.ok
  /\ pc' = IF blockmap[pkt.block] = Blank THEN "data" ELSE "check"
  /\ at' = 0
  /\ UNCHANGED <<astate, pkt, after, flash>>

UpdatingIgnore ==
  /\ pc = "process" /\ astate = "UPDATING"
  /\ hdr.magic = Magic
  /\ ~(pkt.type = "data" /\ pkt.ok)
  /\ Return("UPDATING")
  /\ UNCHANGED <<after, flash>>

UpdatingBlock ==
  /\ pc = "process" /\ astate = "UPDATING"
  /\ hdr.magic = Magic
  /\ pkt.type = "data" /\ pkt.ok
  /\ pc' = IF blockmap[pkt.block] = Blank THEN "map" ELSE "check"
  /\ at' = 0
  /\ UNCHANGED <<astate, pkt, after, flash>>

(* Mutant: flashProgram does not check that the block is blank. *)
ProgramMapNoBlankCheck ==
  /\ pc = "map"
  /\ \E v \in Programmed(Zero) : blockmap' = [blockmap EXCEPT ![pkt.block] = v]
  /\ pc' = "data"
  /\ at' = 0
  /\ UNCHANGED <<astate, pkt, after, hdr, complete, data>>

(* The block map entry is cleared before the block is programmed, and the  *)
(* block is programmed only if all of it is blank (F_ERR_NOTBLANK).        *)
ProgramMap ==
  /\ pc = "map"
  /\ \E v \in Programmed(Zero) : blockmap' = [blockmap EXCEPT ![pkt.block] = v]
  /\ pc' = IF \A i \in WordsOf(pkt.block) : data[i] = Blank
             THEN "data" ELSE "check"
  /\ at' = 0
  /\ UNCHANGED <<astate, pkt, after, hdr, complete, data>>

ProgramData ==
  /\ pc = "data"
  /\ LET i == First(pkt.block) + at
     IN  \E v \in Programmed(Image[pkt.prog][i]) :
           data' = [data EXCEPT ![i] = v]
  /\ IF at + 1 < BlockWords
       THEN at' = at + 1 /\ UNCHANGED pc
       ELSE at' = 0 /\ pc' = "check"
  /\ UNCHANGED <<astate, pkt, after, hdr, complete, blockmap>>

AllDone == \A b \in 0 .. NumBlocks(hdr.length) - 1 : blockmap[b] # Blank

HashMatches == FullHash(hdr.length, data) = hdr.fullhash

LengthReadable == hdr.length \notin {Blank, Torn}

(* Mutant: no full hash check. *)
CheckGoodUnhashed ==
  /\ pc = "check"
  /\ LengthReadable /\ AllDone
  /\ pc' = "complete"
  /\ UNCHANGED <<astate, pkt, at, after, flash>>

CheckNotDone ==
  /\ pc = "check"
  /\ LengthReadable /\ ~AllDone
  /\ Return("UPDATING")
  /\ UNCHANGED <<after, flash>>

(* Mutant: a bad image is reported but not erased. *)
CheckBadKeepsImage ==
  /\ pc = "check"
  /\ LengthReadable /\ AllDone /\ ~HashMatches
  /\ Return("FAIL")
  /\ UNCHANGED <<after, flash>>

CheckGood ==
  /\ pc = "check"
  /\ LengthReadable /\ AllDone /\ HashMatches
  /\ pc' = "complete"
  /\ UNCHANGED <<astate, pkt, at, after, flash>>

CheckBad ==
  /\ pc = "check"
  /\ LengthReadable /\ AllDone /\ ~HashMatches
  /\ StartErase("fail")
  /\ UNCHANGED <<astate, pkt, flash>>

(* After a failed command the length may be any number: the loop over the  *)
(* block map may run off the end of flash (HardFault), find a blank entry, *)
(* or hash a range that is not the program's.                              *)
CheckGarbageLength ==
  /\ pc = "check"
  /\ ~LengthReadable
  /\ \/ pc' = "error" /\ UNCHANGED <<astate, pkt, at, after>>
     \/ hdr.length = Torn /\ Return("UPDATING") /\ UNCHANGED after
     \/ hdr.length = Torn /\ StartErase("fail") /\ UNCHANGED <<astate, pkt>>
  /\ UNCHANGED flash

(* complete is programmed if it is blank, then the app is started. *)
ProgramComplete ==
  /\ pc = "complete"
  /\ complete' \in (IF complete = Blank THEN Programmed(Zero) ELSE {complete})
  /\ BootToUserApp
  /\ UNCHANGED <<after, hdr, blockmap, data>>

-----------------------------------------------------------------------------
(* case APP_UPDATED and case APP_FAIL: any packet will do *)

UpdatedBoot ==
  /\ pc = "process" /\ astate = "UPDATED"
  /\ BootToUserApp
  /\ UNCHANGED <<after, flash>>

FailError ==
  /\ pc = "process" /\ astate = "FAIL"
  /\ pc' = "error"
  /\ UNCHANGED <<astate, pkt, at, after, flash>>

-----------------------------------------------------------------------------
(* Reset or power loss.  RAM is lost; the word being programmed may be     *)
(* torn.  A sector erase that is cut short is taken to leave the sector    *)
(* either as it was or blank.                                              *)

Restart ==
  /\ pc' = "boot" /\ astate' = "IDLE" /\ pkt' = None /\ at' = 0
  /\ after' = "idle"

PowerLoss ==
  /\ pc # "boot"
  /\ Restart
  /\ UNCHANGED flash

PowerLossTorn ==
  /\ Restart
  /\ \/ /\ pc = "header"
        /\ hdr' = [hdr EXCEPT ![FieldAt(at)] = Torn]
        /\ UNCHANGED <<complete, blockmap, data>>
     \/ /\ pc = "map"
        /\ blockmap' = [blockmap EXCEPT ![pkt.block] = Torn]
        /\ UNCHANGED <<hdr, complete, data>>
     \/ /\ pc = "data"
        /\ Image[pkt.prog][First(pkt.block) + at] # Blank
        /\ data' = [data EXCEPT ![First(pkt.block) + at] = Torn]
        /\ UNCHANGED <<hdr, complete, blockmap>>
     \/ /\ pc = "complete" /\ complete = Blank
        /\ complete' = Torn
        /\ UNCHANGED <<hdr, blockmap, data>>

-----------------------------------------------------------------------------
Process ==
  \/ IdleIgnore \/ IdleResume \/ IdleNewProgram
  \/ EraseSector \/ EraseFault \/ ProgramHeader
  \/ UpdatingBadMagic \/ UpdatingIgnore \/ UpdatingBlock
  \/ ProgramMap \/ ProgramData
  \/ CheckNotDone \/ CheckGood \/ CheckBad \/ CheckGarbageLength
  \/ ProgramComplete \/ UpdatedBoot \/ FailError

Next ==
  \/ \E held \in BOOLEAN : Boot(held)
  \/ \E m \in Packet : Receive(m)
  \/ Process
  \/ PowerLoss \/ PowerLossTorn

Spec == Init /\ [][Next]_vars

-----------------------------------------------------------------------------
(* Properties *)

FlashValue == Word \cup {Torn}
Mark       == {Blank, Torn, Zero}

(* Type invariant of the boot loader's registers and of the flash; while   *)
(* the loader listens no packet is pending.                                *)
TypeOK ==
  /\ pc \in {"boot", "listen", "process", "erase", "header", "map", "data",
             "check", "complete", "app", "error"}
  /\ astate \in {"IDLE", "UPDATING", "UPDATED", "FAIL"}
  /\ pkt \in Packet \cup {None}
  /\ pc \in {"boot", "listen"} => pkt = None
  /\ at \in Nat
  /\ after \in {"header", "idle", "fail"}
  /\ DOMAIN hdr = HdrField
  /\ complete \in Mark
  /\ blockmap \in [Block -> Mark]
  /\ data \in [Addr -> FlashValue]

(* The image in flash is all of the program that the header describes. *)
Verified == LengthReadable /\ AllDone /\ HashMatches

(* Whatever the order of packets, power failures and failed flash commands, *)
(* a header marked complete describes the image that is in flash: the mark  *)
(* follows the full hash check, and an erase removes the mark before it     *)
(* touches the rest of the image.                                           *)
CompleteMeansVerified == complete # Blank => Verified

(* Resuming an interrupted transfer on the strength of the guid alone is   *)
(* safe: while no flash command fails, a guid that reads as a program's is *)
(* the last word of a header whose other fields are that program's.        *)
GuidMeansHeader ==
  ~FlashFaults =>
    \A p \in Program : hdr.guid = p => hdr = Proto(p)

(* While no flash command fails, a block whose map entry is blank is blank *)
(* itself in every state in which the updater may act on the entry, so     *)
(* that no block is ever programmed twice: the entry is cleared before the *)
(* block is programmed, and a header is written after a full erase only.   *)
BlankEntryMeansBlankBlock ==
  ~FlashFaults /\ hdr.magic # Blank =>
    \A b \in Block : blockmap[b] = Blank =>
      \A i \in WordsOf(b) : data[i] = Blank

(* A programmed long word is not programmed again before it is erased,     *)
(* even if flash commands fail: flashProgram's blank check covers all of   *)
(* the range before the first word is written.                             *)
NoOverprogram ==
  [][/\ \A i \in Addr : data[i] # Blank => data'[i] \in {data[i], Blank}
     /\ \A b \in Block : blockmap[b] # Blank => blockmap'[b] \in {blockmap[b], Blank}
     /\ \A f \in HdrField : hdr[f] # Blank => hdr'[f] \in {hdr[f], Blank}
     /\ complete # Blank => complete' \in {complete, Blank}]_vars

(* The updater starts an app only if all of its image passed the full hash *)
(* check and the image has a valid app header.                             *)
UpdaterStartsVerifiedApp ==
  [][pc' = "app" /\ pc # "boot" => Verified' /\ AppIsValid']_vars

(* The image that the header declares complete, for the abstract store.    *)
Installed == IF complete = Blank THEN None ELSE FullHash(hdr.length, data)

Store == INSTANCE ProgramStore WITH
           Images    <- {FullHash(Size[p], Image[p]) : p \in Program},
           NoImage   <- None,
           installed <- Installed

(* The updater implements the abstract program store: through every step,  *)
(* power failure and failed flash command the image that counts as         *)
(* installed is one of the programs sent, whole, or none.                  *)
StoreSpec == Store!Spec

(* What esplanade_updater.h says of fullhash: partial programs fail the    *)
(* integrity check, so that no partial program is run.                     *)
RunsVerifiedApp == pc = "app" => Verified
=============================================================================
