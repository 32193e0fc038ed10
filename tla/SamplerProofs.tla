--------------------------- MODULE SamplerProofs ---------------------------
(***************************************************************************)
(* Proofs about the hand-over of samples, for every depth of the buffer,   *)
(* every width of dataReadyFlag, and any time less than that of half a     *)
(* buffer in which a batch is handled.                                     *)
(***************************************************************************)
EXTENDS Sampler, TLAPS

USE SamplerAssumption

(* The half that the interrupt fills, how far it is in it, and the numbers *)
(* of the first sample of this half and of the half before.                *)
Half == IF adc_current_index < N THEN 0 ELSE N
Offset == adc_current_index - Half
First == clock - Offset
Before == IF First = 0 THEN 3 * N ELSE First - N

(* The interrupt has filled a half. *)
Full == bufloc = N - Half

ClockInv == clock \in {adc_current_index, adc_current_index + 2 * N}

(* The double buffer holds the samples of the half that is being filled,   *)
(* up to the present one, and all of the half before.                      *)
BufferInv ==
  /\ \A k \in 0 .. Offset - 1 : mic_sample[Half + k] = First + k
  /\ Full => \A k \in Index : mic_sample[bufloc + k] = Before + k
  /\ Full \/ (clock < N /\ dataReadyFlag = 0 /\ pc = "poll")

(* The time since the batch became ready is the offset of the interrupt in *)
(* the other half, so that the batch is handled before this is full.       *)
TimeInv == since >= 1 /\ Timed => busy = Offset

(* The copy *)
CopyInv ==
  /\ pc \in {"copy", "load"} => i < N
  /\ since >= 1 /\ pc \in {"copy", "load"} => \A k \in 0 .. i - 1 : dm_buf[k] = Before + k
  /\ since >= 1 /\ pc = "load" => ptr = bufloc

(* The batch that was copied is the one of the half before. *)
BatchInv ==
  since >= 1 /\ pc = "process" =>
    /\ dm_buf[0] \in {0, N, 2 * N, 3 * N}
    /\ \A k \in Index : dm_buf[k] = dm_buf[0] + k
    /\ ~slow => dm_buf[0] = Before

(* The batch that comes next goes on where the last one ended. *)
LastInv ==
  since = 2 =>
    /\ pc = "poll" /\ dataReadyFlag = 0 => First = (last + 1) % Wrap
    /\ pc = "poll" /\ dataReadyFlag # 0 => Before = (last + 1) % Wrap
    /\ pc \in {"copy", "load"} => Before = (last + 1) % Wrap
    /\ pc = "process" => dm_buf[0] = (last + 1) % Wrap

Inv == TypeOK /\ ClockInv /\ BufferInv /\ TimeInv /\ CopyInv /\ BatchInv /\ LastInv

-----------------------------------------------------------------------------
(* Counting modulo a number, one step at a time *)
LEMMA CountUp ==
  ASSUME NEW m \in Nat \ {0}, NEW x \in 0 .. m - 1
  PROVE  (x + 1) % m = IF x + 1 = m THEN 0 ELSE x + 1
<1>1. CASE x + 1 = m
  <2>1. m % m = 0
    OBVIOUS
  <2> QED
    BY <1>1, <2>1
<1>2. CASE x + 1 < m
  BY <1>2
<1> QED
  BY <1>1, <1>2

(* Where the interrupt is, in the buffer and in the numbers of the samples *)
LEMMA Places ==
  ASSUME TypeOK, ClockInv
  PROVE  /\ Half \in {0, N} /\ Offset \in Index
         /\ adc_current_index = Half + Offset /\ clock = First + Offset
         /\ First \in {Half, Half + 2 * N}
         /\ Before \in {0, N, 2 * N, 3 * N}
         /\ Before = IF First = 0 THEN 3 * N ELSE First - N
BY DEF TypeOK, ClockInv, Half, Offset, First, Before, Index

(* The numbers of the samples wrap. *)
LEMMA NextClock ==
  ASSUME TypeOK
  PROVE  /\ Wrap \in Nat \ {0} /\ Wrap = 4 * N
         /\ (clock + 1) % Wrap = IF clock + 1 = Wrap THEN 0 ELSE clock + 1
<1>1. Wrap \in Nat \ {0} /\ Wrap = 4 * N
  BY DEF Wrap
<1>2. clock \in 0 .. Wrap - 1
  BY DEF TypeOK
<1> QED
  BY <1>1, <1>2, CountUp

(* analog_fast_isr in the middle of a half *)
LEMMA IsrInside ==
  ASSUME TypeOK, ClockInv, Isr, Offset + 1 < N
  PROVE  /\ adc_current_index' = adc_current_index + 1 /\ clock' = clock + 1
         /\ Half' = Half /\ Offset' = Offset + 1
         /\ First' = First /\ Before' = Before
         /\ UNCHANGED <<bufloc, dataReadyFlag>>
<1>1. adc_current_index + 1 \notin {N, 2 * N}
  BY Places DEF Index
<1>2. adc_current_index' = adc_current_index + 1 /\ UNCHANGED <<bufloc, dataReadyFlag>>
  BY <1>1 DEF Isr, Announce
<1>3. clock + 1 < Wrap
  BY Places DEF Wrap, Index
<1>4. clock' = clock + 1
  BY <1>3, NextClock DEF Isr
<1>5. Half' = Half
  BY <1>2, Places DEF Half, Index
<1> QED
  BY <1>2, <1>4, <1>5, Places DEF Offset, First, Before, Index

(* analog_fast_isr at the end of a half, which becomes the full one *)
LEMMA IsrAtEnd ==
  ASSUME TypeOK, ClockInv, Isr, Offset + 1 = N
  PROVE  /\ Half' = N - Half /\ Offset' = 0 /\ adc_current_index' = N - Half
         /\ clock' = (IF clock + 1 = Wrap THEN 0 ELSE clock + 1)
         /\ First' = (IF First = 3 * N THEN 0 ELSE First + N) /\ Before' = First
         /\ bufloc' = Half
         /\ dataReadyFlag' = (dataReadyFlag + 1) % FlagMod
<1>1. adc_current_index + 1 = Half + N /\ Half + N \in {N, 2 * N}
  BY Places DEF Index
<1>2. /\ bufloc' = Half /\ adc_current_index' = (Half + N) % (2 * N)
      /\ dataReadyFlag' = (dataReadyFlag + 1) % FlagMod
  BY <1>1, Places DEF Isr, Announce
<1>3. (Half + N) % (2 * N) = N - Half
  <2>1. N % (2 * N) = N /\ (2 * N) % (2 * N) = 0
    OBVIOUS
  <2> QED
    BY <2>1, Places
<1>4. clock' = (IF clock + 1 = Wrap THEN 0 ELSE clock + 1)
  BY NextClock DEF Isr
<1>5. Half' = N - Half
  BY <1>2, <1>3, Places DEF Half
<1>6. Offset' = 0
  BY <1>2, <1>3, <1>5, Places DEF Offset
<1>7. First' = (IF First = 3 * N THEN 0 ELSE First + N)
  <2>1. First' = clock'
    BY <1>4, <1>6, Places, NextClock DEF First, Index
  <2>2. clock + 1 = First + N
    BY Places DEF Index
  <2> QED
    BY <1>4, <2>1, <2>2, Places, NextClock
<1>8. Before' = First
  BY <1>7, Places DEF Before
<1> QED
  BY <1>2, <1>3, <1>4, <1>5, <1>6, <1>7, <1>8

-----------------------------------------------------------------------------
(* The first sample goes to the first place of the buffer. *)
LEMMA InitInv == Init => Inv
<1> SUFFICES ASSUME Init PROVE Inv
  OBVIOUS
<1>1. Half = 0 /\ Offset = 0 /\ First = 0
  <2>1. adc_current_index = 0 /\ clock = 0
    BY DEF Init
  <2>2. Half = 0
    BY <2>1 DEF Half
  <2>3. Offset = 0
    BY <2>1, <2>2 DEF Offset
  <2> QED
    BY <2>1, <2>2, <2>3 DEF First
<1>2. TypeOK
  <2>1. 0 \in 0 .. Wrap - 1
    BY DEF Wrap
  <2>2. mic_sample \in [0 .. 2 * N - 1 -> 0 .. Wrap - 1] /\ dm_buf \in [Index -> 0 .. Wrap - 1]
    BY <2>1 DEF Init
  <2>3. 0 \in 0 .. 2 * N - 1 /\ 0 \in 0 .. FlagMod - 1 /\ 0 \in 0 .. Budget /\ 0 \in 0 .. N
    OBVIOUS
  <2>4. /\ adc_current_index \in 0 .. 2 * N - 1 /\ bufloc \in {0, N} /\ ptr \in {0, N}
        /\ dataReadyFlag \in 0 .. FlagMod - 1 /\ clock \in 0 .. Wrap - 1
        /\ i \in 0 .. N /\ busy \in 0 .. Budget /\ last \in 0 .. Wrap - 1
        /\ slow \in BOOLEAN /\ pc = "poll"
    BY <2>1, <2>3, Zenon DEF Init
  <2>5. since \in 0 .. 2
    BY DEF Init
  <2> QED
    BY <2>2, <2>4, <2>5 DEF TypeOK
<1>3. ClockInv /\ BufferInv /\ TimeInv /\ CopyInv /\ BatchInv /\ LastInv
  BY <1>1 DEF Init, ClockInv, BufferInv, TimeInv, Timed, CopyInv, BatchInv, LastInv, Full
<1> QED
  BY <1>2, <1>3 DEF Inv

(* The interrupt writes to the half that nobody reads, and while a batch   *)
(* is handled in time, it does not come to the end of that half.           *)
LEMMA IsrStep == ASSUME Inv, Isr PROVE Inv'
<1> USE DEF Inv
<1> DEFINE a == adc_current_index
<1>0. /\ a \in 0 .. 2 * N - 1 /\ clock \in 0 .. Wrap - 1
      /\ mic_sample' = [mic_sample EXCEPT ![a] = clock]
      /\ UNCHANGED <<pc, i, ptr, dm_buf, slow, last, since>>
  BY DEF TypeOK, Isr
<1>1. /\ Half \in {0, N} /\ Offset \in Index /\ a = Half + Offset /\ clock = First + Offset
      /\ First \in {Half, Half + 2 * N} /\ Before \in {0, N, 2 * N, 3 * N}
  BY Places
<1>2. busy' \in 0 .. Budget
  BY DEF Isr, TypeOK
<1>3. \A k \in 0 .. 2 * N - 1 : mic_sample'[k] = IF k = a THEN clock ELSE mic_sample[k]
  BY <1>0 DEF TypeOK
<1>4. CASE Offset + 1 < N
  <2> USE IsrInside, <1>4
  <2>1. TypeOK'
    <3>1. adc_current_index' \in 0 .. 2 * N - 1 /\ clock' \in 0 .. Wrap - 1
      BY <1>1, NextClock DEF Index
    <3>2. mic_sample' \in [0 .. 2 * N - 1 -> 0 .. Wrap - 1]
      BY <1>0 DEF TypeOK
    <3> QED
      BY <1>0, <1>2, <3>1, <3>2 DEF TypeOK
  <2>2. ClockInv'
    BY <1>1 DEF ClockInv, Index
  <2>3. BufferInv'
    <3>1. ASSUME NEW k \in 0 .. Offset PROVE mic_sample'[Half + k] = First + k
      BY <1>1, <1>3 DEF BufferInv, Index
    <3>2. ASSUME Full, NEW k \in Index PROVE mic_sample'[bufloc + k] = Before + k
      <4>1. bufloc + k \in 0 .. 2 * N - 1 /\ bufloc + k # a
        BY <1>1, <3>2 DEF Full, Index
      <4> QED
        BY <1>3, <3>2, <4>1 DEF BufferInv
    <3>3. Full' <=> Full
      BY DEF Full
    <3>4. (clock < N /\ dataReadyFlag = 0 /\ pc = "poll") /\ ~Full => clock' < N
      BY <1>1 DEF Index
    <3> QED
      BY <1>0, <1>1, <3>1, <3>2, <3>3, <3>4 DEF BufferInv, Index
  <2>4. TimeInv'
    BY <1>0, <1>1 DEF TimeInv, Timed, Isr, Index
  <2>5. CopyInv' /\ BatchInv'
    BY <1>0 DEF CopyInv, BatchInv
  <2>6. LastInv'
    BY <1>0 DEF LastInv
  <2> QED
    BY <2>1, <2>2, <2>3, <2>4, <2>5, <2>6
<1>5. CASE Offset + 1 = N
  <2> USE IsrAtEnd, <1>5
  <2>0. ~(since >= 1 /\ Timed)
    BY <1>1, SMTT(30) DEF TimeInv, Isr, TypeOK
  <2>1. TypeOK'
    <3>1. (dataReadyFlag + 1) % FlagMod \in 0 .. FlagMod - 1
      BY DEF TypeOK
    <3>2. /\ adc_current_index' \in 0 .. 2 * N - 1 /\ clock' \in 0 .. Wrap - 1
          /\ bufloc' \in {0, N}
      BY <1>0, <1>1, NextClock
    <3>3. mic_sample' \in [0 .. 2 * N - 1 -> 0 .. Wrap - 1]
      BY <1>0 DEF TypeOK
    <3> QED
      BY <1>0, <1>2, <3>1, <3>2, <3>3 DEF TypeOK
  <2>2. ClockInv'
    <3>1. clock + 1 = First + N
      BY <1>1 DEF Index
    <3> QED
      BY <1>1, <3>1, NextClock DEF ClockInv
  <2>3. BufferInv'
    <3>1. ASSUME NEW k \in Index PROVE mic_sample'[Half + k] = First + k
      BY <1>1, <1>3 DEF BufferInv, Index
    <3> QED
      BY <1>1, <3>1 DEF BufferInv, Full
  <2>4. TimeInv'
    BY <1>0, <2>0 DEF TimeInv, Timed, Isr
  <2>5. CopyInv' /\ BatchInv'
    BY <1>0, <2>0 DEF CopyInv, BatchInv, Timed, TypeOK
  <2>6. LastInv'
    <3>1. since = 2 /\ pc = "poll" => dataReadyFlag = 0 /\ dataReadyFlag' = 1
      <4>1. 0 \in 0 .. FlagMod - 1 /\ FlagMod \in Nat \ {0} /\ 0 + 1 # FlagMod
        OBVIOUS
      <4>2. (0 + 1) % FlagMod = 1
        BY <4>1, CountUp
      <4> QED
        BY <2>0, <4>2 DEF Timed, TypeOK
    <3> QED
      BY <1>0, <2>0, <3>1 DEF LastInv, Timed, TypeOK
  <2> QED
    BY <2>1, <2>2, <2>3, <2>4, <2>5, <2>6
<1> QED
  BY <1>1, <1>4, <1>5 DEF Index

(* demod_loop finds the flag set. *)
LEMMA PollStep == ASSUME Inv, Poll PROVE Inv'
<1> USE DEF Inv, Poll, isrVars
<1>1. UNCHANGED <<Half, Offset, First, Before, Full>>
  BY DEF Half, Offset, First, Before, Full
<1>2. TypeOK' /\ ClockInv'
  BY DEF TypeOK, ClockInv, Index
<1>3. BufferInv' /\ TimeInv' /\ CopyInv' /\ BatchInv' /\ LastInv'
  BY <1>1 DEF BufferInv, TimeInv, Timed, CopyInv, BatchInv, LastInv
<1> QED
  BY <1>2, <1>3

(* bufloc[i] of demod_loop *)
LEMMA LoadPointerStep == ASSUME Inv, LoadPointer PROVE Inv'
<1> USE DEF Inv, LoadPointer, isrVars
<1>1. UNCHANGED <<Half, Offset, First, Before, Full>>
  BY DEF Half, Offset, First, Before, Full
<1>2. TypeOK' /\ ClockInv'
  BY DEF TypeOK, ClockInv
<1>3. BufferInv' /\ TimeInv' /\ CopyInv' /\ BatchInv' /\ LastInv'
  BY <1>1 DEF BufferInv, TimeInv, Timed, CopyInv, BatchInv, LastInv
<1> QED
  BY <1>2, <1>3

(* The sample that is loaded is the next one of the half before. *)
LEMMA LoadSampleStep == ASSUME Inv, LoadSample PROVE Inv'
<1> USE DEF Inv
<1>0. /\ i \in Index /\ ptr + i \in 0 .. 2 * N - 1
      /\ Before \in {0, N, 2 * N, 3 * N}
  <2>1. i \in Index
    BY DEF CopyInv, LoadSample, TypeOK, Index
  <2>2. ptr \in {0, N}
    BY DEF TypeOK
  <2> QED
    BY <2>1, <2>2, Places DEF Index
<1>1. UNCHANGED <<Half, Offset, First, Before, Full>>
  BY DEF LoadSample, isrVars, Half, Offset, First, Before, Full
<1>2. /\ dm_buf' \in [Index -> 0 .. Wrap - 1]
      /\ \A k \in Index : dm_buf'[k] = IF k = i THEN mic_sample[ptr + i] ELSE dm_buf[k]
  BY <1>0 DEF LoadSample, TypeOK
<1>3. slow' \in BOOLEAN /\ pc' = (IF i + 1 < N THEN "copy" ELSE "process") /\ i' = i + 1
  BY DEF LoadSample, TypeOK
<1>4. TypeOK' /\ ClockInv'
  BY <1>0, <1>2, <1>3, SMTT(30) DEF LoadSample, isrVars, TypeOK, ClockInv, Index
<1>5. BufferInv' /\ TimeInv'
  BY <1>1, <1>3 DEF LoadSample, isrVars, BufferInv, TimeInv, Timed
<1>6. ASSUME since >= 1, NEW k \in 0 .. i PROVE dm_buf'[k] = Before + k
  <2>1. mic_sample[ptr + i] = Before + i
    BY <1>0, <1>6 DEF BufferInv, CopyInv, LoadSample
  <2> QED
    BY <1>0, <1>2, <1>6, <2>1, SMTT(30) DEF CopyInv, LoadSample, Index
<1>7. CopyInv'
  BY <1>0, <1>1, <1>3, <1>6 DEF CopyInv, LoadSample, Index
<1>8. BatchInv'
  <2> SUFFICES ASSUME since >= 1, pc' = "process"
               PROVE  /\ dm_buf'[0] = Before
                      /\ \A k \in Index : dm_buf'[k] = Before + k
    BY <1>0, <1>1 DEF BatchInv, LoadSample, TypeOK
  <2>1. i = N - 1
    BY <1>0, <1>3 DEF Index
  <2> QED
    BY <1>0, <1>6, <2>1 DEF Index
<1>9. LastInv'
  <2>1. since >= 1 => dm_buf'[0] = Before
    BY <1>0, <1>6 DEF Index
  <2> QED
    BY <1>1, <1>3, <2>1 DEF LastInv, LoadSample
<1> QED
  BY <1>4, <1>5, <1>7, <1>8, <1>9

(* phy_demodulate clears the flag.  If it did not take too long, nothing   *)
(* became ready since the batch did.                                       *)
LEMMA ProcessStep == ASSUME Inv, Process PROVE Inv'
<1> USE DEF Inv, Process, isrVars
<1>1. UNCHANGED <<Half, Offset, First, Before, Full>>
  BY DEF Half, Offset, First, Before, Full
<1>2. TypeOK' /\ ClockInv'
  <2>1. dm_buf[N - 1] \in 0 .. Wrap - 1
    BY DEF TypeOK, Index
  <2>2. since' \in 0 .. 2
    BY DEF TypeOK
  <2>3. dataReadyFlag' \in 0 .. FlagMod - 1 /\ busy' \in 0 .. Budget
    OBVIOUS
  <2> QED
    BY <2>1, <2>2, <2>3 DEF TypeOK, ClockInv
<1>3. BufferInv' /\ TimeInv' /\ CopyInv' /\ BatchInv'
  BY <1>1 DEF BufferInv, TimeInv, Timed, CopyInv, BatchInv
<1>4. LastInv'
  <2> SUFFICES ASSUME since' = 2 PROVE First = (last' + 1) % Wrap
    BY <1>1 DEF LastInv
  <2>1. since >= 1 /\ ~slow
    BY DEF TypeOK
  <2>2. last' = Before + (N - 1)
    BY <2>1 DEF BatchInv, Index
  <2>3. /\ First \in {0, N, 2 * N, 3 * N}
        /\ Before = IF First = 0 THEN 3 * N ELSE First - N
    BY Places
  <2>4. last' \in 0 .. Wrap - 1 /\ Wrap \in Nat \ {0}
    BY <1>2 DEF TypeOK, Wrap
  <2>5. (last' + 1) % Wrap = IF last' + 1 = Wrap THEN 0 ELSE last' + 1
    BY <2>4, CountUp
  <2> QED
    BY <2>2, <2>3, <2>5 DEF Wrap
<1> QED
  BY <1>2, <1>3, <1>4

(* updaterPacketProcess takes its time, and the next batch may be torn. *)
LEMMA PacketStep == ASSUME Inv, Packet PROVE Inv'
<1> USE DEF Inv, Packet, isrVars
<1>1. UNCHANGED <<Half, Offset, First, Before, Full>>
  BY DEF Half, Offset, First, Before, Full
<1>2. TypeOK' /\ ClockInv'
  BY DEF TypeOK, ClockInv
<1>3. BufferInv' /\ TimeInv' /\ CopyInv' /\ BatchInv' /\ LastInv'
  BY <1>1 DEF BufferInv, TimeInv, Timed, CopyInv, BatchInv, LastInv
<1> QED
  BY <1>2, <1>3

(* All steps of the interrupt and of demod_loop keep the invariant. *)
LEMMA InvStep == Inv /\ [Next]_vars => Inv'
<1> SUFFICES ASSUME Inv, [Next]_vars PROVE Inv'
  OBVIOUS
<1>1. CASE UNCHANGED vars
  BY <1>1 DEF Inv, vars, isrVars, TypeOK, ClockInv, BufferInv, TimeInv, Timed, CopyInv,
              BatchInv, LastInv, Half, Offset, First, Before, Full
<1> QED
  BY <1>1, IsrStep, PollStep, LoadPointerStep, LoadSampleStep, ProcessStep, PacketStep DEF Next

(* Every state of the buffer, the interrupt and the loop is good. *)
LEMMA Invariance == Spec => []Inv
BY InitInv, InvStep, PTL DEF Spec

-----------------------------------------------------------------------------
(* analog_fast_isr stays inside the double buffer, and demod_loop inside   *)
(* its copy.                                                               *)
THEOREM TypeCorrect == Spec => []TypeOK
<1>1. Inv => TypeOK
  BY DEF Inv
<1> QED BY <1>1, Invariance, PTL

(* The copy of demod_loop takes no lock and still is a row of consecutive  *)
(* samples, for a buffer of any depth.                                     *)
THEOREM CopyIsWhole == Spec => []BatchIsWhole
<1>1. Inv => BatchIsWhole
  <2> SUFFICES ASSUME Inv, pc = "process", since >= 1, NEW k \in Index \ {0}
               PROVE  dm_buf[k] = (dm_buf[k - 1] + 1) % Wrap
    BY DEF BatchIsWhole
  <2>1. /\ dm_buf[0] \in {0, N, 2 * N, 3 * N}
        /\ dm_buf[k - 1] = dm_buf[0] + (k - 1) /\ dm_buf[k] = dm_buf[0] + k
    BY DEF Inv, BatchInv, Index
  <2>2. dm_buf[0] + (k - 1) \in 0 .. Wrap - 1 /\ dm_buf[0] + k < Wrap
    BY <2>1 DEF Index, Wrap
  <2>3. (dm_buf[0] + (k - 1) + 1) % Wrap = dm_buf[0] + k
    BY <2>1, <2>2, CountUp DEF Index, Wrap
  <2> QED
    BY <2>1, <2>3
<1> QED BY <1>1, Invariance, PTL

(* Clearing dataReadyFlag in phy_demodulate never drops a half that became *)
(* full in the meantime, whatever the width of the flag.                   *)
THEOREM NoneDropped == Spec => []NoBatchLost
<1>1. Inv => NoBatchLost
  BY DEF Inv, LastInv, NoBatchLost
<1> QED BY <1>1, Invariance, PTL
=============================================================================
