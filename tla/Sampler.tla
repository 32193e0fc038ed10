------------------------------ MODULE Sampler ------------------------------
(***************************************************************************)
(* The hand-over of microphone samples from the ADC interrupt,             *)
(* analog_fast_isr of orchard/esplanade_analog.c, to the boot loader's     *)
(* thread, demod_loop and phy_demodulate of orchard/main.c.  They share    *)
(* the double buffer mic_sample, the pointer bufloc to its full half and   *)
(* the counter dataReadyFlag, with no lock.                                *)
(*                                                                         *)
(* A sample is its number modulo Wrap.  Time is counted in samples: a      *)
(* batch is polled, copied and demodulated within Budget of them, unless   *)
(* demodulating it prints to the serial port (slow); a packet takes any    *)
(* time.                                                                   *)
(***************************************************************************)
EXTENDS Integers

CONSTANTS
  N,         \* DMBUF_DEPTH, the samples of one half
  Budget,    \* time within which a batch is handled
  FlagMod    \* dataReadyFlag counts modulo this

Wrap == 4 * N
Index == 0 .. N - 1

ASSUME SamplerAssumption ==
  /\ N \in Nat \ {0} /\ Budget \in Nat /\ FlagMod \in Nat \ {0, 1}
  /\ Budget < N

VARIABLES
  mic_sample,         \* the double buffer
  adc_current_index,
  bufloc,             \* offset of the half that bufloc points to
  dataReadyFlag,
  clock,              \* number of the next sample
  pc, i, ptr, dm_buf, \* the thread: its place, its index, a pointer it loaded
  slow,               \* demodulating the batch takes any time
  busy,               \* time since the batch became ready to the thread
  last,               \* number of the last sample demodulated
  since               \* batches since the thread was held up; 2 means any more

isrVars == <<mic_sample, adc_current_index, bufloc, clock>>
vars == <<isrVars, dataReadyFlag, pc, i, ptr, dm_buf, slow, busy, last, since>>

Init ==
  /\ mic_sample = [k \in 0 .. 2 * N - 1 |-> 0]
  /\ adc_current_index = 0 /\ bufloc = 0 /\ dataReadyFlag = 0
  /\ clock = 0
  /\ pc = "poll" /\ i = 0 /\ ptr = 0
  /\ dm_buf = [k \in Index |-> 0]
  /\ slow = FALSE /\ busy = 0
  /\ last = 0 /\ since = 1

-----------------------------------------------------------------------------
(* The thread is at work on a batch, in bounded time. *)
Timed ==
  \/ pc = "poll" /\ dataReadyFlag # 0
  \/ pc \in {"copy", "load"}
  \/ pc = "process" /\ ~slow

(* Mutant: the first half is announced when its last sample is still due. *)
AnnounceEarly(index) ==
  IF index = 2 * N
    THEN bufloc' = N /\ adc_current_index' = 0
         /\ dataReadyFlag' = (dataReadyFlag + 1) % FlagMod
    ELSE IF index = N - 1
      THEN bufloc' = 0 /\ adc_current_index' = index
           /\ dataReadyFlag' = (dataReadyFlag + 1) % FlagMod
      ELSE adc_current_index' = index /\ UNCHANGED <<bufloc, dataReadyFlag>>

(* The half that is full now, if one is, goes to the thread. *)
Announce(index) ==
  IF index \in {N, 2 * N}
    THEN /\ bufloc' = index - N
         /\ adc_current_index' = index % (2 * N)
         /\ dataReadyFlag' = (dataReadyFlag + 1) % FlagMod
    ELSE adc_current_index' = index /\ UNCHANGED <<bufloc, dataReadyFlag>>

(* analog_fast_isr *)
Isr ==
  /\ Timed => busy < Budget
  /\ mic_sample' = [mic_sample EXCEPT ![adc_current_index] = clock]
  /\ clock' = (clock + 1) % Wrap
  /\ Announce(adc_current_index + 1)
  /\ busy' = IF Timed THEN busy + 1 ELSE 0
  /\ UNCHANGED <<pc, i, ptr, dm_buf, slow, last, since>>

-----------------------------------------------------------------------------
(* demod_loop: if (dataReadyFlag) *)
Poll ==
  /\ pc = "poll" /\ dataReadyFlag # 0
  /\ pc' = "copy" /\ i' = 0
  /\ UNCHANGED <<isrVars, dataReadyFlag, ptr, dm_buf, slow, busy, last, since>>

(* bufloc[i]: the pointer is volatile and loaded anew for every sample. *)
LoadPointer ==
  /\ pc = "copy"
  /\ ptr' = bufloc
  /\ pc' = "load"
  /\ UNCHANGED <<isrVars, dataReadyFlag, i, dm_buf, slow, busy, last, since>>

LoadSample ==
  /\ pc = "load"
  /\ dm_buf' = [dm_buf EXCEPT ![i] = mic_sample[ptr + i]]
  /\ i' = i + 1
  /\ IF i + 1 < N
       THEN pc' = "copy" /\ UNCHANGED slow
       ELSE pc' = "process" /\ slow' \in BOOLEAN
  /\ UNCHANGED <<isrVars, dataReadyFlag, ptr, busy, last, since>>

(* Mutant: the flag counts down instead of being cleared. *)
ProcessCountsDown ==
  /\ pc = "process"
  /\ dataReadyFlag' = (dataReadyFlag + FlagMod - 1) % FlagMod
  /\ pc' \in {"poll", "packet"}
  /\ last' = dm_buf[N - 1]
  /\ since' = IF slow THEN 0 ELSE IF since < 2 THEN since + 1 ELSE since
  /\ slow' = FALSE /\ busy' = 0
  /\ UNCHANGED <<isrVars, i, ptr, dm_buf>>

(* phy_demodulate: the batch is demodulated, which may complete a packet,  *)
(* and the flag is cleared.                                                *)
Process ==
  /\ pc = "process"
  /\ dataReadyFlag' = 0
  /\ pc' \in {"poll", "packet"}
  /\ last' = dm_buf[N - 1]
  /\ since' = IF slow THEN 0 ELSE IF since < 2 THEN since + 1 ELSE since
  /\ slow' = FALSE /\ busy' = 0
  /\ UNCHANGED <<isrVars, i, ptr, dm_buf>>

(* updaterPacketProcess, and back to the loop. *)
Packet ==
  /\ pc = "packet"
  /\ pc' = "poll" /\ since' = 0 /\ busy' = 0
  /\ UNCHANGED <<isrVars, dataReadyFlag, i, ptr, dm_buf, slow, last>>

Next == Isr \/ Poll \/ LoadPointer \/ LoadSample \/ Process \/ Packet

Spec == Init /\ [][Next]_vars

-----------------------------------------------------------------------------
(* Type invariant; the interrupt stays inside the double buffer. *)
TypeOK ==
  /\ mic_sample \in [0 .. 2 * N - 1 -> 0 .. Wrap - 1]
  /\ adc_current_index \in 0 .. 2 * N - 1
  /\ bufloc \in {0, N} /\ ptr \in {0, N}
  /\ dataReadyFlag \in 0 .. FlagMod - 1
  /\ clock \in 0 .. Wrap - 1
  /\ pc \in {"poll", "copy", "load", "process", "packet"}
  /\ i \in 0 .. N
  /\ dm_buf \in [Index -> 0 .. Wrap - 1]
  /\ slow \in BOOLEAN
  /\ busy \in 0 .. Budget
  /\ last \in 0 .. Wrap - 1
  /\ since \in 0 .. 2

(* The batch that is demodulated is N samples in a row, although the copy  *)
(* takes no lock and dataReadyFlag can be set, counted past its width or   *)
(* cleared at any time; only the batch right after the thread was held up  *)
(* may be torn.                                                            *)
BatchIsWhole ==
  pc = "process" /\ since >= 1
    => \A k \in Index \ {0} : dm_buf[k] = (dm_buf[k - 1] + 1) % Wrap

(* From the second batch on after the thread was held up, no batch is      *)
(* lost, repeated or taken out of order: clearing the flag never drops a   *)
(* half that became full in the meantime.                                  *)
NoBatchLost ==
  pc = "process" /\ since = 2 => dm_buf[0] = (last + 1) % Wrap
=============================================================================
