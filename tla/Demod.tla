------------------------------- MODULE Demod -------------------------------
(***************************************************************************)
(* The demodulator, FSKdemod of orchard/esplanade_demod.c, one action per  *)
(* sample: the ring of filter samples, the detector of the low bit rate    *)
(* (LBR) pilot tone, and the baud PLL that decides when a bit is handed to *)
(* the MAC.  phy_demodulate of orchard/main.c runs it over batches of      *)
(* NB_FRAMES * NB_SAMPLES samples.                                         *)
(*                                                                         *)
(* The correlation FSK_core is abstracted to the sign of its result: a sum *)
(* of zero counts as a 1 for the pilot tone and as a 0 for the bit stream. *)
(***************************************************************************)
EXTENDS Integers

CONSTANTS
  One,           \* a full turn of the PLL, 0x10000
  Incr,          \* baud_incr
  Adj,           \* baud_pll_adj
  FilterSize,    \* FSK_FILTER_SIZE
  RunThresh,     \* RUN_THRESH
  HoldoverThresh,\* HOLDOVER_THRESH
  Holdout,       \* LBR_HOLDOUT
  BatchSamples   \* NB_FRAMES * NB_SAMPLES

Half == One \div 2

ASSUME DemodAssumption ==
  /\ One \in Nat /\ One >= 2 /\ Incr \in Nat \ {0} /\ Adj \in Nat
  /\ Adj < Incr /\ Incr + Adj <= Half
  /\ FilterSize \in Nat \ {0}
  /\ RunThresh \in Nat \ {0} /\ HoldoverThresh \in Nat /\ Holdout \in Nat \ {0}
  /\ BatchSamples \in Nat \ {0}

VARIABLES
  buf_ptr,      \* next free place of filter_buf
  runcount,     \* zeros of the pilot tone; all values above RunThresh are one
  holdover,     \* ones tolerated since the run passed RunThresh
  lbr_time,     \* samples since LBR was entered, 0 in HBR
  rate,         \* the conversion group that the ADC runs with
  lastsample,   \* the sign of the last sample
  baud_pll,
  appIdle,      \* astate = APP_IDLE
  n, bits       \* samples and bits of the current batch so far

vars == <<buf_ptr, runcount, holdover, lbr_time, rate, lastsample, baud_pll,
          appIdle, n, bits>>

Sum == {"negative", "zero", "positive"}
RunCap == RunThresh + 1

(* demodInit, and the conversion group of analogUpdateMic *)
Init ==
  /\ buf_ptr = FilterSize
  /\ runcount = 0 /\ holdover = 0 /\ lbr_time = 0 /\ rate = "HBR"
  /\ lastsample = 0 /\ baud_pll = 0
  /\ appIdle = TRUE
  /\ n = 0 /\ bits = 0

-----------------------------------------------------------------------------
(* Mutant: the comparison comes before the increment. *)
AddToFilterLate ==
  buf_ptr' = IF buf_ptr = 2 * FilterSize THEN FilterSize ELSE buf_ptr + 1

(* A full buffer is moved down so that FilterSize samples stay in it. *)
AddToFilter ==
  buf_ptr' = IF buf_ptr + 1 = 2 * FilterSize THEN FilterSize ELSE buf_ptr + 1

(* The ratio of zeros to ones. *)
Lost == runcount < RunThresh \/ holdover > HoldoverThresh

RunAfter(sum) ==
  IF sum = "negative" THEN (IF runcount < RunCap THEN runcount + 1 ELSE RunCap)
  ELSE IF Lost THEN 0 ELSE runcount

(* Mutant: a lost run keeps its holdover. *)
HoldoverAfterKept(sum) ==
  IF sum = "negative" \/ Lost THEN holdover ELSE holdover + 1

HoldoverAfter(sum) ==
  IF sum = "negative" THEN holdover
  ELSE IF Lost THEN 0 ELSE holdover + 1

(* runcount == RUN_THRESH: enter LBR, whatever the rate is now. *)
PilotFound(sum) == RunAfter(sum) = RunThresh

(* lbr_time advances while the updater waits for a control packet. *)
LbrTimeAfter(sum) ==
  LET t == IF PilotFound(sum) THEN 1 ELSE lbr_time
  IN  IF appIdle /\ t > 0 THEN t + 1 ELSE t

HoldoutOver(sum) == appIdle /\ LbrTimeAfter(sum) > Holdout

(* Mutant: the end of the hold-out does not restart the ADC. *)
TrackPilotStuck(sum) ==
  IF HoldoutOver(sum)
    THEN /\ runcount' = 0 /\ holdover' = 0 /\ lbr_time' = 0
         /\ UNCHANGED rate
    ELSE /\ runcount' = RunAfter(sum)
         /\ holdover' = HoldoverAfter(sum)
         /\ lbr_time' = LbrTimeAfter(sum)
         /\ rate' = IF PilotFound(sum) THEN "LBR" ELSE rate

TrackPilot(sum) ==
  IF HoldoutOver(sum)
    THEN /\ runcount' = 0 /\ holdover' = 0 /\ lbr_time' = 0
         /\ rate' = "HBR"
    ELSE /\ runcount' = RunAfter(sum)
         /\ holdover' = HoldoverAfter(sum)
         /\ lbr_time' = LbrTimeAfter(sum)
         /\ rate' = IF PilotFound(sum) THEN "LBR" ELSE rate

(* A transition pulls the phase towards the middle of the bit. *)
NewSample(sum) == IF sum = "positive" THEN 1 ELSE 0

(* Mutant: the phase is pulled by baud_incr. *)
PhaseStalls(sum) ==
  LET nudge == IF NewSample(sum) = lastsample THEN 0
               ELSE IF baud_pll < Half THEN Incr ELSE -Incr
  IN  baud_pll + nudge + Incr

Phase(sum) ==
  LET nudge == IF NewSample(sum) = lastsample THEN 0
               ELSE IF baud_pll < Half THEN Adj ELSE -Adj
  IN  baud_pll + nudge + Incr

BaudPll(sum) ==
  /\ lastsample' = NewSample(sum)
  /\ IF Phase(sum) >= One
       THEN baud_pll' = Phase(sum) - One /\ bits' = bits + 1
       ELSE baud_pll' = Phase(sum) /\ UNCHANGED bits

(* One turn of the loop of FSKdemod. *)
Sample(sum) ==
  /\ n < BatchSamples
  /\ AddToFilter
  /\ TrackPilot(sum)
  /\ BaudPll(sum)
  /\ n' = n + 1
  /\ UNCHANGED appIdle

(* Between batches the updater may process a packet and change its state. *)
NextBatch ==
  /\ n = BatchSamples
  /\ n' = 0 /\ bits' = 0
  /\ appIdle' \in BOOLEAN
  /\ UNCHANGED <<buf_ptr, runcount, holdover, lbr_time, rate, lastsample, baud_pll>>

Next == NextBatch \/ \E sum \in Sum : Sample(sum)

Spec == Init /\ [][Next]_vars

-----------------------------------------------------------------------------
(* Type invariant; the PLL stays within one turn and the filter window     *)
(* within its buffer.                                                      *)
TypeOK ==
  /\ buf_ptr \in FilterSize .. 2 * FilterSize - 1
  /\ runcount \in 0 .. RunCap
  /\ holdover \in 0 .. HoldoverThresh + 1
  /\ lbr_time \in 0 .. Holdout
  /\ rate \in {"HBR", "LBR"}
  /\ lastsample \in {0, 1}
  /\ baud_pll \in 0 .. One - 1
  /\ appIdle \in BOOLEAN
  /\ n \in 0 .. BatchSamples
  /\ bits \in Nat

(* However often the signal changes, and so pulls the PLL, the bits of a   *)
(* batch are within the bounds that the two extreme phase increments give. *)
BitsInBounds ==
  /\ bits * One + baud_pll <= n * (Incr + Adj) + One - 1
  /\ bits * One + baud_pll >= n * (Incr - Adj)

(* The ADC runs at the low rate exactly while the hold-out is timed, so    *)
(* that no order of pilot tones, glitches and packets leaves the receiver  *)
(* at the low rate with no timeout pending.                                *)
LowRateIsTimed == rate = "LBR" <=> lbr_time > 0

(* Ones are held over only within a run that has passed the threshold: a   *)
(* later preamble starts with its full tolerance.                          *)
HoldoverWithinRun == holdover > 0 => runcount >= RunThresh
=============================================================================
