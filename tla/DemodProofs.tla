---------------------------- MODULE DemodProofs ----------------------------
(***************************************************************************)
(* Proofs about the demodulator, for every rate, threshold and batch size. *)
(***************************************************************************)
EXTENDS Demod, TLAPS

Inv == TypeOK /\ BitsInBounds /\ LowRateIsTimed /\ HoldoverWithinRun

USE DemodAssumption

(* Half a turn is a natural number, and two halves are at most a turn. *)
LEMMA HalfTurn == Half \in Nat /\ 2 * Half <= One /\ One <= 2 * Half + 1
BY DEF Half

(* The PLL of FSKdemod: one sample moves the phase by baud_incr, give or   *)
(* take baud_pll_adj, and at most one bit is handed on.                    *)
LEMMA PllStep ==
  ASSUME TypeOK, NEW sum \in Sum, BaudPll(sum)
  PROVE  /\ lastsample' \in {0, 1}
         /\ baud_pll' \in 0 .. One - 1
         /\ bits' \in Nat
         /\ bits' * One + baud_pll' <= bits * One + baud_pll + (Incr + Adj)
         /\ bits' * One + baud_pll' >= bits * One + baud_pll + (Incr - Adj)
<1>1. /\ Phase(sum) \in Int
      /\ Phase(sum) <= baud_pll + (Incr + Adj)
      /\ Phase(sum) >= baud_pll + (Incr - Adj)
      /\ Phase(sum) >= 0 /\ Phase(sum) < 2 * One
  BY HalfTurn DEF TypeOK, Phase
<1>2. CASE Phase(sum) >= One
  <2>1. baud_pll' = Phase(sum) - One /\ bits' = bits + 1
    BY <1>2 DEF BaudPll
  <2>2. (bits + 1) * One = bits * One + One
    BY DEF TypeOK
  <2>3. bits' * One + baud_pll' = bits * One + Phase(sum)
    BY <1>1, <2>1, <2>2 DEF TypeOK
  <2> QED
    BY <1>1, <1>2, <2>1, <2>3 DEF BaudPll, NewSample, TypeOK
<1>3. CASE ~(Phase(sum) >= One)
  BY <1>1, <1>3 DEF BaudPll, NewSample, TypeOK
<1> QED BY <1>2, <1>3

(* The bounds on the bits of a batch, at its start. *)
LEMMA EmptyBatch ==
  ASSUME NEW p \in 0 .. One - 1
  PROVE  /\ 0 * One + p <= 0 * (Incr + Adj) + One - 1
         /\ 0 * One + p >= 0 * (Incr - Adj)
OBVIOUS

(* The pilot detector of FSKdemod keeps its counters in range, and the     *)
(* relations between them.                                                 *)
LEMMA PilotStep ==
  ASSUME TypeOK, LowRateIsTimed, HoldoverWithinRun,
         NEW sum \in Sum, TrackPilot(sum)
  PROVE  /\ runcount' \in 0 .. RunCap
         /\ holdover' \in 0 .. HoldoverThresh + 1
         /\ lbr_time' \in 0 .. Holdout
         /\ rate' \in {"HBR", "LBR"}
         /\ LowRateIsTimed' /\ HoldoverWithinRun'
<1>1. RunAfter(sum) \in 0 .. RunCap
  BY DEF RunAfter, RunCap, TypeOK
<1>2. /\ HoldoverAfter(sum) \in 0 .. HoldoverThresh + 1
      /\ HoldoverAfter(sum) > 0 => RunAfter(sum) >= RunThresh
  BY DEF HoldoverAfter, RunAfter, Lost, TypeOK, HoldoverWithinRun, RunCap
<1>3. /\ LbrTimeAfter(sum) \in Nat
      /\ ~HoldoutOver(sum) => LbrTimeAfter(sum) <= Holdout
      /\ LbrTimeAfter(sum) > 0 <=> PilotFound(sum) \/ lbr_time > 0
  BY DEF LbrTimeAfter, HoldoutOver, TypeOK
<1>5. CASE HoldoutOver(sum)
  BY <1>5 DEF TrackPilot, LowRateIsTimed, HoldoverWithinRun, RunCap
<1>6. CASE ~HoldoutOver(sum)
  BY <1>1, <1>2, <1>3, <1>6
     DEF TrackPilot, LowRateIsTimed, HoldoverWithinRun, TypeOK
<1> QED BY <1>5, <1>6

(* Every sample and every batch of phy_demodulate keeps the invariant. *)
LEMMA StepKeepsInv == Inv /\ [Next]_vars => Inv'
<1> SUFFICES ASSUME Inv, [Next]_vars PROVE Inv'
  OBVIOUS
<1> USE DEF Inv
<1>1. ASSUME NEW sum \in Sum, Sample(sum) PROVE Inv'
  <2>1. TrackPilot(sum) /\ BaudPll(sum) /\ n' = n + 1 /\ n < BatchSamples
    BY <1>1 DEF Sample
  <2>2. buf_ptr' \in FilterSize .. 2 * FilterSize - 1
    BY <1>1 DEF Sample, AddToFilter, TypeOK
  <2>3. TypeOK'
    BY <1>1, <2>1, <2>2, PllStep, PilotStep DEF TypeOK, Sample
  <2>4. /\ n' * (Incr + Adj) = n * (Incr + Adj) + (Incr + Adj)
        /\ n' * (Incr - Adj) = n * (Incr - Adj) + (Incr - Adj)
    BY <2>1 DEF TypeOK
  <2>5. BitsInBounds'
    <3>1. /\ bits' * One + baud_pll' <= bits * One + baud_pll + (Incr + Adj)
          /\ bits' * One + baud_pll' >= bits * One + baud_pll + (Incr - Adj)
      BY <2>1, PllStep
    <3> DEFINE p == bits * One + baud_pll
               q == bits' * One + baud_pll'
               u == n * (Incr + Adj)
               w == n * (Incr - Adj)
    <3>2. p \in Int /\ q \in Int /\ u \in Int /\ w \in Int
      BY <2>3 DEF TypeOK
    <3>3. p <= u + One - 1 /\ p >= w
      BY DEF BitsInBounds
    <3>4. n' * (Incr + Adj) = u + (Incr + Adj) /\ n' * (Incr - Adj) = w + (Incr - Adj)
      BY <2>4
    <3>5. q <= p + (Incr + Adj) /\ q >= p + (Incr - Adj)
      BY <3>1
    <3>6. BitsInBounds' <=> /\ q <= n' * (Incr + Adj) + One - 1
                            /\ q >= n' * (Incr - Adj)
      BY DEF BitsInBounds
    <3> HIDE DEF p, q, u, w
    <3> QED BY <3>2, <3>3, <3>4, <3>5, <3>6
  <2> QED BY <2>1, <2>3, <2>5, PilotStep
<1>2. CASE NextBatch
  <2>1. TypeOK' /\ LowRateIsTimed' /\ HoldoverWithinRun'
    BY <1>2 DEF NextBatch, TypeOK, LowRateIsTimed, HoldoverWithinRun
  <2>2. n' = 0 /\ bits' = 0 /\ baud_pll' \in 0 .. One - 1
    BY <1>2 DEF NextBatch, TypeOK
  <2>3. /\ 0 * One + baud_pll' <= 0 * (Incr + Adj) + One - 1
        /\ 0 * One + baud_pll' >= 0 * (Incr - Adj)
    BY <2>2, EmptyBatch
  <2>4. BitsInBounds'
    BY ONLY <2>2, <2>3 DEF BitsInBounds
  <2> QED BY <2>1, <2>4
<1>3. CASE UNCHANGED vars
  BY <1>3 DEF vars, TypeOK, BitsInBounds, LowRateIsTimed, HoldoverWithinRun
<1> QED BY <1>1, <1>2, <1>3 DEF Next

(* The inductive invariant holds of every behaviour of the demodulator. *)
THEOREM Invariance == Spec => []Inv
<1>1. Init => Inv
  BY DEF Init, Inv, TypeOK, BitsInBounds, LowRateIsTimed, HoldoverWithinRun, RunCap
<1> QED BY <1>1, StepKeepsInv, PTL DEF Spec

(* FSKdemod keeps the PLL within one turn, the filter window within its    *)
(* buffer and the hold-out within LBR_HOLDOUT.                             *)
THEOREM TypeCorrect == Spec => []TypeOK
BY Invariance, PTL DEF Inv

(* The bits that a batch hands to the MAC are bounded by the extreme phase *)
(* increments of the PLL, whatever the signal.                             *)
THEOREM BitsBounded == Spec => []BitsInBounds
BY Invariance, PTL DEF Inv

(* The ADC is at the low rate exactly while the hold-out is timed. *)
THEOREM LowRateTimed == Spec => []LowRateIsTimed
BY Invariance, PTL DEF Inv

(* Holdover is counted only within a run past the threshold. *)
THEOREM HoldoverInRun == Spec => []HoldoverWithinRun
BY Invariance, PTL DEF Inv

(* The bound that the MAC relies on: a whole batch carries at most k bits  *)
(* if the fastest phase cannot make k + 1 turns, and one turn is left over.*)
THEOREM BatchFits ==
  ASSUME NEW k \in Nat, Inv, BatchSamples * (Incr + Adj) + One <= (k + 1) * One
  PROVE  bits <= k
<1>1. n * (Incr + Adj) <= BatchSamples * (Incr + Adj)
  BY DEF Inv, TypeOK
<1>2. bits * One < (k + 1) * One
  <2> DEFINE b == bits * One
             u == n * (Incr + Adj)
             w == BatchSamples * (Incr + Adj)
             t == (k + 1) * One
  <2>1. b \in Int /\ u \in Int /\ w \in Int /\ t \in Int
    BY DEF Inv, TypeOK
  <2>2. b + baud_pll <= u + One - 1 /\ baud_pll \in 0 .. One - 1
    BY DEF Inv, BitsInBounds, TypeOK
  <2>3. u <= w /\ w + One <= t
    BY <1>1
  <2> HIDE DEF b, u, w, t
  <2>4. b < t
    BY <2>1, <2>2, <2>3
  <2> QED BY <2>4 DEF b, t
<1>3. ASSUME bits >= k + 1 PROVE FALSE
  <2>1. bits * One >= (k + 1) * One
    BY <1>3 DEF Inv, TypeOK
  <2> QED BY <1>2, <2>1 DEF Inv, TypeOK
<1> QED BY <1>3 DEF Inv, TypeOK
=============================================================================
