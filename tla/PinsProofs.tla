----------------------------- MODULE PinsProofs -----------------------------
(***************************************************************************)
(* Proofs about the pins, for every length of the cycle, every range and   *)
(* set of values of analogWrite and every set of periods of the tones.     *)
(***************************************************************************)
EXTENDS Pins, TLAPS

USE SoftPwmAssumption, PinsAssumption

(* What a call was made with stays at hand until it returns. *)
ArgOK ==
  /\ pc = "round" => arg \in Pin \X Values
  /\ pc = "write" => arg \in Pin \X BOOLEAN \X BOOLEAN

(* The state of the tones *)
ToneOK ==
  /\ lptmr_running \in BOOLEAN /\ counting \in BOOLEAN /\ tcf \in BOOLEAN
  /\ lptmr_pad \in TonePin \cup {NoPin} /\ tone_timer \in Name \cup {NoPin}
  /\ lptmr_rate \in Rate /\ cmr \in Rate
  /\ tpc \in {"app", "start", "setup", "enable", "arm", "disable", "low"}
  /\ tpc \in {"start", "setup", "enable", "arm"} => targ \in Name \X BOOLEAN
  /\ tpc \in {"disable", "low"} => targ[1] \in Name

(* The tick's interrupt is on whenever the driver thinks so, but for the   *)
(* moment in which soft_pwm_start turns it on.  The tick does not come in  *)
(* that moment, and so cannot unhook what is being hooked.                 *)
DeviceInv ==
  /\ attached = running
  /\ pc = "enable" => running /\ ~enabled
  /\ pc # "enable" => enabled = running

(* A pin that a level is held on, or is about to be, has no threshold. *)
HeldIsOff ==
  /\ \A p \in Pin : held[p] # Free => soft_pwm[p] = Off
  /\ pc = "write" => arg[3] \/ soft_pwm[arg[1]] = Off

(* The period is stored before the timer is set up, the timer is set up    *)
(* before it counts, and it counts as long as its interrupt is requested.  *)
SetUpInv ==
  /\ tcf => counting
  /\ lptmr_pad # NoPin \/ tpc \in {"start", "setup"} => lptmr_rate # 0
  /\ tpc = "enable" => lptmr_pad # NoPin /\ cmr # 0

PwmInv ==
  TypeOK /\ ArgOK /\ DeviceInv /\ HeldIsOff /\ NotStranded /\ DutyCycle /\ LowStays
ToneInv == ToneOK /\ SetUpInv /\ EnabledIsSetUp
Inv == PwmInv /\ ToneInv

-----------------------------------------------------------------------------
(* The value of analogWrite is clamped and scaled to a threshold within    *)
(* the cycle.                                                              *)
LEMMA ThresholdFits == \A x \in Int : Truncated(x) \in 0 .. Cycle - 1
<1> SUFFICES ASSUME NEW x \in Int PROVE Truncated(x) \in 0 .. Cycle - 1
  OBVIOUS
<1>1. Clamp(x) \in 0 .. Range - 1
  BY DEF Clamp
<1> DEFINE product == Clamp(x) * Cycle
<1>2. product \in Nat /\ product <= (Range - 1) * Cycle
  BY <1>1
<1>3. (Range - 1) * Cycle = Range * Cycle - Cycle
  OBVIOUS
<1>4. product \in Nat /\ product < Range * Cycle
  BY <1>2, <1>3
<1> HIDE DEF product
<1>5. product \div Range \in 0 .. Cycle - 1
  BY <1>4
<1> QED
  BY <1>5 DEF Truncated, product

(* Steps of the tones that leave the pads alone do not concern the PWM. *)
LEMMA PwmKept == PwmInv /\ UNCHANGED <<pwm, level>> => PwmInv'
BY DEF PwmInv, pwm, thread, device, TypeOK, ArgOK, DeviceInv, HeldIsOff,
       NotStranded, DutyCycle, LowStays, Unused

(* Steps of the PWM do not concern the tones. *)
LEMMA ToneKept == ToneInv /\ UNCHANGED tone => ToneInv'
BY DEF ToneInv, tone, ToneOK, SetUpInv, EnabledIsSetUp

(* Before the first call nothing drives a pin. *)
LEMMA InitInv == PinsInit => Inv
<1> SUFFICES ASSUME PinsInit PROVE Inv
  OBVIOUS
<1> USE DEF PinsInit, Init, Off
<1>1. TypeOK
  <2>1. soft_pwm \in [Pin -> Off .. Cycle - 1] /\ counter \in 1 .. Cycle
    OBVIOUS
  <2>2. /\ settled \in [Pin -> BOOLEAN] /\ level \in [Pin -> BOOLEAN]
        /\ held \in [Pin -> BOOLEAN \cup {Free}]
    OBVIOUS
  <2> QED
    BY <2>1, <2>2 DEF TypeOK
<1>2. ArgOK /\ DeviceInv /\ HeldIsOff
  BY DEF ArgOK, DeviceInv, HeldIsOff
<1>3. NotStranded
  BY DEF NotStranded, Unused
<1>4. DutyCycle /\ LowStays
  BY DEF DutyCycle, LowStays
<1>5. ToneInv
  BY DEF ToneInv, T!Init, ToneOK, SetUpInv, EnabledIsSetUp
<1> QED
  BY <1>1, <1>2, <1>3, <1>4, <1>5 DEF Inv, PwmInv

-----------------------------------------------------------------------------
(* The calls of the soft PWM and of digitalWrite keep what holds of the    *)
(* pins.                                                                   *)
LEMMA AnalogWriteStep ==
  ASSUME PwmInv, NEW p \in Pin, NEW x \in Values, AnalogWrite(p, x)
  PROVE  PwmInv'
<1> USE DEF PwmInv, AnalogWrite, SetPwm, device, Off
<1>1. Truncated(x) \in 0 .. Cycle - 1
  BY ThresholdFits
<1>2. TypeOK'
  BY <1>1 DEF TypeOK
<1>3. ArgOK' /\ DeviceInv'
  BY DEF ArgOK, DeviceInv
<1>4. HeldIsOff' /\ NotStranded'
  BY DEF HeldIsOff, NotStranded, TypeOK
<1>5. DutyCycle' /\ LowStays'
  BY DEF DutyCycle, LowStays, TypeOK
<1> QED
  BY <1>2, <1>3, <1>4, <1>5

(* analogWrite rounds a threshold of 0 up to 1. *)
LEMMA RoundUpStep == ASSUME PwmInv, RoundUp PROVE PwmInv'
<1> USE DEF PwmInv, RoundUp, SetPwm, device, Off
<1>1. arg[1] \in Pin
  BY DEF ArgOK
<1>2. CASE UNCHANGED <<soft_pwm, settled, held>>
  <2>1. TypeOK'
    BY <1>2 DEF TypeOK
  <2>2. ArgOK' /\ DeviceInv' /\ HeldIsOff' /\ NotStranded' /\ DutyCycle' /\ LowStays'
    BY <1>2 DEF ArgOK, DeviceInv, HeldIsOff, NotStranded, DutyCycle, LowStays
  <2> QED
    BY <2>1, <2>2
<1>3. CASE SetPwm(arg[1], 1) /\ held' = [held EXCEPT ![arg[1]] = Free]
  <2>1. TypeOK'
    BY <1>1, <1>3 DEF TypeOK
  <2>2. ArgOK' /\ DeviceInv' /\ HeldIsOff' /\ NotStranded'
    BY <1>1, <1>3 DEF ArgOK, DeviceInv, HeldIsOff, NotStranded, TypeOK
  <2>3. DutyCycle' /\ LowStays'
    BY <1>1, <1>3 DEF DutyCycle, LowStays, TypeOK
  <2> QED
    BY <2>1, <2>2, <2>3
<1> QED
  BY <1>2, <1>3

(* hookSoftPwm starts the tick, or leaves it to stop itself. *)
LEMMA HookStep == ASSUME PwmInv, NEW h \in BOOLEAN, HookSoftPwm(h) PROVE PwmInv'
<1> USE DEF PwmInv, HookSoftPwm, device
<1>1. TypeOK'
  BY DEF TypeOK
<1>2. ArgOK' /\ DeviceInv' /\ HeldIsOff'
  BY DEF ArgOK, DeviceInv, HeldIsOff
<1>3. NotStranded'
  BY DEF NotStranded, Unused
<1>4. DutyCycle' /\ LowStays'
  BY DEF DutyCycle, LowStays
<1> QED
  BY <1>1, <1>2, <1>3, <1>4

(* soft_pwm_start: whoever finds the flag set relies on an interrupt that  *)
(* is on.                                                                  *)
LEMMA StartStep == ASSUME PwmInv, Start \/ Enable PROVE PwmInv'
<1> USE DEF PwmInv, Start, Enable
<1>1. TypeOK'
  BY DEF TypeOK
<1>2. ArgOK' /\ HeldIsOff'
  BY DEF ArgOK, HeldIsOff
<1>3. DeviceInv'
  <2>1. CASE Start
    BY <2>1 DEF DeviceInv, TypeOK
  <2>2. CASE Enable
    BY <2>2 DEF DeviceInv, TypeOK
  <2> QED
    BY <2>1, <2>2
<1>4. NotStranded'
  BY <1>3 DEF NotStranded, Unused, DeviceInv, TypeOK
<1>5. DutyCycle' /\ LowStays'
  BY DEF DutyCycle, LowStays
<1> QED
  BY <1>1, <1>2, <1>3, <1>4, <1>5

(* digitalWrite turns the PWM of its pin off ... *)
LEMMA DigitalWriteStep ==
  ASSUME PwmInv, NEW p \in Pin, NEW v \in BOOLEAN, NEW byPort \in BOOLEAN,
         DigitalWrite(p, v, byPort)
  PROVE  PwmInv'
<1> USE DEF PwmInv, DigitalWrite, SetPwm, device, Off
<1>1. TypeOK'
  <2>1. CASE byPort
    BY <2>1 DEF TypeOK
  <2>2. CASE ~byPort
    <3>1. soft_pwm' = [soft_pwm EXCEPT ![p] = -1] /\ settled' = [settled EXCEPT ![p] = FALSE]
      BY <2>2
    <3> QED
      BY <3>1 DEF TypeOK
  <2> QED
    BY <2>1, <2>2
<1>2. ArgOK' /\ DeviceInv'
  BY DEF ArgOK, DeviceInv
<1>3. HeldIsOff'
  BY DEF HeldIsOff, TypeOK
<1>4. NotStranded'
  BY DEF NotStranded, Unused, TypeOK
<1>5. DutyCycle' /\ LowStays'
  BY DEF DutyCycle, LowStays, TypeOK
<1> QED
  BY <1>1, <1>2, <1>3, <1>4, <1>5

(* ... and then writes the pad. *)
LEMMA WritePadStep == ASSUME PwmInv, WritePad PROVE PwmInv'
<1> USE DEF PwmInv, WritePad, Kept, device, Off
<1>0. arg[1] \in Pin /\ arg[2] \in BOOLEAN /\ arg[3] \in BOOLEAN
  BY DEF ArgOK
<1>1. TypeOK'
  BY <1>0 DEF TypeOK
<1>2. ArgOK' /\ DeviceInv'
  BY DEF ArgOK, DeviceInv
<1>3. HeldIsOff'
  BY <1>0 DEF HeldIsOff, TypeOK
<1>4. NotStranded'
  BY DEF NotStranded, Unused
<1>5. DutyCycle'
  BY <1>0 DEF DutyCycle, TypeOK
<1>6. LowStays'
  BY <1>0 DEF LowStays, TypeOK
<1> QED
  BY <1>1, <1>2, <1>3, <1>4, <1>5, <1>6

(* pinMode, and the same in tone *)
LEMMA PinModeStep ==
  ASSUME PwmInv, NEW p \in Pin, NEW in \in BOOLEAN,
         input' = [input EXCEPT ![p] = in],
         UNCHANGED <<soft_pwm, hook, level, settled, held, thread, counter, device>>
  PROVE  PwmInv'
<1> USE DEF PwmInv, thread, device
<1>1. TypeOK'
  BY DEF TypeOK
<1>2. ArgOK' /\ DeviceInv' /\ HeldIsOff' /\ NotStranded' /\ DutyCycle' /\ LowStays'
  BY DEF ArgOK, DeviceInv, HeldIsOff, NotStranded, Unused, DutyCycle, LowStays
<1> QED
  BY <1>1, <1>2

(* stop_tone comes between any two steps of the thread. *)
LEMMA StopToneStep ==
  ASSUME PwmInv, NEW p \in Pin, NEW byPort \in BOOLEAN, StopTone(p, byPort)
  PROVE  PwmInv'
<1> USE DEF PwmInv, StopTone, SetPwm, Kept, thread, device, Off
<1>1. TypeOK'
  BY DEF TypeOK
<1>2. ArgOK' /\ DeviceInv'
  BY DEF ArgOK, DeviceInv
<1>3. HeldIsOff'
  BY DEF HeldIsOff, TypeOK, ArgOK
<1>4. NotStranded'
  BY DEF NotStranded, Unused, TypeOK
<1>5. DutyCycle' /\ LowStays'
  BY DEF DutyCycle, LowStays, TypeOK
<1> QED
  BY <1>1, <1>2, <1>3, <1>4, <1>5

-----------------------------------------------------------------------------
(* softPwmTick: it unhooks itself only when nobody wants it, and otherwise *)
(* moves every pin through its cycle.                                      *)
LEMMA InterruptStep == ASSUME PwmInv, Interrupt PROVE PwmInv'
<1> USE DEF PwmInv
<1>1. CASE Unhook
  <2> USE <1>1 DEF Unhook, thread
  <2>1. TypeOK'
    BY DEF TypeOK
  <2>2. ArgOK' /\ DeviceInv' /\ HeldIsOff'
    BY DEF ArgOK, DeviceInv, HeldIsOff
  <2>3. NotStranded'
    BY DEF NotStranded, Unused
  <2>4. DutyCycle' /\ LowStays'
    BY DEF DutyCycle, LowStays
  <2> QED
    BY <2>1, <2>2, <2>3, <2>4
<1>2. CASE Tick
  <2> USE <1>2 DEF Tick, thread, device, Off
  <2>1. TypeOK'
    BY DEF TypeOK, Levels
  <2>2. ArgOK' /\ DeviceInv' /\ HeldIsOff'
    BY DEF ArgOK, DeviceInv, HeldIsOff
  <2>3. NotStranded'
    BY DEF NotStranded, Unused
  <2>4. ASSUME NEW p \in Pin, settled'[p]
        PROVE  level'[p] = (counter' < soft_pwm'[p])
    <3>1. level'[p] = (counter # 1 /\ (level[p] \/ counter = soft_pwm[p]))
      BY DEF Levels
    <3>2. soft_pwm[p] # Off /\ (settled[p] \/ counter = 1)
      BY <2>4
    <3>3. CASE counter = 1
      BY <3>1, <3>3 DEF TypeOK
    <3>4. CASE counter # 1
      BY <3>1, <3>2, <3>4 DEF TypeOK, DutyCycle
    <3> QED
      BY <3>3, <3>4
  <2>5. DutyCycle'
    BY <2>4 DEF DutyCycle
  <2>6. ASSUME NEW p \in Pin, held'[p] = FALSE PROVE ~level'[p]
    <3>1. ~level[p] /\ soft_pwm[p] = Off
      BY <2>6 DEF LowStays, HeldIsOff
    <3> QED
      BY <3>1 DEF Levels, TypeOK
  <2>7. LowStays'
    BY <2>6 DEF LowStays
  <2> QED
    BY <2>1, <2>2, <2>3, <2>5, <2>7
<1> QED
  BY <1>1, <1>2 DEF Interrupt

-----------------------------------------------------------------------------
(* The thread's steps in tone and noTone *)
LEMMA ToneCallStep ==
  ASSUME ToneInv, NEW n \in Name,
         \/ T!CallNoTone(n)
         \/ \E r \in Rate, timed \in BOOLEAN : T!CallTone(n, r, timed)
  PROVE  ToneInv'
<1> USE DEF ToneInv, T!Running, T!device
<1>1. CASE T!CallNoTone(n)
  BY <1>1 DEF T!CallNoTone, ToneOK, SetUpInv, EnabledIsSetUp
<1>2. ASSUME NEW r \in Rate, NEW timed \in BOOLEAN, T!CallTone(n, r, timed) PROVE ToneInv'
  <2>1. ToneOK'
    BY <1>2 DEF T!CallTone, ToneOK
  <2>2. SetUpInv' /\ EnabledIsSetUp'
    BY <1>2 DEF T!CallTone, SetUpInv, EnabledIsSetUp
  <2> QED
    BY <2>1, <2>2
<1> QED
  BY <1>1, <1>2

(* The stores of startLptmr and stopLptmr *)
LEMMA ToneStepStep ==
  ASSUME ToneInv, T!StartLptmr \/ T!Setup \/ T!Enable \/ T!Arm \/ T!Disable \/ T!CallLow
  PROVE  ToneInv'
<1> USE DEF ToneInv, T!Running, T!device, T!timer
<1>1. CASE T!StartLptmr
  BY <1>1 DEF T!StartLptmr, ToneOK, SetUpInv, EnabledIsSetUp
<1>2. CASE T!Setup
  BY <1>2 DEF T!Setup, ToneOK, Name, SetUpInv, EnabledIsSetUp
<1>3. CASE T!Enable
  BY <1>3 DEF T!Enable, ToneOK, SetUpInv, EnabledIsSetUp
<1>4. CASE T!Arm
  BY <1>4 DEF T!Arm, ToneOK, SetUpInv, EnabledIsSetUp
<1>5. CASE T!Disable
  BY <1>5 DEF T!Disable, ToneOK, SetUpInv, EnabledIsSetUp
<1>6. CASE T!CallLow
  BY <1>6 DEF T!CallLow, ToneOK, SetUpInv, EnabledIsSetUp
<1> QED
  BY <1>1, <1>2, <1>3, <1>4, <1>5, <1>6

(* The interrupts of the tones, between any two steps of the thread *)
LEMMA ToneInterruptStep ==
  ASSUME ToneInv, T!Silence \/ T!Match \/ T!Handler
  PROVE  ToneInv'
<1> USE DEF ToneInv, T!timer
<1>1. CASE T!Silence
  BY <1>1 DEF T!Silence, ToneOK, SetUpInv, EnabledIsSetUp
<1>2. CASE T!Match
  BY <1>2 DEF T!Match, ToneOK, SetUpInv, EnabledIsSetUp
<1>3. CASE T!Handler
  BY <1>3 DEF T!Handler, ToneOK, SetUpInv, EnabledIsSetUp
<1> QED
  BY <1>1, <1>2, <1>3

(* The handler of the tone's timer toggles the pin that the timer drives,  *)
(* which then belongs to the tone.                                         *)
LEMMA ToggleStep == ASSUME Inv, Toggle PROVE PwmInv'
<1> USE DEF Inv, PwmInv, Toggle, T!Handler, thread, device
<1>1. CASE ~lptmr_running
  BY <1>1, PwmKept DEF pwm
<1>2. CASE lptmr_running
  <2>1. /\ level' = [level EXCEPT ![lptmr_pad] = ~level[lptmr_pad]]
        /\ settled' = [settled EXCEPT ![lptmr_pad] = FALSE]
        /\ held' = [held EXCEPT ![lptmr_pad] = Free]
    BY <1>2
  <2>2. TypeOK'
    BY <2>1 DEF TypeOK
  <2>3. ArgOK' /\ DeviceInv' /\ HeldIsOff' /\ NotStranded'
    BY <2>1 DEF ArgOK, DeviceInv, HeldIsOff, NotStranded, Unused, TypeOK
  <2>4. DutyCycle' /\ LowStays'
    BY <2>1 DEF DutyCycle, LowStays, TypeOK
  <2> QED
    BY <2>2, <2>3, <2>4
<1> QED
  BY <1>1, <1>2 DEF ToneInv, ToneOK

-----------------------------------------------------------------------------
(* Every step of the thread and of the interrupts keeps the invariant. *)
LEMMA InvStep == Inv /\ [Next]_allvars => Inv'
<1> SUFFICES ASSUME Inv, [Next]_allvars PROVE Inv'
  OBVIOUS
<1> USE DEF Inv
<1>1. CASE UNCHANGED allvars
  <2>1. UNCHANGED <<pwm, level>> /\ UNCHANGED tone
    BY <1>1 DEF allvars, vars, pwm
  <2> QED
    BY <2>1, PwmKept, ToneKept
<1>2. CASE PwmCall
  <2>1. PwmInv'
    BY <1>2, AnalogWriteStep, DigitalWriteStep, HookStep, PinModeStep DEF PwmCall, PinMode
  <2> QED
    BY <1>2, <2>1, ToneKept DEF PwmCall
<1>3. ASSUME NEW n \in Name, CallNoTone(n) PROVE Inv'
  <2>1. UNCHANGED <<pwm, level>>
    BY <1>3 DEF CallNoTone, T!CallNoTone
  <2> QED
    BY <1>3, <2>1, PwmKept, ToneCallStep DEF CallNoTone
<1>4. ASSUME NEW n \in Name, NEW r \in Rate, NEW timed \in BOOLEAN, CallTone(n, r, timed)
      PROVE  Inv'
  <2>1. level' = level
    BY <1>4 DEF CallTone, T!CallTone
  <2>2. n[1] \in Pin
    BY DEF Name
  <2>3. PwmInv'
    BY <1>4, <2>1, <2>2, PinModeStep DEF CallTone
  <2> QED
    BY <1>4, <2>3, ToneCallStep DEF CallTone
<1>5. CASE PwmStep
  BY <1>5, RoundUpStep, StartStep, WritePadStep, ToneKept DEF PwmStep, InCall
<1>6. CASE ToneStep
  <2>1. level' = level
    BY <1>6 DEF ToneStep, T!StartLptmr, T!Setup, T!Enable, T!Arm, T!Disable
  <2> QED
    BY <1>6, <2>1, PwmKept, ToneStepStep DEF ToneStep
<1>7. CASE NoToneLow
  <2>1. targ[1][1] \in Pin /\ targ[1][2] \in BOOLEAN
    BY <1>7 DEF NoToneLow, T!CallLow, T!Running, ToneInv, ToneOK, Name
  <2>2. PwmInv'
    BY <1>7, <2>1, PwmKept, DigitalWriteStep DEF NoToneLow
  <2> QED
    BY <1>7, <2>2, ToneStepStep DEF NoToneLow
<1>8. CASE EndTone
  <2>1. tone_timer[1] \in Pin /\ tone_timer[2] \in BOOLEAN
    BY <1>8 DEF EndTone, T!Silence, ToneInv, ToneOK, Name
  <2>2. PwmInv'
    BY <1>8, <2>1, PwmKept, StopToneStep DEF EndTone
  <2> QED
    BY <1>8, <2>2, ToneInterruptStep DEF EndTone
<1>9. CASE Match
  <2>1. level' = level
    BY <1>9 DEF Match, T!Match
  <2> QED
    BY <1>9, <2>1, PwmKept, ToneInterruptStep DEF Match
<1>10. CASE Toggle
  BY <1>10, ToggleStep, ToneInterruptStep DEF Toggle
<1>11. CASE Spi
  BY <1>11, InterruptStep, ToneKept DEF Spi
<1> QED
  BY <1>1, <1>2, <1>3, <1>4, <1>5, <1>6, <1>7, <1>8, <1>9, <1>10, <1>11
     DEF Next, ThreadStep

(* Every state of the pins is good. *)
LEMMA Invariance == Spec => []Inv
BY InitInv, InvStep, PTL DEF Spec

-----------------------------------------------------------------------------
(* Every threshold fits its cycle, and the counter of softPwmTick never    *)
(* leaves it.                                                              *)
THEOREM TypeCorrect == Spec => []TypeOK
<1>1. Inv => TypeOK
  BY DEF Inv, PwmInv
<1> QED BY <1>1, Invariance, PTL

(* The tick of the soft PWM, which unhooks itself without the knowledge of *)
(* the thread, leaves nobody without ticks who wants them.                 *)
THEOREM TicksReachAll == Spec => []NotStranded
<1>1. Inv => NotStranded
  BY DEF Inv, PwmInv
<1> QED BY <1>1, Invariance, PTL

(* softPwmTick gives every threshold exactly its share of the cycle, for   *)
(* cycles and ranges of any length.                                        *)
THEOREM ExactDuty == Spec => []DutyCycle
<1>1. Inv => DutyCycle
  BY DEF Inv, PwmInv
<1> QED BY <1>1, Invariance, PTL

(* A pin that digitalWrite or the end of a tone made low is not driven up  *)
(* again by a tick or by a late interrupt of the tone's timer, unless it   *)
(* was named by its port while its PWM was on, which leaves the PWM on.    *)
THEOREM LowHolds == Spec => []LowStays
<1>1. Inv => LowStays
  BY DEF Inv, PwmInv
<1> QED BY <1>1, Invariance, PTL

(* The handler of the tone's timer never works with a null port or a       *)
(* period of 0, wherever it interrupts startLptmr.                         *)
THEOREM TimerIsSetUp == Spec => []EnabledIsSetUp
<1>1. Inv => EnabledIsSetUp
  BY DEF Inv, ToneInv
<1> QED BY <1>1, Invariance, PTL
=============================================================================
