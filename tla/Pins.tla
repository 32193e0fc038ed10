-------------------------------- MODULE Pins --------------------------------
(***************************************************************************)
(* The pins D4 and D5 with all that drives them: digitalWrite and the soft *)
(* PWM (SoftPwm), and tones (Tone).  One thread of the app makes the calls *)
(* of both, the levels of the pins are shared, and a tone ends with a call *)
(* of digitalWrite, from the app's noTone or from the system tick.         *)
(***************************************************************************)
EXTENDS SoftPwm

CONSTANTS
  TonePin,  \* the pins that tone and noTone are called with
  Rate,     \* periods of the timer; 0 stands for a frequency of 0
  NoPin

ASSUME PinsAssumption ==
  /\ TonePin \subseteq Pin /\ 0 \in Rate /\ Rate \subseteq Nat
  /\ NoPin \notin Pin \cup (Pin \X BOOLEAN)

VARIABLES
  lptmr_running, lptmr_pad, lptmr_rate, cmr, counting, tcf, tone_timer,  \* see Tone
  tpc,   \* the thread: a place in tone or noTone, "app" outside of them
  targ   \* the arguments of that call

T == INSTANCE Tone WITH enabled <- counting, pc <- tpc, arg <- targ

tone == <<lptmr_running, lptmr_pad, lptmr_rate, cmr, counting, tcf, tone_timer, tpc, targ>>
pwm == <<soft_pwm, hook, input, settled, held, thread, counter, device>>
allvars == <<vars, tone>>

PinsInit == Init /\ T!Init

-----------------------------------------------------------------------------
(* The thread is not in a call of SoftPwm, or of Tone. *)
OutsidePwm == pc = "app"
OutsideTone == tpc = "app"

PwmCall ==
  /\ OutsideTone /\ ~tcf
  /\ \/ \E p \in Pin : \/ \E x \in Values : AnalogWrite(p, x)
                       \/ \E v, byPort \in BOOLEAN : DigitalWrite(p, v, byPort)
                       \/ \E in \in BOOLEAN : PinMode(p, in)
     \/ \E h \in BOOLEAN : HookSoftPwm(h)
  /\ UNCHANGED tone

PwmStep ==
  /\ ~tcf
  /\ InCall
  /\ UNCHANGED tone

(* The pins of tone and noTone, as an app may name them *)
Name == TonePin \X BOOLEAN

(* tone makes the pin an output first. *)
CallTone(n, r, timed) ==
  /\ OutsidePwm
  /\ T!CallTone(n, r, timed)
  /\ input' = [input EXCEPT ![n[1]] = FALSE]
  /\ UNCHANGED <<soft_pwm, hook, settled, held, thread, counter, device>>

CallNoTone(n) ==
  /\ OutsidePwm
  /\ T!CallNoTone(n)
  /\ UNCHANGED pwm

ToneStep ==
  /\ T!StartLptmr \/ T!Setup \/ T!Enable \/ T!Arm \/ T!Disable
  /\ UNCHANGED pwm

(* digitalWrite(pin, LOW) in noTone; for an input it selects the pull-up   *)
(* only.                                                                   *)
NoToneLow ==
  /\ T!CallLow
  /\ LET p == targ[1][1]
         byPort == targ[1][2]
     IN  IF input[p] THEN UNCHANGED <<pwm, level>> ELSE DigitalWrite(p, FALSE, byPort)

-----------------------------------------------------------------------------
(* Mutant: the pin is set low and the timer goes on. *)
EndToneLow ==
  /\ tone_timer # NoPin
  /\ tone_timer' = NoPin
  /\ UNCHANGED <<lptmr_running, lptmr_pad, lptmr_rate, cmr, counting, tcf, tpc, targ>>
  /\ LET p == tone_timer[1]
         byPort == tone_timer[2]
     IN  IF input[p] THEN UNCHANGED <<pwm, level>> ELSE StopTone(p, byPort)

(* stop_tone in the system tick *)
EndTone ==
  /\ T!Silence
  /\ LET p == tone_timer[1]
         byPort == tone_timer[2]
     IN  IF input[p] THEN UNCHANGED <<pwm, level>> ELSE StopTone(p, byPort)

Match == T!Match /\ UNCHANGED pwm

(* A tone that goes on owns its pin. *)
Toggle ==
  /\ T!Handler
  /\ IF lptmr_running
       THEN /\ settled' = [settled EXCEPT ![lptmr_pad] = FALSE]
            /\ held' = [held EXCEPT ![lptmr_pad] = Free]
       ELSE UNCHANGED <<settled, held>>
  /\ UNCHANGED <<soft_pwm, hook, input, thread, counter, device>>

Spi == Interrupt /\ UNCHANGED tone

-----------------------------------------------------------------------------
ThreadStep == PwmStep \/ ToneStep \/ NoToneLow

Next ==
  \/ PwmCall
  \/ \E n \in Name : \/ CallNoTone(n)
                     \/ \E r \in Rate, timed \in BOOLEAN : CallTone(n, r, timed)
  \/ ThreadStep
  \/ EndTone \/ Match \/ Toggle \/ Spi

(* The SPI interrupts again each time its byte is sent, the kernel's timer *)
(* expires, requested interrupts are served, and calls go on between them. *)
Fairness ==
  /\ WF_allvars(Spi) /\ WF_allvars(EndTone) /\ WF_allvars(Match \/ Toggle)
  /\ SF_allvars(ThreadStep)

Spec == PinsInit /\ [][Next]_allvars /\ Fairness

-----------------------------------------------------------------------------
(* Whoever wants ticks gets them: when no call is under way and a pin has  *)
(* a threshold or a hook is set, the interrupt is on, although the tick    *)
(* unhooks itself at moments that the thread does not know.                *)
NotStranded ==
  pc \in {"app", "write"} /\ ~Unused => running /\ attached /\ enabled

(* A pin whose threshold t was in place at the start of the cycle is high  *)
(* for exactly the last t - 1 of its periods, whatever happens to the      *)
(* other pin and the hook, and however often the ticks stopped before,     *)
(* unless a tone toggles it.                                               *)
DutyCycle ==
  \A p \in Pin : settled[p] => level[p] = (counter < soft_pwm[p])

(* A pin that digitalWrite, noTone or the end of a tone set low stays low  *)
(* until it is written again or a tone goes on: "Set the pin LOW to        *)
(* prevent speaker burnout".  A tick of the soft PWM or a pending          *)
(* interrupt of the tone's timer must not raise it once more.  The one     *)
(* exception (see Kept) is a pin that is named by its port, PTB(0) or      *)
(* PTA(7), while it has a threshold: "Disable the running PWM, if one      *)
(* exists" is not done under that name, and the PWM raises the pin again.  *)
LowStays == \A p \in Pin : held[p] = FALSE => ~level[p]

(* A pin with soft PWM disabled keeps the high level that digitalWrite     *)
(* gave it.                                                                *)
HighStays == \A p \in Pin : held[p] = TRUE => level[p]

(* The tone's timer never counts without a pin and a period: before the    *)
(* first tone there is a null port and a period of 0, and the handler,     *)
(* which may come at any point of startLptmr, would use them.              *)
EnabledIsSetUp == counting => lptmr_pad # NoPin /\ cmr # 0

(* A threshold that stays is put out, wherever in its cycle the counter is *)
(* when it is stored: the pin becomes high, unless the processor is stuck  *)
(* in the handler of the tone's timer.  The threshold 1, to which small    *)
(* values are rounded up, is excepted; the tick that sets the pin clears   *)
(* it again.                                                               *)
PulseComes ==
  \A p \in Pin : \A t \in {Truncated(x) : x \in Values} \ {0, 1} :
    soft_pwm[p] = t ~> (level[p] \/ soft_pwm[p] # t \/ T!Stuck)

(* A tone with a duration comes to an end, unless the app makes another    *)
(* call or the processor is stuck in the handler.                          *)
TimedToneEnds ==
  tone_timer # NoPin ~> (~counting \/ ~OutsideTone \/ T!Stuck)
=============================================================================
