-------------------------------- MODULE Tone --------------------------------
(***************************************************************************)
(* Tones, in orchard/arduino-tone.c and orchard/lptmr.c.  The low-power    *)
(* timer interrupts at the rate of the tone and its handler toggles a pin; *)
(* a virtual timer of the kernel stops a tone that has a duration.         *)
(*                                                                         *)
(* The app's thread is interrupted anywhere.  The handler and stop_tone,   *)
(* which the system tick calls, have the same priority: they run to their  *)
(* end, and the system tick goes first.  The module Pins composes these    *)
(* steps with digitalWrite and the soft PWM.                               *)
(*                                                                         *)
(* An app names a pin n as <<p, byPort>>: the pin p, and whether by a name *)
(* of its port (PTB(0), PTA(7)); digitalWrite makes a difference of that.  *)
(***************************************************************************)
EXTENDS Naturals

CONSTANTS
  Pin,    \* pins that an app may use
  Rate,   \* periods of the timer; 0 stands for a frequency of 0
  NoPin   \* none of them

VARIABLES
  lptmr_running,
  lptmr_pad,   \* lptmr_port and lptmr_pad
  lptmr_rate,
  cmr,         \* the compare register
  enabled,     \* TIE and TEN of the control register
  tcf,         \* its compare flag, which requests the interrupt
  level,       \* of the pins
  tone_timer,  \* the pin as named that stop_tone is to be called with, or NoPin
  pc,          \* the thread: in the app, or a place in a call
  arg          \* the arguments of the call

timer == <<lptmr_running, lptmr_pad, lptmr_rate>>
device == <<cmr, enabled, tcf>>
vars == <<timer, device, level, tone_timer, pc, arg>>

Init ==
  /\ lptmr_running = FALSE /\ lptmr_pad = NoPin /\ lptmr_rate = 0
  /\ cmr = 0 /\ enabled = FALSE /\ tcf = FALSE
  /\ level = [p \in Pin |-> FALSE]
  /\ tone_timer = NoPin
  /\ pc = "app" /\ arg = <<>>

(* The thread runs only while no interrupt is requested. *)
Running(place) == pc = place /\ ~tcf

-----------------------------------------------------------------------------
(* tone; with a frequency of 0 startLptmr returns at once. *)
CallTone(n, r, timed) ==
  /\ Running("app")
  /\ arg' = <<n, timed>>
  /\ IF r = 0 THEN pc' = "arm" /\ UNCHANGED lptmr_rate
              ELSE pc' = "start" /\ lptmr_rate' = r
  /\ UNCHANGED <<lptmr_running, lptmr_pad, device, level, tone_timer>>

(* Mutant: the timer is enabled before the pin is stored. *)
StartLptmrEnables ==
  /\ Running("start")
  /\ pc' = IF lptmr_running THEN "arm" ELSE "setup"
  /\ lptmr_running' = TRUE /\ enabled' = TRUE
  /\ UNCHANGED <<lptmr_pad, lptmr_rate, cmr, tcf, level, tone_timer, arg>>

(* startLptmr leaves a timer that runs on the pin that it drives. *)
StartLptmr ==
  /\ Running("start")
  /\ pc' = IF lptmr_running THEN "arm" ELSE "setup"
  /\ lptmr_running' = TRUE
  /\ UNCHANGED <<lptmr_pad, lptmr_rate, device, level, tone_timer, arg>>

Setup ==
  /\ Running("setup")
  /\ lptmr_pad' = arg[1][1]
  /\ cmr' = lptmr_rate
  /\ pc' = "enable"
  /\ UNCHANGED <<lptmr_running, lptmr_rate, enabled, tcf, level, tone_timer, arg>>

Enable ==
  /\ Running("enable")
  /\ enabled' = TRUE
  /\ pc' = "arm"
  /\ UNCHANGED <<timer, cmr, tcf, level, tone_timer, arg>>

(* chVTSet, for a tone with a duration. *)
Arm ==
  /\ Running("arm")
  /\ tone_timer' = IF arg[2] THEN arg[1] ELSE tone_timer
  /\ pc' = "app" /\ arg' = <<>>
  /\ UNCHANGED <<timer, device, level>>

-----------------------------------------------------------------------------
(* noTone: stopLptmr, if the timer runs, and a call of digitalWrite. *)
CallNoTone(n) ==
  /\ Running("app")
  /\ pc' = IF lptmr_running THEN "disable" ELSE "low"
  /\ lptmr_running' = FALSE
  /\ arg' = <<n>>
  /\ UNCHANGED <<lptmr_pad, lptmr_rate, device, level, tone_timer>>

Disable ==
  /\ Running("disable")
  /\ enabled' = FALSE
  /\ pc' = "low"
  /\ UNCHANGED <<timer, cmr, tcf, level, tone_timer, arg>>

(* The call of digitalWrite in noTone *)
CallLow ==
  /\ Running("low")
  /\ pc' = "app" /\ arg' = <<>>
  /\ UNCHANGED <<timer, device, tone_timer>>

(* stopLptmr in stop_tone, which the system tick calls.  Clearing the      *)
(* control register clears the compare flag too.                           *)
Silence ==
  /\ tone_timer # NoPin
  /\ IF lptmr_running THEN enabled' = FALSE /\ tcf' = FALSE
                      ELSE UNCHANGED <<enabled, tcf>>
  /\ lptmr_running' = FALSE
  /\ tone_timer' = NoPin
  /\ UNCHANGED <<lptmr_pad, lptmr_rate, cmr, pc, arg>>

-----------------------------------------------------------------------------
(* The timer reaches its compare value. *)
Match ==
  /\ enabled /\ ~tcf
  /\ tcf' = TRUE
  /\ UNCHANGED <<timer, cmr, enabled, level, tone_timer, pc, arg>>

(* Mutant: the flag of the driver is not looked at. *)
HandlerAnyway ==
  /\ tcf
  /\ level' = [level EXCEPT ![lptmr_pad] = ~@]
  /\ cmr' = lptmr_rate
  /\ enabled' = TRUE /\ tcf' = FALSE
  /\ UNCHANGED <<timer, tone_timer, pc, arg>>

(* The interrupt handler.  When the timer is not supposed to run it        *)
(* returns without clearing the flag, and so is entered again.             *)
Handler ==
  /\ tcf
  /\ IF lptmr_running
       THEN /\ level' = [level EXCEPT ![lptmr_pad] = ~@]
            /\ cmr' = lptmr_rate
            /\ enabled' = TRUE /\ tcf' = FALSE
       ELSE UNCHANGED <<level, cmr, tcf, enabled>>
  /\ UNCHANGED <<timer, tone_timer, pc, arg>>

-----------------------------------------------------------------------------
(* The handler is entered for a timer that is not supposed to run. *)
Stuck == tcf /\ ~lptmr_running

=============================================================================
