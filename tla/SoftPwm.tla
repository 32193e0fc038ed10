------------------------------ MODULE SoftPwm ------------------------------
(***************************************************************************)
(* The software PWM of the pins D4 and D5, in orchard/arduino-pwm.c, and   *)
(* digitalWrite of orchard/arduino-io.c, which turns it off.               *)
(*                                                                         *)
(* Three actors share soft_pwm, the hook and the pins without a lock: the  *)
(* app's thread; softPwmTick, in the SPI interrupt; and stop_tone, in the  *)
(* system tick.  Both handlers have the same priority (see the README), so *)
(* that they interrupt the thread anywhere, and not each other.  The       *)
(* module Pins composes these steps with the tones.                        *)
(***************************************************************************)
EXTENDS Integers

CONSTANTS
  Cycle,   \* SOFT_PWM_CYCLE
  Range,   \* ARDUINO_MAX + 1
  Values,  \* arguments of analogWrite
  Free     \* no level is held on a pin

ASSUME SoftPwmAssumption ==
  /\ Cycle \in Nat /\ Cycle > 1
  /\ Range \in Nat /\ Range >= Cycle
  /\ Values \subseteq Int
  /\ Free \notin BOOLEAN

Pin == 1 .. 2   \* D4 and D5
Off == -1

VARIABLES
  soft_pwm,   \* thresholds of the pins
  counter,    \* soft_pwm_counter
  running,    \* soft_pwm_running
  hook,       \* is soft_pwm_hook set?
  attached,   \* is softPwmTick in spiFastISR?
  enabled,    \* do the SPI block and its vector interrupt?
  input,      \* is the pad an input?
  level,      \* the output latch of a pin
  pc,         \* the thread: in the app, or a place in a call
  arg,        \* the pin, value and name the call was made with
  settled,    \* was the threshold there for the whole of this cycle?
  held        \* the level that digitalWrite left the pin at, Free if something drives it

thread == <<pc, arg>>
device == <<running, attached, enabled>>
vars == <<soft_pwm, hook, input, level, settled, held, thread, counter, device>>

Init ==
  /\ soft_pwm = [p \in Pin |-> Off]
  /\ counter = Cycle
  /\ running = FALSE /\ hook = FALSE
  /\ attached = FALSE /\ enabled = FALSE
  /\ input \in [Pin -> BOOLEAN] /\ level = [p \in Pin |-> FALSE]
  /\ pc = "app" /\ arg = <<>>
  /\ settled = [p \in Pin |-> FALSE] /\ held = [p \in Pin |-> Free]


(* A threshold is stored by the thread or in the system tick. *)
SetPwm(p, t) ==
  /\ soft_pwm' = [soft_pwm EXCEPT ![p] = t]
  /\ settled' = [settled EXCEPT ![p] = FALSE]

-----------------------------------------------------------------------------
(* analogWrite *)
Clamp(x) == IF x >= Range THEN Range - 1 ELSE IF x < 0 THEN 0 ELSE x
Truncated(x) == (Clamp(x) * Cycle) \div Range

AnalogWrite(p, x) ==
  /\ pc = "app"
  /\ ~input[p]
  /\ SetPwm(p, Truncated(x))
  /\ held' = [held EXCEPT ![p] = Free]
  /\ pc' = "round" /\ arg' = <<p, x>>
  /\ UNCHANGED <<hook, input, level, counter, device>>

(* The test of soft_pwm may read the variable again or use the value that  *)
(* was just stored; a system tick in between makes the difference.         *)
RoundUp ==
  /\ pc = "round"
  /\ LET p == arg[1] IN
       \E stored \in {soft_pwm[p], Truncated(arg[2])} :
         IF Clamp(arg[2]) # 0 /\ stored = 0
           THEN SetPwm(p, 1) /\ held' = [held EXCEPT ![p] = Free]
           ELSE UNCHANGED <<soft_pwm, settled, held>>
  /\ pc' = "start" /\ arg' = <<>>
  /\ UNCHANGED <<hook, input, level, counter, device>>

(* hookSoftPwm *)
HookSoftPwm(h) ==
  /\ pc = "app"
  /\ hook' = h
  /\ pc' = IF h THEN "start" ELSE "app"
  /\ UNCHANGED <<soft_pwm, input, level, settled, held, arg, counter, device>>

(* soft_pwm_start *)
Start ==
  /\ pc = "start"
  /\ IF running
       THEN pc' = "app" /\ UNCHANGED <<running, attached>>
       ELSE pc' = "enable" /\ running' = TRUE /\ attached' = TRUE
  /\ UNCHANGED <<soft_pwm, hook, input, level, settled, held, arg, counter, enabled>>

Enable ==
  /\ pc = "enable"
  /\ enabled' = TRUE
  /\ pc' = "app"
  /\ UNCHANGED <<soft_pwm, hook, input, level, settled, held, arg, counter, running, attached>>

-----------------------------------------------------------------------------
(* digitalWrite to an output turns the soft PWM off, unless the pin is     *)
(* named by its port (PTB(0), PTA(7)), and then writes the pad.  For an    *)
(* input it only selects the pull-up.                                      *)
DigitalWrite(p, v, byPort) ==
  /\ pc = "app"
  /\ ~input[p]
  /\ IF byPort THEN UNCHANGED <<soft_pwm, settled>> ELSE SetPwm(p, Off)
  /\ pc' = "write" /\ arg' = <<p, v, byPort>>
  /\ UNCHANGED <<hook, input, level, held, counter, device>>

(* What becomes of a level that was written: it is to stay, unless the pin *)
(* was named by its port and its PWM is on.  The PWM then goes on and      *)
(* drives the pin.                                                         *)
Kept(p, v, byPort) == IF byPort /\ soft_pwm[p] # Off THEN Free ELSE v

WritePad ==
  /\ pc = "write"
  /\ level' = [level EXCEPT ![arg[1]] = arg[2]]
  /\ settled' = [settled EXCEPT ![arg[1]] = FALSE]
  /\ held' = [held EXCEPT ![arg[1]] = Kept(arg[1], arg[2], arg[3])]
  /\ pc' = "app" /\ arg' = <<>>
  /\ UNCHANGED <<soft_pwm, hook, input, counter, device>>

PinMode(p, in) ==
  /\ pc = "app"
  /\ input' = [input EXCEPT ![p] = in]
  /\ UNCHANGED <<soft_pwm, hook, level, settled, held, thread, counter, device>>

(* stop_tone: noTone, and so digitalWrite(p, LOW), at any moment; the pin  *)
(* is named as it was for tone.                                            *)
StopTone(p, byPort) ==
  /\ ~input[p]
  /\ SetPwm(p, IF byPort THEN soft_pwm[p] ELSE Off)
  /\ level' = [level EXCEPT ![p] = FALSE]
  /\ held' = [held EXCEPT ![p] = Kept(p, FALSE, byPort)]
  /\ UNCHANGED <<hook, input, thread, counter, device>>

-----------------------------------------------------------------------------
(* softPwmTick *)
Unused == ~hook /\ \A p \in Pin : soft_pwm[p] = Off

(* Mutant: the tick looks at one pin only. *)
UnhookFirst ==
  /\ enabled
  /\ ~hook /\ soft_pwm[1] = Off
  /\ enabled' = FALSE /\ attached' = FALSE /\ running' = FALSE
  /\ UNCHANGED <<soft_pwm, hook, input, level, settled, held, thread, counter>>

Unhook ==
  /\ enabled
  /\ Unused
  /\ enabled' = FALSE /\ attached' = FALSE /\ running' = FALSE
  /\ UNCHANGED <<soft_pwm, hook, input, level, settled, held, thread, counter>>

(* Mutant: a pin goes up one tick late. *)
LevelsLate == [p \in Pin |-> counter # 1 /\ (level[p] \/ counter < soft_pwm[p])]

(* A pin goes up when the counter is at its threshold; at the end of a     *)
(* cycle both are cleared.                                                 *)
Levels == [p \in Pin |-> counter # 1 /\ (level[p] \/ counter = soft_pwm[p])]

(* Mutant: without a hook the tick does nothing. *)
TickForHook ==
  /\ enabled /\ hook
  /\ level' = Levels
  /\ counter' = IF counter = 1 THEN Cycle ELSE counter - 1
  /\ settled' = [p \in Pin |-> soft_pwm[p] # Off /\ (settled[p] \/ counter = 1)]
  /\ UNCHANGED <<soft_pwm, hook, input, held, thread, device>>

(* A tick ends with a call of the hook and a byte for the SPI, which makes *)
(* the next tick.                                                          *)
Tick ==
  /\ enabled /\ ~Unused
  /\ level' = Levels
  /\ counter' = IF counter = 1 THEN Cycle ELSE counter - 1
  /\ settled' = [p \in Pin |-> soft_pwm[p] # Off /\ (settled[p] \/ counter = 1)]
  /\ UNCHANGED <<soft_pwm, hook, input, held, thread, device>>

-----------------------------------------------------------------------------
(* The SPI vector, Vector68 *)
Interrupt == Unhook \/ Tick

InCall == RoundUp \/ Start \/ Enable \/ WritePad

(* Type invariant *)
TypeOK ==
  /\ soft_pwm \in [Pin -> Off .. Cycle - 1]
  /\ counter \in 1 .. Cycle
  /\ running \in BOOLEAN /\ hook \in BOOLEAN
  /\ attached \in BOOLEAN /\ enabled \in BOOLEAN
  /\ input \in [Pin -> BOOLEAN] /\ level \in [Pin -> BOOLEAN]
  /\ pc \in {"app", "round", "start", "enable", "write"}
  /\ settled \in [Pin -> BOOLEAN] /\ held \in [Pin -> BOOLEAN \cup {Free}]
=============================================================================
