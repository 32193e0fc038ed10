------------------------------ MODULE AlarmClock ------------------------------
(***************************************************************************)
(* What the kernel's timers promise: every timer counts down by itself,    *)
(* from the delay it was set with, untouched by what is done to others,    *)
(* and rings at the tick at which it reaches zero.                         *)
(***************************************************************************)
EXTENDS Integers

CONSTANTS
  Timer,  \* the timers
  Delay   \* the delays that they are set with

VARIABLE left  \* the ticks until a timer rings, Off if it is not set

Off == -1

TimeUp == \E t \in Timer : left[t] = 0

Init == left = [t \in Timer |-> Off]

Set(t, d) == ~TimeUp /\ left' = [left EXCEPT ![t] = d]

Clear(t) == ~TimeUp /\ left' = [left EXCEPT ![t] = Off]

(* No timer may still have to ring for the tick before. *)
Tick == ~TimeUp /\ left' = [t \in Timer |-> IF left[t] = Off THEN Off ELSE left[t] - 1]

Ring(t) == left[t] = 0 /\ left' = [left EXCEPT ![t] = Off]

Next ==
  \/ \E t \in Timer : Clear(t) \/ Ring(t) \/ \E d \in Delay : Set(t, d)
  \/ Tick

Spec == Init /\ [][Next]_left

=============================================================================
