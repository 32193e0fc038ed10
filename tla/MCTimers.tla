------------------------------ MODULE MCTimers ------------------------------
(* Instances of Timers for TLC. *)
EXTENDS Timers

CONSTANTS t1, t2, c1, c2

(* Each timer of the app has a callback of its own. *)
MCUse == {<<t1, c1>>, <<t2, c2>>}
=============================================================================
