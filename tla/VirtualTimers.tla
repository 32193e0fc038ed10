---------------------------- MODULE VirtualTimers ----------------------------
(***************************************************************************)
(* The kernel's virtual timers in tick mode (os/rt/src/chvt.c): a list of  *)
(* the armed timers in the order in which they fire, each with its         *)
(* distance in ticks from the one before it.  A list is a sequence of      *)
(* records: the timer, its delta and the parameter of its callback.        *)
(* systime_t wraps.  The counter vt_systime is left out: only the millis   *)
(* and micros of an app read it.                                           *)
(***************************************************************************)
EXTENDS Integers, Sequences, SequencesExt

CONSTANT SystimeMod  \* 2^CH_CFG_ST_RESOLUTION

ASSUME VirtualTimersAssumption == SystimeMod \in Nat \ {0, 1}

(* The ticks until the k-th timer of the list fires. *)
Ahead(l, k) ==
  LET f[j \in 0 .. Len(l)] == IF j = 0 THEN 0 ELSE f[j - 1] + l[j].delta
  IN  f[k]

Position(l, vt) == {k \in DOMAIN l : l[k].vt = vt}

(* The callback of the timer is not NULL. *)
IsArmed(l, vt) == Position(l, vt) # {}

-----------------------------------------------------------------------------
(* The scan stops at the first timer that does not fire before the new     *)
(* one, at the header of the list if there is none.                        *)
Place(l, delay) ==
  CHOOSE k \in 1 .. Len(l) + 1 :
    /\ k <= Len(l) => Ahead(l, k) >= delay
    /\ \A j \in 1 .. k - 1 : Ahead(l, j) < delay

(* Mutant: the timer behind the new one keeps its distance. *)
DoSetKeepsNext(l, vt, delay, par) ==
  LET k == Place(l, delay)
  IN  InsertAt(l, k, [vt |-> vt, delta |-> delay - Ahead(l, k - 1), par |-> par])

DoSet(l, vt, delay, par) ==
  LET k == Place(l, delay)
      delta == delay - Ahead(l, k - 1)
      rest == IF k > Len(l) THEN l ELSE [l EXCEPT ![k].delta = @ - delta]
  IN  InsertAt(rest, k, [vt |-> vt, delta |-> delta, par |-> par])

(* The delta of a timer that is disabled goes to the next one. *)
DoReset(l, vt) ==
  LET k == CHOOSE j \in Position(l, vt) : TRUE
      rest == IF k = Len(l) THEN l
              ELSE [l EXCEPT ![k + 1].delta = (@ + l[k].delta) % SystimeMod]
  IN  RemoveAt(rest, k)

Reset(l, vt) == IF IsArmed(l, vt) THEN DoReset(l, vt) ELSE l

(* A timer that is armed is disabled and armed anew. *)
Set(l, vt, delay, par) == DoSet(Reset(l, vt), vt, delay, par)

-----------------------------------------------------------------------------
(* One tick reduces the first delta; a delta of zero wraps. *)
Ticked(l) ==
  IF l = <<>> THEN l ELSE [l EXCEPT ![1].delta = (@ + SystimeMod - 1) % SystimeMod]

(* The tick's loop takes the first timer off the list and calls it while   *)
(* this holds.                                                             *)
Due(l) == l # <<>> /\ l[1].delta = 0

=============================================================================
