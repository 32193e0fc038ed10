------------------------------- MODULE Timers -------------------------------
(***************************************************************************)
(* The timers of an app, in orchard/arduino-chibios.c.  setTimer keeps the *)
(* app's callback in a slot of vtcallbacks and arms a kernel timer; when   *)
(* the timer fires, the interrupt moves the callback to a slot of          *)
(* scheduled_callbacks, and the app's thread runs it in runCallbacks.  The *)
(* kernel's list of timers is shared with threads that sleep or wait with  *)
(* a timeout.                                                              *)
(*                                                                         *)
(* The tick's interrupt runs to completion between any two steps of the    *)
(* thread, and calls every timer that is due one after the other.          *)
(* The thread's decrement of num_scheduled_callbacks is a load and a       *)
(* store.  A callback is one value for its function and parameter.  One    *)
(* thread of the app uses the timers, and its callbacks do not call        *)
(* runCallbacks (it would run the callback that calls it once more).       *)
(***************************************************************************)
EXTENDS VirtualTimers, FiniteSets

CONSTANTS
  Timer,     \* the virtual timers of the app
  Sleeper,   \* the timers of threads that sleep or wait with a timeout
  Delay,     \* the delays that timers are set with, in ticks
  Callback,  \* functions with their parameters
  Use,       \* the timers and the callbacks that the app sets them with
  Null,      \* no function
  Slots,     \* ARRAY_SIZE of both tables
  CountMod   \* num_scheduled_callbacks counts modulo this

Slot == 1 .. Slots

ASSUME TimersAssumption ==
  /\ Slots \in Nat \ {0} /\ CountMod \in Nat /\ CountMod > Slots
  /\ Null \notin Callback
  /\ Use \subseteq Timer \X Callback
  /\ Timer \cap Sleeper = {}
  /\ Delay \subseteq 0 .. SystimeMod - 1

VARIABLES
  vtcallbacks,  \* callbacks of timers that are set
  vtlist,       \* the kernel's armed timers; par is the slot of an app's timer
  firing,       \* the tick's interrupt has timers to call
  scheduled,    \* scheduled_callbacks
  num,          \* num_scheduled_callbacks
  pc,           \* the thread: in the app, or a place in runCallbacks
  i,            \* the slot that runCallbacks is at
  reg,          \* the counter that it loaded
  setting,      \* <<timer, slot>> while setTimer has not armed the timer yet
  owed,         \* callbacks accepted from the interrupt and not yet called
  raced         \* a callback was accepted between the load and the store

vars == <<vtcallbacks, vtlist, firing, scheduled, num, pc, i, reg, setting, owed, raced>>

NoSetting == <<>>
NoSlot == 0

Init ==
  /\ vtcallbacks = [s \in Slot |-> Null]
  /\ vtlist = <<>> /\ firing = FALSE
  /\ scheduled = [s \in Slot |-> Null]
  /\ num = 0
  /\ pc = "app" /\ i = 1 /\ reg = 0 /\ setting = NoSetting
  /\ owed = [c \in Callback |-> 0] /\ raced = FALSE

-----------------------------------------------------------------------------
(* The app's code runs, in its loop or in a callback. *)
InApp == ~firing /\ pc \in {"app", "call"} /\ setting = NoSetting

(* Mutant: a slot is taken although its callback is still set. *)
TakeSlotAny(t, c) ==
  /\ InApp
  /\ \E s \in Slot :
       /\ vtcallbacks' = [vtcallbacks EXCEPT ![s] = c]
       /\ setting' = <<t, s>>
  /\ UNCHANGED <<vtlist, firing, scheduled, num, pc, i, reg, owed, raced>>

(* setTimer finds a free slot.  The interrupt may free others during the   *)
(* search, so the slot need not be the first.  Without one setTimer        *)
(* changes nothing and returns -1.                                         *)
TakeSlot(t, c) ==
  /\ InApp
  /\ \E s \in Slot :
       /\ vtcallbacks[s] = Null
       /\ vtcallbacks' = [vtcallbacks EXCEPT ![s] = c]
       /\ setting' = <<t, s>>
  /\ UNCHANGED <<vtlist, firing, scheduled, num, pc, i, reg, owed, raced>>

(* chVTSet, under the kernel's lock; a timer that is armed is armed anew   *)
(* and its former slot stays taken.                                        *)
Arm(d) ==
  /\ ~firing
  /\ setting # NoSetting
  /\ vtlist' = Set(vtlist, setting[1], d, setting[2])
  /\ setting' = NoSetting
  /\ UNCHANGED <<vtcallbacks, firing, scheduled, num, pc, i, reg, owed, raced>>

(* resetTimer is chVTReset; the slot stays taken. *)
ResetTimer(t) ==
  /\ InApp
  /\ vtlist' = Reset(vtlist, t)
  /\ UNCHANGED <<vtcallbacks, firing, scheduled, num, pc, i, reg, setting, owed, raced>>

(* Another thread begins to sleep, or to wait with a timeout. *)
Sleep(t, d) ==
  /\ ~firing
  /\ ~IsArmed(vtlist, t)
  /\ vtlist' = DoSet(vtlist, t, d, NoSlot)
  /\ UNCHANGED <<vtcallbacks, firing, scheduled, num, pc, i, reg, setting, owed, raced>>

(* What it waited for comes first, and it disables its timer. *)
WakeEarly(t) ==
  /\ ~firing
  /\ IsArmed(vtlist, t)
  /\ vtlist' = DoReset(vtlist, t)
  /\ UNCHANGED <<vtcallbacks, firing, scheduled, num, pc, i, reg, setting, owed, raced>>

-----------------------------------------------------------------------------
FreeScheduled == {s \in Slot : scheduled[s] = Null}

(* Mutant: the first slot is used whether it is free or not. *)
PostAnywhere(c) ==
  /\ scheduled' = [scheduled EXCEPT ![1] = c]
  /\ num' = (num + 1) % CountMod
  /\ owed' = [owed EXCEPT ![c] = @ + 1]
  /\ raced' = (raced \/ pc = "store")

(* The first free slot gets the callback; without one it is dropped. *)
Post(c) ==
  IF FreeScheduled = {}
    THEN UNCHANGED <<scheduled, num, owed, raced>>
    ELSE /\ \E s \in FreeScheduled :
              /\ \A r \in FreeScheduled : s <= r
              /\ scheduled' = [scheduled EXCEPT ![s] = c]
         /\ num' = (num + 1) % CountMod
         /\ owed' = [owed EXCEPT ![c] = @ + 1]
         /\ raced' = (raced \/ pc = "store")

(* The system tick. *)
Tick ==
  /\ ~firing
  /\ vtlist' = Ticked(vtlist)
  /\ firing' = Due(vtlist')
  /\ UNCHANGED <<vtcallbacks, scheduled, num, pc, i, reg, setting, owed, raced>>

(* The tick calls the first timer; that of an app is                       *)
(* post_timer_callback_to_arduino_thread.                                  *)
Fire ==
  /\ firing
  /\ vtlist' = Tail(vtlist)
  /\ firing' = Due(vtlist')
  /\ LET s == vtlist[1].par IN
       IF s = NoSlot THEN UNCHANGED <<vtcallbacks, scheduled, num, owed, raced>>
       ELSE vtcallbacks' = [vtcallbacks EXCEPT ![s] = Null] /\ Post(vtcallbacks[s])
  /\ UNCHANGED <<pc, i, reg, setting>>

-----------------------------------------------------------------------------
(* Mutant: the search starts at the second slot. *)
RunCallbacksFromSecond ==
  /\ ~firing
  /\ pc = "app" /\ setting = NoSetting
  /\ num # 0
  /\ pc' = "scan" /\ i' = 2
  /\ UNCHANGED <<vtcallbacks, vtlist, firing, scheduled, num, reg, setting, owed, raced>>

(* runCallbacks; it returns at once if the counter is zero. *)
RunCallbacks ==
  /\ ~firing
  /\ pc = "app" /\ setting = NoSetting
  /\ num # 0
  /\ pc' = "scan" /\ i' = 1
  /\ UNCHANGED <<vtcallbacks, vtlist, firing, scheduled, num, reg, setting, owed, raced>>

Scan ==
  /\ ~firing
  /\ pc = "scan" /\ i <= Slots
  /\ IF scheduled[i] = Null
       THEN i' = i + 1 /\ UNCHANGED <<pc, owed>>
       ELSE /\ pc' = "call" /\ UNCHANGED i
            /\ owed' = [owed EXCEPT ![scheduled[i]] = @ - 1]
  /\ UNCHANGED <<vtcallbacks, vtlist, firing, scheduled, num, reg, setting, raced>>

ScanDone ==
  /\ ~firing
  /\ pc = "scan" /\ i > Slots
  /\ pc' = "app" /\ i' = 1
  /\ UNCHANGED <<vtcallbacks, vtlist, firing, scheduled, num, reg, setting, owed, raced>>

(* The callback returns: its slot is emptied, then the counter is reduced. *)
Return ==
  /\ ~firing
  /\ pc = "call" /\ setting = NoSetting
  /\ scheduled' = [scheduled EXCEPT ![i] = Null]
  /\ pc' = "load"
  /\ UNCHANGED <<vtcallbacks, vtlist, firing, num, i, reg, setting, owed, raced>>

LoadCount ==
  /\ ~firing
  /\ pc = "load"
  /\ reg' = num
  /\ pc' = "store"
  /\ UNCHANGED <<vtcallbacks, vtlist, firing, scheduled, num, i, setting, owed, raced>>

(* Mutant: the counter is cleared. *)
StoreZero ==
  /\ ~firing
  /\ pc = "store"
  /\ num' = 0
  /\ pc' = "scan" /\ i' = i + 1
  /\ UNCHANGED <<vtcallbacks, vtlist, firing, scheduled, reg, setting, owed, raced>>

(* After a race the counter is too small, and may go below zero: it wraps. *)
StoreCount ==
  /\ ~firing
  /\ pc = "store"
  /\ num' = (reg + CountMod - 1) % CountMod
  /\ pc' = "scan" /\ i' = i + 1
  /\ UNCHANGED <<vtcallbacks, vtlist, firing, scheduled, reg, setting, owed, raced>>

Next ==
  \/ \E u \in Use : TakeSlot(u[1], u[2])
  \/ \E d \in Delay : Arm(d)
  \/ \E t \in Timer : ResetTimer(t)
  \/ \E t \in Sleeper : WakeEarly(t) \/ \E d \in Delay : Sleep(t, d)
  \/ Tick \/ Fire
  \/ RunCallbacks \/ Scan \/ ScanDone \/ Return \/ LoadCount \/ StoreCount

ThreadStep == (\E d \in Delay : Arm(d)) \/ Scan \/ ScanDone \/ LoadCount \/ StoreCount

(* Interrupts end and leave the thread time to run; the app calls          *)
(* runCallbacks again and again from its loop, and its callbacks return,   *)
(* whatever timers they set before that.                                   *)
Fairness ==
  /\ WF_vars(Fire)
  /\ SF_vars(ThreadStep) /\ SF_vars(RunCallbacks) /\ SF_vars(Return)

Spec == Init /\ [][Next]_vars /\ Fairness

-----------------------------------------------------------------------------
(* Type invariant *)
TypeOK ==
  /\ vtcallbacks \in [Slot -> Callback \cup {Null}]
  /\ vtlist \in Seq([vt : Timer \cup Sleeper, delta : 0 .. SystimeMod - 1, par : 0 .. Slots])
  /\ firing \in BOOLEAN
  /\ scheduled \in [Slot -> Callback \cup {Null}]
  /\ num \in 0 .. CountMod - 1 /\ reg \in 0 .. CountMod - 1
  /\ pc \in {"app", "scan", "call", "load", "store"}
  /\ i \in 1 .. Slots + 1
  /\ setting \in {NoSetting} \cup (Timer \X Slot)
  /\ owed \in [Callback -> 0 .. Slots]
  /\ raced \in BOOLEAN

(* A timer that is armed, or about to be, owns a slot that holds its       *)
(* callback: setTimer, resetTimer and the interrupt never leave two timers *)
(* with one slot or a timer with an empty one, so that a timer that fires  *)
(* posts what was set for it.                                              *)
ArmedOwnsSlot ==
  /\ \A k \in DOMAIN vtlist : vtlist[k].vt \in Timer =>
       /\ vtcallbacks[vtlist[k].par] # Null
       /\ \A j \in DOMAIN vtlist \ {k} : vtlist[j].par # vtlist[k].par
       /\ setting # NoSetting => setting[2] # vtlist[k].par
  /\ setting # NoSetting => vtcallbacks[setting[2]] # Null

(* A callback that was accepted is called exactly once: those accepted and *)
(* not called are the ones in the table, but for the one that is running.  *)
CalledOnce ==
  \A c \in Callback :
    owed[c] = Cardinality({s \in Slot : scheduled[s] = c /\ ~(pc = "call" /\ s = i)})

(* The counter is the number of slots taken whenever the thread is not     *)
(* between emptying a slot and reducing the counter, unless a timer fired  *)
(* right between the load and the store of the counter.                    *)
CountIsExact ==
  ~raced /\ pc \notin {"load", "store"} => num = Slots - Cardinality(FreeScheduled)

(* A callback that was accepted is run in the end, unless a timer fired    *)
(* between the load and the store of the counter.                          *)
EventuallyCalled ==
  \A s \in Slot : scheduled[s] # Null ~> (scheduled[s] = Null \/ raced)

(* The ticks until each timer of a list fires, -1 if it is not armed. *)
TicksLeft(l) ==
  [t \in Timer \cup Sleeper |->
     IF IsArmed(l, t) THEN Ahead(l, CHOOSE k \in Position(l, t) : TRUE) ELSE -1]

Clock == INSTANCE AlarmClock WITH
  Timer <- Timer \cup Sleeper,
  left <- TicksLeft(vtlist)

(* Every timer of the kernel's list fires at the tick that its own delay   *)
(* asked for, whichever others are set, reset, set again or fire in        *)
(* between: the list of deltas implements a set of independent countdowns. *)
ClockSpec == Clock!Spec

(* No timer is further away than the longest delay that any was set with:  *)
(* "the timer is enabled and programmed to trigger after the delay         *)
(* specified as parameter".                                                *)
NeverLate ==
  \A k \in DOMAIN vtlist : \E d \in Delay : Ahead(vtlist, k) <= d
=============================================================================
