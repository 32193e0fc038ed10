------------------------------- MODULE Threads -------------------------------
(***************************************************************************)
(* The threads of an app: the kernel's scheduler, thread references,       *)
(* sleeping, waiting for a thread's end and mutexes with priority          *)
(* inheritance (os/rt/src/chschd.c, chthreads.c, chmtx.c), as the system   *)
(* calls of orchard/arduino-chibios.c use them.                            *)
(*                                                                         *)
(* A system call is one step, as it holds the kernel's lock, but for the   *)
(* walk along a chain of mutex owners in chMtxLockS, which is one step per *)
(* owner.  An interrupt is a step that enters it, the wake-ups that its    *)
(* callbacks make, and an epilogue that may switch threads; the vectors of *)
(* the SPI, the I2C and the PMC have none.  When a timer expires is left   *)
(* open.  Threads only unlock the mutex that they locked last, do not lock *)
(* one twice, own none when they exit, and suspend on a reference that is  *)
(* free: the kernel's disabled assertions demand it.                       *)
(* main's thread is the idle loop of this build (CH_CFG_NO_IDLE_THREAD)    *)
(* and never blocks.                                                       *)
(***************************************************************************)
EXTENDS Integers, Sequences, SequencesExt, FiniteSetsExt

CONSTANTS
  Thread,   \* all threads
  Main,     \* the thread of main, which spins for ever
  Base,     \* the priority that a thread is created with
  Mutex,    \* the mutexes
  Ref,      \* the thread references
  Quantum,  \* CH_CFG_TIME_QUANTUM
  None      \* NULL

ASSUME ThreadsAssumption ==
  /\ Main \in Thread
  /\ Base \in [Thread -> Nat \ {0}]
  /\ Quantum \in Nat \ {0}
  /\ None \notin Thread \cup Mutex \cup Ref

(* The messages that a waiting call returns; an exit code is one, too. *)
Msg == {"ok", "timeout"}

State == {"wtstart", "current", "ready", "suspended", "sleeping", "wtmtx", "wtexit", "final"}

VARIABLES
  cur,      \* currp
  ready,    \* the ready list, without the current thread
  state,    \* p_state; "wtstart" before a thread is created
  prio,     \* p_prio, the base priority or an inherited one
  slices,   \* p_preempt
  u,        \* p_u: the reference, the mutex or the message
  timer,    \* the timer on the stack of a thread's waiting call is armed
  ref,      \* thread references
  owner,    \* m_owner
  mtxlist,  \* p_mtxlist, the mutexes a thread owns, the last one first
  queue,    \* m_queue
  waiting,  \* p_waiting
  isr,      \* the interrupt that is being served, or NoIsr
  missed,   \* a handler without an epilogue left a more urgent thread ready
  walk      \* <<mutex, owner>> while chMtxLockS walks, <<>> otherwise

vars == <<cur, ready, state, prio, slices, u, timer, ref, owner, mtxlist, queue, waiting, isr, missed, walk>>

NoIsr == "none"
NoWalk == <<>>

Init ==
  /\ cur = Main /\ ready = <<>>
  /\ state = [t \in Thread |-> IF t = Main THEN "current" ELSE "wtstart"]
  /\ prio = Base
  /\ slices = [t \in Thread |-> Quantum]
  /\ u = [t \in Thread |-> None]
  /\ timer = [t \in Thread |-> FALSE]
  /\ ref = [r \in Ref |-> None]
  /\ owner = [m \in Mutex |-> None]
  /\ mtxlist = [t \in Thread |-> <<>>]
  /\ queue = [m \in Mutex |-> <<>>]
  /\ waiting = [t \in Thread |-> <<>>]
  /\ isr = NoIsr /\ missed = FALSE /\ walk = NoWalk

-----------------------------------------------------------------------------
(* chSchReadyI and queue_prio_insert: behind all of the same priority. *)
InsertBehind(q, t, p) ==
  LET k == CHOOSE j \in 1 .. Len(q) + 1 :
             /\ \A i \in 1 .. j - 1 : p[q[i]] >= p[t]
             /\ j <= Len(q) => p[q[j]] < p[t]
  IN  InsertAt(q, k, t)

(* chSchDoRescheduleAhead: ahead of all of the same priority. *)
InsertAhead(q, t, p) ==
  LET k == CHOOSE j \in 1 .. Len(q) + 1 :
             /\ \A i \in 1 .. j - 1 : p[q[i]] > p[t]
             /\ j <= Len(q) => p[q[j]] <= p[t]
  IN  InsertAt(q, k, t)

Dequeue(q, t) == RemoveAt(q, CHOOSE k \in DOMAIN q : q[k] = t)

(* NOPRIO if the list is empty. *)
FirstPrio(q, p) == IF q = <<>> THEN 0 ELSE p[q[1]]

(* A thread that becomes current and was in a call with a timeout goes on  *)
(* in chSchGoSleepTimeoutS, still under the lock, and disables its timer;  *)
(* its call returns, and what p_u holds from now on does not matter.       *)
MakeCurrent(t, st, tm, v) ==
  /\ cur' = t
  /\ u' = [v EXCEPT ![t] = None]
  /\ state' = [st EXCEPT ![t] = "current"]
  /\ timer' = [tm EXCEPT ![t] = FALSE]

(* chSchGoSleepS of a thread whose p_u is w, with the ready list rd and    *)
(* the timers tm                                                           *)
GoSleep(st, w, rd, tm) ==
  /\ MakeCurrent(Head(rd), [state EXCEPT ![cur] = st], tm, [u EXCEPT ![cur] = w])
  /\ ready' = Tail(rd)
  /\ slices' = [slices EXCEPT ![cur] = Quantum]
  /\ missed' = FALSE

(* chSchWakeupS, which makes the new thread current if its priority is     *)
(* higher.                                                                 *)
Wakeup(t, msg) ==
  IF prio[t] <= prio[cur]
    THEN /\ ready' = InsertBehind(ready, t, prio)
         /\ state' = [state EXCEPT ![t] = "ready"]
         /\ u' = [u EXCEPT ![t] = msg]
         /\ UNCHANGED <<cur, timer>>
    ELSE /\ ready' = InsertBehind(ready, cur, prio)
         /\ MakeCurrent(t, [state EXCEPT ![cur] = "ready"], timer, u)

(* chSchDoRescheduleBehind *)
RescheduleBehind ==
  /\ ready' = InsertBehind(Tail(ready), cur, prio)
  /\ slices' = [slices EXCEPT ![cur] = Quantum]
  /\ MakeCurrent(Head(ready), [state EXCEPT ![cur] = "ready"], timer, u)
  /\ missed' = FALSE

(* chSchDoRescheduleAhead, with the priorities p and the states st *)
RescheduleAhead(rd, p, st) ==
  /\ ready' = InsertAhead(Tail(rd), cur, p)
  /\ MakeCurrent(Head(rd), [st EXCEPT ![cur] = "ready"], timer, u)
  /\ missed' = FALSE

-----------------------------------------------------------------------------
(* The current thread runs and may make system calls. *)
Running == isr = NoIsr /\ walk = NoWalk

(* main creates the app's first thread and then spins. *)
InApp == Running /\ cur # Main

(* createThread, of a thread whose memory has not been used before, and    *)
(* chBootToApp                                                             *)
Create(t) ==
  /\ Running
  /\ state[t] = "wtstart"
  /\ cur = Main => \A s \in Thread \ {Main} : state[s] = "wtstart"
  /\ Wakeup(t, "ok")
  /\ UNCHANGED <<prio, slices, ref, owner, mtxlist, queue, waiting, isr, missed, walk>>

(* suspendThread and, with a timer, suspendThreadTimeout *)
Suspend(r, timeout) ==
  /\ InApp
  /\ ref[r] = None
  /\ ref' = [ref EXCEPT ![r] = cur]
  /\ GoSleep("suspended", r, ready, [timer EXCEPT ![cur] = timeout])
  /\ UNCHANGED <<prio, owner, mtxlist, queue, waiting, isr, walk>>

(* resumeThread; it does nothing if no thread is suspended there. *)
Resume(r) ==
  /\ InApp
  /\ ref[r] # None
  /\ ref' = [ref EXCEPT ![r] = None]
  /\ Wakeup(ref[r], "ok")
  /\ UNCHANGED <<prio, slices, owner, mtxlist, queue, waiting, isr, missed, walk>>

(* yieldThread *)
Yield ==
  /\ InApp
  /\ FirstPrio(ready, prio) >= prio[cur]
  /\ RescheduleBehind
  /\ UNCHANGED <<prio, ref, owner, mtxlist, queue, waiting, isr, walk>>

(* threadSleep, threadSleepUntil and delay, with a time that ends *)
Sleep ==
  /\ InApp
  /\ GoSleep("sleeping", None, ready, [timer EXCEPT ![cur] = TRUE])
  /\ UNCHANGED <<prio, ref, owner, mtxlist, queue, waiting, isr, walk>>

(* waitThread; it returns at once if the thread has ended. *)
Wait(t) ==
  /\ InApp
  /\ t # cur
  /\ state[t] \notin {"wtstart", "final"}
  /\ waiting' = [waiting EXCEPT ![t] = <<cur>> \o @]
  /\ GoSleep("wtexit", None, ready, timer)
  /\ UNCHANGED <<prio, ref, owner, mtxlist, queue, isr, walk>>

(* Mutant: one thread is woken, not all. *)
ReadyFirst(q, ts) == IF ts = <<>> THEN q ELSE InsertBehind(q, ts[1], prio)

(* chSchReadyI of one thread of a list after the other *)
ReadyAll(q, ts) ==
  LET rd[k \in 0 .. Len(ts)] == IF k = 0 THEN q ELSE InsertBehind(rd[k - 1], ts[k], prio)
  IN  rd[Len(ts)]

(* exitThread *)
Exit ==
  /\ InApp
  /\ mtxlist[cur] = <<>>
  /\ waiting' = [waiting EXCEPT ![cur] = <<>>]
  /\ LET woken == ToSet(waiting[cur])
         rd == ReadyAll(ready, waiting[cur])
     IN  /\ ready' = Tail(rd)
         /\ MakeCurrent(Head(rd),
              [t \in Thread |-> IF t = cur THEN "final"
                                ELSE IF t \in woken THEN "ready" ELSE state[t]],
              timer, [u EXCEPT ![cur] = "ok"])
  /\ missed' = FALSE
  /\ slices' = [slices EXCEPT ![cur] = Quantum]
  /\ UNCHANGED <<prio, ref, owner, mtxlist, queue, isr, walk>>

-----------------------------------------------------------------------------
(* mutexLock and mutexTryLock of a free mutex; mutexTryLock changes        *)
(* nothing if it is owned.                                                 *)
Take(m) ==
  /\ InApp
  /\ owner[m] = None
  /\ owner' = [owner EXCEPT ![m] = cur]
  /\ mtxlist' = [mtxlist EXCEPT ![cur] = <<m>> \o @]
  /\ UNCHANGED <<cur, ready, state, prio, slices, u, timer, ref, queue, waiting, isr, missed, walk>>

(* mutexLock of a mutex that another thread owns: the walk begins. *)
Lock(m) ==
  /\ InApp
  /\ owner[m] \notin {None, cur}
  /\ walk' = <<m, owner[m]>>
  /\ UNCHANGED <<cur, ready, state, prio, slices, u, timer, ref, owner, mtxlist, queue, waiting, isr, missed>>

Boost(t) == [prio EXCEPT ![t] = prio[cur]]

(* An owner of lower priority that waits for a mutex itself is moved in    *)
(* that queue, and the walk goes on to the owner of that mutex.            *)
WalkOn ==
  /\ walk # NoWalk
  /\ LET t == walk[2] IN
       /\ prio[t] < prio[cur]
       /\ state[t] = "wtmtx"
       /\ prio' = Boost(t)
       /\ queue' = [queue EXCEPT ![u[t]] = InsertBehind(Dequeue(@, t), t, prio')]
       /\ walk' = <<walk[1], owner[u[t]]>>
  /\ UNCHANGED <<cur, ready, state, slices, u, timer, ref, owner, mtxlist, waiting, isr, missed>>

(* Mutant: an owner that is ready keeps its place in the ready list. *)
WalkEndKeepsPlace ==
  /\ walk # NoWalk
  /\ LET m == walk[1]
         t == walk[2]
         boost == prio[t] < prio[cur]
     IN  /\ ~(boost /\ state[t] = "wtmtx")
         /\ prio' = IF boost THEN Boost(t) ELSE prio
         /\ queue' = [queue EXCEPT ![m] = InsertBehind(@, cur, prio')]
         /\ GoSleep("wtmtx", m, ready, timer)
  /\ walk' = NoWalk
  /\ UNCHANGED <<ref, owner, mtxlist, waiting, isr>>

(* The walk ends at an owner of no lower priority, or at one that does not *)
(* wait for a mutex; the thread sleeps in the queue of its mutex.          *)
WalkEnd ==
  /\ walk # NoWalk
  /\ LET m == walk[1]
         t == walk[2]
         boost == prio[t] < prio[cur]
         rd == IF boost /\ state[t] = "ready"
                 THEN InsertBehind(Dequeue(ready, t), t, prio') ELSE ready
     IN  /\ ~(boost /\ state[t] = "wtmtx")
         /\ prio' = IF boost THEN Boost(t) ELSE prio
         /\ queue' = [queue EXCEPT ![m] = InsertBehind(@, cur, prio')]
         /\ GoSleep("wtmtx", m, rd, timer)
  /\ walk' = NoWalk
  /\ UNCHANGED <<ref, owner, mtxlist, waiting, isr>>

(* Mutant: the thread goes back to its base priority. *)
NewPrioBase(t, ms) == Base[t]

(* The base priority, or that of the first in the queue of a mutex that is *)
(* still owned if it is higher.                                            *)
NewPrio(t, ms) == Max({Base[t]} \cup {FirstPrio(queue[m], prio) : m \in ms})

(* mutexUnlock *)
Unlock ==
  /\ InApp
  /\ mtxlist[cur] # <<>>
  /\ LET m == Head(mtxlist[cur])
         rest == Tail(mtxlist[cur])
         t == Head(queue[m])
         rd == InsertBehind(ready, t, prio')
         st == [state EXCEPT ![t] = "ready"]
     IN  IF queue[m] = <<>>
           THEN /\ owner' = [owner EXCEPT ![m] = None]
                /\ mtxlist' = [mtxlist EXCEPT ![cur] = rest]
                /\ UNCHANGED <<cur, ready, state, prio, u, timer, queue, missed>>
           ELSE /\ prio' = [prio EXCEPT ![cur] = NewPrio(cur, ToSet(rest))]
                /\ queue' = [queue EXCEPT ![m] = Tail(@)]
                /\ owner' = [owner EXCEPT ![m] = t]
                /\ mtxlist' = [mtxlist EXCEPT ![cur] = rest, ![t] = <<m>> \o @]
                /\ IF FirstPrio(rd, prio') > prio'[cur]
                     THEN RescheduleAhead(rd, prio', st)
                     ELSE /\ ready' = rd /\ state' = st /\ missed' = FALSE
                          /\ UNCHANGED <<cur, u, timer>>
  /\ UNCHANGED <<slices, ref, waiting, isr, walk>>

-----------------------------------------------------------------------------
(* An interrupt other than the tick begins. *)
Interrupt ==
  /\ Running
  /\ isr' = "irq"
  /\ UNCHANGED <<cur, ready, state, prio, slices, u, timer, ref, owner, mtxlist, queue, waiting, missed, walk>>

(* chSysTimerHandlerI; the timers that it calls are Timeout steps. *)
Tick ==
  /\ Running
  /\ isr' = "tick"
  /\ slices' = [slices EXCEPT ![cur] = IF @ > 0 THEN @ - 1 ELSE 0]
  /\ UNCHANGED <<cur, ready, state, prio, u, timer, ref, owner, mtxlist, queue, waiting, missed, walk>>

(* chSchReadyI in an interrupt *)
ReadyI(t, msg) ==
  /\ u' = [u EXCEPT ![t] = msg]
  /\ ready' = InsertBehind(ready, t, prio)
  /\ state' = [state EXCEPT ![t] = "ready"]

(* resumeThreadI, from a callback in the interrupt *)
ResumeI(r) ==
  /\ isr # NoIsr
  /\ ref[r] # None
  /\ ref' = [ref EXCEPT ![r] = None]
  /\ ReadyI(ref[r], "ok")
  /\ UNCHANGED <<cur, prio, slices, timer, owner, mtxlist, queue, waiting, isr, missed, walk>>

(* Mutant: the message is stored before the state is looked at. *)
TimeoutStoresFirst(t) ==
  /\ isr = "tick"
  /\ timer[t]
  /\ timer' = [timer EXCEPT ![t] = FALSE]
  /\ IF state[t] = "ready"
       THEN u' = [u EXCEPT ![t] = "timeout"] /\ UNCHANGED <<ready, state, ref>>
       ELSE /\ ref' = IF state[t] = "suspended" THEN [ref EXCEPT ![u[t]] = None] ELSE ref
            /\ ReadyI(t, "timeout")
  /\ UNCHANGED <<cur, prio, slices, owner, mtxlist, queue, waiting, isr, missed, walk>>

(* Mutant: the reference is left to the thread that timed out. *)
TimeoutKeepsRef(t) ==
  /\ isr = "tick"
  /\ timer[t]
  /\ timer' = [timer EXCEPT ![t] = FALSE]
  /\ IF state[t] = "ready"
       THEN UNCHANGED <<u, ready, state, ref>>
       ELSE UNCHANGED ref /\ ReadyI(t, "timeout")
  /\ UNCHANGED <<cur, prio, slices, owner, mtxlist, queue, waiting, isr, missed, walk>>

(* wakeup, the callback of a thread's timer.  The thread may have been     *)
(* made ready before; it has not run since, or the timer would be off.     *)
Timeout(t) ==
  /\ isr = "tick"
  /\ timer[t]
  /\ timer' = [timer EXCEPT ![t] = FALSE]
  /\ IF state[t] = "ready"
       THEN UNCHANGED <<u, ready, state, ref>>
       ELSE /\ ref' = IF state[t] = "suspended" THEN [ref EXCEPT ![u[t]] = None] ELSE ref
            /\ ReadyI(t, "timeout")
  /\ UNCHANGED <<cur, prio, slices, owner, mtxlist, queue, waiting, isr, missed, walk>>

(* Mutant: only a more urgent thread preempts, quantum or no quantum. *)
EpilogueForUrgent ==
  /\ isr # NoIsr
  /\ isr' = NoIsr
  /\ LET p1 == FirstPrio(ready, prio)
         p2 == prio[cur]
     IN  \/ slices[cur] > 0 /\ p1 > p2 /\ RescheduleAhead(ready, prio, state) /\ UNCHANGED slices
         \/ slices[cur] = 0 /\ p1 > p2 /\ RescheduleBehind
         \/ /\ p1 <= p2
            /\ missed' = FALSE
            /\ UNCHANGED <<cur, ready, state, u, timer, slices>>
  /\ UNCHANGED <<prio, ref, owner, mtxlist, queue, waiting, walk>>

(* The epilogue of the interrupt, chSchIsPreemptionRequired and            *)
(* chSchDoReschedule.                                                      *)
Epilogue ==
  /\ isr # NoIsr
  /\ isr' = NoIsr
  /\ LET p1 == FirstPrio(ready, prio)
         p2 == prio[cur]
     IN  \/ slices[cur] > 0 /\ p1 > p2 /\ RescheduleAhead(ready, prio, state) /\ UNCHANGED slices
         \/ slices[cur] = 0 /\ p1 >= p2 /\ RescheduleBehind
         \/ /\ IF slices[cur] > 0 THEN p1 <= p2 ELSE p1 < p2
            /\ missed' = FALSE
            /\ UNCHANGED <<cur, ready, state, u, timer, slices>>
  /\ UNCHANGED <<prio, ref, owner, mtxlist, queue, waiting, walk>>

(* Vector68, Vector60 or Vector58 returns without an epilogue; the threads *)
(* that its callback made ready wait for the next interrupt that has one.  *)
ReturnBare ==
  /\ isr = "irq"
  /\ isr' = NoIsr
  /\ missed' = (missed \/ FirstPrio(ready, prio) > prio[cur])
  /\ UNCHANGED <<cur, ready, state, prio, slices, u, timer, ref, owner, mtxlist, queue, waiting, walk>>

Next ==
  \/ \E t \in Thread : Create(t) \/ Wait(t) \/ Timeout(t)
  \/ \E r \in Ref : Resume(r) \/ ResumeI(r) \/ \E b \in BOOLEAN : Suspend(r, b)
  \/ Yield \/ Sleep \/ Exit
  \/ \E m \in Mutex : Take(m) \/ Lock(m)
  \/ WalkOn \/ WalkEnd \/ Unlock
  \/ Interrupt \/ Tick \/ Epilogue \/ ReturnBare

(* Interrupts and walks end; the request of the tick stays pending until   *)
(* it is served, however many other interrupts there are.                  *)
Fairness ==
  /\ SF_vars(Tick) /\ WF_vars(Epilogue \/ ReturnBare \/ WalkOn \/ WalkEnd)

Spec == Init /\ [][Next]_vars /\ Fairness

-----------------------------------------------------------------------------
(* Type invariant *)
TypeOK ==
  /\ cur \in Thread /\ ready \in Seq(Thread)
  /\ state \in [Thread -> State]
  /\ prio \in [Thread -> Nat] /\ slices \in [Thread -> 0 .. Quantum]
  /\ u \in [Thread -> {None} \cup Ref \cup Mutex \cup Msg]
  /\ timer \in [Thread -> BOOLEAN]
  /\ ref \in [Ref -> Thread \cup {None}]
  /\ owner \in [Mutex -> Thread \cup {None}]
  /\ mtxlist \in [Thread -> Seq(Mutex)]
  /\ queue \in [Mutex -> Seq(Thread)]
  /\ waiting \in [Thread -> Seq(Thread)]
  /\ isr \in {NoIsr, "tick", "irq"} /\ missed \in BOOLEAN
  /\ walk \in {NoWalk} \cup (Mutex \X Thread)

Holds(q, ts) == ToSet(q) = ts /\ IsInjective(q)

(* Every list of the kernel holds exactly the threads whose state says so, *)
(* once each, whichever way they were woken, a timeout and a resume in the *)
(* same interrupt included.  No thread waits for one that has ended or for *)
(* a mutex that is free, and a mutex has one owner.                        *)
ListsAgree ==
  /\ \A t \in Thread : state[t] = "current" <=> t = cur
  /\ Holds(ready, {t \in Thread : state[t] = "ready"})
  /\ \A m \in Mutex : Holds(queue[m], {t \in Thread : state[t] = "wtmtx" /\ u[t] = m})
  /\ \A t \in Thread : \A w \in ToSet(waiting[t]) : state[w] = "wtexit"
  /\ \A w \in Thread : state[w] = "wtexit" =>
       \E t \in Thread : w \in ToSet(waiting[t]) /\ state[t] # "final"
  /\ \A m \in Mutex, t \in Thread : owner[m] = t <=> m \in ToSet(mtxlist[t])
  /\ \A t \in Thread : IsInjective(mtxlist[t])
  /\ \A m \in Mutex : owner[m] = None => queue[m] = <<>>

(* A reference names a thread as long as it is suspended there, and no     *)
(* longer, so that a resume never wakes a thread that went on.  A timer    *)
(* that is armed belongs to a call that its thread has not left: the timer *)
(* is on the stack.                                                        *)
WaitsAgree ==
  /\ \A r \in Ref, t \in Thread : ref[r] = t <=> state[t] = "suspended" /\ u[t] = r
  /\ \A t \in Thread : timer[t] => state[t] \in {"suspended", "sleeping", "ready"}
  /\ \A t \in Thread : state[t] = "sleeping" => timer[t]

(* The ready list and the queues are in the order of the priorities at all *)
(* times, boosts included, and outside of interrupts and walks no thread   *)
(* of higher priority is ready, the assertion in chSchWakeupS, unless one  *)
(* was woken by a handler without an epilogue.                             *)
PriorityOrder ==
  /\ \A i, j \in DOMAIN ready : i < j => prio[ready[i]] >= prio[ready[j]]
  /\ \A m \in Mutex : \A i, j \in DOMAIN queue[m] :
       i < j => prio[queue[m][i]] >= prio[queue[m][j]]
  /\ Running /\ ~missed => FirstPrio(ready, prio) <= prio[cur]

(* Priority inheritance is exact: but for a walk under way a thread has    *)
(* its base priority or that of the most urgent thread that waits, in      *)
(* however many steps, for a mutex that it owns; it keeps no more of it    *)
(* when it unlocks.                                                        *)
Inherited ==
  walk = NoWalk =>
    \A t \in Thread :
      prio[t] = Max({Base[t]} \cup
                    {prio[w] : w \in UNION {ToSet(queue[m]) : m \in ToSet(mtxlist[t])}})

(* A thread that was woken returns from its call with the message of       *)
(* whoever woke it first, and an exit code stays what it is: neither is    *)
(* overwritten, as by a timeout that comes after a resume.                 *)
MessageStays ==
  [][\A t \in Thread :
       state[t] \in {"ready", "final"} /\ state'[t] = state[t] => u'[t] = u[t]]_vars

(* A thread that is ready gets to run, unless one of higher priority does, *)
(* although another of its priority computes for ever and makes no call:   *)
(* the tick counts its quantum down and takes the processor away from it.  *)
(* A thread that a handler without an epilogue woke is not forgotten.      *)
RoundRobin ==
  \A t \in Thread :
    state[t] = "ready" ~> (state[t] # "ready" \/ prio[cur] > prio[t])
=============================================================================
