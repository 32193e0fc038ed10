---------------------------- MODULE UpdaterLive ----------------------------
(***************************************************************************)
(* Updater in an environment that settles down.  Up to some moment         *)
(* anything may happen: packets of every program, noise, resets and power  *)
(* failures.  From then on a user wants one program on the device: only    *)
(* the packets of its recording (with noise) arrive, the host plays the    *)
(* recording again and again, the power stays on, and the user restarts    *)
(* the device with the button held when it shows the error light, runs     *)
(* something else or goes on listening although all was played to it.      *)
(***************************************************************************)
EXTENDS Updater

VARIABLE goal      \* the program the user wants, None before that

liveVars == <<vars, goal>>

IsApp(p) == \A i \in DOMAIN AppHeader : Image[p][i] = AppHeader[i]

(* The device runs program p, all of it. *)
Runs(p) ==
  /\ pc = "app"
  /\ Verified
  /\ hdr.fullhash = FullHash(Size[p], Image[p])

LiveInit == Init /\ goal = None

Disturbed == goal = None /\ Next /\ UNCHANGED goal

Settle ==
  /\ goal = None
  /\ goal' \in {p \in Program : IsApp(p)}
  /\ UNCHANGED vars

Quiet == goal # None /\ UNCHANGED goal

(* main and demod_thread start up; the button is held. *)
QuietBoot == Quiet /\ Boot(TRUE)

(* What the host plays for program p: its control packet and its           *)
(* ceil(length / blocksize) blocks.                                        *)
Recording(p) ==
  {m \in Packet : m.prog = p /\ (m.type = "data" => m.block < NumBlocks(Size[p]))}

QuietReceive(m) == Quiet /\ m \in Recording(goal) /\ Receive(m)

QuietProcess == Quiet /\ Process

(* The updater was left in the middle of a longer program, with a block to *)
(* come that the recording does not have.  It ignores control packets      *)
(* until that program is complete, and so listens for ever.                *)
WaitsInVain ==
  /\ pc = "listen" /\ astate = "UPDATING"
  /\ LengthReadable
  /\ \E b \in NumBlocks(Size[goal]) .. NumBlocks(hdr.length) - 1 : blockmap[b] = Blank

(* errorCondition never returns, and neither does an app; the user has to  *)
(* restart the device, and so where the updater waits in vain.             *)
UserRestart ==
  /\ Quiet
  /\ pc = "error" \/ (pc = "app" /\ ~Runs(goal)) \/ WaitsInVain
  /\ Restart
  /\ UNCHANGED flash

LiveNext ==
  \/ Disturbed \/ Settle
  \/ QuietBoot \/ QuietProcess \/ UserRestart
  \/ \E m \in Packet : QuietReceive(m)

(* The code runs on, the user reacts, and as the recording is repeated     *)
(* every packet of it is received intact again and again while the loader  *)
(* listens again and again.  An updater that waits in vain leaves its      *)
(* listening for each packet, so that the user's restart needs strong      *)
(* fairness.                                                               *)
LiveFairness ==
  /\ WF_liveVars(QuietBoot)
  /\ WF_liveVars(QuietProcess)
  /\ SF_liveVars(UserRestart)
  /\ \A m \in {x \in Packet : x.ok} : SF_liveVars(QuietReceive(m))

LiveSpec == LiveInit /\ [][LiveNext]_liveVars /\ LiveFairness

-----------------------------------------------------------------------------
(* From every state that packets of other programs, resets and power       *)
(* failures can leave in flash, repeating the recording of p gets p to     *)
(* run: a partly filled block map, blocks of another program and a         *)
(* half-written header are all recovered from, if need be with restarts by *)
(* the user.  Without the restart where it waits in vain this fails:       *)
(* "Upon receipt of unique md5, /all/ of program flash is erased" is not   *)
(* what an updater in APP_UPDATING does.                                   *)
EventuallyRuns == \A p \in Program : goal = p ~> Runs(p)
=============================================================================
