# A TLA+ model of the ChibiChip operating system (ltc-os)

The ChibiChip is a small Kinetis KL02 board that is programmed over audio. Its
boot loader listens to a microphone, demodulates the sound into bits, the bits
into packets, and writes the packets' blocks into flash until a program is
complete; then it runs the program. A program that runs uses a small Arduino
library on top of the ChibiOS kernel. This directory models the boot loader,
which is the repository's own core logic (`orchard/`), and the parts of the
library that have a protocol of their own: timers, threads and mutexes, soft PWM,
tones and the heap. Of the vendored kernel and HAL (`os/`, `test/`, `testhal/`,
`demos/`) what an app's system calls reach is modelled: the scheduler, threads,
mutexes, virtual timers and the heap.

## Inventory

| Component | Source | State | Operations | Interacts with | What is hard | Correct when |
|---|---|---|---|---|---|---|
| Updater | `esplanade_updater.c` | `astate`; in flash: program ID, `complete`, `blockmap`, program | `updaterPacketProcess`: a case per state; `init_storage_header`; `bootToUserApp` | called by `demod_loop` with a packet; flash driver; app header | power failure between or inside two flash commands; ignored flash errors; data packets without a program ID; resuming | a complete mark means a verified image; no word is programmed twice; repeating a recording gets it to run |
| Flash driver | `flash.c` | the flash | `flashEraseSectors`, `flashProgram` | the updater | partial erase, failed command | blank check before programming |
| Boot decision | `main.c`, `esplanade_app.c` | reset level, app header | `demod_thread`, `appIsValid`, `errorCondition` | chooses the updater or the app | stale flash | no partial program runs (it may: see findings) |
| MAC | `esplanade_mac.c` | `mstate`, `idle_zeros`, byte and packet counters, `pktReady` | `putBitMac` per bit | called by the demodulator; `pktReady` polled by `demod_loop` | false sync, several packets within a batch, buffer bounds | waiting packets are kept, whole, in bounds; every sync after a long preamble is caught |
| Demodulator | `esplanade_demod.c` | filter window, run and holdover counters, `lbr_time`, PLL phase | `FSKdemod` per sample | called per frame by `phy_demodulate`; restarts the ADC; reads `astate` | pilot detection with glitches, timeouts, PLL range | bounded bits per batch; low rate always timed |
| Sampling | `esplanade_analog.c`, `main.c` | `mic_sample`, `bufloc`, `dataReadyFlag` | `analog_fast_isr`; the copy in `demod_loop` | interrupt and thread, no lock | torn copy, lost flag, counter overflow | batches whole and in order unless the thread was held up |
| App heap | `esplanade_app.c`, `chheap.c` | free list, blocks | `malloc`, `free`, `realloc` | threads of the app, the kernel's lock | size arithmetic, splitting and merging, another thread inside `realloc` | blocks tile the heap, are long enough, keep their contents |
| App timers | `arduino-chibios.c` | `vtcallbacks`, `scheduled_callbacks`, a counter | `setTimer`, `resetTimer`, `runCallbacks`, timer interrupt | interrupt and app thread | lost update of the counter, leaked slots, dropped callbacks | every timer that fires is run, once |
| Virtual timers | `chvt.c`, `chvt.h` | a list of timers, each with its distance from the one before | `chVTSet`, `chVTReset`, the tick | app timers, tones, sleeping threads, the tick | deltas of the neighbours, wrap-around | every timer fires at the tick its own delay asked for |
| Threads, mutexes | `chschd.c`, `chthreads.c`, `chmtx.c`; the wrappers in `arduino-chibios.c` | ready list, thread states and priorities, references, owners and queues of mutexes | `createThread`, `suspendThread`, `suspendThreadTimeout`, `resumeThread`, `resumeThreadI`, `yieldThread`, `threadSleep`, `waitThread`, `exitThread`, `mutexLock`, `mutexTryLock`, `mutexUnlock`, tick and other interrupts | each other; virtual timers | a timeout against a resume, chains of priority inheritance, preemption | nobody is lost from or twice in a list; priorities exact; everyone runs in turn |
| Soft PWM, tones, pins | `arduino-pwm.c`, `arduino-tone.c`, `lptmr.c`, `arduino-io.c` | `soft_pwm`, running flags, hook, tone timer, levels | `analogWrite`, `digitalWrite`, `pinMode`, `hookSoftPwm`, `softPwmTick`, `tone`, `noTone` | SPI and LPTMR interrupts, virtual timer, shared pins | start against unhook, stale stop timer, a late toggle | a value written is output |
| Interrupt tables, I2C, LEDs, time, math, printf, hash | `arduino-irqs.c`, ... | tables, registers | wrappers | hardware | little state of their own | not modelled |

`PROJECT.json` lists the hazards, each at its line, with the properties that
would catch it.

## Modules

- `Updater` - the updater, the flash commands it issues and the boot decision.
- `ProgramStore` - what the updater promises: flash holds one complete image or
  none. `Updater` refines it (`StoreSpec`).
- `UpdaterLive` - `Updater` in an environment that settles down, for liveness.
- `UpdaterProofs` - theorems about `Updater`.
- `Mac`, `MacProofs` - framing.
- `Demod`, `DemodProofs` - pilot detector, filter window, baud PLL.
- `Sampler`, `SamplerProofs` - ADC interrupt and thread.
- `VirtualTimers` - the kernel's list of timers, as operators on a sequence.
- `AlarmClock` - what the list promises: independent countdowns.
- `Timers`, `TimersProofs` - the timers of an app, on `VirtualTimers`; refines
  `AlarmClock` (`ClockSpec`).
- `Threads`, `ThreadsProofs` - scheduler, thread references, sleeping, waiting,
  mutexes.
- `SoftPwm` - the soft PWM of D4 and D5 and `digitalWrite`: state and steps.
- `Tone` - tones, their virtual timer and the LPTMR handler: state and steps.
- `Pins`, `PinsProofs` - composes `SoftPwm` and `Tone` on the same pins and thread;
  states the properties of both.
- `AppHeap`, `AppHeapProofs` - `malloc`, `free`, `realloc` and the kernel's heap.
- `MCUpdater`, `MCUpdaterLive`, `MCMac`, `MCTimers`, `MCThreads` - values of the
  constants for TLC.

Definitions whose comment begins with "Mutant" are deliberate errors; each
shows that one property notices one plausible bug. They are used by no
specification.

### Updater

`pc` says where the loader is: `boot` (`demod_thread` starts), `listen`
(`demod_loop` waits for `pktReady`), `process` (`updaterPacketProcess` is
entered with `pkt`), a flash command in progress (`erase`, `header`, `map`,
`data`, `complete`; `at` is the sector, field or word it is at), `check` (the
block map and full hash test after a data packet), `app` (the program runs),
`error` (`errorCondition`). `astate` is the code's variable. One step is one
flash command or the code between two commands, so that power can fail between
any two (`PowerLoss`) and in the middle of a word (`PowerLossTorn`); RAM is lost
then. `hdr`, `complete`, `blockmap` and `data` are the flash.

Abstractions. A word is a member of a small set with the erased value `Blank`
(a program may contain blank words) and the value `Torn` of a word cut short.
The hash of the program is its content, that is, collision free; the hash of a
packet is a Boolean. `version` in the header is never read and is left out; the
four words of the guid are one step. `flashProgram`'s margin reads change only
a result that nobody reads. The address range and alignment checks of `flash.c`
hold for the calls modelled. LEDs, messages and baud striping (an exclusive or
of the payload that the packet's hash covers) are left out. With `FlashFaults`
every erase and program command may fail, an erase command ends the loop, a
word may stay blank or be torn, and the code goes on, as it does. A header
field that cannot be read after such a failure makes the block loop run over an
unknown range: `CheckGarbageLength` allows each outcome. Data packets carry
block numbers of the device's range and lengths that fit it, as the host
produces them. The erase of a single sector is atomic.

### Mac

`putBitMac` case by case; bytes keep a width `ByteBits`. `mac_sync` is
represented by `matching`, whether the bytes so far are the sync bytes; of `pkt`
only the header bytes that decide the length are kept. `Bit`, `NextBatch` and
`TakePacket` are the loop: a batch delivers at most `BatchBits` bits, and
`pktReady` is looked at between batches only. `zeros`, `seen` and `long` record
the received stream for the properties.

### Demod

One action per sample of `FSKdemod`. `FSK_core`, the correlation, is reduced to
the sign of its result, and any sequence of signs is allowed. `runcount` is not
told apart above `RunThresh + 1`, as the code only compares it with the
threshold. `appIdle` is `astate == APP_IDLE`, which a batch cannot change.

### Sampler

`Isr` is `analog_fast_isr`; the thread polls, loads the volatile pointer and the
sample in two steps, demodulates and clears the flag. A sample is its number, so
that torn and lost batches can be seen. Time is counted in interrupts: a batch
is handled within `Budget < N` of them, which the measurements in the comment of
`demod_thread` give (1.87 ms of 3.48 ms); a batch that prints to the 9600 baud
port, and a packet, take any time.

### VirtualTimers, AlarmClock and Timers

`vtlist` is the kernel's list in the tick mode of this build
(`CH_CFG_ST_TIMEDELTA` is 0): the armed timers in the order of firing, each with
its delta. `Set`, `Reset`, `DoSet`, `DoReset` and `Ticked` are the functions of
`chvt.c` and `chvt.h`; deltas wrap at `SystimeMod`. Apps set timers with
`setTimer`, threads sleep or wait with a timeout (`Sleep`) and may be woken before
it (`WakeEarly`); the timers share the list. `Tick` is the tick's decrement,
`Fire` one turn of its loop, and nothing else runs until the loop is done. The
refinement mapping of `ClockSpec` gives a timer the sum of the deltas up to its
own.

`TakeSlot` and `Arm` are the two parts of `setTimer` that an interrupt can come
between; `Fire` calls `post_timer_callback_to_arduino_thread`, `Post` is its
search for a slot; `Scan`, `Return`, `LoadCount` and `StoreCount` are
`runCallbacks`, with the decrement of the counter as a load and a store. An app
sets and resets timers in its loop and in its callbacks (`InApp`). `owed` counts
callbacks accepted and not yet called; `raced` records that a timer fired between
load and store. After that the counter is too small: a callback may wait until
the next timer fires, and the counter may wrap. The model also shows two limits
of the code that no line of the repository calls wrong: `resetTimer`, and setting
a timer that is armed, leave the old slot of `vtcallbacks` taken for ever, and a
timer that fires while both slots of `scheduled_callbacks` are taken is dropped.
One thread of the app uses the timers, and a callback does not call
`runCallbacks` itself. `vt_systime`, which only `millis` and `micros` read, is left
out.

### Threads

One step is one system call, which runs under the kernel's lock, but for
`chMtxLockS`: its walk along the owners of mutexes is one step per owner (`Lock`,
`WalkOn`, `WalkEnd`), with nothing else in between. An interrupt is `Interrupt` or
`Tick`, any number of `ResumeI` steps and, in the tick, `Timeout` steps, and
`Epilogue`, which decides about preemption as `_port_irq_epilogue` does, or, for the
three vectors of `arduino-irqs.c` that have no epilogue, `ReturnBare`; `missed`
records that a thread of higher priority was left ready by such a vector. `cur`, `ready`, `state`, `prio`,
`slices`, `u`, `ref`, `owner`, `mtxlist`, `queue` and `waiting` are the kernel's
fields; `timer` says whether the timer on the stack of a thread's call is armed.
When it expires is left open here, as `Timers` is about that. A thread that
becomes current goes on inside its call, still under the lock, and disables the
timer; that is part of the step that makes it current (`MakeCurrent`), and `u`,
which nobody reads after that, is cleared.

What apps have to respect, because the kernel's assertions that would demand it
are switched off: unlock in reverse order, do not lock a mutex twice, own none at
the end, suspend on a reference that is free, call the I-class function from
interrupts only. Two threads may wait for each other's mutexes or ends; that is
the app's affair and the tick goes on. Left out: reuse of a thread's memory,
names, reference counts and the registry, `lockSystem`, and sleeping without an
end.

### SoftPwm, Tone and Pins

Who interrupts whom. `mcuconf.h` gives the vectors priorities, but
`nvicEnableVector` and `nvicSetSystemHandlerPriority` pack priorities into words
only if `__CORE_CM0_H_GENERIC` is defined (`nvic.c:59`), and this chip's header
is `core_cm0plus.h`: `IP[n]` and `SHP[n]` are then outside of the registers, and
every handler keeps priority 0 until an app is started. `chBootToApp`
(`esplanade_app.c:161-165`) then gives the system tick and every vector of the NVIC
priority 3. Handlers therefore interrupt the thread and never each other; when two
are requested the system tick goes first. An app that
changes priorities with `setInterruptPriority` is not modelled.

`SoftPwm`: one tick is one action, `Unhook` is the tick that stops itself.
`analogWrite` is three steps (store, round up, `soft_pwm_start`), `digitalWrite`
two. The test that rounds up may reload `soft_pwm` or use the stored value.
`byPort` tells the names `PTB(0)` and `PTA(7)`, for which `digitalWrite` does not
turn the PWM off, from the others. `level` is the output latch as it is between
ticks. `settled` marks a threshold that was there when the cycle began, `held`
the level that `digitalWrite` left a pin at; it is `Free` where the PWM or a tone
drives the pin, also where `digitalWrite` by the port's name left the PWM on
(`Kept`). Left out: the pull-ups of
inputs, the hardware PWM of pins 0 to 3, and what a hook does.

`Tone`: the thread's steps are the stores of `startLptmr` and `stopLptmr` that an
interrupt can come between; port, pad and compare register are one. The thread
runs only while the compare flag is clear, because the handler would run first.
`tone`, `noTone` and the timer that calls `stop_tone` are given a pin as the app
named it, `<<p, byPort>>`, and hand the name on to `digitalWrite`.
`Stuck` is a handler that returns without clearing the flag. Left out: the
one-time set-up of the LPTMR, handlers that the app attaches to its vector, and
absurd frequencies, for which `tone` does nothing.

`Pins`: one thread makes the calls of both modules, so that a call of one begins
only outside of a call of the other. `tone` makes the pin an output. `noTone` ends
with a call of `digitalWrite`, whose two steps are those of `SoftPwm`; the end of
a duration is `stop_tone`, that is, all of `noTone` in the system tick. A pin that
a tone toggles is not `settled` or `held` any more. The thread takes no step while
the request of the tone's timer is pending.

### AppHeap

Blocks are records in units of 8 bytes. The free list is kept in order of
addresses by `chHeapFree`, so a set represents it and first fit is the lowest
address. `mem` holds what threads write to their blocks and where headers are;
the contents of free blocks are forgotten. `moving` is a `realloc` between its
allocation and its copy. Sizes near 2^32, which wrap around in both roundings,
are outside of the model. `malloc` and `realloc` that find no block change
nothing and are not shown as steps.

## Runs

| Run | Shows | Bounds |
|---|---|---|
| `updater` | type, `CompleteMeansVerified`, `NoOverprogram`, `UpdaterStartsVerifiedApp`, refinement of `ProgramStore`, when flash commands may fail and power may go at any point | two programs, one with a blank word and a partial last block, one that is not an app; two blocks of two words; two sectors, so that an erase can be cut in half |
| `updater_live` | `GuidMeansHeader`, `BlankEntryMeansBlankBlock` (which need commands that do not fail), `EventuallyRuns` | two programs, of one block and of two |
| `mac` | bounds, `NoOverwrite`, `ReadyIsWhole`, `SyncIsCaught`, `PacketAfterSync` | bytes of 3 bits, preamble of 4 zeros, packets of 4 and 5 bytes; batches as long as the assumption allows |
| `demod` | ranges, `BitsInBounds`, `LowRateIsTimed`, `HoldoverWithinRun` | a turn of 16 with increment 3 and pull 1, threshold 4, hold-out 6, batches of 11 |
| `sampler` | `BatchIsWhole`, `NoBatchLost` | halves of 4 samples, the largest budget, a flag that overflows at 3 |
| `timers` | `ArmedOwnsSlot`, `CalledOnce`, `CountIsExact`, `EventuallyCalled`, refinement of `AlarmClock` | the code's two slots, two timers with a callback each, one sleeping thread, so that a timer can be inserted before, between and behind others; delays of 1 and 2 ticks; a counter modulo 4 (the code's is modulo 256), so that it wraps after few races |
| `threads` | `ListsAgree`, `WaitsAgree`, `PriorityOrder`, `Inherited`, `MessageStays`, `RoundRobin` | main at the lowest priority (`chsys.c:122`, as `CH_CFG_NO_IDLE_THREAD` is set) and three threads of the app, two of one priority and one of a higher, two mutexes (a chain of two owners), one reference, a quantum of one tick |
| `pins` | `NotStranded`, `DutyCycle`, `LowStays`, `EnabledIsSetUp`, `PulseComes`, `TimedToneEnds` | both pins, a cycle of 3 for values up to 15; values that give the thresholds 0, rounded up to 1, and 2; tones on one of the pins under both of its names, one rate and a frequency of 0 |
| `app_heap` | `Tiled`, `Coalesced`, `LongEnough`, `Intact` | 9 units, two threads with two blocks each, sizes 0, 8, 9 and 24 bytes, so that blocks fit exactly, leave a bare header, or do not fit |
| `partial_program`, `high_stays`, `zero_delay` | findings, below | three programs; as `pins`; as `timers`, with delays of 0 and 1 |

The bounds are the smallest at which every case of the code occurs: a block
that is not the first or last, a second sector, a program shorter than a block,
two programs that share words, a false sync inside a preamble, a run that
passes the threshold with a glitch, a flag that overflows.

### Findings

- `partial_program`: `demod_thread` starts whatever `appIsValid` accepts, that
  is, any first block with an app header. `esplanade_updater.h:41` says the hash
  is there to "fail partial programs". The updater itself never starts one
  (`UpdaterStartsVerifiedApp`).
- `high_stays`: `arduino-pwm.c:13` says that -1 disables the soft PWM of a pin;
  the end of a cycle clears the pin nevertheless, so that a level that
  `digitalWrite` set high is lost while the other pin is dimmed.
- `zero_delay`: `setTimer`, `delay` and `threadSleep` pass a delay of 0 on to the
  kernel. The tick decrements the delta before it compares it with zero
  (`chvt.h:510`), so that it wraps, and the timer and all behind it are late by
  2^32 ticks. `chvt.c:85` says that the value is not allowed; the check of it is
  switched off. `ClockSpec` shows that with longer delays every timer is exact.

The models also contain these behaviours, which are worth knowing and are not
checked by a run of their own:

- `esplanade_updater.c:80` says that upon receipt of a unique program ID "/all/ of
  program flash is erased"; while an update is under way control packets are
  ignored (`esplanade_updater.c:216`). If the program that is played instead is as
  long as the one being updated, a mixed image follows, which is caught by the full
  hash. If it is shorter, blocks are missing that its recording does not have, and
  the board listens for ever, however often the recording is played
  (`WaitsInVain`): without the user's restart there, `EventuallyRuns` fails.
- `digitalWrite`, `noTone` and the end of a tone set a pin low and turn its soft PWM
  off only if the pin is not named by its port (`arduino-io.c:327-330`). With
  `PTB(0)` or `PTA(7)`, which `canUsePin` accepts, the PWM goes on and raises the pin
  again, against `arduino-io.c:326` ("Disable the running PWM, if one exists") and
  `arduino-tone.c:54` ("Set the pin LOW to prevent speaker burnout"). `LowStays` and
  `LowHolds` are stated up to it (`Kept`).
- `esplanade_demod.c:196` says the threshold of a preamble is met exactly once; a
  glitch right at the threshold meets it, and restarts the ADC, again.
- `analogWrite` rounds small values up to threshold 1 (`arduino-pwm.c:167`), which
  sets and clears the pin within one tick: a threshold t gives t - 1 periods
  (`DutyCycle`).
- `noTone` lowers the pin it is called with (`arduino-tone.c:54`, "to prevent
  speaker burnout"), not the one that the timer drives: `noTone` with another pin
  leaves the driven one as it is.
- An LPTMR interrupt between the two stores of `stopLptmr`, or after `stop_tone`
  came into the middle of `startLptmr`, is returned from at `lptmr.c:116` without
  clearing its request, and comes again at once, for ever (`Stuck`).
- `chschd.c:209` says that interrupt handlers always reschedule on exit. `Vector68`,
  `Vector60` and `Vector58` (`arduino-irqs.c:170`) have no epilogue and do not: a
  thread that a handler of an app resumes there waits for the next tick, and
  until then the assertion in `chSchWakeupS` would fail. `PriorityOrder` is stated
  up to it (`missed`), and `RoundRobin` shows that the thread gets to run.
- Neither `noTone` nor a tone without a duration stops `tone_timer`, and the timer
  of an earlier tone silences a later one.

### Fairness

`EventuallyRuns` assumes, once the user has settled on a program: the loader's
code and its start-up go on (weak fairness; there is one thread and nothing
blocks it); the user restarts the board, button held, when the error light
blinks, the wrong program runs, or the board waits for blocks that the recording
does not have (`WaitsInVain`; `errorCondition` says a hard reset is required, and
the comment in `esplanade_updater.c` "press-and-hold to program"; strong fairness,
because the board that waits in vain stops listening for each packet); every
packet of the recording, which the host repeats, is received intact infinitely
often while the loader listens infinitely often (strong fairness: the loader does
not listen all the time, and packets may be missed or damaged any finite number of
times). A recording holds the control packet and the `ceil(length / blocksize)`
blocks of the program (`esplanade_mac.h:39`) and no others (`Recording`). Other programs' packets and
power failures stop at some point, flash commands do not fail.

`EventuallyCalled` assumes that the interrupt's loop ends (weak fairness), that
the thread runs on between interrupts, that the app calls `runCallbacks` again and
again, and that a callback returns in the end (strong fairness, because the
interrupts, and setting a timer, disable each of them for a while).

`RoundRobin` assumes that interrupts and walks end (weak fairness) and that the
tick is served (strong fairness: its request stays pending while other interrupts
or the kernel's lock hold it up). No thread has to do anything, least of all give
up the processor: of the app's two threads of the same priority either may compute
for ever. main's loop does too, but below all of them.

`pins`: the SPI interrupts as long as it is enabled, since every tick sends the
byte that makes the next; the tone's timer counts, its handler and the system
tick run (weak fairness); and calls go on between interrupts (strong fairness, as
every interrupt disables the thread for a while). `PulseComes` and `TimedToneEnds`
hold up to `Stuck`, where the code really hangs. Nothing makes an app call
anything.

## Proofs

All theorems hold for every value of the constants allowed by the named
assumptions.

`UpdaterProofs`. `Inv` strengthens the properties to an inductive invariant. It
says, besides the types: what the registers are in each `pc`; that while the
loader is about to program `complete` the image is verified; that a mark implies
a verified image; that where a word is about to be programmed the rest of its
range is blank. `CleanInv` adds what holds without failed commands: a readable
guid implies a whole header, a header with any field written implies that blank
map entries have blank blocks, and an erase goes up from sector 0, so that the
header disappears first. From these follow `TypeCorrect`, `CompleteIsVerified`,
`StartsVerified`, `NeverOverprogrammed`, `GuidIdentifiesHeader`,
`BlankEntryIsBlankBlock`, and `ImplementsStore`, the refinement of
`ProgramStore` (each step either leaves `Installed` alone, installs an image
where there was none, or wipes it). Assumptions: sizes and layout are positive,
`Blank` is a word, `Torn` is not, no hash equals either, a guid is neither.

`MacProofs`. `StateInv` relates the bit and byte counters to `mstate`, and
`BatchInv` counts the bits that must have passed since a packet became ready:
the next packet can begin only after more than `IdleZeros` zeros and three sync
bytes, more bits than are left in the batch. Hence `BufferIsFree`, the assertion
in `putBitMac`; `TypeCorrect` and `PacketIsWhole` follow as well.
`BatchAssumption`, at most `IdleZeros + 3 * ByteBits` bits in a batch, is what
`DemodProofs` establishes for the code's numbers: 256 samples at an increment of
6994 pulled by 1748 make at most 35 bits (`BatchFits`), and 35 is less than 56.
`StreamInv` relates the MAC to the stream that it received: `ZerosInv`, that it
knows of all the zeros at the end of the stream but for fewer than a byte, those
before a byte of zeros that ended a false start; `PartInv`, that the bits that have
arrived are the upper ones of `curbyte`; `SeenInv`, that bytes collected so far agree
with the sync bytes exactly if the stream does, bit by bit. Hence `SyncAlwaysCaught`
and `PacketsFollowSync`. The lemmas below are about powers of two and the bits of a
number (`PowerStep`, `TopBitSplit`, `Division`, `OneMoreBit`); `Pow2` is a recursive
function on the bits of a byte, whose existence is proved (`PowersExist`). The
assumption `IdleZeros >= 2 * (ByteBits - 1)` (32 and 8 in the code) says that the
zeros of two adjacent sync bytes are never taken for a preamble.

`DemodProofs`. The properties of the run are inductive together. `PllStep` is
the lemma that one sample moves the total phase by the increment, give or take
the pull. `TypeCorrect`, `BitsBounded`, `LowRateTimed` and `HoldoverInRun` follow.

`SamplerProofs`. The invariant says which sample numbers are in the two halves of
the buffer at every moment: all of the half before and the present one up to the
interrupt's index (`BufferInv`). While the thread is timed, the time since the
batch became ready is the interrupt's offset in the other half (`TimeInv`); with
`Budget < N` it follows that the interrupt does not come back to the half that is
being copied (`CopyInv`, `BatchInv`), and that the next batch goes on where this
one ended (`LastInv`). Hence `CopyIsWhole` and `NoneDropped`, for every depth of
the buffer and every width of the flag.

`AppHeapProofs`. `FreeOK` says that free blocks lie within the heap and neither
overlap nor touch; `HeapInv` adds the allocated ones, and that every unit is in one
of the two. First fit exists because a set of addresses has a least one
(`FirstOfNaturals`). `Rounded` is the lemma about `MEM_ALIGN_NEXT` and the rounding
of `realloc`: both keep room for the bytes asked for. `MovingInv` says that a thread
moves between two blocks of its own, so that the copy of a `realloc` touches
nobody else's. Hence `HeapIsTiled`, `FreeBlocksMerge`, `NeverTooShort` and
`ContentsSurvive`; and `NoFragmentsLeft`: when all is freed the heap is one block.

`TimersProofs`. The first part is about the delta list alone: `Set` and `Reset`
keep every other timer's sum of deltas, and a tick takes one from each. The sum is a
recursive function, whose existence (`SumExists`) follows from the least number for
which there would be none. The invariant then says that an armed timer owns its
slot (`Owns`), that accepted callbacks are those in the table (`CalledOnce`), and
what the counter is in the middle of its decrement (`CountInv`). `SlotIsOwned`,
`CallsAreExact` and `CounterIsExact` hold for every number of slots, timers and
sleepers. `ImplementsClock`, the refinement of `AlarmClock`, is proved under
`0 \notin Delay`: a delay of 0 is what the kernel's check forbids, and `zero_delay`
shows what happens with it. `TimeInv` is the strengthening it needs: no sum
reaches `SystimeMod`, and a timer is due only within the tick.

`ThreadsProofs`, for every set of threads, mutexes and references and every
assignment of base priorities. `Inv` is about lists and waits: `SchedInv`
(the current thread and the ready list), `WaitInv` (references and timers),
`QueueInv` and `OwnInv` (mutexes), `ExitInv` (each waiting thread waits for one end)
and `WalkInv` (a walk belongs to a call). `OrderInv` adds the order of the lists,
and `InhInv` the priorities: outside of a walk each thread has earned its priority
and is at least as urgent as those that wait for it; during one (`BoostInv`) the
owner that the walk is at is the only one that may be behind, and the first owner
has its new priority in advance. That last part is needed because `chMtxLockS`
changes priorities one owner at a time, and it is what shows that the walk may stop
at the first owner that is urgent enough. Below are lemmas about the lists:
inserting by priority, behind or ahead of equals, and unlinking keep them sorted
and without repetitions (`Linked`, `Unlinked`); one lemma about each of the
scheduler's functions (`GoSleepOK`, `WakeupOK`, `ReadyIOK`, `SwitchOK`); and one
about each action. The maximum that `chMtxUnlock` gives back is that of finitely many
naturals (`Bounded`, `MaxOK`, `NewPrioOK`), since each is below the old priority. Hence
`ListsAreExact`, `WaitsAreExact`, `ListsAreOrdered`, `MessagesStay` and
`InheritanceIsExact`. The priorities are positive, as `LOWPRIO` is.

`PinsProofs`. `DeviceInv` says that the tick's interrupt is on whenever the driver
thinks so, but for the moment of `soft_pwm_start` in which no tick can come;
`HeldIsOff` that a pin that a level is held on has no threshold, and that a call of
`digitalWrite` about to write the pad has turned the PWM off or has the pin by its
port, so that no tick raises what is held. `SetUpInv` orders the stores of `startLptmr`. Hence `TicksReachAll`,
`ExactDuty`, `LowHolds` and `TimerIsSetUp`, for every cycle, range of values and set
of periods. `ThresholdFits` is the lemma about the arithmetic of `analogWrite`.

Only model-checked: liveness, which is out of the prover's reach (`EventuallyRuns`,
`EventuallyCalled`, `RoundRobin`, `PulseComes`, `TimedToneEnds`). Every safety
invariant, action property and refinement of a passing run is a theorem.

## Not modelled

- App start (`chBootToApp`): straight-line copying and one thread creation.
- Attaching and detaching interrupt handlers (`arduino-irqs.c`): handlers do not
  interrupt each other, and each call is one store of a pointer next to register
  writes; `Start` and `Unhook` of `SoftPwm` contain the one case with a protocol.
- The hardware PWM of pins 0 to 3, `analogRead`, I2C, the LED strip, `millis` and
  `micros`, the flash system calls: calls of a driver or of the flash code that is
  modelled, without state of their own.
- printf, MurmurHash3, arithmetic libraries, the filter tables. The content of the
  correlation filter is numeric signal processing and stays out of TLC's reach.
- What no system call of an app reaches of the kernel: semaphores, condition
  variables, events, messages, mailboxes, the registry, dynamic threads; and
  the HAL, ports to other processors, demos and test suites, which are vendored
  and, for the greatest part, not built for this board.
- A half-erased sector: what it reads as is a property of the chip that no code
  tells.

## Plan

1. Done: the modules above, and every safety property of the passing runs as a
   theorem.
2. What the theorems imply together: that a packet which `Mac` hands on is the one
   that was sent, with `Mac`, `Demod` and `Sampler` composed; that the updater's
   blocks come from such packets only.
3. An abstract heap that `AppHeap` implements.
