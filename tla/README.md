# Phicomm R1 Linux: verification development

The repository brings mainline Linux up on the Phicomm R1 speaker (RK3229, AK7755
audio DSP, a class-D amplifier behind two regulators). Most of it is board data,
build scripts and documentation; the logic of its own is in two ASoC drivers, the C
tools and scripts of the rescue images that drive them and the radios, a Bluetooth
audio supervisor, and host scripts that install images. This directory models that
logic in TLA+, checks small instances with TLC and proves what matters most for all
instances with TLAPS.

`PROJECT.json` lists the components, runs, mutants, findings, hazards and theorems,
and maps every definition to the source lines it translates.

## 1. Inventory

| component | modules | checked | proved |
|-----------|---------|---------|--------|
| amplifier safety gate | `AmpSafety`, `AmpGate`, `AmpGateProofs`, `AmpSafetyProofs` | amp_gate, amp_playback, amp_live, amp_lost_stop | every safety property, the refinement of `AmpSafety` included; `FollowsTriggers` for ordinary playback |
| AK7755 codec driver | `Ak7755Codec`, `Ak7755CodecProofs` | codec_faults, codec_stale_run | all |
| audible test client | `AudibleTest`, `AudibleTestProofs` | audible_programs | the safety properties; `StatusTells` for calls late by 256 frames at most |
| BlueALSA supervisor | `BluealsaSupervisor`, `BluealsaSupervisorProofs` | bluealsa_stack, bluealsa_impatient | the safety properties |
| eMMC installation | `EmmcInstall`, `EmmcInstallProofs` | emmc_scripts | the safety properties |
| radio tools of the rescue image | `BtMgmt`, `WifiScan`, composed in `RescueRadio`, `RescueRadioProofs` | rescue_radio | all |
| sound tools of the rescue images | `PcmTests`, `FactoryRoute`, composed in `RescueSound`, `RescueSoundProofs` | rescue_sound | all |

### Amplifier safety gate (`phicomm_r1_ak7755.c`) — modelled: `AmpGate`

*State.* Two regulators (`amp_enabled`: out of shutdown, `amp_unmuted`), the owner of
`/dev/r1-audio-safety`, the count of open PCM streams, the flags `playback_open`,
`playback_diagnostic`, `playback_active`; a mutex `safety_lock` over them. Outside the
lock: the atomics `safety_open` and `playback_requested`, the work item
`playback_work`, the delayed work `safety_timeout`.

*Operations.* open, release and the ioctls of the gate file; startup, prepare,
trigger, hw_free and shutdown of the PCM; the worker; the timeout; the platform
shutdown.

*Interaction.* The ALSA core calls the PCM operations (trigger in atomic context, so
it may only queue the worker); the test tools call the gate; both paths drive the same
regulators and must never do so at once. Four ioctls call the codec driver while
`safety_lock` is held.

*Hard.* Cancelling work that takes the lock one will take; a target that changes while
the worker sleeps; state checked inside the lock and changed outside it; a timeout
racing SAFE and KEEPALIVE; failures of each of two regulators halfway.

*Correct when* diagnostic owner and ordinary playback exclude one another, the
amplifier is enabled only while muted, a failing regulator still leaves silence, a
dead owner is silenced by the timeout, playback is audible when and only when its
last trigger says so, and nothing deadlocks.

### AK7755 codec driver (`ak7755.c`) — modelled: `Ak7755Codec`

*State.* The chip: configuration registers, CE (power), CF (cores and DLRDY), DA (soft
mute), D4 (volume), the firmware memories, the reset line. The driver: `lock`,
`open_streams`, `direct_output_running`, the recorded boundary and volume stages.

*Operations.* Probe with firmware download and CRC comparison; set_fmt (stages the
factory route at card bind); startup; prepare (RUN); shutdown (STANDBY after the last
stream); mute, volume and boundary changes requested through the gate.

*Interaction.* The ALSA core calls the DAI operations one at a time; the machine
driver's ioctls call the three requests, from another thread, holding `safety_lock`.
Both take the codec's `lock`; the reset line is driven outside it.

*Hard.* Every I2C transfer may fail, a failed write may have taken effect, and the data
of a successful one may be lost; error paths make further transfers; flags may disagree
with the chip.

*Correct when* the DSP runs only firmware whose CRC matched, a failing sequence ends
muted, powered down or in reset, outputs are switched only behind the soft mute, and
the flag and count that decide what is skipped agree with the chip.

### Audible test client (`r1-audible-test.c`) — modelled: `AudibleTest`

*State.* Two descriptors, the position in a fixed sequence of calls and loops, a buffer
of one period. *Operations.* Twelve programs are built from the file; each opens the
gate and the PCM, arms, plays zeros, unmutes, writes tones and zeros with a KEEPALIVE
before each period and codec requests between them, and ends in SAFE on every path.
*Interaction.* Calls of the gate (and through it of the codec), writes that block on the
PCM buffer, the gate's timeout. *Hard.* The buffer runs dry while a call takes its time,
the lease runs out in a loop that does not renew it, a kill or a failure anywhere.
*Correct when* an undisturbed run passes, PASS is only reported for tones that were
heard, and the amplifier is silent before the stream starts and stops and at the end.

### BlueALSA supervisor — modelled: `BluealsaSupervisor`

*State.* Per supervisor `running`, `bluealsa_pid`, `aplay_pid`; the pid file of the init
script; the daemons, their parents and the D-Bus name. *Operations.* The main loop of
`r1-bluealsa-supervisor` with its probe of the service, `stop_stack` and its traps;
start, stop and restart of `S45r1-bluealsa-stack`. *Interaction.* The init script
signals the supervisor and forgets it after five seconds; the supervisor forks, probes
and stops the daemons; they share one D-Bus name. *Hard.* TERM at any point, within
`wait` and within the EXIT trap too; a killed supervisor's orphans; a probe answered by
another instance; a stop that gives up. *Correct when* one supervisor, one daemon and
one player run, nothing is left behind by a stop, every stop ends, and the player
comes back.

### eMMC installation and recovery — modelled: `EmmcInstall`

*State.* Four ranges of the eMMC, the backup of the first one on the host, the running
script. *Operations.* `preflight-…`, `install-…`, `restore-…` and
`flash-diagnostic-recovery.sh`. *Interaction.* The operator runs them one after the
other; what one leaves behind is what the next finds. *Hard.* Commands that fail, lie or
are interrupted between two writes, a rollback that fails halfway, a backup captured
too late. *Correct when* a script's report is true, the first stage is written
only behind the image it loads, installation and rollback work on the original images,
and restore repairs what is left.

### Bluetooth and Wi-Fi clients — modelled: `BtMgmt`, `WifiScan`, `RescueRadio`

*State.* A tool's place in its sequence of requests, what its socket holds, what it has
counted; the kernel's: settings, a discovery or scan under way, requests not yet
answered, the list of stations. *Operations.* The six commands of `r1-btmgmt`, the run of
`r1-nl80211-scan`, the cycles of `r1-bt-coexist-test`. *Interaction.* Requests, replies and
events over one socket per process; the script runs the tools one after the other and
stops at the first that fails. *Hard.* A reply that comes after its request was given up,
events of somebody else's discovery, one tool's request still at work when the next tool
starts, a list that comes in any number of datagrams. *Correct when* a tool acts on the
answer to what it asked last, counts what its own scan found, and success means that
everything asked for was scanned.

### PCM tests and audio soak — modelled: `PcmTests`, `RescueSound`

*State.* A test's remaining bytes, its recoveries and its statistics; the device's ring
buffer; the script's line, its count of failures. *Operations.* Configure, transfer,
recovery, drop and verdict of `r1-pcm-clock-test` and `r1-pcm-capture-test`; the steps of
`r1-audio-soak`, which runs both in the background with the radio tools in front of them.
*Interaction.* Both devices hang on one I2S controller; the script waits for one test,
then for the other; `timeout` ends either. *Hard.* Partial transfers in front of an xrun,
a running mean in integers, a test that ends, fails or is killed in any order with the
script's lines. *Correct when* a passed test was gapless, the statistics are as exact
as integers allow, and the soak passes only if both tests did.

### Factory route tool — modelled: `FactoryRoute`

*State.* The position in a table of mixer controls, the item asked about, what each
control holds. *Operations.* Look up, write, give up. *Hard.* A failure in the middle of a
table whose order matters. *Correct when* a reported route is complete and no control
was set before those above it.

### Not to be modelled

The YMODEM serial bridge (a loop that copies bytes; the protocol is that of programs not
in the repository); the boot automation (bench scripts that wait for one prompt or USB
device after the other and keep no state); `initramfs/init`; the read-only register
probes (no state); device trees, kernel fragments, image descriptions and build scripts
(static data and file production); patches of third-party code that is not in the
repository; documentation. See section 11.

## 2. Plan

| # | module | models | abstract specification | theorems |
|---|--------|--------|------------------------|----------|
| 1 | `AmpGate` (done) | machine driver | `AmpSafety`: who may drive the amplifier (done) | types, exclusion, fail-closed, watchdog cover, silence at every end, implementation of `AmpSafety`, `FollowsTriggers` for ordinary playback (done) |
| 2 | `Ak7755Codec` (done) | probe, bind, RUN, STANDBY, requests, with I2C faults | a codec that is off, muted or playing (to do) | types, verified firmware, truthful flag, stopped when closed, quiet when stopped, mute before off (done) |
| 3 | `AudibleTest` (done) | the client programs against gate, codec and PCM buffer, in time | | quiet ends, types, PASS means heard, undisturbed runs pass, gentle tones (done) |
| 4 | `BluealsaSupervisor` (done) | supervisor and init script | | types, one stack, player behind service, nothing left behind (done) |
| 5 | `EmmcInstall` (done) | install, restore, preflight, recovery | | types, true reports, writes in order (done) |
| 6 | `RescueRadio` (done) | Bluetooth and Wi-Fi tools and their script | | types, a reply belongs to the last request, only own devices counted, success means scanned (done) |
| 7 | `RescueSound` (done) | PCM tests, soak script, factory route | | all properties (done) |
| 8 | `AudioStack` (to do) | ALSA core, machine driver and codec composed: the codec is started and stopped only behind a muted amplifier, also for two streams (`AudibleTest` has this for one client) | | |

Conventions: parameters are CONSTANTS with named assumptions in the module that
declares them; one action per operation or per piece of an operation between two
points where others may run; no RECURSIVE operators in modules with theorems; proofs
in `…Proofs` modules; model values and symmetry in `MC…` modules.

## 3. AmpGate

### State and actions

Every thread runs one call at a time, with a program counter:

| label | action | code |
|-------|--------|------|
| idle | `Begin` | the syscall enters the driver; `open` sets `safety_open` by compare-and-exchange before it takes the lock |
| clear, dequeue, flush | `ClearRequest`, `CancelWork`, `FlushWork` | `r1_audio_cancel_playback`: clear the target, take the work off the queue, wait for a running one |
| tdequeue, tflush | `CancelTimer`, `FlushTimer` | `cancel_delayed_work_sync` |
| lock | `Acquire` | `mutex_lock(&safety_lock)` |
| entry | `Enter` | the decisions at the head of the critical section |
| latch | `Latch` | the second read of `safety_open` in startup |
| mute, shut | `Mute`, `Shut` | `r1_audio_force_safe_locked`, which sleeps 10 ms between them |
| enable, settle, unmute | `Enable`, `ArmSettle`, `StartSettle`, `StartUnmute` | ARM_MUTED and `r1_audio_start_playback_locked`, which sleep 20 ms after the enable |
| unlock, reopen | `Unlock`, `Reopen` | the tail: counters and owner, the mutex, then `safety_open` |
| read, check, recheck | `WorkRead`, `StartCheck`, `WorkRecheck` | `r1_audio_playback_work` |

`TriggerStart`, `TriggerStop` and `TriggerQueue` are the trigger callback, which runs
under the stream lock, from a thread or from interrupt context, and does not take
`safety_lock`. A queued timeout may expire at any time: durations are not modelled, so
what holds does not depend on the timeout's length or the speed of a client.

`stream` and `opener` are the part of the ALSA core the driver relies on: a stream
goes closed, open, prepared, running, paused; an open one is closed only by its opener;
START follows a successful prepare.

### External assumptions

- The PCM operations of the card are serialised (ASoC's card `pcm_mutex`), and a
  start does not overlap prepare, hw_free or close of the same stream.
- `release` runs after the last ioctl on that file has returned (VFS references).
- While `cancel_work_sync` waits, the work item is disabled and queueing it does
  nothing (Linux 6.10 and later); the same for delayed work.
- A failing `regulator_enable` or `regulator_disable` leaves the regulator unchanged.
- The process that opened the gate is the one that uses it.
- The amplifier gates are present; the driver is not unbound while in use.

### Runs

| run | instance | question |
|-----|----------|----------|
| amp_gate | two processes, three threads, all gate and PCM calls and the platform shutdown, one regulator failure | `Exclusion`, `WatchdogCovers`, order of the regulators, `EndsSilent` (a successful return, a single fault, a closed stream all mean silence), and `ImplementsAmpSafety` |
| amp_playback | two processes, PCM calls only, with fairness, two failures | `FollowsTriggers`: a STOP is covered, a running stream is audible; STOP silences after one failure |
| amp_live | gate calls and PCM with fairness | calls return, a silent owner is silenced |
| amp_lost_stop | gate calls and PCM | violation, see Finding |

*Bounds.* Only `MaxFaults` (regulator failures in a behaviour) bounds anything; all other
counters are finite by themselves. Three threads in two processes give a holder with a
second thread and an outsider, the three roles the code distinguishes; two PCM
directions are what the card has. One failure exercises each error path; two are used
where a property is about failures of both regulators in one sequence.

*Fairness.* The scheduler runs an actor that has started, the work queue starts queued
work, a timer expires (weak fairness); the kernel mutex hands over to waiters, so a
waiter that finds the lock free again and again gets it (strong fairness of
`Acquire`). Clients owe nothing: no new call, no trigger and no release is fair.

### Refinement

`AmpSafety` is what the driver promises, without lock, worker, timer and calls: the
amplifier has one user at a time (the holder of the gate, or an open playback stream),
changes hands only while it is down, comes up only for a user and muted first, and may
go down at any time. `AmpGate` instantiates it as `Promise`: the regulators are the
regulators, `holder` is `safety_owner_tgid`, `user` is the opener of each stream.
`ImplementsAmpSafety` is checked in amp_gate and proved in `AmpSafetyProofs`.

### Finding

*amp_lost_stop.* `open` of the gate cancels the worker and clears `playback_requested`
before it finds out that a PCM is open. The refused open may have cancelled the worker
queued by STOP and does not force SAFE, so the amplifier stays unmuted until hw_free
or close. In the same way it withdraws the START of a running stream, which then
plays silently (`RunningMeansAudible` holds only without gate users).

### Proofs (`AmpGateProofs`, `AmpSafetyProofs`)

From the assumptions of `AmpGate` on its constants (the contexts are distinct, every
thread belongs to a process, the bound of failures is a natural number), for any number
of threads, processes and failures, TLAPS proves `Spec => []IInv` and from it `TypeOK`,
`MutualExclusion`, `StrictExclusion`, `TimeoutOnlyWithGate` and `FailClosedOrder`.

None of these is inductive. `IInv` adds, part by part:

- `LockInv`: exactly the holder of the lock stands at a label of a critical section;
- `CallInv`, `LabelInv`: which labels a call, the worker and the timer can stand at, so
  that the label of an actor tells which preamble it has finished;
- `PcmInv`, `CountInv`: a stream's state and opener agree with `playback_open` and with
  the counter, and at most one PCM call is in flight;
- `GateInv`: owner, file and `safety_open` agree, up to the opening and releasing call;
- `EntryInv`: an `open` that has passed its check of the counter excludes every PCM
  open until it leaves the lock;
- `DiagnosticInv`: under the gate, the playback stream is diagnostic, so its triggers
  do not queue the worker;
- `WorkerInv`, `TimerInv`: an `open` (a `release`) that has finished its cancellation
  finds the worker (the timer) quiet, and it stays quiet;
- `GateOrderInv`: at each label of force_safe and of the enable sequences, what the
  regulators can be.

The proof that a step preserves `IInv` has a lemma per part and a case per action.

`AmpSafetyProofs` adds a second invariant on top of it. `RInv`: between enabling and
unmuting the amplifier is up and muted, a stream has an opener exactly while it is not
closed, and a successful call has left silence; with `IInv` and `RInv` every step of the
driver is a step of `AmpSafety` or a stutter (`Implements`). `SInv` says what each label
of a call that arms or ends knows of the regulators and of the timer; from it follow
`WatchdogCovers` (`Watched`) and, with `OkMeansSafe` (`SuccessIsSilent`), `EndsSilent`
(`Silenced`).

`FollowsTriggers` (`Triggered`) is proved under the condition `Playback`: clients neither
open the gate nor shut the platform down. The condition is needed, as the finding shows;
it is that of the run, and within it any number of threads makes any PCM calls. The
third invariant, `PInv`, says that there is no gate (`NoGate`); that the driver's flags
agree with the stream (`OpenInv`) and with the regulators (`ActiveInv`); what the worker
has read when it stands in its start or stop sequence (`ArgInv`); that a call or worker
that ends playback leaves silence after one failure at most (`StopInv`); and that a
running stream plays, or that the worker is queued or about to be, or has not finished
(`StartInv`). The hard case is a worker that has read one target while the trigger sets
the other: its second look (`WorkRecheck`) closes it, because the trigger queues it again.

The liveness properties are out of the prover's reach and stay with TLC.

### Not modelled

Real time; the driver's remove path; hw_params and the clock contract (checks of
parameters that touch none of this state); the configuration without amplifier
regulators; the effect of the codec ioctls on the codec (their failure is a choice
here, their effect belongs to `Ak7755Codec`).

## 4. Ak7755Codec

### State and actions

`chip` is a record of what the registers mean to the driver: configuration registers
are the set `staged` of those that hold the factory value, CE and CF are sets of bits,
and each firmware image is absent, good or bad. Each transfer is one action; between
two transfers the other context may run, up to the lock.

| actions | code |
|---------|------|
| `ProbePowerUp`, `ProbeId`, `ProbeWrite`, `ProbeContract` | `ak7755_i2c_probe` up to the downloads: the reset pulse, the ID, the system reset contract written and read back, CRC enable, C3 and C4 |
| `Request` … `DownloadUnlock` | `ak7755_download_image`, once per image |
| `Register`, `ProbeFailed` | the end of the probe and `err_assert_reset` |
| `BeginBind`, `FmtSnapshot`, `FmtRoute`, `FmtVolume`, `FmtMute` | `ak7755_set_dai_fmt`, which the core calls when the card binds |
| `BeginStartup`, `Startup` | `ak7755_dai_startup` |
| `BeginPrepare`, `RunEntry` … `RunVerify`, `DownMute` … `DownPower` | `ak7755_dai_prepare`: RUN and its `err_power_down` |
| `BeginShutdown`, `ShutdownEntry`, `StandbyMute` … `StandbyFailed` | `ak7755_dai_shutdown`: the count, STANDBY, the reset after a failure |
| `BeginRequest`, `RequestEntry` … `RequestVerify` | `ak7755_component_set_dac_mute`, `_set_lineout_volume`, `_set_analog_boundary` |
| `Acquire`, `Unlock` | the lock around all of these except probe |

The read-backs of one verification are one action (`Read`): nothing else can write the
chip between them, and a failing read among them ends the verification as a mismatch
does. `update_bits` is one action too: its read and its write fail in the same two ways.

*Faults.* A transfer may fail without effect (`fail`), fail after taking effect
(`partial`), or be acknowledged and lost (`silent`). The driver reads registers back
and compares CRCs, which only the third kind can make necessary; properties that hold
only without it say so. A fault may hit the error paths as well.

### External assumptions

- The core serialises the DAI operations of the card, opens at most `Streams` streams,
  and calls prepare and shutdown only on an open one; bind precedes them.
- The machine driver serialises the gate's requests and makes them only once the card
  is bound.
- The chip does not answer while its reset line is asserted, and forgets registers and
  memories.
- A bad CRC is always noticed (the 16-bit CRC has no collisions in this model).

### Runs

| run | instance | question |
|-----|----------|----------|
| codec_faults | three images, two streams, all requests, two faults of any kind | does the chip end safe, do flag and count agree with it, and are cores and outputs switched only behind the mute (`MuteOrder`)? |
| codec_stale_run | one image, no requests, one fault | violation, see Finding |

What the properties do not say, because the code does not do it: `ClosedMeansStopped`
promises reset or a lowered flag after the last close, and stopped cores with the lowered
flag only if at most one transfer went wrong. When RUN fails and its `err_power_down`
loses the write to CF too, the flag stays down, the close skips STANDBY, and the cores
run on. `MuteOrder` is about transfers that are not lost and, for cuts, one failure; it
leaves out the window between the unlock of a failed STANDBY and its reset
(`ak7755.c:979`), in which an UNMUTE of the gate does release the mute on a codec whose
cores are stopped.

*Bounds.* `MaxFaults` is the only bound. Two faults are a failure and a failure of its
error path (or of the next attempt). Three images are the ones of `ak7755_ram_images`;
where the firmware is not the question (the violation run) one is enough. Two streams
are the two directions of the DAI. Deadlock is not checked: a failed probe or bind is
the end of the device.

### Finding

*codec_stale_run.* A failed STANDBY leaves `direct_output_running` set and the chip in
reset. All later prepares return 0 at the early return; the stream runs silently until
the module is bound again.

### Proofs (`Ak7755CodecProofs`)

For any finite non-empty set of images downloaded in any order, any number of streams
and faults, any requests and fault kinds, TLAPS proves `Spec => []IInv` and from it
`TypeOK`, `RunsVerified` and `FlagAgrees`; with a second invariant, `MInv`,
`ClosedMeansStopped`, `StoppedMeansQuiet` and `MuteOrder`. `IInv` adds:

- `LockInv`, `HostInv`, `GateInv`: who holds the lock, and the labels of each call;
- `ImageInv`: while probing, the images before the current one are good or the chip is
  in reset, and the cores do not run; after probing all images are good or the chip is
  in reset (a chip that lost its firmware in a reset never runs again, because reset is
  not released after probe);
- `FlagInv`: the flag is down while starting and inside RUN; a raised flag means a
  running chip outside STANDBY, and no open stream only inside STANDBY or in reset;
- `CountInv`: `open_streams` agrees with the streams the core holds open, off by one
  inside startup and shutdown.

`WriteEffect` and `ReadEffect` state what a transfer can change, and a lemma per
sequence (`RunTransfer`, `StandbyTransfer`, `BindTransfer`, `RequestTransfer`) that its
writes preserve `IInv` whatever value arrives; a lemma per action cites them.

`MInv` is about the mute. It follows each sequence and says what its earlier writes have
achieved, as long as no write was lost: set_fmt stages the route register by register
(`BindInv`, `StagedInv`), RUN switches on clock, outputs and cores before it releases the
mute (`RunInv`), STANDBY and the requests work behind the mute (`StandbyInv`,
`RequestInv`). Under faults, `DownInv` and `QuietInv` count: RUN is undone only after one
fault, and to undo it without the mute takes a second one, so that after a single fault
the codec is muted or has its outputs off, and its cores are stopped, once the lock is
free. Each action is shown to
keep `MInv` and to take no forbidden step in one lemma (`MStep`).

### Not modelled

The driver's remove (asserts reset); the optional supply that holds the amplifier safe;
formats, stages and boundaries the driver refuses at once; the computation of the CRC;
the registers that are only logged; times between transfers.

## 5. BluealsaSupervisor

### State and actions

Each supervisor has its script variables and a label; `proc` gives each daemon's kind,
parent and whether it was told to stop.

| label | action | code |
|-------|--------|------|
| exec | `Exec` | the traps are set |
| killa, killb | `KillallAplay`, `KillallBluealsa` | stale instances are told to stop |
| nap | `Loop` | `sleep 1` and the test of `running`; leaving the loop runs the EXIT trap |
| deps | `DependenciesReady` | dbus-daemon and bluetoothd run, else `stop_stack` |
| checkb, launch | `CheckBluealsa`, `StartBluealsa` | `stop_stack` and a new bluealsa if there is none |
| probe, list | `Probe`, `ListDevices`, `ProbeEnds`, `BluealsaGone` | `start_bluealsa` probes with `bluealsa-aplay -L` |
| checka, starta | `CheckAplay`, `StartAplay` | a new player if there is none |
| stopa, waita, stopb, waitb | `StopAplay`, `WaitAplay`, `StopBluealsa`, `WaitBluealsa` | `stop_stack`; `ret` is where the script goes on, `exit` in the EXIT trap |

`Start`, `Stop` and `StopDone` are the init script (restart is stop, then start), with
what TERM does to the supervisor in `Signalled`. `BluealsaReady`, `NameTaken`, `Die` and
`Fail` are the daemons, `Crash` a supervisor killed without its traps.

### External assumptions

- A process number is not reused while a supervisor's variable holds it; a dead child is
  reaped at once, so `kill -0` does not find it.
- A trapped signal waits for the end of a foreground command and interrupts `wait`.
- bluealsa exits if another instance owns its D-Bus name; `bluealsa-aplay -L` succeeds
  exactly if somebody owns it.
- The init script runs one invocation at a time.
- Waiting five seconds is enough except while the supervisor waits for a daemon.

### Runs

| run | instance | question |
|-----|----------|----------|
| bluealsa_stack | two supervisors, four process numbers, one crash, two probes; an init script whose wait does not run out; fairness | all properties |
| bluealsa_impatient | the same with the wait of the code | violation, see Finding |

`PlayerNeedsService` has two parts. `PlayerReady`: a player runs only while `ready` is set
and a bluealsa is held, so never across a restart of bluealsa. `SeenService`: the service
whose probe sets `ready` belongs to the supervisor's own bluealsa or to a stale one that
has been told to stop. The second case does happen: the stale instance still owns the
name, the probe sees it, the own bluealsa exits because the name is taken, and the player
has been started behind a service that goes away. `PlayerRestarted` shows that the stack
recovers.

*Bounds.* Two supervisors are needed for the remains of one to meet another. Four process
numbers allow an orphan or a daemon still ending beside each new child. The number of
probes (20 in the code) matters only in that it ends. `MaxCrashes` bounds crashes.

*Fairness.* The shell runs (weak fairness of `Step`); a daemon told to stop ends, a
starting bluealsa takes the free name or gives up. Nothing makes the init script be
called, dependencies come up or daemons fail. `PlayerRestarted` assumes, in the
formula, that from some time on dependencies are up, no daemon fails and the probes
do not run out.

### Finding

*bluealsa_impatient.* `stop` removes the pid file after five seconds even though the
supervisor is still alive, which it is while `bluealsa-aplay -L` or `wait` waits for a
daemon. The next `start` launches a second supervisor, and both start a player.
The README of the Buildroot tree promises exactly one.

### Proofs (`BluealsaSupervisorProofs`)

For any number of process numbers, probes and crashes TLAPS proves `Spec => []IInv` and
from it `TypeOK`, `PlayerNeedsService` and `NoneLeftBehind` without further condition,
and, for a patient init script, `OneStack` (one supervisor, one daemon of each kind).
`IInv` adds:

- `PidfileNames`: a patient init script's pid file names every live supervisor;
- `OwnsNothing`, `HoldsChildren`: an ended supervisor has no children, and a live one
  holds in its variables the number of every child it has not told to stop. This is
  what an interrupted `wait` could break: it forgets numbers, but only after TERM was sent;
- `LabelInv`: which numbers are held at which label, and when `ready` is up;
- `Waits`: at a `wait`, the child has been told to stop;
- `Clean`: after the cleanup, whatever runs is held by the one supervisor.

Lemmas say what one supervisor's step can do to another (`Spared`), that a forked
number is nobody's (`FreshPid`), and one per step that it keeps its own part.
`SeenService` needs a second, small invariant, `Owned` (the owner of the name is a
bluealsa), and `ReadyBySight`: `ready` is set only by a probe that finds an owner. The
liveness properties are only model-checked.

### Not modelled

Log output; the arguments of the daemons; `status` of the init script.

## 6. EmmcInstall

### State and actions

`flash` holds for each range the original image, the new one, or neither (`torn`);
`host` the script, its next command and its report; `before` the flash when the script
began (a history variable). Each command of `rkdeveloptool` is an action, named for it:

| script | actions |
|--------|---------|
| preflight, and the head of install | `Identify`, `PreflightIdb` (two reads, comparison with the backup or its capture), `PreflightFit` |
| install | `InstallRecheck`, `WriteFit`, `VerifyFit`, `WriteIdb`, `VerifyIdb`; `UndoWriteFit` … `UndoVerifyIdb` are `rollback` |
| restore | `Identify`, `WriteFit` … `VerifyIdb` with the original images |
| flash-diagnostic-recovery | `Identify`, `SaveRecovery`, `WriteRecovery`, `VerifyRecovery`, `WriteMisc`, `VerifyMisc`, `Reset` |

`Start` and `StartRefused` are the comparison of the host's files with their hashes.
`Interrupt` kills a script together with the write it is in; `PowerOff` and `PowerOn`
are the board's supply.

### External assumptions

- A write may fail with the range in any state, and may report success on a range
  that does not hold the image; a bad read never returns the bytes expected, and two
  bad reads differ.
- Only these scripts write the ranges; the board does not while it is powered between
  two of them.
- The host's files other than the IDB backup have their hashes.
- MaskROM or a loader is reachable whatever the eMMC holds.

### Runs

*emmc_scripts*: any sequence of the four scripts, with or without a backup, three
faults. It checks that reports are true (`EndsAsReported`), the write order
and that installation and rollback work only over the originals (both in
`WritesInOrder`), and that restore, from every state the others can leave,
restores the originals (`RestoreRepairs`).

`ImageFirst`, a half of `WritesInOrder`, lets the IDB change only while the FIT it loads is
the script's own, verified image. The rollback is the exception (`RollsBack`): it goes on
to the IDB even if it could not restore the FIT, but writes only the original there, and
has then noted the failure that makes it end as `critical`.

*Bounds.* `MaxFaults` is the only one. Three faults are one that starts the rollback and
one in each half of it, or three interrupted scripts in a row.

*Fairness.* A script's commands run and end by their timeouts (weak fairness of `Step`).
`flash-diagnostic-recovery.sh` sets no timeouts; `RestoreRepairs` is about restore, which
does. A script that only reports an error and stops may leave torn ranges; that is its
report `failed` (restore, diagnostic) or `critical` (install).

### Proofs (`EmmcInstallProofs`)

For any number of faults TLAPS proves `TypeOK`, `EndsAsReported` and `WritesInOrder`.
The inductive invariant adds `NothingWritten` (up to the first write the flash is as
before), `BackupHashed` (the hashed backup is the original IDB until the script ends),
`PreflightHolds` (what the comparisons showed is still so) and `InPlace` (what has been
verified when a label is reached, the rollback's flag included). `Continue` and `Finish`
say what a script that goes on or ends owes the invariant; `WriteEffect` and
`VerifyEffect` what a command may do; a lemma per action cites them. `RestoreRepairs` is
only model-checked.

### Not modelled

The dry run without a confirmation; two boards of the same kind exchanged between
preflight and write (see section 10); a preflight without `R1_LOCATION_ID`; what the
board boots.

## 7. AudibleTest

### State and actions

`Script` is the sequence of calls and loops of `main` for the `program` chosen in `Init`
(the `#ifdef`s of the source); `pc`, `left` and `kept` are the position in it. Time is
counted in PCM frames. `Wait` lets the time of the next call pass: the codec plays
`queue`, the lease runs out, the stream underruns, and the gate's timeout makes the
amplifier safe. Then the call takes effect:

| actions | code |
|---------|------|
| `OpenGate`, `OpenPcm`, `Prepare`, `Drop`, `Sleep` | the system calls of `main` and `configure_pcm` |
| `Keepalive`, `Write`, `Iterated` | the loops over periods and `write_period` |
| `Safe`, `ArmMuted`, `Unmute` | `safety_command` with what the ioctl of the machine driver does for a single client |
| `CodecRequest` (`Permitted`, `Output`, `Volume`, `ReadsBack`) | the ioctls passed on to the codec: the stage it must be in, the registers it changes, the read-back that accepts or refuses afterwards |
| `CallFails`, `Leave`, `OutSafe`, `OutDrop`, `OutClose`, `Release` | a failing call, `goto out`, the exit path |
| `Kill`, `KilledRelease`, `KilledClose` | the kernel closing the files of a killed process |

`voiced` and `cut` are history variables: how much of the queue still contains a tone,
and whether a frame of a tone was played unheard or thrown away. `Amplitude` gives the
factor the fill functions apply to each frame of a tone.

### External assumptions

- The kernel's defaults: a stream starts with the first write and ends in an underrun
  when its buffer is empty; a write then returns `EPIPE` until the next prepare.
- A call takes the sleeps in the drivers and their transfers, rounded up (`Duration`;
  the three requests of a stage were measured at about 70 ms, 80 ms are used), and is
  late by at most 256 frames (5.3 ms).
- A force-safe operation may fail on either regulator or on both; in the last phases of
  a process, which take milliseconds, no time passes.
- The stages that `Permitted` compares are those of the registers. The driver's own record
  of a stage is written behind the read-back only, so it can differ from them after a
  refused request, behind which no program makes another.

### Runs

*audible_programs*: the twelve programs in full length with late calls, one stall (107 ms
or 533 ms, more than a buffer of four periods and more than the live lease), one failing
call or regulator and a kill at any point. `StatusTells` has two halves. `CleanRunPasses`
is about the timing and the order of calls: nine programs pass when they are not
disturbed. The other three, `analog_boundary`, `lineout_volume` and `lineout_selfcheck`,
never do: `ReadsBack` compares the registers behind a change of volume or boundary with a
direct route (`DirectRoute`) that the driver does not set up any more (`FactoryRoute`), so
their first such request, the tenth step of each, is refused with `-EIO` and they end with
status 1. What the scripts have behind it is translated all the same. `PassMeansHeard` is
about the end of each tone: the postroll is exactly as long as the buffer. Two of the three
refused programs mute the DAC right behind the last write of the reference tone, so up to
85 ms of its fade are lost; with the read-back out of the way they would report PASS, as
the mutant `ReadsBackChanges` shows.

`GentleAtPeak32` checks every frame of the tones of all programs but
`lineout_selfcheck`. There the property `Gentle` is false: the ramp of 32 steps was made
for the peak 32, and with the peak 512 the amplitude jumps from 31 to 512 behind the
ramp and from 512 to 32 at the start of the fade. (`AudibleTest_programs.cfg` with this
program only and the invariant `Gentle` shows the first jump.)

*Bounds.* `Late` and `Stalls` are the delays, `MaxStalls` and `MaxFaults` their number and
that of failures; one of each exercises each error path. Loops and tones have the lengths
of the source. The system stops when the process has ended, so deadlock is not checked.

*Fairness.* The process is scheduled, the stream plays and system calls return (weak
fairness of everything but `Kill`).

### Proofs (`AudibleTestProofs`)

TLAPS proves the four safety properties of the run, for any of the twelve programs:

| theorem | property | for any number of failures and stalls, if |
|---------|----------|----|
| `TypeCorrect` | `TypeOK` | |
| `GentleTones` | `GentleAtPeak32` | |
| `PassHeard` | `PassMeansHeard`, a half of `StatusTells` | |
| `StatusTold` | `StatusTells` | no call is later than 256 frames |
| `AlwaysEndsQuietly` | `EndsQuietly` | there is at most one failure |

*The programs.* `Script` is a constant of a run, joined from pieces. What the invariants
need of it is one table, `Succ`: which step follows which, at which position and in which
program, and, beside it, `Codec`: what a step makes of the codec's output and volume. The
table is proved program by program; `Placed` states it for the present step.

*Ends.* The amplifier is silent and no timeout pending before the gate is open and behind
the first force-safe; the count of failures is needed because two of them can defeat both
regulators at once (`ForcedIsSilent`).

*Types, and tones that were heard.* `Inv` says of each place in the program: where it
stands in its loop (`PlaceInv`); the state of the stream, and, once the wait for a write
is over, that the buffer has room for it (`StreamInv`); the state of the codec
(`CodecInv`); while an unmuted stream plays, that the lease outlives the queue by more than
any call takes (`LiveInv`), so that a timeout is never reached without an underrun in
front of it; that a tone is queued only where amplifier and DAC are on, and has been
played when the zeros behind it are written (`ToneInv`); and that the three refused
programs do not come past their tenth step (`RefusedInv`, from `CodecRefuses`). It does
not matter how late a call is: a late one is noticed as an underrun or a refused call.

*Undisturbed runs.* `CleanRunPasses` needs numbers. `BufferInv` bounds the queue from
below: a loop that writes from an empty buffer gains half of what it writes, because a
period may be late by 256 frames twice (KEEPALIVE and write) against the 1024 it adds, so
after eight periods of preroll the buffer outlasts every call and, with sixteen periods,
the three calls of a self-check stage (`Reserve`). `LeaseInv` does the same for the lease:
144000 frames of ARM_MUTED cover opening, preparing and the preroll, or 94 unkept periods;
24000 cover the longest stretch between two renewals. `PassInv` concludes that a clean
run of the other nine programs is left by its end only. The bound of 256 frames on `Late`
is the one of the run; some bound is needed: with calls late by 512 frames TLC finds a run
whose buffer runs dry (`CleanRunPasses` with `Late = {0, 512}`).

*Tones.* `TrapezoidGentle` shows that a ramp of integer divisions whose peak is no more
than its length never moves by more than one; the fill functions are instances of it, and
notes begin and end in silence.

`Ends` is liveness and only model-checked.

### Not modelled

Samples (sine table, phases, channels), the negotiation of hardware parameters beyond its
failure, messages.

## 8. RescueRadio

### State and actions

`BtMgmt` and `WifiScan` are a client each with the kernel behind its socket;
`RescueRadio` runs them, one at a time, by hand or from `r1-bt-coexist-test`.

| actions | code |
|---------|------|
| `BtMgmt!Start`, `CannotOpen`, `send_cmd`, `CannotSend` | `open_mgmt`, `send_cmd`; `ScriptOf` is what `main` makes of its arguments |
| `command_reply`, `reply_timeout` | `command_reply`: one message, or three seconds without any |
| `listen_read`, `listen_timeout`, `listen_end` | the loop of `scan`, which counts 500 ms per pass |
| `Complete`, `Reject`, `DeviceFound`, `OtherEvent`, `DiscoveryEnds` | the management interface |
| `WifiScan!Prepare`, `SendResolve` … `ReadList`, `Fail` | `run` of the Wi-Fi tool: one action per request and per `recv` |
| `SendList`, `ListFails`, `StationHeard`, `ScanEnds`, `Expire` | nl80211 and its list |
| `StartScript`, `NextLine`, `EndOfScript`, `ByHand`, `Interrupt` | the script under `set -e`, and the console |

A request outlives the process that made it (`Orphaned`), as do settings, a discovery
and a scan. `own` and `last` are history: whether the discovery under way, and the
request a reply answers, are the ones of this run.

### External assumptions

- The management socket delivers messages in order and loses none; replies go to the
  socket of the request, events to every open one.
- A request may be answered late, but once; what is asked is done when its completion
  is sent. A discovery ends by itself.
- A netlink request other than a dump is answered within `sendto`; a dump sends its next
  datagram when the one before was read, and the list does not expire during it.
- One tool runs at a time: nothing else in the image uses the radios.

### Runs

*rescue_radio*: `info`, `power off`, both scans and `coexist`, with the Wi-Fi tool and one
cycle of the script, in any order. `SuccessMeansScanned`: status 0 means that the
seconds asked for were listened and every radio was scanned in every cycle;
`AnswersMatch`: replies are known by opcode (Bluetooth) or only by their place (Wi-Fi),
and are still those to the last request; `CountsWhatWasFound`: what is counted was found
by this run's discovery, or is the kernel's whole list.

*Bounds.* Scans of one second have two passes, and `coexist` with one second has a first
half of one second and a second one of none. `U32` is reduced to 65536; with seconds
below 65 no product wraps in this instance, as none does on the board for less than
4294967 seconds. One event, one failure and one orphaned request (`MaxEvents`,
`MaxErrors`, `MaxOrphans`) are one of each kind of disturbance; a list of two stations
comes in one, two or three datagrams. No fairness is assumed: nothing is said about
ends (the Wi-Fi tool's `recv` has no timeout).

### Proofs (`RescueRadioProofs`)

For any number of cycles, seconds, radios' events, stations, failures and orphaned
requests TLAPS proves all four properties of the run. A step of the system is a step of
one tool, or of its kernel, and leaves the other alone; so the invariant has a part per
tool, and two for the console.

- *The Bluetooth tool.* The scripts of the six commands are constants whose shape is
  proved first. `RepliesInv`: a reply on its way that this process can hear is to the
  request it waits for, or to a STOP it has given up, and no request behind a STOP can be
  mistaken for it; `OnceInv`: the last request is answered once.
  `AnswersMatch` follows. `MetInv` and `ListenInv`: between the reply to a START and the
  end of the listening, the discovery under way is this run's and nothing pending can
  change that, so what is counted was found by it (`FoundInv` bounds the count).
  `TimeInv`: the milliseconds listened are those of the scans behind.
- *The Wi-Fi tool* (`WifiInv`): at most one datagram is on its way, and where the tool
  stands says which; while the list is sent, what was counted and what is on its way add
  up to what the kernel has sent.
- *The console* (`ConsoleInv`, `ScanInv`): the tool that runs is that of the script's
  line, and the scans begun are those of the lines before it, and one more once its own
  has begun.

### Not modelled

Packet layout, attributes, printed fields; `sleep` and the duration of anything but what
the loop counts; several controllers (the first one is taken).

## 9. RescueSound

### State and actions

`PcmTests` has both test programs, each with its device's ring buffer; time and data are
counted in parts of a period, and `Tick` moves one part on every running device.

| actions | code |
|---------|------|
| `configure_pcm`, `Call`, `Move`, `Moved` | hw_params to PREPARE; a read or write, which the kernel may cut short |
| `Recover`, `TransferFails` | `EPIPE`, counted, and PREPARE; other errors |
| `Finish`, `Kill` | DROP, the verdict, `timeout` |
| `NextMean`, `update_stats`, `divide`, `square_root` | the statistics, in the integer arithmetic of the source |
| `Begin`, `Checks`, `Launch`, `Radio`, `Wait`, `Verdict`, `Trap` | `r1-audio-soak` |
| `Info`, `find_enum_item`, `Write`, `GiveUp` (`FactoryRoute`) | `apply_control` and the loop of `main` |

Of the radio tools the soak starts, and of the state it reads from `/sys` and the kernel
log, only success or failure matters here.

### External assumptions

- A device stops when its buffer runs dry or over, and a call returns what it has moved,
  or `EPIPE` if nothing; both devices are clocked by one controller.
- A killed process' device is closed. A soak is not begun while tests of an interrupted
  one are still ending (they would make its tests fail to open the device).
- The factory driver's control has a fixed type and list of items during a run.

### Runs

*rescue_sound*: both images; soaks repeated and interrupted, tests that fail, stop or are
killed, and the route tool with three drivers. Two assumptions of `MCRescueSound`,
`DivisionIsExact` and `RootIsExact`, compare the bitwise algorithms with division and
the root for all words of seven and eight bits.

*Bounds.* Five parts with periods of two give a last transfer shorter than a period;
`PERIODS` 2 instead of 4 makes the buffer shorter than a test, and so lets it run over
and dry. Blocks of mean 0 and 3 move the mean both ways and cut off remainders. One
xrun, one PCM failure and one route failure each; `MaxXruns` must be more than zero, or
a device that would stop would not move. No fairness is assumed.

### Proofs (`RescueSoundProofs`)

For any length of the test, buffer, channels, blocks, table and drivers, and any bounds
on failures, TLAPS proves all properties of the run. `PcmInv` says that what a test has
transferred, its buffer and what the device has moved add up while no xrun was counted
(`ProgramInv`), what the device's state says of its buffer (`DeviceInv`), that there are no
more blocks than parts (`BlocksInv`), and (`MeanInv`) that the error of the mean
grows by at most the remainder of one division per block, which sums up to the bound
of `MeanError`; `Quotient`, `Correction` and `OneBlock` are the arithmetic. `RouteInv`
says that the controls above the current one hold what the table says (`Held`);
`SoakInv` that a test whose status was collected has ended, and that a failure is
counted if it failed. That `divide` and `square_root` compute what they should is only
model-checked (induction over bits).

### Not modelled

The tone and the samples; the negotiation of hardware parameters beyond its failure;
`r1-audio-soak`'s arithmetic on interrupt counters.

## 10. Divergences without a run

Met while modelling; each is code against what the repository says or plainly expects,
too small, too wide or too much a matter of wording to be a run.

- The second read of `safety_open` in startup (`phicomm_r1_ak7755.c:424`, after the one at
  `:413`) may see the gate of another process opened in between: the stream becomes
  diagnostic without an owner's process. `ImplementsAmpSafety` holds nevertheless.
- Line-out volume and boundary requests (the check at `ak7755.c:811`) change a register and
  then verify C0, C8, CE and CF against the values of an earlier direct route, which the
  factory route that RUN verifies does not have: on a running factory route the check
  always fails, and the changed register stays. The programs `analog_boundary`,
  `lineout_volume` and `lineout_selfcheck` therefore always end with status 1
  (`StatusTells`); the successful runs that docs/audio.md:686 and :810 report are
  of earlier drivers.
- `r1-audio-soak:87,144` needs the kernel message `DSP RUN armed`, which `ak7755.c` never
  logs (only `FACTORY DSP STANDBY verified`, `:690`): on this tree the soak fails.
- The programs `analog_boundary` and `lineout_volume` mute the DAC right behind the last
  write: the end of the tone, up to 85 ms, is not heard.
- `lineout_selfcheck` has a ramp made for the peak 32 (section 7): its first tone, the only
  one it gets to, jumps from 31 to 512 and back behind an amplifier that is on.
- `install-r1-emmc-open-optee.sh:59` identifies the board again before it writes, by bus
  location, chip and capacity, which another board of the kind has, too.
- A timeout that has fired waits for the lock while KEEPALIVE succeeds (`:193`), and
  silences an owner that was told its lease is renewed. It errs to the safe side.
- The platform shutdown (`:663`) forces SAFE but takes no file away: a client still
  running may START or ARM after it.
- `r1-btmgmt.c:318` counts 500 ms for each message of a busy controller, so a scan may end
  early, and `:192` waits anew after each, so a reply may be awaited for long;
  `:360` divides 0 seconds of `coexist` into 1 and 2^32 - 1.
- A receive of the Wi-Fi tool has no timeout.

## 11. Not modelled

| part | reason |
|------|--------|
| YMODEM bridge | copies bytes between two descriptors; the protocol is that of `sx` and U-Boot |
| boot automation | straight sequences of waits for a prompt or a USB device; no state outlives a run |
| `initramfs/init` | mounts and messages in front of a shell |
| register probes | one sequence of reads, printed |
| kernel and U-Boot patches | parts of sources that are not in the repository |
| device trees, configuration, image descriptions | static data |
| build, packaging, development scripts | files from files, nothing concurrent or persistent |
| documentation | used for the claims quoted under findings |

Only model-checked, over all modules: the liveness properties (`StopSilences`,
`CallsReturn`, `SilentWithoutKeepalive`, `TermEnds`, `PlayerRestarted`, `RestoreRepairs`,
`Ends`), which the prover cannot reach, and the two assumptions `DivisionIsExact` and
`RootIsExact` (induction over bits). Every safety property of a passing run is a theorem;
four of them with a condition: `FollowsTriggers` (ordinary playback), `OneStack` (a patient
init script), `EndsQuietly` (one failure) and `StatusTells` (calls late by 256 frames at
most).
