------------------------------- MODULE AmpGate -------------------------------
(***************************************************************************)
(* The amplifier safety gate of the machine driver phicomm_r1_ak7755.c.    *)
(*                                                                         *)
(* Two regulators control the power amplifier: amp_enable (out of          *)
(* shutdown) and amp_unmute.  They are driven by an ordinary playback      *)
(* stream, through an asynchronous worker, or by the one process that      *)
(* holds /dev/r1-audio-safety open, through ioctls under a keepalive       *)
(* timer.  safety_lock serialises every change of the regulators, but      *)
(* safety_open and playback_requested are atomics written outside it.      *)
(*                                                                         *)
(* A thread executes one call at a time.  Its program counter walks the    *)
(* preamble of the call (set the target, cancel the worker, cancel the     *)
(* timer), takes the lock, and runs the critical section; force_safe and   *)
(* the enable sequence sleep, so they are several steps.                   *)
(*                                                                         *)
(* A definition marked "Variant" is a faulty form of the next one.  No     *)
(* action uses it; it shows which fault of the code a property detects.    *)
(***************************************************************************)
EXTENDS Integers, FiniteSets

CONSTANTS
  Threads,      \* user threads
  Processes,    \* thread groups
  Tgid,         \* Tgid[t]: the thread group of thread t
  None,         \* no process, no lock holder
  Worker,       \* the context of playback_work
  Timer,        \* the context of safety_timeout
  Trigger,      \* whoever holds the PCM stream lock (a thread or an IRQ)
  Ops,          \* the calls clients make in this instance
  MaxFaults     \* bound on failing regulator operations

AllOps == {"open", "release", "ARM", "UNMUTE", "KEEPALIVE", "CODEC", "SAFE",
           "pb_open", "cap_open", "prepare", "hw_free", "pb_close",
           "cap_close", "shutdown"}

Actors == Threads \cup {Worker, Timer, Trigger}

ASSUME ActorsAssumption ==
  /\ Tgid \in [Threads -> Processes]
  /\ None \notin Processes /\ None \notin Actors
  /\ Worker \notin Threads /\ Timer \notin Threads /\ Trigger \notin Threads
  /\ Worker # Timer /\ Worker # Trigger /\ Timer # Trigger
ASSUME OpsAssumption == Ops \subseteq AllOps
ASSUME FaultsAssumption == MaxFaults \in Nat

VARIABLES
  amp_enabled, amp_unmuted, playback_active,       \* under safety_lock
  safety_owner_tgid, pcm_open_count,
  playback_open, playback_diagnostic,
  safety_open, playback_requested,                 \* atomics
  safety_lock,     \* the holder of the mutex
  workPending,     \* playback_work is queued
  workArg,         \* the worker's local "requested"
  timerPending,    \* safety_timeout is queued
  pc, call,        \* program counter of an actor, the call a thread executes
  err,             \* actors whose current call has ret # 0
  cont,            \* where the lock holder goes after force_safe succeeds
  fd,              \* the process holding an open gate file
  stream, opener,  \* the ALSA core's state and opener of each PCM direction
  faults           \* regulator failures so far

gates   == <<amp_enabled, amp_unmuted, playback_active>>
pcm     == <<pcm_open_count, playback_open, playback_diagnostic, stream, opener>>
gateFile == <<safety_owner_tgid, safety_open, fd>>
works   == <<workPending, workArg, timerPending>>
control == <<safety_lock, pc, call, err, cont>>
vars == <<gates, pcm, gateFile, works, control, playback_requested, faults>>

Directions == {"playback", "capture"}
StreamStates == {"closed", "open", "prepared", "running", "paused"}
Labels == {"idle", "clear", "dequeue", "flush", "tdequeue", "tflush", "lock",
           "entry", "latch", "check", "mute", "shut", "enable", "settle",
           "unmute", "unlock", "reopen", "read", "recheck", "queue"}

Ioctls == {"ARM", "UNMUTE", "KEEPALIVE", "CODEC", "SAFE"}
PcmCalls == {"pb_open", "cap_open", "prepare", "hw_free", "pb_close", "cap_close"}
Direction(c) == IF c \in {"cap_open", "cap_close"} THEN "capture" ELSE "playback"

Init ==
  /\ amp_enabled = FALSE /\ amp_unmuted = FALSE /\ playback_active = FALSE
  /\ safety_owner_tgid = None /\ safety_open = FALSE /\ fd = None
  /\ pcm_open_count = 0 /\ playback_open = FALSE /\ playback_diagnostic = FALSE
  /\ stream = [d \in Directions |-> "closed"]
  /\ opener = [d \in Directions |-> None]
  /\ playback_requested = FALSE
  /\ workPending = FALSE /\ workArg = FALSE /\ timerPending = FALSE
  /\ safety_lock = None
  /\ pc = [a \in Actors |-> "idle"]
  /\ call = [t \in Threads |-> "none"]
  /\ err = {} /\ cont = "unlock" /\ faults = 0

-----------------------------------------------------------------------------
(* Work queues.  cancel_work_sync disables the work item while it waits,   *)
(* so queueing it during that time does nothing.                           *)

WorkDisabled  == \E t \in Threads : pc[t] = "flush"
TimerDisabled == \E t \in Threads : pc[t] = "tflush"

queue_work == workPending' = (workPending \/ ~WorkDisabled)
mod_delayed_work == timerPending' = (timerPending \/ ~TimerDisabled)

Goto(a, l) == pc' = [pc EXCEPT ![a] = l]
Fail(a) == err' = err \cup {a}

(* A failing regulator operation leaves the regulator as it was.           *)
Fault == faults < MaxFaults /\ faults' = faults + 1

-----------------------------------------------------------------------------
(* Clients.  Begin starts a call whose preconditions the VFS or the ALSA   *)
(* core has checked.                                                       *)

(* The card's pcm_mutex admits one PCM call at a time, and a call that     *)
(* takes the playback stream's lock waits for a trigger to finish.         *)
PcmIdle == \A t \in Threads : call[t] \notin PcmCalls

(* Callers of ioctl and release hold a reference to the open gate file;    *)
(* release runs once the last of them is gone.                             *)
HoldsGate(t) == fd = Tgid[t]
LastReference(t) ==
  HoldsGate(t) /\ \A u \in Threads : Tgid[u] = Tgid[t] => call[u] \notin Ioctls

UsesStream(t, d) ==
  /\ stream[d] \in {"open", "prepared"} /\ opener[d] = Tgid[t] /\ PcmIdle
  /\ d = "playback" => pc[Trigger] = "idle"

CanCall(t, c) ==
  \/ c = "open" /\ ~safety_open
  \/ c = "release" /\ LastReference(t)
  \/ c \in Ioctls /\ HoldsGate(t)
  \/ c \in {"pb_open", "cap_open"} /\ stream[Direction(c)] = "closed" /\ PcmIdle
  \/ c \in {"prepare", "hw_free"} /\ UsesStream(t, "playback")
  \/ c \in {"pb_close", "cap_close"} /\ UsesStream(t, Direction(c))
  \/ c = "shutdown" /\ \A u \in Threads : call[u] # "shutdown"

(* The calls that cancel the worker before they take the lock, and those   *)
(* that cancel the timer.                                                  *)
CancelsWork == {"open", "prepare", "hw_free", "pb_close", "shutdown"}

\* Variant.
KeepaliveCancels == {"open", "shutdown", "ARM", "SAFE", "release", "KEEPALIVE"}
CancelsTimer == {"open", "shutdown", "ARM", "SAFE", "release"}

FirstLabel(c) == IF c \in CancelsWork THEN "clear"
                 ELSE IF c \in CancelsTimer THEN "tdequeue" ELSE "lock"

Begin(t, c) ==
  /\ pc[t] = "idle" /\ CanCall(t, c)
  /\ call' = [call EXCEPT ![t] = c]
  /\ Goto(t, FirstLabel(c))
  /\ safety_open' = (safety_open \/ c = "open")      \* atomic_cmpxchg(0, 1)
  /\ fd' = IF c = "release" THEN None ELSE fd
  /\ UNCHANGED <<gates, pcm, safety_owner_tgid, works, safety_lock, err, cont,
                 playback_requested, faults>>

(* trigger: START, RESUME and PAUSE_RELEASE set the target, the others     *)
(* clear it; STOP also comes from interrupt context (drain end, underrun). *)
\* Variant.
StopNotQueued(to) == IF to = "running" THEN "queue" ELSE "idle"
TriggerLabel(to) == "queue"

TriggerPlayback(to) ==
  /\ pc[Trigger] = "idle"
  /\ stream' = [stream EXCEPT !["playback"] = to]
  /\ IF playback_diagnostic
     THEN UNCHANGED <<playback_requested, pc>>
     ELSE playback_requested' = (to = "running") /\ Goto(Trigger, TriggerLabel(to))
  /\ UNCHANGED <<gates, pcm_open_count, playback_open, playback_diagnostic,
                 opener, gateFile, works, safety_lock, call, err, cont, faults>>

TriggerStart ==
  /\ stream["playback"] \in {"prepared", "paused"}
  /\ \A t \in Threads : call[t] \notin {"prepare", "hw_free", "pb_close"}
  /\ TriggerPlayback("running")

TriggerStop ==
  /\ stream["playback"] = "running"
  /\ \E to \in {"open", "paused"} : TriggerPlayback(to)

TriggerQueue ==
  /\ pc[Trigger] = "queue"
  /\ queue_work /\ Goto(Trigger, "idle")
  /\ UNCHANGED <<gates, pcm, gateFile, workArg, timerPending, safety_lock,
                 call, err, cont, playback_requested, faults>>

-----------------------------------------------------------------------------
(* The preamble of a call: r1_audio_cancel_playback, then the cancellation *)
(* of the keepalive timer.                                                 *)

ClearRequest(t) ==
  /\ pc[t] = "clear"
  /\ playback_requested' = FALSE /\ Goto(t, "dequeue")
  /\ UNCHANGED <<gates, pcm, gateFile, works, safety_lock, call, err, cont, faults>>

CancelWork(t) ==
  /\ pc[t] = "dequeue"
  /\ workPending' = FALSE /\ Goto(t, "flush")
  /\ UNCHANGED <<gates, pcm, gateFile, workArg, timerPending, safety_lock,
                 call, err, cont, playback_requested, faults>>

FlushWork(t) ==
  /\ pc[t] = "flush" /\ pc[Worker] = "idle"
  /\ Goto(t, IF call[t] \in CancelsTimer THEN "tdequeue" ELSE "lock")
  /\ UNCHANGED <<gates, pcm, gateFile, works, safety_lock, call, err, cont,
                 playback_requested, faults>>

CancelTimer(t) ==
  /\ pc[t] = "tdequeue"
  /\ timerPending' = FALSE /\ Goto(t, "tflush")
  /\ UNCHANGED <<gates, pcm, gateFile, workPending, workArg, safety_lock,
                 call, err, cont, playback_requested, faults>>

FlushTimer(t) ==
  /\ pc[t] = "tflush" /\ pc[Timer] = "idle"
  /\ Goto(t, "lock")
  /\ UNCHANGED <<gates, pcm, gateFile, works, safety_lock, call, err, cont,
                 playback_requested, faults>>

-----------------------------------------------------------------------------
(* The worker and the timer start; every actor takes the lock.             *)

WorkStart ==
  /\ workPending /\ pc[Worker] = "idle"
  /\ workPending' = FALSE /\ Goto(Worker, "read")
  /\ UNCHANGED <<gates, pcm, gateFile, workArg, timerPending, safety_lock,
                 call, err, cont, playback_requested, faults>>

WorkRead ==
  /\ pc[Worker] = "read"
  /\ workArg' = playback_requested /\ Goto(Worker, "lock")
  /\ UNCHANGED <<gates, pcm, gateFile, workPending, timerPending, safety_lock,
                 call, err, cont, playback_requested, faults>>

(* Time is not modelled: a queued timeout may expire at any moment.        *)
TimerExpire ==
  /\ timerPending /\ pc[Timer] = "idle"
  /\ timerPending' = FALSE /\ Goto(Timer, "lock")
  /\ UNCHANGED <<gates, pcm, gateFile, workPending, workArg, safety_lock,
                 call, err, cont, playback_requested, faults>>

Acquire(a) ==
  /\ pc[a] = "lock" /\ safety_lock = None
  /\ safety_lock' = a /\ Goto(a, "entry")
  /\ UNCHANGED <<gates, pcm, gateFile, works, call, err, cont,
                 playback_requested, faults>>

-----------------------------------------------------------------------------
(* The critical section.  ForceSafe(a, k) calls force_safe and continues   *)
(* at k when it succeeds.                                                  *)

ForceSafe(a, k) == Goto(a, "mute") /\ cont' = k
Leave(a) == Goto(a, "unlock") /\ UNCHANGED cont
\* Variant.
ReturnLocked(a) == Goto(a, "idle") /\ UNCHANGED cont /\ Fail(a)
Refuse(a) == Leave(a) /\ Fail(a)

\* Variant.
StopIgnored == Leave(Worker)
StopPlayback == ForceSafe(Worker, "unlock")

WorkEntry ==
  /\ pc[Worker] = "entry"
  /\ IF workArg /\ ~safety_open
     THEN Goto(Worker, "check") /\ UNCHANGED cont
     ELSE StopPlayback
  /\ UNCHANGED <<gates, pcm, gateFile, works, safety_lock, call, err,
                 playback_requested, faults>>

(* The early returns of start_playback; safety_open is read again.         *)
StartCheck ==
  /\ pc[Worker] = "check"
  /\ IF playback_active \/ ~playback_open \/ safety_open
     THEN Leave(Worker) ELSE ForceSafe(Worker, "enable")
  /\ UNCHANGED <<gates, pcm, gateFile, works, safety_lock, call, err,
                 playback_requested, faults>>

\* Variant.
OnlyArmed == amp_enabled /\ ~amp_unmuted
AmpUp == amp_enabled \/ amp_unmuted

TimerEntry ==
  /\ pc[Timer] = "entry"
  /\ IF AmpUp THEN ForceSafe(Timer, "unlock") ELSE Leave(Timer)
  /\ UNCHANGED <<gates, pcm, gateFile, works, safety_lock, call, err,
                 playback_requested, faults>>

(* A playback call of a diagnostic stream leaves the amplifier alone; open *)
(* is refused while a PCM is open, prepare while the gate is open.         *)
Bypasses(t) ==
  \/ call[t] = "cap_close"
  \/ playback_diagnostic /\ call[t] \in {"prepare", "hw_free", "pb_close"}
\* Variant.
OpenIgnoresPcm(t) == call[t] = "prepare" /\ safety_open
Refused(t) ==
  \/ call[t] = "open" /\ pcm_open_count # 0
  \/ call[t] = "prepare" /\ safety_open

EnterForceSafe(t) ==
  /\ call[t] \in {"open", "release", "ARM", "SAFE", "prepare", "hw_free",
                  "pb_close", "cap_close", "shutdown"}
  /\ \/ Bypasses(t) /\ Leave(t) /\ UNCHANGED err
     \/ ~Bypasses(t) /\ Refused(t) /\ Refuse(t)
     \/ /\ ~Bypasses(t) /\ ~Refused(t)
        /\ ForceSafe(t, IF call[t] = "ARM" THEN "enable" ELSE "unlock")
        /\ UNCHANGED err
  /\ UNCHANGED <<gates, timerPending, faults>>

(* startup, first read of safety_open: only the owner of an open gate.     *)
\* Variant.
CaptureAdmitted(t) ==
  safety_open /\ safety_owner_tgid # Tgid[t] /\ call[t] = "pb_open"
StartupBusy(t) == safety_open /\ safety_owner_tgid # Tgid[t]

EnterStartup(t) ==
  /\ call[t] \in {"pb_open", "cap_open"}
  /\ IF StartupBusy(t)
     THEN Refuse(t)
     ELSE Goto(t, "latch") /\ UNCHANGED <<err, cont>>
  /\ UNCHANGED <<gates, timerPending, faults>>

EnterUnmute(t) ==
  /\ call[t] = "UNMUTE"
  /\ \/ (~amp_enabled \/ amp_unmuted) /\ Refuse(t)
        /\ UNCHANGED <<gates, timerPending, faults>>
     \/ amp_enabled /\ ~amp_unmuted /\ Fault /\ Refuse(t)
        /\ UNCHANGED <<gates, timerPending>>
     \/ /\ amp_enabled /\ ~amp_unmuted
        /\ amp_unmuted' = TRUE /\ mod_delayed_work
        /\ Leave(t) /\ UNCHANGED <<amp_enabled, playback_active, err, faults>>

(* KEEPALIVE and the codec ioctls, whose codec call may fail.              *)
EnterRenew(t) ==
  /\ call[t] \in {"KEEPALIVE", "CODEC"}
  /\ \/ (~amp_unmuted \/ call[t] = "CODEC") /\ Refuse(t) /\ UNCHANGED timerPending
     \/ amp_unmuted /\ mod_delayed_work /\ Leave(t) /\ UNCHANGED err
  /\ UNCHANGED <<gates, faults>>

Enter(t) ==
  /\ pc[t] = "entry"
  /\ EnterForceSafe(t) \/ EnterStartup(t) \/ EnterUnmute(t) \/ EnterRenew(t)
  /\ UNCHANGED <<pcm, gateFile, workPending, workArg, safety_lock, call,
                 playback_requested>>

(* startup, second read of safety_open: the playback stream becomes        *)
(* diagnostic.  The ALSA core then owns an open stream.                    *)
Latch(t) ==
  /\ pc[t] = "latch"
  /\ LET d == Direction(call[t]) IN
     /\ playback_open' = (playback_open \/ d = "playback")
     /\ playback_diagnostic' = IF d = "playback" THEN safety_open
                                                 ELSE playback_diagnostic
     /\ stream' = [stream EXCEPT ![d] = "open"]
     /\ opener' = [opener EXCEPT ![d] = Tgid[t]]
  /\ pcm_open_count' = pcm_open_count + 1
  /\ Goto(t, "unlock")
  /\ UNCHANGED <<gates, gateFile, works, safety_lock, call, err, cont,
                 playback_requested, faults>>

(* force_safe: mute, sleep 10 ms, shut down even when muting failed.       *)
\* Variant.
MuteErrorReturns(a) == Goto(a, "unlock") /\ Fail(a)
MuteError(a) == Goto(a, "shut") /\ Fail(a)

Mute(a) ==
  /\ pc[a] = "mute"
  /\ \/ amp_unmuted' = FALSE /\ Goto(a, "shut") /\ UNCHANGED <<err, faults>>
     \/ amp_unmuted /\ Fault /\ MuteError(a) /\ UNCHANGED amp_unmuted
  /\ UNCHANGED <<amp_enabled, playback_active, pcm, gateFile, works, safety_lock,
                 call, cont, playback_requested>>

\* Variant.
MuteErrorForgotten(a) == cont
AfterShut(a) == IF a \in err THEN "unlock" ELSE cont
\* Variant.
ActiveKept == UNCHANGED playback_active
ActiveReset == playback_active' = FALSE

Shut(a) ==
  /\ pc[a] = "shut"
  /\ \/ /\ amp_enabled' = FALSE /\ UNCHANGED <<err, faults>>
        /\ Goto(a, AfterShut(a))
     \/ amp_enabled /\ Fault /\ Fail(a) /\ Goto(a, "unlock") /\ UNCHANGED amp_enabled
  /\ ActiveReset
  /\ UNCHANGED <<amp_unmuted, pcm, gateFile, works, safety_lock, call, cont,
                 playback_requested>>

(* The start sequence and ARM_MUTED: enable, sleep 20 ms, then unmute or   *)
(* arm the timer.  A failing start falls back to force_safe; a failing ARM *)
(* just returns.                                                           *)
Enable(a) ==
  /\ pc[a] = "enable"
  /\ \/ amp_enabled' = TRUE /\ Goto(a, "settle") /\ UNCHANGED <<err, cont, faults>>
     \/ /\ Fault /\ Fail(a) /\ UNCHANGED amp_enabled
        /\ IF a = Worker THEN ForceSafe(a, "unlock") ELSE Leave(a)
  /\ UNCHANGED <<amp_unmuted, playback_active, pcm, gateFile, works, safety_lock,
                 call, playback_requested>>

ArmSettle(t) ==
  /\ pc[t] = "settle"
  /\ mod_delayed_work /\ Goto(t, "unlock")
  /\ UNCHANGED <<gates, pcm, gateFile, workPending, workArg, safety_lock, call,
                 err, cont, playback_requested, faults>>

StartSettle ==
  /\ pc[Worker] = "settle"
  /\ IF playback_requested
     THEN Goto(Worker, "unmute") /\ UNCHANGED <<err, cont>>
     ELSE ForceSafe(Worker, "unlock") /\ Fail(Worker)
  /\ UNCHANGED <<gates, pcm, gateFile, works, safety_lock, call,
                 playback_requested, faults>>

StartUnmute ==
  /\ pc[Worker] = "unmute"
  /\ \/ /\ amp_unmuted' = TRUE /\ playback_active' = TRUE
        /\ Leave(Worker) /\ UNCHANGED <<err, faults>>
     \/ /\ Fault /\ Fail(Worker) /\ ForceSafe(Worker, "unlock")
        /\ UNCHANGED <<amp_unmuted, playback_active>>
  /\ UNCHANGED <<amp_enabled, pcm, gateFile, works, safety_lock, call,
                 playback_requested>>

-----------------------------------------------------------------------------
(* Leaving the lock.                                                       *)

(* What a call does last inside the lock, and the state the VFS or the     *)
(* ALSA core keeps once it has returned.                                   *)
\* Variant.
CloseNotCounted == pcm_open_count
CountClose == IF pcm_open_count = 0 THEN 0 ELSE pcm_open_count - 1   \* WARN_ON

Finish(t) ==
  LET ok == t \notin err IN
  /\ safety_owner_tgid' = CASE call[t] = "open" /\ ok -> Tgid[t]
                            [] call[t] = "release"    -> None
                            [] OTHER                  -> safety_owner_tgid
  /\ fd' = IF call[t] = "open" /\ ok THEN Tgid[t] ELSE fd
  /\ IF call[t] \in {"pb_close", "cap_close"}
     THEN /\ pcm_open_count' = CountClose
          /\ stream' = [stream EXCEPT ![Direction(call[t])] = "closed"]
          /\ opener' = [opener EXCEPT ![Direction(call[t])] = None]
     ELSE /\ UNCHANGED <<pcm_open_count, opener>>
          /\ stream' = CASE call[t] = "prepare" /\ ok -> [stream EXCEPT !["playback"] = "prepared"]
                         [] call[t] = "hw_free"       -> [stream EXCEPT !["playback"] = "open"]
                         [] OTHER                     -> stream
  /\ playback_open' = (playback_open /\ call[t] # "pb_close")
  /\ playback_diagnostic' = (playback_diagnostic /\ call[t] # "pb_close")

(* A failed open and a release give the gate back after the unlock.        *)
GivesGateBack(t) == call[t] = "release" \/ (call[t] = "open" /\ t \in err)

Unlock(t) ==
  /\ pc[t] = "unlock"
  /\ safety_lock' = None /\ Finish(t)
  /\ IF GivesGateBack(t)
     THEN Goto(t, "reopen") /\ UNCHANGED call
     ELSE Goto(t, "idle") /\ call' = [call EXCEPT ![t] = "none"]
  /\ err' = err \ {t}
  /\ UNCHANGED <<gates, safety_open, works, cont, playback_requested, faults>>

Reopen(t) ==
  /\ pc[t] = "reopen"
  /\ safety_open' = FALSE
  /\ Goto(t, "idle") /\ call' = [call EXCEPT ![t] = "none"]
  /\ UNCHANGED <<gates, pcm, safety_owner_tgid, fd, works, safety_lock, err, cont,
                 playback_requested, faults>>

TimerUnlock ==
  /\ pc[Timer] = "unlock"
  /\ safety_lock' = None /\ Goto(Timer, "idle") /\ err' = err \ {Timer}
  /\ UNCHANGED <<gates, pcm, gateFile, works, call, cont, playback_requested, faults>>

WorkUnlock ==
  /\ pc[Worker] = "unlock"
  /\ safety_lock' = None /\ Goto(Worker, "recheck") /\ err' = err \ {Worker}
  /\ UNCHANGED <<gates, pcm, gateFile, works, call, cont, playback_requested, faults>>

(* The worker runs again when the target changed under it.                 *)
WorkRecheck ==
  /\ pc[Worker] = "recheck"
  /\ IF workArg # playback_requested THEN queue_work ELSE UNCHANGED workPending
  /\ workArg' = FALSE /\ Goto(Worker, "idle")
  /\ UNCHANGED <<gates, pcm, gateFile, timerPending, safety_lock, call, err, cont,
                 playback_requested, faults>>

-----------------------------------------------------------------------------

ThreadStep(t) ==
  \/ ClearRequest(t) \/ CancelWork(t) \/ FlushWork(t)
  \/ CancelTimer(t) \/ FlushTimer(t)
  \/ Enter(t) \/ Latch(t) \/ Mute(t) \/ Shut(t) \/ Enable(t) \/ ArmSettle(t)
  \/ Unlock(t) \/ Reopen(t)
WorkerStep ==
  \/ WorkStart \/ WorkRead \/ WorkEntry \/ StartCheck
  \/ Mute(Worker) \/ Shut(Worker) \/ Enable(Worker) \/ StartSettle \/ StartUnmute
  \/ WorkUnlock \/ WorkRecheck
TimerStep ==
  TimerExpire \/ TimerEntry \/ Mute(Timer) \/ Shut(Timer) \/ TimerUnlock

Next ==
  \/ \E t \in Threads, c \in Ops : Begin(t, c)
  \/ TriggerStart \/ TriggerStop \/ TriggerQueue
  \/ \E a \in Actors : Acquire(a)
  \/ \E t \in Threads : ThreadStep(t)
  \/ WorkerStep
  \/ TimerStep

Spec == Init /\ [][Next]_vars

(* The scheduler runs every started actor, a queued work item starts, a    *)
(* timer expires, and the mutex hands over to waiters, so no waiter        *)
(* starves.  Clients owe nothing: neither new calls nor triggers are fair. *)
Fairness ==
  /\ WF_vars(WorkerStep) /\ WF_vars(TimerStep) /\ WF_vars(TriggerQueue)
  /\ \A t \in Threads : WF_vars(ThreadStep(t))
  /\ \A a \in Actors : SF_vars(Acquire(a))

FairSpec == Spec /\ Fairness

-----------------------------------------------------------------------------
(* What the gate implements.                                               *)

Promise == INSTANCE AmpSafety
           WITH enabled <- amp_enabled, unmuted <- amp_unmuted,
                holder <- safety_owner_tgid, user <- opener

(* The driver keeps AmpSafety: the gate is handed over and streams are     *)
(* opened beside it only as that module allows, and the amplifier comes    *)
(* up only for the holder of the gate or of the playback stream, whatever  *)
(* worker, timer and calls are in flight and whatever fails.               *)
ImplementsAmpSafety == Promise!Spec

-----------------------------------------------------------------------------
(* Properties.                                                             *)

TypeOK ==
  /\ amp_enabled \in BOOLEAN /\ amp_unmuted \in BOOLEAN /\ playback_active \in BOOLEAN
  /\ safety_owner_tgid \in Processes \cup {None} /\ fd \in Processes \cup {None}
  /\ safety_open \in BOOLEAN /\ playback_requested \in BOOLEAN
  /\ pcm_open_count \in 0..2
  /\ playback_open \in BOOLEAN /\ playback_diagnostic \in BOOLEAN
  /\ stream \in [Directions -> StreamStates]
  /\ opener \in [Directions -> Processes \cup {None}]
  /\ workPending \in BOOLEAN /\ workArg \in BOOLEAN /\ timerPending \in BOOLEAN
  /\ safety_lock \in Actors \cup {None}
  /\ pc \in [Actors -> Labels]
  /\ call \in [Threads -> AllOps \cup {"none"}]
  /\ err \subseteq Actors /\ cont \in {"enable", "unlock"}
  /\ faults \in 0..MaxFaults

Audible == amp_enabled /\ amp_unmuted
GateHeld == safety_owner_tgid # None
PlaybackOwns == stream["playback"] = "running" /\ ~playback_diagnostic
Settled == (\A a \in Actors : pc[a] = "idle") /\ ~workPending

(* While a process holds the gate, every open PCM stream, playback or      *)
(* capture, is its own: startup and safety_open check each other's state   *)
(* under the lock although safety_open itself is set outside it.           *)
MutualExclusion ==
  GateHeld => \A d \in Directions :
                stream[d] # "closed" => opener[d] = safety_owner_tgid

(* While a process holds the gate, the automatic worker neither runs nor   *)
(* is queued, so only the holder and its timeout drive the amplifier.      *)
StrictExclusion == GateHeld => pc[Worker] = "idle" /\ ~workPending

(* The keepalive timeout is queued or runs only while the gate is open: it *)
(* never cuts an ordinary playback short.                                  *)
TimeoutOnlyWithGate == timerPending \/ pc[Timer] # "idle" => safety_open

(* Gate, streams, worker and timeout keep out of each other's way: the     *)
(* three exclusions together.                                              *)
Exclusion == MutualExclusion /\ StrictExclusion /\ TimeoutOnlyWithGate

(* Under the gate, an enabled amplifier is never left without a timeout,   *)
(* queued or running, unless a call that ends in force_safe or arms the    *)
(* timeout is in flight; with one regulator failure this still holds of an *)
(* audible amplifier.                                                      *)
WatchdogCovers ==
  (/\ GateHeld /\ amp_enabled
   /\ faults = 0 \/ (faults = 1 /\ amp_unmuted))
  => \/ timerPending \/ pc[Timer] # "idle"
     \/ \E t \in Threads : call[t] \in {"ARM", "SAFE", "release", "shutdown"}

(* The amplifier leaves shutdown only while muted, and enters it muted     *)
(* unless muting has just failed.                                          *)
FailClosedOrder ==
  [][/\ ~amp_enabled /\ amp_enabled' => ~amp_unmuted /\ ~amp_unmuted'
     /\ amp_enabled /\ ~amp_enabled' => ~amp_unmuted \/ safety_lock \in err]_vars

(* SAFE, open, hw_free and prepare that return 0 leave the amplifier muted *)
(* and shut down at the moment they give up the lock, whatever failed.     *)
OkMeansSafe ==
  \A t \in Threads :
    /\ pc[t] = "unlock" /\ t \notin err
    /\ call[t] \in {"SAFE", "open"} \/ (call[t] \in {"prepare", "hw_free"} /\ ~playback_diagnostic)
    => ~amp_enabled /\ ~amp_unmuted

(* One failing regulator never leaves the amplifier audible after SAFE, a  *)
(* release, a shutdown, or the timeout: shutdown is tried when mute fails. *)
OneFaultSilent ==
  faults <= 1 =>
    /\ \A t \in Threads :
         pc[t] = "unlock" /\ call[t] \in {"SAFE", "release", "shutdown"} => ~Audible
    /\ pc[Timer] = "unlock" => ~Audible

(* With the playback stream closed, no gate holder and nothing in flight   *)
(* the amplifier is silent, even after one regulator failure.              *)
ClosedMeansSilent ==
  Settled /\ stream["playback"] = "closed" /\ ~GateHeld /\ faults <= 1 => ~Audible

(* However a gate session, a stream or the driver ends, it ends silent:    *)
(* what a call reports, what one fault leaves, and what stays behind.      *)
EndsSilent == OkMeansSafe /\ OneFaultSilent /\ ClosedMeansSilent

(* An amplifier that plays on after STOP (the worker read the target just  *)
(* before it changed) is about to be silenced: the worker is queued or     *)
(* running, a trigger is queueing it, or a call ending in force_safe is in *)
(* flight.                                                                 *)
StopIsCovered ==
  Audible /\ ~playback_requested /\ faults <= 1 =>
    \/ workPending \/ pc[Worker] # "idle" \/ pc[Trigger] = "queue"
    \/ \E t \in Threads : call[t] \in {"prepare", "hw_free", "pb_close"}

(* A running ordinary playback is audible once everything in flight has    *)
(* settled: playback owns the gates for its PCM lifecycle.                 *)
RunningMeansAudible ==
  Settled /\ PlaybackOwns /\ faults = 0 => Audible /\ playback_active

(* Ordinary playback follows its triggers: what STOP and START have asked  *)
(* for holds once the calls in flight are through.                         *)
FollowsTriggers == StopIsCovered /\ RunningMeansAudible

(* After STOP and once everything in flight has settled the amplifier is   *)
(* silent: the gate's open, which cancels the worker, forces SAFE.         *)
StoppedMeansSilent ==
  Settled /\ ~PlaybackOwns /\ ~GateHeld /\ faults = 0 => ~Audible

(* Only the process that owns the gate opens the diagnostic PCM.           *)
DiagnosticOnlyForOwner ==
  [][~playback_diagnostic /\ playback_diagnostic'
       => safety_owner_tgid = opener'["playback"]]_vars

(* STOP silences the amplifier, unless playback starts again or more than  *)
(* one regulator operation fails.                                          *)
StopSilences == ~PlaybackOwns ~> (PlaybackOwns \/ ~Audible \/ faults > 1)

(* A holder that stops renewing is silenced by the timeout: if from some   *)
(* point on nobody arms, unmutes or renews, a held gate is not audible for *)
(* ever.                                                                   *)
SilentWithoutKeepalive ==
  <>[](\A t \in Threads : call[t] \notin {"ARM", "UNMUTE", "KEEPALIVE", "CODEC"})
    => <>[]~(GateHeld /\ Audible)

(* Every call returns: the cancellations, which wait for workers that take *)
(* the lock, and the lock itself never block one another for ever.         *)
CallsReturn == \A t \in Threads : call[t] # "none" ~> call[t] = "none"
=============================================================================
