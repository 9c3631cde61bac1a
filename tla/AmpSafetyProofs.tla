--------------------------- MODULE AmpSafetyProofs ---------------------------
(***************************************************************************)
(* AmpGate implements AmpSafety, for any threads, processes and number of  *)
(* faults: a second invariant, on top of IInv, relates what is in flight   *)
(* to the regulators and to the openers of the streams, and with both      *)
(* every step of the driver is a step of AmpSafety or changes nothing it   *)
(* speaks of.  A third one is about what each label of a call knows of the *)
(* regulators and the timer, and a fourth about ordinary playback.         *)
(***************************************************************************)
EXTENDS AmpGateProofs

(* Between enabling and unmuting the amplifier is up and muted.            *)
UpInv == \A a \in Actors :
  pc[a] \in {"settle", "unmute"} => amp_enabled /\ ~amp_unmuted

(* A stream has an opener exactly while it is not closed.                  *)
OpenerInv == \A d \in Directions : stream[d] = "closed" <=> opener[d] = None

RInv == UpInv /\ OpenerInv /\ OkMeansSafe

(* Actions that leave the regulators and the streams alone.                *)
Quiet == UNCHANGED <<amp_enabled, amp_unmuted, stream, opener, playback_diagnostic>>

-----------------------------------------------------------------------------
(* RInv is an invariant.                                                   *)

LEMMA InitRInv == Init => RInv
BY DEF Init, RInv, UpInv, OpenerInv, OkMeansSafe, Actors

(* Steps of clients and of the Linux core that do not hold the lock.       *)
LEMMA OutsideKeepsR ==
  ASSUME IInv, RInv,
         \/ \E t \in Threads, c \in Ops : Begin(t, c)
         \/ TriggerStart \/ TriggerStop \/ TriggerQueue
         \/ \E a \in Actors : Acquire(a)
         \/ WorkStart \/ WorkRead \/ TimerExpire \/ WorkRecheck
  PROVE  RInv'
<1> USE ActorsAssumption DEF IInv, RInv, TypeOK, gates, pcm
<1>1. ASSUME NEW t \in Threads, NEW c \in Ops, Begin(t, c) PROVE RInv'
  <2> USE <1>1 DEF Begin, Goto
  <2>1. UpInv' /\ OpenerInv'
    BY DEF UpInv, OpenerInv, FirstLabel, Actors
  <2>2. OkMeansSafe'
    BY DEF OkMeansSafe, FirstLabel, Actors
  <2> QED
    BY <2>1, <2>2
<1>2. CASE TriggerStart
  <2> USE <1>2 DEF TriggerStart, TriggerPlayback, TriggerLabel, Goto
  <2>1. UpInv' /\ OpenerInv'
    BY DEF UpInv, OpenerInv, Directions, StreamStates, Actors
  <2>2. OkMeansSafe'
    BY DEF OkMeansSafe, Actors
  <2> QED
    BY <2>1, <2>2
<1>3. CASE TriggerStop
  <2> USE <1>3 DEF TriggerStop, TriggerPlayback, TriggerLabel, Goto
  <2>1. UpInv' /\ OpenerInv'
    BY DEF UpInv, OpenerInv, Directions, StreamStates, Actors
  <2>2. OkMeansSafe'
    BY DEF OkMeansSafe, Actors
  <2> QED
    BY <2>1, <2>2
<1>4. CASE TriggerQueue
  BY <1>4 DEF TriggerQueue, Goto, UpInv, OpenerInv, OkMeansSafe, Actors
<1>5. ASSUME NEW a \in Actors, Acquire(a) PROVE RInv'
  BY <1>5 DEF Acquire, Goto, UpInv, OpenerInv, OkMeansSafe, Actors
<1>6. CASE WorkStart \/ WorkRead
  BY <1>6 DEF WorkStart, WorkRead, Goto, UpInv, OpenerInv, OkMeansSafe, Actors
<1>7. CASE TimerExpire
  BY <1>7 DEF TimerExpire, Goto, UpInv, OpenerInv, OkMeansSafe, Actors
<1>8. CASE WorkRecheck
  BY <1>8 DEF WorkRecheck, Goto, UpInv, OpenerInv, OkMeansSafe, Actors
<1> QED
  BY <1>1, <1>2, <1>3, <1>4, <1>5, <1>6, <1>7, <1>8

(* The preamble of a call, and leaving the lock.                           *)
LEMMA ThreadKeepsR ==
  ASSUME IInv, RInv, NEW t \in Threads,
         \/ ClearRequest(t) \/ CancelWork(t) \/ FlushWork(t)
         \/ CancelTimer(t) \/ FlushTimer(t)
         \/ Unlock(t) \/ Reopen(t) \/ Latch(t) \/ Enter(t) \/ ArmSettle(t)
  PROVE  RInv'
<1> USE ActorsAssumption DEF IInv, RInv, TypeOK, gates, pcm
<1>1. CASE \/ ClearRequest(t) \/ CancelWork(t) \/ FlushWork(t)
           \/ CancelTimer(t) \/ FlushTimer(t) \/ Reopen(t)
  <2> USE <1>1 DEF ClearRequest, CancelWork, FlushWork, CancelTimer, FlushTimer,
                   Reopen, Goto
  <2>1. UpInv' /\ OpenerInv'
    BY DEF UpInv, OpenerInv, Actors
  <2>2. OkMeansSafe'
    BY DEF OkMeansSafe, Actors
  <2> QED
    BY <2>1, <2>2
<1>2. CASE Unlock(t)
  <2> USE <1>2 DEF Unlock, Finish, GivesGateBack, Goto
  <2>1. UpInv'
    BY DEF UpInv, Actors
  <2>2. OpenerInv'
    BY DEF OpenerInv, Directions, PcmInv, PcmCalls, Direction
  <2>3. OkMeansSafe'
    <3>1. \A u \in Threads : u # t => pc[u] # "unlock"
      BY DEF LockInv, Critical, Actors
    <3> QED
      BY <3>1 DEF OkMeansSafe, Actors
  <2> QED
    BY <2>1, <2>2, <2>3
<1>3. CASE Latch(t)
  <2> USE <1>3 DEF Latch, Goto
  <2>1. UpInv'
    BY DEF UpInv, Actors
  <2>2. OpenerInv'
    BY DEF OpenerInv, Directions, Direction
  <2>3. OkMeansSafe'
    <3>1. \A u \in Threads : u # t => pc[u] # "unlock"
      BY DEF LockInv, Critical, Actors
    <3>2. call[t] \in {"pb_open", "cap_open"}
      BY DEF CallInv
    <3> QED
      BY <3>1, <3>2 DEF OkMeansSafe, Actors
  <2> QED
    BY <2>1, <2>2, <2>3
<1>4. CASE Enter(t)
  <2>0. \A u \in Actors : u # t => pc[u] \notin Critical
    BY <1>4 DEF LockInv, Critical, Actors, Enter
  <2>1. CASE EnterForceSafe(t)
    <3> USE <1>4, <2>1 DEF Enter, EnterForceSafe, Bypasses, Leave, Refuse, Fail,
                           ForceSafe, Goto
    <3>1. UpInv' /\ OpenerInv'
      BY DEF UpInv, OpenerInv, Actors
    <3>2. OkMeansSafe'
      BY <2>0 DEF OkMeansSafe, Critical, Actors
    <3> QED
      BY <3>1, <3>2
  <2>2. CASE EnterStartup(t)
    BY <1>4, <2>2, <2>0 DEF Enter, EnterStartup, Refuse, Leave, Fail, Goto, UpInv,
       OpenerInv, OkMeansSafe, Critical, Actors
  <2>3. CASE EnterUnmute(t) \/ EnterRenew(t)
    BY <1>4, <2>3, <2>0 DEF Enter, EnterUnmute, EnterRenew, Refuse, Leave, Fail,
       Goto, UpInv, OpenerInv, OkMeansSafe, Critical, Actors
  <2> QED
    BY <1>4, <2>1, <2>2, <2>3 DEF Enter
<1>5. CASE ArmSettle(t)
  BY <1>5 DEF ArmSettle, Goto, UpInv, OpenerInv, OkMeansSafe, CallInv, Actors
<1> QED
  BY <1>1, <1>2, <1>3, <1>4, <1>5

(* The critical section: no other actor is in one.                         *)
LEMMA CriticalKeepsR ==
  ASSUME IInv, RInv, NEW a \in Actors,
         Mute(a) \/ Shut(a) \/ Enable(a)
  PROVE  RInv'
<1> USE ActorsAssumption DEF IInv, RInv, TypeOK, pcm
<1>0. \A u \in Actors : u # a => pc[u] \notin Critical
  BY DEF LockInv, Critical, Mute, Shut, Enable
<1>1. CASE Mute(a)
  <2> USE <1>1 DEF Mute, MuteError, Fail, Goto
  <2>1. UpInv' /\ OpenerInv'
    BY <1>0 DEF UpInv, OpenerInv, Critical
  <2>2. OkMeansSafe'
    BY <1>0 DEF OkMeansSafe, Critical, Actors
  <2> QED
    BY <2>1, <2>2
<1>2. CASE Shut(a)
  <2> USE <1>2 DEF Shut, AfterShut, Fail, Goto
  <2>1. UpInv' /\ OpenerInv'
    BY <1>0 DEF UpInv, OpenerInv, Critical
  <2>2. OkMeansSafe'
    BY <1>0 DEF OkMeansSafe, Critical, Actors, GateOrderInv
  <2> QED
    BY <2>1, <2>2
<1>3. CASE Enable(a)
  <2> USE <1>3 DEF Enable, ForceSafe, Leave, Fail, Goto
  <2>1. UpInv' /\ OpenerInv'
    BY <1>0 DEF UpInv, OpenerInv, Critical, GateOrderInv
  <2>2. OkMeansSafe'
    BY <1>0 DEF OkMeansSafe, Critical, Actors
  <2> QED
    BY <2>1, <2>2
<1> QED
  BY <1>1, <1>2, <1>3

LEMMA WorkerKeepsR ==
  ASSUME IInv, RInv,
         \/ WorkEntry \/ StartCheck \/ StartSettle \/ StartUnmute \/ WorkUnlock
         \/ TimerEntry \/ TimerUnlock
  PROVE  RInv'
<1> USE ActorsAssumption DEF IInv, RInv, TypeOK, gates, pcm
<1>1. CASE WorkEntry \/ StartCheck \/ TimerEntry
  BY <1>1 DEF WorkEntry, StartCheck, TimerEntry, StopPlayback, ForceSafe, Leave,
     Goto, UpInv, OpenerInv, OkMeansSafe, Actors
<1>2. CASE StartSettle
  BY <1>2 DEF StartSettle, ForceSafe, Fail, Goto, UpInv, OpenerInv, OkMeansSafe, Actors
<1>3. CASE StartUnmute
  <2>0. \A u \in Actors : u # Worker => pc[u] \notin Critical
    BY <1>3 DEF StartUnmute, LockInv, Critical, Actors
  <2> QED
    BY <1>3, <2>0 DEF StartUnmute, ForceSafe, Leave, Fail, Goto, UpInv, OpenerInv,
       OkMeansSafe, Critical, Actors
<1>4. CASE WorkUnlock \/ TimerUnlock
  BY <1>4 DEF WorkUnlock, TimerUnlock, Goto, UpInv, OpenerInv, OkMeansSafe, Actors
<1> QED
  BY <1>1, <1>2, <1>3, <1>4

LEMMA NextRInv == IInv /\ RInv /\ [Next]_vars => RInv'
<1> SUFFICES ASSUME IInv, RInv, [Next]_vars PROVE RInv'
  OBVIOUS
<1>0. Threads \subseteq Actors /\ Worker \in Actors /\ Timer \in Actors
  BY DEF Actors
<1>1. CASE UNCHANGED vars
  BY <1>1 DEF vars, gates, pcm, control, RInv, UpInv, OpenerInv, OkMeansSafe
<1>2. CASE Next
  BY <1>0, <1>2, OutsideKeepsR, ThreadKeepsR, CriticalKeepsR, WorkerKeepsR
     DEF Next, ThreadStep, WorkerStep, TimerStep
<1> QED
  BY <1>1, <1>2

(* SAFE, open, hw_free and prepare that return 0 leave the amplifier muted *)
(* and shut down, whatever races with them and however many regulator      *)
(* operations have failed.                                                 *)
THEOREM SuccessIsSilent == Spec => []OkMeansSafe
<1>1. RInv => OkMeansSafe
  BY DEF RInv
<1> QED
  BY <1>1, InitRInv, NextRInv, InductiveInvariant, PTL DEF Spec

-----------------------------------------------------------------------------
(* Every step of the driver is a step of AmpSafety or changes nothing it   *)
(* speaks of.                                                              *)

LEMMA InitImplements == Init => Promise!Init
BY DEF Init, Promise!Init, Promise!Streams, Directions

(* The amplifier comes up for the holder of the gate, or for an open       *)
(* playback stream: whoever enables it, worker or thread, acts for one.    *)
LEMMA ForSomebody ==
  ASSUME IInv, RInv, NEW a \in Actors,
         \/ pc[a] = "enable" \/ pc[a] = "unmute"
         \/ a \in Threads /\ call[a] = "UNMUTE"
  PROVE  Promise!InUse
<1> USE ActorsAssumption DEF IInv, RInv, TypeOK, Promise!InUse
<1>1. CASE a \in Threads
  <2>1. call[a] \in Ioctls
    BY <1>1 DEF CallInv, Ioctls
  <2> QED
    BY <1>1, <2>1 DEF GateInv
<1>2. CASE a = Worker
  <2>1. stream["playback"] # "closed"
    BY <1>2 DEF WorkerInv, WorkerQuiet, Actors
  <2> QED
    BY <2>1 DEF OpenerInv, Directions
<1>3. CASE a \in {Timer, Trigger}
  BY <1>3 DEF LabelInv, Actors
<1> QED
  BY <1>1, <1>2, <1>3 DEF Actors

LEMMA RegulatorStep ==
  ASSUME IInv, RInv, NEW a \in Actors,
         Mute(a) \/ Shut(a) \/ Enable(a)
  PROVE  [Promise!Next]_Promise!vars
<1> USE DEF pcm, gateFile, Promise!vars, Promise!amplifier, IInv, TypeOK
<1>1. CASE Mute(a)
  BY <1>1 DEF Mute, Promise!Next, Promise!Mute
<1>2. CASE Shut(a)
  BY <1>2 DEF Shut, Promise!Next, Promise!ShutDown
<1>3. CASE Enable(a)
  <2>1. Promise!InUse /\ ~amp_enabled /\ ~amp_unmuted
    BY <1>3, ForSomebody DEF Enable, GateOrderInv
  <2> QED
    BY <1>3, <2>1 DEF Enable, Promise!Next, Promise!Enable
<1> QED
  BY <1>1, <1>2, <1>3

LEMMA StartUnmuteStep ==
  ASSUME IInv, RInv, StartUnmute
  PROVE  [Promise!Next]_Promise!vars
<1>1. Worker \in Actors /\ pc[Worker] = "unmute"
  BY DEF StartUnmute, Actors
<1>2. Promise!InUse /\ amp_enabled /\ ~amp_unmuted
  BY <1>1, ForSomebody DEF RInv, UpInv
<1> QED
  BY <1>2 DEF StartUnmute, pcm, gateFile, Promise!vars, Promise!amplifier,
     Promise!Next, Promise!Unmute

LEMMA EnterStep ==
  ASSUME IInv, RInv, NEW t \in Threads, Enter(t)
  PROVE  [Promise!Next]_Promise!vars
<1> USE DEF Enter, pcm, gateFile, gates, Promise!vars, Promise!amplifier
<1>1. CASE EnterForceSafe(t) \/ EnterStartup(t) \/ EnterRenew(t)
  BY <1>1 DEF EnterForceSafe, EnterStartup, EnterRenew
<1>2. CASE EnterUnmute(t)
  <2>1. t \in Actors /\ call[t] = "UNMUTE"
    BY <1>2 DEF EnterUnmute, Actors
  <2>2. Promise!InUse
    BY <2>1, ForSomebody
  <2> QED
    BY <1>2, <2>2 DEF EnterUnmute, Promise!Next, Promise!Unmute
<1> QED
  BY <1>1, <1>2

(* startup opens a stream: beside a gate only for its holder.              *)
LEMMA LatchStep ==
  ASSUME IInv, RInv, NEW t \in Threads, Latch(t)
  PROVE  [Promise!Next]_Promise!vars
<1> DEFINE d == Direction(call[t])
           p == Tgid[t]
<1>1. call[t] \in {"pb_open", "cap_open"} /\ d \in Promise!Streams
  BY DEF IInv, CallInv, Latch, Direction, Promise!Streams
<1>2. p \in Processes
  BY ActorsAssumption
<1>3. safety_owner_tgid \in {None, p}
  BY DEF IInv, EntryInv, GateHeld, Latch
<1>4. opener[d] = None
  BY <1>1 DEF IInv, PcmInv, PcmCalls, RInv, OpenerInv, Directions, Latch,
              Promise!Streams
<1>5. Promise!OpenStream(p, d)
  BY <1>3, <1>4 DEF Latch, Promise!OpenStream, Promise!amplifier, gates, gateFile
<1> QED
  BY <1>1, <1>2, <1>5 DEF Promise!Next

(* What a call changes as it gives up the lock: a close ends its stream,   *)
(* an open takes the gate, a release returns it.                           *)
LEMMA UnlockStep ==
  ASSUME IInv, RInv, NEW t \in Threads, Unlock(t)
  PROVE  [Promise!Next]_Promise!vars
<1> USE ActorsAssumption DEF Unlock, Finish, gates, Promise!vars, Promise!amplifier
<1>0. t \in Actors
  BY DEF Actors
<1>1. CASE call[t] \in {"pb_close", "cap_close"}
  <2> DEFINE d == Direction(call[t])
  <2>1. d \in Promise!Streams
    BY DEF Direction, Promise!Streams
  <2>2. opener[d] # None
    BY <1>1, <2>1 DEF IInv, PcmInv, PcmCalls, RInv, OpenerInv, Directions,
                      Promise!Streams
  <2>3. Promise!CloseStream(d)
    BY <1>1, <2>2 DEF Promise!CloseStream
  <2> QED
    BY <2>1, <2>3 DEF Promise!Next
<1>2. CASE call[t] = "open" /\ t \notin err
  <2>1. ~GateHeld /\ \A d \in Directions : opener[d] = None
    BY <1>2 DEF IInv, GateInv, GateCalls, EntryInv, RInv, OpenerInv
  <2>2. ~amp_enabled /\ ~amp_unmuted
    BY <1>2 DEF RInv, OkMeansSafe
  <2>3. Promise!TakeGate(Tgid[t])
    BY <1>2, <2>1, <2>2 DEF Promise!TakeGate, Promise!Streams, Directions, GateHeld
  <2> QED
    BY <2>3 DEF Promise!Next
<1>3. CASE call[t] = "release"
  <2>1. opener' = opener /\ safety_owner_tgid' = None
    BY <1>3
  <2> QED
    BY <2>1 DEF Promise!Next, Promise!ReturnGate
<1>4. CASE /\ call[t] \notin {"pb_close", "cap_close", "release"}
           /\ ~(call[t] = "open" /\ t \notin err)
  BY <1>4
<1> QED
  BY <1>1, <1>2, <1>3, <1>4

LEMMA StepImplements ==
  IInv /\ RInv /\ [Next]_vars => [Promise!Next]_Promise!vars
<1> SUFFICES ASSUME IInv, RInv, [Next]_vars PROVE [Promise!Next]_Promise!vars
  OBVIOUS
<1>0. Threads \subseteq Actors /\ Worker \in Actors /\ Timer \in Actors
  BY DEF Actors
<1>1. \/ UNCHANGED <<amp_enabled, amp_unmuted, safety_owner_tgid, opener>>
      \/ \E a \in Actors : Mute(a) \/ Shut(a) \/ Enable(a)
      \/ StartUnmute
      \/ \E t \in Threads : Enter(t) \/ Latch(t) \/ Unlock(t)
  <2>1. CASE UNCHANGED vars
    BY <2>1 DEF vars, gates, pcm, gateFile
  <2>2. ASSUME NEW t \in Threads, NEW c \in Ops, Begin(t, c)
        PROVE  UNCHANGED <<amp_enabled, amp_unmuted, safety_owner_tgid, opener>>
    BY <2>2 DEF Begin, gates, pcm
  <2>3. CASE TriggerStart \/ TriggerStop \/ TriggerQueue
    BY <2>3 DEF TriggerStart, TriggerStop, TriggerPlayback, TriggerQueue, gates,
       pcm, gateFile
  <2>4. ASSUME NEW a \in Actors, Acquire(a)
        PROVE  UNCHANGED <<amp_enabled, amp_unmuted, safety_owner_tgid, opener>>
    BY <2>4 DEF Acquire, gates, pcm, gateFile
  <2>5. ASSUME NEW t \in Threads,
               \/ ClearRequest(t) \/ CancelWork(t) \/ FlushWork(t) \/ CancelTimer(t)
               \/ FlushTimer(t) \/ ArmSettle(t) \/ Reopen(t)
        PROVE  UNCHANGED <<amp_enabled, amp_unmuted, safety_owner_tgid, opener>>
    BY <2>5 DEF ClearRequest, CancelWork, FlushWork, CancelTimer, FlushTimer,
       ArmSettle, Reopen, gates, pcm, gateFile
  <2>6. CASE \/ WorkStart \/ WorkRead \/ WorkEntry \/ StartCheck \/ StartSettle
             \/ WorkUnlock \/ WorkRecheck \/ TimerExpire \/ TimerEntry \/ TimerUnlock
    BY <2>6 DEF WorkStart, WorkRead, WorkEntry, StartCheck, StartSettle,
       WorkUnlock, WorkRecheck, TimerExpire, TimerEntry, TimerUnlock, gates,
       pcm, gateFile
  <2> QED
    BY <1>0, <2>1, <2>2, <2>3, <2>4, <2>5, <2>6
       DEF Next, ThreadStep, WorkerStep, TimerStep
<1> QED
  BY <1>1, RegulatorStep, StartUnmuteStep, EnterStep, LatchStep, UnlockStep
     DEF Promise!vars

(* The driver implements AmpSafety, for any threads and processes and any  *)
(* number of regulator failures.                                           *)
THEOREM Implements == Spec => ImplementsAmpSafety
BY InitImplements, StepImplements, InitRInv, NextRInv, InductiveInvariant, PTL
   DEF Spec, ImplementsAmpSafety, Promise!Spec
-----------------------------------------------------------------------------
(* One fault does not leave the amplifier audible, and no holder keeps it  *)
(* up without a timeout: a third invariant counts the faults.              *)

(* Calls that do nothing but force_safe, and the timeout.                  *)
ForcedSafe(a) ==
  \/ a = Timer
  \/ a \in Threads /\ call[a] \in {"SAFE", "release", "shutdown"}
  \/ a \in Threads /\ call[a] = "pb_close" /\ ~playback_diagnostic

FaultInv == \A a \in Actors :
  /\ pc[a] = "shut" /\ amp_unmuted => faults >= 1
  /\ pc[a] = "unlock" /\ ForcedSafe(a) =>
       (amp_enabled => faults >= 1) /\ (Audible => faults >= 2)

(* A diagnostic stream never gets the worker.                              *)
DiagnosticQuiet == playback_diagnostic => WorkerQuiet /\ pc[Trigger] = "idle"

(* Without a holder and an ordinary stream the amplifier is silent at any  *)
(* time, not only when everything has settled.                             *)
SilentInv ==
  /\ stream["playback"] = "closed" \/ playback_diagnostic
  /\ ~GateHeld /\ faults <= 1
  => ~Audible

(* What keeps an exposed amplifier covered once ARM has armed the timeout. *)
Covering == {"ARM", "SAFE", "release", "shutdown"}
Exposed == amp_enabled /\ (faults = 0 \/ (faults = 1 /\ amp_unmuted))
TimerOn == timerPending \/ pc[Timer] # "idle"
ArmedInv == \A t \in Threads :
  pc[t] = "unlock" /\ call[t] = "ARM" /\ Exposed =>
    TimerOn \/ \E u \in Threads : u # t /\ call[u] \in Covering

SInv == FaultInv /\ DiagnosticQuiet /\ SilentInv /\ ArmedInv /\ WatchdogCovers

LEMMA InitSInv == Init => SInv
BY DEF Init, SInv, FaultInv, DiagnosticQuiet, WorkerQuiet, SilentInv, ArmedInv,
       Exposed, WatchdogCovers, GateHeld, Audible, Actors

LEMMA BeginKeepsS ==
  ASSUME IInv, RInv, SInv, NEW t \in Threads, NEW c \in Ops, Begin(t, c)
  PROVE  SInv'
<1> USE ActorsAssumption DEF IInv, SInv, TypeOK, Begin, Goto, gates, pcm, works
<1>0. pc'[t] \notin {"shut", "unlock"} /\ \A a \in Actors : a # t => pc'[a] = pc[a]
  BY DEF FirstLabel, Actors
<1>1. FaultInv'
  BY <1>0 DEF FaultInv, ForcedSafe, Audible
<1>2. DiagnosticQuiet' /\ SilentInv'
  BY <1>0 DEF DiagnosticQuiet, WorkerQuiet, SilentInv, GateHeld, Audible, Actors
<1>3. \A u \in Threads : call[u] \in Covering => call'[u] \in Covering
  BY DEF Covering, CallInv
<1>4. ArmedInv'
  BY <1>0, <1>3 DEF ArmedInv, Exposed, TimerOn, Actors
<1>5. WatchdogCovers'
  BY <1>0, <1>3 DEF WatchdogCovers, Covering, GateHeld, Actors
<1> QED
  BY <1>1, <1>2, <1>4, <1>5

LEMMA OutsideKeepsS ==
  ASSUME IInv, RInv, SInv,
         \/ TriggerStart \/ TriggerStop \/ TriggerQueue
         \/ \E a \in Actors : Acquire(a)
         \/ WorkStart \/ WorkRead \/ TimerExpire \/ WorkRecheck
  PROVE  SInv'
<1> USE ActorsAssumption DEF IInv, SInv, TypeOK, gates, pcm, gateFile, works
<1>1. CASE TriggerStart \/ TriggerStop
  <2> USE <1>1 DEF TriggerStart, TriggerStop, TriggerPlayback, TriggerLabel, Goto
  <2>1. FaultInv'
    BY DEF FaultInv, ForcedSafe, Audible, Actors
  <2>2. DiagnosticQuiet' /\ SilentInv'
    BY DEF DiagnosticQuiet, WorkerQuiet, SilentInv, GateHeld, Audible, Actors,
           Directions, StreamStates
  <2>3. ArmedInv' /\ WatchdogCovers'
    BY DEF ArmedInv, Exposed, TimerOn, WatchdogCovers, GateHeld, Actors
  <2> QED
    BY <2>1, <2>2, <2>3
<1>2. CASE TriggerQueue
  <2> USE <1>2 DEF TriggerQueue, queue_work, Goto
  <2>1. FaultInv' /\ DiagnosticQuiet' /\ SilentInv'
    BY DEF FaultInv, ForcedSafe, Audible, DiagnosticQuiet, WorkerQuiet, SilentInv,
           GateHeld, Actors
  <2>2. ArmedInv' /\ WatchdogCovers'
    BY DEF ArmedInv, Exposed, TimerOn, WatchdogCovers, GateHeld, Actors
  <2> QED
    BY <2>1, <2>2
<1>3. ASSUME NEW a \in Actors, Acquire(a) PROVE SInv'
  <2> USE <1>3 DEF Acquire, Goto
  <2>1. FaultInv' /\ DiagnosticQuiet' /\ SilentInv'
    BY DEF FaultInv, ForcedSafe, Audible, DiagnosticQuiet, WorkerQuiet, SilentInv,
           GateHeld, LabelInv, Actors
  <2>2. ArmedInv' /\ WatchdogCovers'
    BY DEF ArmedInv, Exposed, TimerOn, WatchdogCovers, GateHeld, Actors
  <2> QED
    BY <2>1, <2>2
<1>4. CASE WorkStart \/ WorkRead \/ WorkRecheck
  <2> USE <1>4 DEF WorkStart, WorkRead, WorkRecheck, queue_work, Goto
  <2>1. FaultInv' /\ DiagnosticQuiet' /\ SilentInv'
    BY DEF FaultInv, ForcedSafe, Audible, DiagnosticQuiet, WorkerQuiet, SilentInv,
           GateHeld, Actors
  <2>2. ArmedInv' /\ WatchdogCovers'
    BY DEF ArmedInv, Exposed, TimerOn, WatchdogCovers, GateHeld, Actors
  <2> QED
    BY <2>1, <2>2
<1>5. CASE TimerExpire
  <2> USE <1>5 DEF TimerExpire, Goto
  <2>1. FaultInv' /\ DiagnosticQuiet' /\ SilentInv'
    BY DEF FaultInv, ForcedSafe, Audible, DiagnosticQuiet, WorkerQuiet, SilentInv,
           GateHeld, Actors
  <2>2. ArmedInv' /\ WatchdogCovers'
    BY DEF ArmedInv, Exposed, TimerOn, WatchdogCovers, GateHeld, Actors
  <2> QED
    BY <2>1, <2>2
<1> QED
  BY <1>1, <1>2, <1>3, <1>4, <1>5

LEMMA PreambleKeepsS ==
  ASSUME IInv, RInv, SInv, NEW t \in Threads,
         \/ ClearRequest(t) \/ CancelWork(t) \/ FlushWork(t)
         \/ CancelTimer(t) \/ FlushTimer(t) \/ Reopen(t)
  PROVE  SInv'
<1> USE ActorsAssumption DEF IInv, SInv, TypeOK, gates, pcm, gateFile, works
<1>1. CASE ClearRequest(t) \/ CancelWork(t) \/ FlushWork(t) \/ FlushTimer(t)
  <2> USE <1>1 DEF ClearRequest, CancelWork, FlushWork, FlushTimer, Goto
  <2>1. FaultInv' /\ DiagnosticQuiet' /\ SilentInv'
    BY DEF FaultInv, ForcedSafe, Audible, DiagnosticQuiet, WorkerQuiet, SilentInv,
           GateHeld, Actors
  <2>2. ArmedInv' /\ WatchdogCovers'
    BY DEF ArmedInv, Exposed, TimerOn, WatchdogCovers, GateHeld, Actors
  <2> QED
    BY <2>1, <2>2
<1>2. CASE CancelTimer(t)
  <2> USE <1>2 DEF CancelTimer, Goto
  <2>1. FaultInv' /\ DiagnosticQuiet' /\ SilentInv'
    BY DEF FaultInv, ForcedSafe, Audible, DiagnosticQuiet, WorkerQuiet, SilentInv,
           GateHeld, Actors
  <2>2. call[t] \in Covering \/ (call[t] = "open" /\ ~GateHeld)
    BY DEF CallInv, CancelsTimer, Covering, GateInv
  <2>3. ArmedInv'
    <3>1. ASSUME NEW u \in Threads, call[u] = "ARM" PROVE call[t] # "open"
      BY <3>1 DEF GateInv, GateCalls, Ioctls
    <3> QED
      BY <2>2, <3>1 DEF ArmedInv, Exposed, TimerOn, Covering, Actors
  <2>4. WatchdogCovers'
    BY <2>2 DEF WatchdogCovers, Covering, GateHeld, Actors
  <2> QED
    BY <2>1, <2>3, <2>4
<1>3. CASE Reopen(t)
  <2> USE <1>3 DEF Reopen, Goto
  <2>1. FaultInv' /\ DiagnosticQuiet' /\ SilentInv'
    BY DEF FaultInv, ForcedSafe, Audible, DiagnosticQuiet, WorkerQuiet, SilentInv,
           GateHeld, Actors
  <2>2. call[t] \in GateCalls /\ ~GateHeld
    BY DEF CallInv, GateInv, GateCalls
  <2>3. ArmedInv'
    <3>1. \A u \in Threads : call[u] # "ARM"
      BY <2>2 DEF GateInv, GateCalls, Ioctls
    <3> QED
      BY <3>1 DEF ArmedInv
  <2>4. WatchdogCovers'
    BY <2>2 DEF WatchdogCovers, GateHeld
  <2> QED
    BY <2>1, <2>3, <2>4
<1> QED
  BY <1>1, <1>2, <1>3

LEMMA UnlockKeepsS ==
  ASSUME IInv, RInv, SInv, NEW t \in Threads, Unlock(t)
  PROVE  SInv'
<1> USE ActorsAssumption DEF IInv, SInv, TypeOK, gates, works, Unlock, Goto
<1>0. t \in Actors /\ \A a \in Actors : a # t => pc[a] \notin Critical
  BY DEF LockInv, Critical, Actors
<1>1. /\ pc'[t] \notin Critical
      /\ \A a \in Actors : a # t => pc'[a] = pc[a]
      /\ \A u \in Threads : u # t => call'[u] = call[u]
  BY <1>0 DEF Critical
<1>2. FaultInv'
  BY <1>0, <1>1 DEF FaultInv, Critical
<1>3. DiagnosticQuiet'
  BY <1>0, <1>1 DEF DiagnosticQuiet, WorkerQuiet, Finish, Actors
<1>4. SilentInv'
  <2>1. CASE call[t] = "release"
    <3>1. Audible => faults >= 2
      BY <1>0, <2>1 DEF FaultInv, ForcedSafe
    <3> QED
      BY <3>1 DEF SilentInv, Audible
  <2>2. CASE call[t] = "pb_close" /\ ~playback_diagnostic
    <3>1. Audible => faults >= 2
      BY <1>0, <2>2 DEF FaultInv, ForcedSafe
    <3> QED
      BY <3>1 DEF SilentInv, Audible
  <2>3. CASE call[t] \notin {"release", "pb_close"} \/ playback_diagnostic
    <3>1. GateHeld' \/ (safety_owner_tgid' = safety_owner_tgid) \/ call[t] = "release"
      BY DEF Finish, GateHeld
    <3>2. /\ playback_diagnostic' => playback_diagnostic
          /\ stream'["playback"] = "closed" /\ call[t] # "pb_close" => stream["playback"] = "closed"
      BY DEF Finish, Directions, Direction, StreamStates
    <3> QED
      BY <2>1, <2>3, <3>1, <3>2 DEF SilentInv, Audible, GateHeld
  <2> QED
    BY <2>1, <2>2, <2>3
<1>5. ArmedInv'
  BY <1>0, <1>1 DEF ArmedInv, Critical, Actors
<1>6. WatchdogCovers'
  <2>1. CASE call[t] = "open" /\ t \notin err
    BY <2>1 DEF RInv, OkMeansSafe, WatchdogCovers
  <2>2. CASE call[t] \in {"SAFE", "shutdown", "release"}
    <3>1. (amp_enabled => faults >= 1) /\ (Audible => faults >= 2)
      BY <1>0, <2>2 DEF FaultInv, ForcedSafe
    <3> QED
      BY <3>1 DEF WatchdogCovers, Audible
  <2>3. CASE call[t] = "ARM"
    BY <1>0, <1>1, <2>3 DEF ArmedInv, Exposed, TimerOn, Covering, WatchdogCovers,
       Finish, GateHeld, Actors
  <2>4. CASE call[t] \notin Covering /\ ~(call[t] = "open" /\ t \notin err)
    BY <1>0, <1>1, <2>4 DEF Covering, WatchdogCovers, Finish, GateHeld, Actors
  <2> QED
    BY <2>1, <2>2, <2>3, <2>4 DEF Covering
<1> QED
  BY <1>2, <1>3, <1>4, <1>5, <1>6
LEMMA LatchKeepsS ==
  ASSUME IInv, RInv, SInv, NEW t \in Threads, Latch(t)
  PROVE  SInv'
<1> USE ActorsAssumption DEF IInv, SInv, TypeOK, gates, gateFile, works, Latch, Goto
<1>0. t \in Actors /\ \A a \in Actors : a # t => pc[a] \notin Critical
  BY DEF LockInv, Critical, Actors
<1>1. call[t] \in {"pb_open", "cap_open"} /\ stream[Direction(call[t])] = "closed"
  BY DEF CallInv, PcmInv, PcmCalls
<1>2. FaultInv'
  BY <1>0, <1>1 DEF FaultInv, ForcedSafe, Critical, Audible
<1>3. DiagnosticQuiet'
  BY <1>0, <1>1 DEF DiagnosticQuiet, WorkerInv, WorkerQuiet, Direction, Actors
<1>4. SilentInv'
  BY <1>1 DEF SilentInv, GateHeld, Audible, Direction, Directions
<1>5. ArmedInv' /\ WatchdogCovers'
  BY <1>0, <1>1 DEF ArmedInv, Exposed, TimerOn, Critical, WatchdogCovers, GateHeld, Actors
<1> QED
  BY <1>2, <1>3, <1>4, <1>5

LEMMA EnterKeepsS ==
  ASSUME IInv, RInv, SInv, NEW t \in Threads, Enter(t)
  PROVE  SInv'
<1> USE ActorsAssumption DEF IInv, SInv, TypeOK, pcm, gateFile, Enter
<1>0. t \in Actors /\ pc[t] = "entry" /\ \A a \in Actors : a # t => pc[a] \notin Critical
  BY DEF LockInv, Critical, Actors
<1>1. CASE EnterForceSafe(t)
  <2> USE <1>1 DEF EnterForceSafe, Bypasses, Refused, Leave, Refuse, Fail, ForceSafe,
                   Goto, gates
  <2>1. FaultInv' /\ DiagnosticQuiet' /\ SilentInv'
    BY <1>0 DEF FaultInv, ForcedSafe, Audible, Critical, DiagnosticQuiet, WorkerQuiet,
       SilentInv, GateHeld, Actors
  <2>2. ArmedInv' /\ WatchdogCovers'
    BY <1>0 DEF ArmedInv, Exposed, TimerOn, Critical, WatchdogCovers, GateHeld, Actors
  <2> QED
    BY <2>1, <2>2
<1>2. CASE EnterStartup(t)
  <2> USE <1>2 DEF EnterStartup, Leave, Refuse, Fail, Goto, gates
  <2>1. FaultInv' /\ DiagnosticQuiet' /\ SilentInv'
    BY <1>0 DEF FaultInv, ForcedSafe, Audible, Critical, DiagnosticQuiet, WorkerQuiet,
       SilentInv, GateHeld, Actors
  <2>2. ArmedInv' /\ WatchdogCovers'
    BY <1>0 DEF ArmedInv, Exposed, TimerOn, Critical, WatchdogCovers, GateHeld, Actors
  <2> QED
    BY <2>1, <2>2
<1>3. CASE EnterUnmute(t) \/ EnterRenew(t)
  <2> USE <1>3 DEF EnterUnmute, EnterRenew, Leave, Refuse, Fail, Fault, Goto, gates,
                   mod_delayed_work
  <2>0. call[t] \in {"UNMUTE", "KEEPALIVE", "CODEC"} /\ GateHeld /\ pc'[t] = "unlock"
    BY <1>0 DEF GateInv, Ioctls, GateHeld
  <2>1. FaultInv' /\ DiagnosticQuiet' /\ SilentInv'
    BY <1>0, <2>0 DEF FaultInv, ForcedSafe, Audible, Critical, DiagnosticQuiet,
       WorkerQuiet, SilentInv, GateHeld, Actors
  <2>2. ArmedInv'
    BY <1>0, <2>0 DEF ArmedInv, Critical, Actors
  <2>3. TimerDisabled => \E u \in Threads : call[u] \in Covering
    BY <2>0 DEF TimerDisabled, CallInv, CancelsTimer, Covering, GateInv
  <2>4. WatchdogCovers'
    <3>1. CASE mod_delayed_work
      BY <2>3, <3>1 DEF WatchdogCovers, Covering
    <3>2. CASE timerPending' = timerPending
      <4>1. /\ amp_enabled' = amp_enabled /\ GateHeld' = GateHeld
            /\ pc'[Timer] = pc[Timer] /\ call' = call
        BY <1>0 DEF GateHeld, Actors
      <4>2. \/ faults' = faults /\ amp_unmuted' = amp_unmuted
            \/ faults' = faults + 1 /\ ~amp_unmuted'
            \/ mod_delayed_work
        BY <2>0
      <4> QED
        BY <3>1, <3>2, <4>1, <4>2 DEF WatchdogCovers
    <3> QED
      BY <3>1, <3>2 DEF EnterUnmute, EnterRenew
  <2> QED
    BY <2>1, <2>2, <2>4
<1> QED
  BY <1>1, <1>2, <1>3

LEMMA ArmSettleKeepsS ==
  ASSUME IInv, RInv, SInv, NEW t \in Threads, ArmSettle(t)
  PROVE  SInv'
<1> USE ActorsAssumption DEF IInv, SInv, TypeOK, gates, pcm, gateFile, ArmSettle, Goto,
        mod_delayed_work
<1>0. /\ t \in Actors /\ call[t] = "ARM" /\ fd # None /\ GateHeld
      /\ \A a \in Actors : a # t => pc[a] \notin Critical
  BY DEF LockInv, Critical, Actors, CallInv, GateInv, Ioctls, GateHeld
<1>1. FaultInv' /\ DiagnosticQuiet' /\ SilentInv'
  BY <1>0 DEF FaultInv, ForcedSafe, Audible, Critical, DiagnosticQuiet, WorkerQuiet,
     SilentInv, GateHeld, Actors
<1>2. WatchdogCovers'
  BY <1>0 DEF WatchdogCovers
<1>3. ArmedInv'
  <2>1. ASSUME NEW u \in Threads, pc[u] = "tflush"
        PROVE  u # t /\ call[u] \in Covering
    BY <1>0, <2>1 DEF CallInv, CancelsTimer, Covering, GateInv, GateCalls
  <2>2. timerPending' \/ \E u \in Threads : u # t /\ call[u] \in Covering
    BY <2>1 DEF TimerDisabled
  <2> QED
    BY <1>0, <2>2 DEF ArmedInv, TimerOn, Critical, Actors
<1> QED
  BY <1>1, <1>2, <1>3

(* Faults are counted where mute and shut fail.                            *)
LEMMA CriticalKeepsS ==
  ASSUME IInv, RInv, SInv, NEW a \in Actors, Mute(a) \/ Shut(a) \/ Enable(a)
  PROVE  SInv'
<1> USE ActorsAssumption, FaultsAssumption DEF IInv, SInv, TypeOK, pcm, gateFile, works
<1>0. \A u \in Actors : u # a => pc[u] \notin Critical
  BY DEF LockInv, Critical, Mute, Shut, Enable
<1>1. faults' \in {faults, faults + 1} /\ timerPending' = timerPending
  BY DEF Mute, Shut, Enable, Fault
<1>2. CASE Mute(a)
  <2> USE <1>2 DEF Mute, MuteError, Fail, Fault, Goto
  <2>1. FaultInv'
    BY <1>0 DEF FaultInv, Critical
  <2>2. DiagnosticQuiet'
    BY DEF DiagnosticQuiet, WorkerQuiet, LabelInv, Actors
  <2>5. SilentInv'
    BY DEF SilentInv, GateHeld, Audible
  <2>3. ArmedInv' /\ WatchdogCovers'
    BY <1>0 DEF ArmedInv, WatchdogCovers, GateHeld, Critical, Actors
  <2> QED
    BY <2>1, <2>2, <2>3, <2>5
<1>3. CASE Shut(a)
  <2> USE <1>3 DEF Shut, AfterShut, Fail, Fault, Goto
  <2>1. FaultInv'
    BY <1>0 DEF FaultInv, ForcedSafe, Audible, Critical
  <2>2. DiagnosticQuiet'
    BY DEF DiagnosticQuiet, WorkerQuiet, LabelInv, Actors
  <2>5. SilentInv'
    BY DEF SilentInv, GateHeld, Audible
  <2>3. ArmedInv'
    BY <1>0 DEF ArmedInv, Exposed, FaultInv, Critical, Actors
  <2>4. WatchdogCovers'
    BY <1>0 DEF WatchdogCovers, GateHeld, Critical, Actors
  <2> QED
    BY <2>1, <2>2, <2>3, <2>4, <2>5
<1>4. CASE Enable(a)
  <2> USE <1>4 DEF Enable, ForceSafe, Leave, Fail, Fault, Goto
  <2>1. FaultInv'
    BY <1>0 DEF FaultInv, ForcedSafe, Critical, GateOrderInv, Audible, CallInv, LabelInv
  <2>2. DiagnosticQuiet'
    BY DEF DiagnosticQuiet, WorkerQuiet, LabelInv, Actors
  <2>5. SilentInv'
    BY DEF SilentInv, GateHeld, Audible, GateOrderInv
  <2>3. ArmedInv'
    BY <1>0 DEF ArmedInv, Exposed, GateOrderInv, Critical, Actors
  <2>4. WatchdogCovers'
    <3>1. CASE a = Worker
      BY <3>1 DEF StrictExclusion, WatchdogCovers, GateHeld
    <3>2. CASE a \in Threads
      BY <3>2 DEF CallInv, WatchdogCovers
    <3>3. CASE a \in {Timer, Trigger}
      BY <3>3 DEF LabelInv, Actors
    <3> QED
      BY <3>1, <3>2, <3>3 DEF Actors
  <2> QED
    BY <2>1, <2>2, <2>3, <2>4, <2>5
<1> QED
  BY <1>2, <1>3, <1>4

LEMMA WorkerKeepsS ==
  ASSUME IInv, RInv, SInv,
         WorkEntry \/ StartCheck \/ StartSettle \/ StartUnmute \/ WorkUnlock
  PROVE  SInv'
<1> USE ActorsAssumption, FaultsAssumption DEF IInv, SInv, TypeOK, gates, pcm, gateFile, works
<1>0. /\ Worker \in Actors /\ pc[Worker] # "idle" /\ ~GateHeld /\ ~playback_diagnostic
      /\ stream["playback"] # "closed"
      /\ \A a \in Actors : a # Worker => pc[a] \notin Critical
  BY DEF WorkEntry, StartCheck, StartSettle, StartUnmute, WorkUnlock, LockInv,
     Critical, Actors, StrictExclusion, DiagnosticQuiet, WorkerInv, WorkerQuiet
<1>1. /\ GateHeld' = GateHeld /\ playback_diagnostic' = playback_diagnostic
      /\ stream' = stream /\ call' = call
      /\ \A a \in Actors : a # Worker => pc'[a] = pc[a]
  BY DEF WorkEntry, StartCheck, StartSettle, StartUnmute, WorkUnlock, StopPlayback,
     ForceSafe, Leave, Goto, GateHeld
<1>2. DiagnosticQuiet' /\ SilentInv' /\ WatchdogCovers'
  BY <1>0, <1>1 DEF DiagnosticQuiet, SilentInv, WatchdogCovers
<1>3. ArmedInv'
  BY <1>0, <1>1 DEF ArmedInv, Critical, Actors
<1>4. pc'[Worker] # "shut" /\ ~ForcedSafe(Worker)'
  BY DEF WorkEntry, StartCheck, StartSettle, StartUnmute, WorkUnlock, StopPlayback,
     ForceSafe, Leave, Goto, ForcedSafe, Actors
<1>5. FaultInv'
  BY <1>0, <1>1, <1>4 DEF FaultInv, Critical
<1> QED
  BY <1>2, <1>3, <1>5

LEMMA TimerKeepsS ==
  ASSUME IInv, RInv, SInv, TimerEntry \/ TimerUnlock
  PROVE  SInv'
<1> USE ActorsAssumption DEF IInv, SInv, TypeOK, gates, pcm, gateFile, works,
        TimerEntry, TimerUnlock, AmpUp, ForceSafe, Leave, Goto
<1>0. Timer \in Actors /\ \A a \in Actors : a # Timer => pc[a] \notin Critical
  BY DEF LockInv, Critical, Actors
<1>1. DiagnosticQuiet' /\ SilentInv'
  BY DEF DiagnosticQuiet, WorkerQuiet, SilentInv, GateHeld, Audible, Actors
<1>2. FaultInv'
  BY <1>0 DEF FaultInv, ForcedSafe, Critical, Audible
<1>3. ArmedInv'
  BY <1>0 DEF ArmedInv, Critical, Actors
<1>4. WatchdogCovers'
  <2>1. CASE TimerEntry
    <3>1. pc'[Timer] # "idle"
      BY <1>0, <2>1
    <3> QED
      BY <3>1 DEF WatchdogCovers
  <2>2. CASE TimerUnlock
    <3>1. (amp_enabled => faults >= 1) /\ (Audible => faults >= 2)
      BY <1>0, <2>2 DEF FaultInv, ForcedSafe
    <3> QED
      BY <2>2, <3>1 DEF WatchdogCovers, Audible
  <2> QED
    BY <2>1, <2>2
<1> QED
  BY <1>1, <1>2, <1>3, <1>4

LEMMA NextSInv == IInv /\ RInv /\ SInv /\ [Next]_vars => SInv'
<1> SUFFICES ASSUME IInv, RInv, SInv, [Next]_vars PROVE SInv'
  OBVIOUS
<1>0. Threads \subseteq Actors /\ Worker \in Actors /\ Timer \in Actors
  BY DEF Actors
<1>1. CASE UNCHANGED vars
  BY <1>1 DEF vars, gates, pcm, gateFile, works, control, SInv, FaultInv, ForcedSafe,
     Audible, DiagnosticQuiet, WorkerQuiet, SilentInv, GateHeld, ArmedInv, Exposed,
     TimerOn, WatchdogCovers
<1>2. CASE Next
  BY <1>0, <1>2, BeginKeepsS, OutsideKeepsS, PreambleKeepsS, UnlockKeepsS, LatchKeepsS,
     EnterKeepsS, ArmSettleKeepsS, CriticalKeepsS, WorkerKeepsS, TimerKeepsS
     DEF Next, ThreadStep, WorkerStep, TimerStep
<1> QED
  BY <1>1, <1>2

(* Under the gate an enabled amplifier always has a timeout, or a call in  *)
(* flight that ends in force_safe or arms one.                             *)
THEOREM Watched == Spec => []WatchdogCovers
<1>1. SInv => WatchdogCovers
  BY DEF SInv
<1> QED
  BY <1>1, InitRInv, NextRInv, InitSInv, NextSInv, InductiveInvariant, PTL DEF Spec

(* Whatever ends (a call that reports success; SAFE, release, shutdown or  *)
(* the timeout after one regulator failure; the last user), the amplifier  *)
(* is silent.                                                              *)
THEOREM Silenced == Spec => []EndsSilent
<1>1. IInv /\ RInv /\ SInv => EndsSilent
  <2> SUFFICES ASSUME IInv, RInv, SInv PROVE OneFaultSilent /\ ClosedMeansSilent
    BY DEF RInv, EndsSilent
  <2>1. OneFaultSilent
    BY DEF SInv, FaultInv, ForcedSafe, OneFaultSilent, IInv, TypeOK, Actors
  <2>2. ClosedMeansSilent
    BY DEF SInv, SilentInv, ClosedMeansSilent
  <2> QED
    BY <2>1, <2>2
<1> QED
  BY <1>1, InitRInv, NextRInv, InitSInv, NextSInv, InductiveInvariant, PTL DEF Spec

(* Gate, streams, worker and timeout exclude one another.                  *)
THEOREM Exclusive == Spec => []Exclusion
BY GateExcludesOthers, GateExcludesWorker, TimeoutNeedsGate, PTL DEF Exclusion

-----------------------------------------------------------------------------
(* Ordinary playback.  While nobody opens the gate and the platform is not *)
(* shut down, START and STOP decide whether the amplifier plays.  With the *)
(* gate a STOP can be lost: its open cancels the worker that STOP queued   *)
(* and then fails because a PCM is open.                                   *)
Playback == Ops \cap {"open", "shutdown"} = {}

(* The calls that cancel the worker and end in force_safe.                 *)
Ending == {"prepare", "hw_free", "pb_close"}

(* There are only PCM calls, and of those only the ending ones touch the   *)
(* regulators.                                                             *)
NoGate ==
  /\ ~safety_open /\ ~playback_diagnostic
  /\ \A t \in Threads :
       /\ call[t] \in PcmCalls \cup {"none"}
       /\ pc[t] \in {"mute", "shut"} => call[t] \in Ending

(* The driver's flags agree with the stream the ALSA core sees.            *)
OpenInv ==
  /\ playback_open <=> stream["playback"] # "closed"
  /\ playback_requested <=> stream["playback"] = "running"

(* playback_active says that the amplifier plays, except halfway through   *)
(* force_safe.                                                             *)
ActiveInv == playback_active /\ (\A a \in Actors : pc[a] # "shut") => Audible

(* The worker is in the start sequence only with the target "playing", and *)
(* an error it has met inside is a regulator's.                            *)
StartLabel ==
  \/ pc[Worker] \in {"check", "enable", "settle", "unmute"}
  \/ pc[Worker] \in {"mute", "shut"} /\ cont = "enable"
ArgInv ==
  /\ StartLabel => workArg
  /\ Worker \in err => pc[Worker] \in {"mute", "shut", "unlock"}
  /\ Worker \in err /\ StartLabel => faults >= 1

(* An ending call and a worker with the target "stopped" leave the lock    *)
(* behind a silent amplifier.                                              *)
StopInv ==
  /\ \A t \in Threads :
       pc[t] = "unlock" /\ call[t] \in Ending /\ faults <= 1 => ~Audible
  /\ pc[Worker] \in {"unlock", "recheck"} /\ ~workArg /\ faults <= 1 => ~Audible
  /\ StopIsCovered

(* A running stream is played, or the worker is to come: one that has read *)
(* the target "playing" may not be through with nothing done unless it is  *)
(* queued again.                                                           *)
Coming == workPending \/ pc[Trigger] = "queue"
Up == Audible /\ playback_active
StartInv ==
  stream["playback"] = "running" /\ faults = 0 =>
  /\ Coming \/ Up \/ pc[Worker] # "idle"
  /\ workArg /\ pc[Worker] \in {"unlock", "recheck"} => Coming \/ Up
  /\ workArg /\ pc[Worker] \in {"mute", "shut"} /\ ~StartLabel => Coming

PInv == NoGate /\ OpenInv /\ ActiveInv /\ ArgInv /\ StopInv /\ StartInv

LEMMA InitPInv == Init => PInv
BY Zenon DEF Init, PInv, NoGate, OpenInv, ActiveInv, StartLabel, ArgInv, StopInv,
   StopIsCovered, Audible, StartInv, Actors, Directions

(* Triggers, the start of the worker, its end, and taking the lock.        *)
LEMMA OutsideKeepsP ==
  ASSUME IInv, RInv, SInv, PInv,
         \/ TriggerStart \/ TriggerStop \/ TriggerQueue
         \/ \E a \in Actors : Acquire(a)
         \/ WorkStart \/ WorkRead \/ WorkRecheck
  PROVE  PInv'
<1> USE ActorsAssumption DEF IInv, SInv, PInv, TypeOK, gates, pcm, gateFile, works
<1>1. CASE TriggerStart \/ TriggerStop
  <2> USE <1>1 DEF TriggerStart, TriggerStop, TriggerPlayback, TriggerLabel, Goto
  <2>1. NoGate' /\ OpenInv' /\ ActiveInv' /\ ArgInv'
    BY DEF NoGate, OpenInv, ActiveInv, Audible, ArgInv, StartLabel, Actors, Directions
  <2>2. StopInv'
    BY DEF NoGate, StopInv, StopIsCovered, Audible, Actors
  <2>3. StartInv'
    BY DEF NoGate, StartInv, StartLabel, Coming, Up, Audible, Actors, Directions
  <2> QED BY <2>1, <2>2, <2>3
<1>2. CASE TriggerQueue
  <2> USE <1>2 DEF TriggerQueue, queue_work, Goto
  <2>1. NoGate' /\ OpenInv' /\ ActiveInv' /\ ArgInv'
    BY DEF NoGate, OpenInv, ActiveInv, Audible, ArgInv, StartLabel, Actors, Directions
  <2>2. ~WorkDisabled
    BY DEF WorkDisabled, NoGate, CallInv, CancelsWork, PcmInv, PcmCalls, Direction
  <2>3. StopInv'
    BY <2>2 DEF StopInv, StopIsCovered, Audible, Actors
  <2>4. StartInv'
    BY <2>2 DEF StartInv, StartLabel, Coming, Up, Audible, Actors, Directions
  <2> QED BY <2>1, <2>3, <2>4
<1>3. ASSUME NEW a \in Actors, Acquire(a) PROVE PInv'
  <2> USE <1>3 DEF Acquire, Goto
  <2>1. NoGate' /\ OpenInv' /\ ActiveInv' /\ ArgInv'
    BY DEF NoGate, OpenInv, ActiveInv, Audible, ArgInv, StartLabel, Actors, Directions
  <2>2. StopInv'
    BY DEF StopInv, StopIsCovered, Audible, Actors
  <2>3. StartInv'
    BY DEF StartInv, StartLabel, Coming, Up, Audible, Actors, Directions
  <2> QED BY <2>1, <2>2, <2>3
<1>4. CASE WorkStart \/ WorkRead
  <2> USE <1>4 DEF WorkStart, WorkRead, Goto
  <2>1. NoGate' /\ OpenInv' /\ ActiveInv' /\ ArgInv'
    BY DEF NoGate, OpenInv, ActiveInv, Audible, ArgInv, StartLabel, Actors, Directions
  <2>2. StopInv'
    BY DEF StopInv, StopIsCovered, Audible, Actors
  <2>3. StartInv'
    BY DEF StartInv, StartLabel, Coming, Up, Audible, Actors, Directions
  <2> QED BY <2>1, <2>2, <2>3
<1>5. CASE WorkRecheck
  <2> USE <1>5 DEF WorkRecheck, queue_work, Goto
  <2>1. NoGate' /\ OpenInv' /\ ActiveInv' /\ ArgInv'
    BY DEF NoGate, OpenInv, ActiveInv, Audible, ArgInv, StartLabel, Actors, Directions
  <2>2. ASSUME WorkDisabled
        PROVE  /\ \E t \in Threads : call[t] \in Ending
               /\ stream["playback"] # "running"
    BY <2>2 DEF WorkDisabled, NoGate, CallInv, CancelsWork, PcmInv, PcmCalls, Direction,
       Ending
  <2>3. StopInv'
    BY <2>2 DEF StopInv, StopIsCovered, Audible, Actors, Ending
  <2>4. StartInv'
    BY <2>2 DEF OpenInv, StartInv, StartLabel, Coming, Up, Audible, Actors, Directions
  <2> QED BY <2>1, <2>3, <2>4
<1> QED BY <1>1, <1>2, <1>3, <1>4, <1>5

(* A call before and at the start of its critical section.                 *)
LEMMA ThreadKeepsP ==
  ASSUME IInv, RInv, SInv, PInv, NEW t \in Threads,
         \/ ClearRequest(t) \/ CancelWork(t) \/ FlushWork(t)
         \/ Enter(t) \/ Latch(t)
  PROVE  PInv'
<1> USE ActorsAssumption DEF IInv, SInv, PInv, TypeOK, gates, pcm, gateFile, works
<1>0. t \in Actors /\ t # Worker /\ t # Timer /\ t # Trigger
  BY DEF Actors
<1>1. CASE ClearRequest(t) \/ CancelWork(t) \/ FlushWork(t)
  <2> USE <1>1 DEF ClearRequest, CancelWork, FlushWork, Goto
  <2>2. call[t] \in Ending
    BY DEF NoGate, CallInv, CancelsWork, PcmCalls, Ending
  <2>3. stream["playback"] # "running"
    BY <2>2 DEF PcmInv, PcmCalls, Direction, Ending
  <2>1. NoGate' /\ OpenInv' /\ ActiveInv' /\ ArgInv'
    BY <1>0, <2>3 DEF NoGate, OpenInv, ActiveInv, Audible, ArgInv, StartLabel, Actors
  <2>4. StopInv'
    BY <1>0, <2>2 DEF StopInv, StopIsCovered, Audible, Actors, Ending
  <2>5. StartInv'
    BY <2>3 DEF StartInv
  <2> QED BY <2>1, <2>4, <2>5
<1>2. CASE Enter(t)
  <2>1. call[t] \in PcmCalls
    BY <1>2 DEF Enter, NoGate, CallInv
  <2>2. /\ UNCHANGED <<amp_enabled, amp_unmuted, playback_active, faults>>
        /\ call[t] \in Ending <=> pc'[t] = "mute"
        /\ pc'[t] \in {"mute", "latch", "unlock"}
        /\ pc' = [pc EXCEPT ![t] = pc'[t]]
        /\ err' \in {err, err \cup {t}}
    BY <1>2, <2>1 DEF Enter, EnterForceSafe, EnterStartup, EnterUnmute, EnterRenew, PcmCalls,
       Bypasses, Refused, Refuse, ForceSafe, Leave, Fail, Goto, NoGate, Ending, Actors
  <2> USE <2>2 DEF Enter
  <2>3. pc[Worker] \notin Critical
    BY <1>0, <1>2 DEF LockInv, Critical, Actors
  <2>4. NoGate' /\ OpenInv' /\ ActiveInv' /\ ArgInv'
    BY <1>0, <1>2, <2>3 DEF NoGate, OpenInv, ActiveInv, Audible, ArgInv, StartLabel, Actors,
       Directions, Critical
  <2>5. StopInv'
    BY <1>0, <1>2 DEF StopInv, StopIsCovered, Audible, Actors
  <2>6. StartInv'
    BY <1>0, <1>2, <2>3 DEF StartInv, StartLabel, Coming, Up, Audible, Actors, Directions,
       Critical
  <2> QED BY <2>4, <2>5, <2>6
<1>3. CASE Latch(t)
  <2> USE <1>3 DEF Latch, Goto
  <2>1. call[t] \in {"pb_open", "cap_open"}
    BY DEF CallInv
  <2>2. NoGate' /\ OpenInv' /\ ActiveInv' /\ ArgInv'
    BY <1>0, <2>1 DEF NoGate, OpenInv, ActiveInv, Audible, ArgInv, StartLabel, Actors,
       Directions, Direction, PcmInv, PcmCalls
  <2>3. StopInv'
    BY <1>0, <2>1 DEF StopInv, StopIsCovered, Audible, Actors, Ending
  <2>4. StartInv'
    BY <1>0, <2>1 DEF StartInv, StartLabel, Coming, Up, Audible, Actors, Directions, Direction
  <2> QED BY <2>2, <2>3, <2>4
<1> QED BY <1>1, <1>2, <1>3

(* The regulators, by a call or the worker.                                *)
LEMMA CriticalKeepsP ==
  ASSUME IInv, RInv, SInv, PInv, NEW a \in Actors, Mute(a) \/ Shut(a) \/ Enable(a)
  PROVE  PInv'
<1> USE ActorsAssumption, FaultsAssumption DEF IInv, SInv, PInv, TypeOK, pcm, gateFile, works
<1>0. /\ pc[a] \in Critical /\ \A b \in Actors : b # a => pc[b] \notin Critical
      /\ a \in Threads \cup {Worker}
  <2>1. pc[a] \in Critical
    BY DEF Mute, Shut, Enable, Critical
  <2>2. a # Timer /\ a # Trigger
    BY <2>1 DEF NoGate, TimerInv, TimerQuiet, LabelInv, Critical
  <2> QED BY <2>1, <2>2 DEF LockInv, Actors
<1>1. NoGate' /\ OpenInv'
  BY <1>0 DEF Mute, MuteError, Shut, AfterShut, Enable, ForceSafe, Leave, Fault, Fail, Goto,
    NoGate, OpenInv, Actors
<1>2. a \in Threads => call[a] \in PcmCalls /\ pc[a] # "enable" /\ (pc[a] \in {"mute", "shut"} => cont = "unlock")
  BY <1>0 DEF NoGate, CallInv, Critical, LabelInv, PcmCalls
<1>6. a \in Threads /\ pc[a] \in {"mute", "shut"} => stream["playback"] # "running"
  BY DEF NoGate, PcmInv, PcmCalls, Direction, Ending
<1>3. CASE Mute(a)
  <2> USE <1>3 DEF Mute, MuteError, Fault, Fail, Goto
  <2>1. pc' = [pc EXCEPT ![a] = "shut"] /\ cont' = cont
    OBVIOUS
  <2> HIDE DEF Mute
  <2>2. ActiveInv' /\ ArgInv'
    BY <1>0, <2>1 DEF Mute, ActiveInv, Audible, ArgInv, StartLabel, Actors
  <2>3. StopInv'
    BY <1>0, <2>1 DEF Mute, StopInv, StopIsCovered, Audible, Actors
  <2>4. StartInv'
    BY <1>0, <1>6, <2>1 DEF Mute, StartInv, StartLabel, Coming, Up, Audible, Actors
  <2> QED BY <1>1, <2>2, <2>3, <2>4
<1>4. CASE Shut(a)
  <2> USE <1>4 DEF Shut, AfterShut, ActiveReset, Fault, Fail, Goto
  <2>2. ActiveInv' /\ ArgInv'
    BY <1>0 DEF ActiveInv, Audible, ArgInv, StartLabel, Actors
  <2>1. faults' <= 1 => ~Audible'
    BY <1>0 DEF FaultInv, Audible, Actors
  <2>3. StopInv'
    BY <2>1 DEF StopInv, StopIsCovered
  <2>4. StartInv'
    <3>1. stream["playback"] = "running" => a = Worker
      BY <1>0, <1>6
    <3>2. faults' = 0 => faults = 0 /\ pc' = [pc EXCEPT ![a] = AfterShut(a)]
      BY <1>0
    <3>3. /\ pc'[a] \in {"enable", "unlock"}
          /\ StartLabel /\ a = Worker /\ faults' = 0 => pc'[a] # "unlock"
      BY <1>0, <3>2 DEF ArgInv, StartLabel, Actors
    <3> HIDE DEF Shut
    <3>4. /\ UNCHANGED <<stream, playback_requested, workPending, workArg>>
          /\ pc[a] = "shut" /\ pc'[Trigger] = pc[Trigger]
      BY <1>0 DEF Shut, Actors
    <3> QED
      BY <1>0, <3>1, <3>2, <3>3, <3>4 DEF StartInv, StartLabel, Coming, Actors
  <2> QED BY <1>1, <2>2, <2>3, <2>4
<1>5. CASE Enable(a)
  <2> USE <1>5 DEF Enable, ForceSafe, Leave, Fault, Fail, Goto
  <2>1. a = Worker
    BY <1>0, <1>2
  <2>2. ActiveInv' /\ ArgInv'
    BY <1>0, <2>1 DEF ActiveInv, Audible, ArgInv, StartLabel, Actors, GateOrderInv
  <2>3. StopInv'
    BY <1>0, <2>1 DEF StopInv, StopIsCovered, Audible, Actors, ArgInv, StartLabel, Critical, GateOrderInv
  <2>4. StartInv'
    BY <1>0, <2>1 DEF StartInv, StartLabel, Coming, Up, Audible, Actors
  <2> QED BY <1>1, <2>2, <2>3, <2>4
<1> QED BY <1>3, <1>4, <1>5

(* The worker under the lock.                                              *)
LEMMA WorkerKeepsP ==
  ASSUME IInv, RInv, SInv, PInv,
         WorkEntry \/ StartCheck \/ StartSettle \/ StartUnmute \/ WorkUnlock
  PROVE  PInv'
<1> USE ActorsAssumption, FaultsAssumption DEF IInv, SInv, PInv, TypeOK, pcm, gateFile, works, gates
<1>0. /\ Worker \in Actors /\ pc[Worker] \in Critical
      /\ \A b \in Actors : b # Worker => pc[b] \notin Critical
  <2>1. pc[Worker] \in Critical /\ Worker \in Actors
    BY DEF WorkEntry, StartCheck, StartSettle, StartUnmute, WorkUnlock, Critical, Actors
  <2> QED BY <2>1 DEF LockInv
<1>1. NoGate' /\ OpenInv'
  BY <1>0 DEF WorkEntry, StopPlayback, StartCheck, StartSettle, StartUnmute, WorkUnlock,
    ForceSafe, Leave, Fail, Goto, NoGate, OpenInv, Actors
<1>2. CASE WorkEntry
  <2> USE <1>2 DEF WorkEntry, StopPlayback, ForceSafe, Goto
  <2>2. ActiveInv' /\ ArgInv'
    BY <1>0 DEF ActiveInv, Audible, ArgInv, StartLabel, Actors
  <2>3. StopInv'
    BY <1>0 DEF StopInv, StopIsCovered, Audible, Actors
  <2>4. StartInv'
    BY <1>0 DEF StartInv, StartLabel, Coming, Up, Audible, Actors, NoGate
  <2> QED BY <1>1, <2>2, <2>3, <2>4
<1>3. CASE StartCheck
  <2> USE <1>3 DEF StartCheck, ForceSafe, Leave, Goto
  <2>1. playback_active => Audible
    BY <1>0 DEF ActiveInv, Critical
  <2>2. ActiveInv' /\ ArgInv'
    BY <1>0 DEF ActiveInv, Audible, ArgInv, StartLabel, Actors
  <2>3. StopInv'
    BY <1>0 DEF StopInv, StopIsCovered, Audible, Actors, ArgInv, StartLabel, Critical, GateOrderInv
  <2>4. StartInv'
    BY <1>0, <2>1 DEF StartInv, StartLabel, Coming, Up, Audible, Actors, NoGate, OpenInv
  <2> QED BY <1>1, <2>2, <2>3, <2>4
<1>4. CASE StartSettle
  <2> USE <1>4 DEF StartSettle, ForceSafe, Fail, Goto
  <2>2. ActiveInv' /\ ArgInv'
    BY <1>0 DEF ActiveInv, Audible, ArgInv, StartLabel, Actors
  <2>3. StopInv'
    BY <1>0 DEF StopInv, StopIsCovered, Audible, Actors
  <2>4. StartInv'
    BY <1>0 DEF OpenInv, StartInv, StartLabel, Coming, Up, Audible, Actors
  <2> QED BY <1>1, <2>2, <2>3, <2>4
<1>5. CASE StartUnmute
  <2> USE <1>5 DEF StartUnmute, ForceSafe, Leave, Fault, Fail, Goto
  <2>1. amp_enabled
    BY <1>0 DEF RInv, UpInv
  <2>2. ActiveInv' /\ ArgInv'
    BY <1>0, <2>1 DEF ActiveInv, Audible, ArgInv, StartLabel, Actors
  <2>3. StopInv'
    BY <1>0 DEF StopInv, StopIsCovered, Audible, Actors, ArgInv, StartLabel, Critical, GateOrderInv
  <2>4. StartInv'
    BY <1>0, <2>1 DEF StartInv, StartLabel, Coming, Up, Audible, Actors
  <2> QED BY <1>1, <2>2, <2>3, <2>4
<1>6. CASE WorkUnlock
  <2> USE <1>6 DEF WorkUnlock, Goto
  <2>2. ActiveInv' /\ ArgInv'
    BY <1>0 DEF ActiveInv, Audible, ArgInv, StartLabel, Actors
  <2>3. StopInv'
    BY <1>0 DEF StopInv, StopIsCovered, Audible, Actors
  <2>4. StartInv'
    BY <1>0 DEF StartInv, StartLabel, Coming, Up, Audible, Actors
  <2> QED BY <1>1, <2>2, <2>3, <2>4
<1> QED BY <1>2, <1>3, <1>4, <1>5, <1>6

(* A call begins: without an open, nobody holds the gate.                  *)
LEMMA BeginKeepsP ==
  ASSUME IInv, RInv, SInv, PInv, Playback, NEW t \in Threads, NEW c \in Ops, Begin(t, c)
  PROVE  PInv'
<1> USE ActorsAssumption DEF IInv, SInv, PInv, TypeOK, Begin, Goto, gates, pcm, works
<1>0. t \in Actors /\ t # Worker /\ t # Timer /\ t # Trigger
  BY DEF Actors
<1>1. c \in PcmCalls
  <2>1. Tgid[t] \in Processes /\ fd = None
    BY DEF NoGate, GateInv
  <2>2. c \notin Ioctls \cup {"release"}
    BY <2>1 DEF CanCall, LastReference, HoldsGate, Ioctls, PcmCalls
  <2> QED BY <2>2, OpsAssumption DEF Playback, AllOps, Ioctls, PcmCalls
<1>2. /\ pc'[t] \notin {"shut", "unlock", "mute"} /\ \A a \in Actors : a # t => pc'[a] = pc[a]
      /\ \A u \in Threads : call[u] # "none" => call'[u] = call[u]
  BY DEF FirstLabel, Actors, CallInv
<1>3. NoGate' /\ OpenInv' /\ ActiveInv' /\ ArgInv'
  BY <1>0, <1>1, <1>2 DEF NoGate, OpenInv, ActiveInv, Audible, ArgInv, StartLabel, PcmCalls,
    Actors
<1>4. StopInv'
  BY <1>0, <1>2 DEF StopInv, StopIsCovered, Audible, Ending, Actors
<1>5. StartInv'
  BY <1>0, <1>2 DEF StartInv, StartLabel, Coming, Up, Audible, Actors
<1> QED BY <1>3, <1>4, <1>5

(* A call returns.                                                         *)
LEMMA UnlockKeepsP ==
  ASSUME IInv, RInv, SInv, PInv, NEW t \in Threads, Unlock(t)
  PROVE  PInv'
<1> USE ActorsAssumption DEF IInv, SInv, PInv, TypeOK, Unlock, Goto, gates, works
<1>0. /\ t \in Actors /\ t # Worker /\ t # Timer /\ t # Trigger
      /\ pc[Worker] \notin Critical
  BY DEF Actors, LockInv, Critical
<1>1. call[t] \in PcmCalls /\ ~GivesGateBack(t)
  BY DEF NoGate, CallInv, GivesGateBack, PcmCalls
<1>2. /\ pc' = [pc EXCEPT ![t] = "idle"] /\ call' = [call EXCEPT ![t] = "none"]
  BY <1>1
<1>3. NoGate' /\ OpenInv' /\ ActiveInv' /\ ArgInv'
  <2>1. OpenInv'
    BY <1>1 DEF Finish, OpenInv, Direction, PcmCalls, Directions, PcmInv
  <2>2. ~playback_diagnostic' /\ ~safety_open'
    BY DEF Finish, NoGate
  <2> QED
    BY <1>0, <1>2, <2>1, <2>2 DEF NoGate, ActiveInv, Audible, ArgInv, StartLabel, Actors
<1>4. StopInv'
  BY <1>0, <1>2 DEF StopInv, StopIsCovered, Audible, Ending, Actors
<1>5. stream'["playback"] = "running" => stream["playback"] = "running"
  BY <1>1 DEF Finish, Direction, PcmCalls, Directions
<1>6. StartInv'
  BY <1>0, <1>2, <1>5 DEF StartInv, StartLabel, Coming, Up, Audible, Actors
<1> QED BY <1>3, <1>4, <1>6

(* Every step keeps PInv: the timer and the gate's calls never run.        *)
LEMMA NextPInv == Playback /\ IInv /\ RInv /\ SInv /\ PInv /\ [Next]_vars => PInv'
<1> SUFFICES ASSUME Playback, IInv, RInv, SInv, PInv, [Next]_vars PROVE PInv'
  OBVIOUS
<1>1. ASSUME NEW t \in Threads, NEW c \in Ops, Begin(t, c) PROVE PInv'
  BY <1>1, BeginKeepsP
<1>2. CASE \/ TriggerStart \/ TriggerStop \/ TriggerQueue
           \/ \E a \in Actors : Acquire(a)
  BY <1>2, OutsideKeepsP
<1>3. ASSUME NEW t \in Threads, ThreadStep(t) PROVE PInv'
  <2>1. t \in Actors
    BY DEF Actors
  <2>2. ~CancelTimer(t) /\ ~FlushTimer(t) /\ ~ArmSettle(t) /\ ~Reopen(t)
    BY DEF PInv, NoGate, PcmCalls, IInv, CallInv, CancelsTimer, CancelTimer, FlushTimer,
      ArmSettle, Reopen
  <2> QED BY <1>3, <2>1, <2>2, ThreadKeepsP, CriticalKeepsP, UnlockKeepsP DEF ThreadStep
<1>4. CASE WorkerStep
  <2>1. Worker \in Actors
    BY DEF Actors
  <2> QED BY <1>4, <2>1, OutsideKeepsP, CriticalKeepsP, WorkerKeepsP DEF WorkerStep
<1>5. ~TimerStep
  <2>1. ~timerPending /\ pc[Timer] = "idle"
    BY DEF PInv, NoGate, IInv, TimerInv, TimerQuiet
  <2> QED BY <2>1 DEF TimerStep, TimerExpire, TimerEntry, Mute, Shut, TimerUnlock
<1>6. CASE UNCHANGED vars
  BY <1>6 DEF vars, gates, pcm, gateFile, works, control, PInv, NoGate, OpenInv, ActiveInv,
    Audible, ArgInv, StartLabel, StopInv, StopIsCovered, StartInv, Coming, Up
<1> QED BY <1>1, <1>2, <1>3, <1>4, <1>5, <1>6 DEF Next

(* With playback alone the amplifier follows its triggers: one that is     *)
(* still audible after STOP is about to be silenced, and a running stream  *)
(* is audible once everything in flight has settled.                       *)
THEOREM Triggered == Playback => (Spec => []FollowsTriggers)
<1> SUFFICES ASSUME Playback PROVE Spec => []FollowsTriggers
  OBVIOUS
<1>1. IInv /\ PInv => FollowsTriggers
  <2> SUFFICES ASSUME IInv, PInv PROVE RunningMeansAudible
    BY DEF FollowsTriggers, PInv, StopInv
  <2> QED BY DEF IInv, TypeOK, RunningMeansAudible, Settled, PlaybackOwns, PInv, StartInv, Coming,
    Up, Actors
<1>2. IInv /\ RInv /\ SInv /\ PInv /\ [Next]_vars => PInv'
  BY NextPInv
<1> QED
  BY <1>1, <1>2, InitPInv, InitRInv, NextRInv, InitSInv, NextSInv, InductiveInvariant, PTL DEF Spec

(* With playback alone a stopped or closed stream settles silent; the lost *)
(* STOP needs the gate.                                                    *)
THEOREM StoppedSilent == Playback => (Spec => []StoppedMeansSilent)
<1> SUFFICES ASSUME Playback PROVE Spec => []StoppedMeansSilent
  OBVIOUS
<1>1. IInv /\ PInv => StoppedMeansSilent
  <2> SUFFICES ASSUME IInv, PInv, Settled, ~PlaybackOwns, faults = 0 PROVE ~Audible
    BY DEF StoppedMeansSilent
  <2>1. ~playback_requested
    BY DEF PInv, NoGate, OpenInv, PlaybackOwns
  <2>2. ~workPending /\ pc[Worker] = "idle" /\ pc[Trigger] = "idle"
    BY DEF Settled, Actors
  <2>3. \A t \in Threads : call[t] = "none"
    BY DEF Settled, Actors, IInv, CallInv
  <2> QED
    BY <2>1, <2>2, <2>3 DEF PInv, StopInv, StopIsCovered
<1>2. IInv /\ RInv /\ SInv /\ PInv /\ [Next]_vars => PInv'
  BY NextPInv
<1> QED
  BY <1>1, <1>2, InitPInv, InitRInv, NextRInv, InitSInv, NextSInv, InductiveInvariant, PTL DEF Spec
=============================================================================
