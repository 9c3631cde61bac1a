---------------------------- MODULE AmpGateProofs ----------------------------
(***************************************************************************)
(* Proofs about AmpGate for any threads, processes and number of faults.   *)
(*                                                                         *)
(* The invariants of AmpGate are not inductive: that open, startup and the *)
(* worker exclude one another rests on what each has established by the    *)
(* time it runs inside or outside the lock.  IInv states that.             *)
(***************************************************************************)
EXTENDS AmpGate, TLAPS

-----------------------------------------------------------------------------
(* The inductive invariant.                                                *)

Critical == {"entry", "latch", "check", "mute", "shut", "enable", "settle",
             "unmute", "unlock"}

(* Exactly the lock holder is inside a critical section.                   *)
LockInv == \A a \in Actors : safety_lock = a <=> pc[a] \in Critical

(* A thread is idle exactly when it executes no call, and walks only       *)
(* through the labels of its call.                                         *)
CallInv ==
  \A t \in Threads :
    /\ pc[t] = "idle" <=> call[t] = "none"
    /\ pc[t] \notin {"read", "check", "unmute", "recheck", "queue"}
    /\ pc[t] \in {"clear", "dequeue", "flush"} => call[t] \in CancelsWork
    /\ pc[t] \in {"tdequeue", "tflush"} => call[t] \in CancelsTimer
    /\ pc[t] = "latch" => call[t] \in {"pb_open", "cap_open"}
    /\ pc[t] \in {"enable", "settle"} => call[t] = "ARM"
    /\ pc[t] = "reopen" => call[t] \in {"open", "release"}

(* At most one PCM call runs; it finds its stream as Begin left it.        *)
PcmInv ==
  /\ \A t, u \in Threads :
       call[t] \in PcmCalls /\ call[u] \in PcmCalls => t = u
  /\ \A t \in Threads : call[t] \in PcmCalls =>
       /\ Direction(call[t]) = "playback" => pc[Trigger] = "idle"
       /\ call[t] \in {"pb_open", "cap_open"} /\ pc[t] # "unlock"
            => stream[Direction(call[t])] = "closed"
       /\ call[t] = "pb_open" => stream["playback"] \in {"closed", "open"}
       /\ call[t] \in {"prepare", "hw_free", "pb_close", "cap_close"}
            => stream[Direction(call[t])] \in {"open", "prepared"}

(* The counter counts the open directions.                                 *)
IsOpen(d) == IF stream[d] = "closed" THEN 0 ELSE 1
CountInv == pcm_open_count = IsOpen("playback") + IsOpen("capture")

(* safety_open is set for one opener, holder or releaser at a time, and    *)
(* safety_owner_tgid is set from the end of open to the end of release.    *)
GateCalls == {"open", "release"}
GateInv ==
  /\ \A t, u \in Threads : call[t] \in GateCalls /\ call[u] \in GateCalls => t = u
  /\ \A t \in Threads : call[t] \in GateCalls => fd = None /\ safety_open
  /\ \A t \in Threads : call[t] \in Ioctls => fd = Tgid[t]
  /\ fd # None => safety_open /\ safety_owner_tgid = fd
  /\ GateHeld => safety_open
  /\ GateHeld /\ fd = None =>
       \E t \in Threads : call[t] = "release" /\ pc[t] # "reopen"
  /\ \A t \in Threads :
       call[t] = "open" \/ (call[t] \in GateCalls /\ pc[t] = "reopen") => ~GateHeld

(* An open that will succeed has seen no stream; a startup that will       *)
(* succeed is by the holder, if there is one.                              *)
EntryInv ==
  \A t \in Threads :
    /\ call[t] = "open" /\ pc[t] \in {"mute", "shut", "unlock"} /\ t \notin err
         => \A d \in Directions : stream[d] = "closed"
    /\ pc[t] = "latch" /\ GateHeld => safety_owner_tgid = Tgid[t]
DiagnosticInv ==
  GateHeld /\ stream["playback"] # "closed" => playback_diagnostic

(* No worker without an open playback stream that did not just cancel it.  *)
WorkerQuiet == pc[Worker] = "idle" /\ ~workPending
WorkerInv ==
  /\ stream["playback"] = "closed" => WorkerQuiet /\ pc[Trigger] = "idle"
  /\ GateHeld => pc[Trigger] = "idle"
  /\ \A t \in Threads :
       /\ call[t] \in {"prepare", "hw_free", "pb_close"}
          /\ pc[t] \in {"lock"} \cup Critical => WorkerQuiet
       /\ pc[t] = "flush" => ~workPending

(* No timeout once open or release have cancelled it.                      *)
TimerQuiet == pc[Timer] = "idle" /\ ~timerPending
TimerInv ==
  /\ ~safety_open => TimerQuiet
  /\ \A t \in Threads :
       /\ call[t] \in GateCalls
          /\ pc[t] \in {"lock", "reopen"} \cup Critical => TimerQuiet
       /\ pc[t] = "tflush" => ~timerPending

(* Where the enable sequence and force_safe stand with the regulators.     *)
GateOrderInv ==
  \A a \in Actors :
    /\ pc[a] = "enable" => ~amp_enabled /\ ~amp_unmuted
    /\ pc[a] = "shut" /\ amp_unmuted => a \in err

LabelInv ==
  /\ pc[Worker] \notin {"latch", "clear", "dequeue", "flush", "tdequeue", "tflush", "reopen", "queue"}
  /\ pc[Timer] \in {"idle", "lock", "entry", "mute", "shut", "unlock"}
  /\ pc[Trigger] \in {"idle", "queue"}
  /\ pc[Timer] \in {"mute", "shut"} => cont = "unlock"
  /\ \A t \in Threads :
       pc[t] \in {"mute", "shut"} /\ call[t] # "ARM" => cont = "unlock"

IInv ==
  /\ TypeOK /\ LockInv /\ CallInv /\ LabelInv /\ PcmInv /\ CountInv /\ GateInv
  /\ EntryInv /\ DiagnosticInv /\ MutualExclusion
  /\ WorkerInv /\ StrictExclusion /\ TimerInv /\ GateOrderInv

-----------------------------------------------------------------------------
(* Every step keeps IInv: one lemma per action.                            *)

(* A call begins.                                                          *)
LEMMA BeginKeeps ==
  ASSUME IInv, NEW t \in Threads, NEW c \in Ops, Begin(t, c)
  PROVE  IInv'
<1> USE ActorsAssumption DEF IInv, Begin, CanCall, LastReference, HoldsGate,
     UsesStream, PcmIdle, Direction, FirstLabel, CancelsWork, CancelsTimer,
     Ioctls, PcmCalls, Goto, AllOps, gates, pcm, works
<1>1. TypeOK'
  BY OpsAssumption DEF TypeOK, Actors, Labels, Directions, StreamStates
<1>2. LockInv' /\ CallInv' /\ LabelInv'
  BY DEF TypeOK, LockInv, Critical, Actors, CallInv, LabelInv
<1>3. PcmInv' /\ CountInv'
  BY DEF TypeOK, PcmInv, Actors, Directions, CountInv, IsOpen, CallInv,
       WorkerInv, WorkerQuiet, GateHeld, Critical
<1>4. DiagnosticInv' /\ MutualExclusion'
  BY DEF TypeOK, DiagnosticInv, GateHeld, MutualExclusion, Directions
<1>5. GateInv'
  <2>1. CASE c = "open"
    BY <2>1 DEF CallInv, GateInv, GateCalls, GateHeld, TypeOK, Actors
  <2>2. CASE c = "release"
    <3>1. call' = [call EXCEPT ![t] = c] /\ pc'[t] = "tdequeue" /\ fd' = None
      BY <2>2 DEF TypeOK, Actors
    <3>2. fd = Tgid[t] /\ fd # None /\ \A u \in Threads : call[u] \notin Ioctls
      BY <2>2 DEF GateInv
    <3>3. \A u \in Threads : call[u] \notin GateCalls
      BY <3>2 DEF GateInv
    <3>4. safety_open' /\ safety_owner_tgid' = fd
      BY <3>2 DEF GateInv
    <3> HIDE DEF Begin
    <3> QED
      BY <2>2, <3>1, <3>2, <3>3, <3>4 DEF GateInv, GateCalls, GateHeld, TypeOK
  <2>3. CASE c \notin {"open", "release"}
    BY <2>3 DEF CallInv, GateInv, GateCalls, GateHeld, TypeOK, Actors
  <2> QED
    BY <2>1, <2>2, <2>3
<1>6. EntryInv'
  BY DEF TypeOK, EntryInv, GateHeld, Directions, Actors
<1>7. WorkerInv' /\ StrictExclusion'
  BY DEF TypeOK, WorkerInv, WorkerQuiet, GateHeld, Critical, Actors,
       StrictExclusion
<1>8. TimerInv'
  BY DEF TypeOK, TimerInv, TimerQuiet, GateCalls, Critical, Actors
<1>9. GateOrderInv'
  BY DEF TypeOK, GateOrderInv, Actors
<1> QED
  BY <1>1, <1>2, <1>3, <1>4, <1>5, <1>6, <1>7, <1>8, <1>9

(* A trigger starts, stops, or queues the worker.                          *)
LEMMA TriggerStartKeeps ==
  ASSUME IInv, TriggerStart
  PROVE  IInv'
<1> USE ActorsAssumption DEF IInv, TriggerStart, TriggerPlayback,
     TriggerLabel, Goto, gates, gateFile, works
<1>0. playback_requested' \in BOOLEAN
  BY Zenon DEF TypeOK
<1>1. TypeOK'
  BY <1>0 DEF TypeOK, Actors, Labels, Directions, StreamStates, AllOps
<1>2. LockInv' /\ CallInv' /\ LabelInv'
  BY DEF TypeOK, LockInv, Critical, Actors, CallInv, CancelsWork,
       CancelsTimer, LabelInv
<1>3. PcmInv' /\ CountInv'
  BY DEF TypeOK, PcmInv, Direction, PcmCalls, Actors, Directions, CountInv,
       IsOpen, WorkerInv, WorkerQuiet, GateHeld, Critical
<1>4. DiagnosticInv' /\ MutualExclusion'
  BY DEF TypeOK, DiagnosticInv, GateHeld, MutualExclusion, Directions
<1>5. GateInv'
  BY DEF TypeOK, GateInv, GateCalls, GateHeld, Ioctls, Actors
<1>6. EntryInv'
  BY DEF TypeOK, EntryInv, GateHeld, Directions, Actors
<1>7. WorkerInv' /\ StrictExclusion'
  BY DEF TypeOK, WorkerInv, WorkerQuiet, GateHeld, Critical, Actors,
       StrictExclusion, DiagnosticInv
<1>8. TimerInv'
  BY DEF TypeOK, TimerInv, TimerQuiet, GateCalls, Critical, Actors
<1>9. GateOrderInv'
  BY DEF TypeOK, GateOrderInv, Actors
<1> QED
  BY <1>1, <1>2, <1>3, <1>4, <1>5, <1>6, <1>7, <1>8, <1>9

LEMMA TriggerStopKeeps ==
  ASSUME IInv, TriggerStop
  PROVE  IInv'
<1> USE ActorsAssumption DEF IInv, TriggerStop, TriggerPlayback, TriggerLabel,
     Goto, gates, gateFile, works
<1>0. playback_requested' \in BOOLEAN
  BY Zenon DEF TypeOK
<1>1. TypeOK'
  BY <1>0 DEF TypeOK, Actors, Labels, Directions, StreamStates, AllOps
<1>2. LockInv' /\ CallInv' /\ LabelInv'
  BY DEF TypeOK, LockInv, Critical, Actors, CallInv, CancelsWork,
       CancelsTimer, LabelInv
<1>3. PcmInv' /\ CountInv'
  BY DEF TypeOK, PcmInv, Direction, PcmCalls, Actors, Directions, CountInv,
       IsOpen
<1>4. DiagnosticInv' /\ MutualExclusion'
  BY DEF TypeOK, DiagnosticInv, GateHeld, MutualExclusion, Directions
<1>5. GateInv'
  BY DEF TypeOK, GateInv, GateCalls, GateHeld, Ioctls, Actors
<1>6. EntryInv'
  BY DEF TypeOK, EntryInv, GateHeld, Directions, Actors
<1>7. WorkerInv' /\ StrictExclusion'
  BY DEF TypeOK, WorkerInv, WorkerQuiet, GateHeld, Critical, Actors,
       StrictExclusion, DiagnosticInv
<1>8. TimerInv'
  BY DEF TypeOK, TimerInv, TimerQuiet, GateCalls, Critical, Actors
<1>9. GateOrderInv'
  BY DEF TypeOK, GateOrderInv, Actors
<1> QED
  BY <1>1, <1>2, <1>3, <1>4, <1>5, <1>6, <1>7, <1>8, <1>9

LEMMA TriggerQueueKeeps ==
  ASSUME IInv, TriggerQueue
  PROVE  IInv'
<1> USE ActorsAssumption DEF IInv, TriggerQueue, queue_work, WorkDisabled,
     Goto, gates, pcm, gateFile
<1>1. TypeOK'
  BY DEF TypeOK, Actors, Labels, Directions, StreamStates, AllOps
<1>2. LockInv' /\ CallInv' /\ LabelInv'
  BY DEF TypeOK, LockInv, Critical, Actors, CallInv, CancelsWork,
       CancelsTimer, LabelInv
<1>3. PcmInv' /\ CountInv'
  BY DEF TypeOK, PcmInv, Direction, PcmCalls, Actors, Directions, CountInv,
       IsOpen
<1>4. DiagnosticInv' /\ MutualExclusion'
  BY DEF TypeOK, DiagnosticInv, GateHeld, MutualExclusion, Directions
<1>5. GateInv'
  BY DEF TypeOK, GateInv, GateCalls, GateHeld, Ioctls, Actors
<1>6. EntryInv'
  BY DEF TypeOK, EntryInv, GateHeld, Directions, Actors
<1>7. WorkerInv' /\ StrictExclusion'
  BY DEF TypeOK, WorkerInv, WorkerQuiet, GateHeld, Critical, Actors,
       StrictExclusion, PcmInv, Direction, PcmCalls, Directions
<1>8. TimerInv'
  BY DEF TypeOK, TimerInv, TimerQuiet, GateCalls, Critical, Actors
<1>9. GateOrderInv'
  BY DEF TypeOK, GateOrderInv, Actors
<1> QED
  BY <1>1, <1>2, <1>3, <1>4, <1>5, <1>6, <1>7, <1>8, <1>9

(* An actor takes the lock.                                                *)
LEMMA AcquireKeeps ==
  ASSUME IInv, NEW a \in Actors, Acquire(a)
  PROVE  IInv'
<1> USE ActorsAssumption DEF IInv, Acquire, Goto, gates, pcm, gateFile, works
<1>1. TypeOK'
  BY DEF TypeOK, Actors, Labels, Directions, StreamStates, AllOps
<1>2. LockInv' /\ CallInv' /\ LabelInv'
  BY DEF TypeOK, LockInv, Critical, Actors, CallInv, CancelsWork,
       CancelsTimer, LabelInv
<1>3. PcmInv' /\ CountInv'
  BY DEF TypeOK, PcmInv, Direction, PcmCalls, Actors, Directions, CountInv,
       IsOpen
<1>4. DiagnosticInv' /\ MutualExclusion'
  BY DEF TypeOK, DiagnosticInv, GateHeld, MutualExclusion, Directions
<1>5. GateInv'
  BY DEF TypeOK, GateInv, GateCalls, GateHeld, Ioctls, Actors
<1>6. EntryInv'
  BY DEF TypeOK, EntryInv, GateHeld, Directions, Actors
<1>7. WorkerInv' /\ StrictExclusion'
  BY DEF TypeOK, WorkerInv, WorkerQuiet, GateHeld, Critical, Actors,
       StrictExclusion
<1>8. TimerInv'
  BY DEF TypeOK, TimerInv, TimerQuiet, GateCalls, Critical, Actors
<1>9. GateOrderInv'
  BY DEF TypeOK, GateOrderInv, Actors
<1> QED
  BY <1>1, <1>2, <1>3, <1>4, <1>5, <1>6, <1>7, <1>8, <1>9

(* The preamble of a call.                                                 *)
LEMMA ClearRequestKeeps ==
  ASSUME IInv, NEW t \in Threads, ClearRequest(t)
  PROVE  IInv'
<1> USE ActorsAssumption DEF IInv, ClearRequest, Goto, gates, pcm, gateFile,
     works
<1>0. playback_requested' \in BOOLEAN
  BY Zenon DEF TypeOK
<1>1. TypeOK'
  BY <1>0 DEF TypeOK, Actors, Labels, Directions, StreamStates, AllOps
<1>2. LockInv' /\ CallInv' /\ LabelInv'
  BY DEF TypeOK, LockInv, Critical, Actors, CallInv, CancelsWork,
       CancelsTimer, LabelInv
<1>3. PcmInv' /\ CountInv'
  BY DEF TypeOK, PcmInv, Direction, PcmCalls, Actors, Directions, CountInv,
       IsOpen
<1>4. DiagnosticInv' /\ MutualExclusion'
  BY DEF TypeOK, DiagnosticInv, GateHeld, MutualExclusion, Directions
<1>5. GateInv'
  BY DEF TypeOK, GateInv, GateCalls, GateHeld, Ioctls, Actors
<1>6. EntryInv'
  BY DEF TypeOK, EntryInv, GateHeld, Directions, Actors
<1>7. WorkerInv' /\ StrictExclusion'
  BY DEF TypeOK, WorkerInv, WorkerQuiet, GateHeld, Critical, Actors,
       StrictExclusion
<1>8. TimerInv'
  BY DEF TypeOK, TimerInv, TimerQuiet, GateCalls, Critical, Actors
<1>9. GateOrderInv'
  BY DEF TypeOK, GateOrderInv, Actors
<1> QED
  BY <1>1, <1>2, <1>3, <1>4, <1>5, <1>6, <1>7, <1>8, <1>9

LEMMA CancelWorkKeeps ==
  ASSUME IInv, NEW t \in Threads, CancelWork(t)
  PROVE  IInv'
<1> USE ActorsAssumption DEF IInv, CancelWork, Goto, gates, pcm, gateFile
<1>0. workPending' \in BOOLEAN
  BY Zenon DEF TypeOK
<1>1. TypeOK'
  BY <1>0 DEF TypeOK, Actors, Labels, Directions, StreamStates, AllOps
<1>2. LockInv' /\ CallInv' /\ LabelInv'
  BY DEF TypeOK, LockInv, Critical, Actors, CallInv, CancelsWork,
       CancelsTimer, LabelInv
<1>3. PcmInv' /\ CountInv'
  BY DEF TypeOK, PcmInv, Direction, PcmCalls, Actors, Directions, CountInv,
       IsOpen
<1>4. DiagnosticInv' /\ MutualExclusion'
  BY DEF TypeOK, DiagnosticInv, GateHeld, MutualExclusion, Directions
<1>5. GateInv'
  BY DEF TypeOK, GateInv, GateCalls, GateHeld, Ioctls, Actors
<1>6. EntryInv'
  BY DEF TypeOK, EntryInv, GateHeld, Directions, Actors
<1>7. WorkerInv' /\ StrictExclusion'
  BY DEF TypeOK, WorkerInv, WorkerQuiet, GateHeld, Critical, Actors,
       StrictExclusion
<1>8. TimerInv'
  BY DEF TypeOK, TimerInv, TimerQuiet, GateCalls, Critical, Actors
<1>9. GateOrderInv'
  BY DEF TypeOK, GateOrderInv, Actors
<1> QED
  BY <1>1, <1>2, <1>3, <1>4, <1>5, <1>6, <1>7, <1>8, <1>9

LEMMA FlushWorkKeeps ==
  ASSUME IInv, NEW t \in Threads, FlushWork(t)
  PROVE  IInv'
<1> USE ActorsAssumption DEF IInv, FlushWork, Goto, gates, pcm, gateFile,
     works
<1>1. TypeOK'
  BY DEF TypeOK, Actors, Labels, Directions, StreamStates, AllOps
<1>2. LockInv' /\ CallInv' /\ LabelInv'
  BY DEF TypeOK, LockInv, Critical, Actors, CallInv, CancelsWork,
       CancelsTimer, LabelInv
<1>3. PcmInv' /\ CountInv'
  BY DEF TypeOK, PcmInv, Direction, PcmCalls, Actors, Directions, CountInv,
       IsOpen
<1>4. DiagnosticInv' /\ MutualExclusion'
  BY DEF TypeOK, DiagnosticInv, GateHeld, MutualExclusion, Directions
<1>5. GateInv'
  BY DEF TypeOK, GateInv, GateCalls, GateHeld, Ioctls, Actors
<1>6. EntryInv'
  BY DEF TypeOK, EntryInv, GateHeld, Directions, Actors
<1>7. WorkerInv' /\ StrictExclusion'
  BY DEF TypeOK, WorkerInv, WorkerQuiet, GateHeld, Critical, Actors,
       StrictExclusion
<1>8. TimerInv'
  BY DEF TypeOK, TimerInv, TimerQuiet, GateCalls, Critical, Actors, CallInv,
       CancelsWork, CancelsTimer
<1>9. GateOrderInv'
  BY DEF TypeOK, GateOrderInv, Actors
<1> QED
  BY <1>1, <1>2, <1>3, <1>4, <1>5, <1>6, <1>7, <1>8, <1>9

LEMMA CancelTimerKeeps ==
  ASSUME IInv, NEW t \in Threads, CancelTimer(t)
  PROVE  IInv'
<1> USE ActorsAssumption DEF IInv, CancelTimer, Goto, gates, pcm, gateFile
<1>0. timerPending' \in BOOLEAN
  BY Zenon DEF TypeOK
<1>1. TypeOK'
  BY <1>0 DEF TypeOK, Actors, Labels, Directions, StreamStates, AllOps
<1>2. LockInv' /\ CallInv' /\ LabelInv'
  BY DEF TypeOK, LockInv, Critical, Actors, CallInv, CancelsWork,
       CancelsTimer, LabelInv
<1>3. PcmInv' /\ CountInv'
  BY DEF TypeOK, PcmInv, Direction, PcmCalls, Actors, Directions, CountInv,
       IsOpen
<1>4. DiagnosticInv' /\ MutualExclusion'
  BY DEF TypeOK, DiagnosticInv, GateHeld, MutualExclusion, Directions
<1>5. GateInv'
  BY DEF TypeOK, GateInv, GateCalls, GateHeld, Ioctls, Actors
<1>6. EntryInv'
  BY DEF TypeOK, EntryInv, GateHeld, Directions, Actors
<1>7. WorkerInv' /\ StrictExclusion'
  BY DEF TypeOK, WorkerInv, WorkerQuiet, GateHeld, Critical, Actors,
       StrictExclusion
<1>8. TimerInv'
  BY DEF TypeOK, TimerInv, TimerQuiet, GateCalls, Critical, Actors
<1>9. GateOrderInv'
  BY DEF TypeOK, GateOrderInv, Actors
<1> QED
  BY <1>1, <1>2, <1>3, <1>4, <1>5, <1>6, <1>7, <1>8, <1>9

LEMMA FlushTimerKeeps ==
  ASSUME IInv, NEW t \in Threads, FlushTimer(t)
  PROVE  IInv'
<1> USE ActorsAssumption DEF IInv, FlushTimer, Goto, gates, pcm, gateFile,
     works
<1>1. TypeOK'
  BY DEF TypeOK, Actors, Labels, Directions, StreamStates, AllOps
<1>2. LockInv' /\ CallInv' /\ LabelInv'
  BY DEF TypeOK, LockInv, Critical, Actors, CallInv, CancelsWork,
       CancelsTimer, LabelInv
<1>3. PcmInv' /\ CountInv'
  BY DEF TypeOK, PcmInv, Direction, PcmCalls, Actors, Directions, CountInv,
       IsOpen
<1>4. DiagnosticInv' /\ MutualExclusion'
  BY DEF TypeOK, DiagnosticInv, GateHeld, MutualExclusion, Directions
<1>5. GateInv'
  BY DEF TypeOK, GateInv, GateCalls, GateHeld, Ioctls, Actors
<1>6. EntryInv'
  BY DEF TypeOK, EntryInv, GateHeld, Directions, Actors
<1>7. WorkerInv' /\ StrictExclusion'
  BY DEF TypeOK, WorkerInv, WorkerQuiet, GateHeld, Critical, Actors,
       StrictExclusion, CallInv, CancelsWork, CancelsTimer
<1>8. TimerInv'
  BY DEF TypeOK, TimerInv, TimerQuiet, GateCalls, Critical, Actors
<1>9. GateOrderInv'
  BY DEF TypeOK, GateOrderInv, Actors
<1> QED
  BY <1>1, <1>2, <1>3, <1>4, <1>5, <1>6, <1>7, <1>8, <1>9

(* A call enters its critical section.                                     *)
LEMMA EnterKeeps ==
  ASSUME IInv, NEW t \in Threads, Enter(t)
  PROVE  IInv'
<1> USE ActorsAssumption DEF IInv, Enter, EnterForceSafe, EnterStartup,
     EnterUnmute, EnterRenew, Bypasses, Refused, StartupBusy, Refuse, Leave,
     Fail, ForceSafe, Fault, mod_delayed_work, TimerDisabled, Goto, gates,
     pcm, gateFile
<1>0. timerPending' \in BOOLEAN /\ amp_unmuted' \in BOOLEAN
  <2>1. CASE EnterForceSafe(t) \/ EnterStartup(t)
    BY <2>1, Zenon DEF TypeOK
  <2>2. CASE EnterUnmute(t)
    BY <2>2, Zenon DEF TypeOK
  <2>3. CASE EnterRenew(t)
    BY <2>3, Zenon DEF TypeOK
  <2> QED
    BY <2>1, <2>2, <2>3
<1>1. TypeOK'
  BY <1>0, FaultsAssumption DEF TypeOK, Actors, Labels, Directions,
       StreamStates, AllOps
<1>2. LockInv' /\ CallInv' /\ LabelInv'
  BY DEF TypeOK, LockInv, Critical, Actors, CallInv, CancelsWork,
       CancelsTimer, LabelInv
<1>3. PcmInv' /\ CountInv'
  BY DEF TypeOK, PcmInv, Direction, PcmCalls, Actors, Directions, CountInv,
       IsOpen
<1>4. DiagnosticInv' /\ MutualExclusion'
  BY DEF TypeOK, DiagnosticInv, GateHeld, MutualExclusion, Directions
<1>5. GateInv'
  BY DEF TypeOK, GateInv, GateCalls, GateHeld, Ioctls, Actors
<1>6. EntryInv'
  BY DEF TypeOK, EntryInv, GateHeld, Directions, Actors, LockInv, Critical,
       CountInv, IsOpen, GateInv, GateCalls, Ioctls
<1>7. WorkerInv' /\ StrictExclusion'
  BY DEF TypeOK, WorkerInv, WorkerQuiet, GateHeld, Critical, Actors,
       StrictExclusion
<1>8. TimerInv'
  BY DEF TypeOK, TimerInv, TimerQuiet, GateCalls, Critical, Actors, GateInv,
       GateHeld, Ioctls
<1>9. GateOrderInv'
  BY DEF TypeOK, GateOrderInv, Actors, LockInv, Critical
<1> QED
  BY <1>1, <1>2, <1>3, <1>4, <1>5, <1>6, <1>7, <1>8, <1>9

(* startup counts and latches its stream.                                  *)
LEMMA LatchKeeps ==
  ASSUME IInv, NEW t \in Threads, Latch(t)
  PROVE  IInv'
<1> USE ActorsAssumption DEF IInv, Latch, Goto, Direction, gates, gateFile,
     works
<1>0. playback_open' \in BOOLEAN /\ playback_diagnostic' \in BOOLEAN
  BY Zenon DEF TypeOK
<1>1. TypeOK'
  <2>1. pcm_open_count' \in 0..2
    BY DEF TypeOK, CountInv, IsOpen, PcmInv, PcmCalls, CallInv, Directions
  <2> QED
    BY <1>0, <2>1 DEF TypeOK, Directions, StreamStates, Actors, Labels
<1>2. LockInv' /\ CallInv' /\ LabelInv'
  BY DEF TypeOK, LockInv, Critical, Actors, CallInv, CancelsWork,
       CancelsTimer, LabelInv
<1>3. PcmInv' /\ CountInv'
  BY DEF TypeOK, PcmInv, PcmCalls, Actors, Directions, CountInv, IsOpen,
       CallInv, CancelsWork, CancelsTimer, LockInv, Critical
<1>4. DiagnosticInv' /\ MutualExclusion'
  BY DEF TypeOK, DiagnosticInv, GateHeld, MutualExclusion, Directions,
       EntryInv, Actors, GateInv, GateCalls, Ioctls, PcmInv, PcmCalls,
       CallInv, CancelsWork, CancelsTimer
<1>5. GateInv'
  BY DEF TypeOK, GateInv, GateCalls, GateHeld, Ioctls, Actors
<1>6. EntryInv'
  <2>1. \A u \in Threads : u # t => pc[u] \notin Critical
    BY DEF LockInv, Actors, Critical
  <2>2. call[t] # "open"
    BY DEF CallInv
  <2> QED
    BY <2>1, <2>2 DEF EntryInv, Critical, GateHeld, TypeOK, Actors
<1>7. WorkerInv' /\ StrictExclusion'
  BY DEF TypeOK, WorkerInv, WorkerQuiet, GateHeld, Critical, Actors,
       StrictExclusion
<1>8. TimerInv'
  BY DEF TypeOK, TimerInv, TimerQuiet, GateCalls, Critical, Actors
<1>9. GateOrderInv'
  BY DEF TypeOK, GateOrderInv, Actors, LockInv, Critical
<1> QED
  BY <1>1, <1>2, <1>3, <1>4, <1>5, <1>6, <1>7, <1>8, <1>9

(* force_safe.                                                             *)
LEMMA MuteKeeps ==
  ASSUME IInv, NEW a \in Actors, Mute(a)
  PROVE  IInv'
<1> USE ActorsAssumption DEF IInv, Mute, MuteError, Fault, Fail, Goto, pcm,
     gateFile, works
<1>0. amp_unmuted' \in BOOLEAN
  BY Zenon DEF TypeOK
<1>1. TypeOK'
  BY <1>0, FaultsAssumption DEF TypeOK, Actors, Labels, Directions,
       StreamStates, AllOps
<1>2. LockInv' /\ CallInv' /\ LabelInv'
  BY DEF TypeOK, LockInv, Critical, Actors, CallInv, CancelsWork,
       CancelsTimer, LabelInv
<1>3. PcmInv' /\ CountInv'
  BY DEF TypeOK, PcmInv, Direction, PcmCalls, Actors, Directions, CountInv,
       IsOpen
<1>4. DiagnosticInv' /\ MutualExclusion'
  BY DEF TypeOK, DiagnosticInv, GateHeld, MutualExclusion, Directions
<1>5. GateInv'
  BY DEF TypeOK, GateInv, GateCalls, GateHeld, Ioctls, Actors
<1>6. EntryInv'
  BY DEF TypeOK, EntryInv, GateHeld, Directions, Actors
<1>7. WorkerInv' /\ StrictExclusion'
  BY DEF TypeOK, WorkerInv, WorkerQuiet, GateHeld, Critical, Actors,
       StrictExclusion
<1>8. TimerInv'
  BY DEF TypeOK, TimerInv, TimerQuiet, GateCalls, Critical, Actors
<1>9. GateOrderInv'
  BY DEF TypeOK, GateOrderInv, Actors
<1> QED
  BY <1>1, <1>2, <1>3, <1>4, <1>5, <1>6, <1>7, <1>8, <1>9

LEMMA ShutKeeps ==
  ASSUME IInv, NEW a \in Actors, Shut(a)
  PROVE  IInv'
<1> USE ActorsAssumption DEF IInv, Shut, AfterShut, ActiveReset, Fault, Fail,
     Goto, pcm, gateFile, works
<1>0. amp_enabled' \in BOOLEAN /\ playback_active' \in BOOLEAN
  BY Zenon DEF TypeOK
<1>1. TypeOK'
  BY <1>0, FaultsAssumption DEF TypeOK, Actors, Labels, Directions,
       StreamStates, AllOps
<1>2. LockInv' /\ CallInv' /\ LabelInv'
  BY DEF TypeOK, LockInv, Critical, Actors, CallInv, CancelsWork,
       CancelsTimer, LabelInv
<1>3. PcmInv' /\ CountInv'
  BY DEF TypeOK, PcmInv, Direction, PcmCalls, Actors, Directions, CountInv,
       IsOpen
<1>4. DiagnosticInv' /\ MutualExclusion'
  BY DEF TypeOK, DiagnosticInv, GateHeld, MutualExclusion, Directions
<1>5. GateInv'
  BY DEF TypeOK, GateInv, GateCalls, GateHeld, Ioctls, Actors
<1>6. EntryInv'
  BY DEF TypeOK, EntryInv, GateHeld, Directions, Actors
<1>7. WorkerInv' /\ StrictExclusion'
  BY DEF TypeOK, WorkerInv, WorkerQuiet, GateHeld, Critical, Actors,
       StrictExclusion
<1>8. TimerInv'
  BY DEF TypeOK, TimerInv, TimerQuiet, GateCalls, Critical, Actors
<1>9. GateOrderInv'
  BY DEF TypeOK, GateOrderInv, Actors
<1> QED
  BY <1>1, <1>2, <1>3, <1>4, <1>5, <1>6, <1>7, <1>8, <1>9

(* The enable sequence.                                                    *)
LEMMA EnableKeeps ==
  ASSUME IInv, NEW a \in Actors, Enable(a)
  PROVE  IInv'
<1> USE ActorsAssumption DEF IInv, Enable, Fault, Fail, ForceSafe, Leave,
     Goto, pcm, gateFile, works
<1>0. amp_enabled' \in BOOLEAN
  BY Zenon DEF TypeOK
<1>1. TypeOK'
  BY <1>0, FaultsAssumption DEF TypeOK, Actors, Labels, Directions,
       StreamStates, AllOps
<1>2. LockInv' /\ CallInv' /\ LabelInv'
  BY DEF TypeOK, LockInv, Critical, Actors, CallInv, CancelsWork,
       CancelsTimer, LabelInv
<1>3. PcmInv' /\ CountInv'
  BY DEF TypeOK, PcmInv, Direction, PcmCalls, Actors, Directions, CountInv,
       IsOpen
<1>4. DiagnosticInv' /\ MutualExclusion'
  BY DEF TypeOK, DiagnosticInv, GateHeld, MutualExclusion, Directions
<1>5. GateInv'
  BY DEF TypeOK, GateInv, GateCalls, GateHeld, Ioctls, Actors
<1>6. EntryInv'
  BY DEF TypeOK, EntryInv, GateHeld, Directions, Actors
<1>7. WorkerInv' /\ StrictExclusion'
  BY DEF TypeOK, WorkerInv, WorkerQuiet, GateHeld, Critical, Actors,
       StrictExclusion
<1>8. TimerInv'
  BY DEF TypeOK, TimerInv, TimerQuiet, GateCalls, Critical, Actors
<1>9. GateOrderInv'
  BY DEF TypeOK, GateOrderInv, Actors, LockInv, Critical
<1> QED
  BY <1>1, <1>2, <1>3, <1>4, <1>5, <1>6, <1>7, <1>8, <1>9

LEMMA ArmSettleKeeps ==
  ASSUME IInv, NEW t \in Threads, ArmSettle(t)
  PROVE  IInv'
<1> USE ActorsAssumption DEF IInv, ArmSettle, mod_delayed_work, TimerDisabled,
     Goto, gates, pcm, gateFile
<1>1. TypeOK'
  BY DEF TypeOK, Actors, Labels, Directions, StreamStates, AllOps
<1>2. LockInv' /\ CallInv' /\ LabelInv'
  BY DEF TypeOK, LockInv, Critical, Actors, CallInv, CancelsWork,
       CancelsTimer, LabelInv
<1>3. PcmInv' /\ CountInv'
  BY DEF TypeOK, PcmInv, Direction, PcmCalls, Actors, Directions, CountInv,
       IsOpen
<1>4. DiagnosticInv' /\ MutualExclusion'
  BY DEF TypeOK, DiagnosticInv, GateHeld, MutualExclusion, Directions
<1>5. GateInv'
  BY DEF TypeOK, GateInv, GateCalls, GateHeld, Ioctls, Actors
<1>6. EntryInv'
  BY DEF TypeOK, EntryInv, GateHeld, Directions, Actors, CallInv,
       CancelsWork, CancelsTimer
<1>7. WorkerInv' /\ StrictExclusion'
  BY DEF TypeOK, WorkerInv, WorkerQuiet, GateHeld, Critical, Actors,
       StrictExclusion
<1>8. TimerInv'
  BY DEF TypeOK, TimerInv, TimerQuiet, GateCalls, Critical, Actors, CallInv,
       CancelsWork, CancelsTimer, GateInv, GateHeld, Ioctls
<1>9. GateOrderInv'
  BY DEF TypeOK, GateOrderInv, Actors
<1> QED
  BY <1>1, <1>2, <1>3, <1>4, <1>5, <1>6, <1>7, <1>8, <1>9

(* A call leaves the lock.                                                 *)
LEMMA UnlockKeeps ==
  ASSUME IInv, NEW t \in Threads, Unlock(t)
  PROVE  IInv'
<1> USE ActorsAssumption DEF IInv, Unlock, Finish, CountClose, GivesGateBack,
     Direction, Goto, gates, works
<1>1. TypeOK'
  BY DEF TypeOK, Actors, Labels, Directions, StreamStates, AllOps
<1>2. LockInv' /\ CallInv' /\ LabelInv'
  BY DEF TypeOK, LockInv, Critical, Actors, CallInv, CancelsWork,
       CancelsTimer, LabelInv
<1>3. PcmInv' /\ CountInv'
  BY DEF TypeOK, PcmInv, PcmCalls, Actors, Directions, CountInv, IsOpen
<1>4. DiagnosticInv' /\ MutualExclusion'
  BY DEF TypeOK, DiagnosticInv, GateHeld, MutualExclusion, Directions,
       EntryInv, Actors, GateInv, GateCalls, Ioctls, PcmInv, PcmCalls
<1>5. GateInv'
  BY DEF TypeOK, GateInv, GateCalls, GateHeld, Ioctls, Actors
<1>6. EntryInv'
  BY DEF TypeOK, EntryInv, GateHeld, Directions, Actors, LockInv, Critical
<1>7. WorkerInv' /\ StrictExclusion'
  BY DEF TypeOK, WorkerInv, WorkerQuiet, GateHeld, Critical, Actors,
       StrictExclusion, PcmInv, PcmCalls, Directions, EntryInv, GateInv,
       GateCalls, Ioctls
<1>8. TimerInv'
  BY DEF TypeOK, TimerInv, TimerQuiet, GateCalls, Critical, Actors
<1>9. GateOrderInv'
  BY DEF TypeOK, GateOrderInv, Actors
<1> QED
  BY <1>1, <1>2, <1>3, <1>4, <1>5, <1>6, <1>7, <1>8, <1>9

LEMMA ReopenKeeps ==
  ASSUME IInv, NEW t \in Threads, Reopen(t)
  PROVE  IInv'
<1> USE ActorsAssumption DEF IInv, Reopen, Goto, gates, pcm, works
<1>0. safety_open' \in BOOLEAN
  BY Zenon DEF TypeOK
<1>1. TypeOK'
  BY <1>0 DEF TypeOK, Actors, Labels, Directions, StreamStates, AllOps
<1>2. LockInv' /\ CallInv' /\ LabelInv'
  BY DEF TypeOK, LockInv, Critical, Actors, CallInv, CancelsWork,
       CancelsTimer, LabelInv
<1>3. PcmInv' /\ CountInv'
  BY DEF TypeOK, PcmInv, Direction, PcmCalls, Actors, Directions, CountInv,
       IsOpen
<1>4. DiagnosticInv' /\ MutualExclusion'
  BY DEF TypeOK, DiagnosticInv, GateHeld, MutualExclusion, Directions
<1>5. GateInv'
  BY DEF TypeOK, GateInv, GateCalls, GateHeld, Ioctls, Actors, CallInv,
       CancelsWork, CancelsTimer
<1>6. EntryInv'
  BY DEF TypeOK, EntryInv, GateHeld, Directions, Actors
<1>7. WorkerInv' /\ StrictExclusion'
  BY DEF TypeOK, WorkerInv, WorkerQuiet, GateHeld, Critical, Actors,
       StrictExclusion
<1>8. TimerInv'
  BY DEF TypeOK, TimerInv, TimerQuiet, GateCalls, Critical, Actors, CallInv,
       CancelsWork, CancelsTimer, GateInv, GateHeld, Ioctls
<1>9. GateOrderInv'
  BY DEF TypeOK, GateOrderInv, Actors
<1> QED
  BY <1>1, <1>2, <1>3, <1>4, <1>5, <1>6, <1>7, <1>8, <1>9

(* The worker.                                                             *)
LEMMA WorkStartKeeps ==
  ASSUME IInv, WorkStart
  PROVE  IInv'
<1> USE ActorsAssumption DEF IInv, WorkStart, Goto, gates, pcm, gateFile
<1>0. workPending' \in BOOLEAN
  BY Zenon DEF TypeOK
<1>1. TypeOK'
  BY <1>0 DEF TypeOK, Actors, Labels, Directions, StreamStates, AllOps
<1>2. LockInv' /\ CallInv' /\ LabelInv'
  BY DEF TypeOK, LockInv, Critical, Actors, CallInv, CancelsWork,
       CancelsTimer, LabelInv
<1>3. PcmInv' /\ CountInv'
  BY DEF TypeOK, PcmInv, Direction, PcmCalls, Actors, Directions, CountInv,
       IsOpen
<1>4. DiagnosticInv' /\ MutualExclusion'
  BY DEF TypeOK, DiagnosticInv, GateHeld, MutualExclusion, Directions
<1>5. GateInv'
  BY DEF TypeOK, GateInv, GateCalls, GateHeld, Ioctls, Actors
<1>6. EntryInv'
  BY DEF TypeOK, EntryInv, GateHeld, Directions, Actors
<1>7. WorkerInv' /\ StrictExclusion'
  BY DEF TypeOK, WorkerInv, WorkerQuiet, GateHeld, Critical, Actors,
       StrictExclusion
<1>8. TimerInv'
  BY DEF TypeOK, TimerInv, TimerQuiet, GateCalls, Critical, Actors
<1>9. GateOrderInv'
  BY DEF TypeOK, GateOrderInv, Actors
<1> QED
  BY <1>1, <1>2, <1>3, <1>4, <1>5, <1>6, <1>7, <1>8, <1>9

LEMMA WorkReadKeeps ==
  ASSUME IInv, WorkRead
  PROVE  IInv'
<1> USE ActorsAssumption DEF IInv, WorkRead, Goto, gates, pcm, gateFile
<1>1. TypeOK'
  BY DEF TypeOK, Actors, Labels, Directions, StreamStates, AllOps
<1>2. LockInv' /\ CallInv' /\ LabelInv'
  BY DEF TypeOK, LockInv, Critical, Actors, CallInv, CancelsWork,
       CancelsTimer, LabelInv
<1>3. PcmInv' /\ CountInv'
  BY DEF TypeOK, PcmInv, Direction, PcmCalls, Actors, Directions, CountInv,
       IsOpen
<1>4. DiagnosticInv' /\ MutualExclusion'
  BY DEF TypeOK, DiagnosticInv, GateHeld, MutualExclusion, Directions
<1>5. GateInv'
  BY DEF TypeOK, GateInv, GateCalls, GateHeld, Ioctls, Actors
<1>6. EntryInv'
  BY DEF TypeOK, EntryInv, GateHeld, Directions, Actors
<1>7. WorkerInv' /\ StrictExclusion'
  BY DEF TypeOK, WorkerInv, WorkerQuiet, GateHeld, Critical, Actors,
       StrictExclusion
<1>8. TimerInv'
  BY DEF TypeOK, TimerInv, TimerQuiet, GateCalls, Critical, Actors
<1>9. GateOrderInv'
  BY DEF TypeOK, GateOrderInv, Actors
<1> QED
  BY <1>1, <1>2, <1>3, <1>4, <1>5, <1>6, <1>7, <1>8, <1>9

LEMMA WorkEntryKeeps ==
  ASSUME IInv, WorkEntry
  PROVE  IInv'
<1> USE ActorsAssumption DEF IInv, WorkEntry, StopPlayback, ForceSafe, Goto,
     gates, pcm, gateFile, works
<1>1. TypeOK'
  BY DEF TypeOK, Actors, Labels, Directions, StreamStates, AllOps
<1>2. LockInv' /\ CallInv' /\ LabelInv'
  BY DEF TypeOK, LockInv, Critical, Actors, CallInv, CancelsWork,
       CancelsTimer, LabelInv
<1>3. PcmInv' /\ CountInv'
  BY DEF TypeOK, PcmInv, Direction, PcmCalls, Actors, Directions, CountInv,
       IsOpen
<1>4. DiagnosticInv' /\ MutualExclusion'
  BY DEF TypeOK, DiagnosticInv, GateHeld, MutualExclusion, Directions
<1>5. GateInv'
  BY DEF TypeOK, GateInv, GateCalls, GateHeld, Ioctls, Actors
<1>6. EntryInv'
  BY DEF TypeOK, EntryInv, GateHeld, Directions, Actors
<1>7. WorkerInv' /\ StrictExclusion'
  BY DEF TypeOK, WorkerInv, WorkerQuiet, GateHeld, Critical, Actors,
       StrictExclusion
<1>8. TimerInv'
  BY DEF TypeOK, TimerInv, TimerQuiet, GateCalls, Critical, Actors
<1>9. GateOrderInv'
  BY DEF TypeOK, GateOrderInv, Actors
<1> QED
  BY <1>1, <1>2, <1>3, <1>4, <1>5, <1>6, <1>7, <1>8, <1>9

LEMMA StartCheckKeeps ==
  ASSUME IInv, StartCheck
  PROVE  IInv'
<1> USE ActorsAssumption DEF IInv, StartCheck, ForceSafe, Leave, Goto, gates,
     pcm, gateFile, works
<1>1. TypeOK'
  BY DEF TypeOK, Actors, Labels, Directions, StreamStates, AllOps
<1>2. LockInv' /\ CallInv' /\ LabelInv'
  BY DEF TypeOK, LockInv, Critical, Actors, CallInv, CancelsWork,
       CancelsTimer, LabelInv
<1>3. PcmInv' /\ CountInv'
  BY DEF TypeOK, PcmInv, Direction, PcmCalls, Actors, Directions, CountInv,
       IsOpen
<1>4. DiagnosticInv' /\ MutualExclusion'
  BY DEF TypeOK, DiagnosticInv, GateHeld, MutualExclusion, Directions
<1>5. GateInv'
  BY DEF TypeOK, GateInv, GateCalls, GateHeld, Ioctls, Actors
<1>6. EntryInv'
  BY DEF TypeOK, EntryInv, GateHeld, Directions, Actors
<1>7. WorkerInv' /\ StrictExclusion'
  BY DEF TypeOK, WorkerInv, WorkerQuiet, GateHeld, Critical, Actors,
       StrictExclusion
<1>8. TimerInv'
  BY DEF TypeOK, TimerInv, TimerQuiet, GateCalls, Critical, Actors
<1>9. GateOrderInv'
  BY DEF TypeOK, GateOrderInv, Actors
<1> QED
  BY <1>1, <1>2, <1>3, <1>4, <1>5, <1>6, <1>7, <1>8, <1>9

LEMMA StartSettleKeeps ==
  ASSUME IInv, StartSettle
  PROVE  IInv'
<1> USE ActorsAssumption DEF IInv, StartSettle, ForceSafe, Fail, Goto, gates,
     pcm, gateFile, works
<1>1. TypeOK'
  BY DEF TypeOK, Actors, Labels, Directions, StreamStates, AllOps
<1>2. LockInv' /\ CallInv' /\ LabelInv'
  BY DEF TypeOK, LockInv, Critical, Actors, CallInv, CancelsWork,
       CancelsTimer, LabelInv
<1>3. PcmInv' /\ CountInv'
  BY DEF TypeOK, PcmInv, Direction, PcmCalls, Actors, Directions, CountInv,
       IsOpen
<1>4. DiagnosticInv' /\ MutualExclusion'
  BY DEF TypeOK, DiagnosticInv, GateHeld, MutualExclusion, Directions
<1>5. GateInv'
  BY DEF TypeOK, GateInv, GateCalls, GateHeld, Ioctls, Actors
<1>6. EntryInv'
  BY DEF TypeOK, EntryInv, GateHeld, Directions, Actors
<1>7. WorkerInv' /\ StrictExclusion'
  BY DEF TypeOK, WorkerInv, WorkerQuiet, GateHeld, Critical, Actors,
       StrictExclusion
<1>8. TimerInv'
  BY DEF TypeOK, TimerInv, TimerQuiet, GateCalls, Critical, Actors
<1>9. GateOrderInv'
  BY DEF TypeOK, GateOrderInv, Actors
<1> QED
  BY <1>1, <1>2, <1>3, <1>4, <1>5, <1>6, <1>7, <1>8, <1>9

LEMMA StartUnmuteKeeps ==
  ASSUME IInv, StartUnmute
  PROVE  IInv'
<1> USE ActorsAssumption DEF IInv, StartUnmute, ForceSafe, Fail, Leave, Fault,
     Goto, pcm, gateFile, works
<1>0. amp_unmuted' \in BOOLEAN /\ playback_active' \in BOOLEAN
  BY Zenon DEF TypeOK
<1>1. TypeOK'
  BY <1>0, FaultsAssumption DEF TypeOK, Actors, Labels, Directions,
       StreamStates, AllOps
<1>2. LockInv' /\ CallInv' /\ LabelInv'
  BY DEF TypeOK, LockInv, Critical, Actors, CallInv, CancelsWork,
       CancelsTimer, LabelInv
<1>3. PcmInv' /\ CountInv'
  BY DEF TypeOK, PcmInv, Direction, PcmCalls, Actors, Directions, CountInv,
       IsOpen
<1>4. DiagnosticInv' /\ MutualExclusion'
  BY DEF TypeOK, DiagnosticInv, GateHeld, MutualExclusion, Directions
<1>5. GateInv'
  BY DEF TypeOK, GateInv, GateCalls, GateHeld, Ioctls, Actors
<1>6. EntryInv'
  BY DEF TypeOK, EntryInv, GateHeld, Directions, Actors
<1>7. WorkerInv' /\ StrictExclusion'
  BY DEF TypeOK, WorkerInv, WorkerQuiet, GateHeld, Critical, Actors,
       StrictExclusion
<1>8. TimerInv'
  BY DEF TypeOK, TimerInv, TimerQuiet, GateCalls, Critical, Actors
<1>9. GateOrderInv'
  BY DEF TypeOK, GateOrderInv, Actors, LockInv, Critical
<1> QED
  BY <1>1, <1>2, <1>3, <1>4, <1>5, <1>6, <1>7, <1>8, <1>9

LEMMA WorkUnlockKeeps ==
  ASSUME IInv, WorkUnlock
  PROVE  IInv'
<1> USE ActorsAssumption DEF IInv, WorkUnlock, Goto, gates, pcm, gateFile,
     works
<1>1. TypeOK'
  BY DEF TypeOK, Actors, Labels, Directions, StreamStates, AllOps
<1>2. LockInv' /\ CallInv' /\ LabelInv'
  BY DEF TypeOK, LockInv, Critical, Actors, CallInv, CancelsWork,
       CancelsTimer, LabelInv
<1>3. PcmInv' /\ CountInv'
  BY DEF TypeOK, PcmInv, Direction, PcmCalls, Actors, Directions, CountInv,
       IsOpen
<1>4. DiagnosticInv' /\ MutualExclusion'
  BY DEF TypeOK, DiagnosticInv, GateHeld, MutualExclusion, Directions
<1>5. GateInv'
  BY DEF TypeOK, GateInv, GateCalls, GateHeld, Ioctls, Actors
<1>6. EntryInv'
  BY DEF TypeOK, EntryInv, GateHeld, Directions, Actors
<1>7. WorkerInv' /\ StrictExclusion'
  BY DEF TypeOK, WorkerInv, WorkerQuiet, GateHeld, Critical, Actors,
       StrictExclusion
<1>8. TimerInv'
  BY DEF TypeOK, TimerInv, TimerQuiet, GateCalls, Critical, Actors
<1>9. GateOrderInv'
  BY DEF TypeOK, GateOrderInv, Actors
<1> QED
  BY <1>1, <1>2, <1>3, <1>4, <1>5, <1>6, <1>7, <1>8, <1>9

LEMMA WorkRecheckKeeps ==
  ASSUME IInv, WorkRecheck
  PROVE  IInv'
<1> USE ActorsAssumption DEF IInv, WorkRecheck, queue_work, WorkDisabled,
     Goto, gates, pcm, gateFile
<1>0. workArg' \in BOOLEAN /\ workPending' \in BOOLEAN
  BY Zenon DEF TypeOK
<1>1. TypeOK'
  BY <1>0 DEF TypeOK, Actors, Labels, Directions, StreamStates, AllOps
<1>2. LockInv' /\ CallInv' /\ LabelInv'
  BY DEF TypeOK, LockInv, Critical, Actors, CallInv, CancelsWork,
       CancelsTimer, LabelInv
<1>3. PcmInv' /\ CountInv'
  BY DEF TypeOK, PcmInv, Direction, PcmCalls, Actors, Directions, CountInv,
       IsOpen
<1>4. DiagnosticInv' /\ MutualExclusion'
  BY DEF TypeOK, DiagnosticInv, GateHeld, MutualExclusion, Directions
<1>5. GateInv'
  BY DEF TypeOK, GateInv, GateCalls, GateHeld, Ioctls, Actors
<1>6. EntryInv'
  BY DEF TypeOK, EntryInv, GateHeld, Directions, Actors
<1>7. WorkerInv' /\ StrictExclusion'
  BY DEF TypeOK, WorkerInv, WorkerQuiet, GateHeld, Critical, Actors,
       StrictExclusion
<1>8. TimerInv'
  BY DEF TypeOK, TimerInv, TimerQuiet, GateCalls, Critical, Actors
<1>9. GateOrderInv'
  BY DEF TypeOK, GateOrderInv, Actors
<1> QED
  BY <1>1, <1>2, <1>3, <1>4, <1>5, <1>6, <1>7, <1>8, <1>9

(* The timer.                                                              *)
LEMMA TimerExpireKeeps ==
  ASSUME IInv, TimerExpire
  PROVE  IInv'
<1> USE ActorsAssumption DEF IInv, TimerExpire, Goto, gates, pcm, gateFile
<1>0. timerPending' \in BOOLEAN
  BY Zenon DEF TypeOK
<1>1. TypeOK'
  BY <1>0 DEF TypeOK, Actors, Labels, Directions, StreamStates, AllOps
<1>2. LockInv' /\ CallInv' /\ LabelInv'
  BY DEF TypeOK, LockInv, Critical, Actors, CallInv, CancelsWork,
       CancelsTimer, LabelInv
<1>3. PcmInv' /\ CountInv'
  BY DEF TypeOK, PcmInv, Direction, PcmCalls, Actors, Directions, CountInv,
       IsOpen
<1>4. DiagnosticInv' /\ MutualExclusion'
  BY DEF TypeOK, DiagnosticInv, GateHeld, MutualExclusion, Directions
<1>5. GateInv'
  BY DEF TypeOK, GateInv, GateCalls, GateHeld, Ioctls, Actors
<1>6. EntryInv'
  BY DEF TypeOK, EntryInv, GateHeld, Directions, Actors
<1>7. WorkerInv' /\ StrictExclusion'
  BY DEF TypeOK, WorkerInv, WorkerQuiet, GateHeld, Critical, Actors,
       StrictExclusion
<1>8. TimerInv'
  BY DEF TypeOK, TimerInv, TimerQuiet, GateCalls, Critical, Actors
<1>9. GateOrderInv'
  BY DEF TypeOK, GateOrderInv, Actors
<1> QED
  BY <1>1, <1>2, <1>3, <1>4, <1>5, <1>6, <1>7, <1>8, <1>9

LEMMA TimerEntryKeeps ==
  ASSUME IInv, TimerEntry
  PROVE  IInv'
<1> USE ActorsAssumption DEF IInv, TimerEntry, AmpUp, ForceSafe, Leave, Goto,
     gates, pcm, gateFile, works
<1>1. TypeOK'
  BY DEF TypeOK, Actors, Labels, Directions, StreamStates, AllOps
<1>2. LockInv' /\ CallInv' /\ LabelInv'
  BY DEF TypeOK, LockInv, Critical, Actors, CallInv, CancelsWork,
       CancelsTimer, LabelInv
<1>3. PcmInv' /\ CountInv'
  BY DEF TypeOK, PcmInv, Direction, PcmCalls, Actors, Directions, CountInv,
       IsOpen
<1>4. DiagnosticInv' /\ MutualExclusion'
  BY DEF TypeOK, DiagnosticInv, GateHeld, MutualExclusion, Directions
<1>5. GateInv'
  BY DEF TypeOK, GateInv, GateCalls, GateHeld, Ioctls, Actors
<1>6. EntryInv'
  BY DEF TypeOK, EntryInv, GateHeld, Directions, Actors
<1>7. WorkerInv' /\ StrictExclusion'
  BY DEF TypeOK, WorkerInv, WorkerQuiet, GateHeld, Critical, Actors,
       StrictExclusion
<1>8. TimerInv'
  BY DEF TypeOK, TimerInv, TimerQuiet, GateCalls, Critical, Actors
<1>9. GateOrderInv'
  BY DEF TypeOK, GateOrderInv, Actors
<1> QED
  BY <1>1, <1>2, <1>3, <1>4, <1>5, <1>6, <1>7, <1>8, <1>9

LEMMA TimerUnlockKeeps ==
  ASSUME IInv, TimerUnlock
  PROVE  IInv'
<1> USE ActorsAssumption DEF IInv, TimerUnlock, Goto, gates, pcm, gateFile,
     works
<1>1. TypeOK'
  BY DEF TypeOK, Actors, Labels, Directions, StreamStates, AllOps
<1>2. LockInv' /\ CallInv' /\ LabelInv'
  BY DEF TypeOK, LockInv, Critical, Actors, CallInv, CancelsWork,
       CancelsTimer, LabelInv
<1>3. PcmInv' /\ CountInv'
  BY DEF TypeOK, PcmInv, Direction, PcmCalls, Actors, Directions, CountInv,
       IsOpen
<1>4. DiagnosticInv' /\ MutualExclusion'
  BY DEF TypeOK, DiagnosticInv, GateHeld, MutualExclusion, Directions
<1>5. GateInv'
  BY DEF TypeOK, GateInv, GateCalls, GateHeld, Ioctls, Actors
<1>6. EntryInv'
  BY DEF TypeOK, EntryInv, GateHeld, Directions, Actors
<1>7. WorkerInv' /\ StrictExclusion'
  BY DEF TypeOK, WorkerInv, WorkerQuiet, GateHeld, Critical, Actors,
       StrictExclusion
<1>8. TimerInv'
  BY DEF TypeOK, TimerInv, TimerQuiet, GateCalls, Critical, Actors
<1>9. GateOrderInv'
  BY DEF TypeOK, GateOrderInv, Actors
<1> QED
  BY <1>1, <1>2, <1>3, <1>4, <1>5, <1>6, <1>7, <1>8, <1>9

-----------------------------------------------------------------------------
(* The inductive invariant holds initially and is kept by every step.      *)

LEMMA InitIInv == Init => IInv
<1> SUFFICES ASSUME Init PROVE IInv
  OBVIOUS
<1> USE ActorsAssumption DEF Init
<1>1. /\ amp_enabled \in BOOLEAN /\ amp_unmuted \in BOOLEAN
      /\ playback_active \in BOOLEAN /\ safety_open \in BOOLEAN
      /\ playback_requested \in BOOLEAN /\ playback_open \in BOOLEAN
      /\ playback_diagnostic \in BOOLEAN /\ workPending \in BOOLEAN
      /\ workArg \in BOOLEAN /\ timerPending \in BOOLEAN
  BY Zenon
<1>2. TypeOK
  BY <1>1, FaultsAssumption DEF TypeOK, Actors, Labels, Directions, StreamStates
<1>3. LockInv /\ CallInv /\ LabelInv
  BY DEF LockInv, CallInv, LabelInv, Critical, Actors, CancelsWork, CancelsTimer
<1>4. PcmInv /\ CountInv /\ DiagnosticInv /\ MutualExclusion
  BY DEF PcmInv, PcmCalls, CountInv, IsOpen, DiagnosticInv, MutualExclusion,
         GateHeld, Directions
<1>5. GateInv /\ EntryInv
  BY DEF GateInv, GateCalls, GateHeld, Ioctls, EntryInv, Actors
<1>6. WorkerInv /\ StrictExclusion /\ TimerInv /\ GateOrderInv
  BY DEF WorkerInv, WorkerQuiet, StrictExclusion, TimerInv, TimerQuiet,
         GateOrderInv, GateHeld, GateCalls, Actors, Critical
<1> QED
  BY <1>2, <1>3, <1>4, <1>5, <1>6 DEF IInv

LEMMA NextIInv == IInv /\ [Next]_vars => IInv'
<1> SUFFICES ASSUME IInv, [Next]_vars PROVE IInv'
  OBVIOUS
<1>1. ASSUME NEW t \in Threads, NEW c \in Ops, Begin(t, c) PROVE IInv'
  BY <1>1, BeginKeeps
<1>2. CASE TriggerStart \/ TriggerStop \/ TriggerQueue
  BY <1>2, TriggerStartKeeps, TriggerStopKeeps, TriggerQueueKeeps
<1>3. ASSUME NEW a \in Actors, Acquire(a) PROVE IInv'
  BY <1>3, AcquireKeeps
<1>4. ASSUME NEW t \in Threads, ThreadStep(t) PROVE IInv'
  <2> t \in Actors
    BY DEF Actors
  <2> QED
    BY <1>4, ClearRequestKeeps, CancelWorkKeeps, FlushWorkKeeps,
       CancelTimerKeeps, FlushTimerKeeps, EnterKeeps, LatchKeeps, MuteKeeps,
       ShutKeeps, EnableKeeps, ArmSettleKeeps, UnlockKeeps, ReopenKeeps
       DEF ThreadStep
<1>5. CASE WorkerStep
  <2> Worker \in Actors
    BY DEF Actors
  <2> QED
    BY <1>5, WorkStartKeeps, WorkReadKeeps, WorkEntryKeeps, StartCheckKeeps,
       MuteKeeps, ShutKeeps, EnableKeeps, StartSettleKeeps, StartUnmuteKeeps,
       WorkUnlockKeeps, WorkRecheckKeeps DEF WorkerStep
<1>6. CASE TimerStep
  <2> Timer \in Actors
    BY DEF Actors
  <2> QED
    BY <1>6, TimerExpireKeeps, TimerEntryKeeps, MuteKeeps, ShutKeeps,
       TimerUnlockKeeps DEF TimerStep
<1>7. CASE UNCHANGED vars
  BY <1>7 DEF vars, gates, pcm, gateFile, works, control, IInv, TypeOK, LockInv,
       CallInv, LabelInv, PcmInv, CountInv, IsOpen, GateInv, GateHeld, EntryInv,
       DiagnosticInv, MutualExclusion, WorkerInv, WorkerQuiet, StrictExclusion,
       TimerInv, TimerQuiet, GateOrderInv
<1> QED
  BY <1>1, <1>2, <1>3, <1>4, <1>5, <1>6, <1>7 DEF Next

THEOREM InductiveInvariant == Spec => []IInv
BY InitIInv, NextIInv, PTL DEF Spec

-----------------------------------------------------------------------------
(* What follows from it.                                                   *)

(* Every variable keeps its type; in particular at most two PCM directions *)
(* are counted open.                                                       *)
THEOREM TypeCorrect == Spec => []TypeOK
<1>1. IInv => TypeOK
  BY DEF IInv
<1> QED
  BY <1>1, InductiveInvariant, PTL

(* Whatever safety_open does outside the lock, a held gate and a stream of *)
(* another process never coexist.                                          *)
THEOREM GateExcludesOthers == Spec => []MutualExclusion
<1>1. IInv => MutualExclusion
  BY DEF IInv
<1> QED
  BY <1>1, InductiveInvariant, PTL

(* The automatic worker is quiet while a process holds the gate.           *)
THEOREM GateExcludesWorker == Spec => []StrictExclusion
<1>1. IInv => StrictExclusion
  BY DEF IInv
<1> QED
  BY <1>1, InductiveInvariant, PTL

(* The keepalive timeout is never queued and never runs without the gate.  *)
THEOREM TimeoutNeedsGate == Spec => []TimeoutOnlyWithGate
<1>1. IInv => TimeoutOnlyWithGate
  BY DEF IInv, TypeOK, TimerInv, TimerQuiet, TimeoutOnlyWithGate
<1> QED
  BY <1>1, InductiveInvariant, PTL

(* The amplifier is enabled only while muted, and shut down only after it  *)
(* was muted or muting failed, for any number of regulator failures.       *)
THEOREM FailClosed == Spec => FailClosedOrder
<1> DEFINE Order ==
      /\ ~amp_enabled /\ amp_enabled' => ~amp_unmuted /\ ~amp_unmuted'
      /\ amp_enabled /\ ~amp_enabled' => ~amp_unmuted \/ safety_lock \in err
<1>1. ASSUME IInv, Next PROVE Order
  <2> USE <1>1 DEF IInv
  <2>1. ASSUME NEW a \in Actors, Enable(a) PROVE Order
    BY <2>1 DEF Enable, GateOrderInv
  <2>2. ASSUME NEW a \in Actors, Shut(a) PROVE Order
    <3>1. safety_lock = a
      BY <2>2 DEF Shut, LockInv, Critical
    <3> QED
      BY <2>2, <3>1 DEF Shut, GateOrderInv
  <2>3. CASE amp_enabled' = amp_enabled
    BY <2>3
  <2>4. ASSUME NEW t \in Threads, Enter(t) PROVE amp_enabled' = amp_enabled
    BY <2>4 DEF Enter, EnterForceSafe, EnterStartup, EnterUnmute, EnterRenew, gates
  <2>5. \/ amp_enabled' = amp_enabled
        \/ \E a \in Actors : Enable(a) \/ Shut(a)
    BY <1>1, <2>4
       DEF Next, ThreadStep, WorkerStep, TimerStep, Begin, TriggerStart,
           TriggerStop, TriggerPlayback, TriggerQueue, Acquire, ClearRequest,
           CancelWork, FlushWork, CancelTimer, FlushTimer, Latch, Mute,
           ArmSettle, Unlock, Reopen, WorkStart, WorkRead, WorkEntry, StartCheck,
           StartSettle, StartUnmute, WorkUnlock, WorkRecheck, TimerExpire,
           TimerEntry, TimerUnlock, Actors, gates
  <2> QED
    BY <2>1, <2>2, <2>3, <2>5
<1>2. IInv /\ [Next]_vars => [Order]_vars
  BY <1>1
<1> QED
  BY <1>2, InductiveInvariant, PTL DEF Spec, FailClosedOrder
=============================================================================
