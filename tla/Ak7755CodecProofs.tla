-------------------------- MODULE Ak7755CodecProofs --------------------------
(***************************************************************************)
(* Proofs about Ak7755Codec, for any number of images and streams, any set *)
(* of requests, and any number and kind of faulty transfers.               *)
(***************************************************************************)
EXTENDS Ak7755Codec, FiniteSetTheorems, TLAPS

(* The inductive strengthening of the invariants below: who holds the      *)
(* lock, where each operation stands, what has been downloaded, when the   *)
(* driver's flag and count agree with the chip and with the ALSA core.     *)
ProbeLabels ==
  {"pdn", "id", "contract", "request", "dl_lock", "dl_cf", "dl_ready", "dl_send",
   "dl_crc", "dl_restore", "dl_undo", "dl_ok", "dl_err", "register", "assert", "dead"}
  \cup DOMAIN AfterProbeWrite
BindLabels == {"lock", "entry", "D4", "mute", "ok", "err"} \cup DOMAIN AfterRoute
RunLabels ==
  {"clock", "power", "cores", "volume", "unmute", "verify", "down_mute",
   "down_cores", "down_power", "err"}
StopLabels == {"mute", "cores", "power", "verify", "err"}
RequestLabels == {"lock", "entry", "check", "premute", "write", "verify", "ok", "err"}
Unlocked ==
  {"pdn", "id", "contract", "request", "dl_lock", "register", "assert", "dead",
   "unbound", "idle", "lock", "reset"}

HoldsLock(a) ==
  at[a] \notin Unlocked /\ ~(doing[a] = "probe" /\ at[a] \in DOMAIN AfterProbeWrite)
LockInv == \A a \in Contexts : lock = a <=> HoldsLock(a)

HostInv ==
  \/ doing["host"] = "probe" /\ at["host"] \in ProbeLabels
  \/ doing["host"] = "bind" /\ at["host"] \in BindLabels
  \/ doing["host"] = "startup" /\ at["host"] \in {"lock", "entry", "ok"}
  \/ doing["host"] = "prepare" /\ at["host"] \in {"lock", "entry", "ok"} \cup RunLabels
  \/ doing["host"] = "shutdown"
     /\ at["host"] \in {"lock", "entry", "ok", "reset"} \cup StopLabels
  \/ doing["host"] = "none" /\ at["host"] \in {"idle", "unbound", "dead"}
GateInv ==
  \/ doing["gate"] = "none" /\ at["gate"] = "idle"
  \/ doing["gate"] \in AllRequests /\ at["gate"] \in RequestLabels

ImageInv ==
  /\ doing["host"] = "probe" =>
       /\ image = Last + 1 => at["host"] \in {"register", "assert", "dead"}
       /\ ~chip.reset => \A n \in 1..(image - 1) : chip.mem[Order[n]] = "good"
       /\ at["host"] = "pdn" => image = 1
       /\ at["host"] = "register" => image = Last + 1
       /\ at["host"] \in {"dl_restore", "dl_ok"} =>
            chip.reset \/ chip.mem[Order[image]] = "good"
       /\ chip.run = {}
  /\ doing["host"] # "probe" => chip.reset \/ \A i \in Images : chip.mem[i] = "good"
  /\ chip.reset => chip.run = {}

Starting ==
  doing["host"] \in {"probe", "bind"} \/ at["host"] \in {"unbound", "dead"}
Stopping == doing["host"] = "shutdown" /\ at["host"] \in StopLabels \cup {"reset"}
Runs ==
  /\ chip.clock /\ chip.run = Cores /\ "LO2" \in chip.power
  /\ RouteRegs \ {"C9"} \subseteq chip.staged

FlagInv ==
  /\ Starting => ~direct_output_running /\ opened = 0 /\ doing["gate"] = "none"
  /\ doing["host"] = "prepare" /\ at["host"] \in RunLabels => ~direct_output_running
  /\ direct_output_running /\ ~chip.reset /\ ~Stopping => Runs
  /\ direct_output_running /\ open_streams = 0 => chip.reset \/ Stopping

CountInv ==
  /\ doing["host"] = "startup" => opened < Streams
  /\ doing["host"] = "prepare" => opened > 0
  /\ doing["host"] = "shutdown" /\ at["host"] # "reset" => opened > 0
  /\ open_streams =
       IF doing["host"] = "startup" /\ at["host"] = "ok" THEN opened + 1
       ELSE IF doing["host"] = "shutdown" /\ at["host"] \in StopLabels \cup {"ok"}
       THEN opened - 1 ELSE opened

IInv == TypeOK /\ LockInv /\ HostInv /\ GateInv /\ ImageInv /\ FlagInv /\ CountInv

-----------------------------------------------------------------------------
(* What a transfer can change.                                             *)

LEMMA FaultEffect ==
  ASSUME faults \in FaultCounts, NEW k \in AllFaults, Fault(k)
  PROVE  faults' \in FaultCounts
<1>1. AllTold < MaxFaults /\ faults' = [faults EXCEPT ![k] = @ + 1] /\ MaxFaults \in Nat
  BY FaultsAssumption DEF Fault
<1>2. \A j \in AllFaults : faults[j] \in 0..MaxFaults
  BY DEF FaultCounts
<1>3. faults[k] < MaxFaults
  BY <1>1, <1>2 DEF AllTold, AllFaults
<1> QED BY <1>1, <1>2, <1>3 DEF FaultCounts

(* A write changes the chip to the new value or not at all, and moves the  *)
(* context to one of two places.                                           *)
LEMMA WriteEffect ==
  ASSUME TypeOK, NEW a \in Contexts, NEW new \in Chips, NEW next \in Labels,
         NEW error \in Labels, Write(a, new, next, error)
  PROVE  /\ chip' \in Chips /\ chip' \in {chip, new} /\ (chip.reset => chip' = chip)
         /\ \E l \in {next, error} : at' = [at EXCEPT ![a] = l]
         /\ faults' \in FaultCounts
         /\ UNCHANGED <<open_streams, analog_boundary, lineout_volume_stage,
                        direct_output_running, lock, doing, image, old_cf, opened>>
  BY FaultEffect DEF TypeOK, AllFaults, Write, Goto, driver, rest

(* A read changes nothing, and goes on only if its condition holds.        *)
LEMMA ReadEffect ==
  ASSUME TypeOK, NEW a \in Contexts, NEW cond \in BOOLEAN, NEW next \in Labels,
         NEW error \in Labels, Read(a, cond, next, error)
  PROVE  /\ \E l \in {next, error} : /\ at' = [at EXCEPT ![a] = l]
                                     /\ next # error /\ l = next => cond /\ ~chip.reset
         /\ faults' \in FaultCounts
         /\ UNCHANGED <<chip, lock, doing, image, old_cf, opened>>
  BY FaultEffect DEF TypeOK, AllFaults, Read, Goto, rest

LEMMA ReadMoves ==
  ASSUME TypeOK, NEW a \in Contexts, NEW cond, NEW next \in Labels,
         NEW error \in Labels, Read(a, cond, next, error)
  PROVE  /\ \E l \in {next, error} : at' = [at EXCEPT ![a] = l]
         /\ faults' \in FaultCounts
         /\ UNCHANGED <<chip, lock, doing, image, old_cf, opened>>
  BY FaultEffect DEF TypeOK, AllFaults, Read, Goto, rest

-----------------------------------------------------------------------------
(* Every action preserves the strengthened invariant.                      *)

LEMMA DownloadReadyStep ==
  ASSUME IInv, DownloadReady
  PROVE  IInv'
<1> DEFINE new == [chip EXCEPT !.dlrdy = TRUE]
<1>1. /\ new \in Chips /\ new.reset = chip.reset /\ new.mem = chip.mem
      /\ new.run = chip.run /\ new.staged = chip.staged
  BY DEF IInv, TypeOK, Chips, Outputs, Cores, Volumes, ResetRegs, RouteRegs
<1>2. at["host"] = "dl_ready" /\ Write("host", new, "dl_send", "dl_err")
  BY DEF DownloadReady
<1> HIDE DEF new
<1>3. /\ chip' \in {chip, new} /\ faults' \in FaultCounts
      /\ chip' \in Chips /\ (chip.reset => chip' = chip)
      /\ UNCHANGED <<open_streams, analog_boundary, lineout_volume_stage,
                     direct_output_running, lock, doing, image, old_cf, opened>>
      /\ \E l \in {"dl_send", "dl_err"} : at' = [at EXCEPT !["host"] = l]
  <2>1. "host" \in Contexts /\ "dl_send" \in Labels /\ "dl_err" \in Labels /\ TypeOK
    BY DEF Contexts, Labels, IInv
  <2> QED BY <1>1, <1>2, <2>1, WriteEffect
<1>. chip'.run \in {chip.run, new.run} /\ chip'.reset = chip.reset /\ chip'.mem = chip.mem
  BY <1>1, <1>3
<1>4. PICK l \in {"dl_send", "dl_err"} : l \in Labels /\ at' = [at EXCEPT !["host"] = l]
  BY <1>3 DEF Labels
<1> USE <1>1, <1>2, <1>3, <1>4 DEF IInv, TypeOK, Contexts, HostInv,
  ProbeLabels, BindLabels, RunLabels, StopLabels, AfterProbeWrite, AfterRoute
<1>5. TypeOK'
  OBVIOUS
<1>6. LockInv'
  BY DEF LockInv, HoldsLock, Unlocked, GateInv, AllRequests, RequestLabels
<1>7. HostInv' /\ GateInv'
  BY DEF GateInv, RequestLabels
<1>8. ImageInv'
  BY DEF ImageInv
<1>9. FlagInv'
  BY DEF FlagInv, CountInv, Starting, Stopping, Runs, GateInv, RequestLabels, AllRequests
<1>10. CountInv'
  BY DEF CountInv
<1> QED BY <1>5, <1>6, <1>7, <1>8, <1>9, <1>10 DEF IInv

LEMMA RestoreStep ==
  ASSUME IInv, at["host"] = "dl_restore",
         Write("host", [chip EXCEPT !.dlrdy = old_cf], "dl_ok", "dl_err")
  PROVE  IInv'
<1> DEFINE new == [chip EXCEPT !.dlrdy = old_cf]
<1>1. /\ new \in Chips /\ new.reset = chip.reset /\ new.mem = chip.mem
      /\ new.run = chip.run /\ new.staged = chip.staged
  BY DEF IInv, TypeOK, Chips, Outputs, Cores, Volumes, ResetRegs, RouteRegs
<1>2. at["host"] = "dl_restore" /\ Write("host", new, "dl_ok", "dl_err")
  OBVIOUS
<1> HIDE DEF new
<1>3. /\ chip' \in {chip, new} /\ faults' \in FaultCounts
      /\ chip' \in Chips /\ (chip.reset => chip' = chip)
      /\ UNCHANGED <<open_streams, analog_boundary, lineout_volume_stage,
                     direct_output_running, lock, doing, image, old_cf, opened>>
      /\ \E l \in {"dl_ok", "dl_err"} : at' = [at EXCEPT !["host"] = l]
  <2>1. "host" \in Contexts /\ "dl_ok" \in Labels /\ "dl_err" \in Labels /\ TypeOK
    BY DEF Contexts, Labels, IInv
  <2> QED BY <1>1, <1>2, <2>1, WriteEffect
<1>. chip'.run \in {chip.run, new.run} /\ chip'.reset = chip.reset /\ chip'.mem = chip.mem
  BY <1>1, <1>3
<1>4. PICK l \in {"dl_ok", "dl_err"} : l \in Labels /\ at' = [at EXCEPT !["host"] = l]
  BY <1>3 DEF Labels
<1> USE <1>1, <1>2, <1>3, <1>4 DEF IInv, TypeOK, Contexts, HostInv,
  ProbeLabels, BindLabels, RunLabels, StopLabels, AfterProbeWrite, AfterRoute
<1>5. TypeOK'
  OBVIOUS
<1>6. LockInv'
  BY DEF LockInv, HoldsLock, Unlocked, GateInv, AllRequests, RequestLabels
<1>7. HostInv' /\ GateInv'
  BY DEF GateInv, RequestLabels
<1>8. ImageInv'
  BY DEF ImageInv
<1>9. FlagInv'
  BY DEF FlagInv, CountInv, Starting, Stopping, Runs, GateInv, RequestLabels, AllRequests
<1>10. CountInv'
  BY DEF CountInv
<1> QED BY <1>5, <1>6, <1>7, <1>8, <1>9, <1>10 DEF IInv

LEMMA UndoStep ==
  ASSUME IInv, at["host"] = "dl_undo",
         Write("host", [chip EXCEPT !.dlrdy = old_cf], "dl_err", "dl_err")
  PROVE  IInv'
<1> DEFINE new == [chip EXCEPT !.dlrdy = old_cf]
<1>1. /\ new \in Chips /\ new.reset = chip.reset /\ new.mem = chip.mem
      /\ new.run = chip.run /\ new.staged = chip.staged
  BY DEF IInv, TypeOK, Chips, Outputs, Cores, Volumes, ResetRegs, RouteRegs
<1>2. at["host"] = "dl_undo" /\ Write("host", new, "dl_err", "dl_err")
  OBVIOUS
<1> HIDE DEF new
<1>3. /\ chip' \in {chip, new} /\ faults' \in FaultCounts
      /\ chip' \in Chips /\ (chip.reset => chip' = chip)
      /\ UNCHANGED <<open_streams, analog_boundary, lineout_volume_stage,
                     direct_output_running, lock, doing, image, old_cf, opened>>
      /\ \E l \in {"dl_err"} : at' = [at EXCEPT !["host"] = l]
  <2>1. "host" \in Contexts /\ "dl_err" \in Labels /\ "dl_err" \in Labels /\ TypeOK
    BY DEF Contexts, Labels, IInv
  <2> QED BY <1>1, <1>2, <2>1, WriteEffect
<1>. chip'.run \in {chip.run, new.run} /\ chip'.reset = chip.reset /\ chip'.mem = chip.mem
  BY <1>1, <1>3
<1>4. PICK l \in {"dl_err"} : l \in Labels /\ at' = [at EXCEPT !["host"] = l]
  BY <1>3 DEF Labels
<1> USE <1>1, <1>2, <1>3, <1>4 DEF IInv, TypeOK, Contexts, HostInv,
  ProbeLabels, BindLabels, RunLabels, StopLabels, AfterProbeWrite, AfterRoute
<1>5. TypeOK'
  OBVIOUS
<1>6. LockInv'
  BY DEF LockInv, HoldsLock, Unlocked, GateInv, AllRequests, RequestLabels
<1>7. HostInv' /\ GateInv'
  BY DEF GateInv, RequestLabels
<1>8. ImageInv'
  BY DEF ImageInv
<1>9. FlagInv'
  BY DEF FlagInv, CountInv, Starting, Stopping, Runs, GateInv, RequestLabels, AllRequests
<1>10. CountInv'
  BY DEF CountInv
<1> QED BY <1>5, <1>6, <1>7, <1>8, <1>9, <1>10 DEF IInv

(* A write of RUN or of its power-down path.                               *)
LEMMA RunTransfer ==
  ASSUME IInv, doing["host"] = "prepare", at["host"] \in RunLabels,
         NEW new \in Chips, new.reset = chip.reset, new.mem = chip.mem,
         NEW next \in RunLabels, NEW error \in RunLabels,
         Write("host", new, next, error)
  PROVE  IInv'
<1>1. next \in Labels /\ error \in Labels /\ "host" \in Contexts /\ TypeOK
  BY DEF Labels, IInv, Contexts, RunLabels, StopLabels, BindLabels, RequestLabels, AfterRoute
<1>2. /\ chip' \in {chip, new} /\ faults' \in FaultCounts
      /\ chip' \in Chips /\ (chip.reset => chip' = chip)
      /\ \E l \in {next, error} : at' = [at EXCEPT !["host"] = l]
      /\ UNCHANGED <<open_streams, analog_boundary, lineout_volume_stage,
                     direct_output_running, lock, doing, image, old_cf, opened>>
  BY <1>1, WriteEffect
<1>3. PICK l \in RunLabels : l \in Labels /\ at' = [at EXCEPT !["host"] = l]
  BY <1>1, <1>2
<1>4. /\ chip'.reset = chip.reset /\ chip'.mem = chip.mem
      /\ (chip.reset => chip'.run = chip.run)
  BY <1>2
<1> USE <1>2, <1>3, <1>4 DEF IInv, TypeOK, Contexts, HostInv, ProbeLabels,
  BindLabels, RunLabels, StopLabels, AfterProbeWrite, AfterRoute
<1>5. TypeOK'
  OBVIOUS
<1>6. LockInv'
  BY DEF LockInv, HoldsLock, Unlocked, GateInv, AllRequests, RequestLabels
<1>7. HostInv' /\ GateInv'
  BY DEF GateInv, RequestLabels
<1>8. ImageInv'
  BY DEF ImageInv
<1>9. FlagInv'
  BY DEF FlagInv, CountInv, Starting, Stopping, Runs, GateInv, RequestLabels, AllRequests
<1>10. CountInv'
  BY DEF CountInv
<1> QED BY <1>5, <1>6, <1>7, <1>8, <1>9, <1>10 DEF IInv

(* A write of STANDBY.                                                     *)
LEMMA StandbyTransfer ==
  ASSUME IInv, doing["host"] = "shutdown", at["host"] \in StopLabels,
         NEW new \in Chips, new.reset = chip.reset, new.mem = chip.mem,
         NEW next \in StopLabels, NEW error \in StopLabels,
         Write("host", new, next, error)
  PROVE  IInv'
<1>1. next \in Labels /\ error \in Labels /\ "host" \in Contexts /\ TypeOK
  BY DEF Labels, IInv, Contexts, RunLabels, StopLabels, BindLabels, RequestLabels, AfterRoute
<1>2. /\ chip' \in {chip, new} /\ faults' \in FaultCounts
      /\ chip' \in Chips /\ (chip.reset => chip' = chip)
      /\ \E l \in {next, error} : at' = [at EXCEPT !["host"] = l]
      /\ UNCHANGED <<open_streams, analog_boundary, lineout_volume_stage,
                     direct_output_running, lock, doing, image, old_cf, opened>>
  BY <1>1, WriteEffect
<1>3. PICK l \in StopLabels : l \in Labels /\ at' = [at EXCEPT !["host"] = l]
  BY <1>1, <1>2
<1>4. /\ chip'.reset = chip.reset /\ chip'.mem = chip.mem
      /\ (chip.reset => chip'.run = chip.run)
  BY <1>2
<1> USE <1>2, <1>3, <1>4 DEF IInv, TypeOK, Contexts, HostInv, ProbeLabels,
  BindLabels, RunLabels, StopLabels, AfterProbeWrite, AfterRoute
<1>5. TypeOK'
  OBVIOUS
<1>6. LockInv'
  BY DEF LockInv, HoldsLock, Unlocked, GateInv, AllRequests, RequestLabels
<1>7. HostInv' /\ GateInv'
  BY DEF GateInv, RequestLabels
<1>8. ImageInv'
  BY DEF ImageInv
<1>9. FlagInv'
  BY DEF FlagInv, CountInv, Starting, Stopping, Runs, GateInv, RequestLabels, AllRequests
<1>10. CountInv'
  BY DEF CountInv
<1> QED BY <1>5, <1>6, <1>7, <1>8, <1>9, <1>10 DEF IInv

(* A write of the factory route.                                           *)
LEMMA BindTransfer ==
  ASSUME IInv, doing["host"] = "bind", at["host"] \in BindLabels \ {"lock"},
         NEW new \in Chips, new.reset = chip.reset, new.mem = chip.mem,
         new.run = chip.run,
         NEW next \in (BindLabels \ {"lock"}), NEW error \in (BindLabels \ {"lock"}),
         Write("host", new, next, error)
  PROVE  IInv'
<1>1. next \in Labels /\ error \in Labels /\ "host" \in Contexts /\ TypeOK
  BY DEF Labels, IInv, Contexts, RunLabels, StopLabels, BindLabels, RequestLabels, AfterRoute
<1>2. /\ chip' \in {chip, new} /\ faults' \in FaultCounts
      /\ chip' \in Chips /\ (chip.reset => chip' = chip)
      /\ \E l \in {next, error} : at' = [at EXCEPT !["host"] = l]
      /\ UNCHANGED <<open_streams, analog_boundary, lineout_volume_stage,
                     direct_output_running, lock, doing, image, old_cf, opened>>
  BY <1>1, WriteEffect
<1>3. PICK l \in (BindLabels \ {"lock"}) : l \in Labels /\ at' = [at EXCEPT !["host"] = l]
  BY <1>1, <1>2
<1>4. /\ chip'.reset = chip.reset /\ chip'.mem = chip.mem
      /\ (chip.reset => chip'.run = chip.run)
      /\ chip'.run = chip.run
  BY <1>2
<1> USE <1>2, <1>3, <1>4 DEF IInv, TypeOK, Contexts, HostInv, ProbeLabels,
  BindLabels, RunLabels, StopLabels, AfterProbeWrite, AfterRoute
<1>5. TypeOK'
  OBVIOUS
<1>6. LockInv'
  BY DEF LockInv, HoldsLock, Unlocked, GateInv, AllRequests, RequestLabels
<1>7. HostInv' /\ GateInv'
  BY DEF GateInv, RequestLabels
<1>8. ImageInv'
  BY DEF ImageInv
<1>9. FlagInv'
  BY DEF FlagInv, CountInv, Starting, Stopping, Runs, GateInv, RequestLabels, AllRequests
<1>10. CountInv'
  BY DEF CountInv
<1> QED BY <1>5, <1>6, <1>7, <1>8, <1>9, <1>10 DEF IInv

(* A write of a request; no request touches LO2, the clock or the route.   *)
LEMMA RequestTransfer ==
  ASSUME IInv, at["gate"] \in {"premute", "write"},
         NEW new \in Chips, new.reset = chip.reset, new.mem = chip.mem,
         new.run = chip.run, new.clock = chip.clock, new.staged = chip.staged,
         "LO2" \in chip.power => "LO2" \in new.power,
         NEW next \in (RequestLabels \ {"lock"}), NEW error \in (RequestLabels \ {"lock"}),
         Write("gate", new, next, error)
  PROVE  IInv'
<1>1. next \in Labels /\ error \in Labels /\ "gate" \in Contexts /\ TypeOK
  BY DEF Labels, IInv, Contexts, RunLabels, StopLabels, BindLabels, RequestLabels, AfterRoute
<1>2. /\ chip' \in {chip, new} /\ faults' \in FaultCounts
      /\ chip' \in Chips /\ (chip.reset => chip' = chip)
      /\ \E l \in {next, error} : at' = [at EXCEPT !["gate"] = l]
      /\ UNCHANGED <<open_streams, analog_boundary, lineout_volume_stage,
                     direct_output_running, lock, doing, image, old_cf, opened>>
  BY <1>1, WriteEffect
<1>3. PICK l \in (RequestLabels \ {"lock"}) : l \in Labels /\ at' = [at EXCEPT !["gate"] = l]
  BY <1>1, <1>2
<1>4. /\ chip'.reset = chip.reset /\ chip'.mem = chip.mem
      /\ (chip.reset => chip'.run = chip.run)
      /\ chip'.run = chip.run /\ chip'.clock = chip.clock /\ chip'.staged = chip.staged
      /\ ("LO2" \in chip.power => "LO2" \in chip'.power)
  BY <1>2
<1> USE <1>2, <1>3, <1>4 DEF IInv, TypeOK, Contexts, HostInv, ProbeLabels,
  BindLabels, RunLabels, StopLabels, AfterProbeWrite, AfterRoute
<1>5. TypeOK'
  OBVIOUS
<1>6. LockInv'
  BY DEF LockInv, HoldsLock, Unlocked, GateInv, AllRequests, RequestLabels
<1>7. HostInv' /\ GateInv'
  BY DEF GateInv, RequestLabels
<1>8. ImageInv'
  BY DEF ImageInv
<1>9. FlagInv'
  BY DEF FlagInv, CountInv, Starting, Stopping, Runs, GateInv, RequestLabels, AllRequests
<1>10. CountInv'
  BY DEF CountInv
<1> QED BY <1>5, <1>6, <1>7, <1>8, <1>9, <1>10 DEF IInv

LEMMA FmtVolumeStep ==
  ASSUME IInv, FmtVolume
  PROVE  IInv'
<1> DEFINE new == [chip EXCEPT !.volume = "0dB"]
<1>1. /\ new \in Chips /\ new.reset = chip.reset /\ new.mem = chip.mem
      /\ new.run = chip.run
  BY DEF IInv, TypeOK, Chips, Outputs, Cores, Volumes, ResetRegs, RouteRegs
<1>2. doing["host"] = "bind" /\ at["host"] = "D4" /\ Write("host", new, "mute", "err")
  BY DEF FmtVolume, Host
<1> HIDE DEF new
<1> QED BY <1>1, <1>2, BindTransfer DEF BindLabels

LEMMA FmtMuteStep ==
  ASSUME IInv, FmtMute
  PROVE  IInv'
<1> DEFINE new == [chip EXCEPT !.muted = TRUE]
<1>1. /\ new \in Chips /\ new.reset = chip.reset /\ new.mem = chip.mem
      /\ new.run = chip.run
  BY DEF IInv, TypeOK, Chips, Outputs, Cores, Volumes, ResetRegs, RouteRegs
<1>2. doing["host"] = "bind" /\ at["host"] = "mute" /\ Write("host", new, "ok", "err")
  BY DEF FmtMute, Host
<1> HIDE DEF new
<1> QED BY <1>1, <1>2, BindTransfer DEF BindLabels

LEMMA RunClockStep ==
  ASSUME IInv, RunClock
  PROVE  IInv'
<1> DEFINE new == [chip EXCEPT !.clock = TRUE]
<1>1. /\ new \in Chips /\ new.reset = chip.reset /\ new.mem = chip.mem
  BY DEF IInv, TypeOK, Chips, Outputs, Cores, Volumes, ResetRegs, RouteRegs
<1>2. /\ doing["host"] = "prepare" /\ at["host"] = "clock"
      /\ Write("host", new, "power", "err")
  BY DEF RunClock, Host
<1> HIDE DEF new
<1> QED BY <1>1, <1>2, RunTransfer DEF RunLabels

LEMMA RunPowerStep ==
  ASSUME IInv, RunPower
  PROVE  IInv'
<1> DEFINE new == [chip EXCEPT !.power = Outputs]
<1>1. /\ new \in Chips /\ new.reset = chip.reset /\ new.mem = chip.mem
  BY DEF IInv, TypeOK, Chips, Outputs, Cores, Volumes, ResetRegs, RouteRegs
<1>2. /\ doing["host"] = "prepare" /\ at["host"] = "power"
      /\ Write("host", new, "cores", "err")
  BY DEF RunPower, Host
<1> HIDE DEF new
<1> QED BY <1>1, <1>2, RunTransfer DEF RunLabels

LEMMA RunCoresStep ==
  ASSUME IInv, RunCores
  PROVE  IInv'
<1> DEFINE new == [chip EXCEPT !.run = Cores, !.dlrdy = FALSE]
<1>1. /\ new \in Chips /\ new.reset = chip.reset /\ new.mem = chip.mem
  BY DEF IInv, TypeOK, Chips, Outputs, Cores, Volumes, ResetRegs, RouteRegs
<1>2. /\ doing["host"] = "prepare" /\ at["host"] = "cores"
      /\ Write("host", new, "volume", "down_mute")
  BY DEF RunCores, Host, PowerDown
<1> HIDE DEF new
<1> QED BY <1>1, <1>2, RunTransfer DEF RunLabels

LEMMA RunVolumeStep ==
  ASSUME IInv, RunVolume
  PROVE  IInv'
<1> DEFINE new == [chip EXCEPT !.volume = "0dB"]
<1>1. /\ new \in Chips /\ new.reset = chip.reset /\ new.mem = chip.mem
  BY DEF IInv, TypeOK, Chips, Outputs, Cores, Volumes, ResetRegs, RouteRegs
<1>2. /\ doing["host"] = "prepare" /\ at["host"] = "volume"
      /\ Write("host", new, "unmute", "down_mute")
  BY DEF RunVolume, Host, PowerDown
<1> HIDE DEF new
<1> QED BY <1>1, <1>2, RunTransfer DEF RunLabels

LEMMA RunUnmuteStep ==
  ASSUME IInv, RunUnmute
  PROVE  IInv'
<1> DEFINE new == [chip EXCEPT !.muted = FALSE]
<1>1. /\ new \in Chips /\ new.reset = chip.reset /\ new.mem = chip.mem
  BY DEF IInv, TypeOK, Chips, Outputs, Cores, Volumes, ResetRegs, RouteRegs
<1>2. /\ doing["host"] = "prepare" /\ at["host"] = "unmute"
      /\ Write("host", new, "verify", "down_mute")
  BY DEF RunUnmute, Host, PowerDown
<1> HIDE DEF new
<1> QED BY <1>1, <1>2, RunTransfer DEF RunLabels

LEMMA DownMuteStep ==
  ASSUME IInv, DownMute
  PROVE  IInv'
<1> DEFINE new == [chip EXCEPT !.muted = TRUE]
<1>1. /\ new \in Chips /\ new.reset = chip.reset /\ new.mem = chip.mem
  BY DEF IInv, TypeOK, Chips, Outputs, Cores, Volumes, ResetRegs, RouteRegs
<1>2. /\ at["host"] = "down_mute" /\ doing["host"] = "prepare"
      /\ Write("host", new, "down_cores", "down_cores")
  BY DEF DownMute, IInv, HostInv, ProbeLabels, BindLabels, StopLabels,
    AfterProbeWrite, AfterRoute
<1> HIDE DEF new
<1> QED BY <1>1, <1>2, RunTransfer DEF RunLabels

LEMMA DownCoresStep ==
  ASSUME IInv, DownCores
  PROVE  IInv'
<1> DEFINE new == [chip EXCEPT !.run = {}]
<1>1. /\ new \in Chips /\ new.reset = chip.reset /\ new.mem = chip.mem
  BY DEF IInv, TypeOK, Chips, Outputs, Cores, Volumes, ResetRegs, RouteRegs
<1>2. /\ at["host"] = "down_cores" /\ doing["host"] = "prepare"
      /\ Write("host", new, "down_power", "down_power")
  BY DEF DownCores, IInv, HostInv, ProbeLabels, BindLabels, StopLabels,
    AfterProbeWrite, AfterRoute
<1> HIDE DEF new
<1> QED BY <1>1, <1>2, RunTransfer DEF RunLabels

LEMMA DownPowerStep ==
  ASSUME IInv, DownPower
  PROVE  IInv'
<1> DEFINE new == [chip EXCEPT !.power = {}]
<1>1. /\ new \in Chips /\ new.reset = chip.reset /\ new.mem = chip.mem
  BY DEF IInv, TypeOK, Chips, Outputs, Cores, Volumes, ResetRegs, RouteRegs
<1>2. /\ at["host"] = "down_power" /\ doing["host"] = "prepare"
      /\ Write("host", new, "err", "err")
  BY DEF DownPower, IInv, HostInv, ProbeLabels, BindLabels, StopLabels,
    AfterProbeWrite, AfterRoute
<1> HIDE DEF new
<1> QED BY <1>1, <1>2, RunTransfer DEF RunLabels

LEMMA StandbyMuteStep ==
  ASSUME IInv, StandbyMute
  PROVE  IInv'
<1> DEFINE new == [chip EXCEPT !.muted = TRUE]
<1>1. /\ new \in Chips /\ new.reset = chip.reset /\ new.mem = chip.mem
  BY DEF IInv, TypeOK, Chips, Outputs, Cores, Volumes, ResetRegs, RouteRegs
<1>2. /\ doing["host"] = "shutdown" /\ at["host"] = "mute"
      /\ Write("host", new, "cores", "err")
  BY DEF StandbyMute, Host, StandbyMuted
<1> HIDE DEF new
<1> QED BY <1>1, <1>2, StandbyTransfer DEF StopLabels

LEMMA StandbyCoresStep ==
  ASSUME IInv, StandbyCores
  PROVE  IInv'
<1> DEFINE new == [chip EXCEPT !.run = {}]
<1>1. /\ new \in Chips /\ new.reset = chip.reset /\ new.mem = chip.mem
  BY DEF IInv, TypeOK, Chips, Outputs, Cores, Volumes, ResetRegs, RouteRegs
<1>2. /\ doing["host"] = "shutdown" /\ at["host"] = "cores"
      /\ Write("host", new, "power", "err")
  BY DEF StandbyCores, Host
<1> HIDE DEF new
<1> QED BY <1>1, <1>2, StandbyTransfer DEF StopLabels

LEMMA StandbyPowerStep ==
  ASSUME IInv, StandbyPower
  PROVE  IInv'
<1> DEFINE new == [chip EXCEPT !.power = {}]
<1>1. /\ new \in Chips /\ new.reset = chip.reset /\ new.mem = chip.mem
  BY DEF IInv, TypeOK, Chips, Outputs, Cores, Volumes, ResetRegs, RouteRegs
<1>2. /\ doing["host"] = "shutdown" /\ at["host"] = "power"
      /\ Write("host", new, "verify", "err")
  BY DEF StandbyPower, Host
<1> HIDE DEF new
<1> QED BY <1>1, <1>2, StandbyTransfer DEF StopLabels

LEMMA RequestMuteStep ==
  ASSUME IInv, RequestMute
  PROVE  IInv'
<1> DEFINE new == [chip EXCEPT !.muted = TRUE]
<1>1. /\ new \in Chips /\ new.reset = chip.reset /\ new.mem = chip.mem
      /\ new.run = chip.run
      /\ new.clock = chip.clock /\ new.staged = chip.staged
      /\ ("LO2" \in chip.power => "LO2" \in new.power)
  BY DEF IInv, TypeOK, Chips, Outputs, Cores, Volumes, ResetRegs, RouteRegs
<1>2. at["gate"] = "premute" /\ Write("gate", new, "write", "err")
  BY DEF RequestMute
<1> HIDE DEF new
<1> QED BY <1>1, <1>2, RequestTransfer DEF RequestLabels

LEMMA RequestWriteStep ==
  ASSUME IInv, RequestWrite
  PROVE  IInv'
<1> DEFINE new == Requested(doing["gate"])
<1>1. /\ new \in Chips /\ new.reset = chip.reset /\ new.mem = chip.mem
      /\ new.run = chip.run
      /\ new.clock = chip.clock /\ new.staged = chip.staged
      /\ ("LO2" \in chip.power => "LO2" \in new.power)
  BY DEF IInv, TypeOK, Chips, Outputs, Cores, Volumes, ResetRegs, RouteRegs,
    Requested, Target
<1>2. at["gate"] = "write" /\ Write("gate", new, "verify", "err")
  BY DEF RequestWrite
<1> HIDE DEF new
<1> QED BY <1>1, <1>2, RequestTransfer DEF RequestLabels

LEMMA ProbeIdStep ==
  ASSUME IInv, ProbeId
  PROVE  IInv'
<1>1. /\ at["host"] = "id"
      /\ UNCHANGED <<open_streams, analog_boundary, lineout_volume_stage,
                     direct_output_running>>
      /\ \E cond : Read("host", cond, "CD", "assert")
  BY DEF ProbeId, driver
<1>r. "host" \in Contexts /\ "CD" \in Labels /\ "assert" \in Labels /\ TypeOK
  BY DEF Contexts, Labels, IInv, AfterProbeWrite, AfterRoute
<1>2. PICK l \in {"CD", "assert"} : l \in Labels /\ at' = [at EXCEPT !["host"] = l]
  BY <1>1, <1>r, ReadMoves
<1>3. /\ UNCHANGED <<open_streams, analog_boundary, lineout_volume_stage,
                     direct_output_running,
                     chip, lock, doing, image, old_cf, opened>>
      /\ faults' \in FaultCounts
  BY <1>1, <1>r, ReadMoves
<1> USE <1>1, <1>2, <1>3 DEF IInv, TypeOK, Contexts, HostInv, ProbeLabels,
  BindLabels, RunLabels, StopLabels, AfterProbeWrite, AfterRoute
<1>4. TypeOK'
  OBVIOUS
<1>5. LockInv'
  BY DEF LockInv, HoldsLock, Unlocked, GateInv, AllRequests, RequestLabels
<1>6. HostInv' /\ GateInv'
  BY DEF GateInv, RequestLabels
<1>7. ImageInv'
  BY DEF ImageInv
<1>8. FlagInv'
  BY DEF FlagInv, CountInv, Starting, Stopping, Runs, GateInv, RequestLabels, AllRequests
<1>9. CountInv'
  BY DEF CountInv
<1> QED BY <1>4, <1>5, <1>6, <1>7, <1>8, <1>9 DEF IInv

LEMMA ProbeContractStep ==
  ASSUME IInv, ProbeContract
  PROVE  IInv'
<1>1. /\ at["host"] = "contract"
      /\ UNCHANGED <<open_streams, analog_boundary, lineout_volume_stage,
                     direct_output_running>>
      /\ \E cond : Read("host", cond, "D0", "assert")
  BY DEF ProbeContract, driver
<1>r. "host" \in Contexts /\ "D0" \in Labels /\ "assert" \in Labels /\ TypeOK
  BY DEF Contexts, Labels, IInv, AfterProbeWrite, AfterRoute
<1>2. PICK l \in {"D0", "assert"} : l \in Labels /\ at' = [at EXCEPT !["host"] = l]
  BY <1>1, <1>r, ReadMoves
<1>3. /\ UNCHANGED <<open_streams, analog_boundary, lineout_volume_stage,
                     direct_output_running,
                     chip, lock, doing, image, old_cf, opened>>
      /\ faults' \in FaultCounts
  BY <1>1, <1>r, ReadMoves
<1> USE <1>1, <1>2, <1>3 DEF IInv, TypeOK, Contexts, HostInv, ProbeLabels,
  BindLabels, RunLabels, StopLabels, AfterProbeWrite, AfterRoute
<1>4. TypeOK'
  OBVIOUS
<1>5. LockInv'
  BY DEF LockInv, HoldsLock, Unlocked, GateInv, AllRequests, RequestLabels
<1>6. HostInv' /\ GateInv'
  BY DEF GateInv, RequestLabels
<1>7. ImageInv'
  BY DEF ImageInv
<1>8. FlagInv'
  BY DEF FlagInv, CountInv, Starting, Stopping, Runs, GateInv, RequestLabels, AllRequests
<1>9. CountInv'
  BY DEF CountInv
<1> QED BY <1>4, <1>5, <1>6, <1>7, <1>8, <1>9 DEF IInv

LEMMA FmtSnapshotStep ==
  ASSUME IInv, FmtSnapshot
  PROVE  IInv'
<1>1. /\ at["host"] = "entry" /\ doing["host"] = "bind"
      /\ UNCHANGED <<open_streams, analog_boundary, lineout_volume_stage,
                     direct_output_running>>
      /\ \E cond : Read("host", cond, "C0", "err")
  BY DEF FmtSnapshot, Host, driver
<1>r. "host" \in Contexts /\ "C0" \in Labels /\ "err" \in Labels /\ TypeOK
  BY DEF Contexts, Labels, IInv, AfterProbeWrite, AfterRoute
<1>2. PICK l \in {"C0", "err"} : l \in Labels /\ at' = [at EXCEPT !["host"] = l]
  BY <1>1, <1>r, ReadMoves
<1>3. /\ UNCHANGED <<open_streams, analog_boundary, lineout_volume_stage,
                     direct_output_running,
                     chip, lock, doing, image, old_cf, opened>>
      /\ faults' \in FaultCounts
  BY <1>1, <1>r, ReadMoves
<1> USE <1>1, <1>2, <1>3 DEF IInv, TypeOK, Contexts, HostInv, ProbeLabels,
  BindLabels, RunLabels, StopLabels, AfterProbeWrite, AfterRoute
<1>4. TypeOK'
  OBVIOUS
<1>5. LockInv'
  BY DEF LockInv, HoldsLock, Unlocked, GateInv, AllRequests, RequestLabels
<1>6. HostInv' /\ GateInv'
  BY DEF GateInv, RequestLabels
<1>7. ImageInv'
  BY DEF ImageInv
<1>8. FlagInv'
  BY DEF FlagInv, CountInv, Starting, Stopping, Runs, GateInv, RequestLabels, AllRequests
<1>9. CountInv'
  BY DEF CountInv
<1> QED BY <1>4, <1>5, <1>6, <1>7, <1>8, <1>9 DEF IInv

LEMMA RequestCheckStep ==
  ASSUME IInv, RequestCheck
  PROVE  IInv'
<1>1. /\ at["gate"] = "check"
      /\ UNCHANGED <<open_streams, analog_boundary, lineout_volume_stage,
                     direct_output_running>>
      /\ \E cond : Read("gate", cond, "write", "err")
  BY DEF RequestCheck, driver
<1>r. "gate" \in Contexts /\ "write" \in Labels /\ "err" \in Labels /\ TypeOK
  BY DEF Contexts, Labels, IInv, AfterProbeWrite, AfterRoute
<1>2. PICK l \in {"write", "err"} : l \in Labels /\ at' = [at EXCEPT !["gate"] = l]
  BY <1>1, <1>r, ReadMoves
<1>3. /\ UNCHANGED <<open_streams, analog_boundary, lineout_volume_stage,
                     direct_output_running,
                     chip, lock, doing, image, old_cf, opened>>
      /\ faults' \in FaultCounts
  BY <1>1, <1>r, ReadMoves
<1> USE <1>1, <1>2, <1>3 DEF IInv, TypeOK, Contexts, HostInv, ProbeLabels,
  BindLabels, RunLabels, StopLabels, AfterProbeWrite, AfterRoute
<1>4. TypeOK'
  OBVIOUS
<1>5. LockInv'
  BY DEF LockInv, HoldsLock, Unlocked, GateInv, AllRequests, RequestLabels
<1>6. HostInv' /\ GateInv'
  BY DEF GateInv, RequestLabels
<1>7. ImageInv'
  BY DEF ImageInv
<1>8. FlagInv'
  BY DEF FlagInv, CountInv, Starting, Stopping, Runs, GateInv, RequestLabels, AllRequests
<1>9. CountInv'
  BY DEF CountInv
<1> QED BY <1>4, <1>5, <1>6, <1>7, <1>8, <1>9 DEF IInv

LEMMA ProbeWriteStep ==
  ASSUME IInv, ProbeWrite
  PROVE  IInv'
<1>1. PICK r \in DOMAIN AfterProbeWrite :
        /\ at["host"] = r /\ doing["host"] = "probe"
        /\ Write("host", ProbeWritten(r), AfterProbeWrite[r], "assert")
  BY DEF ProbeWrite
<1> DEFINE new == ProbeWritten(r)
<1>2. /\ new \in Chips /\ new.reset = chip.reset /\ new.mem = chip.mem /\ new.run = chip.run
  BY DEF IInv, TypeOK, Chips, Outputs, Cores, Volumes, ResetRegs, RouteRegs, ProbeWritten
<1> HIDE DEF new
<1>3. AfterProbeWrite[r] \in {"DA", "E6", "EA", "contract", "C3", "C4", "request"}
  BY DEF AfterProbeWrite
<1>4. /\ chip' \in {chip, new} /\ faults' \in FaultCounts
      /\ chip' \in Chips /\ (chip.reset => chip' = chip)
      /\ UNCHANGED <<open_streams, analog_boundary, lineout_volume_stage,
                     direct_output_running, lock, doing, image, old_cf, opened>>
      /\ \E l \in {AfterProbeWrite[r], "assert"} : at' = [at EXCEPT !["host"] = l]
  BY <1>1, <1>2, <1>3, WriteEffect DEF IInv, Labels, Contexts, AfterProbeWrite, new
<1>5. PICK l \in {"DA", "E6", "EA", "contract", "C3", "C4", "request", "assert"} :
        l \in Labels /\ at' = [at EXCEPT !["host"] = l]
  BY <1>3, <1>4 DEF Labels, AfterProbeWrite
<1>6. chip'.run = chip.run /\ chip'.reset = chip.reset /\ chip'.mem = chip.mem
  BY <1>2, <1>4
<1> USE <1>1, <1>4, <1>5, <1>6 DEF IInv, TypeOK, Contexts, HostInv,
  ProbeLabels, BindLabels, RunLabels, StopLabels, AfterProbeWrite, AfterRoute
<1>7. TypeOK'
  OBVIOUS
<1>8. LockInv'
  BY DEF LockInv, HoldsLock, Unlocked, GateInv, AllRequests, RequestLabels
<1>9. HostInv' /\ GateInv'
  BY DEF GateInv, RequestLabels
<1>10. ImageInv'
  BY DEF ImageInv
<1>11. FlagInv'
  BY DEF FlagInv, CountInv, Starting, Stopping, Runs, GateInv, RequestLabels, AllRequests
<1>12. CountInv'
  BY DEF CountInv
<1> QED BY <1>7, <1>8, <1>9, <1>10, <1>11, <1>12 DEF IInv

LEMMA FmtRouteStep ==
  ASSUME IInv, FmtRoute
  PROVE  IInv'
<1>1. PICK r \in DOMAIN AfterRoute :
        /\ at["host"] = r /\ doing["host"] = "bind"
        /\ Write("host", [chip EXCEPT !.staged = @ \cup {r}, !.clock = @ /\ r # "C1"],
                 AfterRoute[r], "err")
  BY DEF FmtRoute, Host
<1> DEFINE new == [chip EXCEPT !.staged = @ \cup {r}, !.clock = @ /\ r # "C1"]
<1>2. /\ new \in Chips /\ new.reset = chip.reset /\ new.mem = chip.mem /\ new.run = chip.run
  BY DEF IInv, TypeOK, Chips, Outputs, Cores, Volumes, ResetRegs, RouteRegs, AfterRoute
<1>3. Write("host", new, AfterRoute[r], "err")
  BY <1>1
<1> HIDE DEF new
<1>4. AfterRoute[r] \in BindLabels \ {"lock"} /\ at["host"] \in BindLabels \ {"lock"}
  BY <1>1 DEF AfterRoute, BindLabels
<1>5. "err" \in BindLabels \ {"lock"}
  BY DEF BindLabels
<1> QED BY <1>1, <1>2, <1>3, <1>4, <1>5, BindTransfer

LEMMA DownloadRestoreStep ==
  ASSUME IInv, DownloadRestore
  PROVE  IInv'
  BY RestoreStep, UndoStep DEF DownloadRestore

LEMMA DownloadCrcStep ==
  ASSUME IInv, DownloadCrc
  PROVE  IInv'
<1>1. /\ at["host"] = "dl_crc" /\ Read("host", CrcMatches, "dl_restore", "dl_undo")
      /\ UNCHANGED <<open_streams, analog_boundary, lineout_volume_stage,
                     direct_output_running>>
  BY DEF DownloadCrc, driver
<1>2. "host" \in Contexts /\ "dl_restore" \in Labels /\ "dl_undo" \in Labels /\ TypeOK
  BY DEF Contexts, Labels, IInv
<1>3. CrcMatches \in BOOLEAN /\ (CrcMatches => chip.mem[Order[image]] = "good")
  BY DEF CrcMatches
<1>4. /\ UNCHANGED <<open_streams, analog_boundary, lineout_volume_stage,
                     direct_output_running, chip, lock, doing, image, old_cf, opened>>
      /\ faults' \in FaultCounts
  BY <1>1, <1>2, <1>3, ReadEffect
<1>5. PICK l \in {"dl_restore", "dl_undo"} :
        /\ l \in Labels /\ at' = [at EXCEPT !["host"] = l]
        /\ l = "dl_restore" => chip.mem[Order[image]] = "good"
  BY <1>1, <1>2, <1>3, ReadEffect
<1>6. at["host"] = "dl_crc"
  BY <1>1
<1> USE <1>4, <1>5, <1>6 DEF IInv, TypeOK, Contexts, HostInv, ProbeLabels,
  BindLabels, RunLabels, StopLabels, AfterProbeWrite, AfterRoute
<1>7. TypeOK'
  OBVIOUS
<1>8. LockInv'
  BY DEF LockInv, HoldsLock, Unlocked, GateInv, AllRequests, RequestLabels
<1>9. HostInv' /\ GateInv'
  BY DEF GateInv, RequestLabels
<1>10. ImageInv'
  BY DEF ImageInv
<1>11. FlagInv'
  BY DEF FlagInv, CountInv, Starting, Stopping, Runs, GateInv, RequestLabels, AllRequests
<1>12. CountInv'
  BY DEF CountInv
<1> QED BY <1>7, <1>8, <1>9, <1>10, <1>11, <1>12 DEF IInv

LEMMA RunVerifyStep ==
  ASSUME IInv, RunVerify
  PROVE  IInv'
<1>1. /\ Host("prepare", "verify") /\ Read("host", RunVerified, "ok", "down_mute")
      /\ direct_output_running' = (at'["host"] = "ok") /\ open_streams' = open_streams
      /\ analog_boundary' \in {0, analog_boundary}
      /\ lineout_volume_stage' \in {0, lineout_volume_stage}
  BY DEF RunVerify, PowerDown
<1>2. "host" \in Contexts /\ "ok" \in Labels /\ "down_mute" \in Labels /\ TypeOK
  BY DEF Contexts, Labels, IInv
<1>3. /\ RunVerified \in BOOLEAN
      /\ RunVerified => Runs
  BY DEF RunVerified, Contract, Runs, Outputs
<1>4. UNCHANGED <<chip, lock, doing, image, old_cf, opened>> /\ faults' \in FaultCounts
  BY <1>1, <1>2, <1>3, ReadEffect
<1>5. PICK l \in {"ok", "down_mute"} :
        l \in Labels /\ at' = [at EXCEPT !["host"] = l] /\ (l = "ok" => Runs)
  BY <1>1, <1>2, <1>3, ReadEffect
<1>6. at["host"] = "verify" /\ doing["host"] = "prepare"
  BY <1>1 DEF Host
<1>7. /\ \/ l = "ok" /\ direct_output_running' = TRUE
         \/ l = "down_mute" /\ direct_output_running' = FALSE
      /\ open_streams' = open_streams
      /\ analog_boundary' \in {0, analog_boundary}
      /\ lineout_volume_stage' \in {0, lineout_volume_stage}
  BY <1>1, <1>5, <1>2 DEF TypeOK
<1>. direct_output_running' \in BOOLEAN /\ (direct_output_running' <=> l = "ok")
  BY <1>7, Zenon
<1>. /\ analog_boundary' \in 0..2 /\ lineout_volume_stage' \in 0..2
     /\ open_streams' = open_streams /\ (Runs' <=> Runs)
  BY <1>2, <1>4, <1>7 DEF TypeOK, Runs
<1> USE <1>4, <1>5, <1>6 DEF IInv, TypeOK, Contexts, HostInv, ProbeLabels,
  BindLabels, RunLabels, StopLabels, AfterProbeWrite, AfterRoute
<1>8. TypeOK'
  OBVIOUS
<1>9. LockInv'
  BY DEF LockInv, HoldsLock, Unlocked, GateInv, AllRequests, RequestLabels
<1>10. HostInv' /\ GateInv'
  BY DEF GateInv, RequestLabels
<1>11. ImageInv'
  BY DEF ImageInv
<1>12. FlagInv'
  BY DEF FlagInv, CountInv, Starting, Stopping, Runs, GateInv, RequestLabels, AllRequests
<1>13. CountInv'
  BY DEF CountInv
<1> QED BY <1>8, <1>9, <1>10, <1>11, <1>12, <1>13 DEF IInv

LEMMA StandbyVerifyStep ==
  ASSUME IInv, StandbyVerify
  PROVE  IInv'
<1>1. /\ Host("shutdown", "verify")
      /\ Read("host", chip.power = {} /\ chip.run = {}, "ok", "err")
      /\ direct_output_running' = (at'["host"] # "ok") /\ open_streams' = open_streams
      /\ analog_boundary' \in {0, analog_boundary}
      /\ lineout_volume_stage' \in {0, lineout_volume_stage}
  BY DEF StandbyVerify, StandbyFlag
<1>2. /\ "host" \in Contexts /\ "ok" \in Labels /\ "err" \in Labels /\ TypeOK
  BY DEF Contexts, Labels, IInv
<1>3. UNCHANGED <<chip, lock, doing, image, old_cf, opened>> /\ faults' \in FaultCounts
  BY <1>1, <1>2, ReadMoves
<1>4. PICK l \in {"ok", "err"} : l \in Labels /\ at' = [at EXCEPT !["host"] = l]
  BY <1>1, <1>2, ReadMoves
<1>5. at["host"] = "verify" /\ doing["host"] = "shutdown"
  BY <1>1 DEF Host
<1>6. /\ \/ l = "ok" /\ direct_output_running' = FALSE
         \/ l = "err" /\ direct_output_running' = TRUE
      /\ open_streams' = open_streams
      /\ analog_boundary' \in {0, analog_boundary}
      /\ lineout_volume_stage' \in {0, lineout_volume_stage}
  BY <1>1, <1>4, <1>2 DEF TypeOK
<1>. direct_output_running' \in BOOLEAN /\ (direct_output_running' <=> l = "err")
  BY <1>6, Zenon
<1>. /\ analog_boundary' \in 0..2 /\ lineout_volume_stage' \in 0..2
     /\ open_streams' = open_streams
  BY <1>2, <1>6 DEF TypeOK
<1> USE <1>3, <1>4, <1>5 DEF IInv, TypeOK, Contexts, HostInv, ProbeLabels,
  BindLabels, RunLabels, StopLabels, AfterProbeWrite, AfterRoute
<1>7. TypeOK'
  OBVIOUS
<1>8. LockInv'
  BY DEF LockInv, HoldsLock, Unlocked, GateInv, AllRequests, RequestLabels
<1>9. HostInv' /\ GateInv'
  BY DEF GateInv, RequestLabels
<1>10. ImageInv'
  BY DEF ImageInv
<1>11. FlagInv'
  BY DEF FlagInv, CountInv, Starting, Stopping, Runs, GateInv, RequestLabels, AllRequests
<1>12. CountInv'
  BY DEF CountInv
<1> QED BY <1>7, <1>8, <1>9, <1>10, <1>11, <1>12 DEF IInv

LEMMA RequestVerifyStep ==
  ASSUME IInv, RequestVerify
  PROVE  IInv'
<1>1. /\ at["gate"] = "verify"
      /\ Read("gate", RequestHolds(doing["gate"]), "ok", "err")
      /\ UNCHANGED <<open_streams, direct_output_running>>
      /\ analog_boundary' \in {1, 2, analog_boundary}
      /\ lineout_volume_stage' \in {1, 2, lineout_volume_stage}
  BY DEF RequestVerify, Boundary, Stage
<1>2. "gate" \in Contexts /\ "ok" \in Labels /\ "err" \in Labels /\ TypeOK
  BY DEF Contexts, Labels, IInv
<1>3. UNCHANGED <<chip, lock, doing, image, old_cf, opened>> /\ faults' \in FaultCounts
  BY <1>1, <1>2, ReadMoves
<1>4. PICK l \in {"ok", "err"} : l \in Labels /\ at' = [at EXCEPT !["gate"] = l]
  BY <1>1, <1>2, ReadMoves
<1>5. /\ at["gate"] = "verify" /\ UNCHANGED <<open_streams, direct_output_running>>
      /\ analog_boundary' \in {1, 2, analog_boundary}
      /\ lineout_volume_stage' \in {1, 2, lineout_volume_stage}
  BY <1>1
<1> USE <1>3, <1>4, <1>5 DEF IInv, TypeOK, Contexts, HostInv, ProbeLabels,
  BindLabels, RunLabels, StopLabels, AfterProbeWrite, AfterRoute
<1>6. TypeOK'
  OBVIOUS
<1>7. LockInv'
  BY DEF LockInv, HoldsLock, Unlocked, GateInv, AllRequests, RequestLabels
<1>8. HostInv' /\ GateInv'
  BY DEF GateInv, RequestLabels
<1>9. ImageInv'
  BY DEF ImageInv
<1>10. FlagInv'
  BY DEF FlagInv, CountInv, Starting, Stopping, Runs, GateInv, RequestLabels, AllRequests
<1>11. CountInv'
  BY DEF CountInv
<1> QED BY <1>6, <1>7, <1>8, <1>9, <1>10, <1>11 DEF IInv

LEMMA DownloadSendStep ==
  ASSUME IInv, DownloadSend
  PROVE  IInv'
<1> DEFINE good == [chip EXCEPT !.mem[Order[image]] = "good"]
           bad  == [chip EXCEPT !.mem[Order[image]] = "bad"]
<1>1. at["host"] = "dl_send" /\ doing["host"] = "probe" /\ image \in 1..Last /\ Last \in Nat
  BY ImagesAssumption DEF DownloadSend, IInv, HostInv, ImageInv, TypeOK, BindLabels, RunLabels,
     StopLabels, AfterRoute
<1>2. /\ good \in Chips /\ bad \in Chips
      /\ good.mem = [chip.mem EXCEPT ![Order[image]] = "good"]
      /\ bad.mem = [chip.mem EXCEPT ![Order[image]] = "bad"]
      /\ good.reset = chip.reset /\ bad.reset = chip.reset
      /\ good.run = chip.run /\ bad.run = chip.run
  BY <1>1, ImagesAssumption DEF IInv, TypeOK, Chips, Outputs, Cores, Volumes, ResetRegs, RouteRegs
<1>3. \A n \in 1..(image - 1) :
        chip.mem[Order[n]] = "good" => good.mem[Order[n]] = "good" /\ bad.mem[Order[n]] = "good"
  <2> TAKE n \in 1..(image - 1)
  <2>1. n \in 1..Last /\ n # image /\ image \in 1..Last
    BY <1>1
  <2>2. Order[n] # Order[image] /\ Order[n] \in Images
    BY <2>1, ImagesAssumption
  <2>3. chip.mem \in [Images -> {"none", "good", "bad"}]
    BY DEF IInv, TypeOK, Chips
  <2> QED BY <1>2, <2>2, <2>3
<1>4. /\ chip' \in {chip, good, bad} /\ faults' \in FaultCounts
      /\ UNCHANGED <<open_streams, analog_boundary, lineout_volume_stage,
                     direct_output_running, lock, doing, image, old_cf, opened>>
      /\ \E l \in {"dl_crc", "dl_undo"} : at' = [at EXCEPT !["host"] = l]
  BY FaultEffect DEF DownloadSend, driver, rest, Goto, AllFaults, IInv, TypeOK
<1>5. PICK l \in {"dl_crc", "dl_undo"} : l \in Labels /\ at' = [at EXCEPT !["host"] = l]
  BY <1>4 DEF Labels
<1> HIDE DEF good, bad
<1>6. /\ chip' \in Chips /\ chip'.run = chip.run /\ chip'.reset = chip.reset
      /\ \A n \in 1..(image - 1) : chip.mem[Order[n]] = "good" => chip'.mem[Order[n]] = "good"
  BY <1>2, <1>3, <1>4 DEF IInv, TypeOK
<1> USE <1>1, <1>4, <1>5, <1>6 DEF IInv, TypeOK, Contexts, HostInv,
  ProbeLabels, BindLabels, RunLabels, StopLabels, AfterProbeWrite, AfterRoute
<1>7. TypeOK'
  OBVIOUS
<1>8. LockInv'
  BY DEF LockInv, HoldsLock, Unlocked, GateInv, AllRequests, RequestLabels
<1>9. HostInv' /\ GateInv'
  BY DEF GateInv, RequestLabels
<1>10. ImageInv'
  BY DEF ImageInv
<1>11. FlagInv'
  BY DEF FlagInv, CountInv, Starting, Stopping, Runs, GateInv, RequestLabels, AllRequests
<1>12. CountInv'
  BY DEF CountInv
<1> QED BY <1>7, <1>8, <1>9, <1>10, <1>11, <1>12 DEF IInv

LEMMA ProbePowerUpStep ==
  ASSUME IInv, ProbePowerUp
  PROVE  IInv'
<1>1. /\ at["host"] = "pdn" /\ chip' = PowerOn /\ at' = [at EXCEPT !["host"] = "id"]
      /\ UNCHANGED <<open_streams, analog_boundary, lineout_volume_stage,
                     direct_output_running, lock, doing, image, old_cf, opened, faults>>
  BY DEF ProbePowerUp, Goto, driver, rest
<1>2. /\ chip' \in Chips /\ ~chip'.reset /\ chip'.run = {}
  BY <1>1 DEF PowerOn, Chips, Outputs, Cores, Volumes, ResetRegs, RouteRegs
<1>3. at["host"] = "pdn" /\ "id" \in Labels /\ at' = [at EXCEPT !["host"] = "id"]
  BY <1>1 DEF Labels
<1>4. UNCHANGED <<open_streams, analog_boundary, lineout_volume_stage,
                  direct_output_running, lock, doing, image, old_cf, opened, faults>>
  BY <1>1
<1>5. image = 1 /\ image' = 1
  BY <1>1 DEF IInv, ImageInv, HostInv, BindLabels, RunLabels, StopLabels, AfterRoute
<1> USE <1>2, <1>3, <1>4, <1>5 DEF IInv, TypeOK, Contexts, HostInv,
  ProbeLabels, BindLabels, RunLabels, StopLabels, AfterProbeWrite, AfterRoute
<1>6. TypeOK'
  OBVIOUS
<1>7. LockInv'
  BY DEF LockInv, HoldsLock, Unlocked, GateInv, AllRequests, RequestLabels
<1>8. HostInv' /\ GateInv'
  BY DEF GateInv, RequestLabels
<1>9. ImageInv'
  BY DEF ImageInv
<1>10. FlagInv'
  BY DEF FlagInv, CountInv, Starting, Stopping, Runs, GateInv, RequestLabels, AllRequests
<1>11. CountInv'
  BY DEF CountInv
<1> QED BY <1>6, <1>7, <1>8, <1>9, <1>10, <1>11 DEF IInv

LEMMA RequestStep ==
  ASSUME IInv, Request
  PROVE  IInv'
<1>1. /\ at["host"] = "request"
      /\ UNCHANGED <<chip, open_streams, analog_boundary, lineout_volume_stage,
                     direct_output_running, lock, doing, image, old_cf, opened, faults>>
  BY DEF Request, driver, rest
<1>2. PICK l \in {"dl_lock", "assert"} : l \in Labels /\ at' = [at EXCEPT !["host"] = l]
  BY DEF Request, Goto, Labels
<1> USE <1>1, <1>2 DEF IInv, TypeOK, Contexts, HostInv, ProbeLabels,
  BindLabels, RunLabels, StopLabels, AfterProbeWrite, AfterRoute
<1>3. TypeOK'
  OBVIOUS
<1>4. LockInv'
  BY DEF LockInv, HoldsLock, Unlocked, GateInv, AllRequests, RequestLabels
<1>5. HostInv' /\ GateInv'
  BY DEF GateInv, RequestLabels
<1>6. ImageInv'
  BY DEF ImageInv
<1>7. FlagInv'
  BY DEF FlagInv, CountInv, Starting, Stopping, Runs, GateInv, RequestLabels, AllRequests
<1>8. CountInv'
  BY DEF CountInv
<1> QED BY <1>3, <1>4, <1>5, <1>6, <1>7, <1>8 DEF IInv

LEMMA DownloadLockStep ==
  ASSUME IInv, DownloadLock
  PROVE  IInv'
<1>1. /\ at["host"] = "dl_lock" /\ lock = Nobody /\ lock' = "host"
      /\ "dl_cf" \in Labels /\ at' = [at EXCEPT !["host"] = "dl_cf"]
      /\ UNCHANGED <<chip, open_streams, analog_boundary, lineout_volume_stage,
                     direct_output_running, doing, image, old_cf, opened, faults>>
  BY DEF DownloadLock, Goto, driver, rest, Labels
<1> USE <1>1, NobodyAssumption DEF IInv, TypeOK, Contexts, HostInv,
  ProbeLabels, BindLabels, RunLabels, StopLabels, AfterProbeWrite, AfterRoute
<1>2. TypeOK'
  OBVIOUS
<1>3. LockInv'
  BY DEF LockInv, HoldsLock, Unlocked, GateInv, AllRequests, RequestLabels
<1>4. HostInv' /\ GateInv'
  BY DEF GateInv, RequestLabels
<1>5. ImageInv'
  BY DEF ImageInv
<1>6. FlagInv'
  BY DEF FlagInv, CountInv, Starting, Stopping, Runs, GateInv, RequestLabels, AllRequests
<1>7. CountInv'
  BY DEF CountInv
<1> QED BY <1>2, <1>3, <1>4, <1>5, <1>6, <1>7 DEF IInv

LEMMA DownloadSaveCfStep ==
  ASSUME IInv, DownloadSaveCf
  PROVE  IInv'
<1>1. /\ at["host"] = "dl_cf" /\ old_cf' \in BOOLEAN /\ faults' \in FaultCounts
      /\ UNCHANGED <<chip, open_streams, analog_boundary, lineout_volume_stage,
                     direct_output_running, lock, doing, image, opened>>
  BY FaultEffect DEF DownloadSaveCf, driver, AllFaults, IInv, TypeOK, Chips
<1>2. PICK l \in {"dl_ready", "dl_err"} : l \in Labels /\ at' = [at EXCEPT !["host"] = l]
  BY DEF DownloadSaveCf, Goto, Labels
<1> USE <1>1, <1>2 DEF IInv, TypeOK, Contexts, HostInv, ProbeLabels,
  BindLabels, RunLabels, StopLabels, AfterProbeWrite, AfterRoute
<1>3. TypeOK'
  OBVIOUS
<1>4. LockInv'
  BY DEF LockInv, HoldsLock, Unlocked, GateInv, AllRequests, RequestLabels
<1>5. HostInv' /\ GateInv'
  BY DEF GateInv, RequestLabels
<1>6. ImageInv'
  BY DEF ImageInv
<1>7. FlagInv'
  BY DEF FlagInv, CountInv, Starting, Stopping, Runs, GateInv, RequestLabels, AllRequests
<1>8. CountInv'
  BY DEF CountInv
<1> QED BY <1>3, <1>4, <1>5, <1>6, <1>7, <1>8 DEF IInv

LEMMA DownloadUnlockStep ==
  ASSUME IInv, DownloadUnlock
  PROVE  IInv'
<1>1. /\ at["host"] \in {"dl_ok", "dl_err"} /\ lock' = Nobody
      /\ image' = IF at["host"] = "dl_ok" THEN image + 1 ELSE image
      /\ UNCHANGED <<chip, open_streams, analog_boundary, lineout_volume_stage,
                     direct_output_running, doing, old_cf, opened, faults>>
  BY DEF DownloadUnlock, driver
<1>2. doing["host"] = "probe" /\ lock = "host" /\ image \in 1..Last /\ Last \in Nat
  BY <1>1, ImagesAssumption DEF IInv, LockInv, HoldsLock, Unlocked, Contexts, HostInv, ImageInv,
     TypeOK, AfterProbeWrite, BindLabels, RunLabels, StopLabels, AfterRoute
<1>3. PICK l \in {"assert", "request", "register"} :
        /\ l \in Labels /\ at' = [at EXCEPT !["host"] = l]
        /\ l = "register" => at["host"] = "dl_ok" /\ ~(image < Last)
        /\ l = "request" => image < Last
        /\ at["host"] = "dl_ok" => l # "assert"
  BY DEF DownloadUnlock, Goto, Labels
<1>4. image' \in 1..(Last + 1) /\ (image' = Last + 1 => l = "register")
      /\ (l = "register" => image' = Last + 1)
  BY <1>1, <1>2, <1>3
<1>5. \A n \in 1..(image' - 1) : ~chip.reset => chip.mem[Order[n]] = "good"
  BY <1>1, <1>2 DEF IInv, ImageInv
<1> USE <1>1, <1>2, <1>3, <1>4, <1>5, NobodyAssumption DEF IInv, TypeOK,
  Contexts, HostInv, ProbeLabels, BindLabels, RunLabels, StopLabels,
  AfterProbeWrite, AfterRoute
<1>6. TypeOK'
  OBVIOUS
<1>7. LockInv'
  BY DEF LockInv, HoldsLock, Unlocked, GateInv, AllRequests, RequestLabels
<1>8. HostInv' /\ GateInv'
  BY DEF GateInv, RequestLabels
<1>9. ImageInv'
  BY DEF ImageInv
<1>10. FlagInv'
  BY DEF FlagInv, CountInv, Starting, Stopping, Runs, GateInv, RequestLabels, AllRequests
<1>11. CountInv'
  BY DEF CountInv
<1> QED BY <1>6, <1>7, <1>8, <1>9, <1>10, <1>11 DEF IInv

LEMMA RegisterStep ==
  ASSUME IInv, Register
  PROVE  IInv'
<1>1. /\ at["host"] = "register"
      /\ UNCHANGED <<chip, open_streams, analog_boundary, lineout_volume_stage,
                     direct_output_running, lock, image, old_cf, opened, faults>>
  BY DEF Register, driver, rest
<1>2. doing["host"] = "probe"
  BY <1>1 DEF IInv, HostInv, BindLabels, RunLabels, StopLabels, AfterRoute
<1>3. PICK l \in {"unbound", "assert"} :
        /\ l \in Labels /\ at' = [at EXCEPT !["host"] = l]
        /\ l = "unbound" => doing' = [doing EXCEPT !["host"] = "none"]
        /\ l = "assert" => doing' = doing
  BY DEF Register, Goto, Labels
<1>4. chip.reset \/ \A i \in Images : chip.mem[i] = "good"
  <2>1. image = Last + 1 /\ Last \in Nat
    BY <1>1, <1>2, ImagesAssumption DEF IInv, ImageInv
  <2>2. \A n \in 1..Last : ~chip.reset => chip.mem[Order[n]] = "good"
    BY <1>2, <2>1 DEF IInv, ImageInv
  <2>3. \A i \in Images : \E n \in 1..Last : Order[n] = i
    BY ImagesAssumption
  <2> QED BY <2>2, <2>3
<1> USE <1>1, <1>2, <1>3, <1>4 DEF IInv, TypeOK, Contexts, HostInv,
  ProbeLabels, BindLabels, RunLabels, StopLabels, AfterProbeWrite, AfterRoute
<1>5. TypeOK'
  OBVIOUS
<1>6. LockInv'
  BY DEF LockInv, HoldsLock, Unlocked, GateInv, AllRequests, RequestLabels
<1>7. HostInv' /\ GateInv'
  BY DEF GateInv, RequestLabels
<1>8. ImageInv'
  BY DEF ImageInv
<1>9. FlagInv'
  BY DEF FlagInv, CountInv, Starting, Stopping, Runs, GateInv, RequestLabels, AllRequests
<1>10. CountInv'
  BY DEF CountInv
<1> QED BY <1>5, <1>6, <1>7, <1>8, <1>9, <1>10 DEF IInv

LEMMA ProbeFailedStep ==
  ASSUME IInv, ProbeFailed
  PROVE  IInv'
<1>1. /\ at["host"] = "assert" /\ chip' = InReset
      /\ "dead" \in Labels /\ at' = [at EXCEPT !["host"] = "dead"]
      /\ UNCHANGED <<open_streams, analog_boundary, lineout_volume_stage,
                     direct_output_running, lock, doing, image, old_cf, opened, faults>>
  BY DEF ProbeFailed, Goto, driver, rest, Labels
<1>2. chip' \in Chips /\ chip'.reset /\ chip'.run = {}
  BY <1>1 DEF InReset, PowerOn, Chips, Outputs, Cores, Volumes, ResetRegs, RouteRegs
<1> USE <1>1, <1>2 DEF IInv, TypeOK, Contexts, HostInv, ProbeLabels,
  BindLabels, RunLabels, StopLabels, AfterProbeWrite, AfterRoute
<1>3. TypeOK'
  OBVIOUS
<1>4. LockInv'
  BY DEF LockInv, HoldsLock, Unlocked, GateInv, AllRequests, RequestLabels
<1>5. HostInv' /\ GateInv'
  BY DEF GateInv, RequestLabels
<1>6. ImageInv'
  BY DEF ImageInv
<1>7. FlagInv'
  BY DEF FlagInv, CountInv, Starting, Stopping, Runs, GateInv, RequestLabels, AllRequests
<1>8. CountInv'
  BY DEF CountInv
<1> QED BY <1>3, <1>4, <1>5, <1>6, <1>7, <1>8 DEF IInv

LEMMA StandbyFailedStep ==
  ASSUME IInv, StandbyFailed
  PROVE  IInv'
<1>1. /\ at["host"] = "reset" /\ chip' = InReset
      /\ "idle" \in Labels /\ at' = [at EXCEPT !["host"] = "idle"]
      /\ doing' = [doing EXCEPT !["host"] = "none"]
      /\ UNCHANGED <<open_streams, analog_boundary, lineout_volume_stage,
                     direct_output_running, lock, image, old_cf, opened, faults>>
  BY DEF StandbyFailed, Goto, driver, rest, Labels
<1>2. chip' \in Chips /\ chip'.reset /\ chip'.run = {}
  BY <1>1 DEF InReset, PowerOn, Chips, Outputs, Cores, Volumes, ResetRegs, RouteRegs
<1> USE <1>1, <1>2 DEF IInv, TypeOK, Contexts, HostInv, ProbeLabels,
  BindLabels, RunLabels, StopLabels, AfterProbeWrite, AfterRoute
<1>3. TypeOK'
  OBVIOUS
<1>4. LockInv'
  BY DEF LockInv, HoldsLock, Unlocked, GateInv, AllRequests, RequestLabels
<1>5. HostInv' /\ GateInv'
  BY DEF GateInv, RequestLabels
<1>6. ImageInv'
  BY DEF ImageInv
<1>7. FlagInv'
  BY DEF FlagInv, CountInv, Starting, Stopping, Runs, GateInv, RequestLabels, AllRequests
<1>8. CountInv'
  BY DEF CountInv
<1> QED BY <1>3, <1>4, <1>5, <1>6, <1>7, <1>8 DEF IInv

LEMMA StartupStep ==
  ASSUME IInv, Startup
  PROVE  IInv'
<1>1. /\ at["host"] = "entry" /\ doing["host"] = "startup"
      /\ open_streams' = open_streams + 1
      /\ "ok" \in Labels /\ at' = [at EXCEPT !["host"] = "ok"]
      /\ UNCHANGED <<chip, analog_boundary, lineout_volume_stage,
                     direct_output_running, lock, doing, image, old_cf, opened, faults>>
  BY DEF Startup, Host, Goto, rest, Labels
<1>2. open_streams = opened /\ opened < Streams
  BY <1>1 DEF IInv, CountInv
<1> USE <1>1, <1>2, StreamsAssumption DEF IInv, TypeOK, Contexts, HostInv,
  ProbeLabels, BindLabels, RunLabels, StopLabels, AfterProbeWrite, AfterRoute
<1>3. TypeOK'
  OBVIOUS
<1>4. LockInv'
  BY DEF LockInv, HoldsLock, Unlocked, GateInv, AllRequests, RequestLabels
<1>5. HostInv' /\ GateInv'
  BY DEF GateInv, RequestLabels
<1>6. ImageInv'
  BY DEF ImageInv
<1>7. FlagInv'
  BY DEF FlagInv, CountInv, Starting, Stopping, Runs, GateInv, RequestLabels, AllRequests
<1>8. CountInv'
  BY DEF CountInv
<1> QED BY <1>3, <1>4, <1>5, <1>6, <1>7, <1>8 DEF IInv

LEMMA RunEntryStep ==
  ASSUME IInv, RunEntry
  PROVE  IInv'
<1>1. /\ at["host"] = "entry" /\ doing["host"] = "prepare"
      /\ UNCHANGED <<chip, open_streams, analog_boundary, lineout_volume_stage,
                     direct_output_running, lock, doing, image, old_cf, opened, faults>>
  BY DEF RunEntry, Host, driver, rest
<1>2. PICK l \in {"ok", "clock"} :
        /\ l \in Labels /\ at' = [at EXCEPT !["host"] = l]
        /\ l = "clock" => ~direct_output_running
  BY DEF RunEntry, Goto, Labels
<1> USE <1>1, <1>2 DEF IInv, TypeOK, Contexts, HostInv, ProbeLabels,
  BindLabels, RunLabels, StopLabels, AfterProbeWrite, AfterRoute
<1>3. TypeOK'
  OBVIOUS
<1>4. LockInv'
  BY DEF LockInv, HoldsLock, Unlocked, GateInv, AllRequests, RequestLabels
<1>5. HostInv' /\ GateInv'
  BY DEF GateInv, RequestLabels
<1>6. ImageInv'
  BY DEF ImageInv
<1>7. FlagInv'
  BY DEF FlagInv, CountInv, Starting, Stopping, Runs, GateInv, RequestLabels, AllRequests
<1>8. CountInv'
  BY DEF CountInv
<1> QED BY <1>3, <1>4, <1>5, <1>6, <1>7, <1>8 DEF IInv

LEMMA ShutdownEntryStep ==
  ASSUME IInv, ShutdownEntry
  PROVE  IInv'
<1>1. /\ at["host"] = "entry" /\ doing["host"] = "shutdown"
      /\ UNCHANGED <<chip, analog_boundary, lineout_volume_stage,
                     direct_output_running, lock, doing, image, old_cf, opened, faults>>
  BY DEF ShutdownEntry, Host, rest
<1>2. open_streams = opened /\ opened > 0
  BY <1>1 DEF IInv, CountInv, StopLabels
<1>3. PICK l \in {"ok", "mute"} :
        /\ l \in Labels /\ at' = [at EXCEPT !["host"] = l]
        /\ open_streams' = open_streams - 1
        /\ l = "ok" => open_streams' # 0 \/ ~direct_output_running
  BY <1>1, <1>2 DEF ShutdownEntry, ShutdownCount, Goto, Labels
<1> USE <1>1, <1>2, <1>3, StreamsAssumption DEF IInv, TypeOK, Contexts,
  HostInv, ProbeLabels, BindLabels, RunLabels, StopLabels, AfterProbeWrite,
  AfterRoute
<1>4. TypeOK'
  OBVIOUS
<1>5. LockInv'
  BY DEF LockInv, HoldsLock, Unlocked, GateInv, AllRequests, RequestLabels
<1>6. HostInv' /\ GateInv'
  BY DEF GateInv, RequestLabels
<1>7. ImageInv'
  BY DEF ImageInv
<1>8. FlagInv'
  BY DEF FlagInv, CountInv, Starting, Stopping, Runs, GateInv, RequestLabels, AllRequests
<1>9. CountInv'
  BY DEF CountInv
<1> QED BY <1>4, <1>5, <1>6, <1>7, <1>8, <1>9 DEF IInv

LEMMA RequestEntryStep ==
  ASSUME IInv, RequestEntry
  PROVE  IInv'
<1>1. /\ at["gate"] = "entry"
      /\ UNCHANGED <<chip, open_streams, analog_boundary, lineout_volume_stage,
                     direct_output_running, lock, doing, image, old_cf, opened, faults>>
  BY DEF RequestEntry, driver, rest
<1>2. PICK l \in {"err", "check", "premute", "write"} :
        l \in Labels /\ at' = [at EXCEPT !["gate"] = l]
  BY DEF RequestEntry, Goto, Labels
<1> USE <1>1, <1>2 DEF IInv, TypeOK, Contexts, HostInv, ProbeLabels,
  BindLabels, RunLabels, StopLabels, AfterProbeWrite, AfterRoute
<1>3. TypeOK'
  OBVIOUS
<1>4. LockInv'
  BY DEF LockInv, HoldsLock, Unlocked, GateInv, AllRequests, RequestLabels
<1>5. HostInv' /\ GateInv'
  BY DEF GateInv, RequestLabels
<1>6. ImageInv'
  BY DEF ImageInv
<1>7. FlagInv'
  BY DEF FlagInv, CountInv, Starting, Stopping, Runs, GateInv, RequestLabels, AllRequests
<1>8. CountInv'
  BY DEF CountInv
<1> QED BY <1>3, <1>4, <1>5, <1>6, <1>7, <1>8 DEF IInv

LEMMA BeginStep ==
  ASSUME IInv, NEW c \in PcmCalls \cup {"bind"}, Begin("host", c),
         IF c = "bind" THEN at["host"] = "unbound" ELSE at["host"] = "idle",
         c = "startup" => opened < Streams,
         c \in {"prepare", "shutdown"} => opened > 0
  PROVE  IInv'
<1>1. /\ at["host"] \in {"unbound", "idle"} /\ doing["host"] = "none"
      /\ (c = "bind" <=> at["host"] = "unbound")
      /\ c \in {"bind", "startup", "prepare", "shutdown"}
      /\ c = "startup" => opened < Streams
      /\ c \in {"prepare", "shutdown"} => opened > 0
  BY DEF IInv, HostInv, PcmCalls, ProbeLabels, BindLabels, RunLabels, StopLabels,
     AfterProbeWrite, AfterRoute
<1>2. /\ "lock" \in Labels /\ at' = [at EXCEPT !["host"] = "lock"]
      /\ doing' = [doing EXCEPT !["host"] = c]
      /\ UNCHANGED <<chip, open_streams, analog_boundary, lineout_volume_stage,
                     direct_output_running, lock, image, old_cf, opened, faults>>
  BY DEF Begin, Goto, driver, rest, Labels
<1> USE <1>1, <1>2 DEF IInv, TypeOK, Contexts, HostInv, ProbeLabels,
  BindLabels, RunLabels, StopLabels, AfterProbeWrite, AfterRoute
<1>3. TypeOK'
  OBVIOUS
<1>4. LockInv'
  BY DEF LockInv, HoldsLock, Unlocked, GateInv, AllRequests, RequestLabels
<1>5. HostInv' /\ GateInv'
  BY DEF GateInv, RequestLabels
<1>6. ImageInv'
  BY DEF ImageInv
<1>7. FlagInv'
  BY DEF FlagInv, CountInv, Starting, Stopping, Runs, GateInv, RequestLabels, AllRequests
<1>8. CountInv'
  BY DEF CountInv
<1> QED BY <1>3, <1>4, <1>5, <1>6, <1>7, <1>8 DEF IInv

LEMMA BeginRequestStep ==
  ASSUME IInv, BeginRequest
  PROVE  IInv'
<1>1. PICK q \in AllRequests : doing' = [doing EXCEPT !["gate"] = q]
  BY RequestsAssumption DEF BeginRequest, Begin
<1>2. /\ at["gate"] = "idle" /\ at["host"] \notin {"unbound", "dead"}
      /\ doing["host"] \in {"startup", "prepare", "shutdown", "none"}
      /\ "lock" \in Labels /\ at' = [at EXCEPT !["gate"] = "lock"]
      /\ UNCHANGED <<chip, open_streams, analog_boundary, lineout_volume_stage,
                     direct_output_running, lock, image, old_cf, opened, faults>>
  BY DEF BeginRequest, Begin, Goto, driver, rest, Labels, PcmCalls
<1> USE <1>1, <1>2 DEF IInv, TypeOK, Contexts, HostInv, ProbeLabels,
  BindLabels, RunLabels, StopLabels, AfterProbeWrite, AfterRoute
<1>3. TypeOK'
  OBVIOUS
<1>4. LockInv'
  BY DEF LockInv, HoldsLock, Unlocked, GateInv, AllRequests, RequestLabels
<1>5. HostInv' /\ GateInv'
  BY DEF GateInv, RequestLabels
<1>6. ImageInv'
  BY DEF ImageInv
<1>7. FlagInv'
  BY DEF FlagInv, CountInv, Starting, Stopping, Runs, GateInv, RequestLabels, AllRequests
<1>8. CountInv'
  BY DEF CountInv
<1> QED BY <1>3, <1>4, <1>5, <1>6, <1>7, <1>8 DEF IInv

LEMMA AcquireStep ==
  ASSUME IInv, NEW a \in Contexts, Acquire(a)
  PROVE  IInv'
<1>1. /\ at[a] = "lock" /\ lock = Nobody /\ lock' = a /\ a \in {"host", "gate"}
      /\ "entry" \in Labels /\ at' = [at EXCEPT ![a] = "entry"]
      /\ UNCHANGED <<chip, open_streams, analog_boundary, lineout_volume_stage,
                     direct_output_running, doing, image, old_cf, opened, faults>>
  BY DEF Acquire, Goto, driver, rest, Labels, Contexts
<1> USE <1>1, NobodyAssumption DEF IInv, TypeOK, Contexts, HostInv,
  ProbeLabels, BindLabels, RunLabels, StopLabels, AfterProbeWrite, AfterRoute
<1>2. TypeOK'
  OBVIOUS
<1>3. LockInv'
  BY DEF LockInv, HoldsLock, Unlocked, GateInv, AllRequests, RequestLabels
<1>4. HostInv' /\ GateInv'
  BY DEF GateInv, RequestLabels
<1>5. ImageInv'
  BY DEF ImageInv
<1>6. FlagInv'
  BY DEF FlagInv, CountInv, Starting, Stopping, Runs, GateInv, RequestLabels, AllRequests
<1>7. CountInv'
  BY DEF CountInv
<1> QED BY <1>2, <1>3, <1>4, <1>5, <1>6, <1>7 DEF IInv

LEMMA UnlockGateStep ==
  ASSUME IInv, Unlock("gate")
  PROVE  IInv'
<1>1. at["gate"] \in {"ok", "err"} /\ doing["gate"] \in AllRequests
  BY DEF Unlock, IInv, GateInv
<1>2. AfterUnlock("gate") = "idle"
  BY <1>1 DEF AfterUnlock, AllRequests
<1>3. /\ lock' = Nobody /\ "idle" \in Labels /\ at' = [at EXCEPT !["gate"] = "idle"]
      /\ doing' = [doing EXCEPT !["gate"] = "none"]
      /\ UNCHANGED <<chip, open_streams, analog_boundary, lineout_volume_stage,
                     direct_output_running, image, old_cf, opened, faults>>
  BY <1>1, <1>2 DEF Unlock, Goto, driver, Labels, AllRequests
<1>4. lock = "gate"
  BY <1>1 DEF IInv, LockInv, HoldsLock, Contexts, Unlocked, AllRequests
<1> USE <1>1, <1>3, <1>4, NobodyAssumption DEF IInv, TypeOK, Contexts,
  HostInv, ProbeLabels, BindLabels, RunLabels, StopLabels, AfterProbeWrite,
  AfterRoute
<1>5. TypeOK'
  OBVIOUS
<1>6. LockInv'
  BY DEF LockInv, HoldsLock, Unlocked, GateInv, AllRequests, RequestLabels
<1>7. HostInv' /\ GateInv'
  BY DEF GateInv, RequestLabels
<1>8. ImageInv'
  BY DEF ImageInv
<1>9. FlagInv'
  BY DEF FlagInv, CountInv, Starting, Stopping, Runs, GateInv, RequestLabels, AllRequests
<1>10. CountInv'
  BY DEF CountInv
<1> QED BY <1>5, <1>6, <1>7, <1>8, <1>9, <1>10 DEF IInv

LEMMA UnlockHostStep ==
  ASSUME IInv, Unlock("host")
  PROVE  IInv'
<1>1. /\ at["host"] \in {"ok", "err"}
      /\ doing["host"] \in {"bind", "startup", "prepare", "shutdown"}
      /\ (doing["host"] = "startup" => at["host"] = "ok")
  BY DEF Unlock, IInv, HostInv, ProbeLabels, AfterProbeWrite
<1>2. PICK l \in {"idle", "dead", "reset"} :
        /\ l = AfterUnlock("host") /\ l \in Labels
        /\ l = "dead" <=> at["host"] = "err" /\ doing["host"] = "bind"
        /\ l = "reset" <=> at["host"] = "err" /\ doing["host"] = "shutdown"
  BY <1>1 DEF AfterUnlock, AfterFailedStandby, Labels
<1>3. /\ lock' = Nobody /\ at' = [at EXCEPT !["host"] = l]
      /\ doing' = [doing EXCEPT !["host"] = IF l = "reset" THEN "shutdown" ELSE "none"]
      /\ opened' = IF doing["host"] = "startup" THEN opened + 1
                   ELSE IF doing["host"] = "shutdown" THEN opened - 1 ELSE opened
      /\ UNCHANGED <<chip, open_streams, analog_boundary, lineout_volume_stage,
                     direct_output_running, image, old_cf, faults>>
  BY <1>1, <1>2 DEF Unlock, Goto, driver
<1>4. lock = "host" /\ opened' \in 0..Streams /\ opened' = open_streams
  BY <1>1, <1>3, StreamsAssumption DEF IInv, LockInv, HoldsLock, Contexts, Unlocked, CountInv,
     TypeOK, StopLabels
<1> USE <1>1, <1>2, <1>3, <1>4, NobodyAssumption DEF IInv, TypeOK, Contexts,
  HostInv, ProbeLabels, BindLabels, RunLabels, StopLabels, AfterProbeWrite,
  AfterRoute
<1>5. TypeOK'
  OBVIOUS
<1>6. LockInv'
  BY DEF LockInv, HoldsLock, Unlocked, GateInv, AllRequests, RequestLabels
<1>7. HostInv' /\ GateInv'
  BY DEF GateInv, RequestLabels
<1>8. ImageInv'
  BY DEF ImageInv
<1>9. FlagInv'
  BY DEF FlagInv, CountInv, Starting, Stopping, Runs, GateInv, RequestLabels, AllRequests
<1>10. CountInv'
  BY DEF CountInv
<1> QED BY <1>5, <1>6, <1>7, <1>8, <1>9, <1>10 DEF IInv

LEMMA StutterStep ==
  ASSUME IInv, UNCHANGED vars
  PROVE  IInv'
<1>1. UNCHANGED <<chip, open_streams, analog_boundary, lineout_volume_stage,
                  direct_output_running, lock, at, doing, image, old_cf, opened, faults>>
  BY DEF vars, driver, rest
<1> USE <1>1 DEF IInv, TypeOK, Contexts, HostInv, ProbeLabels, BindLabels,
  RunLabels, StopLabels, AfterProbeWrite, AfterRoute
<1>2. TypeOK'
  OBVIOUS
<1>3. LockInv'
  BY DEF LockInv, HoldsLock, Unlocked, GateInv, AllRequests, RequestLabels
<1>4. HostInv' /\ GateInv'
  BY DEF GateInv, RequestLabels
<1>5. ImageInv'
  BY DEF ImageInv
<1>6. FlagInv'
  BY DEF FlagInv, CountInv, Starting, Stopping, Runs, GateInv, RequestLabels, AllRequests
<1>7. CountInv'
  BY DEF CountInv
<1> QED BY <1>2, <1>3, <1>4, <1>5, <1>6, <1>7 DEF IInv

-----------------------------------------------------------------------------
(* The strengthened invariant holds in every reachable state.              *)

LEMMA InitInvariant == Init => IInv
<1> SUFFICES ASSUME Init PROVE IInv
  OBVIOUS
<1>1. /\ chip \in Chips /\ chip.reset /\ chip.run = {}
  BY DEF Init, InReset, PowerOn, Chips, Outputs, Cores, Volumes, ResetRegs, RouteRegs
<1>2. /\ at \in [Contexts -> Labels] /\ at["host"] = "pdn" /\ at["gate"] = "idle"
      /\ doing = [a \in Contexts |-> IF a = "host" THEN "probe" ELSE "none"]
  BY DEF Init, Contexts, Labels
<1>3. /\ doing \in [Contexts -> PcmCalls \cup AllRequests \cup {"probe", "bind", "none"}]
      /\ doing["host"] = "probe" /\ doing["gate"] = "none"
  BY <1>2 DEF Contexts
<1>4. /\ open_streams = 0 /\ analog_boundary = 0 /\ lineout_volume_stage = 0
      /\ direct_output_running = FALSE /\ lock = Nobody /\ image = 1 /\ old_cf = FALSE
      /\ opened = 0 /\ faults \in FaultCounts /\ Last \in Nat \ {0}
  BY ImagesAssumption, FaultsAssumption DEF Init, FaultCounts
<1>b. direct_output_running \in BOOLEAN /\ old_cf \in BOOLEAN
  BY <1>4, Zenon
<1>5. TypeOK
  BY <1>1, <1>2, <1>3, <1>4, <1>b, StreamsAssumption, FaultsAssumption DEF TypeOK
<1>6. LockInv /\ HostInv /\ GateInv
  BY <1>2, <1>3, <1>4, NobodyAssumption DEF LockInv, HoldsLock, Unlocked, Contexts, HostInv,
     GateInv, ProbeLabels
<1>7. ImageInv /\ FlagInv /\ CountInv
  BY <1>1, <1>2, <1>3, <1>4 DEF ImageInv, FlagInv, CountInv, Starting, Stopping
<1> QED BY <1>5, <1>6, <1>7 DEF IInv

LEMMA NextInvariant ==
  ASSUME IInv, [Next]_vars
  PROVE  IInv'
<1>1. CASE Probe
  BY <1>1, ProbePowerUpStep, ProbeIdStep, ProbeWriteStep, ProbeContractStep, RequestStep,
     DownloadLockStep, DownloadSaveCfStep, DownloadReadyStep, DownloadSendStep, DownloadCrcStep,
     DownloadRestoreStep, DownloadUnlockStep, RegisterStep, ProbeFailedStep DEF Probe
<1>2. CASE Bind
  <2>1. CASE BeginBind
    BY <2>1, BeginStep DEF BeginBind
  <2> QED BY <1>2, <2>1, FmtSnapshotStep, FmtRouteStep, FmtVolumeStep, FmtMuteStep DEF Bind
<1>3. CASE Open
  <2>1. CASE BeginStartup
    BY <2>1, BeginStep DEF BeginStartup, PcmCalls
  <2> QED BY <1>3, <2>1, StartupStep DEF Open
<1>4. CASE Prepare
  <2>1. CASE BeginPrepare
    BY <2>1, BeginStep DEF BeginPrepare, PcmCalls
  <2> QED BY <1>4, <2>1, RunEntryStep, RunClockStep, RunPowerStep, RunCoresStep, RunVolumeStep,
             RunUnmuteStep, RunVerifyStep, DownMuteStep, DownCoresStep, DownPowerStep DEF Prepare
<1>5. CASE Shutdown
  <2>1. CASE BeginShutdown
    BY <2>1, BeginStep DEF BeginShutdown, PcmCalls
  <2> QED BY <1>5, <2>1, ShutdownEntryStep, StandbyMuteStep, StandbyCoresStep,
             StandbyPowerStep, StandbyVerifyStep, StandbyFailedStep DEF Shutdown
<1>6. CASE Gate
  BY <1>6, BeginRequestStep, RequestEntryStep, RequestCheckStep, RequestMuteStep,
     RequestWriteStep, RequestVerifyStep DEF Gate
<1>7. CASE \E a \in Contexts : Acquire(a) \/ Unlock(a)
  <2>1. PICK a \in Contexts : Acquire(a) \/ Unlock(a)
    BY <1>7
  <2>2. CASE Acquire(a)
    BY <2>2, AcquireStep
  <2>3. CASE Unlock(a) /\ a = "host"
    BY <2>3, UnlockHostStep
  <2>4. CASE Unlock(a) /\ a = "gate"
    BY <2>4, UnlockGateStep
  <2> QED BY <2>1, <2>2, <2>3, <2>4 DEF Contexts
<1>8. CASE UNCHANGED vars
  BY <1>8, StutterStep
<1> QED BY <1>1, <1>2, <1>3, <1>4, <1>5, <1>6, <1>7, <1>8 DEF Next

(* The strengthened invariant holds in every reachable state of ak7755.c's *)
(* model.                                                                  *)
THEOREM InductiveInvariant == Spec => []IInv
  BY InitInvariant, NextInvariant, PTL DEF Spec

(* Every variable keeps its type; in particular the count of open streams  *)
(* never wraps below zero and a record holds a legal register state.       *)
THEOREM TypeCorrect == Spec => []TypeOK
<1>1. IInv => TypeOK
  BY DEF IInv
<1> QED BY <1>1, InductiveInvariant, PTL

(* ak7755_run_factory_dsp never takes the DSP out of reset before every    *)
(* image of the firmware has been verified by its CRC, however many        *)
(* transfers fail or are lost, for any number of images.                   *)
THEOREM FirmwareVerified == Spec => []RunsVerified
<1>1. IInv => RunsVerified
  BY DEF IInv, ImageInv, RunsVerified
<1> QED BY <1>1, InductiveInvariant, PTL

(* direct_output_running agrees with the chip whenever the driver's lock   *)
(* is free or ak7755_dai_prepare returns 0, unless STANDBY has failed and  *)
(* reset is asserted or about to be.                                       *)
THEOREM FlagTruthful == Spec => []FlagAgrees
<1>1. IInv => FlagAgrees
  <2> SUFFICES ASSUME IInv, direct_output_running, ~chip.reset,
                      Prepared \/ (lock = Nobody /\ at["host"] # "reset")
               PROVE  Runs
    BY DEF FlagAgrees, Runs
  <2>1. CASE Prepared
    BY <2>1 DEF Prepared, Stopping, IInv, FlagInv
  <2>2. CASE lock = Nobody /\ at["host"] # "reset"
    <3>1. at["host"] \in Unlocked \/ doing["host"] = "probe"
      BY <2>2, NobodyAssumption DEF IInv, LockInv, HoldsLock, Contexts
    <3>2. ~Stopping
      BY <2>2, <3>1 DEF Stopping, StopLabels, Unlocked
    <3> QED BY <3>2 DEF IInv, FlagInv
  <2> QED BY <2>1, <2>2
<1> QED BY <1>1, InductiveInvariant, PTL

-----------------------------------------------------------------------------
(* The soft mute.  IInv says when the driver's flag is right; the mute     *)
(* needs more: how far each operation has come with the chip, given how    *)
(* many transfers went wrong so far.                                       *)

(* Writes that reported no error and did not happen.                       *)
Silent == faults["silent"]

(* What set_fmt has still to stage when it stands at a register.           *)
StillToStage ==
  [C0 |-> RouteRegs, CA |-> RouteRegs \ {"C0"}, C1 |-> RouteRegs \ {"C0", "CA"},
   C2 |-> {"C2", "C3", "C4", "C6", "C7", "C8", "C9", "D3"},
   C3 |-> {"C3", "C4", "C6", "C7", "C8", "C9", "D3"},
   C4 |-> {"C4", "C6", "C7", "C8", "C9", "D3"},
   C6 |-> {"C6", "C7", "C8", "C9", "D3"}, C7 |-> {"C7", "C8", "C9", "D3"},
   C8 |-> {"C8", "C9", "D3"}, C9 |-> {"C9", "D3"}, D3 |-> {"D3"}]

(* If no write is lost, set_fmt at a register has staged the ones before   *)
(* it, and it returns 0 with the whole route staged and the DAC muted.     *)
BindInv ==
  doing["host"] = "bind" /\ Silent = 0 =>
  /\ at["host"] \in DOMAIN AfterRoute =>
       \A r \in RouteRegs \ StillToStage[at["host"]] : r \in chip.staged
  /\ at["host"] \in {"D4", "mute", "ok"} => RouteRegs \subseteq chip.staged
  /\ at["host"] = "ok" => chip.muted

(* Until the card is bound no output is powered and no core runs.          *)
OffInv ==
  Starting =>
  chip.power = {} /\ chip.run = {} /\ (at["host"] = "pdn" => ~chip.muted)

(* Afterwards the route stays staged as long as the codec is not reset.    *)
StagedInv == ~Starting /\ Silent = 0 => chip.reset \/ RouteRegs \subseteq chip.staged

(* If no write is lost, every step of RUN finds done what the steps before *)
(* it wrote.                                                               *)
RunInv ==
  doing["host"] = "prepare" /\ Silent = 0 /\ ~chip.reset =>
  /\ at["host"] \in {"power", "cores", "volume", "unmute", "verify"} => chip.clock
  /\ at["host"] \in {"cores", "volume", "unmute", "verify"} => chip.power = Outputs
  /\ at["host"] \in {"volume", "unmute", "verify"} => chip.run = Cores /\ ~chip.dlrdy
  /\ at["host"] \in {"unmute", "verify"} => chip.volume = "0dB"
  /\ at["host"] = "verify" => ~chip.muted

(* RUN is undone only after a fault; a second one is needed to undo it     *)
(* without the mute.                                                       *)
DownInv ==
  ~chip.reset =>
  /\ at["host"] \in {"down_mute", "down_cores", "down_power"} => AllTold >= 1
  /\ at["host"] \in {"down_cores", "down_power"} => chip.muted \/ AllTold >= 2

(* While direct_output_running is false the codec is muted until RUN       *)
(* releases the mute; after one fault it is muted or has its outputs off,  *)
(* and its cores are stopped, except where RUN is still going to undo what *)
(* it did.                                                                 *)
QuietInv ==
  ~Starting /\ ~direct_output_running /\ ~chip.reset =>
  /\ AllTold = 0 => chip.muted \/ at["host"] = "verify"
  /\ AllTold <= 1 => \/ chip.muted \/ chip.power = {}
                     \/ at["host"] \in {"cores", "volume", "unmute", "verify", "down_mute"}
  /\ AllTold <= 1 => \/ chip.run = {}
                     \/ at["host"] \in {"volume", "unmute", "verify", "down_mute", "down_cores"}

(* STANDBY begins at a running codec and works behind the mute.            *)
StandbyInv ==
  /\ Stopping => direct_output_running
  /\ Stopping /\ at["host"] \in {"cores", "power", "verify"} /\ Silent = 0
       => chip.reset \/ chip.muted

(* A request past its checks finds the codec running; it cuts outputs      *)
(* behind the mute, HIZ only at boundary 1.  Past a boundary the codec     *)
(* stays muted: an unmute is refused there.                                *)
RequestInv ==
  /\ at["gate"] \in {"check", "premute", "write", "verify"} => direct_output_running
  /\ at["gate"] = "check" => doing["gate"] \in {"VOL14", "VOL28"}
  /\ at["gate"] = "premute" => doing["gate"] = "DAC_OFF"
  /\ at["gate"] = "write" =>
       /\ doing["gate"] = "DAC_OFF" /\ Silent = 0 => chip.muted \/ chip.reset
       /\ doing["gate"] = "HIZ" => analog_boundary = 1
       /\ doing["gate"] = "UNMUTE" => analog_boundary = 0
  /\ analog_boundary # 0 => direct_output_running /\ (chip.muted \/ chip.reset)

MInv ==
  /\ BindInv /\ OffInv /\ StagedInv /\ RunInv /\ DownInv /\ QuietInv /\ StandbyInv
  /\ RequestInv

(* What a step may do to the outputs, and to the mute (the step formulas   *)
(* of MutedBeforeOff and UnmuteWhileRunning).                              *)
CutMuted ==
  /\ AllTold <= 1 /\ faults["silent"] = 0 /\ ~chip'.reset
  /\ ~(chip.power \subseteq chip'.power) \/ ~(chip.run \subseteq chip'.run)
  => chip.muted

ReleaseRunning ==
  /\ chip.muted /\ ~chip'.muted /\ ~chip'.reset
  /\ at["host"] # "reset" /\ faults["silent"] = 0
  => chip.clock /\ chip.power # {} /\ chip.run = Cores

MStep == MInv' /\ CutMuted /\ ReleaseRunning

(* A fault adds one to the count of its kind and to the total.             *)
LEMMA Tally ==
  ASSUME faults \in FaultCounts
  PROVE  /\ AllTold \in Nat /\ Silent \in Nat /\ Silent <= AllTold
         /\ UNCHANGED faults => AllTold' = AllTold /\ Silent' = Silent
         /\ \A k \in AllFaults : Fault(k) =>
              /\ AllTold' = AllTold + 1
              /\ Silent' = IF k = "silent" THEN Silent + 1 ELSE Silent
<1>1. \A k \in AllFaults : faults[k] \in 0..MaxFaults /\ MaxFaults \in Nat
  BY FaultsAssumption DEF FaultCounts
<1>2. AllFaults = {"fail", "partial", "silent"}
  BY DEF AllFaults
<1>3. /\ AllTold \in Nat /\ Silent \in Nat /\ Silent <= AllTold
      /\ UNCHANGED faults => AllTold' = AllTold /\ Silent' = Silent
  BY <1>1, <1>2 DEF AllTold, Silent
<1>4. ASSUME NEW k \in AllFaults, Fault(k)
      PROVE  /\ AllTold' = AllTold + 1
             /\ Silent' = IF k = "silent" THEN Silent + 1 ELSE Silent
  <2>1. faults' = [faults EXCEPT ![k] = @ + 1]
    BY <1>4 DEF Fault
  <2>2. \A j \in AllFaults : faults'[j] = IF j = k THEN faults[j] + 1 ELSE faults[j]
    BY <2>1 DEF FaultCounts
  <2> QED BY <1>1, <1>2, <2>2 DEF AllTold, Silent
<1> QED BY <1>3, <1>4

(* What a write may have come to: the context goes on to next or to error. *)
Outcome(l, new, next, error) ==
  \/ /\ chip' = new /\ ~chip.reset /\ l = next
     /\ AllTold' = AllTold /\ Silent' = Silent
  \/ /\ chip' = new /\ ~chip.reset /\ l = error
     /\ AllTold' = AllTold + 1 /\ Silent' = Silent
  \/ /\ chip' = chip /\ ~chip.reset /\ l = next
     /\ AllTold' = AllTold + 1 /\ Silent' = Silent + 1
  \/ /\ chip' = chip /\ l = error
     /\ AllTold' = AllTold + 1 /\ Silent' = Silent
  \/ /\ chip' = chip /\ chip.reset /\ l = error
     /\ AllTold' = AllTold /\ Silent' = Silent

(* Every write has one of the outcomes above and changes nothing else.     *)
LEMMA WriteCases ==
  ASSUME TypeOK, NEW a \in Contexts, NEW new, NEW next \in Labels,
         NEW error \in Labels, Write(a, new, next, error)
  PROVE  /\ AllTold \in Nat /\ AllTold' \in Nat /\ Silent \in Nat /\ Silent' \in Nat
         /\ Silent <= AllTold /\ Silent' <= AllTold'
         /\ \E l \in {next, error} :
              /\ at' = [at EXCEPT ![a] = l]
              /\ Outcome(l, new, next, error)
         /\ UNCHANGED <<open_streams, analog_boundary, lineout_volume_stage,
                        direct_output_running, lock, doing>>
<1>1. faults \in FaultCounts /\ "fail" \in AllFaults /\ "partial" \in AllFaults
      /\ "silent" \in AllFaults
  BY DEF TypeOK, AllFaults
<1>2. "fail" # "silent" /\ "partial" # "silent"
  OBVIOUS
<1>3. /\ AllTold \in Nat /\ Silent \in Nat /\ Silent <= AllTold
      /\ UNCHANGED faults => AllTold' = AllTold /\ Silent' = Silent
      /\ Fault("fail") => AllTold' = AllTold + 1 /\ Silent' = Silent
      /\ Fault("partial") => AllTold' = AllTold + 1 /\ Silent' = Silent
      /\ Fault("silent") => AllTold' = AllTold + 1 /\ Silent' = Silent + 1
  BY <1>1, <1>2, Tally
<1> QED BY <1>3 DEF Write, Goto, driver, Outcome

(* A read that fails is one transfer more gone wrong.                      *)
LEMMA FailCases ==
  ASSUME TypeOK
  PROVE  /\ AllTold \in Nat /\ Silent \in Nat /\ Silent <= AllTold
         /\ UNCHANGED faults => AllTold' = AllTold /\ Silent' = Silent
         /\ Fault("fail") => AllTold' = AllTold + 1 /\ Silent' = Silent
<1>1. faults \in FaultCounts /\ "fail" \in AllFaults /\ "fail" # "silent"
  BY DEF TypeOK, AllFaults
<1> QED BY <1>1, Tally

(* While the host is in its critical section the gate is outside.          *)
LEMMA HostAlone ==
  ASSUME IInv, HoldsLock("host")
  PROVE  at["gate"] \in {"idle", "lock"}
<1>1. ~HoldsLock("gate")
  BY DEF IInv, LockInv, Contexts
<1> QED BY <1>1 DEF IInv, GateInv, HoldsLock, RequestLabels, Unlocked, AllRequests

(* While the gate is in its critical section the host is outside.          *)
LEMMA GateAlone ==
  ASSUME IInv, at["gate"] \notin {"idle", "lock"}
  PROVE  at["host"] \in {"idle", "lock", "reset"} /\ ~Starting /\ lock = "gate"
<1>1. HoldsLock("gate") /\ doing["gate"] # "none"
  BY DEF IInv, GateInv, HoldsLock, RequestLabels, Unlocked, AllRequests
<1>2. ~HoldsLock("host") /\ ~Starting /\ lock = "gate"
  BY <1>1 DEF IInv, LockInv, FlagInv, Contexts
<1> QED BY <1>2 DEF IInv, HostInv, HoldsLock, Unlocked, Starting, RunLabels, StopLabels

(* In reset nothing is powered and no request is under way.                *)
LEMMA InitMInv == Init => MInv
<1> SUFFICES ASSUME Init PROVE MInv
  OBVIOUS
<1>1. chip.reset /\ chip.power = {} /\ chip.run = {} /\ ~chip.muted
  BY DEF Init, InReset, PowerOn
<1>2. /\ at["host"] = "pdn" /\ at["gate"] = "idle" /\ doing["host"] = "probe"
      /\ ~direct_output_running /\ analog_boundary = 0
  BY DEF Init, Contexts
<1> QED BY <1>1, <1>2 DEF MInv, BindInv, OffInv, StagedInv, RunInv, DownInv, QuietInv, StandbyInv,
  Starting, Stopping, RequestInv

(* During probe and after a failed one nothing is powered.                 *)
LEMMA ProbeKeepsM ==
  ASSUME IInv, MInv, Probe
  PROVE  MStep
<1>1. /\ doing["host"] = "probe"
      /\ at["gate"] = "idle" /\ doing["gate"] = "none" /\ ~direct_output_running
  <2>1. doing["host"] = "probe"
    BY DEF Probe, ProbePowerUp, ProbeId, ProbeWrite, ProbeContract, Request, DownloadLock,
      DownloadSaveCf, DownloadReady, DownloadSend, DownloadCrc, DownloadRestore, DownloadUnlock,
      Register, ProbeFailed, IInv, HostInv, BindLabels, RunLabels, StopLabels, AfterProbeWrite,
      AfterRoute
  <2> QED BY <2>1 DEF IInv, FlagInv, Starting, GateInv, AllRequests
<1>2. UNCHANGED <<direct_output_running, analog_boundary>> /\ at'["gate"] = at["gate"]
  BY DEF Probe, ProbePowerUp, ProbeId, ProbeWrite, ProbeContract, Request, DownloadLock,
      DownloadSaveCf, DownloadReady, DownloadSend, DownloadCrc, DownloadRestore, DownloadUnlock,
      Register, ProbeFailed, Write, Read, Goto, driver, IInv, TypeOK, Contexts
<1>3. /\ chip'.power = {} /\ chip'.run = {} /\ chip.run = {} /\ chip.power = {}
      /\ chip'.muted = chip.muted \/ chip'.reset \/ ~chip.muted
  <2>1. chip.run = {} /\ chip.power = {} /\ chip \in Chips
    BY <1>1 DEF IInv, TypeOK, ImageInv, MInv, OffInv, Starting
  <2>2. CASE ProbePowerUp
    BY <1>1, <2>1, <2>2 DEF ProbePowerUp, PowerOn, MInv, OffInv, Starting
  <2>3. CASE ProbeFailed
    BY <2>1, <2>3 DEF ProbeFailed, InReset, PowerOn
  <2>4. CASE ProbeWrite
    <3>1. PICK r \in DOMAIN AfterProbeWrite :
            Write("host", ProbeWritten(r), AfterProbeWrite[r], "assert")
      BY <2>4 DEF ProbeWrite
    <3> QED BY <2>1, <3>1 DEF Write, ProbeWritten, Chips
  <2>5. CASE DownloadReady \/ DownloadRestore
    BY <2>1, <2>5 DEF DownloadReady, DownloadRestore, Write, Chips
  <2>6. CASE DownloadSend
    BY <2>1, <2>6 DEF DownloadSend, Chips
  <2>7. CASE UNCHANGED chip
    BY <2>1, <2>7
  <2> QED BY <2>2, <2>3, <2>4, <2>5, <2>6, <2>7 DEF Probe, ProbeId, ProbeContract, Request,
        DownloadLock, DownloadSaveCf, DownloadCrc, DownloadUnlock, Register, Read
<1>4. /\ doing'["host"] \in {"probe", "none"}
      /\ doing'["host"] = "none" => at'["host"] = "unbound"
      /\ at'["host"] \notin {"down_mute", "down_cores", "down_power", "pdn"}
  BY <1>1 DEF Probe, ProbePowerUp, ProbeId, ProbeWrite, ProbeContract, Request, DownloadLock,
      DownloadSaveCf, DownloadReady, DownloadSend, DownloadCrc, DownloadRestore, DownloadUnlock,
      Register, ProbeFailed, Write, Read, Goto, IInv, TypeOK, Contexts, AfterProbeWrite
<1> QED BY <1>1, <1>2, <1>3, <1>4 DEF MStep, CutMuted, ReleaseRunning, MInv, BindInv, OffInv,
      StagedInv, RunInv, DownInv, QuietInv, StandbyInv, Starting, Stopping, RequestInv

(* While the route is staged nothing is powered, and one register after    *)
(* the other gets the factory value.                                       *)
LEMMA BindKeeps ==
  ASSUME IInv, MInv, doing["host"] = "bind", doing' = doing,
         UNCHANGED <<direct_output_running, analog_boundary>>,
         NEW l \in BindLabels, at' = [at EXCEPT !["host"] = l],
         chip'.power = chip.power, chip'.run = chip.run, chip.muted => chip'.muted,
         BindInv'
  PROVE  MStep
<1>1. /\ Starting /\ Starting' /\ at["gate"] = "idle" /\ doing["gate"] = "none"
      /\ ~direct_output_running /\ at'["gate"] = "idle" /\ at'["host"] = l
  BY DEF IInv, TypeOK, FlagInv, Starting, GateInv, AllRequests, Contexts
<1>2. /\ l \notin {"down_mute", "down_cores", "down_power", "pdn"}
      /\ chip \in Chips
  BY DEF BindLabels, AfterRoute, IInv, TypeOK
<1> QED BY <1>1, <1>2 DEF MStep, CutMuted, ReleaseRunning, MInv, OffInv, StagedInv, RunInv,
      DownInv, QuietInv, StandbyInv, Stopping, RequestInv, Chips

(* set_fmt: one lemma for all its steps, then BindInv for each.            *)
LEMMA BindKeepsM ==
  ASSUME IInv, MInv, FmtSnapshot \/ FmtRoute \/ FmtVolume \/ FmtMute
  PROVE  MStep
<1>1. /\ TypeOK /\ chip \in Chips /\ "host" \in Contexts /\ doing["host"] = "bind"
      /\ BindLabels \subseteq Labels
  BY DEF IInv, TypeOK, Contexts, FmtSnapshot, FmtRoute, FmtVolume, FmtMute, Host, BindLabels,
    Labels
<1>2. CASE FmtSnapshot
  <2>1. Read("host", TRUE, "C0", "err") /\ UNCHANGED <<direct_output_running, analog_boundary>>
    BY <1>2 DEF FmtSnapshot, driver
  <2>2. /\ UNCHANGED <<chip, doing>>
        /\ \E l \in {"C0", "err"} : at' = [at EXCEPT !["host"] = l]
    BY <2>1 DEF Read, Goto
  <2>3. PICK l \in {"C0", "err"} : at' = [at EXCEPT !["host"] = l]
    BY <2>2
  <2>4. BindInv'
    BY <1>1, <2>2, <2>3 DEF BindInv, StillToStage, AfterRoute, TypeOK
  <2> QED BY <1>1, <2>1, <2>2, <2>3, <2>4, BindKeeps DEF BindLabels, AfterRoute
<1>3. CASE FmtRoute
  <2>1. PICK r \in DOMAIN AfterRoute :
          /\ at["host"] = r
          /\ Write("host", [chip EXCEPT !.staged = @ \cup {r}, !.clock = @ /\ r # "C1"],
                   AfterRoute[r], "err")
    BY <1>3 DEF FmtRoute, Host
  <2>2. AfterRoute[r] \in BindLabels
    BY <2>1 DEF AfterRoute, BindLabels
  <2>3. /\ UNCHANGED <<direct_output_running, analog_boundary, doing>>
        /\ Silent \in Nat /\ Silent' \in Nat
        /\ \E l \in {AfterRoute[r], "err"} :
             /\ at' = [at EXCEPT !["host"] = l]
             /\ \/ /\ chip' = [chip EXCEPT !.staged = @ \cup {r}, !.clock = @ /\ r # "C1"]
                   /\ Silent' = Silent
                \/ chip' = chip /\ (l = "err" \/ Silent' = Silent + 1)
    <3> HIDE DEF AfterRoute
    <3> QED BY <1>1, <2>1, <2>2, WriteCases DEF BindLabels, Outcome
  <2>4. PICK l \in {AfterRoute[r], "err"} :
             /\ at' = [at EXCEPT !["host"] = l]
             /\ \/ /\ chip' = [chip EXCEPT !.staged = @ \cup {r}, !.clock = @ /\ r # "C1"]
                   /\ Silent' = Silent
                \/ chip' = chip /\ (l = "err" \/ Silent' = Silent + 1)
    BY <2>3
  <2>5. /\ chip'.power = chip.power /\ chip'.run = chip.run /\ chip'.muted = chip.muted
        /\ \/ chip'.staged = chip.staged \cup {r}
           \/ l = "err" \/ Silent' = Silent + 1
    BY <1>1, <2>4 DEF Chips
  <2>6. BindInv'
    <3> SUFFICES ASSUME Silent' = 0, l = AfterRoute[r]
                 PROVE  BindInv'
      BY <1>1, <2>4 DEF BindInv, TypeOK, AfterRoute
    <3>1. /\ chip'.staged = chip.staged \cup {r}
          /\ \A q \in RouteRegs \ StillToStage[r] : q \in chip.staged
      <4>1. AfterRoute[r] # "err" /\ Silent = 0
        BY <2>3, <2>4 DEF AfterRoute
      <4>2. chip'.staged = chip.staged \cup {r}
        BY <2>5, <4>1
      <4> QED BY <1>1, <2>1, <4>1, <4>2 DEF MInv, BindInv
    <3> QED BY <1>1, <2>1, <2>3, <2>4, <3>1 DEF BindInv, AfterRoute, StillToStage, RouteRegs, TypeOK
  <2> QED BY <1>1, <2>2, <2>3, <2>4, <2>5, <2>6, BindKeeps DEF BindLabels
<1>4. CASE FmtVolume
  <2>1. at["host"] = "D4" /\ Write("host", [chip EXCEPT !.volume = "0dB"], "mute", "err")
    BY <1>4 DEF FmtVolume, Host
  <2>2. /\ UNCHANGED <<direct_output_running, analog_boundary, doing>>
        /\ Silent \in Nat /\ Silent' \in Nat
        /\ \E l \in {"mute", "err"} :
             /\ at' = [at EXCEPT !["host"] = l] /\ Silent' \in {Silent, Silent + 1}
             /\ chip' \in {chip, [chip EXCEPT !.volume = "0dB"]}
    BY <1>1, <2>1, WriteCases DEF BindLabels, Outcome
  <2>3. /\ chip'.power = chip.power /\ chip'.run = chip.run /\ chip'.muted = chip.muted
        /\ chip'.staged = chip.staged
    BY <1>1, <2>2 DEF Chips
  <2>4. PICK l \in {"mute", "err"} : at' = [at EXCEPT !["host"] = l]
    BY <2>2
  <2>5. BindInv'
    BY <1>1, <2>1, <2>2, <2>3, <2>4 DEF MInv, BindInv, TypeOK, AfterRoute
  <2> QED BY <1>1, <2>2, <2>3, <2>4, <2>5, BindKeeps DEF BindLabels
<1>5. CASE FmtMute
  <2>1. at["host"] = "mute" /\ Write("host", [chip EXCEPT !.muted = TRUE], "ok", "err")
    BY <1>5 DEF FmtMute, Host
  <2>2. /\ UNCHANGED <<direct_output_running, analog_boundary, doing>>
        /\ Silent \in Nat /\ Silent' \in Nat /\ Silent' \in {Silent, Silent + 1}
        /\ \E l \in {"ok", "err"} :
             /\ at' = [at EXCEPT !["host"] = l]
             /\ \/ chip' = [chip EXCEPT !.muted = TRUE]
                \/ chip' = chip /\ (l = "err" \/ Silent' = Silent + 1)
    BY <1>1, <2>1, WriteCases DEF BindLabels, Outcome
  <2>3. /\ chip'.power = chip.power /\ chip'.run = chip.run
        /\ chip.muted => chip'.muted
        /\ chip'.staged = chip.staged
        /\ chip' = [chip EXCEPT !.muted = TRUE] => chip'.muted
    BY <1>1, <2>2 DEF Chips
  <2>4. PICK l \in {"ok", "err"} :
             /\ at' = [at EXCEPT !["host"] = l]
             /\ \/ chip' = [chip EXCEPT !.muted = TRUE]
                \/ chip' = chip /\ (l = "err" \/ Silent' = Silent + 1)
    BY <2>2
  <2>5. BindInv'
    BY <1>1, <2>1, <2>2, <2>3, <2>4 DEF MInv, BindInv, TypeOK, AfterRoute
  <2> QED BY <1>1, <2>2, <2>3, <2>4, <2>5, BindKeeps DEF BindLabels
<1> QED BY <1>2, <1>3, <1>4, <1>5

(* RUN: only what concerns its own labels has to be shown.                 *)
LEMMA RunPlace ==
  ASSUME IInv, doing["host"] = "prepare", at["host"] \in RunLabels
  PROVE  /\ TypeOK /\ chip \in Chips /\ "host" \in Contexts /\ "prepare" # "shutdown"
         /\ ~direct_output_running /\ ~Starting /\ at["gate"] \in {"idle", "lock"}
         /\ RunLabels \subseteq Labels
<1>1. HoldsLock("host")
  BY DEF HoldsLock, RunLabels, Unlocked
<1> QED BY <1>1, HostAlone DEF IInv, TypeOK, FlagInv, Starting, RunLabels, Labels, Contexts,
      AfterRoute

(* A step of RUN keeps what does not concern RUN.                          *)
LEMMA RunKeeps ==
  ASSUME IInv, MInv, doing["host"] = "prepare", at["host"] \in RunLabels,
         doing' = doing, UNCHANGED <<direct_output_running, analog_boundary>>,
         NEW l \in RunLabels, at' = [at EXCEPT !["host"] = l],
         chip'.staged = chip.staged, chip'.reset = chip.reset,
         Silent \in Nat, Silent' \in {Silent, Silent + 1},
         RunInv', DownInv', QuietInv'
  PROVE  MInv'
<1>1. /\ ~direct_output_running /\ ~Starting /\ at["gate"] \in {"idle", "lock"}
      /\ at'["gate"] = at["gate"] /\ at'["host"] = l
  BY RunPlace DEF TypeOK, Contexts
<1>2. ~Starting' /\ ~Stopping'
  BY <1>1 DEF Starting, Stopping, RunLabels
<1> QED BY <1>1, <1>2 DEF MInv, BindInv, OffInv, StagedInv, StandbyInv, RequestInv, Starting

(* What a write of RUN may have come to, with the rest of the invariant.   *)
LEMMA RunCases ==
  ASSUME IInv, MInv, doing["host"] = "prepare", at["host"] \in RunLabels,
         NEW new, new.reset = chip.reset, new.staged = chip.staged,
         NEW next \in RunLabels, NEW error \in RunLabels, Write("host", new, next, error)
  PROVE  \E l \in {next, error} :
           /\ Outcome(l, new, next, error) /\ at'["host"] = l /\ doing' = doing
           /\ AllTold \in Nat /\ Silent \in Nat /\ Silent <= AllTold
           /\ UNCHANGED direct_output_running
           /\ RunInv' /\ DownInv' /\ QuietInv' => MInv'
<1>1. /\ TypeOK /\ "host" \in Contexts /\ next \in Labels /\ error \in Labels
  BY RunPlace
<1>2. PICK l \in {next, error} :
        at' = [at EXCEPT !["host"] = l] /\ Outcome(l, new, next, error)
  BY <1>1, WriteCases
<1>3. /\ AllTold \in Nat /\ Silent \in Nat /\ Silent <= AllTold
      /\ UNCHANGED <<direct_output_running, analog_boundary, doing>>
      /\ at'["host"] = l /\ chip'.reset = chip.reset /\ chip'.staged = chip.staged
      /\ Silent' \in {Silent, Silent + 1}
  BY <1>1, <1>2, WriteCases DEF TypeOK, Outcome
<1>4. RunInv' /\ DownInv' /\ QuietInv' => MInv'
  BY <1>2, <1>3, RunKeeps
<1> QED BY <1>2, <1>3, <1>4

(* Before the outputs are powered a failing RUN leaves them as they were.  *)
LEMMA RunClockKeepsM ==
  ASSUME IInv, MInv, RunClock
  PROVE  MStep
<1> DEFINE new == [chip EXCEPT !.clock = TRUE]
<1>1. at["host"] = "clock" /\ doing["host"] = "prepare" /\ Write("host", new, "power", "err")
  BY DEF RunClock, Host, PowerDown, IInv, HostInv, ProbeLabels, BindLabels, StopLabels,
     AfterProbeWrite, AfterRoute
<1>2. "clock" \in RunLabels /\ "power" \in RunLabels /\ "err" \in RunLabels
  BY DEF RunLabels
<1>3. chip \in Chips /\ ~direct_output_running /\ ~Starting
  BY <1>1, <1>2, RunPlace
<1>4. /\ new.reset = chip.reset /\ new.staged = chip.staged
      /\ new.clock = TRUE /\ new.power = chip.power /\ new.run = chip.run
      /\ new.dlrdy = chip.dlrdy /\ new.volume = chip.volume /\ new.muted = chip.muted
  BY <1>3 DEF Chips
<1> HIDE DEF new
<1>5. PICK l \in {"power", "err"} :
        /\ Outcome(l, new, "power", "err") /\ at'["host"] = l /\ doing' = doing
        /\ AllTold \in Nat /\ Silent \in Nat /\ Silent <= AllTold
        /\ UNCHANGED direct_output_running
        /\ RunInv' /\ DownInv' /\ QuietInv' => MInv'
  BY <1>1, <1>2, <1>4, RunCases
<1>6. RunInv' /\ DownInv'
  BY <1>1, <1>4, <1>5 DEF MInv, RunInv, DownInv, Outcome
<1>7. QuietInv'
  BY <1>1, <1>3, <1>4, <1>5 DEF MInv, QuietInv, DownInv, Outcome
<1>8. CutMuted /\ ReleaseRunning
  BY <1>1, <1>3, <1>4, <1>5 DEF CutMuted, ReleaseRunning, MInv, RunInv, DownInv, Chips,
     Outputs, Silent, Outcome
<1> QED BY <1>5, <1>6, <1>7, <1>8 DEF MStep

LEMMA RunPowerKeepsM ==
  ASSUME IInv, MInv, RunPower
  PROVE  MStep
<1> DEFINE new == [chip EXCEPT !.power = Outputs]
<1>1. at["host"] = "power" /\ doing["host"] = "prepare" /\ Write("host", new, "cores", "err")
  BY DEF RunPower, Host, PowerDown, IInv, HostInv, ProbeLabels, BindLabels, StopLabels,
     AfterProbeWrite, AfterRoute
<1>2. "power" \in RunLabels /\ "cores" \in RunLabels /\ "err" \in RunLabels
  BY DEF RunLabels
<1>3. chip \in Chips /\ ~direct_output_running /\ ~Starting
  BY <1>1, <1>2, RunPlace
<1>4. /\ new.reset = chip.reset /\ new.staged = chip.staged
      /\ new.clock = chip.clock /\ new.power = Outputs /\ new.run = chip.run
      /\ new.dlrdy = chip.dlrdy /\ new.volume = chip.volume /\ new.muted = chip.muted
  BY <1>3 DEF Chips
<1> HIDE DEF new
<1>5. PICK l \in {"cores", "err"} :
        /\ Outcome(l, new, "cores", "err") /\ at'["host"] = l /\ doing' = doing
        /\ AllTold \in Nat /\ Silent \in Nat /\ Silent <= AllTold
        /\ UNCHANGED direct_output_running
        /\ RunInv' /\ DownInv' /\ QuietInv' => MInv'
  BY <1>1, <1>2, <1>4, RunCases
<1>6. RunInv' /\ DownInv'
  BY <1>1, <1>4, <1>5 DEF MInv, RunInv, DownInv, Outcome
<1>7. QuietInv'
  BY <1>1, <1>3, <1>4, <1>5 DEF MInv, QuietInv, DownInv, Outcome
<1>8. CutMuted /\ ReleaseRunning
  BY <1>1, <1>3, <1>4, <1>5 DEF CutMuted, ReleaseRunning, MInv, RunInv, DownInv, Chips,
     Outputs, Silent, Outcome
<1> QED BY <1>5, <1>6, <1>7, <1>8 DEF MStep

(* From here on a failing write enters the power-down path: one fault.     *)
LEMMA RunCoresKeepsM ==
  ASSUME IInv, MInv, RunCores
  PROVE  MStep
<1> DEFINE new == [chip EXCEPT !.run = Cores, !.dlrdy = FALSE]
<1>1. at["host"] = "cores" /\ doing["host"] = "prepare" /\ Write("host", new, "volume", "down_mute")
  BY DEF RunCores, Host, PowerDown, IInv, HostInv, ProbeLabels, BindLabels, StopLabels,
     AfterProbeWrite, AfterRoute
<1>2. "cores" \in RunLabels /\ "volume" \in RunLabels /\ "down_mute" \in RunLabels
  BY DEF RunLabels
<1>3. chip \in Chips /\ ~direct_output_running /\ ~Starting
  BY <1>1, <1>2, RunPlace
<1>4. /\ new.reset = chip.reset /\ new.staged = chip.staged
      /\ new.clock = chip.clock /\ new.power = chip.power /\ new.run = Cores
      /\ new.dlrdy = FALSE /\ new.volume = chip.volume /\ new.muted = chip.muted
  BY <1>3 DEF Chips
<1> HIDE DEF new
<1>5. PICK l \in {"volume", "down_mute"} :
        /\ Outcome(l, new, "volume", "down_mute") /\ at'["host"] = l /\ doing' = doing
        /\ AllTold \in Nat /\ Silent \in Nat /\ Silent <= AllTold
        /\ UNCHANGED direct_output_running
        /\ RunInv' /\ DownInv' /\ QuietInv' => MInv'
  BY <1>1, <1>2, <1>4, RunCases
<1>6. RunInv' /\ DownInv'
  BY <1>1, <1>4, <1>5 DEF MInv, RunInv, DownInv, Outcome
<1>7. QuietInv'
  BY <1>1, <1>3, <1>4, <1>5 DEF MInv, QuietInv, DownInv, Outcome
<1>8. CutMuted /\ ReleaseRunning
  BY <1>1, <1>3, <1>4, <1>5 DEF CutMuted, ReleaseRunning, MInv, RunInv, DownInv, Chips,
     Outputs, Silent, Outcome
<1> QED BY <1>5, <1>6, <1>7, <1>8 DEF MStep

LEMMA RunVolumeKeepsM ==
  ASSUME IInv, MInv, RunVolume
  PROVE  MStep
<1> DEFINE new == [chip EXCEPT !.volume = "0dB"]
<1>1. /\ at["host"] = "volume" /\ doing["host"] = "prepare"
      /\ Write("host", new, "unmute", "down_mute")
  BY DEF RunVolume, Host, PowerDown, IInv, HostInv, ProbeLabels, BindLabels, StopLabels,
     AfterProbeWrite, AfterRoute
<1>2. "volume" \in RunLabels /\ "unmute" \in RunLabels /\ "down_mute" \in RunLabels
  BY DEF RunLabels
<1>3. chip \in Chips /\ ~direct_output_running /\ ~Starting
  BY <1>1, <1>2, RunPlace
<1>4. /\ new.reset = chip.reset /\ new.staged = chip.staged
      /\ new.clock = chip.clock /\ new.power = chip.power /\ new.run = chip.run
      /\ new.dlrdy = chip.dlrdy /\ new.volume = "0dB" /\ new.muted = chip.muted
  BY <1>3 DEF Chips
<1> HIDE DEF new
<1>5. PICK l \in {"unmute", "down_mute"} :
        /\ Outcome(l, new, "unmute", "down_mute") /\ at'["host"] = l /\ doing' = doing
        /\ AllTold \in Nat /\ Silent \in Nat /\ Silent <= AllTold
        /\ UNCHANGED direct_output_running
        /\ RunInv' /\ DownInv' /\ QuietInv' => MInv'
  BY <1>1, <1>2, <1>4, RunCases
<1>6. RunInv' /\ DownInv'
  BY <1>1, <1>4, <1>5 DEF MInv, RunInv, DownInv, Outcome
<1>7. QuietInv'
  BY <1>1, <1>3, <1>4, <1>5 DEF MInv, QuietInv, DownInv, Outcome
<1>8. CutMuted /\ ReleaseRunning
  BY <1>1, <1>3, <1>4, <1>5 DEF CutMuted, ReleaseRunning, MInv, RunInv, DownInv, Chips,
     Outputs, Silent, Outcome
<1> QED BY <1>5, <1>6, <1>7, <1>8 DEF MStep

LEMMA RunUnmuteKeepsM ==
  ASSUME IInv, MInv, RunUnmute
  PROVE  MStep
<1> DEFINE new == [chip EXCEPT !.muted = FALSE]
<1>1. /\ at["host"] = "unmute" /\ doing["host"] = "prepare"
      /\ Write("host", new, "verify", "down_mute")
  BY DEF RunUnmute, Host, PowerDown, IInv, HostInv, ProbeLabels, BindLabels, StopLabels,
     AfterProbeWrite, AfterRoute
<1>2. "unmute" \in RunLabels /\ "verify" \in RunLabels /\ "down_mute" \in RunLabels
  BY DEF RunLabels
<1>3. chip \in Chips /\ ~direct_output_running /\ ~Starting
  BY <1>1, <1>2, RunPlace
<1>4. /\ new.reset = chip.reset /\ new.staged = chip.staged
      /\ new.clock = chip.clock /\ new.power = chip.power /\ new.run = chip.run
      /\ new.dlrdy = chip.dlrdy /\ new.volume = chip.volume /\ new.muted = FALSE
  BY <1>3 DEF Chips
<1> HIDE DEF new
<1>5. PICK l \in {"verify", "down_mute"} :
        /\ Outcome(l, new, "verify", "down_mute") /\ at'["host"] = l /\ doing' = doing
        /\ AllTold \in Nat /\ Silent \in Nat /\ Silent <= AllTold
        /\ UNCHANGED direct_output_running
        /\ RunInv' /\ DownInv' /\ QuietInv' => MInv'
  BY <1>1, <1>2, <1>4, RunCases
<1>6. RunInv' /\ DownInv'
  BY <1>1, <1>4, <1>5 DEF MInv, RunInv, DownInv, Outcome
<1>7. QuietInv'
  BY <1>1, <1>3, <1>4, <1>5 DEF MInv, QuietInv, DownInv, Outcome
<1>8. CutMuted /\ ReleaseRunning
  BY <1>1, <1>3, <1>4, <1>5 DEF CutMuted, ReleaseRunning, MInv, RunInv, DownInv, Chips,
     Outputs, Silent, Outcome
<1> QED BY <1>5, <1>6, <1>7, <1>8 DEF MStep

(* The power-down path: mute, stop the cores, cut the outputs.             *)
LEMMA DownMuteKeepsM ==
  ASSUME IInv, MInv, DownMute
  PROVE  MStep
<1> DEFINE new == [chip EXCEPT !.muted = TRUE]
<1>1. /\ at["host"] = "down_mute" /\ doing["host"] = "prepare"
      /\ Write("host", new, "down_cores", "down_cores")
  BY DEF DownMute, Host, PowerDown, IInv, HostInv, ProbeLabels, BindLabels, StopLabels,
     AfterProbeWrite, AfterRoute
<1>2. "down_mute" \in RunLabels /\ "down_cores" \in RunLabels
  BY DEF RunLabels
<1>3. chip \in Chips /\ ~direct_output_running /\ ~Starting
  BY <1>1, <1>2, RunPlace
<1>4. /\ new.reset = chip.reset /\ new.staged = chip.staged
      /\ new.clock = chip.clock /\ new.power = chip.power /\ new.run = chip.run
      /\ new.dlrdy = chip.dlrdy /\ new.volume = chip.volume /\ new.muted = TRUE
  BY <1>3 DEF Chips
<1> HIDE DEF new
<1>5. PICK l \in {"down_cores"} :
        /\ Outcome(l, new, "down_cores", "down_cores") /\ at'["host"] = l /\ doing' = doing
        /\ AllTold \in Nat /\ Silent \in Nat /\ Silent <= AllTold
        /\ UNCHANGED direct_output_running
        /\ RunInv' /\ DownInv' /\ QuietInv' => MInv'
  BY <1>1, <1>2, <1>4, RunCases
<1>6. RunInv' /\ DownInv'
  BY <1>1, <1>4, <1>5 DEF MInv, RunInv, DownInv, Outcome
<1>7. QuietInv'
  BY <1>1, <1>3, <1>4, <1>5 DEF MInv, QuietInv, DownInv, Outcome
<1>8. CutMuted /\ ReleaseRunning
  BY <1>1, <1>3, <1>4, <1>5 DEF CutMuted, ReleaseRunning, MInv, RunInv, DownInv, Chips,
     Outputs, Silent, Outcome
<1> QED BY <1>5, <1>6, <1>7, <1>8 DEF MStep

LEMMA DownCoresKeepsM ==
  ASSUME IInv, MInv, DownCores
  PROVE  MStep
<1> DEFINE new == [chip EXCEPT !.run = {}]
<1>1. /\ at["host"] = "down_cores" /\ doing["host"] = "prepare"
      /\ Write("host", new, "down_power", "down_power")
  BY DEF DownCores, Host, PowerDown, IInv, HostInv, ProbeLabels, BindLabels, StopLabels,
     AfterProbeWrite, AfterRoute
<1>2. "down_cores" \in RunLabels /\ "down_power" \in RunLabels
  BY DEF RunLabels
<1>3. chip \in Chips /\ ~direct_output_running /\ ~Starting
  BY <1>1, <1>2, RunPlace
<1>4. /\ new.reset = chip.reset /\ new.staged = chip.staged
      /\ new.clock = chip.clock /\ new.power = chip.power /\ new.run = {}
      /\ new.dlrdy = chip.dlrdy /\ new.volume = chip.volume /\ new.muted = chip.muted
  BY <1>3 DEF Chips
<1> HIDE DEF new
<1>5. PICK l \in {"down_power"} :
        /\ Outcome(l, new, "down_power", "down_power") /\ at'["host"] = l /\ doing' = doing
        /\ AllTold \in Nat /\ Silent \in Nat /\ Silent <= AllTold
        /\ UNCHANGED direct_output_running
        /\ RunInv' /\ DownInv' /\ QuietInv' => MInv'
  BY <1>1, <1>2, <1>4, RunCases
<1>6. RunInv' /\ DownInv'
  BY <1>1, <1>4, <1>5 DEF MInv, RunInv, DownInv, Outcome
<1>7. QuietInv'
  BY <1>1, <1>3, <1>4, <1>5 DEF MInv, QuietInv, DownInv, Outcome
<1>8. CutMuted /\ ReleaseRunning
  BY <1>1, <1>3, <1>4, <1>5 DEF CutMuted, ReleaseRunning, MInv, RunInv, DownInv, Chips,
     Outputs, Silent, Outcome
<1> QED BY <1>5, <1>6, <1>7, <1>8 DEF MStep

LEMMA DownPowerKeepsM ==
  ASSUME IInv, MInv, DownPower
  PROVE  MStep
<1> DEFINE new == [chip EXCEPT !.power = {}]
<1>1. at["host"] = "down_power" /\ doing["host"] = "prepare" /\ Write("host", new, "err", "err")
  BY DEF DownPower, Host, PowerDown, IInv, HostInv, ProbeLabels, BindLabels, StopLabels,
     AfterProbeWrite, AfterRoute
<1>2. "down_power" \in RunLabels /\ "err" \in RunLabels
  BY DEF RunLabels
<1>3. chip \in Chips /\ ~direct_output_running /\ ~Starting
  BY <1>1, <1>2, RunPlace
<1>4. /\ new.reset = chip.reset /\ new.staged = chip.staged
      /\ new.clock = chip.clock /\ new.power = {} /\ new.run = chip.run
      /\ new.dlrdy = chip.dlrdy /\ new.volume = chip.volume /\ new.muted = chip.muted
  BY <1>3 DEF Chips
<1> HIDE DEF new
<1>5. PICK l \in {"err"} :
        /\ Outcome(l, new, "err", "err") /\ at'["host"] = l /\ doing' = doing
        /\ AllTold \in Nat /\ Silent \in Nat /\ Silent <= AllTold
        /\ UNCHANGED direct_output_running
        /\ RunInv' /\ DownInv' /\ QuietInv' => MInv'
  BY <1>1, <1>2, <1>4, RunCases
<1>6. RunInv' /\ DownInv'
  BY <1>1, <1>4, <1>5 DEF MInv, RunInv, DownInv, Outcome
<1>7. QuietInv'
  BY <1>1, <1>3, <1>4, <1>5 DEF MInv, QuietInv, DownInv, Outcome
<1>8. CutMuted /\ ReleaseRunning
  BY <1>1, <1>3, <1>4, <1>5 DEF CutMuted, ReleaseRunning, MInv, RunInv, DownInv, Chips,
     Outputs, Silent, Outcome
<1> QED BY <1>5, <1>6, <1>7, <1>8 DEF MStep

(* A failing verification means that a transfer has gone wrong before or   *)
(* goes wrong now.                                                         *)
LEMMA RunVerifyKeepsM ==
  ASSUME IInv, MInv, RunVerify
  PROVE  MStep
<1>1. /\ at["host"] = "verify" /\ doing["host"] = "prepare" /\ "verify" \in RunLabels
      /\ Read("host", RunVerified, "ok", "down_mute")
      /\ direct_output_running' = (at'["host"] = "ok")
      /\ at'["host"] = "ok" => analog_boundary' = 0
      /\ at'["host"] # "ok" => UNCHANGED analog_boundary
  BY DEF RunVerify, Host, PowerDown, RunLabels
<1>2. /\ TypeOK /\ "host" \in Contexts /\ "ok" \in Labels /\ "down_mute" \in Labels
      /\ ~direct_output_running /\ ~Starting /\ at["gate"] \in {"idle", "lock"}
      /\ analog_boundary = 0
  BY <1>1, RunPlace DEF Labels, RunLabels, MInv, RequestInv
<1>3. PICK l \in {"ok", "down_mute"} :
        /\ at' = [at EXCEPT !["host"] = l]
        /\ \/ l = "ok" /\ ~chip.reset /\ RunVerified /\ AllTold' = AllTold
           \/ l = "down_mute" /\ (chip.reset \/ ~RunVerified) /\ AllTold' = AllTold
           \/ l = "down_mute" /\ AllTold' = AllTold + 1
  BY <1>1, <1>2, FailCases DEF Read, Goto
<1>4. /\ AllTold \in Nat /\ Silent \in Nat /\ Silent <= AllTold /\ Silent' = Silent
      /\ UNCHANGED <<chip, doing>>
  BY <1>1, <1>2, FailCases DEF Read
<1>5. /\ at'["host"] = l /\ at'["gate"] = at["gate"] /\ analog_boundary' = 0
      /\ l = "ok" => direct_output_running'
      /\ ~Starting' /\ ~Stopping'
  BY <1>1, <1>2, <1>3, <1>4 DEF TypeOK, Contexts, Starting, Stopping
<1>6. chip.reset \/ RunVerified \/ AllTold >= 1
  BY <1>1, <1>2, <1>4 DEF MInv, RunInv, StagedInv, RunVerified, Contract
<1>7. AllTold' \in Nat /\ (l = "ok" \/ chip.reset \/ AllTold' >= 1)
  BY <1>3, <1>4, <1>6
<1>8. DownInv' /\ QuietInv'
  BY <1>3, <1>4, <1>5, <1>7 DEF DownInv, QuietInv
<1>9. MInv'
  BY <1>1, <1>2, <1>4, <1>5, <1>8 DEF MInv, BindInv, OffInv, StagedInv, RunInv, StandbyInv,
     RequestInv
<1> QED BY <1>4, <1>9 DEF MStep, CutMuted, ReleaseRunning

(* STANDBY mutes first, and nothing of it unmutes.                         *)
LEMMA StandbyPlace ==
  ASSUME IInv, MInv, doing["host"] = "shutdown", at["host"] \in StopLabels
  PROVE  /\ TypeOK /\ chip \in Chips /\ "host" \in Contexts
         /\ direct_output_running /\ ~Starting /\ at["gate"] \in {"idle", "lock"}
         /\ StopLabels \subseteq Labels
<1>1. HoldsLock("host")
  BY DEF HoldsLock, StopLabels, Unlocked
<1> QED BY <1>1, HostAlone DEF IInv, TypeOK, MInv, StandbyInv, Stopping, Starting, StopLabels,
      Labels, Contexts, AfterRoute

(* A step of STANDBY keeps everything if it keeps the mute.                *)
LEMMA StandbyKeeps ==
  ASSUME IInv, MInv, doing["host"] = "shutdown", at["host"] \in {"mute", "cores", "power"},
         doing' = doing, UNCHANGED <<direct_output_running, analog_boundary>>,
         NEW l \in StopLabels, at' = [at EXCEPT !["host"] = l],
         chip'.staged = chip.staged, chip'.reset = chip.reset,
         chip.muted => chip'.muted, chip'.muted \in BOOLEAN,
         Silent \in Nat, Silent' \in {Silent, Silent + 1},
         at["host"] = "mute" => l = "err" \/ Silent' # 0 \/ chip'.muted,
         at["host"] = "mute" => l \in {"cores", "err"},
         \/ chip'.power = chip.power /\ chip'.run = chip.run
         \/ at["host"] \in {"cores", "power"}
  PROVE  MStep
<1>0. at["host"] \in StopLabels
  BY DEF StopLabels
<1>1. /\ direct_output_running /\ ~Starting /\ at["gate"] \in {"idle", "lock"}
      /\ at'["gate"] = at["gate"] /\ at'["host"] = l /\ Stopping
  BY <1>0, StandbyPlace DEF TypeOK, Contexts, Stopping
<1>2. ~Starting' /\ Stopping'
  BY <1>1 DEF Starting, Stopping, StopLabels
<1>4. StandbyInv'
  BY <1>1, <1>2 DEF MInv, StandbyInv, StopLabels
<1>5. l \notin {"down_mute", "down_cores", "down_power"}
  BY DEF StopLabels
<1>6. MInv'
  BY <1>1, <1>2, <1>4, <1>5 DEF MInv, BindInv, OffInv, StagedInv, RunInv, DownInv, QuietInv,
     RequestInv
<1>7. CutMuted /\ ReleaseRunning
  BY <1>0, <1>1, StandbyPlace DEF CutMuted, ReleaseRunning, MInv, StandbyInv, Silent, Chips
<1> QED BY <1>6, <1>7 DEF MStep

(* The three writes of STANDBY.                                            *)
LEMMA StandbyMuteKeepsM ==
  ASSUME IInv, MInv, StandbyMute
  PROVE  MStep
<1> DEFINE new == [chip EXCEPT !.muted = TRUE]
<1>1. at["host"] = "mute" /\ doing["host"] = "shutdown" /\ Write("host", new, "cores", "err")
  BY DEF StandbyMute, Host, StandbyMuted
<1>2. "mute" \in StopLabels /\ "cores" \in StopLabels /\ "err" \in StopLabels
  BY DEF StopLabels
<1>3. /\ TypeOK /\ chip \in Chips /\ "host" \in Contexts
      /\ "cores" \in Labels /\ "err" \in Labels
  BY <1>1, <1>2, StandbyPlace
<1>4. /\ new.reset = chip.reset /\ new.staged = chip.staged
      /\ new.run = chip.run /\ new.power = chip.power /\ new.muted = TRUE
      /\ chip.muted \in BOOLEAN
  BY <1>3 DEF Chips
<1> HIDE DEF new
<1>5. PICK l \in {"cores", "err"} :
        at' = [at EXCEPT !["host"] = l] /\ Outcome(l, new, "cores", "err")
  BY <1>1, <1>3, WriteCases
<1>6. /\ Silent \in Nat /\ Silent' \in {Silent, Silent + 1}
      /\ UNCHANGED <<direct_output_running, analog_boundary, doing>>
      /\ chip'.reset = chip.reset /\ chip'.staged = chip.staged
      /\ chip.muted => chip'.muted
      /\ chip'.muted \in BOOLEAN
      /\ chip'.power = chip.power /\ chip'.run = chip.run
  BY <1>1, <1>3, <1>4, <1>5, WriteCases DEF Outcome
<1>7. l = "err" \/ Silent' # 0 \/ chip'.muted
  BY <1>4, <1>5, <1>6 DEF Outcome
<1> QED BY <1>1, <1>2, <1>5, <1>6, <1>7, StandbyKeeps

LEMMA StandbyCoresKeepsM ==
  ASSUME IInv, MInv, StandbyCores
  PROVE  MStep
<1> DEFINE new == [chip EXCEPT !.run = {}]
<1>1. at["host"] = "cores" /\ doing["host"] = "shutdown" /\ Write("host", new, "power", "err")
  BY DEF StandbyCores, Host
<1>2. "cores" \in StopLabels /\ "power" \in StopLabels /\ "err" \in StopLabels
  BY DEF StopLabels
<1>3. /\ TypeOK /\ chip \in Chips /\ "host" \in Contexts
      /\ "power" \in Labels /\ "err" \in Labels
  BY <1>1, <1>2, StandbyPlace
<1>4. /\ new.reset = chip.reset /\ new.staged = chip.staged
      /\ new.run = {} /\ new.power = chip.power /\ new.muted = chip.muted
      /\ chip.muted \in BOOLEAN
  BY <1>3 DEF Chips
<1> HIDE DEF new
<1>5. PICK l \in {"power", "err"} :
        at' = [at EXCEPT !["host"] = l] /\ Outcome(l, new, "power", "err")
  BY <1>1, <1>3, WriteCases
<1>6. /\ Silent \in Nat /\ Silent' \in {Silent, Silent + 1}
      /\ UNCHANGED <<direct_output_running, analog_boundary, doing>>
      /\ chip'.reset = chip.reset /\ chip'.staged = chip.staged
      /\ chip.muted => chip'.muted
      /\ chip'.muted \in BOOLEAN
      /\ at["host"] # "mute"
  BY <1>1, <1>3, <1>4, <1>5, WriteCases DEF Outcome
<1> QED BY <1>1, <1>2, <1>5, <1>6, StandbyKeeps

LEMMA StandbyPowerKeepsM ==
  ASSUME IInv, MInv, StandbyPower
  PROVE  MStep
<1> DEFINE new == [chip EXCEPT !.power = {}]
<1>1. at["host"] = "power" /\ doing["host"] = "shutdown" /\ Write("host", new, "verify", "err")
  BY DEF StandbyPower, Host
<1>2. "power" \in StopLabels /\ "verify" \in StopLabels /\ "err" \in StopLabels
  BY DEF StopLabels
<1>3. /\ TypeOK /\ chip \in Chips /\ "host" \in Contexts
      /\ "verify" \in Labels /\ "err" \in Labels
  BY <1>1, <1>2, StandbyPlace
<1>4. /\ new.reset = chip.reset /\ new.staged = chip.staged
      /\ new.run = chip.run /\ new.power = {} /\ new.muted = chip.muted
      /\ chip.muted \in BOOLEAN
  BY <1>3 DEF Chips
<1> HIDE DEF new
<1>5. PICK l \in {"verify", "err"} :
        at' = [at EXCEPT !["host"] = l] /\ Outcome(l, new, "verify", "err")
  BY <1>1, <1>3, WriteCases
<1>6. /\ Silent \in Nat /\ Silent' \in {Silent, Silent + 1}
      /\ UNCHANGED <<direct_output_running, analog_boundary, doing>>
      /\ chip'.reset = chip.reset /\ chip'.staged = chip.staged
      /\ chip.muted => chip'.muted
      /\ chip'.muted \in BOOLEAN
      /\ at["host"] # "mute"
  BY <1>1, <1>3, <1>4, <1>5, WriteCases DEF Outcome
<1> QED BY <1>1, <1>2, <1>5, <1>6, StandbyKeeps

(* A STANDBY that verifies left the outputs off; one that does not will    *)
(* assert reset.                                                           *)
LEMMA StandbyVerifyKeepsM ==
  ASSUME IInv, MInv, StandbyVerify
  PROVE  MStep
<1>1. /\ at["host"] = "verify" /\ doing["host"] = "shutdown" /\ "verify" \in StopLabels
      /\ Read("host", chip.power = {} /\ chip.run = {}, "ok", "err")
      /\ direct_output_running' = (at'["host"] # "ok")
      /\ at'["host"] = "ok" => analog_boundary' = 0
      /\ at'["host"] # "ok" => UNCHANGED analog_boundary
  BY DEF StandbyVerify, StandbyFlag, Host, StopLabels
<1>2. /\ TypeOK /\ "host" \in Contexts /\ direct_output_running /\ ~Starting
      /\ at["gate"] \in {"idle", "lock"} /\ Stopping
  BY <1>1, StandbyPlace DEF Stopping
<1>3. PICK l \in {"ok", "err"} :
        at' = [at EXCEPT !["host"] = l] /\ (l = "ok" => chip.power = {} /\ chip.run = {})
  BY <1>1 DEF Read, Goto
<1>4. /\ AllTold \in Nat /\ Silent \in Nat /\ Silent <= AllTold /\ Silent' = Silent
      /\ AllTold' \in {AllTold, AllTold + 1} /\ UNCHANGED <<chip, doing>>
  BY <1>1, <1>2, FailCases DEF Read
<1>5. /\ at'["host"] = l /\ at'["gate"] = at["gate"]
      /\ l = "err" => direct_output_running'
      /\ ~Starting' /\ (Stopping' => l = "err")
  BY <1>1, <1>2, <1>3, <1>4 DEF TypeOK, Contexts, Starting, Stopping, StopLabels
<1>6. Silent = 0 => chip.reset \/ chip.muted
  BY <1>1, <1>2 DEF MInv, StandbyInv
<1>7. QuietInv' /\ DownInv'
  BY <1>3, <1>4, <1>5, <1>6 DEF QuietInv, DownInv
<1>8. StandbyInv' /\ RequestInv'
  BY <1>1, <1>2, <1>3, <1>4, <1>5 DEF MInv, StandbyInv, RequestInv
<1>9. MInv'
  BY <1>1, <1>2, <1>4, <1>5, <1>7, <1>8 DEF MInv, BindInv, OffInv, StagedInv, RunInv
<1> QED BY <1>4, <1>9 DEF MStep, CutMuted, ReleaseRunning

(* In reset there is nothing to keep.                                      *)
LEMMA StandbyFailedKeepsM ==
  ASSUME IInv, MInv, StandbyFailed
  PROVE  MStep
<1>1. /\ at["host"] = "reset" /\ chip'.reset /\ at' = [at EXCEPT !["host"] = "idle"]
      /\ doing' = [doing EXCEPT !["host"] = "none"]
      /\ UNCHANGED <<direct_output_running, analog_boundary, faults>>
  BY DEF StandbyFailed, InReset, PowerOn, Goto, driver
<1>2. doing["host"] = "shutdown"
  BY <1>1 DEF IInv, HostInv, ProbeLabels, BindLabels, RunLabels, AfterProbeWrite, AfterRoute
<1>3. /\ at'["host"] = "idle" /\ at'["gate"] = at["gate"] /\ doing'["host"] = "none"
      /\ doing'["gate"] = doing["gate"] /\ Silent' = Silent
  BY <1>1 DEF IInv, TypeOK, Contexts, Silent
<1>4. ~Starting' /\ ~Stopping'
  BY <1>3 DEF Starting, Stopping
<1>5. MInv'
  BY <1>1, <1>3, <1>4 DEF MInv, BindInv, OffInv, StagedInv, RunInv, DownInv, QuietInv,
     StandbyInv, RequestInv
<1> QED BY <1>1, <1>5 DEF MStep, CutMuted, ReleaseRunning

(* A request of the gate runs beside a host that waits: only what concerns *)
(* requests has to be shown.                                               *)
LEMMA RequestKeeps ==
  ASSUME IInv, MInv, at["gate"] \notin {"idle", "lock"}, direct_output_running,
         doing' = doing, UNCHANGED direct_output_running,
         NEW l \in Labels, at' = [at EXCEPT !["gate"] = l],
         chip'.staged = chip.staged, chip'.reset = chip.reset,
         Silent \in Nat, Silent' \in {Silent, Silent + 1}, RequestInv'
  PROVE  MInv'
<1>1. /\ at["host"] \in {"idle", "lock", "reset"} /\ ~Starting
      /\ at'["host"] = at["host"] /\ at'["gate"] = l
  BY GateAlone DEF IInv, TypeOK, Contexts
<1>2. doing["host"] # "bind" /\ ~Starting' /\ (Stopping' <=> Stopping)
  BY <1>1 DEF Starting, Stopping
<1> QED BY <1>1, <1>2 DEF MInv, BindInv, OffInv, StagedInv, RunInv, DownInv, QuietInv,
     StandbyInv

(* A request past its checks finds the codec running, as the flag says.    *)
LEMMA RequestPlace ==
  ASSUME IInv, MInv, at["gate"] \in {"check", "premute", "write", "verify"}
  PROVE  /\ TypeOK /\ chip \in Chips /\ "gate" \in Contexts /\ direct_output_running
         /\ doing["gate"] \in AllRequests
         /\ RequestLabels \subseteq Labels
         /\ at["host"] # "reset" => chip.reset \/ Runs
<1>1. at["host"] \in {"idle", "lock", "reset"} /\ ~Starting /\ direct_output_running
  BY GateAlone DEF MInv, RequestInv
<1>2. doing["gate"] \in AllRequests /\ RequestLabels \subseteq Labels
  BY DEF IInv, GateInv, RequestLabels, Labels, AfterRoute
<1>3. at["host"] # "reset" => chip.reset \/ Runs
  BY <1>1 DEF IInv, FlagInv, Stopping, StopLabels
<1> QED BY <1>1, <1>2, <1>3 DEF IInv, TypeOK, Contexts

(* Reads of a request, and its entry.                                      *)
LEMMA RequestReadsKeepM ==
  ASSUME IInv, MInv, RequestEntry \/ RequestCheck \/ RequestVerify
  PROVE  MStep
<1>1. TypeOK /\ UNCHANGED <<chip, doing, direct_output_running>>
  BY DEF IInv, RequestEntry, RequestCheck, RequestVerify, Read, driver
<1>2. Silent \in Nat /\ Silent' = Silent
  <2>1. RequestEntry => UNCHANGED faults
    BY DEF RequestEntry
  <2> QED BY <1>1, <2>1, FailCases DEF RequestCheck, RequestVerify, Read
<1>3. /\ at["gate"] \in {"entry", "check", "verify"}
      /\ doing["gate"] \in AllRequests
  BY DEF IInv, GateInv, RequestEntry, RequestCheck, RequestVerify
<1>4. CASE RequestEntry
  <2>1. PICK l \in {"err", "check", "premute", "write"} :
          /\ at' = [at EXCEPT !["gate"] = l] /\ UNCHANGED analog_boundary
          /\ l # "err" => direct_output_running
          /\ l = "check" => doing["gate"] \in {"VOL14", "VOL28"}
          /\ l = "premute" => doing["gate"] = "DAC_OFF"
          /\ l = "write" => doing["gate"] # "DAC_OFF"
          /\ l = "write" /\ doing["gate"] = "HIZ" => analog_boundary = 1
          /\ l = "write" /\ doing["gate"] = "UNMUTE" => analog_boundary = 0
    BY <1>4 DEF RequestEntry, Checked, Permitted, Boundary, Goto, driver
  <2>2. at'["gate"] = l /\ l \in Labels
    BY <1>1, <2>1 DEF TypeOK, Contexts, Labels
  <2>3. RequestInv'
    BY <1>1, <1>2, <1>3, <2>1, <2>2 DEF MInv, RequestInv
  <2>4. CASE l = "err"
    <3>1. /\ at["host"] \in {"idle", "lock", "reset"} /\ ~Starting
          /\ at'["host"] = at["host"]
      BY <1>1, <1>3, <2>1, GateAlone DEF TypeOK, Contexts
    <3>2. doing["host"] # "bind" /\ ~Starting' /\ (Stopping' <=> Stopping) /\ UNCHANGED faults
      BY <1>1, <1>4, <3>1 DEF Starting, Stopping, RequestEntry
    <3>3. MInv'
      BY <1>1, <1>2, <2>3, <3>1, <3>2, FailCases DEF MInv, BindInv, OffInv, StagedInv,
         RunInv, DownInv, QuietInv, StandbyInv
    <3> QED BY <1>1, <3>3 DEF MStep, CutMuted, ReleaseRunning
  <2>5. CASE l # "err"
    <3>1. MInv'
      BY <1>1, <1>2, <1>3, <2>1, <2>2, <2>3, <2>5, RequestKeeps
    <3> QED BY <1>1, <3>1 DEF MStep, CutMuted, ReleaseRunning
  <2> QED BY <2>4, <2>5
<1>5. CASE RequestCheck
  <2>1. PICK l \in {"write", "err"} : at' = [at EXCEPT !["gate"] = l]
    BY <1>5 DEF RequestCheck, Read, Goto
  <2>2. /\ at'["gate"] = l /\ l \in Labels /\ UNCHANGED analog_boundary
        /\ at["gate"] = "check" /\ direct_output_running
    BY <1>1, <1>5, <2>1 DEF RequestCheck, driver, TypeOK, Contexts, Labels, MInv, RequestInv
  <2>3. RequestInv'
    BY <1>1, <1>2, <2>1, <2>2 DEF MInv, RequestInv
  <2>4. MInv'
    BY <1>1, <1>2, <1>3, <2>1, <2>2, <2>3, RequestKeeps
  <2> QED BY <1>1, <2>4 DEF MStep, CutMuted, ReleaseRunning
<1>6. CASE RequestVerify
  <2>1. PICK l \in {"ok", "err"} :
          /\ at' = [at EXCEPT !["gate"] = l]
          /\ l = "ok" => ~chip.reset /\ RequestHolds(doing["gate"])
    BY <1>6 DEF RequestVerify, Read, Goto
  <2>2. /\ at'["gate"] = l /\ l \in Labels
        /\ at["gate"] = "verify" /\ direct_output_running
    BY <1>1, <1>6, <2>1 DEF RequestVerify, TypeOK, Contexts, Labels, MInv, RequestInv
  <2>3. \/ UNCHANGED analog_boundary
        \/ l = "ok" /\ doing["gate"] \in {"DAC_OFF", "HIZ"}
    BY <1>6, <2>2 DEF RequestVerify
  <2>4. l = "ok" /\ doing["gate"] \in {"DAC_OFF", "HIZ"} => chip.muted
    BY <2>1 DEF RequestHolds, DirectRoute
  <2>5. RequestInv'
    BY <1>1, <1>2, <2>1, <2>2, <2>3, <2>4 DEF MInv, RequestInv
  <2>6. MInv'
    BY <1>1, <1>2, <1>3, <2>1, <2>2, <2>5, RequestKeeps
  <2> QED BY <1>1, <2>6 DEF MStep, CutMuted, ReleaseRunning
<1> QED BY <1>4, <1>5, <1>6

(* Writes of a request.                                                    *)
LEMMA RequestMuteKeepsM ==
  ASSUME IInv, MInv, RequestMute
  PROVE  MStep
<1> DEFINE new == [chip EXCEPT !.muted = TRUE]
<1>1. at["gate"] = "premute" /\ Write("gate", new, "write", "err")
  BY DEF RequestMute
<1>2. /\ TypeOK /\ chip \in Chips /\ "gate" \in Contexts /\ direct_output_running
      /\ "write" \in Labels /\ "err" \in Labels /\ doing["gate"] = "DAC_OFF"
  BY <1>1, RequestPlace DEF RequestLabels, MInv, RequestInv
<1>3. /\ new.reset = chip.reset /\ new.staged = chip.staged
      /\ new.run = chip.run /\ new.power = chip.power /\ new.muted = TRUE
  BY <1>2 DEF Chips
<1> HIDE DEF new
<1>4. PICK l \in {"write", "err"} :
        at' = [at EXCEPT !["gate"] = l] /\ Outcome(l, new, "write", "err")
  <2>1. "gate" \in Contexts /\ TypeOK /\ "write" \in Labels /\ "err" \in Labels
    BY <1>2
  <2>2. Write("gate", new, "write", "err")
    BY <1>1
  <2> QED BY <2>1, <2>2, WriteCases
<1>5. /\ Silent \in Nat /\ Silent' \in {Silent, Silent + 1}
      /\ UNCHANGED <<direct_output_running, analog_boundary, doing>>
      /\ chip'.reset = chip.reset /\ chip'.staged = chip.staged
      /\ chip'.power = chip.power /\ chip'.run = chip.run
      /\ chip.muted => chip'.muted
  BY <1>1, <1>2, <1>3, <1>4, WriteCases DEF Outcome
<1>6. l = "err" \/ Silent' # 0 \/ chip'.muted
  BY <1>3, <1>4, <1>5 DEF Outcome
<1>7. at'["gate"] = l /\ l \in Labels
  BY <1>2, <1>4 DEF TypeOK, Contexts
<1>8. RequestInv'
  BY <1>1, <1>2, <1>4, <1>5, <1>6, <1>7 DEF MInv, RequestInv
<1>9. MInv'
  BY <1>1, <1>2, <1>4, <1>5, <1>7, <1>8, RequestKeeps
<1> QED BY <1>5, <1>9 DEF MStep, CutMuted, ReleaseRunning

LEMMA RequestWriteKeepsM ==
  ASSUME IInv, MInv, RequestWrite
  PROVE  MStep
<1> DEFINE q == doing["gate"]
           new == Requested(q)
<1>1. at["gate"] = "write" /\ Write("gate", new, "verify", "err")
  BY DEF RequestWrite
<1>2. /\ TypeOK /\ chip \in Chips /\ "gate" \in Contexts /\ direct_output_running
      /\ "verify" \in Labels /\ "err" \in Labels /\ q \in AllRequests
      /\ at["host"] # "reset" => chip.reset \/ Runs
  BY <1>1, RequestPlace DEF RequestLabels
<1>3. /\ new.reset = chip.reset /\ new.staged = chip.staged /\ new.run = chip.run
      /\ new.power = chip.power \/ q \in {"DAC_OFF", "HIZ"}
      /\ q = "UNMUTE" \/ (chip.muted => new.muted)
  BY <1>2 DEF Chips, Requested
<1> HIDE DEF new
<1>4. PICK l \in {"verify", "err"} :
        at' = [at EXCEPT !["gate"] = l] /\ Outcome(l, new, "verify", "err")
  <2>1. "gate" \in Contexts /\ TypeOK /\ "verify" \in Labels /\ "err" \in Labels
    BY <1>2
  <2>2. Write("gate", new, "verify", "err")
    BY <1>1
  <2> QED BY <2>1, <2>2, WriteCases
<1>5. /\ Silent \in Nat /\ Silent' \in {Silent, Silent + 1}
      /\ UNCHANGED <<direct_output_running, analog_boundary, doing>>
      /\ chip'.reset = chip.reset /\ chip'.staged = chip.staged /\ chip'.run = chip.run
      /\ chip'.power = chip.power \/ q \in {"DAC_OFF", "HIZ"}
      /\ q = "UNMUTE" \/ (chip.muted => chip'.muted)
  BY <1>1, <1>2, <1>3, <1>4, WriteCases DEF Outcome
<1>6. at'["gate"] = l /\ l \in Labels
  BY <1>2, <1>4 DEF TypeOK, Contexts
<1>7. RequestInv'
  BY <1>1, <1>2, <1>4, <1>5, <1>6 DEF MInv, RequestInv
<1>8. MInv'
  BY <1>1, <1>2, <1>4, <1>5, <1>6, <1>7, RequestKeeps
<1>9. CutMuted
  BY <1>1, <1>2, <1>5 DEF CutMuted, MInv, RequestInv, Silent, Chips
<1>10. ReleaseRunning
  BY <1>1, <1>2, <1>5 DEF ReleaseRunning, Runs
<1> QED BY <1>8, <1>9, <1>10 DEF MStep

(* Steps that transfer nothing: calls begin, take the lock and return.     *)
Still ==
  UNCHANGED <<chip, direct_output_running, analog_boundary, faults>>

(* They leave the tally of faults alone.                                   *)
LEMMA StillTally ==
  ASSUME IInv, Still
  PROVE  /\ AllTold' = AllTold /\ Silent' = Silent
         /\ AllTold \in Nat /\ Silent \in Nat /\ Silent <= AllTold
BY FailCases DEF IInv, Still

(* Calls begin: at the lock the host is in none of the places above.       *)
LEMMA BeginKeepsM ==
  ASSUME IInv, MInv, BeginBind \/ BeginStartup \/ BeginPrepare \/ BeginShutdown
  PROVE  MInv' /\ Still
<1>1. PICK c \in {"bind", "startup", "prepare", "shutdown"} :
        /\ at' = [at EXCEPT !["host"] = "lock"] /\ doing' = [doing EXCEPT !["host"] = c]
        /\ at["host"] = IF c = "bind" THEN "unbound" ELSE "idle"
  BY DEF BeginBind, BeginStartup, BeginPrepare, BeginShutdown, Begin, Goto
<1>2. Still
  BY DEF BeginBind, BeginStartup, BeginPrepare, BeginShutdown, Begin, driver, Still
<1>3. /\ at'["host"] = "lock" /\ at'["gate"] = at["gate"]
      /\ doing'["host"] = c /\ doing'["gate"] = doing["gate"] /\ doing["host"] = "none"
  BY <1>1 DEF IInv, TypeOK, Contexts, HostInv, ProbeLabels, BindLabels, RunLabels,
     StopLabels, AfterProbeWrite, AfterRoute
<1>4. Starting' <=> Starting
  BY <1>1, <1>3 DEF Starting
<1>5. ~Stopping' /\ "lock" \notin DOMAIN AfterRoute
  BY <1>3 DEF Stopping, StopLabels, AfterRoute
<1> QED BY <1>1, <1>2, <1>3, <1>4, <1>5, StillTally DEF Still, MInv, BindInv, OffInv,
     StagedInv, RunInv, DownInv, QuietInv, StandbyInv, RequestInv

LEMMA BeginRequestKeepsM ==
  ASSUME IInv, MInv, BeginRequest
  PROVE  MInv' /\ Still
<1>1. PICK q \in Requests : /\ at' = [at EXCEPT !["gate"] = "lock"]
                            /\ doing' = [doing EXCEPT !["gate"] = q]
  BY DEF BeginRequest, Begin, Goto
<1>2. Still
  BY DEF BeginRequest, Begin, driver, Still
<1>3. /\ at'["gate"] = "lock" /\ at'["host"] = at["host"] /\ doing'["host"] = doing["host"]
  BY <1>1 DEF IInv, TypeOK, Contexts
<1>4. (Starting' <=> Starting) /\ (Stopping' <=> Stopping)
  BY <1>3 DEF Starting, Stopping
<1> QED BY <1>2, <1>3, <1>4, StillTally DEF Still, MInv, BindInv, OffInv,
     StagedInv, RunInv, DownInv, QuietInv, StandbyInv, RequestInv

(* The mutex is taken.                                                     *)
LEMMA AcquireKeepsM ==
  ASSUME IInv, MInv, NEW a \in Contexts, Acquire(a)
  PROVE  MInv' /\ Still
<1>1. at[a] = "lock" /\ at' = [at EXCEPT ![a] = "entry"] /\ doing' = doing
  BY DEF Acquire, Goto
<1>2. Still
  BY DEF Acquire, driver, Still
<1>3. /\ a = "host" => at["host"] = "lock" /\ at'["host"] = "entry" /\ at'["gate"] = at["gate"]
      /\ a = "gate" => at["gate"] = "lock" /\ at'["gate"] = "entry" /\ at'["host"] = at["host"]
      /\ a \in {"host", "gate"}
  BY <1>1 DEF IInv, TypeOK, Contexts
<1>4. (Starting' <=> Starting) /\ (Stopping' <=> Stopping)
  BY <1>1, <1>3 DEF Starting, Stopping, StopLabels
<1>5. "entry" \notin DOMAIN AfterRoute
  BY DEF AfterRoute
<1> QED BY <1>1, <1>2, <1>3, <1>4, <1>5, StillTally DEF Still, MInv, BindInv, OffInv, StagedInv,
     RunInv, DownInv, QuietInv, StandbyInv, RequestInv

(* Calls that find nothing to do, and the first step of RUN and STANDBY.   *)
LEMMA EntryKeepsM ==
  ASSUME IInv, MInv, Startup \/ RunEntry \/ ShutdownEntry
  PROVE  MInv' /\ Still
<1>1. PICK l \in {"ok", "clock", "mute"} :
        /\ at' = [at EXCEPT !["host"] = l] /\ doing' = doing /\ at["host"] = "entry"
        /\ doing["host"] \in {"startup", "prepare", "shutdown"}
        /\ l = "clock" => doing["host"] = "prepare"
        /\ l = "mute" => direct_output_running /\ doing["host"] = "shutdown"
  BY DEF Startup, RunEntry, ShutdownEntry, Host, Goto
<1>2. Still
  BY DEF Startup, RunEntry, ShutdownEntry, driver, Still
<1>3. at'["host"] = l /\ at'["gate"] = at["gate"]
  BY <1>1 DEF IInv, TypeOK, Contexts
<1>4. /\ ~Starting' /\ ~Starting
      /\ Stopping' => direct_output_running
  BY <1>1, <1>3 DEF Starting, Stopping, StopLabels
<1> QED BY <1>1, <1>2, <1>3, <1>4, StillTally DEF Still, MInv, BindInv, OffInv,
     StagedInv, RunInv, DownInv, QuietInv, StandbyInv, RequestInv

(* The mutex is released; the bind hands a staged, muted route over.       *)
LEMMA UnlockGateKeepsM ==
  ASSUME IInv, MInv, Unlock("gate")
  PROVE  MInv' /\ Still
<1>1. at["gate"] \in {"ok", "err"} /\ doing["gate"] \in AllRequests
  BY DEF Unlock, IInv, GateInv
<1>2. /\ at' = [at EXCEPT !["gate"] = "idle"] /\ doing' = [doing EXCEPT !["gate"] = "none"]
  BY <1>1 DEF Unlock, AfterUnlock, Goto, AllRequests
<1>3. Still
  BY DEF Unlock, driver, Still
<1>4. at'["gate"] = "idle" /\ at'["host"] = at["host"] /\ doing'["host"] = doing["host"]
  BY <1>2 DEF IInv, TypeOK, Contexts
<1>5. (Starting' <=> Starting) /\ (Stopping' <=> Stopping)
  BY <1>4 DEF Starting, Stopping
<1> QED BY <1>3, <1>4, <1>5, StillTally DEF Still, MInv, BindInv, OffInv,
     StagedInv, RunInv, DownInv, QuietInv, StandbyInv, RequestInv

LEMMA UnlockHostKeepsM ==
  ASSUME IInv, MInv, Unlock("host")
  PROVE  MInv' /\ Still
<1>1. /\ at["host"] \in {"ok", "err"}
      /\ doing["host"] \in {"bind", "startup", "prepare", "shutdown"}
      /\ doing["host"] = "startup" => at["host"] = "ok"
  BY DEF Unlock, IInv, HostInv, ProbeLabels, AfterProbeWrite
<1>2. PICK l \in {"idle", "dead", "reset"} :
        /\ l = AfterUnlock("host")
        /\ l = "dead" <=> at["host"] = "err" /\ doing["host"] = "bind"
        /\ l = "reset" <=> at["host"] = "err" /\ doing["host"] = "shutdown"
  BY <1>1 DEF AfterUnlock, AfterFailedStandby
<1>3. /\ at' = [at EXCEPT !["host"] = l]
      /\ doing' = [doing EXCEPT !["host"] = IF l = "reset" THEN "shutdown" ELSE "none"]
  BY <1>1, <1>2 DEF Unlock, Goto
<1>4. Still
  BY DEF Unlock, driver, Still
<1>5. /\ at'["host"] = l /\ at'["gate"] = at["gate"]
      /\ doing'["host"] = IF l = "reset" THEN "shutdown" ELSE "none"
      /\ doing'["gate"] = doing["gate"]
  BY <1>3 DEF IInv, TypeOK, Contexts
<1>6. /\ Starting' <=> l = "dead"
      /\ Starting <=> doing["host"] = "bind"
      /\ Stopping' => Stopping
  BY <1>1, <1>2, <1>5 DEF Starting, Stopping, StopLabels
<1>7. StagedInv' /\ QuietInv'
  <2>1. CASE doing["host"] = "bind" /\ l # "dead"
    <3>1. at["host"] = "ok" /\ chip.power = {} /\ chip.run = {}
      BY <1>1, <1>2, <1>6, <2>1 DEF MInv, OffInv
    <3>2. Silent = 0 => RouteRegs \subseteq chip.staged /\ chip.muted
      BY <2>1, <3>1 DEF MInv, BindInv
    <3> QED BY <1>4, <3>1, <3>2, StillTally DEF Still, StagedInv, QuietInv
  <2>2. CASE doing["host"] # "bind" \/ l = "dead"
    BY <1>1, <1>2, <1>4, <1>5, <1>6, <2>2, StillTally DEF Still, MInv, StagedInv, QuietInv
  <2> QED BY <2>1, <2>2
<1>8. BindInv' /\ OffInv' /\ RunInv' /\ DownInv' /\ StandbyInv' /\ RequestInv'
  BY <1>1, <1>2, <1>4, <1>5, <1>6, StillTally DEF Still, MInv, BindInv, OffInv, RunInv, DownInv,
     StandbyInv, RequestInv
<1> QED BY <1>4, <1>7, <1>8 DEF MInv

LEMMA StutterKeepsM ==
  ASSUME IInv, MInv, UNCHANGED vars
  PROVE  MInv' /\ Still
<1>1. Still /\ UNCHANGED <<at, doing>>
  BY DEF vars, driver, Still
<1> QED BY <1>1, StillTally DEF Still, MInv, BindInv, OffInv, StagedInv, RunInv, DownInv, QuietInv,
     StandbyInv, RequestInv, Starting, Stopping

(* Every step keeps the invariant, cuts behind the mute and releases the   *)
(* mute only on a running codec.                                           *)
LEMMA NextM ==
  ASSUME IInv, MInv, [Next]_vars
  PROVE  MStep
<1>1. MInv' /\ Still => MStep
  BY DEF MStep, Still, CutMuted, ReleaseRunning
<1>2. CASE Probe \/ Bind
  BY <1>1, <1>2, ProbeKeepsM, BindKeepsM, BeginKeepsM DEF Bind
<1>3. CASE Open \/ Prepare
  BY <1>1, <1>3, BeginKeepsM, EntryKeepsM, RunClockKeepsM, RunPowerKeepsM, RunCoresKeepsM,
     RunVolumeKeepsM, RunUnmuteKeepsM, RunVerifyKeepsM, DownMuteKeepsM, DownCoresKeepsM,
     DownPowerKeepsM DEF Open, Prepare
<1>4. CASE Shutdown
  BY <1>1, <1>4, BeginKeepsM, EntryKeepsM, StandbyMuteKeepsM, StandbyCoresKeepsM,
     StandbyPowerKeepsM, StandbyVerifyKeepsM, StandbyFailedKeepsM DEF Shutdown
<1>5. CASE Gate
  BY <1>1, <1>5, BeginRequestKeepsM, RequestReadsKeepM, RequestMuteKeepsM, RequestWriteKeepsM
     DEF Gate
<1>6. ASSUME NEW a \in Contexts, Acquire(a) \/ Unlock(a) PROVE MStep
  <2>1. a = "host" \/ a = "gate"
    BY DEF Contexts
  <2> QED BY <1>1, <1>6, <2>1, AcquireKeepsM, UnlockHostKeepsM, UnlockGateKeepsM
<1>7. CASE UNCHANGED vars
  BY <1>1, <1>7, StutterKeepsM
<1> QED BY <1>2, <1>3, <1>4, <1>5, <1>6, <1>7 DEF Next

(* While the driver's lock is free and direct_output_running is false, the *)
(* codec is in reset, soft-muted or has every output powered down,         *)
(* whatever single transfer of ak7755.c failed, failed in part or was      *)
(* lost, for any firmware, streams and requests.                           *)
THEOREM StoppedQuiet == Spec => []StoppedMeansQuiet
<1>1. IInv /\ MInv => StoppedMeansQuiet
  <2> SUFFICES ASSUME IInv, MInv, lock = Nobody, at["host"] # "reset",
                      ~direct_output_running, AllTold <= 1, ~chip.reset
               PROVE  chip.muted \/ chip.power = {}
    BY DEF StoppedMeansQuiet
  <2>1. CASE Starting
    BY <2>1 DEF MInv, OffInv
  <2>2. CASE ~Starting
    <3>1. at["host"] \in Unlocked
      BY <2>2, NobodyAssumption DEF IInv, LockInv, HoldsLock, Contexts, Starting
    <3> QED BY <2>2, <3>1 DEF MInv, QuietInv, Unlocked
  <2> QED BY <2>1, <2>2
<1>2. IInv /\ MInv /\ [Next]_vars => MInv'
  BY NextM DEF MStep
<1> QED BY <1>1, <1>2, InitMInv, InductiveInvariant, PTL DEF Spec

(* After the last close the codec is in reset or direct_output_running is  *)
(* false; then the cores are stopped, unless two transfers of ak7755.c     *)
(* went wrong, for any firmware, streams and requests.                     *)
THEOREM ClosedStopped == Spec => []ClosedMeansStopped
<1>1. IInv /\ MInv => ClosedMeansStopped
  <2> SUFFICES ASSUME IInv, MInv, at["host"] = "idle", opened = 0, ~chip.reset
               PROVE  ~direct_output_running /\ (AllTold <= 1 => chip.run = {})
    BY DEF ClosedMeansStopped
  <2>1. open_streams = 0 /\ ~Stopping
    BY DEF IInv, CountInv, Stopping, StopLabels
  <2>2. ~direct_output_running
    BY <2>1 DEF IInv, FlagInv
  <2>3. CASE Starting
    BY <2>2, <2>3 DEF MInv, OffInv
  <2>4. CASE ~Starting
    BY <2>2, <2>4 DEF MInv, QuietInv
  <2> QED BY <2>3, <2>4
<1>2. IInv /\ MInv /\ [Next]_vars => MInv'
  BY NextM DEF MStep
<1> QED BY <1>1, <1>2, InitMInv, InductiveInvariant, PTL DEF Spec

(* ak7755.c cuts outputs and stops cores only behind the soft mute, if at  *)
(* most one transfer fails and none is lost.  It releases the mute only on *)
(* a clocked, powered codec with both cores running, if no transfer is     *)
(* lost and outside the window in which a failed STANDBY has unlocked the  *)
(* driver and not yet asserted reset.  Both hold for any interleaving of   *)
(* the PCM calls with the requests of the gate.                            *)
THEOREM MuteOrdered == Spec => MuteOrder
<1>1. IInv /\ MInv /\ [Next]_vars => MInv' /\ CutMuted /\ ReleaseRunning
  BY NextM DEF MStep
<1>2. CutMuted => [/\ AllTold <= 1 /\ faults["silent"] = 0 /\ ~chip'.reset
                   /\ ~(chip.power \subseteq chip'.power) \/ ~(chip.run \subseteq chip'.run)
                   => chip.muted]_vars
  BY DEF CutMuted
<1>3. ReleaseRunning => [/\ chip.muted /\ ~chip'.muted /\ ~chip'.reset
                         /\ at["host"] # "reset" /\ faults["silent"] = 0
                         => chip.clock /\ chip.power # {} /\ chip.run = Cores]_vars
  BY DEF ReleaseRunning
<1> QED BY <1>1, <1>2, <1>3, InitMInv, InductiveInvariant, PTL
        DEF Spec, MuteOrder, MutedBeforeOff, UnmuteWhileRunning
=============================================================================
