----------------------------- MODULE Ak7755Codec -----------------------------
(***************************************************************************)
(* The AK7755 codec driver, ak7755.c: firmware download at probe, the      *)
(* route staged at card bind, RUN at PCM prepare, STANDBY at the last      *)
(* close, and the mute, volume and boundary requests of the amplifier      *)
(* gate.                                                                   *)
(*                                                                         *)
(* Every I2C transfer is a step of its own and may fail.  The chip is a    *)
(* record of what its registers mean: configuration registers are the set  *)
(* of those that hold the factory value.                                   *)
(*                                                                         *)
(* Two contexts run: Host probes, binds the card and makes the PCM calls   *)
(* (ASoC serialises them); Gate makes the requests of the diagnostic gate  *)
(* (the machine driver serialises them).  Both take the driver's lock.     *)
(*                                                                         *)
(* A definition marked "Variant" is a faulty form of the next one.  No     *)
(* action uses it; it shows which fault of the code a property detects.    *)
(***************************************************************************)
EXTENDS Integers, FiniteSets

CONSTANTS
  Images,       \* the firmware images, in no particular order
  Order,        \* Order[n]: the n-th image downloaded
  Streams,      \* PCM directions that can be open at once
  Requests,     \* requests the gate makes in this instance
  FaultKinds,   \* how a transfer can go wrong
  MaxFaults,    \* bound on transfers that go wrong
  Nobody        \* no lock holder

AllRequests == {"MUTE", "UNMUTE", "VOL14", "VOL28", "DAC_OFF", "HIZ"}

(* fail: an error, and the write did not happen; partial: an error, but it *)
(* did; silent: no error, but it did not.                                  *)
AllFaults == {"fail", "partial", "silent"}

Last == Cardinality(Images)

ASSUME ImagesAssumption ==
  /\ IsFiniteSet(Images) /\ Last \in Nat \ {0} /\ Order \in [1..Last -> Images]
  /\ \A i \in Images : \E n \in 1..Last : Order[n] = i
  /\ \A m, n \in 1..Last : Order[m] = Order[n] => m = n
ASSUME StreamsAssumption == Streams \in Nat
ASSUME RequestsAssumption == Requests \subseteq AllRequests
ASSUME FaultsAssumption == FaultKinds \subseteq AllFaults /\ MaxFaults \in Nat
ASSUME NobodyAssumption == Nobody \notin {"host", "gate"}

VARIABLES
  chip,                   \* the registers and memories of the AK7755
  open_streams, analog_boundary, lineout_volume_stage,
  direct_output_running,  \* the driver's private data
  lock,                   \* the holder of the driver's mutex
  at,                     \* where a context stands
  doing,                  \* what it is doing
  image,                  \* the number of the image being downloaded
  old_cf,                 \* the DLRDY bit saved by ak7755_download_image
  opened,                 \* streams the ALSA core holds open
  faults                  \* how many transfers went wrong so far, by kind

driver == <<open_streams, analog_boundary, lineout_volume_stage, direct_output_running>>
rest   == <<image, old_cf, opened>>
vars   == <<chip, driver, lock, at, doing, rest, faults>>

Contexts == {"host", "gate"}
Outputs  == {"DACL", "DACR", "LO1", "LO2"}        \* bits of CE
Cores    == {"CRESETN", "DSPRESETN"}              \* bits of CF
Volumes  == {"0dB", "-14dB", "-28dB"}             \* D4
ResetRegs  == {"CD", "DA", "E6", "EA"}            \* the system reset contract
RouteRegs  == {"C0", "CA", "C1", "C2", "C3", "C4", "C6", "C7", "C8", "C9", "D3"}
PcmCalls == {"startup", "prepare", "shutdown"}
Contract(c) ==                                    \* what RUN reads back
  /\ c.clock /\ c.power = Outputs /\ c.run = Cores /\ ~c.dlrdy
  /\ ~c.muted /\ c.volume = "0dB" /\ RouteRegs \ {"C9"} \subseteq c.staged

(* The chip after a power-down cycle.  A register whose power-on value     *)
(* happens to be the factory value counts as not staged.                   *)
PowerOn ==
  [reset |-> FALSE, contract |-> {}, crce |-> FALSE, staged |-> {},
   dlrdy |-> FALSE, mem |-> [i \in Images |-> "none"],
   clock |-> FALSE, power |-> {}, run |-> {}, muted |-> FALSE, volume |-> "0dB"]
InReset == [PowerOn EXCEPT !.reset = TRUE]

Init ==
  /\ chip = InReset
  /\ open_streams = 0 /\ analog_boundary = 0 /\ lineout_volume_stage = 0
  /\ direct_output_running = FALSE
  /\ lock = Nobody /\ image = 1 /\ old_cf = FALSE /\ opened = 0
  /\ faults = [k \in AllFaults |-> 0]
  /\ at = [a \in Contexts |-> IF a = "host" THEN "pdn" ELSE "idle"]
  /\ doing = [a \in Contexts |-> IF a = "host" THEN "probe" ELSE "none"]

-----------------------------------------------------------------------------
(* Transfers.  The chip does not answer while it is held in reset.         *)

Goto(a, l) == at' = [at EXCEPT ![a] = l]
AllTold == faults["fail"] + faults["partial"] + faults["silent"]
Fault(k) ==
  k \in FaultKinds /\ AllTold < MaxFaults /\ faults' = [faults EXCEPT ![k] = @ + 1]

(* Write so that the chip becomes new; go to next, or to error.            *)
Write(a, new, next, error) ==
  /\ \/ ~chip.reset /\ chip' = new /\ Goto(a, next) /\ UNCHANGED faults
     \/ ~chip.reset /\ Fault("partial") /\ chip' = new /\ Goto(a, error)
     \/ ~chip.reset /\ Fault("silent") /\ UNCHANGED chip /\ Goto(a, next)
     \/ Fault("fail") /\ UNCHANGED chip /\ Goto(a, error)
     \/ chip.reset /\ UNCHANGED <<chip, faults>> /\ Goto(a, error)
  /\ UNCHANGED <<driver, lock, doing, rest>>

(* Read and compare: go to next if the condition holds, else to error.     *)
Read(a, cond, next, error) ==
  /\ \/ Goto(a, IF ~chip.reset /\ cond THEN next ELSE error) /\ UNCHANGED faults
     \/ Fault("fail") /\ Goto(a, error)
  /\ UNCHANGED <<chip, lock, doing, rest>>

-----------------------------------------------------------------------------
(* Probe.                                                                  *)

ProbePowerUp ==
  /\ at["host"] = "pdn"
  /\ chip' = PowerOn /\ Goto("host", "id")
  /\ UNCHANGED <<driver, lock, doing, rest, faults>>

(* A failing read of the device ID also stands for an unexpected ID.       *)
ProbeId ==
  at["host"] = "id" /\ Read("host", TRUE, "CD", "assert") /\ UNCHANGED driver

(* The system reset contract, CRC enable, and the two memory registers.    *)
AfterProbeWrite ==
  [CD |-> "DA", DA |-> "E6", E6 |-> "EA", EA |-> "contract", D0 |-> "C3",
   C3 |-> "C4", C4 |-> "request"]

ProbeWritten(r) ==
  [chip EXCEPT !.contract = @ \cup ({r} \cap ResetRegs),
               !.crce     = @ \/ r = "D0",
               !.staged   = @ \cup ({r} \cap RouteRegs)]

ProbeWrite ==
  \E r \in DOMAIN AfterProbeWrite :
    /\ at["host"] = r /\ doing["host"] = "probe"
    /\ Write("host", ProbeWritten(r), AfterProbeWrite[r], "assert")

ProbeContract ==
  /\ at["host"] = "contract"
  /\ Read("host", chip.contract = ResetRegs, "D0", "assert") /\ UNCHANGED driver

(* One image: request the file (which may be missing, or have a wrong size *)
(* or command byte), save CF, set DLRDY, send, compare the CRC, restore CF.*)
Request ==
  /\ at["host"] = "request"
  /\ \E l \in {"dl_lock", "assert"} : Goto("host", l)
  /\ UNCHANGED <<chip, driver, lock, doing, rest, faults>>

DownloadLock ==
  /\ at["host"] = "dl_lock" /\ lock = Nobody
  /\ lock' = "host" /\ Goto("host", "dl_cf")
  /\ UNCHANGED <<chip, driver, doing, rest, faults>>

DownloadSaveCf ==
  /\ at["host"] = "dl_cf"
  /\ \/ Goto("host", "dl_ready") /\ old_cf' = chip.dlrdy /\ UNCHANGED faults
     \/ Fault("fail") /\ Goto("host", "dl_err") /\ UNCHANGED old_cf
  /\ UNCHANGED <<chip, driver, lock, doing, image, opened>>

DownloadReady ==
  at["host"] = "dl_ready" /\ Write("host", [chip EXCEPT !.dlrdy = TRUE], "dl_send", "dl_err")

(* Data lost on the way leave a bad image, with or without an error.       *)
DownloadSend ==
  LET Loaded(m) == [chip EXCEPT !.mem[Order[image]] = m] IN
  /\ at["host"] = "dl_send"
  /\ \/ /\ chip' = IF chip.dlrdy THEN Loaded("good") ELSE chip
        /\ Goto("host", "dl_crc") /\ UNCHANGED faults
     \/ Fault("silent") /\ chip' = Loaded("bad") /\ Goto("host", "dl_crc")
     \/ Fault("fail") /\ chip' = Loaded("bad") /\ Goto("host", "dl_undo")
  /\ UNCHANGED <<driver, lock, doing, rest>>

\* Variant.
CrcNotCompared == chip.crce
CrcMatches == chip.crce /\ chip.mem[Order[image]] = "good"

DownloadCrc ==
  /\ at["host"] = "dl_crc"
  /\ Read("host", CrcMatches, "dl_restore", "dl_undo") /\ UNCHANGED driver

DownloadRestore ==
  \/ /\ at["host"] = "dl_restore"
     /\ Write("host", [chip EXCEPT !.dlrdy = old_cf], "dl_ok", "dl_err")
  \/ /\ at["host"] = "dl_undo"
     /\ Write("host", [chip EXCEPT !.dlrdy = old_cf], "dl_err", "dl_err")

DownloadUnlock ==
  /\ at["host"] \in {"dl_ok", "dl_err"}
  /\ lock' = Nobody
  /\ image' = IF at["host"] = "dl_ok" THEN image + 1 ELSE image
  /\ Goto("host", IF at["host"] = "dl_err" THEN "assert"
                  ELSE IF image < Last THEN "request" ELSE "register")
  /\ UNCHANGED <<chip, driver, doing, old_cf, opened, faults>>

(* Registering the component may fail; every failure asserts reset.        *)
Register ==
  /\ at["host"] = "register"
  /\ \/ Goto("host", "unbound") /\ doing' = [doing EXCEPT !["host"] = "none"]
     \/ Goto("host", "assert") /\ UNCHANGED doing
  /\ UNCHANGED <<chip, driver, lock, rest, faults>>

ProbeFailed ==
  /\ at["host"] = "assert"
  /\ chip' = InReset /\ Goto("host", "dead")
  /\ UNCHANGED <<driver, lock, doing, rest, faults>>

-----------------------------------------------------------------------------
(* Calls.  The card binds once; then the ALSA core opens, prepares and     *)
(* closes streams while the gate makes requests.                           *)

Begin(a, c) ==
  /\ doing' = [doing EXCEPT ![a] = c] /\ Goto(a, "lock")
  /\ UNCHANGED <<chip, driver, lock, rest, faults>>

BeginBind == at["host"] = "unbound" /\ Begin("host", "bind")
BeginStartup == at["host"] = "idle" /\ opened < Streams /\ Begin("host", "startup")
BeginPrepare == at["host"] = "idle" /\ opened > 0 /\ Begin("host", "prepare")
BeginShutdown == at["host"] = "idle" /\ opened > 0 /\ Begin("host", "shutdown")

(* The gate exists once the card is bound.                                 *)
BeginRequest ==
  /\ at["gate"] = "idle" /\ doing["host"] \in PcmCalls \cup {"none"}
  /\ at["host"] \notin {"unbound", "dead"}
  /\ \E q \in Requests : Begin("gate", q)

Acquire(a) ==
  /\ at[a] = "lock" /\ lock = Nobody
  /\ lock' = a /\ Goto(a, "entry")
  /\ UNCHANGED <<chip, driver, doing, rest, faults>>

Host(c, l) == at["host"] = l /\ doing["host"] = c

(* set_fmt: log the registers, then stage the factory route, muted.        *)
AfterRoute ==
  [C0 |-> "CA", CA |-> "C1", C1 |-> "C2", C2 |-> "C3", C3 |-> "C4", C4 |-> "C6",
   C6 |-> "C7", C7 |-> "C8", C8 |-> "C9", C9 |-> "D3", D3 |-> "D4"]

FmtSnapshot == Host("bind", "entry") /\ Read("host", TRUE, "C0", "err") /\ UNCHANGED driver

FmtRoute ==
  \E r \in DOMAIN AfterRoute :
    /\ Host("bind", r)
    /\ Write("host", [chip EXCEPT !.staged = @ \cup {r},
                                  !.clock = @ /\ r # "C1"], AfterRoute[r], "err")

FmtVolume == Host("bind", "D4") /\ Write("host", [chip EXCEPT !.volume = "0dB"], "mute", "err")
FmtMute   == Host("bind", "mute") /\ Write("host", [chip EXCEPT !.muted = TRUE], "ok", "err")

Startup ==
  /\ Host("startup", "entry")
  /\ open_streams' = open_streams + 1 /\ Goto("host", "ok")
  /\ UNCHANGED <<chip, analog_boundary, lineout_volume_stage,
                 direct_output_running, lock, doing, rest, faults>>

-----------------------------------------------------------------------------
(* RUN, at prepare.                                                        *)

RunEntry ==
  /\ Host("prepare", "entry")
  /\ Goto("host", IF direct_output_running THEN "ok" ELSE "clock")
  /\ UNCHANGED <<chip, driver, lock, doing, rest, faults>>

\* Variant.
NoPowerDown == "err"
PowerDown == "down_mute"

RunClock  == Host("prepare", "clock") /\ Write("host", [chip EXCEPT !.clock = TRUE], "power", "err")
RunPower  == Host("prepare", "power") /\ Write("host", [chip EXCEPT !.power = Outputs], "cores", "err")
RunCores  ==
  /\ Host("prepare", "cores")
  /\ Write("host", [chip EXCEPT !.run = Cores, !.dlrdy = FALSE], "volume", PowerDown)
RunVolume ==
  Host("prepare", "volume") /\ Write("host", [chip EXCEPT !.volume = "0dB"], "unmute", PowerDown)
RunUnmute ==
  Host("prepare", "unmute") /\ Write("host", [chip EXCEPT !.muted = FALSE], "verify", PowerDown)

\* Variant.
PowerVerified == chip.power = Outputs /\ chip.run = Cores
RunVerified == Contract(chip)

RunVerify ==
  /\ Host("prepare", "verify")
  /\ Read("host", RunVerified, "ok", PowerDown)
  /\ direct_output_running' = (at'["host"] = "ok")
  /\ IF at'["host"] = "ok"
     THEN analog_boundary' = 0 /\ lineout_volume_stage' = 0
     ELSE UNCHANGED <<analog_boundary, lineout_volume_stage>>
  /\ UNCHANGED open_streams

(* err_power_down: best effort, whatever fails.                            *)
DownMute  ==
  at["host"] = "down_mute" /\ Write("host", [chip EXCEPT !.muted = TRUE], "down_cores", "down_cores")
DownCores ==
  at["host"] = "down_cores" /\ Write("host", [chip EXCEPT !.run = {}], "down_power", "down_power")
DownPower ==
  at["host"] = "down_power" /\ Write("host", [chip EXCEPT !.power = {}], "err", "err")

-----------------------------------------------------------------------------
(* STANDBY, at the shutdown of the last stream.                            *)

\* Variant.
ShutdownKeepsCount == open_streams
ShutdownCount == open_streams - 1

ShutdownEntry ==
  /\ Host("shutdown", "entry")
  /\ IF open_streams = 0                                          \* WARN_ON
     THEN Goto("host", "ok") /\ UNCHANGED open_streams
     ELSE /\ open_streams' = ShutdownCount
          /\ Goto("host", IF open_streams' = 0 /\ direct_output_running
                          THEN "mute" ELSE "ok")
  /\ UNCHANGED <<chip, analog_boundary, lineout_volume_stage,
                 direct_output_running, lock, doing, rest, faults>>

\* Variant.
StandbyUnmuted == UNCHANGED <<chip, driver, lock, doing, rest, faults>> /\ Goto("host", "cores")
StandbyMuted == Write("host", [chip EXCEPT !.muted = TRUE], "cores", "err")

StandbyMute  == Host("shutdown", "mute") /\ StandbyMuted
StandbyCores == Host("shutdown", "cores") /\ Write("host", [chip EXCEPT !.run = {}], "power", "err")
StandbyPower == Host("shutdown", "power") /\ Write("host", [chip EXCEPT !.power = {}], "verify", "err")

StandbyFlag == direct_output_running' = (at'["host"] # "ok")

StandbyVerify ==
  /\ Host("shutdown", "verify")
  /\ Read("host", chip.power = {} /\ chip.run = {}, "ok", "err")
  /\ StandbyFlag
  /\ IF at'["host"] = "ok"
     THEN analog_boundary' = 0 /\ lineout_volume_stage' = 0
     ELSE UNCHANGED <<analog_boundary, lineout_volume_stage>>
  /\ UNCHANGED open_streams

-----------------------------------------------------------------------------
(* Requests of the gate.                                                   *)

Stage(q) == IF q = "VOL14" THEN 1 ELSE 2
Boundary(q) == IF q = "DAC_OFF" THEN 1 ELSE 2
Target(q) == IF q = "VOL14" THEN "-14dB" ELSE "-28dB"
Current(q) == IF q = "VOL14" THEN "0dB" ELSE "-14dB"

Permitted(q) ==
  /\ direct_output_running
  /\ q \in {"MUTE", "UNMUTE"} => analog_boundary = 0
  /\ q \in {"VOL14", "VOL28"} => /\ analog_boundary = 0
                                 /\ lineout_volume_stage = Stage(q) - 1
  /\ q \in {"DAC_OFF", "HIZ"} => /\ lineout_volume_stage = 0
                                 /\ analog_boundary = Boundary(q) - 1

\* Variant.
Unchecked(q) == TRUE
Checked(q) == Permitted(q)

RequestEntry ==
  LET q == doing["gate"] IN
  /\ at["gate"] = "entry"
  /\ \/ ~Checked(q) /\ Goto("gate", "err")
     \/ Checked(q) /\ q \in {"VOL14", "VOL28"} /\ Goto("gate", "check")
     \/ Checked(q) /\ q = "DAC_OFF" /\ Goto("gate", "premute")
     \/ Checked(q) /\ q \in {"MUTE", "UNMUTE", "HIZ"} /\ Goto("gate", "write")
  /\ UNCHANGED <<chip, driver, lock, doing, rest, faults>>

(* A volume changes only while the DAC is muted, from the stage before.    *)
RequestCheck ==
  /\ at["gate"] = "check"
  /\ Read("gate", chip.muted /\ chip.volume = Current(doing["gate"]), "write", "err")
  /\ UNCHANGED driver

RequestMute ==
  at["gate"] = "premute" /\ Write("gate", [chip EXCEPT !.muted = TRUE], "write", "err")

Requested(q) ==
  [chip EXCEPT
     !.muted  = IF q \in {"MUTE", "UNMUTE"} THEN q = "MUTE" ELSE @,
     !.volume = IF q \in {"VOL14", "VOL28"} THEN Target(q) ELSE @,
     !.power  = @ \ IF q = "DAC_OFF" THEN {"DACL", "DACR"}
                    ELSE IF q = "HIZ" THEN {"LO1"} ELSE {}]

RequestWrite ==
  at["gate"] = "write" /\ Write("gate", Requested(doing["gate"]), "verify", "err")

(* Volumes and boundaries are verified against the direct route: no analog *)
(* input, the DAC fed by SDIN1, only the codec core out of reset.          *)
DirectRoute(power, volume) ==
  /\ {"C0", "C8", "D3"} \cap chip.staged = {} /\ "C9" \in chip.staged
  /\ chip.run = {"CRESETN"} /\ chip.power = power
  /\ chip.volume = volume /\ chip.muted

RequestHolds(q) ==
  CASE q \in {"MUTE", "UNMUTE"}  -> chip.muted = (q = "MUTE")
    [] q \in {"VOL14", "VOL28"}  -> DirectRoute({"DACL", "DACR", "LO1"}, Target(q))
    [] q = "DAC_OFF"             -> DirectRoute({"LO1"}, "0dB")
    [] q = "HIZ"                 -> DirectRoute({}, "0dB")

RequestVerify ==
  LET q == doing["gate"] IN
  /\ at["gate"] = "verify"
  /\ Read("gate", RequestHolds(q), "ok", "err")
  /\ lineout_volume_stage' = IF at'["gate"] = "ok" /\ q \in {"VOL14", "VOL28"}
                             THEN Stage(q) ELSE lineout_volume_stage
  /\ analog_boundary' = IF at'["gate"] = "ok" /\ q \in {"DAC_OFF", "HIZ"}
                        THEN Boundary(q) ELSE analog_boundary
  /\ UNCHANGED <<open_streams, direct_output_running>>

-----------------------------------------------------------------------------
(* Returning.  A failed STANDBY asserts reset after the unlock.            *)

\* Variant.
FailedStandbyIgnored == "idle"
AfterFailedStandby == "reset"

AfterUnlock(a) ==
  IF at[a] = "ok" THEN "idle"
  ELSE IF doing[a] = "bind" THEN "dead"
  ELSE IF doing[a] = "shutdown" THEN AfterFailedStandby ELSE "idle"

Unlock(a) ==
  /\ at[a] \in {"ok", "err"}
  /\ lock' = Nobody /\ Goto(a, AfterUnlock(a))
  /\ doing' = [doing EXCEPT ![a] = IF AfterUnlock(a) = "reset" THEN @ ELSE "none"]
  /\ opened' = IF doing[a] = "startup" THEN opened + 1
               ELSE IF doing[a] = "shutdown" THEN opened - 1 ELSE opened
  /\ UNCHANGED <<chip, driver, image, old_cf, faults>>

StandbyFailed ==
  /\ at["host"] = "reset"
  /\ chip' = InReset /\ Goto("host", "idle")
  /\ doing' = [doing EXCEPT !["host"] = "none"]
  /\ UNCHANGED <<driver, lock, rest, faults>>

-----------------------------------------------------------------------------

Probe ==
  \/ ProbePowerUp \/ ProbeId \/ ProbeWrite \/ ProbeContract
  \/ Request \/ DownloadLock \/ DownloadSaveCf \/ DownloadReady \/ DownloadSend
  \/ DownloadCrc \/ DownloadRestore \/ DownloadUnlock \/ Register \/ ProbeFailed
Bind == BeginBind \/ FmtSnapshot \/ FmtRoute \/ FmtVolume \/ FmtMute
Open == BeginStartup \/ Startup
Prepare ==
  \/ BeginPrepare \/ RunEntry \/ RunClock \/ RunPower \/ RunCores \/ RunVolume
  \/ RunUnmute \/ RunVerify \/ DownMute \/ DownCores \/ DownPower
Shutdown ==
  \/ BeginShutdown \/ ShutdownEntry \/ StandbyMute \/ StandbyCores
  \/ StandbyPower \/ StandbyVerify \/ StandbyFailed
Gate ==
  \/ BeginRequest \/ RequestEntry \/ RequestCheck \/ RequestMute
  \/ RequestWrite \/ RequestVerify

Next ==
  \/ Probe \/ Bind \/ Open \/ Prepare \/ Shutdown \/ Gate
  \/ \E a \in Contexts : Acquire(a) \/ Unlock(a)

Spec == Init /\ [][Next]_vars

-----------------------------------------------------------------------------
(* Properties.                                                             *)

Labels ==
  {"pdn", "power", "id", "request", "register", "assert", "unbound", "dead", "idle",
   "contract", "dl_lock", "dl_cf", "dl_ready", "dl_send", "dl_crc", "dl_restore",
   "dl_undo", "dl_ok", "dl_err", "lock", "entry", "clock", "cores", "volume",
   "mute", "unmute", "verify", "down_mute", "down_cores", "down_power", "ok",
   "err", "reset", "check", "premute", "write"}
  \cup DOMAIN AfterProbeWrite \cup DOMAIN AfterRoute \cup {"D4"}

Chips ==
  [reset : BOOLEAN, contract : SUBSET ResetRegs, crce : BOOLEAN,
   staged : SUBSET RouteRegs, dlrdy : BOOLEAN, mem : [Images -> {"none", "good", "bad"}],
   clock : BOOLEAN, power : SUBSET Outputs, run : SUBSET Cores, muted : BOOLEAN,
   volume : Volumes]

FaultCounts == [AllFaults -> 0..MaxFaults]

TypeOK ==
  /\ chip \in Chips
  /\ open_streams \in 0..Streams /\ opened \in 0..Streams
  /\ analog_boundary \in 0..2 /\ lineout_volume_stage \in 0..2
  /\ direct_output_running \in BOOLEAN /\ old_cf \in BOOLEAN
  /\ lock \in Contexts \cup {Nobody}
  /\ at \in [Contexts -> Labels]
  /\ doing \in [Contexts -> PcmCalls \cup AllRequests \cup {"probe", "bind", "none"}]
  /\ image \in 1..(Last + 1)
  /\ faults \in FaultCounts

(* The DSP leaves reset only with every firmware image verified, however   *)
(* many transfers fail or lose data: "Run the CRC-verified data2 DSP".     *)
RunsVerified == chip.run # {} => \A i \in Images : chip.mem[i] = "good"

Prepared == at["host"] = "ok" /\ doing["host"] = "prepare"

(* direct_output_running agrees with the chip whenever the lock is free or *)
(* a prepare is about to return 0: the factory route is staged and clocked *)
(* and the cores run, unless a STANDBY has failed and reset is asserted or *)
(* about to be.                                                            *)
FlagAgrees ==
  /\ direct_output_running /\ ~chip.reset
  /\ Prepared \/ (lock = Nobody /\ at["host"] # "reset")
  => /\ chip.clock /\ chip.run = Cores /\ "LO2" \in chip.power
     /\ RouteRegs \ {"C9"} \subseteq chip.staged

(* After the last close the codec is in reset, or the driver knows that it *)
(* does not run.  In the second case the cores are stopped too if at most  *)
(* one transfer went wrong: STANDBY has read that back; a RUN that failed  *)
(* has no read-back, so a second fault can lose the write to CF of its     *)
(* err_power_down, and the close, which skips STANDBY then, leaves the     *)
(* cores running.                                                          *)
ClosedMeansStopped ==
  at["host"] = "idle" /\ opened = 0 =>
    \/ chip.reset
    \/ ~direct_output_running /\ (AllTold <= 1 => chip.run = {})

(* A codec that is not running is silent after any single failure: in      *)
(* reset, soft-muted or powered down.                                      *)
StoppedMeansQuiet ==
  lock = Nobody /\ at["host"] # "reset" /\ ~direct_output_running /\ AllTold <= 1 =>
    chip.reset \/ chip.muted \/ chip.power = {}

(* Outputs are powered down and cores stopped only behind the soft mute,   *)
(* if at most one transfer fails and none is lost silently.                *)
MutedBeforeOff ==
  [][/\ AllTold <= 1 /\ faults["silent"] = 0 /\ ~chip'.reset
     /\ ~(chip.power \subseteq chip'.power) \/ ~(chip.run \subseteq chip'.run)
     => chip.muted]_vars

(* The soft mute is released only on a clocked, powered, running codec,    *)
(* except between a failed STANDBY and the reset it asserts; no transfer   *)
(* is lost silently.                                                       *)
UnmuteWhileRunning ==
  [][/\ chip.muted /\ ~chip'.muted /\ ~chip'.reset
     /\ at["host"] # "reset" /\ faults["silent"] = 0
     => chip.clock /\ chip.power # {} /\ chip.run = Cores]_vars

(* Both orders, whatever calls the streams and the gate make between one   *)
(* another, under the conditions that each of the two states.              *)
MuteOrder == MutedBeforeOff /\ UnmuteWhileRunning

(* A prepare that returns 0 has verified the complete RUN contract.        *)
PrepareVerifies == Prepared => Contract(chip)

(* A volume request that is permitted and whose transfers all succeed      *)
(* returns 0.                                                              *)
VolumeRequestSucceeds ==
  [][at["gate"] = "verify" /\ at'["gate"] = "err" /\ doing["gate"] = "VOL14"
       => AllTold > 0]_vars
=============================================================================
