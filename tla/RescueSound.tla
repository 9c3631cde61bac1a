----------------------------- MODULE RescueSound -----------------------------
(***************************************************************************)
(* The sound tools of two kinds of rescue image: initramfs/r1-audio-soak,  *)
(* which runs both programs of PcmTests beside each other and the radio    *)
(* tools in front of them, and FactoryRoute, which belongs in an image     *)
(* with the factory's driver.  Of the radio tools only the outcome matters *)
(* here, and of the checks of GPIO lines, CPUs, interrupts and kernel      *)
(* messages only whether they succeed.                                     *)
(*                                                                         *)
(* A definition marked "Variant" is a faulty form of the next one.  No     *)
(* action uses it; it shows which fault of the code a property detects.    *)
(***************************************************************************)
EXTENDS Integers, Sequences

CONSTANTS Length, PERIOD, PERIODS, Channels, BlockMeans, MaxXruns, MaxPcmErrors,
          Wanted, Drivers, MaxRouteErrors

VARIABLES
  at, status, bytes_left, moved, xruns, pcm, fill, run, stats, sum, stops, pcmErrors,
  routeAt, routeStatus, control, item, driver, values, routeErrors,
  image,         \* "soak" or "factory"
  line,          \* where the script is, or "prompt"
  failed,        \* it has counted a failure
  verdict        \* "none", "PASS", "FAIL" or "INTERRUPTED"

Pcm == INSTANCE PcmTests
Route == INSTANCE FactoryRoute

ASSUME SoundAssumption == Pcm!PcmAssumption /\ Route!RouteAssumption

Tests == {"playback", "capture"}
pcmVars == <<at, status, bytes_left, moved, xruns, pcm, fill, run, stats, sum, stops, pcmErrors>>
routeVars == <<routeAt, routeStatus, control, item, driver, values, routeErrors>>
soak == <<image, line, failed, verdict>>
vars == <<pcmVars, routeVars, soak>>

Images == {"soak", "factory"}

Init ==
  /\ Pcm!Init /\ Route!Init /\ image \in Images
  /\ image # "factory" => driver = CHOOSE d \in Drivers : TRUE
  /\ line = "prompt" /\ failed = FALSE /\ verdict = "none"

-----------------------------------------------------------------------------
(* The script.                                                             *)

Ended(t) == at[t] = "exited"
Silent == \A t \in Tests : Ended(t)

Goto(next) == line' = next /\ UNCHANGED verdict
Count(failure) == failed' = (failed \/ failure)
End(v) == line' = "prompt" /\ verdict' = v

(* A soak begun while tests of an interrupted one still end, which would   *)
(* find the devices busy, is left out.                                     *)
Begin ==
  /\ image = "soak" /\ line = "prompt" /\ Silent
  /\ line' = "checks" /\ failed' = FALSE /\ verdict' = "none"
  /\ Pcm!Reaped

(* The amplifier is safe and four CPUs are online, or it ends at once.     *)
Checks ==
  /\ line = "checks" /\ UNCHANGED <<failed, pcmVars>>
  /\ Goto("playback") \/ End("FAIL")

(* A test is started in the background.                                    *)
Launch(t, next) ==
  /\ line = t /\ Pcm!Start(t) /\ Goto(next) /\ UNCHANGED failed

(* The Wi-Fi scan, then the three Bluetooth commands joined by &&: each    *)
(* ends well or not, or is ended by timeout.                               *)
Radio ==
  /\ line = "radio" /\ Goto("wait playback")
  /\ \E wifi, bluetooth \in BOOLEAN : Count(wifi \/ bluetooth)
  /\ UNCHANGED pcmVars

\* Variant.
Uncounted(t) == UNCHANGED failed
CountStatus(t) == Count(status[t] # 0)

Wait(t, next) ==
  /\ line = (IF t = "playback" THEN "wait playback" ELSE "wait capture")
  /\ Ended(t) /\ CountStatus(t) /\ Goto(next)
  /\ UNCHANGED pcmVars

(* DMA interrupts, RUN and STANDBY messages, no verification failure, the  *)
(* amplifier: checks that may fail.                                        *)
Verdict ==
  /\ line = "verdict" /\ UNCHANGED pcmVars
  /\ \E failure \in BOOLEAN : Count(failure)
  /\ End(IF failed' THEN "FAIL" ELSE "PASS")

Script ==
  \/ Begin \/ Checks
  \/ Launch("playback", "capture") \/ Launch("capture", "radio")
  \/ Radio
  \/ Wait("playback", "wait capture") \/ Wait("capture", "verdict")
  \/ Verdict

(* HUP, INT or TERM: the script tells its tests to end and does not wait.  *)
Trap ==
  /\ line # "prompt"
  /\ line' = "prompt" /\ verdict' = "INTERRUPTED"
  /\ UNCHANGED <<failed, pcmVars>>

-----------------------------------------------------------------------------

(* Each test runs under timeout, which ends it 15 seconds after its time;  *)
(* one the script has told to end does so earlier.                         *)
Timeout(t) == ~Ended(t) /\ Pcm!Kill(t) /\ UNCHANGED <<routeVars, soak>>

Test(t) == Pcm!Program(t) /\ UNCHANGED <<routeVars, soak>>

Devices == Pcm!Tick /\ UNCHANGED <<routeVars, soak>>

SetRoute ==
  /\ image = "factory" /\ (Route!Start \/ Route!Program)
  /\ UNCHANGED <<pcmVars, soak>>

Next ==
  \/ (Script \/ Trap) /\ UNCHANGED <<image, routeVars>>
  \/ \E t \in Tests : Test(t) \/ Timeout(t)
  \/ Devices \/ SetRoute

Spec == Init /\ [][Next]_vars

-----------------------------------------------------------------------------
(* Properties.                                                             *)

Lines == {"prompt", "checks", "playback", "capture", "radio",
          "wait playback", "wait capture", "verdict"}

TypeOK ==
  /\ Pcm!TypeOK /\ Route!TypeOK
  /\ image \in Images /\ line \in Lines /\ failed \in BOOLEAN
  /\ verdict \in {"none", "PASS", "FAIL", "INTERRUPTED"}

(* See PcmTests and FactoryRoute.                                          *)
PassMeansGapless == Pcm!PassMeansGapless
MeanError == Pcm!MeanError
RouteComplete == Route!RouteComplete

(* The soak passes only if both tests, side by side, passed in this soak   *)
(* (each of its own gapless run); and unless it is interrupted, it ends    *)
(* only when both have ended.                                              *)
SoakPassMeansBoth ==
  line = "prompt" =>
    /\ verdict = "PASS" => \A t \in Tests : status[t] = 0
    /\ verdict # "INTERRUPTED" => Silent
=============================================================================
