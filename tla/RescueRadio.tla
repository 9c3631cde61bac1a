----------------------------- MODULE RescueRadio -----------------------------
(***************************************************************************)
(* The rescue image's radio tools on one board: BtMgmt and WifiScan, run   *)
(* one at a time from the console, by hand or by initramfs/                *)
(* r1-bt-coexist-test.  What one tool leaves behind in the kernel (a       *)
(* discovery still on, a scan under way, a request not yet answered) is    *)
(* what the next one finds.                                                *)
(***************************************************************************)
EXTENDS Integers, Sequences

CONSTANTS Arguments, U32, MaxEvents, MaxOrphans, MaxStations,
  MaxErrors,   \* bound on the failures of both tools together
  Cycles,      \* the argument of the script
  Seconds      \* the seconds of its two Bluetooth scans, 10 in the script

ASSUME ScriptAssumption ==
  /\ Cycles \in Nat
  /\ {<<"info", 0>>, <<"le-scan", Seconds>>, <<"bredr-scan", Seconds>>} \subseteq Arguments

VARIABLES
  btArgs, btAt, btDoing, btStatus, elapsed, devices, listened, socket, pending,
  powered, le, discovery, own, btEvents, btErrors,
  wifiAt, wifiStatus, counted, answers, dumpFrom, listed, asked, scanning,
  stations, wifiErrors,
  line,        \* position in the script, or 0 at the prompt
  tool,        \* the tool run last: "bt", "wifi" or "none"
  shellStatus, \* how the script ended, or -1
  scans        \* history: the scans begun since the script was started

Bt == INSTANCE BtMgmt
Wifi == INSTANCE WifiScan WITH MaxWifiErrors <- MaxErrors

ASSUME ToolsAssumption == Bt!BtAssumption /\ Wifi!WifiAssumption

btVars == <<btArgs, btAt, btDoing, btStatus, elapsed, devices, listened, socket,
            pending, powered, le, discovery, own, btEvents, btErrors>>
wifiVars == <<wifiAt, wifiStatus, counted, answers, dumpFrom, listed, asked,
              scanning, stations, wifiErrors>>
console == <<line, tool, shellStatus>>
vars == <<btVars, wifiVars, console, scans>>

Radios == {"wifi", "le", "br-edr"}
None == [r \in Radios |-> 0]

Init == Bt!Init /\ Wifi!Init /\ line = 0 /\ tool = "none" /\ shellStatus = -1 /\ scans = None

-----------------------------------------------------------------------------

Cycle == <<<<"wifi">>, <<"le-scan", Seconds>>, <<"bredr-scan", Seconds>>>>
Lines == 1 + 3 * Cycles
Line(n) == IF n = 1 THEN <<"info", 0>> ELSE Cycle[((n - 2) % 3) + 1]

Idle == btDoing = "exited" /\ wifiAt = "exited"
Status == CASE tool = "bt"   -> btStatus
            [] tool = "wifi" -> wifiStatus
            [] tool = "none" -> 0

Run(invocation) ==
  IF invocation = <<"wifi">>
  THEN Wifi!Start /\ tool' = "wifi" /\ Bt!Reaped
  ELSE Bt!Start(invocation) /\ tool' = "bt" /\ Wifi!Reaped

ByHand ==
  /\ line = 0 /\ Idle /\ shellStatus = -1
  /\ \E invocation \in Arguments \cup {<<"wifi">>} : Run(invocation)
  /\ UNCHANGED <<line, shellStatus, scans>>

StartScript ==
  /\ line = 0 /\ Idle /\ shellStatus = -1
  /\ line' = 1 /\ tool' = "none" /\ scans' = None
  /\ UNCHANGED <<shellStatus, btVars, wifiVars>>

(* set -e: the first tool that fails ends the script with its status.      *)
\* Variant.
AlsoAfterFailure == TRUE
GoesOn == Status = 0

NextLine ==
  /\ line \in 1..Lines /\ Idle /\ GoesOn
  /\ Run(Line(line)) /\ line' = line + 1 /\ UNCHANGED <<shellStatus, scans>>

EndOfScript ==
  /\ line > 0 /\ Idle
  /\ line > Lines \/ ~GoesOn
  /\ line' = 0 /\ shellStatus' = Status
  /\ UNCHANGED <<tool, scans, btVars, wifiVars>>

(* The prompt comes back.                                                  *)
Prompt ==
  /\ line = 0 /\ shellStatus # -1
  /\ shellStatus' = -1 /\ tool' = "none" /\ scans' = None
  /\ UNCHANGED <<line, btVars, wifiVars>>

(* Ctrl-C reaches the script and its tool.                                 *)
Interrupt ==
  /\ \/ Bt!Interrupt /\ UNCHANGED wifiVars
     \/ Wifi!Interrupt /\ UNCHANGED btVars
  /\ line' = 0 /\ shellStatus' = (IF line > 0 THEN 130 ELSE -1)
  /\ UNCHANGED <<tool, scans>>

(* Scans begun for the tool that runs; what a request of an earlier one    *)
(* begins is not counted.                                                  *)
Begun(r) == IF r = "wifi" THEN ~scanning /\ scanning'
                          ELSE btDoing # "exited" /\ ~own /\ own' /\ discovery' = r

ToolStep ==
  /\ \/ (Bt!Program \/ Bt!Kernel) /\ UNCHANGED wifiVars
     \/ (Wifi!Program \/ Wifi!Kernel) /\ UNCHANGED btVars
  /\ scans' = [r \in Radios |-> IF line > 0 /\ Begun(r) THEN scans[r] + 1 ELSE scans[r]]
  /\ btErrors' + wifiErrors' <= MaxErrors
  /\ UNCHANGED console

Next ==
  \/ ByHand \/ StartScript \/ NextLine \/ EndOfScript \/ Prompt
  \/ Interrupt \/ ToolStep

Spec == Init /\ [][Next]_vars

-----------------------------------------------------------------------------
(* Properties.                                                             *)

TypeOK ==
  /\ Bt!TypeOK /\ Wifi!TypeOK
  /\ line \in 0..Lines + 1 /\ tool \in {"bt", "wifi", "none"}
  /\ shellStatus \in {-1, 130} \cup 0..7 /\ scans \in [Radios -> 0..Cycles + 1]

(* The answers both tools act on are the answers to what they asked last   *)
(* (see BtMgmt and WifiScan), also for a tool that follows one that was    *)
(* interrupted, refused or given no answer.                                *)
AnswersMatch == Bt!RepliesMatch /\ Wifi!AnswersMatch

(* What is counted is what was found: only devices of the scan's own       *)
(* discovery, and all stations of the kernel's list.                       *)
CountsWhatWasFound == [][Bt!CountsOwnScan /\ Wifi!CountsEveryStation']_vars

(* The coexistence script ends with status 0 only after every radio has    *)
(* begun a scan of its own in every cycle.                                 *)
CoexistMeansScanned ==
  line = 0 /\ shellStatus = 0 => scans = [r \in Radios |-> Cycles]

(* A run that ends well has scanned as much as it was told to: a Bluetooth *)
(* tool both transports for their share of the time, the script both       *)
(* radios in every cycle.                                                  *)
SuccessMeansScanned == Bt!ScansShareSeconds /\ CoexistMeansScanned
=============================================================================
