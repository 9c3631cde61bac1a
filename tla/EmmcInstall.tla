---------------------------- MODULE EmmcInstall ----------------------------
(***************************************************************************)
(* The host scripts that change the eMMC of a board over USB:              *)
(* preflight-r1-emmc-install.sh (reads only, and is the first part of the  *)
(* next one), install-r1-emmc-open-optee.sh, restore-r1-emmc-original-     *)
(* boot.sh and flash-diagnostic-recovery.sh.  They are run one at a time,  *)
(* in any order, any number of times.                                      *)
(*                                                                         *)
(* A range of the eMMC holds its original image, the new one, or neither   *)
(* ("torn").  A command of rkdeveloptool and the comparison of what it     *)
(* read are one step.  Under "set -e" a failing command ends a script.     *)
(*                                                                         *)
(* A definition marked "Variant" is a faulty form of the next one.  No     *)
(* action uses it; it shows which fault of the code a property detects.    *)
(***************************************************************************)
EXTENDS Naturals

CONSTANT MaxFaults   \* bound on failing commands, interrupts and power cuts

ASSUME MaxFaultsAssumption == MaxFaults \in Nat

VARIABLES
  flash,      \* content of the ranges the scripts write
  link,       \* the board: off, in MaskROM, or with a storage protocol
  backup,     \* backup/boot/r1-emmc-user-idb-original-0x40-0xa7.img on the host
  host,       \* the script that runs, or ran last
  before,     \* flash when that script began
  faults

vars == <<flash, link, backup, host, before, faults>>
board == <<flash, link>>

Images == {"original", "new", "torn"}
Flash == [{"idb", "fit", "recovery", "misc"} -> Images]

(* The labels of each script: the next command it runs.  undo_... are the  *)
(* commands of rollback.                                                   *)
Labels(script) ==
  CASE script = "preflight"  -> {"identify", "read_idb", "read_fit"}
    [] script = "install"    -> {"identify", "read_idb", "read_fit", "recheck",
                                 "write_fit", "verify_fit", "write_idb", "verify_idb",
                                 "undo_write_fit", "undo_verify_fit",
                                 "undo_write_idb", "undo_verify_idb"}
    [] script = "restore"    -> {"identify", "write_fit", "verify_fit",
                                 "write_idb", "verify_idb"}
    [] script = "diagnostic" -> {"identify", "save", "write_recovery", "verify_recovery",
                                 "write_misc", "verify_misc", "reset"}
Scripts == {"preflight", "install", "restore", "diagnostic"}
Reports == {"none", "refused", "passed", "verified", "rolledback", "critical", "failed"}

Init ==
  /\ flash \in [{"idb", "fit", "recovery", "misc"} -> {"original"}]
  /\ link = "off" /\ backup \in {"missing", "original"}
  /\ host = [script |-> "preflight", at |-> "idle", report |-> "none", ok |-> TRUE]
  /\ before = flash /\ faults = 0

Fault == faults < MaxFaults /\ faults' = faults + 1
At(script, label) == host.script = script /\ host.at = label
Goto(label) == [host EXCEPT !.at = label]
Ends(report) == [host EXCEPT !.at = "idle", !.report = report]

(* rkdeveloptool wl: done, or failed (by an error, the timeout, a board    *)
(* that lost power) with the range in any state, or acknowledged although  *)
(* the range does not hold the image.  good and bad: how the script goes   *)
(* on after exit status zero and nonzero.                                  *)
Write(range, image, good, bad) ==
  \/ /\ link = "storage" /\ host' = good
     /\ flash' = [flash EXCEPT ![range] = image] /\ UNCHANGED <<link, faults>>
  \/ /\ link = "storage" /\ Fault /\ host' \in {good, bad}
     /\ \E left \in {flash[range], image, "torn"} : flash' = [flash EXCEPT ![range] = left]
     /\ link' \in {link, "off"}
  \/ link # "storage" /\ host' = bad /\ UNCHANGED <<board, faults>>

(* rkdeveloptool rl and cmp: a failing read and one of wrong bytes (which  *)
(* are never the bytes expected) end alike.                                *)
Verify(range, image, good, bad) ==
  /\ \/ /\ link = "storage" /\ UNCHANGED faults
        /\ host' = IF flash[range] = image THEN good ELSE bad
     \/ link = "storage" /\ Fault /\ host' = bad
     \/ link # "storage" /\ host' = bad /\ UNCHANGED faults
  /\ UNCHANGED board

-----------------------------------------------------------------------------
(* Start of a script: files are compared with their pinned hashes first.   *)
(* Only the backup of the IDB may be missing or wrong.                     *)
NeedsBackup == {"install", "restore"}
(* Variant: takes the backup for what its name says. *)
StartUnhashed(script) ==
  /\ host.at = "idle" /\ before' = flash
  /\ host' = [script |-> script, at |-> "identify", report |-> "none", ok |-> TRUE]
  /\ UNCHANGED <<board, backup, faults>>
Start(script) ==
  /\ host.at = "idle" /\ before' = flash
  /\ script \in NeedsBackup => backup = "original"
  /\ host' = [script |-> script, at |-> "identify", report |-> "none", ok |-> TRUE]
  /\ UNCHANGED <<board, backup, faults>>
StartRefused(script) ==
  /\ host.at = "idle" /\ before' = flash
  /\ script \in NeedsBackup /\ backup # "original"
  /\ host' = [script |-> script, at |-> "idle", report |-> "refused", ok |-> TRUE]
  /\ UNCHANGED <<board, backup, faults>>

Identified ==
  Goto(CASE host.script = "restore"    -> "write_fit"
         [] host.script = "diagnostic" -> "save"
         [] OTHER                      -> "read_idb")
(* Variant: does not download the USB loader to a board in MaskROM. *)
IdentifyLoaded ==
  /\ host.at = "identify"
  /\ host' = IF link = "storage" THEN Identified ELSE Ends("refused")
  /\ UNCHANGED <<board, backup, before, faults>>
(* ld, rci, rid, rfi, and db where the script has it.                      *)
Identify ==
  /\ host.at = "identify"
  /\ \/ /\ link = "storage" \/ (link = "maskrom" /\ host.script # "diagnostic")
        /\ host' = Identified /\ link' = "storage" /\ UNCHANGED faults
     \/ Fault /\ host' = Ends("refused") /\ UNCHANGED link
     \/ /\ link = "off" \/ (link = "maskrom" /\ host.script = "diagnostic")
        /\ host' = Ends("refused") /\ UNCHANGED <<link, faults>>
  /\ UNCHANGED <<flash, backup, before>>

-----------------------------------------------------------------------------
(* preflight, on its own and as the first command of install               *)

(* Both ranges are read twice and compared.  Reads of wrong bytes differ   *)
(* from one another; a failing comparison is remembered until the end.     *)
(* Variant: notices no difference from the backup. *)
IdbReadTwice ==
  /\ host.at = "read_idb"
  /\ \/ /\ UNCHANGED faults
        /\ host' = IF link = "storage" THEN Goto("read_fit") ELSE Ends("refused")
     \/ Fault /\ host' \in {Ends("refused"), [Goto("read_fit") EXCEPT !.ok = FALSE]}
  /\ UNCHANGED <<board, backup, before>>
PreflightIdb ==
  /\ host.at = "read_idb"
  /\ \/ /\ link = "storage" /\ backup = "missing"       \* captured as the original
        /\ backup' = flash.idb /\ host' = Goto("read_fit") /\ UNCHANGED faults
     \/ /\ link = "storage" /\ backup = "original"
        /\ host' = [Goto("read_fit") EXCEPT !.ok = (flash.idb = backup)]
        /\ UNCHANGED <<backup, faults>>
     \/ /\ link = "storage" => backup \in {"new", "torn"}
        /\ host' = Ends("refused") /\ UNCHANGED <<backup, faults>>
     \/ /\ Fault /\ UNCHANGED backup
        /\ host' \in {Ends("refused"), [Goto("read_fit") EXCEPT !.ok = FALSE]}
  /\ UNCHANGED <<board, before>>

PreflightPassed == IF host.script = "install" THEN Goto("recheck") ELSE Ends("passed")
(* Variant: the installation goes on after a preflight of its own. *)
InstallAfterPreflight ==
  /\ host.at = "read_fit"
  /\ IF link = "storage" /\ flash.fit = "original" /\ host.ok
       THEN host' = Goto("recheck") ELSE host' = Ends("refused")
  /\ UNCHANGED <<board, backup, before, faults>>
PreflightFit ==
  /\ host.at = "read_fit"
  /\ \/ /\ UNCHANGED faults
        /\ host' = IF link = "storage" /\ flash.fit = "original" /\ host.ok
                     THEN PreflightPassed ELSE Ends("refused")
     \/ Fault /\ host' = Ends("refused")
  /\ UNCHANGED <<board, backup, before>>

-----------------------------------------------------------------------------
(* install and restore: the FIT, then the IDB; the rollback of install     *)

InstallRecheck ==     \* ld, rci and rfi again
  /\ host.at = "recheck"
  /\ \/ /\ host' = IF link = "storage" THEN Goto("write_fit") ELSE Ends("refused")
        /\ UNCHANGED faults
     \/ Fault /\ host' = Ends("refused")
  /\ UNCHANGED <<board, backup, before>>

Target == IF host.script = "restore" THEN "original" ELSE "new"
Failed == IF host.script = "install" THEN Goto("undo_write_fit") ELSE Ends("failed")

WriteFit ==
  /\ host.at = "write_fit" /\ Write("fit", Target, Goto("verify_fit"), Failed)
  /\ UNCHANGED <<backup, before>>
(* Variant: a FIT that cannot be read back is no reason to stop. *)
ReadFitBack ==
  /\ host.at = "verify_fit" /\ Verify("fit", Target, Goto("write_idb"), Goto("write_idb"))
  /\ UNCHANGED <<backup, before>>
VerifyFit ==
  /\ host.at = "verify_fit" /\ Verify("fit", Target, Goto("write_idb"), Failed)
  /\ UNCHANGED <<backup, before>>
WriteIdb ==
  /\ host.at = "write_idb"
  /\ Write("idb", IF host.script = "restore" THEN backup ELSE "new",
           Goto("verify_idb"), Failed)
  /\ UNCHANGED <<backup, before>>
VerifyIdb ==
  /\ host.at = "verify_idb"
  /\ Verify("idb", IF host.script = "restore" THEN backup ELSE "new",
            Ends("verified"), Failed)
  /\ UNCHANGED <<backup, before>>

(* rollback runs every command, whatever becomes of the earlier ones.      *)
NotOk(label) == [Goto(label) EXCEPT !.ok = FALSE]
UndoWriteFit ==
  /\ host.at = "undo_write_fit"
  /\ Write("fit", "original", Goto("undo_verify_fit"), NotOk("undo_verify_fit"))
  /\ UNCHANGED <<backup, before>>
(* Variant: forgets that the FIT is not restored. *)
UndoFitForgotten ==
  /\ host.at = "undo_verify_fit"
  /\ Verify("fit", "original", Goto("undo_write_idb"), Goto("undo_write_idb"))
  /\ UNCHANGED <<backup, before>>
UndoVerifyFit ==
  /\ host.at = "undo_verify_fit"
  /\ Verify("fit", "original", Goto("undo_write_idb"), NotOk("undo_write_idb"))
  /\ UNCHANGED <<backup, before>>
UndoWriteIdb ==
  /\ host.at = "undo_write_idb"
  /\ Write("idb", backup, Goto("undo_verify_idb"), NotOk("undo_verify_idb"))
  /\ UNCHANGED <<backup, before>>
(* Variant: the last comparison decides alone. *)
UndoVerifyLast ==
  /\ host.at = "undo_verify_idb"
  /\ Verify("idb", backup, Ends("rolledback"), Ends("critical"))
  /\ UNCHANGED <<backup, before>>
UndoVerifyIdb ==
  /\ host.at = "undo_verify_idb"
  /\ Verify("idb", backup, Ends(IF host.ok THEN "rolledback" ELSE "critical"),
            Ends("critical"))
  /\ UNCHANGED <<backup, before>>

-----------------------------------------------------------------------------
(* flash-diagnostic-recovery.sh: the recovery image, then the boot control *)
(* block in misc that makes the loader start it, then the reset            *)

SaveRecovery ==
  /\ host.at = "save"
  /\ \/ /\ host' = IF link = "storage" THEN Goto("write_recovery") ELSE Ends("refused")
        /\ UNCHANGED faults
     \/ Fault /\ host' = Ends("refused")
  /\ UNCHANGED <<board, backup, before>>
WriteRecovery ==
  /\ host.at = "write_recovery"
  /\ Write("recovery", "new", Goto("verify_recovery"), Ends("failed"))
  /\ UNCHANGED <<backup, before>>
VerifyRecovery ==
  /\ host.at = "verify_recovery"
  /\ Verify("recovery", "new", Goto("write_misc"), Ends("failed"))
  /\ UNCHANGED <<backup, before>>
WriteMisc ==
  /\ host.at = "write_misc" /\ Write("misc", "new", Goto("verify_misc"), Ends("failed"))
  /\ UNCHANGED <<backup, before>>
VerifyMisc ==
  /\ host.at = "verify_misc" /\ Verify("misc", "new", Goto("reset"), Ends("failed"))
  /\ UNCHANGED <<backup, before>>
Reset ==
  /\ host.at = "reset"
  /\ \/ link = "storage" /\ link' = "off" /\ host' = Ends("verified") /\ UNCHANGED faults
     \/ Fault /\ host' = Ends("failed") /\ link' \in {link, "off"}
     \/ link # "storage" /\ host' = Ends("failed") /\ UNCHANGED <<link, faults>>
  /\ UNCHANGED <<flash, backup, before>>

-----------------------------------------------------------------------------
(* The operator, the board and the power supply                            *)

(* The script is killed, together with the command it runs: no script has  *)
(* a trap.                                                                 *)
Writes(label) ==
  CASE label \in {"write_fit", "undo_write_fit"} -> {"fit"}
    [] label \in {"write_idb", "undo_write_idb"} -> {"idb"}
    [] label = "write_recovery"                  -> {"recovery"}
    [] label = "write_misc"                      -> {"misc"}
    [] OTHER                                     -> {}
Interrupt ==
  /\ host.at # "idle" /\ Fault /\ host' = Ends("none")
  /\ \E torn \in SUBSET Writes(host.at) :
       flash' = [r \in DOMAIN flash |-> IF r \in torn THEN "torn" ELSE flash[r]]
  /\ UNCHANGED <<link, backup, before>>

PowerOff ==
  /\ link # "off" /\ link' = "off"
  /\ IF host.at = "idle" THEN UNCHANGED faults ELSE Fault
  /\ UNCHANGED <<flash, backup, host, before>>
PowerOn ==            \* into MaskROM, or into a loader with a storage protocol
  /\ link = "off" /\ link' \in {"maskrom", "storage"}
  /\ UNCHANGED <<flash, backup, host, before, faults>>

-----------------------------------------------------------------------------

Step == \/ Identify \/ PreflightIdb \/ PreflightFit \/ InstallRecheck
        \/ WriteFit \/ VerifyFit \/ WriteIdb \/ VerifyIdb
        \/ UndoWriteFit \/ UndoVerifyFit \/ UndoWriteIdb \/ UndoVerifyIdb
        \/ SaveRecovery \/ WriteRecovery \/ VerifyRecovery
        \/ WriteMisc \/ VerifyMisc \/ Reset

Next == \/ \E script \in Scripts : Start(script) \/ StartRefused(script)
        \/ Step \/ Interrupt \/ PowerOff \/ PowerOn

Spec == Init /\ [][Next]_vars

(* The shell runs; its commands end, by their timeouts at the latest.      *)
Fairness == WF_vars(Step)
FairSpec == Spec /\ Fairness

-----------------------------------------------------------------------------
(* Properties *)

(* Every variable keeps its type, and a script stays at labels of its own: *)
(* a preflight, above all, never comes to a command that writes.           *)
TypeOK ==
  /\ flash \in Flash /\ before \in Flash
  /\ link \in {"off", "maskrom", "storage"}
  /\ backup \in Images \cup {"missing"}
  /\ \E script \in Scripts :
       host \in [script : {script}, at : Labels(script) \cup {"idle"},
                report : Reports, ok : BOOLEAN]
  /\ faults \in 0..MaxFaults

(* What a script says when it ends is true of the whole flash, whatever    *)
(* failed on the way: a refusal changed nothing, "verified" is exactly     *)
(* the images that were to be written, and a rollback that does not call   *)
(* itself critical restored exactly what was there.  Other ends touch no   *)
(* range the script is not about.                                          *)
Ranges == CASE host.script = "preflight"              -> {}
            [] host.script \in {"install", "restore"} -> {"idb", "fit"}
            [] host.script = "diagnostic"             -> {"recovery", "misc"}
Promised == [r \in DOMAIN before |-> IF r \in Ranges THEN Target ELSE before[r]]
EndsAsReported ==
  /\ \A r \in DOMAIN flash \ Ranges : flash[r] = before[r]
  /\ host.at = "idle" =>
       /\ host.report \in {"refused", "passed", "rolledback"} => flash = before
       /\ host.report = "passed" => flash.fit = "original"
       /\ host.report = "verified" => flash = Promised

(* What the boot chain reads first (the IDB, the boot control block) is    *)
(* written only while what it then loads (the FIT, the recovery image) is  *)
(* already in place and intact.  The rollback is the exception: it writes  *)
(* the IDB whatever has become of the FIT, but only towards the original,  *)
(* and over a FIT that it could not restore only with the failure noted    *)
(* that makes it end as "critical".                                        *)
RollsBack ==
  /\ host.at = "undo_write_idb" /\ flash'.idb # "new"
  /\ flash.fit = "original" \/ ~host.ok
ImageFirst ==
  /\ flash'.idb # flash.idb => flash.fit = Target \/ RollsBack
  /\ flash'.misc # flash.misc => flash.recovery = "new"

(* The installer writes only on a flash that held the original images and  *)
(* with a true copy of its IDB at hand, so that its rollback restores the  *)
(* board: never on the remains of an interrupted run, never with a backup  *)
(* that was captured after an installation.                                *)
Changing == {"write_fit", "verify_fit", "write_idb", "verify_idb", "undo_write_fit",
             "undo_verify_fit", "undo_write_idb", "undo_verify_idb"}
OnlyOverOriginals ==
  host.script = "install" /\ host.at \in Changing =>
    before.idb = "original" /\ before.fit = "original" /\ backup = "original"

(* The installer changes only a board with the originals; the first stage  *)
(* changes only behind the image it loads, or in a rollback that knows of  *)
(* the FIT it could not restore.                                           *)
WritesInOrder == [][ImageFirst /\ OnlyOverOriginals']_vars

(* Whatever was interrupted before, and wherever, restore brings back the  *)
(* original boot ranges of a board in MaskROM or in a loader, if nothing   *)
(* fails while it runs.                                                    *)
RestoreRepairs ==
  (/\ host.script = "restore" /\ host.at = "identify"
   /\ faults = MaxFaults /\ link # "off")
    ~> flash.idb = "original" /\ flash.fit = "original"
=============================================================================
