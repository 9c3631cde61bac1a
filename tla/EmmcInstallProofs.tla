------------------------- MODULE EmmcInstallProofs -------------------------
(***************************************************************************)
(* Proofs about EmmcInstall, for any number of failing commands,           *)
(* interrupts and power cuts.                                              *)
(***************************************************************************)
EXTENDS EmmcInstall, TLAPS

(* Up to these commands a script has changed nothing.                      *)
NothingWritten ==
  host.at \in {"identify", "read_idb", "read_fit", "recheck", "save", "write_recovery"}
    => flash = before

(* The file a script has hashed is the original IDB until the script ends. *)
BackupHashed ==
  host.at # "idle" /\ host.script \in NeedsBackup => backup = "original"

(* What the comparisons of the preflight have shown to the installer.      *)
PreflightHolds ==
  /\ host.script = "install" /\ host.at = "read_fit" /\ host.ok
       => before.idb = "original"
  /\ host.script = "install" /\ host.at \in Changing \cup {"recheck"}
       => before.idb = "original" /\ before.fit = "original"

(* What has been written and read back when a label is reached.            *)
InPlace ==
  /\ host.at \in {"write_idb", "verify_idb"} => flash.fit = Target
  /\ host.at \in {"undo_write_idb", "undo_verify_idb"} /\ host.ok
       => flash.fit = "original"
  /\ host.at \in {"write_misc", "verify_misc", "reset"} => flash.recovery = "new"
  /\ host.at = "reset" => flash.misc = "new"

IInv == /\ TypeOK /\ NothingWritten /\ BackupHashed /\ PreflightHolds /\ InPlace
        /\ EndsAsReported

-----------------------------------------------------------------------------

(* How a script goes on or ends, field by field.                           *)
HostTo(label, report, ok) == [host EXCEPT !.at = label, !.report = report, !.ok = ok]

LEMMA HostFields ==
  ASSUME TypeOK, NEW label \in Labels(host.script) \cup {"idle"}, NEW report \in Reports,
         NEW ok \in BOOLEAN
  PROVE  LET h == HostTo(label, report, ok)
         IN  /\ h.script = host.script /\ h.at = label /\ h.report = report /\ h.ok = ok
             /\ \E script \in Scripts :
                  h \in [script : {script}, at : Labels(script) \cup {"idle"},
                         report : Reports, ok : BOOLEAN]
<1>1. PICK script \in Scripts :
        host \in [script : {script}, at : Labels(script) \cup {"idle"},
                  report : Reports, ok : BOOLEAN]
  BY DEF TypeOK
<1>2. host.script = script
  BY <1>1
<1> QED  BY <1>1, <1>2 DEF HostTo

LEMMA HostIs ==
  ASSUME TypeOK
  PROVE  /\ host.script \in Scripts /\ host.report \in Reports /\ host.ok \in BOOLEAN
         /\ host.at \in Labels(host.script) \cup {"idle"}
         /\ \A label : Goto(label) = HostTo(label, host.report, host.ok)
         /\ \A label : NotOk(label) = HostTo(label, host.report, FALSE)
         /\ \A report : Ends(report) = HostTo("idle", report, host.ok)
<1>1. PICK script \in Scripts :
        host \in [script : {script}, at : Labels(script) \cup {"idle"},
                  report : Reports, ok : BOOLEAN]
  BY DEF TypeOK
<1>2. host.script = script
  BY <1>1
<1> QED  BY <1>1, <1>2 DEF HostTo, Goto, NotOk, Ends

(* The variables other than host, and what keeps to a script's own ranges. *)
BoardTyped == /\ flash \in Flash /\ link \in {"off", "maskrom", "storage"}
              /\ backup \in Images \cup {"missing"} /\ faults \in 0..MaxFaults
Names == {"idb", "fit", "recovery", "misc"}
KeepsToRanges == /\ BoardTyped' /\ before' = before
                 /\ \A r \in Names \ Ranges : flash'[r] = flash[r]

(* A script that goes on keeps the invariant if what its next label stands *)
(* for holds.                                                              *)
LEMMA Continue ==
  ASSUME IInv, KeepsToRanges, host.at # "idle",
         NEW label \in Labels(host.script), NEW ok \in BOOLEAN,
         host' = HostTo(label, host.report, ok),
         host.script \in NeedsBackup => backup' = backup,
         (NothingWritten /\ PreflightHolds /\ InPlace)'
  PROVE  IInv'
<1>1. /\ host.script \in Scripts /\ host.report \in Reports /\ label # "idle"
      /\ before \in Flash /\ flash \in Flash
  BY HostIs DEF IInv, TypeOK, Labels, Scripts
<1>2. /\ host'.script = host.script /\ host'.at = label
      /\ \E script \in Scripts :
           host' \in [script : {script}, at : Labels(script) \cup {"idle"},
                      report : Reports, ok : BOOLEAN]
  BY <1>1, HostFields DEF IInv
<1>3. TypeOK'
  BY <1>1, <1>2 DEF TypeOK, KeepsToRanges, BoardTyped
<1>4. BackupHashed'
  BY <1>2 DEF IInv, BackupHashed
<1>5. Ranges' = Ranges
  BY <1>2 DEF Ranges
<1>6. EndsAsReported'
  <2>1. \A r \in Names \ Ranges : flash[r] = before[r]
    BY <1>1 DEF IInv, EndsAsReported, Names, Flash
  <2>2. \A r \in Names \ Ranges : flash'[r] = before'[r]
    BY <2>1 DEF KeepsToRanges
  <2> QED  BY <1>1, <1>2, <1>5, <2>2 DEF EndsAsReported, KeepsToRanges, BoardTyped, Flash, Names
<1> QED  BY <1>3, <1>4, <1>6 DEF IInv

(* A script that ends keeps it if its report is true.                      *)
LEMMA Finish ==
  ASSUME IInv, KeepsToRanges, NEW report \in Reports, host' = Ends(report),
         report \in {"refused", "passed", "rolledback"} => flash' = before,
         report = "passed" => flash'.fit = "original",
         report = "verified" => \A r \in Ranges : flash'[r] = Target
  PROVE  IInv'
<1>1. /\ host.script \in Scripts /\ host.ok \in BOOLEAN /\ host' = HostTo("idle", report, host.ok)
      /\ before \in Flash /\ flash \in Flash
  BY HostIs DEF IInv, TypeOK
<1>2. /\ host'.script = host.script /\ host'.at = "idle" /\ host'.report = report
      /\ \E script \in Scripts :
           host' \in [script : {script}, at : Labels(script) \cup {"idle"},
                      report : Reports, ok : BOOLEAN]
  BY <1>1, HostFields DEF IInv
<1>3. TypeOK'
  BY <1>1, <1>2 DEF TypeOK, KeepsToRanges, BoardTyped
<1>4. (NothingWritten /\ BackupHashed /\ PreflightHolds /\ InPlace)'
  BY <1>2 DEF NothingWritten, BackupHashed, PreflightHolds, InPlace, Changing
<1>5. Ranges' = Ranges /\ Target' = Target
  BY <1>2 DEF Ranges, Target
<1>6. /\ \A r \in Names \ Ranges : flash'[r] = before[r]
      /\ DOMAIN flash' = Names /\ DOMAIN before = Names /\ before' = before
  BY <1>1 DEF IInv, EndsAsReported, Names, Flash, KeepsToRanges, BoardTyped
<1>7. report = "verified" => flash' = Promised'
  <2>1. HAVE report = "verified"
  <2>2. flash' = [r \in Names |-> flash'[r]]
    BY <1>6 DEF KeepsToRanges, BoardTyped, Flash, Names
  <2>3. Promised' = [r \in Names |-> IF r \in Ranges THEN Target ELSE before[r]]
    BY <1>5, <1>6 DEF Promised
  <2> QED  BY <1>6, <2>1, <2>2, <2>3
<1>8. EndsAsReported'
  BY <1>2, <1>5, <1>6, <1>7 DEF EndsAsReported
<1> QED  BY <1>3, <1>4, <1>8 DEF IInv

-----------------------------------------------------------------------------

LEMMA WriteEffect ==
  ASSUME IInv, NEW range \in Ranges, NEW image \in Images, NEW good, NEW bad,
         Write(range, image, good, bad), UNCHANGED <<backup, before>>
  PROVE  /\ KeepsToRanges /\ host' \in {good, bad}
         /\ \A r \in Names \ {range} : flash'[r] = flash[r]
<1> USE DEF IInv, TypeOK
<1>1. range \in Names
  BY DEF Ranges, Names, Scripts
<1>2. \E left \in Images : flash' = [flash EXCEPT ![range] = left]
  <2>1. flash[range] \in Images /\ "torn" \in Images /\ flash = [flash EXCEPT ![range] = flash[range]]
    BY <1>1 DEF Flash, Names, Images
  <2> QED  BY <2>1 DEF Write, board
<1>3. flash' \in Flash /\ \A r \in Names \ {range} : flash'[r] = flash[r]
  BY <1>1, <1>2 DEF Flash, Names
<1>4. link' \in {"off", "maskrom", "storage"} /\ faults' \in 0..MaxFaults
  BY MaxFaultsAssumption DEF Write, Fault, board
<1>5. host' \in {good, bad}
  BY DEF Write
<1> QED  BY <1>3, <1>4, <1>5 DEF KeepsToRanges, BoardTyped

LEMMA VerifyEffect ==
  ASSUME IInv, NEW range, NEW image, NEW good, NEW bad,
         Verify(range, image, good, bad), UNCHANGED <<backup, before>>
  PROVE  /\ KeepsToRanges /\ flash' = flash
         /\ \/ host' = good /\ flash[range] = image
            \/ host' = bad
<1>1. faults' \in 0..MaxFaults
  BY MaxFaultsAssumption DEF Verify, Fault, IInv, TypeOK
<1> QED  BY <1>1 DEF Verify, KeepsToRanges, BoardTyped, board, IInv, TypeOK

(* The fields of host after Goto and NotOk.                                *)
LEMMA Goes ==
  ASSUME IInv, NEW label \in Labels(host.script), NEW ok \in BOOLEAN,
         \/ host' = Goto(label) /\ ok = host.ok
         \/ host' = NotOk(label) /\ ok = FALSE
  PROVE  /\ host' = HostTo(label, host.report, ok)
         /\ host'.script = host.script /\ host'.at = label /\ host'.ok = ok
<1>1. host.report \in Reports /\ host' = HostTo(label, host.report, ok)
  BY HostIs DEF IInv
<1> QED  BY <1>1, HostFields DEF IInv

(* An installer that fails begins its rollback; another script just ends.  *)
LEMMA FailedHolds ==
  ASSUME IInv, KeepsToRanges, UNCHANGED backup, host' = Failed,
         host.script \in {"install", "restore"},
         host.at \in {"write_fit", "verify_fit", "write_idb", "verify_idb"}
  PROVE  IInv'
<1>1. CASE host.script = "install"
  <2>1. /\ host' = HostTo("undo_write_fit", host.report, host.ok)
        /\ host'.script = host.script /\ host'.at = "undo_write_fit"
        /\ "undo_write_fit" \in Labels(host.script) /\ host.ok \in BOOLEAN
    BY <1>1, HostIs, Goes DEF Failed, Labels, IInv
  <2>2. (NothingWritten /\ PreflightHolds /\ InPlace)'
    BY <1>1, <2>1 DEF NothingWritten, PreflightHolds, InPlace, IInv, Changing, KeepsToRanges
  <2> QED  BY <2>1, <2>2, Continue
<1>2. CASE host.script # "install"
  BY <1>2, Finish DEF Failed, Reports
<1> QED  BY <1>1, <1>2

(* install and restore. *)
LEMMA WriteFitStep == ASSUME IInv, WriteFit PROVE IInv'
<1>1. /\ host.script \in {"install", "restore"} /\ host.at = "write_fit" /\ backup = "original"
      /\ "fit" \in Ranges /\ Target \in Images
      /\ Target = Target
  BY HostIs DEF IInv, BackupHashed, NeedsBackup, WriteFit, Ranges, Labels, Scripts, Target, Images
<1>2. /\ KeepsToRanges /\ host' \in {Goto("verify_fit"), Failed} /\ UNCHANGED <<backup, before>>
      /\ \A r \in Names \ {"fit"} : flash'[r] = flash[r]
  BY <1>1, WriteEffect DEF WriteFit
<1>3. CASE host' = Goto("verify_fit")
  <2>1. /\ host' = HostTo("verify_fit", host.report, host.ok)
        /\ host'.script = host.script /\ host'.at = "verify_fit" /\ host'.ok = host.ok
        /\ "verify_fit" \in Labels(host.script) /\ host.ok \in BOOLEAN
    BY <1>1, <1>3, Goes, HostIs DEF IInv, Labels
  <2>2. (NothingWritten /\ PreflightHolds /\ InPlace)'
    BY <1>1, <1>2, <1>3, <2>1 DEF NothingWritten, PreflightHolds, InPlace, IInv, Changing, Target, WriteFit, Names
  <2> QED  BY <1>1, <1>2, <2>1, <2>2, Continue DEF WriteFit
<1>4. CASE host' = Failed
  BY <1>1, <1>2, <1>4, FailedHolds
<1> QED  BY <1>2, <1>3, <1>4

LEMMA WriteIdbStep == ASSUME IInv, WriteIdb PROVE IInv'
<1>1. /\ host.script \in {"install", "restore"} /\ host.at = "write_idb" /\ backup = "original"
      /\ "idb" \in Ranges /\ Target \in Images
      /\ (IF host.script = "restore" THEN backup ELSE "new") = Target
  BY HostIs DEF IInv, BackupHashed, NeedsBackup, WriteIdb, Ranges, Labels, Scripts, Target, Images
<1>2. /\ KeepsToRanges /\ host' \in {Goto("verify_idb"), Failed} /\ UNCHANGED <<backup, before>>
      /\ \A r \in Names \ {"idb"} : flash'[r] = flash[r]
  BY <1>1, WriteEffect DEF WriteIdb
<1>3. CASE host' = Goto("verify_idb")
  <2>1. /\ host' = HostTo("verify_idb", host.report, host.ok)
        /\ host'.script = host.script /\ host'.at = "verify_idb" /\ host'.ok = host.ok
        /\ "verify_idb" \in Labels(host.script) /\ host.ok \in BOOLEAN
    BY <1>1, <1>3, Goes, HostIs DEF IInv, Labels
  <2>2. (NothingWritten /\ PreflightHolds /\ InPlace)'
    BY <1>1, <1>2, <1>3, <2>1 DEF NothingWritten, PreflightHolds, InPlace, IInv, Changing, Target, WriteIdb, Names
  <2> QED  BY <1>1, <1>2, <2>1, <2>2, Continue DEF WriteIdb
<1>4. CASE host' = Failed
  BY <1>1, <1>2, <1>4, FailedHolds
<1> QED  BY <1>2, <1>3, <1>4

LEMMA VerifyFitStep == ASSUME IInv, VerifyFit PROVE IInv'
<1>1. host.script \in {"install", "restore"} /\ host.at = "verify_fit"
  BY HostIs DEF IInv, VerifyFit, Labels, Scripts
<1>2. /\ KeepsToRanges /\ flash' = flash /\ UNCHANGED <<backup, before>>
      /\ \/ host' = Goto("write_idb") /\ flash.fit = Target
         \/ host' = Failed
  BY VerifyEffect DEF VerifyFit
<1>3. CASE host' = Goto("write_idb") /\ flash.fit = Target
  <2>1. /\ host' = HostTo("write_idb", host.report, host.ok)
        /\ host'.script = host.script /\ host'.at = "write_idb" /\ host'.ok = host.ok
        /\ "write_idb" \in Labels(host.script) /\ host.ok \in BOOLEAN
    BY <1>1, <1>3, Goes, HostIs DEF IInv, Labels
  <2>2. (NothingWritten /\ PreflightHolds /\ InPlace)'
    BY <1>1, <1>2, <1>3, <2>1 DEF NothingWritten, PreflightHolds, InPlace, IInv, Changing, Target, VerifyFit
  <2> QED  BY <1>1, <1>2, <2>1, <2>2, Continue DEF VerifyFit
<1>4. CASE host' = Failed
  BY <1>1, <1>2, <1>4, FailedHolds
<1> QED  BY <1>2, <1>3, <1>4

LEMMA VerifyIdbStep == ASSUME IInv, VerifyIdb PROVE IInv'
<1>1. /\ host.script \in {"install", "restore"} /\ host.at = "verify_idb"
      /\ backup = "original" /\ flash.fit = Target /\ Ranges = {"idb", "fit"}
  BY HostIs DEF IInv, VerifyIdb, Labels, Scripts, BackupHashed, NeedsBackup, InPlace, Ranges
<1>2. /\ KeepsToRanges /\ flash' = flash /\ UNCHANGED <<backup, before>>
      /\ \/ host' = Ends("verified") /\ flash.idb = Target
         \/ host' = Failed
  BY <1>1, VerifyEffect DEF VerifyIdb, Target
<1>3. CASE host' = Ends("verified") /\ flash.idb = Target
  BY <1>1, <1>2, <1>3, Finish DEF Reports
<1>4. CASE host' = Failed
  BY <1>1, <1>2, <1>4, FailedHolds
<1> QED  BY <1>2, <1>3, <1>4

(* rollback. *)
LEMMA UndoWriteFitStep == ASSUME IInv, UndoWriteFit PROVE IInv'
<1>1. /\ host.script = "install" /\ host.at = "undo_write_fit" /\ backup = "original"
      /\ "fit" \in Ranges /\ "original" \in Images
  BY HostIs DEF IInv, BackupHashed, NeedsBackup, UndoWriteFit, Ranges, Labels, Scripts, Images
<1>2. /\ KeepsToRanges /\ host' \in {Goto("undo_verify_fit"), NotOk("undo_verify_fit")}
      /\ UNCHANGED <<backup, before>>
      /\ \A r \in Names \ {"fit"} : flash'[r] = flash[r]
  BY <1>1, WriteEffect DEF UndoWriteFit
<1>3. CASE host' = Goto("undo_verify_fit")
  <2>1. /\ host' = HostTo("undo_verify_fit", host.report, host.ok)
        /\ host'.script = host.script /\ host'.at = "undo_verify_fit" /\ host'.ok = host.ok
        /\ "undo_verify_fit" \in Labels(host.script) /\ host.ok \in BOOLEAN
    BY <1>1, <1>3, Goes, HostIs DEF IInv, Labels
  <2>2. (NothingWritten /\ PreflightHolds /\ InPlace)'
    BY <1>1, <1>2, <1>3, <2>1 DEF NothingWritten, PreflightHolds, InPlace, IInv, Changing, Target, UndoWriteFit, Names
  <2> QED  BY <1>1, <1>2, <2>1, <2>2, Continue DEF UndoWriteFit
<1>4. CASE host' = NotOk("undo_verify_fit")
  <2>1. /\ host' = HostTo("undo_verify_fit", host.report, FALSE)
        /\ host'.script = host.script /\ host'.at = "undo_verify_fit" /\ host'.ok = FALSE
        /\ "undo_verify_fit" \in Labels(host.script) /\ FALSE \in BOOLEAN
    BY <1>1, <1>4, Goes, HostIs DEF IInv, Labels
  <2>2. (NothingWritten /\ PreflightHolds /\ InPlace)'
    BY <1>1, <1>2, <1>4, <2>1 DEF NothingWritten, PreflightHolds, InPlace, IInv, Changing, Target, UndoWriteFit, Names
  <2> QED  BY <1>1, <1>2, <2>1, <2>2, Continue DEF UndoWriteFit
<1> QED  BY <1>2, <1>3, <1>4

LEMMA UndoWriteIdbStep == ASSUME IInv, UndoWriteIdb PROVE IInv'
<1>1. /\ host.script = "install" /\ host.at = "undo_write_idb" /\ backup = "original"
      /\ "idb" \in Ranges /\ "original" \in Images
  BY HostIs DEF IInv, BackupHashed, NeedsBackup, UndoWriteIdb, Ranges, Labels, Scripts, Images
<1>2. /\ KeepsToRanges /\ host' \in {Goto("undo_verify_idb"), NotOk("undo_verify_idb")}
      /\ UNCHANGED <<backup, before>>
      /\ \A r \in Names \ {"idb"} : flash'[r] = flash[r]
  BY <1>1, WriteEffect DEF UndoWriteIdb
<1>3. CASE host' = Goto("undo_verify_idb")
  <2>1. /\ host' = HostTo("undo_verify_idb", host.report, host.ok)
        /\ host'.script = host.script /\ host'.at = "undo_verify_idb" /\ host'.ok = host.ok
        /\ "undo_verify_idb" \in Labels(host.script) /\ host.ok \in BOOLEAN
    BY <1>1, <1>3, Goes, HostIs DEF IInv, Labels
  <2>2. (NothingWritten /\ PreflightHolds /\ InPlace)'
    BY <1>1, <1>2, <1>3, <2>1 DEF NothingWritten, PreflightHolds, InPlace, IInv, Changing, Target, UndoWriteIdb, Names
  <2> QED  BY <1>1, <1>2, <2>1, <2>2, Continue DEF UndoWriteIdb
<1>4. CASE host' = NotOk("undo_verify_idb")
  <2>1. /\ host' = HostTo("undo_verify_idb", host.report, FALSE)
        /\ host'.script = host.script /\ host'.at = "undo_verify_idb" /\ host'.ok = FALSE
        /\ "undo_verify_idb" \in Labels(host.script) /\ FALSE \in BOOLEAN
    BY <1>1, <1>4, Goes, HostIs DEF IInv, Labels
  <2>2. (NothingWritten /\ PreflightHolds /\ InPlace)'
    BY <1>1, <1>2, <1>4, <2>1 DEF NothingWritten, PreflightHolds, InPlace, IInv, Changing, Target, UndoWriteIdb, Names
  <2> QED  BY <1>1, <1>2, <2>1, <2>2, Continue DEF UndoWriteIdb
<1> QED  BY <1>2, <1>3, <1>4

LEMMA UndoVerifyFitStep == ASSUME IInv, UndoVerifyFit PROVE IInv'
<1>1. host.script = "install" /\ host.at = "undo_verify_fit"
  BY HostIs DEF IInv, UndoVerifyFit, Labels, Scripts
<1>2. /\ KeepsToRanges /\ flash' = flash /\ UNCHANGED <<backup, before>>
      /\ \/ host' = Goto("undo_write_idb") /\ flash.fit = "original"
         \/ host' = NotOk("undo_write_idb")
  BY VerifyEffect DEF UndoVerifyFit
<1>3. CASE host' = Goto("undo_write_idb") /\ flash.fit = "original"
  <2>1. /\ host' = HostTo("undo_write_idb", host.report, host.ok)
        /\ host'.script = host.script /\ host'.at = "undo_write_idb" /\ host'.ok = host.ok
        /\ "undo_write_idb" \in Labels(host.script) /\ host.ok \in BOOLEAN
    BY <1>1, <1>3, Goes, HostIs DEF IInv, Labels
  <2>2. (NothingWritten /\ PreflightHolds /\ InPlace)'
    BY <1>1, <1>2, <1>3, <2>1 DEF NothingWritten, PreflightHolds, InPlace, IInv, Changing, Target, UndoVerifyFit
  <2> QED  BY <1>1, <1>2, <2>1, <2>2, Continue DEF UndoVerifyFit
<1>4. CASE host' = NotOk("undo_write_idb")
  <2>1. /\ host' = HostTo("undo_write_idb", host.report, FALSE)
        /\ host'.script = host.script /\ host'.at = "undo_write_idb" /\ host'.ok = FALSE
        /\ "undo_write_idb" \in Labels(host.script) /\ FALSE \in BOOLEAN
    BY <1>1, <1>4, Goes, HostIs DEF IInv, Labels
  <2>2. (NothingWritten /\ PreflightHolds /\ InPlace)'
    BY <1>1, <1>2, <1>4, <2>1 DEF NothingWritten, PreflightHolds, InPlace, IInv, Changing, Target, UndoVerifyFit
  <2> QED  BY <1>1, <1>2, <2>1, <2>2, Continue DEF UndoVerifyFit
<1> QED  BY <1>2, <1>3, <1>4

LEMMA UndoVerifyIdbStep == ASSUME IInv, UndoVerifyIdb PROVE IInv'
<1>1. /\ host.script = "install" /\ host.at = "undo_verify_idb"
      /\ backup = "original" /\ Ranges = {"idb", "fit"}
      /\ host.ok => flash.fit = "original"
      /\ before.idb = "original" /\ before.fit = "original"
  BY HostIs DEF IInv, UndoVerifyIdb, Labels, Scripts, BackupHashed, NeedsBackup, Ranges,
                PreflightHolds, Changing, InPlace
<1>2. /\ KeepsToRanges /\ flash' = flash /\ UNCHANGED <<backup, before>>
      /\ \/ host' = Ends("rolledback") /\ flash.idb = backup /\ flash.fit = "original"
         \/ host' = Ends("critical")
  BY <1>1, VerifyEffect DEF UndoVerifyIdb
<1>3. CASE host' = Ends("rolledback") /\ flash.idb = backup /\ flash.fit = "original"
  <2>1. \A r \in Names : flash[r] = before[r]
    BY <1>1, <1>3 DEF IInv, EndsAsReported, TypeOK, Flash, Names
  <2>2. flash = before
    BY <2>1 DEF IInv, TypeOK, Flash, Names
  <2> QED  BY <1>2, <1>3, <2>2, Finish DEF Reports
<1>4. CASE host' = Ends("critical")
  BY <1>2, <1>4, Finish DEF Reports
<1> QED  BY <1>2, <1>3, <1>4

(* flash-diagnostic-recovery. *)
LEMMA WriteRecoveryStep == ASSUME IInv, WriteRecovery PROVE IInv'
<1>1. /\ host.script = "diagnostic" /\ host.at = "write_recovery"
      /\ "recovery" \in Ranges /\ "new" \in Images
  BY HostIs DEF IInv, WriteRecovery, Ranges, Labels, Scripts, Images
<1>2. /\ KeepsToRanges /\ host' \in {Goto("verify_recovery"), Ends("failed")}
      /\ UNCHANGED <<backup, before>>
      /\ \A r \in Names \ {"recovery"} : flash'[r] = flash[r]
  BY <1>1, WriteEffect DEF WriteRecovery
<1>3. CASE host' = Goto("verify_recovery")
  <2>1. /\ host' = HostTo("verify_recovery", host.report, host.ok)
        /\ host'.script = host.script /\ host'.at = "verify_recovery" /\ host'.ok = host.ok
        /\ "verify_recovery" \in Labels(host.script) /\ host.ok \in BOOLEAN
    BY <1>1, <1>3, Goes, HostIs DEF IInv, Labels
  <2>2. (NothingWritten /\ PreflightHolds /\ InPlace)'
    BY <1>1, <1>2, <1>3, <2>1 DEF NothingWritten, PreflightHolds, InPlace, IInv, Changing, Target, WriteRecovery, Names
  <2> QED  BY <1>1, <1>2, <2>1, <2>2, Continue DEF WriteRecovery
<1>4. CASE host' = Ends("failed")
  BY <1>2, <1>4, Finish DEF Reports
<1> QED  BY <1>2, <1>3, <1>4

LEMMA WriteMiscStep == ASSUME IInv, WriteMisc PROVE IInv'
<1>1. /\ host.script = "diagnostic" /\ host.at = "write_misc"
      /\ "misc" \in Ranges /\ "new" \in Images
  BY HostIs DEF IInv, WriteMisc, Ranges, Labels, Scripts, Images
<1>2. /\ KeepsToRanges /\ host' \in {Goto("verify_misc"), Ends("failed")}
      /\ UNCHANGED <<backup, before>>
      /\ \A r \in Names \ {"misc"} : flash'[r] = flash[r]
  BY <1>1, WriteEffect DEF WriteMisc
<1>3. CASE host' = Goto("verify_misc")
  <2>1. /\ host' = HostTo("verify_misc", host.report, host.ok)
        /\ host'.script = host.script /\ host'.at = "verify_misc" /\ host'.ok = host.ok
        /\ "verify_misc" \in Labels(host.script) /\ host.ok \in BOOLEAN
    BY <1>1, <1>3, Goes, HostIs DEF IInv, Labels
  <2>2. (NothingWritten /\ PreflightHolds /\ InPlace)'
    BY <1>1, <1>2, <1>3, <2>1 DEF NothingWritten, PreflightHolds, InPlace, IInv, Changing, Target, WriteMisc, Names
  <2> QED  BY <1>1, <1>2, <2>1, <2>2, Continue DEF WriteMisc
<1>4. CASE host' = Ends("failed")
  BY <1>2, <1>4, Finish DEF Reports
<1> QED  BY <1>2, <1>3, <1>4

LEMMA VerifyRecoveryStep == ASSUME IInv, VerifyRecovery PROVE IInv'
<1>1. host.script = "diagnostic" /\ host.at = "verify_recovery"
  BY HostIs DEF IInv, VerifyRecovery, Labels, Scripts
<1>2. /\ KeepsToRanges /\ flash' = flash /\ UNCHANGED <<backup, before>>
      /\ \/ host' = Goto("write_misc") /\ flash.recovery = "new"
         \/ host' = Ends("failed")
  BY VerifyEffect DEF VerifyRecovery
<1>3. CASE host' = Goto("write_misc") /\ flash.recovery = "new"
  <2>1. /\ host' = HostTo("write_misc", host.report, host.ok)
        /\ host'.script = host.script /\ host'.at = "write_misc" /\ host'.ok = host.ok
        /\ "write_misc" \in Labels(host.script) /\ host.ok \in BOOLEAN
    BY <1>1, <1>3, Goes, HostIs DEF IInv, Labels
  <2>2. (NothingWritten /\ PreflightHolds /\ InPlace)'
    BY <1>1, <1>2, <1>3, <2>1 DEF NothingWritten, PreflightHolds, InPlace, IInv, Changing, Target, VerifyRecovery
  <2> QED  BY <1>1, <1>2, <2>1, <2>2, Continue DEF VerifyRecovery
<1>4. CASE host' = Ends("failed")
  BY <1>2, <1>4, Finish DEF Reports
<1> QED  BY <1>2, <1>3, <1>4

LEMMA VerifyMiscStep == ASSUME IInv, VerifyMisc PROVE IInv'
<1>1. host.script = "diagnostic" /\ host.at = "verify_misc"
  BY HostIs DEF IInv, VerifyMisc, Labels, Scripts
<1>2. /\ KeepsToRanges /\ flash' = flash /\ UNCHANGED <<backup, before>>
      /\ \/ host' = Goto("reset") /\ flash.misc = "new"
         \/ host' = Ends("failed")
  BY VerifyEffect DEF VerifyMisc
<1>3. CASE host' = Goto("reset") /\ flash.misc = "new"
  <2>1. /\ host' = HostTo("reset", host.report, host.ok)
        /\ host'.script = host.script /\ host'.at = "reset" /\ host'.ok = host.ok
        /\ "reset" \in Labels(host.script) /\ host.ok \in BOOLEAN
    BY <1>1, <1>3, Goes, HostIs DEF IInv, Labels
  <2>2. (NothingWritten /\ PreflightHolds /\ InPlace)'
    BY <1>1, <1>2, <1>3, <2>1 DEF NothingWritten, PreflightHolds, InPlace, IInv, Changing, Target, VerifyMisc
  <2> QED  BY <1>1, <1>2, <2>1, <2>2, Continue DEF VerifyMisc
<1>4. CASE host' = Ends("failed")
  BY <1>2, <1>4, Finish DEF Reports
<1> QED  BY <1>2, <1>3, <1>4

LEMMA ResetStep == ASSUME IInv, Reset PROVE IInv'
<1>1. /\ host.script = "diagnostic" /\ host.at = "reset" /\ Ranges = {"recovery", "misc"}
      /\ flash.recovery = "new" /\ flash.misc = "new" /\ Target = "new"
  BY HostIs DEF IInv, Reset, Labels, Scripts, Ranges, InPlace, Target
<1>2. /\ KeepsToRanges /\ flash' = flash /\ UNCHANGED <<backup, before>>
      /\ host' \in {Ends("verified"), Ends("failed")}
  BY MaxFaultsAssumption DEF Reset, Fault, KeepsToRanges, BoardTyped, IInv, TypeOK
<1>3. CASE host' = Ends("verified")
  BY <1>1, <1>2, <1>3, Finish DEF Reports
<1>4. CASE host' = Ends("failed")
  BY <1>2, <1>4, Finish DEF Reports
<1> QED  BY <1>2, <1>3, <1>4

(* Before the first write. *)
LEMMA IdentifyStep == ASSUME IInv, Identify PROVE IInv'
<1>1. host.at = "identify" /\ host.script \in Scripts /\ flash = before
  BY HostIs DEF IInv, Identify, NothingWritten
<1>2. /\ KeepsToRanges /\ flash' = flash /\ UNCHANGED <<backup, before>>
      /\ host' \in {Identified, Ends("refused")}
  BY MaxFaultsAssumption DEF Identify, Fault, KeepsToRanges, BoardTyped, IInv, TypeOK
<1>3. CASE host' = Identified /\ host.script = "restore"
  <2>0. host' = Goto("write_fit")
    BY <1>3 DEF Identified
  <2>1. /\ host' = HostTo("write_fit", host.report, host.ok)
        /\ host'.script = host.script /\ host'.at = "write_fit"
        /\ "write_fit" \in Labels(host.script) /\ host.ok \in BOOLEAN
    BY <1>3, <2>0, Goes, HostIs DEF IInv, Labels
  <2>2. (NothingWritten /\ PreflightHolds /\ InPlace)'
    BY <1>2, <1>3, <2>1 DEF NothingWritten, PreflightHolds, InPlace, IInv, Changing, Target
  <2> QED  BY <1>1, <1>2, <2>1, <2>2, Continue
<1>4. CASE host' = Identified /\ host.script = "diagnostic"
  <2>0. host' = Goto("save")
    BY <1>4 DEF Identified
  <2>1. /\ host' = HostTo("save", host.report, host.ok)
        /\ host'.script = host.script /\ host'.at = "save"
        /\ "save" \in Labels(host.script) /\ host.ok \in BOOLEAN
    BY <1>4, <2>0, Goes, HostIs DEF IInv, Labels
  <2>2. (NothingWritten /\ PreflightHolds /\ InPlace)'
    BY <1>1, <1>2, <1>4, <2>1 DEF NothingWritten, PreflightHolds, InPlace, IInv, Changing, Target
  <2> QED  BY <1>1, <1>2, <2>1, <2>2, Continue
<1>5. CASE host' = Identified /\ host.script \in {"preflight", "install"}
  <2>0. host' = Goto("read_idb")
    BY <1>5 DEF Identified
  <2>1. /\ host' = HostTo("read_idb", host.report, host.ok)
        /\ host'.script = host.script /\ host'.at = "read_idb"
        /\ "read_idb" \in Labels(host.script) /\ host.ok \in BOOLEAN
    BY <1>5, <2>0, Goes, HostIs DEF IInv, Labels
  <2>2. (NothingWritten /\ PreflightHolds /\ InPlace)'
    BY <1>1, <1>2, <1>5, <2>1 DEF NothingWritten, PreflightHolds, InPlace, IInv, Changing, Target
  <2> QED  BY <1>1, <1>2, <2>1, <2>2, Continue
<1>6. CASE host' = Ends("refused")
  BY <1>1, <1>2, <1>6, Finish DEF Reports
<1> QED  BY <1>1, <1>2, <1>3, <1>4, <1>5, <1>6 DEF Scripts

LEMMA PreflightIdbStep == ASSUME IInv, PreflightIdb PROVE IInv'
<1>1. /\ host.at = "read_idb" /\ host.script \in {"preflight", "install"} /\ flash = before
      /\ host.script = "install" => backup = "original"
  BY HostIs DEF IInv, PreflightIdb, NothingWritten, BackupHashed, NeedsBackup, Labels, Scripts
<1>2. /\ KeepsToRanges /\ flash' = flash /\ before' = before
      /\ host.script = "install" => backup' = backup
      /\ \/ host' = Ends("refused")
         \/ \E ok \in BOOLEAN :
              /\ host' = [Goto("read_fit") EXCEPT !.ok = ok]
              /\ host.script = "install" /\ ok => flash.idb = "original"
  <2>1. flash.idb \in Images
    BY DEF IInv, TypeOK, Flash
  <2>2. KeepsToRanges /\ flash' = flash /\ before' = before
    BY <2>1, MaxFaultsAssumption DEF PreflightIdb, Fault, board, KeepsToRanges, BoardTyped, IInv, TypeOK
  <2>3. host.script = "install" => backup' = backup
    BY <1>1 DEF PreflightIdb
  <2>4. CASE link = "storage" /\ backup = "missing" /\ host' = Goto("read_fit")
    <3>1. Goto("read_fit") = [Goto("read_fit") EXCEPT !.ok = host.ok] /\ host.ok \in BOOLEAN
      BY HostIs DEF Goto, IInv, TypeOK
    <3> QED  BY <1>1, <2>2, <2>3, <2>4, <3>1
  <2>5. CASE /\ backup = "original"
             /\ host' = [Goto("read_fit") EXCEPT !.ok = (flash.idb = backup)]
    <3>1. (flash.idb = backup) \in BOOLEAN
      OBVIOUS
    <3> QED  BY <2>2, <2>3, <2>5, <3>1
  <2>6. CASE host' \in {Ends("refused"), [Goto("read_fit") EXCEPT !.ok = FALSE]}
    BY <2>2, <2>3, <2>6
  <2> QED  BY <2>4, <2>5, <2>6 DEF PreflightIdb
<1>3. ASSUME NEW ok \in BOOLEAN, host' = [Goto("read_fit") EXCEPT !.ok = ok],
             host.script = "install" /\ ok => flash.idb = "original"
      PROVE  IInv'
  <2>1. host' = HostTo("read_fit", host.report, ok) /\ host.report \in Reports
    BY <1>3, HostIs DEF IInv, HostTo, Goto
  <2>2. /\ host'.script = host.script /\ host'.at = "read_fit" /\ host'.ok = ok
        /\ "read_fit" \in Labels(host.script)
    BY <1>1, <2>1, HostFields DEF IInv, Labels
  <2>3. (NothingWritten /\ PreflightHolds /\ InPlace)'
    BY <1>1, <1>2, <1>3, <2>2 DEF NothingWritten, PreflightHolds, InPlace, IInv, Changing, Target
  <2> QED  BY <1>1, <1>2, <2>1, <2>2, <2>3, Continue DEF NeedsBackup
<1>4. CASE host' = Ends("refused")
  BY <1>1, <1>2, <1>4, Finish DEF Reports
<1> QED  BY <1>2, <1>3, <1>4

LEMMA PreflightFitStep == ASSUME IInv, PreflightFit PROVE IInv'
<1>1. /\ host.at = "read_fit" /\ host.script \in {"preflight", "install"} /\ flash = before
      /\ host.ok \in BOOLEAN
  BY HostIs DEF IInv, PreflightFit, NothingWritten, Labels, Scripts
<1>2. /\ KeepsToRanges /\ flash' = flash /\ UNCHANGED <<backup, before>>
      /\ \/ host' = PreflightPassed /\ flash.fit = "original" /\ host.ok
         \/ host' = Ends("refused")
  BY <1>1, MaxFaultsAssumption DEF PreflightFit, Fault, board, KeepsToRanges, BoardTyped, IInv, TypeOK
<1>3. CASE /\ host' = Goto("recheck") /\ flash.fit = "original" /\ host.ok
           /\ host.script = "install"
  <2>1. /\ host' = HostTo("recheck", host.report, host.ok)
        /\ host'.script = host.script /\ host'.at = "recheck"
        /\ "recheck" \in Labels(host.script)
    BY <1>1, <1>3, Goes DEF Labels
  <2>2. (NothingWritten /\ PreflightHolds /\ InPlace)'
    BY <1>1, <1>2, <1>3, <2>1 DEF NothingWritten, PreflightHolds, InPlace, IInv, Changing, Target
  <2> QED  BY <1>1, <1>2, <2>1, <2>2, Continue
<1>4. CASE host' = Ends("passed") /\ flash.fit = "original"
  BY <1>1, <1>2, <1>4, Finish DEF Reports
<1>5. CASE host' = Ends("refused")
  BY <1>1, <1>2, <1>5, Finish DEF Reports
<1> QED  BY <1>2, <1>3, <1>4, <1>5 DEF PreflightPassed

LEMMA InstallRecheckStep == ASSUME IInv, InstallRecheck PROVE IInv'
<1>1. host.at = "recheck" /\ host.script = "install" /\ flash = before
  BY HostIs DEF IInv, InstallRecheck, NothingWritten, Labels, Scripts
<1>2. /\ KeepsToRanges /\ flash' = flash /\ UNCHANGED <<backup, before>>
      /\ host' \in {Goto("write_fit"), Ends("refused")}
  BY MaxFaultsAssumption DEF InstallRecheck, Fault, board, KeepsToRanges, BoardTyped, IInv, TypeOK
<1>3. CASE host' = Goto("write_fit")
  <2>1. /\ host' = HostTo("write_fit", host.report, host.ok)
        /\ host'.script = host.script /\ host'.at = "write_fit" /\ host'.ok = host.ok
        /\ "write_fit" \in Labels(host.script) /\ host.ok \in BOOLEAN
    BY <1>1, <1>3, Goes, HostIs DEF IInv, Labels
  <2>2. (NothingWritten /\ PreflightHolds /\ InPlace)'
    BY <1>1, <1>2, <1>3, <2>1 DEF NothingWritten, PreflightHolds, InPlace, IInv, Changing, Target, InstallRecheck
  <2> QED  BY <1>1, <1>2, <2>1, <2>2, Continue DEF InstallRecheck
<1>4. CASE host' = Ends("refused")
  BY <1>1, <1>2, <1>4, Finish DEF Reports
<1> QED  BY <1>2, <1>3, <1>4

LEMMA SaveRecoveryStep == ASSUME IInv, SaveRecovery PROVE IInv'
<1>1. host.at = "save" /\ host.script = "diagnostic" /\ flash = before
  BY HostIs DEF IInv, SaveRecovery, NothingWritten, Labels, Scripts
<1>2. /\ KeepsToRanges /\ flash' = flash /\ UNCHANGED <<backup, before>>
      /\ host' \in {Goto("write_recovery"), Ends("refused")}
  BY MaxFaultsAssumption DEF SaveRecovery, Fault, board, KeepsToRanges, BoardTyped, IInv, TypeOK
<1>3. CASE host' = Goto("write_recovery")
  <2>1. /\ host' = HostTo("write_recovery", host.report, host.ok)
        /\ host'.script = host.script /\ host'.at = "write_recovery" /\ host'.ok = host.ok
        /\ "write_recovery" \in Labels(host.script) /\ host.ok \in BOOLEAN
    BY <1>1, <1>3, Goes, HostIs DEF IInv, Labels
  <2>2. (NothingWritten /\ PreflightHolds /\ InPlace)'
    BY <1>1, <1>2, <1>3, <2>1 DEF NothingWritten, PreflightHolds, InPlace, IInv, Changing, Target, SaveRecovery
  <2> QED  BY <1>1, <1>2, <2>1, <2>2, Continue DEF SaveRecovery
<1>4. CASE host' = Ends("refused")
  BY <1>1, <1>2, <1>4, Finish DEF Reports
<1> QED  BY <1>2, <1>3, <1>4

(* Starts, interrupts and the power supply. *)
LEMMA StartStep ==
  ASSUME IInv, NEW script \in Scripts, Start(script) \/ StartRefused(script)
  PROVE  IInv'
<1>1. PICK at, report :
        /\ host' = [script |-> script, at |-> at, report |-> report, ok |-> TRUE]
        /\ \/ /\ at = "identify" /\ report = "none"
              /\ script \in NeedsBackup => backup = "original"
           \/ at = "idle" /\ report = "refused"
  BY DEF Start, StartRefused
<1>2. before' = flash /\ UNCHANGED <<flash, link, backup, faults>>
  BY DEF Start, StartRefused, board
<1>3. TypeOK'
  <2>1. at \in Labels(script) \cup {"idle"} /\ report \in Reports
    BY <1>1 DEF Labels, Scripts, Reports
  <2>2. host' \in [script : {script}, at : Labels(script) \cup {"idle"},
                  report : Reports, ok : BOOLEAN]
    BY <1>1, <2>1
  <2>3. \E s \in Scripts : host' \in [script : {s}, at : Labels(s) \cup {"idle"},
                                    report : Reports, ok : BOOLEAN]
    BY <2>2
  <2> QED  BY <1>2, <2>3 DEF IInv, TypeOK
<1>4. (NothingWritten /\ BackupHashed /\ PreflightHolds /\ InPlace)'
  BY <1>1, <1>2 DEF NothingWritten, BackupHashed, PreflightHolds, InPlace, Changing
<1>5. EndsAsReported'
  BY <1>1, <1>2 DEF EndsAsReported
<1> QED  BY <1>3, <1>4, <1>5 DEF IInv

LEMMA InterruptStep == ASSUME IInv, Interrupt PROVE IInv'
<1>1. PICK torn \in SUBSET Writes(host.at) :
        flash' = [r \in DOMAIN flash |-> IF r \in torn THEN "torn" ELSE flash[r]]
  BY DEF Interrupt
<1>2. Writes(host.at) \subseteq Ranges
  BY HostIs DEF IInv, Writes, Ranges, Labels, Scripts
<1>3. flash' \in Flash /\ \A r \in Names \ Ranges : flash'[r] = flash[r]
  BY <1>1, <1>2 DEF IInv, TypeOK, Flash, Images, Names
<1>4. KeepsToRanges /\ host' = Ends("none")
  BY <1>3, MaxFaultsAssumption DEF Interrupt, Fault, KeepsToRanges, BoardTyped, IInv, TypeOK
<1> QED  BY <1>4, Finish DEF Reports

LEMMA PowerStep == ASSUME IInv, PowerOff \/ PowerOn PROVE IInv'
<1>1. UNCHANGED <<flash, backup, host, before>> /\ link' \in {"off", "maskrom", "storage"}
      /\ faults' \in 0..MaxFaults
  BY MaxFaultsAssumption DEF PowerOff, PowerOn, Fault, IInv, TypeOK
<1>2. TypeOK'
  BY <1>1 DEF IInv, TypeOK
<1> QED  BY <1>1, <1>2 DEF IInv, NothingWritten, BackupHashed, PreflightHolds, InPlace,
                            EndsAsReported, Ranges, Target, Promised

-----------------------------------------------------------------------------

LEMMA InitHolds == Init => IInv
<1> SUFFICES ASSUME Init PROVE IInv
  OBVIOUS
<1>1. flash \in Flash /\ before = flash
  BY DEF Init, Flash, Images
<1>2. TypeOK
  BY <1>1, MaxFaultsAssumption DEF Init, TypeOK, Scripts, Reports, Images
<1> QED  BY <1>1, <1>2 DEF Init, IInv, NothingWritten, BackupHashed, PreflightHolds, InPlace,
                           EndsAsReported, Changing

LEMMA StepHolds == IInv /\ [Next]_vars => IInv'
<1> SUFFICES ASSUME IInv, [Next]_vars PROVE IInv'
  OBVIOUS
<1>1. CASE Step
  BY <1>1, IdentifyStep, PreflightIdbStep, PreflightFitStep, InstallRecheckStep,
     WriteFitStep, VerifyFitStep, WriteIdbStep, VerifyIdbStep, UndoWriteFitStep,
     UndoVerifyFitStep, UndoWriteIdbStep, UndoVerifyIdbStep, SaveRecoveryStep,
     WriteRecoveryStep, VerifyRecoveryStep, WriteMiscStep, VerifyMiscStep, ResetStep
  DEF Step
<1>2. CASE UNCHANGED vars
  <2>1. TypeOK'
    BY <1>2 DEF vars, IInv, TypeOK
  <2>2. (NothingWritten /\ BackupHashed /\ PreflightHolds /\ InPlace)'
    BY <1>2 DEF vars, IInv, NothingWritten, BackupHashed, PreflightHolds, InPlace, Target
  <2>3. EndsAsReported'
    BY <1>2 DEF vars, IInv, EndsAsReported, Ranges, Target, Promised
  <2> QED  BY <2>1, <2>2, <2>3 DEF IInv
<1> QED  BY <1>1, <1>2, StartStep, InterruptStep, PowerStep DEF Next

(* The inductive invariant holds in every reachable state.                 *)
THEOREM InductiveInvariant == Spec => []IInv
  BY InitHolds, StepHolds, PTL DEF Spec

(* Types, and the labels each script keeps to: the preflight never writes. *)
THEOREM TypeCorrect == Spec => []TypeOK
<1>1. IInv => TypeOK
  BY DEF IInv
<1> QED  BY <1>1, InductiveInvariant, PTL

(* What the scripts report when they end is true of the flash, whatever    *)
(* commands fail, however often, and wherever they are interrupted.        *)
THEOREM ReportsTrue == Spec => []EndsAsReported
<1>1. IInv => EndsAsReported
  BY DEF IInv
<1> QED  BY <1>1, InductiveInvariant, PTL

(* The installer writes, and rolls back, only over the original images.    *)
(* The IDB changes only behind the intact FIT it loads, or towards the     *)
(* original in a rollback, which has noted it if the FIT is not restored.  *)
(* The boot control block changes only behind an intact recovery image.    *)
THEOREM Ordered == Spec => WritesInOrder
<1>1. IInv => OnlyOverOriginals
  BY DEF IInv, PreflightHolds, BackupHashed, OnlyOverOriginals, Changing, NeedsBackup
<1>2. IInv /\ [Next]_vars => [ImageFirst]_vars
  <2> SUFFICES ASSUME IInv, Next PROVE ImageFirst
    BY DEF vars, ImageFirst
  <2>1. /\ host.at = "write_idb" => flash.fit = Target
        /\ host.at = "undo_write_idb" /\ host.ok => flash.fit = "original"
        /\ host.at = "write_misc" => flash.recovery = "new"
    BY DEF IInv, InPlace
  <2>2. ASSUME NEW r \in {"idb", "misc"}, flash'[r] # flash[r]
        PROVE  host.at \in IF r = "misc" THEN {"write_misc"} ELSE {"write_idb", "undo_write_idb"}
    <3>1. CASE Step
      BY <2>2, <3>1, HostIs DEF IInv, TypeOK, Flash, Step, Identify, PreflightIdb, PreflightFit,
         InstallRecheck, WriteFit, VerifyFit, WriteIdb, VerifyIdb, UndoWriteFit,
         UndoVerifyFit, UndoWriteIdb, UndoVerifyIdb, SaveRecovery, WriteRecovery,
         VerifyRecovery, WriteMisc, VerifyMisc, Reset, Write, Verify, board
    <3>2. CASE Interrupt
      BY <2>2, <3>2 DEF IInv, TypeOK, Flash, Interrupt, Writes
    <3> QED  BY <2>2, <3>1, <3>2 DEF Next, Start, StartRefused, PowerOff, PowerOn, board
  <2>3. ASSUME host.at = "undo_write_idb", flash'.idb # flash.idb
        PROVE  flash'.idb # "new"
    <3>1. host.script = "install" /\ backup = "original"
      BY <2>3, HostIs DEF IInv, BackupHashed, NeedsBackup, Labels, Scripts
    <3>2. CASE UndoWriteIdb
      BY <2>3, <3>1, <3>2 DEF UndoWriteIdb, Write, board, IInv, TypeOK, Flash
    <3>3. CASE Interrupt
      BY <2>3, <3>3 DEF Interrupt, IInv, TypeOK, Flash
    <3>4. CASE Step /\ ~UndoWriteIdb
      BY <2>3, <3>4 DEF Step, Identify, PreflightIdb, PreflightFit, InstallRecheck, WriteFit,
         VerifyFit, WriteIdb, VerifyIdb, UndoWriteFit, UndoVerifyFit, UndoVerifyIdb,
         SaveRecovery, WriteRecovery, VerifyRecovery, WriteMisc, VerifyMisc, Reset
    <3> QED  BY <2>3, <3>2, <3>3, <3>4 DEF Next, Start, StartRefused, PowerOff, PowerOn, board
  <2> QED  BY <2>1, <2>2, <2>3 DEF ImageFirst, RollsBack
<1>3. OnlyOverOriginals' /\ [ImageFirst]_vars => [ImageFirst /\ OnlyOverOriginals']_vars
  OBVIOUS
<1> QED  BY <1>1, <1>2, <1>3, InductiveInvariant, PTL DEF Spec, WritesInOrder
=============================================================================
