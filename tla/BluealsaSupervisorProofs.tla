---------------------- MODULE BluealsaSupervisorProofs ----------------------
(***************************************************************************)
(* Proofs about BluealsaSupervisor, for any number of process numbers, of  *)
(* probes and of crashes.  What depends on the init script's patience says *)
(* so in its statement.                                                    *)
(***************************************************************************)
EXTENDS BluealsaSupervisor, FiniteSetTheorems, TLAPS

Runs(p, k) == proc[p].kind = k /\ proc[p].state # "stopping"

(* A patient init script forgets no supervisor that is alive.              *)
PidfileNames == Patient => \A s \in Sups : Live(s) => pidfile = s

(* One supervisor and its own children: it holds the number of each that   *)
(* runs, and its label tells which numbers it holds.                       *)
OwnsNothing(s) == ~Live(s) => sup[s] = Dead /\ \A p \in Pids : proc[p].parent # s
HoldsChildren(s) ==
  \A p \in Pids : proc[p].parent = s =>
    /\ Runs(p, "aplay") => p = sup[s].aplay_pid
    /\ Runs(p, "bluealsa") => p = sup[s].bluealsa_pid
BeforeLaunch == {"exec", "killa", "killb", "launch"}
LabelInv(r) ==
  /\ r.aplay_pid # None => r.ready /\ r.bluealsa_pid # None
  /\ r.at \in {"checka", "starta"} => r.ready /\ r.bluealsa_pid # None
  /\ r.at \in BeforeLaunch \cup {"probe", "list", "starta", "stopb", "waitb"}
       => r.aplay_pid = None
  /\ r.at \in BeforeLaunch => r.bluealsa_pid = None
  /\ r.at \in {"nap", "deps", "checkb"} /\ r.bluealsa_pid # None => r.ready
  /\ r.at = "list" => r.bluealsa_pid # None /\ r.count < ProbeTries
  /\ r.at \in {"stopa", "waita", "stopb", "waitb"} => r.ret # "none"
Waits(s) == \A p \in Pids :
  /\ sup[s].at = "waita" /\ p = sup[s].aplay_pid => ~Runs(p, "aplay")
  /\ sup[s].at = "waitb" /\ p = sup[s].bluealsa_pid => ~Runs(p, "bluealsa")
SupInv(s) == OwnsNothing(s) /\ HoldsChildren(s) /\ LabelInv(sup[s]) /\ Waits(s)

(* With one supervisor at a time, whatever runs after its cleanup is held  *)
(* by it.                                                                  *)
Clean(s) ==
  /\ CleanedUp(s) => \A p \in Pids :
       /\ Runs(p, "aplay") => p = sup[s].aplay_pid
       /\ Runs(p, "bluealsa") => p = sup[s].bluealsa_pid
  /\ sup[s].at = "killb" => \A p \in Pids : ~Runs(p, "aplay")

IInv == /\ TypeOK /\ PidfileNames
        /\ \A s \in Sups : SupInv(s)
        /\ Patient => \A s \in Sups : Clean(s)

-----------------------------------------------------------------------------

(* What a step of one supervisor may do to the daemons of another one: it  *)
(* may end them, not fork them, and no number the other holds is reused.   *)
Spares(t) == \A p \in Pids :
  /\ proc'[p].parent = t => proc[p].parent = t
  /\ \A k \in Kinds : Runs(p, k)' =>
       \/ Runs(p, k)
       \/ p \notin {sup[t].aplay_pid, sup[t].bluealsa_pid} /\ proc'[p].parent # t

LEMMA Spared ==
  ASSUME NEW t \in Sups, SupInv(t), sup'[t] = sup[t], Spares(t)
  PROVE  SupInv(t)'
<1>1. OwnsNothing(t)'
  BY DEF SupInv, OwnsNothing, Spares, Live
<1>2. HoldsChildren(t)'
  BY DEF SupInv, HoldsChildren, Spares, Runs, Kinds
<1>3. LabelInv(sup[t])'
  BY DEF SupInv, LabelInv, BeforeLaunch
<1>4. Waits(t)'
  BY DEF SupInv, Waits, Spares, Runs, Kinds
<1> QED BY <1>1, <1>2, <1>3, <1>4 DEF SupInv

(* The number a fork takes is free and no supervisor holds it.             *)
LEMMA FreshPid ==
  ASSUME Unused # {}
  PROVE  /\ NewPid \in Pids /\ proc[NewPid] = Free
         /\ \A s \in Sups : NewPid # sup[s].aplay_pid /\ NewPid # sup[s].bluealsa_pid
BY DEF NewPid, Unused

(* What a step of supervisor s has to establish for the invariant.         *)
Mine(s) == /\ sup' \in [Sups -> Supervisors] /\ proc' \in [Pids -> Daemons]
           /\ \A t \in Sups \ {s} : sup'[t] = sup[t] /\ Spares(t)
           /\ SupInv(s)' /\ (Patient => Clean(s)')

LEMMA StepSuffices ==
  ASSUME IInv, NEW s \in Sups, Live(s), Mine(s), UNCHANGED <<service, deps, pidfile>>,
         stopWaits' \in BOOLEAN, crashes' \in 0..MaxCrashes
  PROVE  IInv'
<1>1. TypeOK'
  BY DEF IInv, TypeOK, Mine
<1>2. \A t \in Sups : SupInv(t)'
  <2> TAKE t \in Sups
  <2>1. CASE t = s
    BY <2>1 DEF Mine
  <2>2. CASE t # s
    BY <2>2, Spared DEF Mine, IInv
  <2> QED BY <2>1, <2>2
<1>3. PidfileNames'
  BY DEF IInv, PidfileNames, Mine, Live
<1>4. ASSUME Patient, NEW t \in Sups PROVE Clean(t)'
  <2>1. CASE t = s
    BY <1>4, <2>1 DEF Mine
  <2>2. CASE t # s
    <3>1. ~Live(t)
      BY <1>4, <2>2 DEF IInv, PidfileNames
    <3>2. sup'[t].at = "dead"
      BY <2>2, <3>1 DEF Mine, Live
    <3> QED BY <3>2 DEF Clean, CleanedUp
  <2> QED BY <2>1, <2>2
<1> QED BY <1>1, <1>2, <1>3, <1>4 DEF IInv
(* A step that changes only the variables and the label of a supervisor    *)
(* past its cleanup keeps the numbers of the daemons that run.             *)
Keeps(s, r) ==
  /\ \A p \in Pids : /\ Runs(p, "aplay") /\ p = sup[s].aplay_pid => p = r.aplay_pid
                     /\ Runs(p, "bluealsa") /\ p = sup[s].bluealsa_pid => p = r.bluealsa_pid
  /\ r.at \notin {"waita", "waitb", "killb"}
  /\ CleanedUp(s) \/ r.at \in {"exec", "killa"}

LEMMA Moves ==
  ASSUME IInv, NEW s \in Sups, Live(s), NEW r \in Supervisors, r.at # "dead",
         sup' = [sup EXCEPT ![s] = r], proc' = proc, LabelInv(r), Keeps(s, r)
  PROVE  Mine(s)
<1>1. sup' \in [Sups -> Supervisors] /\ proc' \in [Pids -> Daemons] /\ sup'[s] = r
  BY DEF IInv, TypeOK
<1>2. \A t \in Sups \ {s} : sup'[t] = sup[t] /\ Spares(t)
  BY DEF IInv, TypeOK, Spares, Runs
<1>3. OwnsNothing(s)' /\ LabelInv(sup[s])'
  BY <1>1 DEF OwnsNothing, Live, LabelInv
<1>4. HoldsChildren(s)'
  BY <1>1 DEF IInv, SupInv, HoldsChildren, Keeps, Runs
<1>5. Waits(s)'
  BY <1>1 DEF Waits, Keeps
<1>6. Patient => Clean(s)'
  BY <1>1 DEF IInv, Clean, CleanedUp, Keeps, Runs
<1> QED BY <1>1, <1>2, <1>3, <1>4, <1>5, <1>6 DEF Mine, SupInv

-----------------------------------------------------------------------------
(* One lemma per step of a supervisor *)

LEMMA ExecMine == ASSUME IInv, NEW s \in Sups, Exec(s) PROVE Live(s) /\ Mine(s)
<1>1. Live(s) /\ sup[s] \in Supervisors /\ sup[s].at = "exec" /\ LabelInv(sup[s])
  BY DEF Exec, Live, IInv, TypeOK, SupInv
<1> DEFINE r == [sup[s] EXCEPT !.at = "killa"]
<1>2. r \in Supervisors /\ r.at # "dead" /\ LabelInv(r)
  BY <1>1 DEF Supervisors, Labels, LabelInv, BeforeLaunch
<1>3. Keeps(s, r)
  BY <1>1 DEF Keeps, CleanedUp, Runs, IInv, TypeOK, SupInv, Waits
<1>4. sup' = [sup EXCEPT ![s] = r] /\ proc' = proc
  BY DEF Exec, Goto, Set, daemons
<1> QED BY <1>1, <1>2, <1>3, <1>4, Moves

LEMMA LoopMine == ASSUME IInv, NEW s \in Sups, Loop(s) PROVE Live(s) /\ Mine(s)
<1>1. Live(s) /\ sup[s] \in Supervisors /\ sup[s].at = "nap" /\ LabelInv(sup[s])
  BY DEF Loop, Live, IInv, TypeOK, SupInv
<1>2. CASE sup[s].running
  <2> DEFINE r == [sup[s] EXCEPT !.at = "deps"]
  <2>2. r \in Supervisors /\ r.at # "dead" /\ LabelInv(r)
    BY <1>1, <1>2 DEF Supervisors, Labels, LabelInv, BeforeLaunch
  <2>3. Keeps(s, r)
    BY <1>1, <1>2 DEF Keeps, CleanedUp, Runs, IInv, TypeOK, SupInv, Waits
  <2>4. sup' = [sup EXCEPT ![s] = r] /\ proc' = proc
    BY <1>2 DEF Loop, Goto, StopStack, Set, daemons
  <2> QED BY <1>1, <2>2, <2>3, <2>4, Moves
<1>3. CASE ~sup[s].running
  <2> DEFINE r == [sup[s] EXCEPT !.at = "stopa", !.ret = "exit"]
  <2>2. r \in Supervisors /\ r.at # "dead" /\ LabelInv(r)
    BY <1>1, <1>3 DEF Supervisors, Labels, LabelInv, BeforeLaunch
  <2>3. Keeps(s, r)
    BY <1>1, <1>3 DEF Keeps, CleanedUp, Runs, IInv, TypeOK, SupInv, Waits
  <2>4. sup' = [sup EXCEPT ![s] = r] /\ proc' = proc
    BY <1>3 DEF Loop, Goto, StopStack, Set, daemons
  <2> QED BY <1>1, <2>2, <2>3, <2>4, Moves
<1> QED BY <1>2, <1>3

LEMMA DependenciesReadyMine == ASSUME IInv, NEW s \in Sups, DependenciesReady(s) PROVE Live(s) /\ Mine(s)
<1>1. Live(s) /\ sup[s] \in Supervisors /\ sup[s].at = "deps" /\ LabelInv(sup[s])
  BY DEF DependenciesReady, Live, IInv, TypeOK, SupInv
<1>2. CASE deps
  <2> DEFINE r == [sup[s] EXCEPT !.at = "checkb"]
  <2>2. r \in Supervisors /\ r.at # "dead" /\ LabelInv(r)
    BY <1>1, <1>2 DEF Supervisors, Labels, LabelInv, BeforeLaunch
  <2>3. Keeps(s, r)
    BY <1>1, <1>2 DEF Keeps, CleanedUp, Runs, IInv, TypeOK, SupInv, Waits
  <2>4. sup' = [sup EXCEPT ![s] = r] /\ proc' = proc
    BY <1>2 DEF DependenciesReady, Goto, StopStack, Set, daemons
  <2> QED BY <1>1, <2>2, <2>3, <2>4, Moves
<1>3. CASE ~deps
  <2> DEFINE r == [sup[s] EXCEPT !.at = "stopa", !.ret = "nap"]
  <2>2. r \in Supervisors /\ r.at # "dead" /\ LabelInv(r)
    BY <1>1, <1>3 DEF Supervisors, Labels, LabelInv, BeforeLaunch
  <2>3. Keeps(s, r)
    BY <1>1, <1>3 DEF Keeps, CleanedUp, Runs, IInv, TypeOK, SupInv, Waits
  <2>4. sup' = [sup EXCEPT ![s] = r] /\ proc' = proc
    BY <1>3 DEF DependenciesReady, Goto, StopStack, Set, daemons
  <2> QED BY <1>1, <2>2, <2>3, <2>4, Moves
<1> QED BY <1>2, <1>3

LEMMA CheckBluealsaMine == ASSUME IInv, NEW s \in Sups, CheckBluealsa(s) PROVE Live(s) /\ Mine(s)
<1>1. Live(s) /\ sup[s] \in Supervisors /\ sup[s].at = "checkb" /\ LabelInv(sup[s])
  BY DEF CheckBluealsa, Live, IInv, TypeOK, SupInv
<1>2. CASE Alive(sup[s].bluealsa_pid)
  <2> DEFINE r == [sup[s] EXCEPT !.at = "checka"]
  <2>2. r \in Supervisors /\ r.at # "dead" /\ LabelInv(r)
    BY <1>1, <1>2, PidsAssumption DEF Supervisors, Labels, LabelInv, BeforeLaunch, Alive
  <2>3. Keeps(s, r)
    BY <1>1, <1>2 DEF Keeps, CleanedUp, Runs, Alive, IInv, TypeOK, SupInv, Waits
  <2>4. sup' = [sup EXCEPT ![s] = r] /\ proc' = proc
    BY <1>2 DEF CheckBluealsa, Goto, StopStack, Set, daemons
  <2> QED BY <1>1, <2>2, <2>3, <2>4, Moves
<1>3. CASE ~Alive(sup[s].bluealsa_pid)
  <2> DEFINE r == [sup[s] EXCEPT !.at = "stopa", !.ret = "launch"]
  <2>2. r \in Supervisors /\ r.at # "dead" /\ LabelInv(r)
    BY <1>1, <1>3, PidsAssumption DEF Supervisors, Labels, LabelInv, BeforeLaunch, Alive
  <2>3. Keeps(s, r)
    BY <1>1, <1>3 DEF Keeps, CleanedUp, Runs, Alive, IInv, TypeOK, SupInv, Waits
  <2>4. sup' = [sup EXCEPT ![s] = r] /\ proc' = proc
    BY <1>3 DEF CheckBluealsa, Goto, StopStack, Set, daemons
  <2> QED BY <1>1, <2>2, <2>3, <2>4, Moves
<1> QED BY <1>2, <1>3

LEMMA ProbeEndsMine == ASSUME IInv, NEW s \in Sups, ProbeEnds(s) PROVE Live(s) /\ Mine(s)
<1>1. Live(s) /\ sup[s] \in Supervisors /\ sup[s].at = "probe" /\ LabelInv(sup[s])
  BY DEF ProbeEnds, Live, IInv, TypeOK, SupInv
<1> DEFINE r == [sup[s] EXCEPT !.at = "stopa", !.ret = "nap"]
<1>2. r \in Supervisors /\ r.at # "dead" /\ LabelInv(r)
  BY <1>1 DEF Supervisors, Labels, LabelInv, BeforeLaunch
<1>3. Keeps(s, r)
  BY <1>1 DEF Keeps, CleanedUp, Runs, IInv, TypeOK, SupInv, Waits
<1>4. sup' = [sup EXCEPT ![s] = r] /\ proc' = proc
  BY DEF ProbeEnds, StopStack, Set, daemons
<1> QED BY <1>1, <1>2, <1>3, <1>4, Moves

LEMMA BluealsaGoneMine == ASSUME IInv, NEW s \in Sups, BluealsaGone(s) PROVE Live(s) /\ Mine(s)
<1>1. Live(s) /\ sup[s] \in Supervisors /\ sup[s].at = "probe" /\ LabelInv(sup[s])
  BY DEF BluealsaGone, Live, IInv, TypeOK, SupInv
<1> DEFINE r == [sup[s] EXCEPT !.at = "stopa", !.ret = "nap", !.bluealsa_pid = None]
<1>2. r \in Supervisors /\ r.at # "dead" /\ LabelInv(r)
  BY <1>1, PidsAssumption DEF Supervisors, Labels, LabelInv, BeforeLaunch, Alive, Free, BluealsaGone
<1>3. Keeps(s, r)
  BY <1>1 DEF Keeps, CleanedUp, Runs, Alive, Free, IInv, TypeOK, SupInv, Waits, BluealsaGone
<1>4. sup' = [sup EXCEPT ![s] = r] /\ proc' = proc
  BY DEF BluealsaGone, Set, daemons
<1> QED BY <1>1, <1>2, <1>3, <1>4, Moves

LEMMA ProbeMine == ASSUME IInv, NEW s \in Sups, Probe(s) PROVE Live(s) /\ Mine(s)
<1>1. Live(s) /\ sup[s] \in Supervisors /\ sup[s].at = "probe" /\ LabelInv(sup[s])
  BY DEF Probe, Live, IInv, TypeOK, SupInv
<1> DEFINE r == [sup[s] EXCEPT !.at = "list"]
<1>2. r \in Supervisors /\ r.at # "dead" /\ LabelInv(r)
  BY <1>1, PidsAssumption DEF Supervisors, Labels, LabelInv, BeforeLaunch, Alive, Probe
<1>3. Keeps(s, r)
  BY <1>1 DEF Keeps, CleanedUp, Runs, Alive, IInv, TypeOK, SupInv, Waits, Probe
<1>4. sup' = [sup EXCEPT ![s] = r] /\ proc' = proc
  BY DEF Probe, Goto, Set, daemons
<1> QED BY <1>1, <1>2, <1>3, <1>4, Moves

LEMMA ListDevicesMine == ASSUME IInv, NEW s \in Sups, ListDevices(s) PROVE Live(s) /\ Mine(s)
<1>1. Live(s) /\ sup[s] \in Supervisors /\ sup[s].at = "list" /\ LabelInv(sup[s])
  BY DEF ListDevices, Live, IInv, TypeOK, SupInv
<1>2. CASE service # None
  <2> DEFINE r == [sup[s] EXCEPT !.at = "checka", !.ready = TRUE]
  <2>2. r \in Supervisors /\ r.at # "dead" /\ LabelInv(r)
    BY <1>1, <1>2, BoundsAssumption DEF Supervisors, Labels, LabelInv, BeforeLaunch
  <2>3. Keeps(s, r)
    BY <1>1, <1>2 DEF Keeps, CleanedUp, Runs, IInv, TypeOK, SupInv, Waits
  <2>4. sup' = [sup EXCEPT ![s] = r] /\ proc' = proc
    BY <1>2 DEF ListDevices, Set, daemons
  <2> QED BY <1>1, <2>2, <2>3, <2>4, Moves
<1>3. CASE service = None
  <2> DEFINE r == [sup[s] EXCEPT !.at = "probe", !.count = @ + 1]
  <2>1. sup[s].count + 1 \in 0..ProbeTries
    BY <1>1, BoundsAssumption DEF Supervisors, LabelInv
  <2>2. r \in Supervisors /\ r.at # "dead" /\ LabelInv(r)
    BY <1>1, <1>3, <2>1 DEF Supervisors, Labels, LabelInv, BeforeLaunch
  <2>3. Keeps(s, r)
    BY <1>1, <1>3 DEF Keeps, CleanedUp, Runs, IInv, TypeOK, SupInv, Waits
  <2>4. sup' = [sup EXCEPT ![s] = r] /\ proc' = proc
    BY <1>3 DEF ListDevices, Set, daemons
  <2> QED BY <1>1, <2>2, <2>3, <2>4, Moves
<1> QED BY <1>2, <1>3

LEMMA CheckAplayMine == ASSUME IInv, NEW s \in Sups, CheckAplay(s) PROVE Live(s) /\ Mine(s)
<1>1. Live(s) /\ sup[s] \in Supervisors /\ sup[s].at = "checka" /\ LabelInv(sup[s])
  BY DEF CheckAplay, Live, IInv, TypeOK, SupInv
<1>2. CASE Alive(sup[s].aplay_pid)
  <2> DEFINE r == [sup[s] EXCEPT !.at = "nap"]
  <2>2. r \in Supervisors /\ r.at # "dead" /\ LabelInv(r)
    BY <1>1, <1>2 DEF Supervisors, Labels, LabelInv, BeforeLaunch, Alive, Free
  <2>3. Keeps(s, r)
    BY <1>1, <1>2 DEF Keeps, CleanedUp, Runs, Alive, Free, IInv, TypeOK, SupInv, Waits
  <2>4. sup' = [sup EXCEPT ![s] = r] /\ proc' = proc
    BY <1>2 DEF CheckAplay, Goto, Set, daemons
  <2> QED BY <1>1, <2>2, <2>3, <2>4, Moves
<1>3. CASE ~Alive(sup[s].aplay_pid)
  <2> DEFINE r == [sup[s] EXCEPT !.at = "starta", !.aplay_pid = None]
  <2>2. r \in Supervisors /\ r.at # "dead" /\ LabelInv(r)
    BY <1>1, <1>3 DEF Supervisors, Labels, LabelInv, BeforeLaunch, Alive, Free
  <2>3. Keeps(s, r)
    BY <1>1, <1>3 DEF Keeps, CleanedUp, Runs, Alive, Free, IInv, TypeOK, SupInv, Waits
  <2>4. sup' = [sup EXCEPT ![s] = r] /\ proc' = proc
    BY <1>3 DEF CheckAplay, Goto, Set, daemons
  <2> QED BY <1>1, <2>2, <2>3, <2>4, Moves
<1> QED BY <1>2, <1>3

LEMMA WaitAplayMine == ASSUME IInv, NEW s \in Sups, WaitAplay(s) PROVE Live(s) /\ Mine(s)
<1>1. Live(s) /\ sup[s] \in Supervisors /\ sup[s].at = "waita" /\ LabelInv(sup[s])
  BY DEF WaitAplay, Live, IInv, TypeOK, SupInv
<1> DEFINE r == AplayWaited(sup[s])
<1>2. r \in Supervisors /\ r.at # "dead" /\ LabelInv(r)
  BY <1>1 DEF Supervisors, Labels, LabelInv, BeforeLaunch, Alive, Free, AplayWaited, WaitAplay
<1>3. Keeps(s, r)
  BY <1>1 DEF Keeps, CleanedUp, Runs, Alive, Free, AplayWaited, IInv, TypeOK, SupInv, Waits, WaitAplay
<1>4. sup' = [sup EXCEPT ![s] = r] /\ proc' = proc
  BY DEF WaitAplay, Set, daemons
<1> QED BY <1>1, <1>2, <1>3, <1>4, Moves

(* killall tells every daemon of one name to stop.                         *)
LEMMA KillallAplayMine == ASSUME IInv, NEW s \in Sups, KillallAplay(s) PROVE Live(s) /\ Mine(s)
<1> DEFINE r == [sup[s] EXCEPT !.at = "killb"]
<1>1. Live(s) /\ sup[s] \in Supervisors /\ sup[s].at = "killa" /\ SupInv(s)
  BY DEF KillallAplay, Killall, Live, IInv, TypeOK
<1>2. r \in Supervisors /\ r.at = "killb" /\ LabelInv(r)
  BY <1>1 DEF Supervisors, Labels, SupInv, LabelInv, BeforeLaunch
<1>3. /\ sup' = [sup EXCEPT ![s] = r]
      /\ proc' = [p \in Pids |-> IF proc[p].kind = "aplay" THEN Terminated(p) ELSE proc[p]]
  BY DEF KillallAplay, Killall, Goto, Set
<1>4. \A p \in Pids : /\ proc'[p] \in Daemons /\ ~Runs(p, "aplay")'
                      /\ proc'[p].parent = proc[p].parent
                      /\ \A k \in Kinds : Runs(p, k)' => Runs(p, k)
  BY <1>3 DEF Terminated, Running, Runs, IInv, TypeOK, Daemons, Kinds, Free
<1>5. sup' \in [Sups -> Supervisors] /\ proc' \in [Pids -> Daemons] /\ sup'[s] = r
  BY <1>2, <1>3, <1>4 DEF IInv, TypeOK
<1>6. \A t \in Sups \ {s} : sup'[t] = sup[t] /\ Spares(t)
  BY <1>3, <1>4 DEF IInv, TypeOK, Spares
<1>7. SupInv(s)'
  BY <1>1, <1>2, <1>4, <1>5 DEF SupInv, OwnsNothing, Live, HoldsChildren, LabelInv, Waits, Kinds
<1>8. Clean(s)'
  BY <1>2, <1>4, <1>5 DEF Clean, CleanedUp
<1> QED BY <1>1, <1>5, <1>6, <1>7, <1>8 DEF Mine

LEMMA KillallBluealsaMine ==
  ASSUME IInv, NEW s \in Sups, KillallBluealsa(s) PROVE Live(s) /\ Mine(s)
<1> DEFINE r == [sup[s] EXCEPT !.at = "nap"]
<1>1. Live(s) /\ sup[s] \in Supervisors /\ sup[s].at = "killb" /\ SupInv(s)
  BY DEF KillallBluealsa, Killall, Live, IInv, TypeOK
<1>2. r \in Supervisors /\ r.at = "nap" /\ LabelInv(r)
  BY <1>1 DEF Supervisors, Labels, SupInv, LabelInv, BeforeLaunch
<1>3. /\ sup' = [sup EXCEPT ![s] = r]
      /\ proc' = [p \in Pids |-> IF proc[p].kind = "bluealsa" THEN Terminated(p) ELSE proc[p]]
  BY DEF KillallBluealsa, Killall, Goto, Set
<1>4. \A p \in Pids : /\ proc'[p] \in Daemons /\ ~Runs(p, "bluealsa")'
                      /\ proc'[p].parent = proc[p].parent
                      /\ \A k \in Kinds : Runs(p, k)' => Runs(p, k)
  BY <1>3 DEF Terminated, Running, Runs, IInv, TypeOK, Daemons, Kinds, Free
<1>5. sup' \in [Sups -> Supervisors] /\ proc' \in [Pids -> Daemons] /\ sup'[s] = r
  BY <1>2, <1>3, <1>4 DEF IInv, TypeOK
<1>6. \A t \in Sups \ {s} : sup'[t] = sup[t] /\ Spares(t)
  BY <1>3, <1>4 DEF IInv, TypeOK, Spares
<1>7. SupInv(s)'
  BY <1>1, <1>2, <1>4, <1>5 DEF SupInv, OwnsNothing, Live, HoldsChildren, LabelInv, Waits, Kinds
<1>8. Patient => Clean(s)'
  BY <1>1, <1>2, <1>4, <1>5 DEF IInv, Clean, CleanedUp, Kinds
<1> QED BY <1>1, <1>5, <1>6, <1>7, <1>8 DEF Mine

(* What a fork changes: the new number runs the daemon for s.              *)
LEMMA Forked ==
  ASSUME IInv, NEW s \in Sups, NEW k \in Kinds, Unused # {}, Fork(s, k)
  PROVE  /\ proc' \in [Pids -> Daemons]
         /\ NewPid \in Pids /\ proc[NewPid] = Free
         /\ proc'[NewPid].kind = k /\ proc'[NewPid].parent = s
         /\ \A p \in Pids \ {NewPid} : proc'[p] = proc[p]
         /\ \A t \in Sups \ {s} : Spares(t)
<1>1. proc' = [proc EXCEPT ![NewPid] = [kind |-> k, state |-> "up", parent |-> s]]
  BY DEF Fork
<1>2. NewPid \in Pids /\ proc[NewPid] = Free
  BY FreshPid
<1>3. [kind |-> k, state |-> "up", parent |-> s] \in Daemons
  BY DEF Daemons
<1>4. proc' \in [Pids -> Daemons]
  BY <1>1, <1>3 DEF IInv, TypeOK
<1>5. \A t \in Sups \ {s} : Spares(t)
  BY <1>1, <1>2, FreshPid DEF IInv, TypeOK, Spares, Runs
<1> QED BY <1>1, <1>2, <1>4, <1>5 DEF IInv, TypeOK

LEMMA StartBluealsaMine ==
  ASSUME IInv, NEW s \in Sups, StartBluealsa(s) PROVE Live(s) /\ Mine(s)
<1> DEFINE r == [sup[s] EXCEPT !.at = "probe", !.bluealsa_pid = NewPid,
                               !.count = 0, !.ready = FALSE]
<1>1. Live(s) /\ sup[s] \in Supervisors /\ sup[s].at = "launch" /\ SupInv(s)
  BY DEF StartBluealsa, Live, IInv, TypeOK
<1>2. /\ proc' \in [Pids -> Daemons]
      /\ NewPid \in Pids /\ proc[NewPid] = Free
      /\ proc'[NewPid].kind = "bluealsa" /\ proc'[NewPid].parent = s
      /\ \A p \in Pids \ {NewPid} : proc'[p] = proc[p]
      /\ \A t \in Sups \ {s} : Spares(t)
  BY Forked DEF StartBluealsa, Kinds
<1>3. 0 \in 0..ProbeTries
  BY BoundsAssumption
<1>4. r \in Supervisors /\ r.at = "probe" /\ LabelInv(r)
  BY <1>1, <1>2, <1>3 DEF Supervisors, Labels, SupInv, LabelInv, BeforeLaunch
<1>5. sup' = [sup EXCEPT ![s] = r]
  BY DEF StartBluealsa, Set
<1>6. sup' \in [Sups -> Supervisors] /\ sup'[s] = r /\ \A t \in Sups \ {s} : sup'[t] = sup[t]
  BY <1>4, <1>5 DEF IInv, TypeOK
<1>7. SupInv(s)'
  <2>1. HoldsChildren(s)'
    BY <1>1, <1>2, <1>6, PidsAssumption
       DEF SupInv, HoldsChildren, LabelInv, BeforeLaunch, Runs, IInv, TypeOK
  <2> QED BY <2>1, <1>4, <1>6 DEF SupInv, OwnsNothing, Live, LabelInv, Waits
<1>8. Patient => Clean(s)'
  BY <1>1, <1>2, <1>4, <1>6, PidsAssumption
     DEF IInv, TypeOK, SupInv, LabelInv, BeforeLaunch, Clean, CleanedUp, Runs
<1> QED BY <1>1, <1>2, <1>6, <1>7, <1>8 DEF Mine

LEMMA StartAplayMine ==
  ASSUME IInv, NEW s \in Sups, StartAplay(s) PROVE Live(s) /\ Mine(s)
<1> DEFINE r == [sup[s] EXCEPT !.at = "nap", !.aplay_pid = NewPid]
<1>1. Live(s) /\ sup[s] \in Supervisors /\ sup[s].at = "starta" /\ SupInv(s)
  BY DEF StartAplay, Live, IInv, TypeOK
<1>2. /\ proc' \in [Pids -> Daemons]
      /\ NewPid \in Pids /\ proc[NewPid] = Free
      /\ proc'[NewPid].kind = "aplay" /\ proc'[NewPid].parent = s
      /\ \A p \in Pids \ {NewPid} : proc'[p] = proc[p]
      /\ \A t \in Sups \ {s} : Spares(t)
  BY Forked DEF StartAplay, Kinds
<1>4. r \in Supervisors /\ r.at = "nap" /\ LabelInv(r)
  BY <1>1, <1>2 DEF Supervisors, Labels, SupInv, LabelInv, BeforeLaunch
<1>5. sup' = [sup EXCEPT ![s] = r]
  BY DEF StartAplay, Set
<1>6. sup' \in [Sups -> Supervisors] /\ sup'[s] = r /\ \A t \in Sups \ {s} : sup'[t] = sup[t]
  BY <1>4, <1>5 DEF IInv, TypeOK
<1>7. SupInv(s)'
  <2>1. HoldsChildren(s)'
    BY <1>1, <1>2, <1>6, PidsAssumption
       DEF SupInv, HoldsChildren, LabelInv, BeforeLaunch, Runs, IInv, TypeOK
  <2> QED BY <2>1, <1>4, <1>6 DEF SupInv, OwnsNothing, Live, LabelInv, Waits
<1>8. Patient => Clean(s)'
  BY <1>1, <1>2, <1>4, <1>6, PidsAssumption
     DEF IInv, TypeOK, SupInv, LabelInv, BeforeLaunch, Clean, CleanedUp, Runs
<1> QED BY <1>1, <1>2, <1>6, <1>7, <1>8 DEF Mine

(* What TERM changes: one child is told to stop.                           *)
LEMMA Told ==
  ASSUME IInv, NEW s \in Sups, NEW d \in Pids, Terminate(d)
  PROVE  /\ proc' \in [Pids -> Daemons]
         /\ \A k \in Kinds : ~Runs(d, k)'
         /\ \A p \in Pids : /\ proc'[p].parent = proc[p].parent
                            /\ \A k \in Kinds : Runs(p, k)' => Runs(p, k)
         /\ \A t \in Sups \ {s} : Spares(t)
<1>1. proc' = [proc EXCEPT ![d] = Terminated(d)] /\ Terminated(d) \in Daemons
  BY DEF Terminate, Terminated, Running, IInv, TypeOK, Daemons, Kinds, Free
<1>2. \A k \in Kinds : ~Runs(d, k)'
  BY <1>1 DEF Terminated, Running, Runs, IInv, TypeOK, Kinds, Daemons
<1>3. \A p \in Pids : /\ proc'[p].parent = proc[p].parent
                      /\ \A k \in Kinds : Runs(p, k)' => Runs(p, k)
  BY <1>1 DEF Terminated, Running, Runs, IInv, TypeOK, Kinds, Daemons
<1> QED BY <1>1, <1>2, <1>3 DEF IInv, TypeOK, Spares

LEMMA TellsMine ==
  ASSUME IInv, NEW s \in Sups, NEW r \in Supervisors, NEW d \in Pids, Terminate(d),
         sup' = [sup EXCEPT ![s] = r], LabelInv(r),
         r.aplay_pid = sup[s].aplay_pid, r.bluealsa_pid = sup[s].bluealsa_pid,
         \/ r.at = "waita" /\ d = r.aplay_pid
         \/ r.at = "waitb" /\ d = r.bluealsa_pid,
         CleanedUp(s)
  PROVE  Mine(s)
<1>1. /\ proc' \in [Pids -> Daemons]
      /\ \A k \in Kinds : ~Runs(d, k)'
      /\ \A p \in Pids : /\ proc'[p].parent = proc[p].parent
                         /\ \A k \in Kinds : Runs(p, k)' => Runs(p, k)
      /\ \A t \in Sups \ {s} : Spares(t)
  BY Told
<1>2. sup' \in [Sups -> Supervisors] /\ sup'[s] = r /\ \A t \in Sups \ {s} : sup'[t] = sup[t]
  BY DEF IInv, TypeOK
<1>3. SupInv(s)'
  BY <1>1, <1>2 DEF IInv, SupInv, OwnsNothing, Live, HoldsChildren, LabelInv, Waits, Kinds
<1>4. Patient => Clean(s)'
  BY <1>1, <1>2 DEF IInv, Clean, CleanedUp, Kinds
<1> QED BY <1>1, <1>2, <1>3, <1>4 DEF Mine

LEMMA Ends ==
  ASSUME IInv, NEW s \in Sups, sup' = [sup EXCEPT ![s] = Dead], proc' = Orphaned(s)
  PROVE  Mine(s)
<1>1. Dead \in Supervisors /\ Dead.at = "dead" /\ LabelInv(Dead)
  <2>1. 0 \in 0..ProbeTries
    BY BoundsAssumption
  <2> QED BY <2>1 DEF Dead, NewSupervisor, Supervisors, Labels, LabelInv, BeforeLaunch
<1>2. sup' \in [Sups -> Supervisors] /\ sup'[s] = Dead /\ \A t \in Sups \ {s} : sup'[t] = sup[t]
  BY <1>1 DEF IInv, TypeOK
<1>3. \A p \in Pids : /\ proc'[p] \in Daemons /\ proc'[p].parent # s
                      /\ proc'[p].parent \in {proc[p].parent, None}
                      /\ \A k \in Kinds : Runs(p, k)' => Runs(p, k)
  BY PidsAssumption DEF Orphaned, IInv, TypeOK, Daemons, Free, Runs
<1>4. proc' \in [Pids -> Daemons]
  BY <1>3 DEF Orphaned
<1>5. \A t \in Sups \ {s} : Spares(t)
  BY <1>3, PidsAssumption DEF Spares
<1>6. SupInv(s)'
  BY <1>1, <1>2, <1>3 DEF SupInv, OwnsNothing, Live, HoldsChildren, LabelInv, Waits
<1>7. Clean(s)'
  BY <1>1, <1>2 DEF Clean, CleanedUp
<1> QED BY <1>2, <1>4, <1>5, <1>6, <1>7 DEF Mine

(* The end of stop_stack, of a supervisor that was told to stop or not.    *)
LEMMA StackEnds ==
  ASSUME IInv, NEW s \in Sups, sup[s].at \in {"stopb", "waitb"}, NEW q \in Supervisors,
         q.aplay_pid = None, q.ret # "none",
         \A p \in Pids : p = sup[s].bluealsa_pid => ~Runs(p, "bluealsa"),
         sup' = [sup EXCEPT ![s] = StackStopped(q)],
         proc' = Reparented(s, StackStopped(q))
  PROVE  Mine(s)
<1>1. CASE q.ret = "exit"
  BY <1>1, Ends DEF StackStopped, Reparented
<1>2. CASE q.ret # "exit"
  <2> DEFINE r == [q EXCEPT !.at = q.ret, !.bluealsa_pid = None]
  <2>1. r \in Supervisors /\ r.at \in {"nap", "launch"}
    BY <1>2 DEF Supervisors, Labels
  <2>2. LabelInv(r)
    BY <2>1 DEF LabelInv, BeforeLaunch, Supervisors
  <2>3. r # Dead
    BY <2>1 DEF Dead, NewSupervisor
  <2>4. sup' = [sup EXCEPT ![s] = r] /\ proc' = proc
    BY <1>2, <2>3 DEF StackStopped, Reparented
  <2>5. sup[s].aplay_pid = None
    BY DEF IInv, SupInv, LabelInv
  <2>6. Keeps(s, r)
    BY <2>1, <2>5, PidsAssumption DEF Keeps, CleanedUp
  <2> QED BY <2>1, <2>2, <2>4, <2>6, Moves DEF Live
<1> QED BY <1>1, <1>2

LEMMA StopAplayMine == ASSUME IInv, NEW s \in Sups, StopAplay(s) PROVE Live(s) /\ Mine(s)
<1>1. Live(s) /\ sup[s] \in Supervisors /\ sup[s].at = "stopa" /\ LabelInv(sup[s])
  BY DEF StopAplay, Live, IInv, TypeOK, SupInv
<1>2. CASE Alive(sup[s].aplay_pid)
  <2> DEFINE r == [sup[s] EXCEPT !.at = "waita"]
  <2>1. /\ r \in Supervisors /\ r.at = "waita" /\ LabelInv(r)
        /\ r.aplay_pid = sup[s].aplay_pid /\ r.bluealsa_pid = sup[s].bluealsa_pid
    BY <1>1 DEF Supervisors, Labels, LabelInv, BeforeLaunch
  <2>2. sup' = [sup EXCEPT ![s] = r] /\ Terminate(sup[s].aplay_pid)
    BY <1>2 DEF StopAplay, Goto, Set
  <2>3. sup[s].aplay_pid \in Pids
    BY <1>1, <1>2 DEF Alive, Supervisors
  <2>4. CleanedUp(s)
    BY <1>1 DEF CleanedUp
  <2> HIDE DEF r
  <2> QED BY <1>1, <2>1, <2>2, <2>3, <2>4, TellsMine
<1>3. CASE ~Alive(sup[s].aplay_pid)
  <2> DEFINE r == [sup[s] EXCEPT !.at = "stopb", !.aplay_pid = None]
  <2>1. r \in Supervisors /\ r.at = "stopb" /\ LabelInv(r)
    BY <1>1 DEF Supervisors, Labels, LabelInv, BeforeLaunch
  <2>2. sup' = [sup EXCEPT ![s] = r] /\ proc' = proc
    BY <1>3 DEF StopAplay, Set
  <2>3. Keeps(s, r)
    BY <1>1, <1>3, <2>1, PidsAssumption DEF Keeps, CleanedUp, Alive, Runs, Free
  <2> QED BY <1>1, <2>1, <2>2, <2>3, Moves
<1> QED BY <1>2, <1>3

LEMMA StopBluealsaMine ==
  ASSUME IInv, NEW s \in Sups, StopBluealsa(s) PROVE Live(s) /\ Mine(s)
<1>1. Live(s) /\ sup[s] \in Supervisors /\ sup[s].at = "stopb" /\ LabelInv(sup[s])
  BY DEF StopBluealsa, Live, IInv, TypeOK, SupInv
<1>2. CASE Alive(sup[s].bluealsa_pid)
  <2> DEFINE r == [sup[s] EXCEPT !.at = "waitb"]
  <2>1. /\ r \in Supervisors /\ r.at = "waitb" /\ LabelInv(r)
        /\ r.aplay_pid = sup[s].aplay_pid /\ r.bluealsa_pid = sup[s].bluealsa_pid
    BY <1>1 DEF Supervisors, Labels, LabelInv, BeforeLaunch
  <2>2. sup' = [sup EXCEPT ![s] = r] /\ Terminate(sup[s].bluealsa_pid)
    BY <1>2 DEF StopBluealsa, Goto, Set
  <2>3. sup[s].bluealsa_pid \in Pids
    BY <1>1, <1>2 DEF Alive, Supervisors
  <2>4. CleanedUp(s)
    BY <1>1 DEF CleanedUp
  <2> HIDE DEF r
  <2> QED BY <1>1, <2>1, <2>2, <2>3, <2>4, TellsMine
<1>3. CASE ~Alive(sup[s].bluealsa_pid)
  <2>1. /\ sup' = [sup EXCEPT ![s] = StackStopped(sup[s])]
        /\ proc' = Reparented(s, StackStopped(sup[s]))
    BY <1>3 DEF StopBluealsa, Set
  <2>2. \A p \in Pids : p = sup[s].bluealsa_pid => ~Runs(p, "bluealsa")
    BY <1>3, PidsAssumption DEF Alive, Runs, Free
  <2>3. sup[s].aplay_pid = None /\ sup[s].ret # "none"
    BY <1>1 DEF LabelInv
  <2> QED BY <1>1, <2>1, <2>2, <2>3, StackEnds
<1> QED BY <1>2, <1>3

LEMMA WaitBluealsaMine ==
  ASSUME IInv, NEW s \in Sups, WaitBluealsa(s) PROVE Live(s) /\ Mine(s)
<1>1. Live(s) /\ sup[s] \in Supervisors /\ sup[s].at = "waitb" /\ LabelInv(sup[s])
  BY DEF WaitBluealsa, Live, IInv, TypeOK, SupInv
<1>2. /\ sup' = [sup EXCEPT ![s] = StackStopped(sup[s])]
      /\ proc' = Reparented(s, StackStopped(sup[s]))
  BY DEF WaitBluealsa, Set
<1>3. \A p \in Pids : p = sup[s].bluealsa_pid => ~Runs(p, "bluealsa")
  BY PidsAssumption DEF WaitBluealsa, Alive, Runs, Free
<1>4. sup[s].aplay_pid = None /\ sup[s].ret # "none"
  BY <1>1 DEF LabelInv
<1> QED BY <1>1, <1>2, <1>3, <1>4, StackEnds

LEMMA CrashMine == ASSUME IInv, NEW s \in Sups, Crash(s) PROVE Live(s) /\ Mine(s)
BY Ends DEF Crash, Set

(* TERM from the init script, with which Stop begins.                      *)
LEMMA SignalledMine ==
  ASSUME IInv, NEW s \in Sups, Live(s), sup' = [sup EXCEPT ![s] = Signalled(sup[s])],
         proc' = Reparented(s, Signalled(sup[s]))
  PROVE  Mine(s)
<1> DEFINE told == [sup[s] EXCEPT !.running = FALSE]
<1>1. sup[s] \in Supervisors /\ SupInv(s) /\ LabelInv(sup[s])
  BY DEF IInv, TypeOK, SupInv
<1>2. told \in Supervisors /\ told.at = sup[s].at /\ told.aplay_pid = sup[s].aplay_pid
      /\ told.bluealsa_pid = sup[s].bluealsa_pid /\ told.ret = sup[s].ret
      /\ told.ready = sup[s].ready /\ told.count = sup[s].count
  BY <1>1 DEF Supervisors
<1>3. CASE sup[s].at = "exec"
  BY <1>3, Ends DEF Signalled, Reparented
<1>4. CASE sup[s].at = "waita"
  <2> DEFINE r == AplayWaited(told)
  <2>1. r \in Supervisors /\ r.at = "stopb" /\ LabelInv(r)
    BY <1>1, <1>2, <1>4 DEF AplayWaited, Supervisors, Labels, LabelInv, BeforeLaunch
  <2>2. r # Dead
    BY <2>1 DEF Dead, NewSupervisor
  <2>3. sup' = [sup EXCEPT ![s] = r] /\ proc' = proc
    BY <1>4, <2>2 DEF Signalled, Reparented
  <2>4. Keeps(s, r)
    BY <1>1, <1>2, <1>4, <2>1, PidsAssumption DEF Keeps, CleanedUp, SupInv, Waits, AplayWaited, Supervisors
  <2> QED BY <2>1, <2>3, <2>4, Moves
<1>5. CASE sup[s].at = "waitb"
  <2>1. Signalled(sup[s]) = StackStopped(told)
    BY <1>5 DEF Signalled
  <2>2. \A p \in Pids : p = sup[s].bluealsa_pid => ~Runs(p, "bluealsa")
    BY <1>1, <1>5 DEF SupInv, Waits
  <2>3. told.aplay_pid = None /\ told.ret # "none"
    BY <1>1, <1>2, <1>5 DEF LabelInv
  <2> QED BY <1>2, <1>5, <2>1, <2>2, <2>3, StackEnds
<1>6. CASE sup[s].at \notin {"exec", "waita", "waitb"}
  <2>1. LabelInv(told) /\ told.at # "dead" /\ told # Dead
    BY <1>1, <1>2 DEF LabelInv, BeforeLaunch, Live, Dead, NewSupervisor
  <2>2. sup' = [sup EXCEPT ![s] = told] /\ proc' = proc
    BY <1>6, <2>1 DEF Signalled, Reparented
  <2>3. \A t \in Sups \ {s} : sup'[t] = sup[t] /\ Spares(t)
    BY <2>2 DEF IInv, TypeOK, Spares, Runs
  <2>4. sup' \in [Sups -> Supervisors] /\ proc' \in [Pids -> Daemons] /\ sup'[s] = told
    BY <1>2, <2>2 DEF IInv, TypeOK
  <2>5. SupInv(s)'
    <3>1. OwnsNothing(s)'
      BY <1>2, <2>1, <2>4 DEF OwnsNothing, Live
    <3>2. HoldsChildren(s)'
      BY <1>1, <1>2, <2>2, <2>4 DEF SupInv, HoldsChildren, Runs
    <3>3. LabelInv(sup[s])'
      BY <2>1, <2>4 DEF LabelInv
    <3>4. Waits(s)'
      BY <1>2, <1>6, <2>4 DEF Waits
    <3> QED BY <3>1, <3>2, <3>3, <3>4 DEF SupInv
  <2>6. ASSUME Patient PROVE Clean(s)'
    <3>1. Clean(s)
      BY <2>6 DEF IInv
    <3> QED BY <1>2, <2>2, <2>4, <3>1 DEF Clean, CleanedUp, Runs
  <2> QED BY <2>3, <2>4, <2>5, <2>6 DEF Mine
<1> QED BY <1>3, <1>4, <1>5, <1>6

LEMMA StepOrCrash ==
  ASSUME IInv, NEW s \in Sups, Step(s) \/ Crash(s)
  PROVE  IInv'
<1>1. Live(s) /\ Mine(s)
  BY ExecMine, KillallAplayMine, KillallBluealsaMine, LoopMine, DependenciesReadyMine,
     CheckBluealsaMine, StartBluealsaMine, ProbeEndsMine, BluealsaGoneMine, ProbeMine,
     ListDevicesMine, CheckAplayMine, StartAplayMine, StopAplayMine, WaitAplayMine,
     StopBluealsaMine, WaitBluealsaMine, CrashMine DEF Step
<1>2. CASE Step(s)
  <2>1. UNCHANGED <<service, deps, pidfile, stopWaits, crashes>>
    BY <1>2 DEF Step, Exec, KillallAplay, KillallBluealsa, Killall, Loop, DependenciesReady,
       CheckBluealsa, StartBluealsa, ProbeEnds, BluealsaGone, Probe, ListDevices, CheckAplay,
       StartAplay, StopAplay, WaitAplay, StopBluealsa, WaitBluealsa, daemons, init
  <2> QED BY <1>1, <2>1, StepSuffices DEF IInv, TypeOK
<1>3. CASE Crash(s)
  <2>1. UNCHANGED <<service, deps, pidfile, stopWaits>> /\ crashes' \in 0..MaxCrashes
    BY <1>3, BoundsAssumption DEF Crash, init, IInv, TypeOK
  <2> QED BY <1>1, <2>1, StepSuffices DEF IInv, TypeOK
<1> QED BY <1>2, <1>3

-----------------------------------------------------------------------------
(* The init script and the daemons *)

LEMMA NoneLive ==
  ASSUME IInv, Patient, ~PidfileAlive, NEW s \in Sups
  PROVE  ~Live(s)
BY PidsAssumption DEF IInv, PidfileNames, PidfileAlive

LEMMA StartKeeps == ASSUME IInv, Start PROVE IInv'
<1>1. PICK n \in Sups : n = NewNumber /\ ~Live(n)
  BY DEF Start, NewNumber, NotLive
<1>2. NewSupervisor \in Supervisors /\ NewSupervisor.at = "exec" /\ LabelInv(NewSupervisor)
  <2>1. 0 \in 0..ProbeTries
    BY BoundsAssumption
  <2> QED BY <2>1 DEF NewSupervisor, Supervisors, Labels, LabelInv, BeforeLaunch
<1>3. /\ sup' = [sup EXCEPT ![n] = NewSupervisor] /\ pidfile' = n
      /\ UNCHANGED <<proc, service, deps, stopWaits, crashes>>
  BY <1>1 DEF Start, Set, daemons
<1>4. /\ sup' \in [Sups -> Supervisors] /\ sup'[n] = NewSupervisor
      /\ \A t \in Sups \ {n} : sup'[t] = sup[t] /\ Spares(t)
  BY <1>1, <1>2, <1>3 DEF IInv, TypeOK, Spares, Runs
<1>5. TypeOK'
  BY <1>1, <1>3, <1>4 DEF IInv, TypeOK
<1>6. PidfileNames'
  BY <1>1, <1>3, <1>4, NoneLive DEF PidfileNames, Start, Live
<1>7. SupInv(n)'
  <2>1. OwnsNothing(n)' /\ LabelInv(sup[n])' /\ Waits(n)'
    BY <1>2, <1>4 DEF OwnsNothing, Live, LabelInv, Waits
  <2>2. HoldsChildren(n)'
    BY <1>1, <1>3 DEF IInv, SupInv, OwnsNothing, HoldsChildren
  <2> QED BY <2>1, <2>2 DEF SupInv
<1>8. \A t \in Sups : SupInv(t)'
  <2> TAKE t \in Sups
  <2>1. CASE t = n
    BY <1>7, <2>1
  <2>2. CASE t # n
    BY <1>4, <2>2, Spared DEF IInv
  <2> QED BY <2>1, <2>2
<1>9. ASSUME Patient, NEW t \in Sups PROVE Clean(t)'
  <2>1. CASE t = n
    BY <1>2, <1>4, <2>1 DEF Clean, CleanedUp
  <2>2. CASE t # n
    BY <1>3, <1>4, <1>9, <2>2 DEF IInv, Clean, CleanedUp, Runs
  <2> QED BY <2>1, <2>2
<1> QED BY <1>5, <1>6, <1>8, <1>9 DEF IInv

(* A step that leaves the supervisors alone and starts no daemon.          *)
LEMMA Shrinks ==
  ASSUME IInv, UNCHANGED <<sup, crashes>>, pidfile' \in {pidfile, None},
         proc' \in [Pids -> Daemons], service' \in Pids \cup {None},
         deps' \in BOOLEAN, stopWaits' \in BOOLEAN,
         \A p \in Pids : /\ proc'[p].parent \in {proc[p].parent, None}
                         /\ \A k \in Kinds : Runs(p, k)' => Runs(p, k),
         PidfileNames'
  PROVE  IInv'
<1>1. TypeOK'
  BY DEF IInv, TypeOK
<1>2. \A t \in Sups : SupInv(t)'
  <2> TAKE t \in Sups
  <2>1. Spares(t)
    BY PidsAssumption DEF Spares
  <2> QED BY <2>1, Spared DEF IInv
<1>3. ASSUME Patient, NEW t \in Sups PROVE Clean(t)'
  BY <1>3 DEF IInv, Clean, CleanedUp, Kinds
<1> QED BY <1>1, <1>2, <1>3 DEF IInv

LEMMA StopKeeps == ASSUME IInv, Stop PROVE IInv'
<1>1. CASE PidfileAlive
  <2>1. PICK s \in Sups : s = pidfile /\ Live(s)
    BY <1>1 DEF PidfileAlive, IInv, TypeOK
  <2>2. sup' = [sup EXCEPT ![s] = Signalled(sup[s])] /\ proc' = Reparented(s, Signalled(sup[s]))
    BY <1>1, <2>1 DEF Stop, Set
  <2>3. Mine(s)
    BY <2>1, <2>2, SignalledMine
  <2>4. /\ UNCHANGED <<service, deps, pidfile, crashes>>
        /\ stopWaits' \in BOOLEAN /\ crashes' \in 0..MaxCrashes
    BY DEF Stop, IInv, TypeOK
  <2> QED BY <2>1, <2>3, <2>4, StepSuffices
<1>2. CASE ~PidfileAlive
  <2>1. /\ UNCHANGED <<sup, proc, service, deps, pidfile, crashes>> /\ stopWaits' = TRUE
    BY <1>2 DEF Stop
  <2>2. PidfileNames'
    BY <2>1 DEF IInv, PidfileNames, Live
  <2> QED BY <2>1, <2>2, Shrinks DEF IInv, TypeOK, Runs
<1> QED BY <1>1, <1>2

LEMMA StopDoneKeeps == ASSUME IInv, StopDone PROVE IInv'
<1>1. /\ UNCHANGED <<sup, proc, service, deps, crashes>>
      /\ stopWaits' = FALSE /\ pidfile' = None
  BY DEF StopDone, daemons
<1>2. PidfileNames'
  BY <1>1, NoneLive DEF StopDone, PidfileNames, Live
<1> QED BY <1>1, <1>2, Shrinks DEF IInv, TypeOK, Runs

LEMMA DaemonKeeps ==
  ASSUME IInv, NEW d \in Pids,
         BluealsaReady(d) \/ NameTaken(d) \/ Die(d) \/ Fail(d)
  PROVE  IInv'
<1>1. UNCHANGED <<sup, deps, pidfile, stopWaits, crashes>>
  BY DEF BluealsaReady, NameTaken, Die, Fail, init
<1>2. PidfileNames'
  BY <1>1 DEF IInv, PidfileNames, Live
<1>3. \/ proc' = proc
      \/ proc' = [proc EXCEPT ![d] = Free]
  BY DEF BluealsaReady, NameTaken, Die, Fail, Freed
<1>4. service' \in Pids \cup {None}
  BY DEF BluealsaReady, NameTaken, Die, Fail, Freed, IInv, TypeOK
<1>5. \A p \in Pids : /\ proc'[p] \in Daemons
                      /\ proc'[p].parent \in {proc[p].parent, None}
                      /\ \A k \in Kinds : Runs(p, k)' => Runs(p, k)
  BY <1>3 DEF IInv, TypeOK, Daemons, Free, Runs, Kinds
<1>6. proc' \in [Pids -> Daemons]
  BY <1>3, <1>5 DEF IInv, TypeOK
<1> QED BY <1>1, <1>2, <1>4, <1>5, <1>6, Shrinks DEF IInv, TypeOK

LEMMA DependencyKeeps == ASSUME IInv, DependencyUp \/ DependencyDown PROVE IInv'
<1>1. /\ UNCHANGED <<sup, proc, pidfile, stopWaits, crashes>>
      /\ deps' \in BOOLEAN /\ service' \in {service, None}
  BY DEF DependencyUp, DependencyDown, daemons, init
<1>2. PidfileNames'
  BY <1>1 DEF IInv, PidfileNames, Live
<1> QED BY <1>1, <1>2, Shrinks DEF IInv, TypeOK, Runs

LEMMA InitHolds == Init => IInv
<1> SUFFICES ASSUME Init PROVE IInv
  OBVIOUS
<1>1. Dead \in Supervisors /\ Dead.at = "dead" /\ LabelInv(Dead)
  <2>1. 0 \in 0..ProbeTries
    BY BoundsAssumption
  <2> QED BY <2>1 DEF Dead, NewSupervisor, Supervisors, Labels, LabelInv, BeforeLaunch
<1>2. sup \in [Sups -> Supervisors] /\ \A s \in Sups : sup[s] = Dead /\ ~Live(s)
  BY <1>1 DEF Init, Live
<1>3. proc \in [Pids -> Daemons] /\ \A p \in Pids : proc[p].parent = None
  BY DEF Init, Daemons, Free, Kinds
<1>4. TypeOK
  <2>1. 0 \in 0..MaxCrashes
    BY BoundsAssumption
  <2>2. /\ service = None /\ deps \in BOOLEAN /\ pidfile = None
        /\ stopWaits = FALSE /\ crashes = 0
    BY DEF Init
  <2> QED BY <1>2, <1>3, <2>1, <2>2 DEF TypeOK
<1>5. \A s \in Sups : SupInv(s)
  BY <1>1, <1>2, <1>3, PidsAssumption DEF SupInv, OwnsNothing, HoldsChildren, Waits
<1>6. \A s \in Sups : Clean(s)
  BY <1>1, <1>2 DEF Clean, CleanedUp
<1> QED BY <1>2, <1>4, <1>5, <1>6 DEF IInv, PidfileNames

(* The invariant is inductive.                                             *)
THEOREM InductiveInvariant == Spec => []IInv
<1>1. IInv /\ [Next]_vars => IInv'
  <2> SUFFICES ASSUME IInv, [Next]_vars PROVE IInv'
    OBVIOUS
  <2>1. CASE UNCHANGED vars
    <3>1. UNCHANGED <<sup, proc, service, deps, pidfile, stopWaits, crashes>>
      BY <2>1 DEF vars
    <3>2. PidfileNames'
      BY <3>1 DEF IInv, PidfileNames, Live
    <3> QED BY <3>1, <3>2, Shrinks DEF IInv, TypeOK, Runs
  <2>2. CASE Next
    BY <2>2, StepOrCrash, StartKeeps, StopKeeps, StopDoneKeeps, DaemonKeeps,
       DependencyKeeps DEF Next
  <2> QED BY <2>1, <2>2
<1> QED BY <1>1, InitHolds, PTL DEF Spec

-----------------------------------------------------------------------------

(* Every variable keeps its type.                                          *)
THEOREM TypeCorrect == Spec => []TypeOK
<1>1. IInv => TypeOK
  BY DEF IInv
<1> QED BY <1>1, InductiveInvariant, PTL

LEMMA AtMostOne ==
  ASSUME NEW S, NEW x, \A y \in S : y = x
  PROVE  Cardinality(S) <= 1
<1>1. S = {} \/ S = {x}
  OBVIOUS
<1>2. Cardinality({}) = 0 /\ Cardinality({x}) = 1
  BY FS_EmptySet, FS_Singleton
<1> QED BY <1>1, <1>2

(* A patient init script never runs two supervisors: start tests the       *)
(* pidfile, and stop removes it only when the supervisor has ended.        *)
THEOREM SingleSupervisor == Spec => [](Patient => OneSupervisor)
<1>1. IInv => (Patient => OneSupervisor)
  <2> SUFFICES ASSUME IInv, Patient PROVE OneSupervisor
    OBVIOUS
  <2>1. \A s \in {s \in Sups : Live(s)} : s = pidfile
    BY DEF IInv, PidfileNames
  <2> QED BY <2>1, AtMostOne DEF OneSupervisor
<1> QED BY <1>1, InductiveInvariant, PTL

(* With a patient init script, at most one bluealsa and one player run     *)
(* after the cleanup: the supervisor holds the number of whatever runs.    *)
THEOREM SingleDaemons == Spec => [](Patient => OneOfEach)
<1>1. IInv => (Patient => OneOfEach)
  <2> SUFFICES ASSUME IInv, Patient, NEW s \in Sups, CleanedUp(s), NEW k \in Kinds
               PROVE Cardinality(Running(k)) <= 1
    BY DEF OneOfEach
  <2> DEFINE x == IF k = "aplay" THEN sup[s].aplay_pid ELSE sup[s].bluealsa_pid
  <2>1. \A p \in Running(k) : p = x
    BY DEF IInv, Clean, Running, Runs, Kinds
  <2> QED BY <2>1, AtMostOne
<1> QED BY <1>1, InductiveInvariant, PTL

(* With a patient init script there is one stack.                          *)
THEOREM SingleStack == Spec => [](Patient => OneStack)
BY SingleSupervisor, SingleDaemons, PTL DEF OneStack

(* The D-Bus name belongs to a bluealsa: its end gives the name back, and  *)
(* a fork takes a number that no daemon has.                               *)
Owned == service # None => service \in Pids /\ proc[service].kind = "bluealsa"

LEMMA OwnedKept ==
  ASSUME IInv, Owned, [Next]_vars
  PROVE  Owned'
<1> DEFINE Same(p) == proc'[p].kind = proc[p].kind
<1>1. proc \in [Pids -> Daemons] /\ service \in Pids \cup {None} /\ None \notin Pids
  BY PidsAssumption DEF IInv, TypeOK
<1>2. ASSUME UNCHANGED service, \A p \in Pids : Same(p) \/ proc[p] = Free PROVE Owned'
  BY <1>1, <1>2 DEF Owned, Free
<1>3. ASSUME NEW p \in Pids PROVE Terminated(p).kind = proc[p].kind
  BY <1>1 DEF Terminated, Daemons, Free
<1>4. \A s : \A p \in Pids : Orphaned(s)[p].kind = proc[p].kind
  BY <1>1 DEF Orphaned, Daemons, Free
<1>5. ASSUME NEW s \in Sups, NEW r, proc' = Reparented(s, r) PROVE \A p \in Pids : Same(p)
  BY <1>4, <1>5 DEF Reparented
<1>6. ASSUME NEW s \in Sups, Step(s) \/ Crash(s) PROVE Owned'
  <2>1. UNCHANGED service
    BY <1>6 DEF Step, Exec, KillallAplay, KillallBluealsa, Killall, Loop, DependenciesReady,
       CheckBluealsa, StartBluealsa, ProbeEnds, BluealsaGone, Probe, ListDevices, CheckAplay,
       StartAplay, StopAplay, WaitAplay, StopBluealsa, WaitBluealsa, Crash, daemons
  <2>2. CASE KillallAplay(s) \/ KillallBluealsa(s)
    BY <1>2, <1>3, <2>1, <2>2 DEF KillallAplay, KillallBluealsa, Killall
  <2>3. CASE StartBluealsa(s) \/ StartAplay(s)
    <3>1. NewPid \in Pids /\ proc[NewPid] = Free
      BY <2>3, FreshPid DEF StartBluealsa, StartAplay
    <3>2. \A p \in Pids \ {NewPid} : Same(p)
      BY <1>1, <2>3 DEF StartBluealsa, StartAplay, Fork
    <3> QED BY <1>2, <2>1, <3>1, <3>2
  <2>4. CASE StopAplay(s) \/ StopBluealsa(s)
    <3>1. \/ proc' = proc
          \/ \E q : proc' = [proc EXCEPT ![q] = Terminated(q)]
          \/ proc' = Reparented(s, StackStopped(sup[s]))
      BY <2>4 DEF StopAplay, StopBluealsa, Terminate
    <3> QED BY <1>1, <1>2, <1>3, <1>5, <2>1, <3>1
  <2>5. CASE WaitBluealsa(s)
    BY <1>2, <1>5, <2>1, <2>5 DEF WaitBluealsa
  <2>6. CASE Crash(s)
    BY <1>2, <1>4, <2>1, <2>6 DEF Crash
  <2>7. CASE UNCHANGED proc
    BY <1>2, <2>1, <2>7
  <2> QED BY <1>6, <2>2, <2>3, <2>4, <2>5, <2>6, <2>7
          DEF Step, Exec, Loop, DependenciesReady, CheckBluealsa, ProbeEnds, BluealsaGone,
              Probe, ListDevices, CheckAplay, WaitAplay, daemons
<1>7. CASE Stop
  <2>1. proc' = proc \/ proc' = Reparented(pidfile, Signalled(sup[pidfile]))
    BY <1>7 DEF Stop
  <2>2. UNCHANGED service /\ \A p \in Pids : Same(p)
    BY <1>4, <1>7, <2>1 DEF Stop, Reparented
  <2> QED BY <1>2, <2>2
<1>8. ASSUME NEW p \in Pids, BluealsaReady(p) PROVE Owned'
  BY <1>1, <1>8 DEF BluealsaReady, Running, Owned
<1>9. ASSUME NEW p \in Pids, Freed(p) PROVE Owned'
  BY <1>1, <1>9 DEF Freed, Owned
<1>10. CASE Start \/ StopDone \/ DependencyUp \/ DependencyDown \/ UNCHANGED vars
  <2>1. UNCHANGED proc /\ service' \in {service, None}
    BY <1>10 DEF Start, StopDone, DependencyUp, DependencyDown, vars, daemons
  <2> QED BY <2>1 DEF Owned
<1> QED BY <1>6, <1>7, <1>8, <1>9, <1>10 DEF Next, NameTaken, Die, Fail

(* Only a probe that sees a service sets ready.                            *)
LEMMA ReadyBySight ==
  ASSUME IInv, [Next]_vars, NEW s \in Sups, ~sup[s].ready, sup'[s].ready
  PROVE  ListDevices(s) /\ service # None
<1>1. sup \in [Sups -> Supervisors]
  BY DEF IInv, TypeOK
<1>2. ~Dead.ready /\ ~NewSupervisor.ready
  BY DEF Dead, NewSupervisor
<1>3. \A r \in Supervisors : ~r.ready =>
        ~StackStopped(r).ready /\ ~AplayWaited(r).ready /\ ~Signalled(r).ready
  BY <1>2 DEF StackStopped, AplayWaited, Signalled, Supervisors
<1>4. ASSUME NEW t \in Sups, Step(t) \/ Crash(t) PROVE ListDevices(s) /\ service # None
  <2>1. t = s
    BY <1>1, <1>4 DEF Step, Exec, KillallAplay, KillallBluealsa, Killall, Loop,
       DependenciesReady, CheckBluealsa, StartBluealsa, ProbeEnds, BluealsaGone, Probe,
       ListDevices, CheckAplay, StartAplay, StopAplay, WaitAplay, StopBluealsa, WaitBluealsa,
       Crash, Set, Goto, StopStack
  <2>2. ~(StopAplay(s) \/ WaitAplay(s) \/ StopBluealsa(s) \/ WaitBluealsa(s) \/ Crash(s))
    <3>1. sup[s] \in Supervisors
      BY <1>1
    <3>2. \A r : Set(s, r) => r.ready
      BY <1>1 DEF Set
    <3>3. /\ ~[sup[s] EXCEPT !.at = "waita"].ready /\ ~[sup[s] EXCEPT !.at = "waitb"].ready
          /\ ~[sup[s] EXCEPT !.at = "stopb", !.aplay_pid = None].ready
      BY <3>1 DEF Supervisors
    <3>4. ~Goto(s, "waita") /\ ~Goto(s, "waitb")
          /\ ~Set(s, [sup[s] EXCEPT !.at = "stopb", !.aplay_pid = None])
      BY <3>2, <3>3 DEF Goto
    <3>5. ~Set(s, StackStopped(sup[s])) /\ ~Set(s, AplayWaited(sup[s])) /\ ~Set(s, Dead)
      BY <1>2, <1>3, <3>1, <3>2
    <3> QED BY <3>5, <3>4 DEF StopAplay, WaitAplay, StopBluealsa, WaitBluealsa, Crash
  <2>3. ~(Exec(s) \/ KillallAplay(s) \/ KillallBluealsa(s) \/ Loop(s)
          \/ DependenciesReady(s) \/ CheckBluealsa(s))
    BY <1>1 DEF Exec, KillallAplay, KillallBluealsa, Killall, Loop, DependenciesReady,
       CheckBluealsa, Set, Goto, StopStack, Supervisors
  <2>4. ~(StartBluealsa(s) \/ ProbeEnds(s) \/ BluealsaGone(s) \/ Probe(s)
          \/ CheckAplay(s) \/ StartAplay(s))
    BY <1>1 DEF StartBluealsa, ProbeEnds, BluealsaGone, Probe, CheckAplay, StartAplay, Set,
       Goto, StopStack, Supervisors
  <2>5. ListDevices(s)
    BY <1>4, <2>1, <2>2, <2>3, <2>4 DEF Step
  <2> QED BY <1>1, <2>5 DEF ListDevices, Set, Supervisors
<1>5. ~Start /\ ~Stop
  BY <1>1, <1>2, <1>3 DEF Start, Stop, Set
<1>6. sup' # sup
  OBVIOUS
<1> QED BY <1>4, <1>5, <1>6 DEF Next, vars, StopDone, BluealsaReady, NameTaken, Die, Fail,
           DependencyUp, DependencyDown

(* A supervisor's player runs only behind a probe that succeeded after the *)
(* launch of the bluealsa it holds; with a patient init script the service *)
(* seen was that of this bluealsa or of one that had been told to stop.    *)
THEOREM PlayerBehindService == Spec => PlayerNeedsService
<1>1. IInv => PlayerReady
  BY PidsAssumption
     DEF IInv, SupInv, HoldsChildren, LabelInv, PlayerReady, Child, Running, Runs
<1>2. Init => Owned
  BY DEF Init, Owned
<1>3. IInv /\ Owned /\ [Next]_vars => SeenService
  <2> SUFFICES ASSUME IInv, Owned, [Next]_vars, NEW s \in Sups, Patient,
                      ~sup[s].ready, sup'[s].ready,
                      proc[service].state # "stopping"
               PROVE  service = sup[s].bluealsa_pid
    BY DEF SeenService
  <2>1. ListDevices(s) /\ service # None
    BY ReadyBySight
  <2>2. CleanedUp(s)
    BY <2>1 DEF ListDevices, CleanedUp
  <2>3. service \in Pids /\ Runs(service, "bluealsa")
    BY <2>1 DEF Owned, Runs
  <2> QED BY <2>2, <2>3 DEF IInv, Clean
<1>4. IInv /\ Owned /\ [Next]_vars => Owned'
  BY OwnedKept
<1> QED BY <1>1, <1>2, <1>3, <1>4, InductiveInvariant, PTL
        DEF Spec, PlayerNeedsService

(* A supervisor that holds no running daemon has no running child.         *)
LEMMA Childless ==
  ASSUME IInv, NEW s \in Sups, sup[s].aplay_pid = None,
         \A p \in Pids : p = sup[s].bluealsa_pid => ~Runs(p, "bluealsa"),
         NEW p \in Pids
  PROVE  ~Child(s, p)
BY PidsAssumption DEF IInv, TypeOK, SupInv, HoldsChildren, Runs, Child, Daemons, Free, Kinds

LEMMA StepChildless ==
  ASSUME IInv, NEW t \in Sups, Step(t), sup'[t].at = "dead", NEW p \in Pids
  PROVE  ~Child(t, p)
<1>1. CASE StopBluealsa(t) \/ WaitBluealsa(t)
  <2>1. sup[t].aplay_pid = None
    BY <1>1 DEF StopBluealsa, WaitBluealsa, IInv, SupInv, LabelInv
  <2>2. CASE ~Alive(sup[t].bluealsa_pid)
    BY <2>1, <2>2, Childless, PidsAssumption DEF Alive, Runs, Free
  <2>3. CASE Alive(sup[t].bluealsa_pid)
    <3>1. sup' = [sup EXCEPT ![t] = [sup[t] EXCEPT !.at = "waitb"]]
      BY <1>1, <2>3 DEF StopBluealsa, WaitBluealsa, Goto, Set
    <3>2. sup'[t].at = "waitb"
      BY <3>1 DEF IInv, TypeOK, Supervisors
    <3> QED BY <3>2
  <2> QED BY <2>2, <2>3
<1>2. CASE Exec(t) \/ KillallAplay(t) \/ KillallBluealsa(t) \/ Probe(t)
  BY <1>2 DEF Exec, Goto, KillallAplay, Killall, KillallBluealsa, Probe, Set, IInv, TypeOK, Supervisors
<1>3. CASE Loop(t)
  BY <1>3 DEF Loop, Goto, StopStack, Set, IInv, TypeOK, Supervisors
<1>4. CASE DependenciesReady(t)
  BY <1>4 DEF DependenciesReady, Goto, StopStack, Set, IInv, TypeOK, Supervisors
<1>5. CASE CheckBluealsa(t)
  BY <1>5 DEF CheckBluealsa, Goto, StopStack, Set, IInv, TypeOK, Supervisors
<1>6. CASE StartBluealsa(t) \/ StartAplay(t)
  <2>1. \E r \in {"probe", "nap"} : sup'[t].at = r
    BY <1>6 DEF StartBluealsa, StartAplay, Set, IInv, TypeOK, Supervisors
  <2> QED BY <2>1
<1>11. CASE ProbeEnds(t)
  BY <1>11 DEF ProbeEnds, StopStack, Set, IInv, TypeOK, Supervisors
<1>12. CASE BluealsaGone(t)
  BY <1>12 DEF BluealsaGone, Set, IInv, TypeOK, Supervisors
<1>7. CASE ListDevices(t)
  BY <1>7 DEF ListDevices, Set, IInv, TypeOK, Supervisors
<1>8. CASE CheckAplay(t)
  BY <1>8 DEF CheckAplay, Goto, Set, IInv, TypeOK, Supervisors
<1>9. CASE StopAplay(t)
  BY <1>9 DEF StopAplay, Goto, Set, IInv, TypeOK, Supervisors
<1>10. CASE WaitAplay(t)
  BY <1>10 DEF WaitAplay, AplayWaited, Set, IInv, TypeOK, Supervisors
<1> QED BY <1>1, <1>2, <1>3, <1>4, <1>5, <1>6, <1>7, <1>8, <1>9, <1>10, <1>11, <1>12 DEF Step

LEMMA SignalChildless ==
  ASSUME IInv, NEW t \in Sups, Live(t), Signalled(sup[t]).at = "dead", NEW p \in Pids
  PROVE  ~Child(t, p)
<1>1. sup[t] \in Supervisors /\ SupInv(t) /\ LabelInv(sup[t])
  BY DEF IInv, TypeOK, SupInv
<1>2. CASE sup[t].at = "exec"
  BY <1>1, <1>2, Childless, PidsAssumption DEF LabelInv, BeforeLaunch
<1>3. CASE sup[t].at = "waitb"
  <2>1. sup[t].aplay_pid = None
    BY <1>1, <1>3 DEF LabelInv
  <2> QED BY <1>1, <1>3, <2>1, Childless DEF SupInv, Waits
<1>4. CASE sup[t].at \notin {"exec", "waitb"}
  BY <1>1, <1>4 DEF Signalled, AplayWaited, Live, Supervisors
<1> QED BY <1>2, <1>3, <1>4

(* A supervisor that ends by itself, wherever TERM finds it, has told all  *)
(* its children to stop, however patient the init script is.               *)
THEOREM ChildrenStopped == Spec => NoneLeftBehind
<1>1. IInv /\ [Next]_vars => EndsChildless
  <2> SUFFICES ASSUME IInv, [Next]_vars, NEW s \in Sups, Live(s), sup'[s].at = "dead",
                      crashes' = crashes, NEW p \in Pids
               PROVE ~Child(s, p)
    BY DEF EndsChildless
  <2>1. CASE \E t \in Sups : Step(t) \/ Crash(t)
    <3> PICK t \in Sups : Step(t) \/ Crash(t)
      BY <2>1
    <3>1. ~Crash(t)
      BY BoundsAssumption DEF Crash, IInv, TypeOK
    <3>2. Mine(t)
      BY ExecMine, KillallAplayMine, KillallBluealsaMine, LoopMine, DependenciesReadyMine,
         CheckBluealsaMine, StartBluealsaMine, ProbeEndsMine, BluealsaGoneMine, ProbeMine,
         ListDevicesMine, CheckAplayMine, StartAplayMine, StopAplayMine, WaitAplayMine,
         StopBluealsaMine, WaitBluealsaMine, CrashMine DEF Step
    <3>3. s = t
      BY <3>2 DEF Mine, Live
    <3> QED BY <3>1, <3>3, StepChildless
  <2>2. CASE Start
    BY <2>2 DEF Start, Set, NewNumber, NotLive, NewSupervisor, IInv, TypeOK, Live
  <2>3. CASE Stop
    <3>1. CASE PidfileAlive /\ pidfile = s
      BY <2>3, <3>1, SignalChildless DEF Stop, Set, IInv, TypeOK
    <3>2. CASE ~(PidfileAlive /\ pidfile = s)
      BY <2>3, <3>2 DEF Stop, Set, IInv, TypeOK, Live, PidfileAlive
    <3> QED BY <3>1, <3>2
  <2>4. CASE UNCHANGED sup
    BY <2>4 DEF Live
  <2> QED BY <2>1, <2>2, <2>3, <2>4
          DEF Next, vars, StopDone, BluealsaReady, NameTaken, Die, Fail,
              DependencyUp, DependencyDown
<1> QED BY <1>1, InductiveInvariant, PTL DEF Spec, NoneLeftBehind
=============================================================================
