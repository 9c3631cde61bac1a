------------------------- MODULE BluealsaSupervisor -------------------------
(***************************************************************************)
(* The audio service stack: the init script S45r1-bluealsa-stack, the      *)
(* shell script r1-bluealsa-supervisor it starts and stops through a       *)
(* pidfile, and the two daemons the supervisor keeps running: bluealsa,    *)
(* which owns a D-Bus service, and bluealsa-aplay, which plays from it.    *)
(*                                                                         *)
(* A supervisor walks the labels of its script.  A foreground command      *)
(* (sleep, pidof, bluealsa-aplay -L) is one step; a signal that arrives    *)
(* during it takes effect when it returns, and interrupts only "wait".     *)
(* stop_stack is the label sequence stopa, waita, stopb, waitb, after      *)
(* which the supervisor continues at its field ret; ret = "exit" is the    *)
(* EXIT trap.  A process number is not reused while a supervisor's         *)
(* variable holds it, and a dead child is reaped at once (the shell reaps  *)
(* in every foreground command).                                           *)
(*                                                                         *)
(* A definition marked "Variant" is a faulty form of the next one.  No     *)
(* action uses it; it shows which fault of the code a property detects.    *)
(***************************************************************************)
EXTENDS Naturals, FiniteSets

CONSTANTS
  Sups,         \* process numbers of supervisors
  Pids,         \* process numbers of daemons: bounds how many exist at once
  None,         \* no process
  ProbeTries,   \* how often start_bluealsa probes (20 in the code)
  Patient,      \* the init script's wait for the supervisor never runs out
  MaxCrashes    \* bound on supervisors killed without their traps

ASSUME PidsAssumption == None \notin Sups \cup Pids
ASSUME BoundsAssumption ==
  ProbeTries \in Nat \ {0} /\ Patient \in BOOLEAN /\ MaxCrashes \in Nat

VARIABLES
  sup,        \* the variables and label of each supervisor
  proc,       \* the daemon behind each process number
  service,    \* the bluealsa that owns the D-Bus name
  deps,       \* dbus-daemon and bluetoothd run
  pidfile,    \* content of /var/run/r1-bluealsa-supervisor.pid
  stopWaits,  \* the init script is in the waiting loop of stop
  crashes

vars == <<sup, proc, service, deps, pidfile, stopWaits, crashes>>
daemons == <<proc, service>>
init == <<pidfile, stopWaits>>

Kinds == {"bluealsa", "aplay"}
Free == [kind |-> "free", state |-> "free", parent |-> None]
Daemons == {Free} \cup [kind : Kinds, state : {"up", "stopping"},
                        parent : Sups \cup {None}]
Labels == {"dead", "exec", "killa", "killb", "nap", "deps", "checkb", "launch",
           "probe", "list", "checka", "starta",
           "stopa", "waita", "stopb", "waitb"}
Supervisors == [at : Labels, ret : {"none", "nap", "launch", "exit"},
                running : BOOLEAN, bluealsa_pid : Pids \cup {None},
                aplay_pid : Pids \cup {None}, count : 0..ProbeTries,
                ready : BOOLEAN]
NewSupervisor == [at |-> "exec", ret |-> "none", running |-> TRUE,
                  bluealsa_pid |-> None, aplay_pid |-> None, count |-> 0,
                  ready |-> FALSE]
Dead == [NewSupervisor EXCEPT !.at = "dead", !.running = FALSE]

Live(s) == sup[s].at # "dead"
Alive(p) == p # None /\ proc[p] # Free
Running(k) == {p \in Pids : proc[p].kind = k /\ proc[p].state # "stopping"}
Child(s, p) == proc[p].parent = s /\ proc[p].state # "stopping"
Unused == {p \in Pids : /\ proc[p] = Free
                        /\ \A s \in Sups : p \notin {sup[s].bluealsa_pid, sup[s].aplay_pid}}
NewPid == CHOOSE p \in Unused : TRUE

(* A boot, or a time before it at which an operator started daemons by     *)
(* hand: at most one player and one bluealsa, no supervisor.               *)
Init ==
  /\ sup = [s \in Sups |-> Dead]
  /\ \E orphans \in SUBSET Kinds :
       LET p == CHOOSE p \in Pids : TRUE
           q == CHOOSE q \in Pids \ {p} : TRUE
       IN  proc = [i \in Pids |->
                    CASE i = p /\ "bluealsa" \in orphans ->
                           [kind |-> "bluealsa", state |-> "up", parent |-> None]
                      [] i = q /\ "aplay" \in orphans ->
                           [kind |-> "aplay", state |-> "up", parent |-> None]
                      [] OTHER -> Free]
  /\ service = None /\ deps \in BOOLEAN
  /\ pidfile = None /\ stopWaits = FALSE
  /\ crashes = 0

Set(s, record) == sup' = [sup EXCEPT ![s] = record]
Goto(s, label) == Set(s, [sup[s] EXCEPT !.at = label])
StopStack(s, next) == Set(s, [sup[s] EXCEPT !.at = "stopa", !.ret = next])

Terminated(p) == IF p \in Running("aplay") \cup Running("bluealsa")
                   THEN [proc[p] EXCEPT !.state = "stopping"] ELSE proc[p]
Terminate(p) == proc' = [proc EXCEPT ![p] = Terminated(p)]
Orphaned(s) == [p \in Pids |->
                  IF proc[p].parent = s THEN [proc[p] EXCEPT !.parent = None] ELSE proc[p]]
Fork(s, k) == proc' = [proc EXCEPT ![NewPid] = [kind |-> k, state |-> "up", parent |-> s]]

-----------------------------------------------------------------------------
(* r1-bluealsa-supervisor *)

Exec(s) ==        \* the traps are set
  /\ sup[s].at = "exec" /\ Goto(s, "killa") /\ UNCHANGED <<daemons, deps, init, crashes>>

Killall(s, here, k, next) ==
  /\ sup[s].at = here /\ Goto(s, next)
  /\ proc' = [p \in Pids |-> IF proc[p].kind = k THEN Terminated(p) ELSE proc[p]]
  /\ UNCHANGED <<service, deps, init, crashes>>
(* Variant: leaves stale players. *)
KillsNoPlayer(s) ==
  /\ sup[s].at = "killa" /\ Goto(s, "killb") /\ UNCHANGED <<daemons, deps, init, crashes>>
KillallAplay(s)    == Killall(s, "killa", "aplay", "killb")
(* Variant: leaves stale instances of bluealsa. *)
KillsNoBluealsa(s) ==
  /\ sup[s].at = "killb" /\ Goto(s, "nap") /\ UNCHANGED <<daemons, deps, init, crashes>>
KillallBluealsa(s) == Killall(s, "killb", "bluealsa", "nap")

(* Variant: no EXIT trap. *)
LoopWithoutTrap(s) ==
  /\ sup[s].at = "nap"
  /\ IF sup[s].running THEN Goto(s, "deps") /\ UNCHANGED proc
                       ELSE Set(s, Dead) /\ proc' = Orphaned(s)
  /\ UNCHANGED <<service, deps, init, crashes>>
Loop(s) ==        \* sleep 1, then the test of the main loop
  /\ sup[s].at = "nap"
  /\ IF sup[s].running THEN Goto(s, "deps") ELSE StopStack(s, "exit")
  /\ UNCHANGED <<daemons, deps, init, crashes>>

DependenciesReady(s) ==
  /\ sup[s].at = "deps"
  /\ IF deps THEN Goto(s, "checkb") ELSE StopStack(s, "nap")
  /\ UNCHANGED <<daemons, deps, init, crashes>>

(* Variant: the player outlives its bluealsa. *)
LaunchBesidePlayer(s) ==
  /\ sup[s].at = "checkb"
  /\ Goto(s, IF Alive(sup[s].bluealsa_pid) THEN "checka" ELSE "launch")
  /\ UNCHANGED <<daemons, deps, init, crashes>>
CheckBluealsa(s) ==
  /\ sup[s].at = "checkb"
  /\ IF Alive(sup[s].bluealsa_pid) THEN Goto(s, "checka") ELSE StopStack(s, "launch")
  /\ UNCHANGED <<daemons, deps, init, crashes>>

StartBluealsa(s) ==
  /\ sup[s].at = "launch" /\ Unused # {}
  /\ Fork(s, "bluealsa")
  /\ Set(s, [sup[s] EXCEPT !.at = "probe", !.bluealsa_pid = NewPid,
                           !.count = 0, !.ready = FALSE])
  /\ UNCHANGED <<service, deps, init, crashes>>

(* start_bluealsa gives up, and the main loop stops the stack: told to     *)
(* stop or out of tries, or the new bluealsa is gone.                      *)
ProbeEnds(s) ==
  /\ sup[s].at = "probe"
  /\ ~sup[s].running \/ sup[s].count = ProbeTries
  /\ StopStack(s, "nap") /\ UNCHANGED <<daemons, deps, init, crashes>>
BluealsaGone(s) ==
  /\ sup[s].at = "probe" /\ sup[s].running /\ sup[s].count < ProbeTries
  /\ ~Alive(sup[s].bluealsa_pid)
  /\ Set(s, [sup[s] EXCEPT !.at = "stopa", !.ret = "nap", !.bluealsa_pid = None])
  /\ UNCHANGED <<daemons, deps, init, crashes>>

(* Variant: probes for ever. *)
ProbeForever(s) ==
  /\ sup[s].at = "probe" /\ sup[s].running
  /\ Alive(sup[s].bluealsa_pid)
  /\ Goto(s, "list") /\ UNCHANGED <<daemons, deps, init, crashes>>
Probe(s) ==
  /\ sup[s].at = "probe" /\ sup[s].running /\ sup[s].count < ProbeTries
  /\ Alive(sup[s].bluealsa_pid)
  /\ Goto(s, "list") /\ UNCHANGED <<daemons, deps, init, crashes>>

ListDevices(s) ==         \* bluealsa-aplay -L succeeds once somebody has the name
  /\ sup[s].at = "list"
  /\ IF service # None
       THEN Set(s, [sup[s] EXCEPT !.at = "checka", !.ready = TRUE])
       ELSE Set(s, [sup[s] EXCEPT !.at = "probe", !.count = @ + 1])
  /\ UNCHANGED <<daemons, deps, init, crashes>>

(* Variant: an exited player is never restarted. *)
ExitedPlayerStays(s) ==
  /\ sup[s].at = "checka"
  /\ Goto(s, IF sup[s].aplay_pid # None THEN "nap" ELSE "starta")
  /\ UNCHANGED <<daemons, deps, init, crashes>>
CheckAplay(s) ==
  /\ sup[s].at = "checka"
  /\ IF Alive(sup[s].aplay_pid) THEN Goto(s, "nap")
       ELSE Set(s, [sup[s] EXCEPT !.at = "starta", !.aplay_pid = None])
  /\ UNCHANGED <<daemons, deps, init, crashes>>

StartAplay(s) ==
  /\ sup[s].at = "starta" /\ Unused # {}
  /\ Fork(s, "aplay")
  /\ Set(s, [sup[s] EXCEPT !.at = "nap", !.aplay_pid = NewPid])
  /\ UNCHANGED <<service, deps, init, crashes>>

-----------------------------------------------------------------------------
(* stop_stack *)

StopAplay(s) ==
  /\ sup[s].at = "stopa"
  /\ IF Alive(sup[s].aplay_pid)
       THEN Terminate(sup[s].aplay_pid) /\ Goto(s, "waita")
       ELSE Set(s, [sup[s] EXCEPT !.at = "stopb", !.aplay_pid = None]) /\ UNCHANGED proc
  /\ UNCHANGED <<service, deps, init, crashes>>

AplayWaited(r) == [r EXCEPT !.at = "stopb", !.aplay_pid = None]
WaitAplay(s) ==
  /\ sup[s].at = "waita" /\ ~Alive(sup[s].aplay_pid)
  /\ Set(s, AplayWaited(sup[s]))
  /\ UNCHANGED <<daemons, deps, init, crashes>>

StackStopped(r) == IF r.ret = "exit" THEN Dead
                   ELSE [r EXCEPT !.at = r.ret, !.bluealsa_pid = None]
Reparented(s, r) == IF r = Dead THEN Orphaned(s) ELSE proc

(* Variant: waits for it without telling it to stop. *)
WaitUntold(s) ==
  /\ sup[s].at = "stopb"
  /\ IF Alive(sup[s].bluealsa_pid)
       THEN Goto(s, "waitb") /\ UNCHANGED proc
       ELSE /\ Set(s, StackStopped(sup[s]))
            /\ proc' = Reparented(s, StackStopped(sup[s]))
  /\ UNCHANGED <<service, deps, init, crashes>>
StopBluealsa(s) ==
  /\ sup[s].at = "stopb"
  /\ IF Alive(sup[s].bluealsa_pid)
       THEN Terminate(sup[s].bluealsa_pid) /\ Goto(s, "waitb")
       ELSE /\ Set(s, StackStopped(sup[s]))
            /\ proc' = Reparented(s, StackStopped(sup[s]))
  /\ UNCHANGED <<service, deps, init, crashes>>

WaitBluealsa(s) ==
  /\ sup[s].at = "waitb" /\ ~Alive(sup[s].bluealsa_pid)
  /\ Set(s, StackStopped(sup[s])) /\ proc' = Reparented(s, StackStopped(sup[s]))
  /\ UNCHANGED <<service, deps, init, crashes>>

Crash(s) ==       \* SIGKILL or the OOM killer: no trap runs
  /\ Live(s) /\ crashes < MaxCrashes
  /\ Set(s, Dead) /\ proc' = Orphaned(s) /\ crashes' = crashes + 1
  /\ UNCHANGED <<service, deps, init>>

-----------------------------------------------------------------------------
(* S45r1-bluealsa-stack: one invocation at a time; restart is stop, start  *)

NotLive == {s \in Sups : ~Live(s)}
NewNumber == CHOOSE s \in NotLive : TRUE
PidfileAlive == pidfile # None /\ Live(pidfile)

Start ==
  /\ ~stopWaits /\ ~PidfileAlive /\ NotLive # {}
  /\ Set(NewNumber, NewSupervisor) /\ pidfile' = NewNumber
  /\ UNCHANGED <<daemons, deps, stopWaits, crashes>>

(* What TERM makes of a supervisor: fatal before the traps are set, else   *)
(* running=0, and a "wait" returns although its child is still there.      *)
Signalled(r) ==
  LET told == [r EXCEPT !.running = FALSE]
  IN  CASE r.at = "exec"  -> Dead
        [] r.at = "waita" -> AplayWaited(told)
        [] r.at = "waitb" -> StackStopped(told)
        [] OTHER          -> told

Stop ==
  /\ ~stopWaits /\ stopWaits' = TRUE
  /\ IF PidfileAlive
       THEN LET s == pidfile
            IN  Set(s, Signalled(sup[s])) /\ proc' = Reparented(s, Signalled(sup[s]))
       ELSE UNCHANGED <<sup, proc>>
  /\ UNCHANGED <<service, deps, pidfile, crashes>>

(* The supervisor ended, or 5 seconds are over, which it takes only while  *)
(* it waits for a daemon: for the answer of bluealsa or for a child's end. *)
Slow == {"list", "waita", "waitb"}
(* Variant: does not wait for the supervisor to end. *)
StopDoneAtOnce ==
  /\ stopWaits /\ stopWaits' = FALSE /\ pidfile' = None
  /\ UNCHANGED <<sup, daemons, deps, crashes>>
StopDone ==
  /\ stopWaits /\ stopWaits' = FALSE
  /\ PidfileAlive => ~Patient /\ sup[pidfile].at \in Slow
  /\ pidfile' = None
  /\ UNCHANGED <<sup, daemons, deps, crashes>>

-----------------------------------------------------------------------------
(* The daemons and what they depend on *)

Freed(p) == proc' = [proc EXCEPT ![p] = Free]
            /\ service' = IF service = p THEN None ELSE service

BluealsaReady(p) ==
  /\ p \in Running("bluealsa") /\ deps /\ service = None /\ service' = p
  /\ UNCHANGED <<sup, proc, deps, init, crashes>>

NameTaken(p) ==   \* another bluealsa has the name: exit
  /\ p \in Running("bluealsa") /\ service \notin {None, p}
  /\ Freed(p) /\ UNCHANGED <<sup, deps, init, crashes>>

Die(p) ==
  /\ proc[p].state = "stopping" /\ Freed(p) /\ UNCHANGED <<sup, deps, init, crashes>>

Fail(p) ==
  /\ proc[p].state = "up" /\ Freed(p) /\ UNCHANGED <<sup, deps, init, crashes>>

DependencyUp ==
  /\ ~deps /\ deps' = TRUE /\ UNCHANGED <<sup, daemons, init, crashes>>
DependencyDown == \* bluetoothd ends, or dbus-daemon and with it every name
  /\ deps /\ deps' = FALSE /\ service' \in {service, None}
  /\ UNCHANGED <<sup, proc, init, crashes>>

-----------------------------------------------------------------------------

Step(s) == \/ Exec(s) \/ KillallAplay(s) \/ KillallBluealsa(s)
           \/ Loop(s) \/ DependenciesReady(s) \/ CheckBluealsa(s)
           \/ StartBluealsa(s) \/ ProbeEnds(s) \/ BluealsaGone(s) \/ Probe(s)
           \/ ListDevices(s) \/ CheckAplay(s) \/ StartAplay(s)
           \/ StopAplay(s) \/ WaitAplay(s) \/ StopBluealsa(s) \/ WaitBluealsa(s)

Next == \/ \E s \in Sups : Step(s) \/ Crash(s)
        \/ Start \/ Stop \/ StopDone
        \/ \E p \in Pids : BluealsaReady(p) \/ NameTaken(p) \/ Die(p) \/ Fail(p)
        \/ DependencyUp \/ DependencyDown

Spec == Init /\ [][Next]_vars

(* The shell runs, a daemon told to stop ends, and one that starts gets    *)
(* the free name or gives up.                                              *)
Fairness == /\ \A s \in Sups : WF_vars(Step(s))
            /\ \A p \in Pids : WF_vars(Die(p) \/ BluealsaReady(p) \/ NameTaken(p))
FairSpec == Spec /\ Fairness

-----------------------------------------------------------------------------
(* Properties *)

(* Every variable keeps its type; the probe loop ends after ProbeTries.    *)
TypeOK ==
  /\ sup \in [Sups -> Supervisors] /\ proc \in [Pids -> Daemons]
  /\ service \in Pids \cup {None} /\ deps \in BOOLEAN
  /\ pidfile \in Sups \cup {None} /\ stopWaits \in BOOLEAN
  /\ crashes \in 0..MaxCrashes

(* The init script never runs two supervisors, whatever start, stop and    *)
(* restart are called and wherever a supervisor is killed between them.    *)
OneSupervisor == Cardinality({s \in Sups : Live(s)}) <= 1

(* Once a supervisor has cleaned up stale instances, one player and one    *)
(* bluealsa at most are running that nobody told to stop, orphans of a     *)
(* killed supervisor and children it forgot after an interrupted wait      *)
(* included.                                                               *)
CleanedUp(s) == sup[s].at \notin {"dead", "exec", "killa", "killb"}
OneOfEach ==
  (\E s \in Sups : CleanedUp(s)) => \A k \in Kinds : Cardinality(Running(k)) <= 1

(* One stack: one supervisor, and one daemon of each kind behind it.       *)
OneStack == OneSupervisor /\ OneOfEach

(* A supervisor's player runs only while "ready" is set and a bluealsa is  *)
(* held: never across a restart of bluealsa, which clears ready first.     *)
PlayerReady ==
  \A s \in Sups, p \in Running("aplay") :
    Child(s, p) => sup[s].ready /\ sup[s].bluealsa_pid # None

(* The probe that sets ready cannot tell whose D-Bus service it saw.  It   *)
(* is that of the supervisor's own bluealsa or of a stale one that has     *)
(* been told to stop, never of one that goes on running, if the init       *)
(* script is patient.                                                      *)
SeenService ==
  \A s \in Sups : Patient /\ ~sup[s].ready /\ sup'[s].ready
    => service = sup[s].bluealsa_pid \/ proc[service].state = "stopping"

(* A player starts and runs only behind a probe that succeeded after the   *)
(* launch of the bluealsa its supervisor holds, and what that probe saw    *)
(* was this bluealsa or one about to end.                                  *)
PlayerNeedsService == []PlayerReady /\ [][SeenService]_vars

EndsChildless ==
  \A s \in Sups : Live(s) /\ sup'[s].at = "dead" /\ crashes' = crashes
                   => ~\E p \in Pids : Child(s, p)
(* A supervisor that ends by itself leaves no child that has not been told *)
(* to stop, although TERM may arrive at any point, in its EXIT trap too.   *)
NoneLeftBehind == [][EndsChildless]_vars

(* A supervisor told to stop ends: it is stuck in no loop and no wait.     *)
TermEnds == \A s \in Sups : (Live(s) /\ ~sup[s].running) ~> ~Live(s)

(* While a supervisor stays, the dependencies stay up and the daemons do   *)
(* not fail by themselves, and bluealsa gets its name before the probes    *)
(* run out, the supervisor gets its player running and keeps it, from any  *)
(* state the stack may be in before.                                       *)
Quiet(s) == [][~(ProbeEnds(s) \/ \E p \in Pids : Fail(p))]_vars
PlayerRestarted ==
  \A s \in Sups :
    <>[](Live(s) /\ sup[s].running /\ deps) /\ <>Quiet(s)
      => <>[](\E p \in Running("aplay") : Child(s, p))
=============================================================================
