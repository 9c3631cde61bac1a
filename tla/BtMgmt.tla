-------------------------------- MODULE BtMgmt --------------------------------
(***************************************************************************)
(* tools/r1-btmgmt.c, a client of the Bluetooth management socket, and as  *)
(* much of the kernel behind that socket as the client can tell.           *)
(*                                                                         *)
(* A program is a sequence of commands and of windows in which it listens  *)
(* for devices.  A command is a request and a wait for its reply among     *)
(* whatever else arrives; the wait restarts with every message and gives   *)
(* up when nothing arrives for some seconds.  The kernel answers requests  *)
(* when it gets to them, sends events to every socket, and outlives the    *)
(* program: a request whose program is gone still takes effect.            *)
(*                                                                         *)
(* A definition marked "Variant" is a faulty form of the next one.  No     *)
(* action uses it; it shows which fault of the code a property detects.    *)
(***************************************************************************)
EXTENDS Integers, Sequences, FiniteSets

CONSTANTS
  Arguments,   \* the invocations <<program, seconds>> of this instance
  U32,         \* the modulus of an unsigned int
  MaxEvents,   \* bound on the events of a run
  MaxErrors,   \* bound on requests that fail though they could be met
  MaxOrphans   \* bound on requests of ended processes that are still unanswered

BtPrograms == {"info", "power on", "power off", "bredr-scan", "le-scan", "coexist"}

(* Assumed by the modules that compose this one.                           *)
BtAssumption ==
  /\ U32 \in Nat /\ U32 > 1000 /\ Arguments \subseteq BtPrograms \X (0..U32 - 1)
  /\ MaxEvents \in Nat /\ MaxErrors \in Nat /\ MaxOrphans \in Nat

VARIABLES
  btArgs,      \* the invocation that runs, or ran last
  btAt,        \* its position in the script
  btDoing,     \* "send", "await" (a reply), "listen" or "exited"
  btStatus,    \* the exit status
  elapsed,     \* as the scan loop counts it, in milliseconds
  devices,     \* entries printed
  listened,    \* history: the milliseconds counted in all loops of the run
  socket,      \* messages on their way to the program
  pending,     \* requests the kernel has not answered
  powered, le, \* controller settings
  discovery,   \* "none", "br-edr" or "le"
  own,         \* history: the discovery was started for this run's last START
  btEvents, btErrors

program  == <<btArgs, btAt, btDoing, btStatus, elapsed, devices, listened>>
settings == <<powered, le, discovery, own>>
btVars   == <<program, socket, pending, settings, btEvents, btErrors>>

Init ==
  /\ btArgs \in Arguments /\ btAt = 1 /\ btDoing = "exited" /\ btStatus = 0
  /\ elapsed = 0 /\ devices = 0 /\ listened = 0
  /\ socket = <<>> /\ pending = {}
  /\ powered = FALSE /\ le = FALSE /\ discovery = "none" /\ own = FALSE
  /\ btEvents = 0 /\ btErrors = 0

-----------------------------------------------------------------------------
(* The programs.                                                           *)

Command(o) == <<[op |-> o]>>
Listen(s) == <<[op |-> "listen", seconds |-> s]>>

scan(type, s) ==
  Command("SET_POWERED on")
  \o (IF type = "le" THEN Command("SET_LE") ELSE <<>>)
  \o Command(IF type = "le" THEN "START le" ELSE "START br-edr")
  \o Listen(s) \o Command("STOP")

\* Variant.
coexist_both(s) ==
  LET half == IF s \div 2 = 0 THEN 1 ELSE s \div 2
  IN scan("br-edr", half) \o scan("le", s)
coexist(s) ==
  LET half == IF s \div 2 = 0 THEN 1 ELSE s \div 2
  IN scan("br-edr", half) \o scan("le", (s - half) % U32)

ScriptOf(args) ==
  Command("READ_INDEX_LIST")
  \o CASE args[1] = "info"       -> Command("READ_INFO")
       [] args[1] = "power on"   -> Command("SET_POWERED on")
       [] args[1] = "power off"  -> Command("SET_POWERED off")
       [] args[1] = "bredr-scan" -> scan("br-edr", args[2])
       [] args[1] = "le-scan"    -> scan("le", args[2])
       [] args[1] = "coexist"    -> coexist(args[2])

Scripts == [args \in Arguments |-> ScriptOf(args)]
Script == Scripts[btArgs]
Now == Script[btAt]

-----------------------------------------------------------------------------
(* The program.                                                            *)

exit(code) == btDoing' = "exited" /\ btStatus' = code /\ UNCHANGED <<btAt, elapsed>>

Proceed ==
  IF btAt = Len(Script) THEN exit(0)
  ELSE /\ btAt' = btAt + 1 /\ elapsed' = 0 /\ UNCHANGED btStatus
       /\ btDoing' = IF Script[btAt + 1].op = "listen" THEN "listen" ELSE "send"

(* scan ignores what becomes of STOP_DISCOVERY; the other commands end the *)
(* program when they cannot be sent, are refused or time out.              *)
Fails == IF Now.op = "STOP" THEN Proceed ELSE exit(1)

Error == btErrors < MaxErrors /\ btErrors' = btErrors + 1

(* A new process and a new socket: what was sent to the old one is gone,   *)
(* what it asked the kernel to change is not.                              *)
Changes(r) == r.op \notin {"READ_INDEX_LIST", "READ_INFO"}
Orphaned == {[r EXCEPT !.live = FALSE, !.last = FALSE] : r \in {q \in pending : Changes(q)}}

Start(args) ==
  /\ btDoing = "exited" /\ Cardinality(Orphaned) <= MaxOrphans
  /\ btArgs' = args /\ btAt' = 1 /\ btDoing' = "send" /\ btStatus' = 0
  /\ elapsed' = 0 /\ devices' = 0 /\ listened' = 0 /\ own' = FALSE
  /\ socket' = <<>>
  /\ pending' = Orphaned
  /\ UNCHANGED <<powered, le, discovery, btEvents, btErrors>>

CannotOpen ==
  /\ btDoing = "send" /\ btAt = 1 /\ Error /\ exit(1)
  /\ UNCHANGED <<btArgs, devices, listened, socket, pending, settings, btEvents>>

(* What was asked before is not the last request any more; what a START    *)
(* finds under way was not started for it.                                 *)
Superseded(m) == [m EXCEPT !.last = FALSE]
Starts(o) == o \in {"START br-edr", "START le"}

\* Variant.
DoesNotAwait(o) == IF Starts(o) THEN "listen" ELSE "await"
AfterSend(o) == "await"

send_cmd ==
  /\ btDoing = "send"
  /\ pending' = {Superseded(r) : r \in pending}
                \cup {[op |-> Now.op, live |-> TRUE, last |-> TRUE]}
  /\ socket' = [i \in 1..Len(socket) |->
                 [Superseded(socket[i]) EXCEPT !.own = @ /\ ~Starts(Now.op)]]
  /\ own' = (own /\ ~Starts(Now.op))
  /\ IF AfterSend(Now.op) = "listen"
     THEN btAt' = btAt + 1 /\ btDoing' = "listen" /\ elapsed' = 0
     ELSE btDoing' = "await" /\ UNCHANGED <<btAt, elapsed>>
  /\ UNCHANGED <<btArgs, btStatus, devices, listened, powered, le, discovery,
                 btEvents, btErrors>>

CannotSend ==
  /\ btDoing = "send" /\ Error
  /\ IF Now.op = "STOP" THEN btDoing' = "await" /\ UNCHANGED <<btAt, btStatus, elapsed>>
                        ELSE exit(1)
  /\ UNCHANGED <<btArgs, devices, listened, socket, pending, settings, btEvents>>

(* command_reply: a status or completion event for the wanted opcode; a    *)
(* status of zero, and everything else, is read and dropped.               *)
\* Variant.
AnyReply(m) == m.event \in {"status", "complete"}
Wanted(m) == m.event \in {"status", "complete"} /\ m.op = Now.op

command_reply ==
  /\ btDoing = "await" /\ socket # <<>>
  /\ LET m == Head(socket) IN
     IF ~Wanted(m) THEN UNCHANGED <<btAt, btDoing, btStatus, elapsed>>
     ELSE IF m.ok THEN Proceed ELSE Fails
  /\ socket' = Tail(socket)
  /\ UNCHANGED <<btArgs, devices, listened, pending, settings, btEvents, btErrors>>

reply_timeout ==
  /\ btDoing = "await" /\ socket = <<>> /\ Fails
  /\ UNCHANGED <<btArgs, devices, listened, socket, pending, settings, btEvents, btErrors>>

(* One pass of the scan loop: it counts 500 ms whether the wait ended with *)
(* a message or ran its time.                                              *)
Remains == elapsed < (Now.seconds * 1000) % U32
Pass == elapsed' = (elapsed + 500) % U32 /\ listened' = listened + 500

listen_read ==
  /\ btDoing = "listen" /\ Remains /\ socket # <<>>
  /\ devices' = devices + (IF Head(socket).event = "found" THEN 1 ELSE 0)
  /\ socket' = Tail(socket) /\ Pass
  /\ UNCHANGED <<btArgs, btAt, btDoing, btStatus, pending, settings, btEvents, btErrors>>

listen_timeout ==
  /\ btDoing = "listen" /\ Remains /\ socket = <<>> /\ Pass
  /\ UNCHANGED <<btArgs, btAt, btDoing, btStatus, devices, socket, pending,
                 settings, btEvents, btErrors>>

listen_end ==
  /\ btDoing = "listen" /\ ~Remains /\ Proceed
  /\ UNCHANGED <<btArgs, devices, listened, socket, pending, settings, btEvents, btErrors>>

(* Ctrl-C: the process ends, what it asked for does not.                   *)
Interrupt ==
  /\ btDoing # "exited" /\ exit(130)
  /\ UNCHANGED <<btArgs, devices, listened, socket, pending, settings, btEvents, btErrors>>

(* A process that ended long ago has left nothing but the kernel's state.  *)
Reaped ==
  /\ btAt' = 1 /\ btDoing' = "exited" /\ btStatus' = 0
  /\ elapsed' = 0 /\ devices' = 0 /\ listened' = 0 /\ own' = FALSE
  /\ socket' = <<>> /\ pending' = Orphaned
  /\ btArgs' = CHOOSE args \in Arguments : TRUE
  /\ UNCHANGED <<powered, le, discovery, btEvents, btErrors>>

Program ==
  \/ CannotOpen \/ send_cmd \/ CannotSend \/ command_reply \/ reply_timeout
  \/ listen_read \/ listen_timeout \/ listen_end

-----------------------------------------------------------------------------
(* The kernel.                                                             *)

Message(e, o, ok, last, mine) == [event |-> e, op |-> o, ok |-> ok, last |-> last, own |-> mine]

(* Events reach a program that has its socket open.                        *)
Deliver(q, m) == IF btDoing = "exited" THEN q ELSE Append(q, m)

(* A discovery that is being started or stopped is not started again.      *)
Busy(r) == \E q \in pending \ {r} : q.op = "STOP" \/ (Starts(q.op) /\ ~q.last)
Type(o) == IF o = "START le" THEN "le" ELSE "br-edr"

CanMeet(r) ==
  CASE Starts(r.op)   -> powered /\ (r.op = "START le" => le)
                         /\ discovery = "none" /\ ~Busy(r)
    [] r.op = "STOP"  -> discovery # "none"
    [] OTHER          -> TRUE

Effect(r) ==
  /\ powered' = (r.op = "SET_POWERED on" \/ (powered /\ r.op # "SET_POWERED off"))
  /\ le' = (le \/ r.op = "SET_LE")
  /\ discovery' = IF Starts(r.op) THEN Type(r.op)
                  ELSE IF r.op \in {"STOP", "SET_POWERED off"} THEN "none" ELSE discovery
  /\ own' = IF Starts(r.op) THEN r.last ELSE own /\ r.op \notin {"STOP", "SET_POWERED off"}

Answer(r, e, ok) ==
  /\ pending' = pending \ {r}
  /\ socket' = IF r.live THEN Deliver(socket, Message(e, r.op, ok, r.last, FALSE)) ELSE socket
  /\ UNCHANGED <<program, btEvents>>

Complete(r) ==
  /\ CanMeet(r) /\ Effect(r) /\ Answer(r, "complete", TRUE)
  /\ UNCHANGED btErrors

Reject(r) ==
  /\ \E e \in {"status", "complete"} : Answer(r, e, FALSE)
  /\ IF CanMeet(r) THEN Error ELSE UNCHANGED btErrors
  /\ UNCHANGED settings

Event(m) ==
  /\ btEvents < MaxEvents /\ btEvents' = btEvents + 1
  /\ socket' = Deliver(socket, m)
  /\ UNCHANGED <<program, pending, btErrors>>

DeviceFound ==
  /\ discovery # "none" /\ Event(Message("found", "none", TRUE, FALSE, own))
  /\ UNCHANGED settings

(* Settings, connections and classes change for other reasons, too.        *)
OtherEvent == Event(Message("other", "none", TRUE, FALSE, FALSE)) /\ UNCHANGED settings

(* A discovery ends by itself after about ten seconds.                     *)
DiscoveryEnds ==
  /\ discovery # "none" /\ Event(Message("other", "none", TRUE, FALSE, FALSE))
  /\ discovery' = "none" /\ own' = FALSE /\ UNCHANGED <<powered, le>>

Kernel ==
  \/ \E r \in pending : Complete(r) \/ Reject(r)
  \/ DeviceFound \/ OtherEvent \/ DiscoveryEnds

Next == (\E args \in Arguments : Start(args)) \/ Program \/ Interrupt \/ Kernel

Spec == Init /\ [][Next]_btVars

-----------------------------------------------------------------------------
(* Properties.                                                             *)

Operations == {"READ_INDEX_LIST", "READ_INFO", "SET_POWERED on", "SET_POWERED off",
               "SET_LE", "START br-edr", "START le", "STOP"}
Requests == [op : Operations, live : BOOLEAN, last : BOOLEAN]
Messages == [event : {"status", "complete", "found", "other"},
             op : Operations \cup {"none"},
             ok : BOOLEAN, last : BOOLEAN, own : BOOLEAN]

TypeOK ==
  /\ btArgs \in Arguments /\ btAt \in 1..Len(Script)
  /\ btDoing \in {"send", "await", "listen", "exited"} /\ btStatus \in {0, 1, 130}
  /\ btDoing = "listen" <=> btDoing # "exited" /\ Now.op = "listen"
  /\ elapsed \in 0..U32 - 1 /\ devices \in 0..MaxEvents /\ listened \in Nat
  /\ socket \in Seq(Messages) /\ pending \subseteq Requests
  /\ powered \in BOOLEAN /\ le \in BOOLEAN /\ own \in BOOLEAN
  /\ discovery \in {"none", "br-edr", "le"}
  /\ btEvents \in 0..MaxEvents /\ btErrors \in 0..MaxErrors

(* A wait for a reply that ends with a message ends with the reply to the  *)
(* last request: the late reply to a STOP that was given up does not pass  *)
(* for the reply to a later command, nor for that of a later STOP.         *)
RepliesMatch ==
  [][btDoing = "await" /\ btDoing' # "await" /\ Len(socket') < Len(socket)
       => Head(socket).last]_btVars

(* A scan counts only devices that its own discovery has found: none that  *)
(* an earlier scan, or an earlier run, has left on the socket.             *)
CountsOwnScan == devices' > devices => Head(socket).own

(* A run that ends with status 0 has listened for the seconds it was asked *)
(* for, all its scans together, as far as its counter can tell.  (coexist  *)
(* with 0 seconds takes 1 - 0 seconds for the second scan: 2^32 - 1.)      *)
ScansShareSeconds ==
  btDoing = "exited" /\ btStatus = 0 /\ btAt > 2
  /\ btArgs[2] # 0 /\ btArgs[2] * 1000 < U32
    => listened = btArgs[2] * 1000
=============================================================================
