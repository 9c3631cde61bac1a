------------------------------ MODULE WifiScan ------------------------------
(***************************************************************************)
(* tools/r1-nl80211-scan.c (/bin/r1-wifi-scan), a client of nl80211, and   *)
(* as much of the kernel behind its netlink socket as it can tell.         *)
(*                                                                         *)
(* The program asks three things, one after the other: the number of the   *)
(* nl80211 family, a scan (acknowledged at once, carried out in its own    *)
(* time), and, eight seconds later, the list of stations.  It reads        *)
(* whatever datagram comes next and takes it for the answer: it looks at   *)
(* no sequence number and has no timeout.                                  *)
(*                                                                         *)
(* A definition marked "Variant" is a faulty form of the next one.  No     *)
(* action uses it; it shows which fault of the code a property detects.    *)
(***************************************************************************)
EXTENDS Integers, Sequences

CONSTANTS
  MaxStations,     \* bound on the kernel's list of stations
  MaxWifiErrors    \* bound on calls and requests that fail though they could be met

(* Assumed by the modules that compose this one.                           *)
WifiAssumption == MaxStations \in Nat /\ MaxWifiErrors \in Nat

VARIABLES
  wifiAt,          \* the call the program is about to make, or "exited"
  wifiStatus,      \* the exit status
  counted,         \* stations printed
  answers,         \* datagrams on their way to the program
  dumpFrom,        \* entries of the list already sent, or -1 without a dump
  listed,          \* history: the length of the list when the dump ended
  asked,           \* history: the last request
  scanning,        \* the kernel carries out a scan
  stations,        \* length of the kernel's list, kept between scans
  wifiErrors

client   == <<wifiAt, wifiStatus, counted>>
netlink  == <<answers, dumpFrom, listed, asked>>
radio    == <<scanning, stations>>
wifiVars == <<client, netlink, radio, wifiErrors>>

Init ==
  /\ wifiAt = "exited" /\ wifiStatus = 0 /\ counted = 0
  /\ answers = <<>> /\ dumpFrom = -1 /\ listed = 0 /\ asked = "none"
  /\ scanning = FALSE /\ stations = 0 /\ wifiErrors = 0

Calls == {"open", "resolve", "family", "trigger", "started", "sleep", "dump", "list"}
Error == wifiErrors < MaxWifiErrors /\ wifiErrors' = wifiErrors + 1

-----------------------------------------------------------------------------
(* The program.                                                            *)

exit(code) == wifiAt' = "exited" /\ wifiStatus' = code

(* The statuses with which the program ends when a call fails: "open" is   *)
(* setting the interface up, the socket and its bind.                      *)
Codes(at) ==
  CASE at = "open"                    -> 1..3
    [] at \in {"resolve", "family"}   -> {4}
    [] at \in {"trigger", "started"}  -> {5}
    [] at \in {"dump", "list"}        -> {6}

Start ==
  /\ wifiAt = "exited"
  /\ wifiAt' = "open" /\ wifiStatus' = 0 /\ counted' = 0
  /\ answers' = <<>> /\ dumpFrom' = -1 /\ listed' = 0 /\ asked' = "none"
  /\ UNCHANGED <<radio, wifiErrors>>

Fail ==
  /\ wifiAt \notin {"exited", "sleep"} /\ Error
  /\ \E code \in Codes(wifiAt) : exit(code)
  /\ UNCHANGED <<counted, netlink, radio>>

Goto(at) == wifiAt' = at /\ UNCHANGED wifiStatus

(* Before the first request, and the pause after the scan was accepted.    *)
Prepare(at, next) ==
  /\ wifiAt = at /\ Goto(next)
  /\ UNCHANGED <<counted, netlink, radio, wifiErrors>>

Datagram(of, ok, bss, done) == [of |-> of, ok |-> ok, bss |-> bss, done |-> done]

(* A request that is not a dump is answered before sendto returns: the     *)
(* family by its description, without an acknowledgement, the scan by an   *)
(* acknowledgement or an error.                                            *)
\* Variant.
AcknowledgedToo == <<Datagram("family", TRUE, 0, FALSE), Datagram("ack", TRUE, 0, FALSE)>>
FamilyAnswer == <<Datagram("family", TRUE, 0, FALSE)>>

SendResolve ==
  /\ wifiAt = "resolve" /\ Goto("family")
  /\ asked' = "family" /\ answers' = answers \o FamilyAnswer
  /\ UNCHANGED <<counted, dumpFrom, listed, radio, wifiErrors>>

SendTrigger ==
  /\ wifiAt = "trigger" /\ Goto("started") /\ asked' = "scan"
  /\ IF scanning
     THEN answers' = Append(answers, Datagram("scan", FALSE, 0, FALSE)) /\ UNCHANGED radio
     ELSE /\ answers' = Append(answers, Datagram("scan", TRUE, 0, FALSE))
          /\ scanning' = TRUE /\ UNCHANGED stations
  /\ UNCHANGED <<counted, dumpFrom, listed, wifiErrors>>

SendDump ==
  /\ wifiAt = "dump" /\ Goto("list")
  /\ asked' = "list" /\ dumpFrom' = 0
  /\ UNCHANGED <<counted, answers, listed, radio, wifiErrors>>

(* One recv each: the family must be described, the scan be answered by an *)
(* error message (an acknowledgement is one of value 0).                   *)
ReadFamily ==
  /\ wifiAt = "family" /\ answers # <<>>
  /\ IF Head(answers).of = "family" THEN Goto("trigger") ELSE exit(4)
  /\ answers' = Tail(answers)
  /\ UNCHANGED <<counted, dumpFrom, listed, asked, radio, wifiErrors>>

ReadStarted ==
  /\ wifiAt = "started" /\ answers # <<>>
  /\ IF Head(answers).of \in {"scan", "ack"} /\ Head(answers).ok THEN Goto("sleep") ELSE exit(5)
  /\ answers' = Tail(answers)
  /\ UNCHANGED <<counted, dumpFrom, listed, asked, radio, wifiErrors>>

(* dump_scan reads datagrams until one holds DONE or an error message; one *)
(* of value 0 ends the list like DONE.                                     *)
\* Variant.
FirstDatagram(m) == TRUE
Ends(m) == m.done \/ m.of # "list"

ReadList ==
  /\ wifiAt = "list" /\ answers # <<>>
  /\ LET m == Head(answers) IN
     /\ counted' = counted + m.bss
     /\ IF ~m.ok THEN exit(6)
        ELSE IF Ends(m) THEN exit(IF counted' = 0 THEN 7 ELSE 0)
        ELSE Goto("list")
  /\ answers' = Tail(answers)
  /\ UNCHANGED <<dumpFrom, listed, asked, radio, wifiErrors>>

(* Ctrl-C: the process ends, its socket goes with it, the scan does not.   *)
Interrupt ==
  /\ wifiAt # "exited" /\ exit(130)
  /\ UNCHANGED <<counted, netlink, radio, wifiErrors>>

(* A process that ended long ago has left nothing but the kernel's state.  *)
Reaped ==
  /\ wifiAt' = "exited" /\ wifiStatus' = 0 /\ counted' = 0
  /\ answers' = <<>> /\ dumpFrom' = -1 /\ listed' = 0 /\ asked' = "none"
  /\ UNCHANGED <<radio, wifiErrors>>

Program ==
  \/ Prepare("open", "resolve")
  \/ SendResolve \/ ReadFamily \/ SendTrigger \/ ReadStarted
  \/ Prepare("sleep", "dump") \/ SendDump \/ ReadList \/ Fail

-----------------------------------------------------------------------------
(* The kernel.                                                             *)

(* The list is sent in datagrams, each when the one before was read; the   *)
(* last entries and DONE may share one.                                    *)
SendList ==
  /\ wifiAt = "list" /\ dumpFrom >= 0 /\ answers = <<>>
  /\ \E n \in 0..stations - dumpFrom, done \in BOOLEAN :
       /\ n = 0 => done
       /\ done => dumpFrom + n = stations
       /\ answers' = <<Datagram("list", TRUE, n, done)>>
       /\ dumpFrom' = IF done THEN -1 ELSE dumpFrom + n
       /\ listed' = IF done THEN stations ELSE listed
  /\ UNCHANGED <<client, asked, radio, wifiErrors>>

ListFails ==
  /\ wifiAt = "list" /\ dumpFrom >= 0 /\ answers = <<>> /\ Error
  /\ answers' = <<Datagram("list", FALSE, 0, TRUE)>> /\ dumpFrom' = -1
  /\ UNCHANGED <<client, listed, asked, radio>>

(* A scan adds the stations it hears to the end of the list.               *)
StationHeard ==
  /\ scanning /\ stations < MaxStations /\ stations' = stations + 1
  /\ UNCHANGED <<client, netlink, scanning, wifiErrors>>

ScanEnds ==
  /\ scanning /\ scanning' = FALSE
  /\ UNCHANGED <<client, netlink, stations, wifiErrors>>

(* Entries older than half a minute go before a dump starts, never during  *)
(* one.                                                                    *)
Expire ==
  /\ stations > 0 /\ dumpFrom = -1 /\ stations' = 0
  /\ UNCHANGED <<client, netlink, scanning, wifiErrors>>

Kernel == SendList \/ ListFails \/ StationHeard \/ ScanEnds \/ Expire

Next == Start \/ Program \/ Interrupt \/ Kernel

Spec == Init /\ [][Next]_wifiVars

-----------------------------------------------------------------------------
(* Properties.                                                             *)

Datagrams == [of : {"family", "ack", "scan", "list"}, ok : BOOLEAN,
              bss : 0..MaxStations, done : BOOLEAN]

TypeOK ==
  /\ wifiAt \in Calls \cup {"exited"}
  /\ wifiStatus \in 0..7 \cup {130} /\ counted \in 0..MaxStations
  /\ Len(answers) <= 1 /\ \A i \in 1..Len(answers) : answers[i] \in Datagrams
  /\ dumpFrom \in -1..MaxStations /\ listed \in 0..MaxStations
  /\ asked \in {"none", "family", "scan", "list"}
  /\ scanning \in BOOLEAN /\ stations \in 0..MaxStations
  /\ wifiErrors \in 0..MaxWifiErrors

(* Every datagram the program reads answers its last request, although it  *)
(* looks at no sequence number: no request is answered twice.              *)
AnswersMatch == [][Len(answers') < Len(answers) /\ wifiAt # "exited"
                     => Head(answers).of = asked]_wifiVars

(* A run that reports stations, or none, has counted the whole list, in    *)
(* however many datagrams the kernel sent it.                              *)
CountsEveryStation ==
  wifiAt = "exited" /\ wifiStatus \in {0, 7} /\ asked = "list"
    => counted = listed /\ (wifiStatus = 7 <=> listed = 0)
=============================================================================
