-------------------------- MODULE RescueRadioProofs --------------------------
(***************************************************************************)
(* Proofs about RescueRadio, for every value of its constants: the types,  *)
(* that each tool acts on the answers to what it asked last, that it       *)
(* counts what its own scan found, and that a run that ends well has       *)
(* scanned as much as it was told to.                                      *)
(*                                                                         *)
(* The invariant is the conjunction of ToolsInv, about each tool and its   *)
(* kernel, which every step of the system keeps because it is a step of    *)
(* each tool or leaves that one alone; ConsoleInv, about which tool runs;  *)
(* and ScanInv, about the scans counted for the script.  The sequence of   *)
(* requests of each invocation is a constant: its shape, proved first, is  *)
(* all that is used of it.                                                 *)
(***************************************************************************)
EXTENDS RescueRadio, FiniteSetTheorems, SequenceTheorems, TLAPS

-----------------------------------------------------------------------------
(* The invariant.                                                          *)

(* The messages of q about devices found, and the replies.                 *)
Found(q) == {i \in 1..Len(q) : q[i].event = "found"}
IsReply(m) == m.event \in {"status", "complete"}

(* A STOP that is not answered is given up and the program goes on; these are*)
(* the requests that may be made while its reply is still on the way.      *)
AfterStop == {"SET_POWERED on", "SET_LE", "START le", "START br-edr"}

(* The types of the Bluetooth client: of its program, of the channel between*)
(* program and kernel, and of the controller.                              *)
ProgramTypes ==
  /\ btArgs \in Arguments /\ btAt \in 1..Len(Bt!Script)
  /\ btDoing \in {"send", "await", "listen", "exited"} /\ btStatus \in {0, 1, 130}
  /\ btDoing = "listen" <=> btDoing # "exited" /\ Bt!Now.op = "listen"
  /\ elapsed \in 0..U32 - 1 /\ devices \in Nat /\ listened \in Nat
ChannelTypes == socket \in Seq(Bt!Messages) /\ pending \subseteq Bt!Requests
SettingTypes ==
  /\ powered \in BOOLEAN /\ le \in BOOLEAN /\ own \in BOOLEAN
  /\ discovery \in {"none", "br-edr", "le"}
  /\ btEvents \in 0..MaxEvents /\ btErrors \in 0..MaxErrors
BtTypes == ProgramTypes /\ ChannelTypes /\ SettingTypes

(* A device is counted for at most one event: so the count stays within the*)
(* bound on the events.                                                    *)
FoundInv == devices + Cardinality(Found(socket)) <= btEvents

(* What may be under way for a program that runs, as a request that it would*)
(* hear the reply to or as that reply: what it waits for, or, of the requests*)
(* it no longer waits for, a STOP, and that only until the next one.       *)
Fits(o, last) ==
  \/ btDoing = "send" /\ o = "STOP" /\ Bt!Now.op \in AfterStop
  \/ /\ btDoing = "await"
     /\ IF last THEN o = Bt!Now.op ELSE o = "STOP" /\ Bt!Now.op \in AfterStop

(* The replies on their way are of this run, and the last request's is marked.*)
RepliesInv ==
  /\ \A r \in pending : r.last => r.live
  /\ \A i \in 1..Len(socket) : socket[i].last => IsReply(socket[i])
  /\ btDoing # "exited" =>
       /\ \A r \in pending : r.live => Fits(r.op, r.last)
       /\ \A i \in 1..Len(socket) : IsReply(socket[i]) => Fits(socket[i].op, socket[i].last)

(* The last request is answered once.                                      *)
OnceInv ==
  btDoing = "await" => \A i \in 1..Len(socket) : socket[i].last =>
     /\ \A r \in pending : ~r.last
     /\ \A j \in 1..Len(socket) : socket[j].last => i = j

(* Nothing that is pending can start or stop a discovery, and one that is on*)
(* was started by this run.                                                *)
Calm ==
  /\ \A r \in pending : r.op # "STOP" /\ ~Bt!Starts(r.op)
  /\ discovery # "none" => own

(* Message i says that the last request was carried out.                   *)
MetAt(i) == i \in 1..Len(socket) /\ socket[i].last /\ socket[i].ok

(* Between the reply to a START and its reading: the discovery is this run's*)
(* own, nothing else is on its way that changes that, and devices found since*)
(* are of it.  Before the reply, no discovery is this run's own.           *)
MetInv ==
  btDoing = "await" /\ Bt!Starts(Bt!Now.op) =>
    /\ \A i \in 1..Len(socket) : MetAt(i) =>
         /\ Calm
         /\ \A j \in 1..Len(socket) : IsReply(socket[j]) => j <= i
         /\ \A j \in 1..Len(socket) : j > i /\ socket[j].event = "found" => socket[j].own
    /\ (\A i \in 1..Len(socket) : ~MetAt(i)) => ~own

(* So every device found while the program listens is of its own discovery.*)
ListenInv ==
  btDoing = "listen" =>
    Calm /\ \A i \in 1..Len(socket) : socket[i].event = "found" => socket[i].own

(* The seconds of coexist's first scan, and those of the scans of an       *)
(* invocation that are over when its script stands at position at.         *)
Half(s) == IF s \div 2 = 0 THEN 1 ELSE s \div 2

HeardBy(args, at) ==
  CASE args[1] = "bredr-scan" -> IF at > 4 THEN args[2] ELSE 0
    [] args[1] = "le-scan"    -> IF at > 5 THEN args[2] ELSE 0
    [] args[1] = "coexist"    -> IF at > 9 THEN args[2] ELSE IF at > 4 THEN Half(args[2]) ELSE 0
    [] OTHER                  -> 0

(* The seconds of an invocation that do not wrap (BtMgmt's ScansShareSeconds*)
(* is about these), and how long it has then listened.                     *)
Measured == btArgs[2] # 0 /\ btArgs[2] * 1000 < U32
Timed ==
  IF btDoing = "listen"
  THEN /\ listened = 1000 * HeardBy(btArgs, btAt) + elapsed
       /\ elapsed % 500 = 0 /\ elapsed <= Bt!Now.seconds * 1000
  ELSE listened = 1000 * HeardBy(btArgs, btAt)

(* A program that runs has not failed, and one that ended well is at its end.*)
TimeInv ==
  /\ btDoing # "exited" => btStatus = 0
  /\ btDoing = "exited" /\ btStatus = 0 => btAt \in {1, Len(Bt!Script)}
  /\ Measured /\ btStatus = 0 => Timed

(* The Wi-Fi client: its types, at most one datagram on its way, and, where*)
(* it stands, which one.  While a list is sent, what was counted and what is on*)
(* its way add up to what the kernel has sent, which is no more than it has.*)
WifiTypes ==
  /\ wifiErrors \in 0..MaxErrors
  /\ wifiAt \in Wifi!Calls \cup {"exited"}
  /\ wifiStatus \in 0..7 \cup {130} /\ counted \in 0..MaxStations
  /\ dumpFrom \in -1..MaxStations /\ listed \in 0..MaxStations
  /\ asked \in {"none", "family", "scan", "list"}
  /\ scanning \in BOOLEAN /\ stations \in 0..MaxStations
OneAnswer == answers \in Seq(Wifi!Datagrams) /\ Len(answers) <= 1
Silent == answers = <<>> /\ dumpFrom = -1
ListInv ==
  \/ answers = <<>> /\ dumpFrom >= 0 /\ counted = dumpFrom /\ dumpFrom <= stations
  \/ \E n \in 0..MaxStations, done \in BOOLEAN :
       /\ answers = <<Wifi!Datagram("list", TRUE, n, done)>>
       /\ IF done THEN dumpFrom = -1 /\ counted + n = listed
                  ELSE dumpFrom >= 0 /\ counted + n = dumpFrom /\ dumpFrom <= stations
  \/ answers = <<Wifi!Datagram("list", FALSE, 0, TRUE)>> /\ dumpFrom = -1
WifiInv ==
  /\ WifiTypes
  /\ wifiAt \in {"open", "resolve"} => Silent /\ counted = 0 /\ asked = "none"
  /\ wifiAt = "family" => answers = Wifi!FamilyAnswer /\ dumpFrom = -1 /\ counted = 0 /\ asked = "family"
  /\ wifiAt = "trigger" => Silent /\ counted = 0 /\ asked = "family"
  /\ wifiAt = "started" => /\ \E ok \in BOOLEAN : answers = <<Wifi!Datagram("scan", ok, 0, FALSE)>>
                           /\ dumpFrom = -1 /\ counted = 0 /\ asked = "scan"
  /\ wifiAt \in {"sleep", "dump"} => Silent /\ counted = 0 /\ asked = "scan"
  /\ wifiAt = "list" => ListInv /\ asked = "list"
  /\ Wifi!CountsEveryStation
  /\ OneAnswer

(* The scans begun when m of the script's scan lines have run: the lines go*)
(* round Wi-Fi, LE and BR/EDR.                                             *)
Offset(r) == CASE r = "wifi" -> 0 [] r = "le" -> 1 [] r = "br-edr" -> 2
Due(r, m) == (m + 2 - Offset(r)) \div 3
Counts(m) == [r \in Radios |-> Due(r, m)]
(* The tool that runs has begun its scan.                                  *)
WifiBegun ==
  \/ wifiAt \in {"sleep", "dump", "list"}
  \/ wifiAt = "started" /\ answers[1].ok
BtBegun ==
  \/ Bt!Now.op \in {"listen", "STOP"}
  \/ btDoing = "await" /\ Bt!Starts(Bt!Now.op) /\ \E i \in 1..Len(socket) : MetAt(i)
HasBegun == IF tool = "wifi" THEN WifiBegun ELSE BtBegun

(* One tool at a time; and the one that runs, or ended last, is that of the*)
(* script's line.                                                          *)
ConsoleInv ==
  /\ line \in 0..Lines + 1 /\ tool \in {"bt", "wifi", "none"}
  /\ shellStatus \in {-1, 130} \cup 0..7
  /\ tool # "wifi" => wifiAt = "exited"
  /\ tool # "bt" => btDoing = "exited"
  /\ line > 0 => shellStatus = -1
  /\ shellStatus # -1 => Idle
  /\ line = 1 => tool = "none"
  /\ line >= 2 => IF Line(line - 1) = <<"wifi">> THEN tool = "wifi"
                                           ELSE tool = "bt" /\ btArgs = Line(line - 1)
(* The scans counted are those of the lines before the present one, and one*)
(* more as soon as its own scan has begun; a line whose tool succeeds has begun*)
(* one.  A line that fails may have begun one or not, and ends the script. *)
ScanInv ==
  /\ \E m \in 0..3 * Cycles : scans = Counts(m)
  /\ line \in {1, 2} => scans = Counts(0)
  /\ line >= 3 => /\ scans \in {Counts(line - 3), Counts(line - 2)}
                  /\ ~Idle => scans = Counts(IF HasBegun THEN line - 2 ELSE line - 3)
                  /\ Idle /\ Status = 0 => scans = Counts(line - 2)
  /\ CoexistMeansScanned

-----------------------------------------------------------------------------
(* The sequences of requests of the invocations (BtMgmt's ScriptOf), step by step.*)

Steps == [op : Bt!Operations] \cup [op : {"listen"}, seconds : Int]

(* What is known of a sequence s that is q behind p, position by position. *)
Joins(s, p, q) ==
  /\ s \in Seq(Steps) /\ Len(s) = Len(p) + Len(q)
  /\ \A i \in 1..Len(p) : s[i] = p[i]
  /\ \A i \in 1..Len(q) : s[Len(p) + i] = q[i]
Adds(s, p, x) ==
  /\ s \in Seq(Steps) /\ Len(s) = Len(p) + 1 /\ s[Len(p) + 1] = x
  /\ \A i \in 1..Len(p) : s[i] = p[i]
Is1(s, a) == s \in Seq(Steps) /\ Len(s) = 1 /\ s[1] = a
Is2(s, a, b) == s \in Seq(Steps) /\ Len(s) = 2 /\ s[1] = a /\ s[2] = b
Is3(s, a, b, c) == s \in Seq(Steps) /\ Len(s) = 3 /\ s[1] = a /\ s[2] = b /\ s[3] = c
Is4(s, a, b, c, d) ==
  s \in Seq(Steps) /\ Len(s) = 4 /\ s[1] = a /\ s[2] = b /\ s[3] = c /\ s[4] = d
Is5(s, a, b, c, d, e) ==
  /\ s \in Seq(Steps) /\ Len(s) = 5
  /\ s[1] = a /\ s[2] = b /\ s[3] = c /\ s[4] = d /\ s[5] = e

(* What concatenation gives, position by position; the sequences are named *)
(* so that the steps that use it speak of names only.                      *)
LEMMA Join ==
  ASSUME NEW p \in Seq(Steps), NEW q \in Seq(Steps), NEW s, s = (p \o q)
  PROVE  Joins(s, p, q)
BY DEF Joins

LEMMA Add ==
  ASSUME NEW p \in Seq(Steps), NEW x \in Steps, NEW s, s = (p \o <<x>>)
  PROVE  Adds(s, p, x)
BY DEF Adds

LEMMA First ==
  ASSUME NEW x \in Steps, NEW s, s = <<x>>
  PROVE  Is1(s, x)
BY DEF Is1

LEMMA Two ==
  ASSUME NEW a \in Steps, NEW b \in Steps, NEW s, s = (<<a>> \o <<b>>)
  PROVE  Is2(s, a, b)
BY DEF Is2

LEMMA Three ==
  ASSUME NEW a, NEW b, NEW c \in Steps, NEW p, Is2(p, a, b), NEW s, s = (p \o <<c>>)
  PROVE  Is3(s, a, b, c)
<1>1. p \in Seq(Steps)
  BY DEF Is2
<1>2. Adds(s, p, c)
  BY <1>1, Add, Zenon
<1> QED BY ONLY <1>2, Is2(p, a, b) DEF Adds, Is2, Is3

LEMMA Four ==
  ASSUME NEW a, NEW b, NEW c, NEW d \in Steps, NEW p, Is3(p, a, b, c), NEW s, s = (p \o <<d>>)
  PROVE  Is4(s, a, b, c, d)
<1>1. p \in Seq(Steps)
  BY DEF Is3
<1>2. Adds(s, p, d)
  BY <1>1, Add, Zenon
<1> QED BY ONLY <1>2, Is3(p, a, b, c) DEF Adds, Is3, Is4

LEMMA Five ==
  ASSUME NEW a, NEW b, NEW c, NEW d, NEW e \in Steps, NEW p, Is4(p, a, b, c, d), NEW s, s = (p \o <<e>>)
  PROVE  Is5(s, a, b, c, d, e)
<1>1. p \in Seq(Steps)
  BY DEF Is4
<1>2. Adds(s, p, e)
  BY <1>1, Add, Zenon
<1> QED BY ONLY <1>2, Is4(p, a, b, c, d) DEF Adds, Is4, Is5

(* The requests of one scan: four for BR/EDR, five for LE.                 *)
LEMMA FourSteps ==
  ASSUME NEW a \in Steps, NEW b \in Steps, NEW c \in Steps, NEW d \in Steps, NEW s,
         s = (<<a>> \o <<b>> \o <<c>> \o <<d>>)
  PROVE  Is4(s, a, b, c, d)
<1>1. Is2(<<a>> \o <<b>>, a, b)
  BY Two, Zenon
<1>2. Is3(<<a>> \o <<b>> \o <<c>>, a, b, c)
  BY <1>1, Three, Zenon
<1> QED BY <1>2, Four, Zenon

LEMMA FiveSteps ==
  ASSUME NEW a \in Steps, NEW b \in Steps, NEW c \in Steps, NEW d \in Steps, NEW e \in Steps, NEW s,
         s = (<<a>> \o <<b>> \o <<c>> \o <<d>> \o <<e>>)
  PROVE  Is5(s, a, b, c, d, e)
<1>1. Is4(<<a>> \o <<b>> \o <<c>> \o <<d>>, a, b, c, d)
  BY FourSteps, Zenon
<1> QED BY <1>1, Five, Zenon

(* The step that every script begins with, before the rest of it.          *)
LEMMA Headed ==
  ASSUME NEW h \in Steps, NEW p \in Seq(Steps), NEW s, s = (<<h>> \o p)
  PROVE  Joins(s, <<h>>, p) /\ Is1(<<h>>, h)
<1>1. Is1(<<h>>, h)
  BY First, Zenon
<1>2. <<h>> \in Seq(Steps)
  BY <1>1 DEF Is1
<1> QED BY <1>1, <1>2, Join, Zenon

C(o) == [op |-> o]
L(s) == [op |-> "listen", seconds |-> s]

Shape(args, S) ==
  /\ S \in Seq(Steps) /\ S[1] = C("READ_INDEX_LIST")
  /\ args[1] = "info" => Len(S) = 2 /\ S[2] = C("READ_INFO")
  /\ args[1] = "power on" => Len(S) = 2 /\ S[2] = C("SET_POWERED on")
  /\ args[1] = "power off" => Len(S) = 2 /\ S[2] = C("SET_POWERED off")
  /\ args[1] = "bredr-scan" =>
       /\ Len(S) = 5 /\ S[2] = C("SET_POWERED on") /\ S[3] = C("START br-edr")
       /\ S[4] = L(args[2]) /\ S[5] = C("STOP")
  /\ args[1] = "le-scan" =>
       /\ Len(S) = 6 /\ S[2] = C("SET_POWERED on") /\ S[3] = C("SET_LE") /\ S[4] = C("START le")
       /\ S[5] = L(args[2]) /\ S[6] = C("STOP")
  /\ args[1] = "coexist" =>
       /\ Len(S) = 10 /\ S[2] = C("SET_POWERED on") /\ S[3] = C("START br-edr")
       /\ S[4] = L(Half(args[2])) /\ S[5] = C("STOP")
       /\ S[6] = C("SET_POWERED on") /\ S[7] = C("SET_LE") /\ S[8] = C("START le")
       /\ S[9] = L((args[2] - Half(args[2])) % U32) /\ S[10] = C("STOP")

LEMMA StepsAre ==
  /\ \A o \in Bt!Operations : C(o) \in Steps
  /\ \A s \in Int : L(s) \in Steps
BY DEF C, L, Steps

LEMMA Numbers ==
  ASSUME NEW args \in Arguments
  PROVE  /\ args[1] \in Bt!BtPrograms /\ args[2] \in 0..U32 - 1 /\ U32 \in Nat /\ U32 > 1000
         /\ Half(args[2]) \in Int /\ (args[2] - Half(args[2])) % U32 \in Int
<1>1. args[1] \in Bt!BtPrograms /\ args[2] \in 0..U32 - 1 /\ U32 \in Nat /\ U32 > 1000
  BY ToolsAssumption DEF Bt!BtAssumption
<1> QED BY <1>1 DEF Half

LEMMA ScanBredr ==
  ASSUME NEW t \in Int
  PROVE  Is4(Bt!scan("br-edr", t), C("SET_POWERED on"), C("START br-edr"), L(t), C("STOP"))
<1>1. C("SET_POWERED on") \in Steps /\ C("START br-edr") \in Steps /\ L(t) \in Steps /\ C("STOP") \in Steps
  BY StepsAre DEF Bt!Operations
<1>2. <<C("SET_POWERED on")>> \o <<>> = <<C("SET_POWERED on")>>
  <2>1. Is1(<<C("SET_POWERED on")>>, C("SET_POWERED on"))
    BY <1>1, First, Zenon
  <2> QED BY <2>1, ConcatEmptySeq, Zenon DEF Is1
<1>3. Bt!scan("br-edr", t)
        = <<C("SET_POWERED on")>> \o <<C("START br-edr")>> \o <<L(t)>> \o <<C("STOP")>>
  BY <1>2 DEF Bt!scan, Bt!Command, Bt!Listen, C, L
<1> QED BY <1>1, <1>3, FourSteps, Zenon

LEMMA ScanLe ==
  ASSUME NEW t \in Int
  PROVE  Is5(Bt!scan("le", t), C("SET_POWERED on"), C("SET_LE"), C("START le"), L(t), C("STOP"))
<1>1. /\ C("SET_POWERED on") \in Steps /\ C("SET_LE") \in Steps /\ C("START le") \in Steps
      /\ L(t) \in Steps /\ C("STOP") \in Steps
  BY StepsAre DEF Bt!Operations
<1>3. Bt!scan("le", t)
        = <<C("SET_POWERED on")>> \o <<C("SET_LE")>> \o <<C("START le")>> \o <<L(t)>> \o <<C("STOP")>>
  BY DEF Bt!scan, Bt!Command, Bt!Listen, C, L
<1> QED BY <1>1, <1>3, FiveSteps, Zenon

(* What is known of a script: it is p behind its first step.               *)
After(s, h, p) ==
  /\ s \in Seq(Steps) /\ Len(s) = Len(p) + 1 /\ s[1] = h
  /\ \A i \in 1..Len(p) : s[i + 1] = p[i]

LEMMA Rest ==
  ASSUME NEW h \in Steps, NEW p \in Seq(Steps), NEW s, s = (<<h>> \o p)
  PROVE  After(s, h, p)
<1>1. Joins(s, <<h>>, p) /\ Is1(<<h>>, h)
  BY Headed, Zenon
<1>2. PICK o : o = <<h>>
  OBVIOUS
<1>3. Joins(s, o, p) /\ Is1(o, h)
  BY <1>1, <1>2, Zenon
<1> QED BY ONLY <1>3, p \in Seq(Steps) DEF Joins, Is1, After

Is6(s, h, a, b, c, d, e) ==
  /\ s \in Seq(Steps) /\ Len(s) = 6 /\ s[1] = h
  /\ s[2] = a /\ s[3] = b /\ s[4] = c /\ s[5] = d /\ s[6] = e
Is10(s, h, a, b, c, d, v, w, x, y, z) ==
  /\ s \in Seq(Steps) /\ Len(s) = 10 /\ s[1] = h
  /\ s[2] = a /\ s[3] = b /\ s[4] = c /\ s[5] = d
  /\ s[6] = v /\ s[7] = w /\ s[8] = x /\ s[9] = y /\ s[10] = z

(* An invocation's own requests, behind the first one.                     *)
LEMMA AfterOne ==
  ASSUME NEW s, NEW h, NEW p, After(s, h, p), NEW a, Is1(p, a)
  PROVE  Is2(s, h, a)
BY DEF After, Is1, Is2

LEMMA AfterFour ==
  ASSUME NEW s, NEW h, NEW p, After(s, h, p), NEW a, NEW b, NEW c, NEW d, Is4(p, a, b, c, d)
  PROVE  Is5(s, h, a, b, c, d)
<1>1. s \in Seq(Steps) /\ Len(s) = 5 /\ s[1] = h
  BY DEF After, Is4
<1>2. s[2] = a /\ s[3] = b /\ s[4] = c /\ s[5] = d
  BY DEF After, Is4
<1> QED BY <1>1, <1>2 DEF Is5

LEMMA AfterFive ==
  ASSUME NEW s, NEW h, NEW p, After(s, h, p), NEW a, NEW b, NEW c, NEW d, NEW e, Is5(p, a, b, c, d, e)
  PROVE  Is6(s, h, a, b, c, d, e)
<1>1. s \in Seq(Steps) /\ Len(s) = 6 /\ s[1] = h
  BY DEF After, Is5
<1>2. s[2] = a /\ s[3] = b /\ s[4] = c /\ s[5] = d /\ s[6] = e
  BY DEF After, Is5
<1> QED BY <1>1, <1>2 DEF Is6

LEMMA AfterNine ==
  ASSUME NEW s, NEW h, NEW p, NEW q, NEW r, Joins(r, p, q), After(s, h, r),
         NEW a, NEW b, NEW c, NEW d, Is4(p, a, b, c, d),
         NEW v, NEW w, NEW x, NEW y, NEW z, Is5(q, v, w, x, y, z)
  PROVE  Is10(s, h, a, b, c, d, v, w, x, y, z)
<1>1. /\ Len(r) = 9
      /\ \A i \in 1..4 : r[i] = p[i]
      /\ \A i \in 1..5 : r[4 + i] = q[i]
  BY DEF Joins, Is4, Is5
<1>2. s \in Seq(Steps) /\ Len(s) = 10 /\ s[1] = h /\ \A i \in 1..9 : s[i + 1] = r[i]
  BY <1>1 DEF After
<1>3. s[2] = a /\ s[3] = b /\ s[4] = c /\ s[5] = d
  BY <1>1, <1>2 DEF Is4
<1>4. s[6] = v /\ s[7] = w /\ s[8] = x /\ s[9] = y /\ s[10] = z
  BY <1>1, <1>2 DEF Is5
<1> QED BY <1>2, <1>3, <1>4 DEF Is10

(* The requests of every invocation.                                       *)
LEMMA Shapes ==
  ASSUME NEW args \in Arguments
  PROVE  Shape(args, Bt!ScriptOf(args))
<1> DEFINE h == C("READ_INDEX_LIST")
<1>1. h \in Steps
  BY StepsAre DEF Bt!Operations
<1>2. PICK s : s = Bt!ScriptOf(args)
  OBVIOUS
<1>3. ASSUME NEW p \in Seq(Steps), Bt!ScriptOf(args) = <<h>> \o p
      PROVE  After(s, h, p)
  BY <1>1, <1>2, <1>3, Rest, Zenon
<1>5. args[1] \in Bt!BtPrograms /\ args[2] \in Int
  BY Numbers
<1>6. CASE args[1] \in {"info", "power on", "power off"}
  <2>1. PICK o \in {"READ_INFO", "SET_POWERED on", "SET_POWERED off"} :
          /\ Bt!ScriptOf(args) = <<h>> \o <<C(o)>>
          /\ args[1] = "info" => o = "READ_INFO"
          /\ args[1] = "power on" => o = "SET_POWERED on"
          /\ args[1] = "power off" => o = "SET_POWERED off"
    BY <1>6 DEF Bt!ScriptOf, Bt!Command, C
  <2>2. C(o) \in Steps
    BY StepsAre DEF Bt!Operations
  <2>3. PICK p : p = <<C(o)>>
    OBVIOUS
  <2>4. Is1(p, C(o))
    BY <2>2, <2>3, First, Zenon
  <2>5. p \in Seq(Steps)
    BY <2>4 DEF Is1
  <2>6. After(s, h, p)
    BY <1>3, <2>1, <2>3, <2>5, Zenon
  <2>7. Is2(s, h, C(o))
    BY <2>4, <2>6, AfterOne, Zenon
  <2> QED BY <1>2, <1>6, <2>1, <2>7 DEF Shape, Is2
<1>7. CASE args[1] = "bredr-scan"
  <2>1. PICK p : p = Bt!scan("br-edr", args[2])
    OBVIOUS
  <2>2. Is4(p, C("SET_POWERED on"), C("START br-edr"), L(args[2]), C("STOP"))
    BY <1>5, <2>1, ScanBredr
  <2>3. Bt!ScriptOf(args) = <<h>> \o p
    BY <1>7, <2>1 DEF Bt!ScriptOf, Bt!Command, C
  <2>4. p \in Seq(Steps)
    BY <2>2 DEF Is4
  <2>5. After(s, h, p)
    BY <1>3, <2>3, <2>4, Zenon
  <2>6. Is5(s, h, C("SET_POWERED on"), C("START br-edr"), L(args[2]), C("STOP"))
    BY <2>2, <2>5, AfterFour, Zenon
  <2> QED BY <1>2, <1>7, <2>6 DEF Shape, Is5
<1>8. CASE args[1] = "le-scan"
  <2>1. PICK p : p = Bt!scan("le", args[2])
    OBVIOUS
  <2>2. Is5(p, C("SET_POWERED on"), C("SET_LE"), C("START le"), L(args[2]), C("STOP"))
    BY <1>5, <2>1, ScanLe
  <2>3. Bt!ScriptOf(args) = <<h>> \o p
    BY <1>8, <2>1 DEF Bt!ScriptOf, Bt!Command, C
  <2>4. p \in Seq(Steps)
    BY <2>2 DEF Is5
  <2>5. After(s, h, p)
    BY <1>3, <2>3, <2>4, Zenon
  <2>6. Is6(s, h, C("SET_POWERED on"), C("SET_LE"), C("START le"), L(args[2]), C("STOP"))
    BY <2>2, <2>5, AfterFive, Zenon
  <2> QED BY <1>2, <1>8, <2>6 DEF Shape, Is6
<1>9. CASE args[1] = "coexist"
  <2>1. PICK p : p = Bt!scan("br-edr", Half(args[2]))
    OBVIOUS
  <2>2. PICK q : q = Bt!scan("le", (args[2] - Half(args[2])) % U32)
    OBVIOUS
  <2>3. PICK r : r = p \o q
    OBVIOUS
  <2>4. Is4(p, C("SET_POWERED on"), C("START br-edr"), L(Half(args[2])), C("STOP"))
    BY Numbers, <2>1, ScanBredr
  <2>5. Is5(q, C("SET_POWERED on"), C("SET_LE"), C("START le"),
            L((args[2] - Half(args[2])) % U32), C("STOP"))
    BY Numbers, <2>2, ScanLe
  <2>6. p \in Seq(Steps) /\ q \in Seq(Steps) /\ Len(p) = 4 /\ Len(q) = 5
    BY <2>4, <2>5 DEF Is4, Is5
  <2>7. Joins(r, p, q)
    BY <2>3, <2>6, Join, Zenon
  <2>8. r \in Seq(Steps)
    BY <2>7 DEF Joins
  <2>9. Bt!ScriptOf(args) = <<h>> \o r
    BY <1>9, <2>1, <2>2, <2>3 DEF Bt!ScriptOf, Bt!Command, Bt!coexist, Half, C
  <2>10. After(s, h, r)
    BY <1>3, <2>8, <2>9, Zenon
  <2>11. Is10(s, h, C("SET_POWERED on"), C("START br-edr"), L(Half(args[2])), C("STOP"),
              C("SET_POWERED on"), C("SET_LE"), C("START le"),
              L((args[2] - Half(args[2])) % U32), C("STOP"))
    BY <2>4, <2>5, <2>7, <2>10, AfterNine, Zenon
  <2> QED BY <1>2, <1>9, <2>11 DEF Shape, Is10
<1> QED BY <1>5, <1>6, <1>7, <1>8, <1>9 DEF Bt!BtPrograms

(* What follows what in a script.                                          *)
Follows(o, n) ==
  /\ n = "listen" <=> Bt!Starts(o)
  /\ o = "listen" <=> n = "STOP"
  /\ o = "STOP" => n = "SET_POWERED on"
  /\ o \in AfterStop /\ ~Bt!Starts(o) => n \in AfterStop

Orderly(S) ==
  /\ S \in Seq(Steps) /\ Len(S) >= 2 /\ S[1].op = "READ_INDEX_LIST"
  /\ S[Len(S)].op # "listen" /\ ~Bt!Starts(S[Len(S)].op)
  /\ \A i \in 1..Len(S) - 1 : Follows(S[i].op, S[i + 1].op)

LEMMA StepOps ==
  /\ C("READ_INDEX_LIST").op = "READ_INDEX_LIST"
  /\ C("READ_INFO").op = "READ_INFO"
  /\ C("SET_POWERED on").op = "SET_POWERED on"
  /\ C("SET_POWERED off").op = "SET_POWERED off"
  /\ C("SET_LE").op = "SET_LE"
  /\ C("START br-edr").op = "START br-edr"
  /\ C("START le").op = "START le"
  /\ C("STOP").op = "STOP"
  /\ \A s \in Int : L(s).op = "listen" /\ L(s).seconds = s
BY DEF C, L

(* Every invocation's requests follow one another as Follows says.         *)
LEMMA OrderlyFrom ==
  ASSUME NEW S \in Seq(Steps), NEW n \in Nat, n >= 2, Len(S) = n, S[1].op = "READ_INDEX_LIST",
         S[n].op \notin {"listen", "START br-edr", "START le"},
         \A i \in 1..n - 1 : Follows(S[i].op, S[i + 1].op)
  PROVE  Orderly(S)
BY DEF Orderly, Bt!Starts

LEMMA Following ==
  /\ Follows("READ_INDEX_LIST", "READ_INFO") /\ Follows("READ_INDEX_LIST", "SET_POWERED on")
  /\ Follows("READ_INDEX_LIST", "SET_POWERED off")
  /\ Follows("SET_POWERED on", "START br-edr") /\ Follows("SET_POWERED on", "SET_LE")
  /\ Follows("SET_LE", "START le") /\ Follows("START br-edr", "listen")
  /\ Follows("START le", "listen") /\ Follows("listen", "STOP") /\ Follows("STOP", "SET_POWERED on")
BY DEF Follows, Bt!Starts, AfterStop

LEMMA ScriptsOrderly ==
  ASSUME NEW args \in Arguments, NEW S, Shape(args, S)
  PROVE  Orderly(S)
<1>1. args[1] \in Bt!BtPrograms /\ args[2] \in Int /\ Half(args[2]) \in Int
      /\ (args[2] - Half(args[2])) % U32 \in Int
  BY Numbers
<1>2. S \in Seq(Steps) /\ S[1].op = "READ_INDEX_LIST"
  BY StepOps DEF Shape
<1>3. CASE args[1] \in {"info", "power on", "power off"}
  <2>1. Len(S) = 2 /\ S[2].op \in {"READ_INFO", "SET_POWERED on", "SET_POWERED off"}
    BY <1>3, StepOps DEF Shape
  <2>2. Follows(S[1].op, S[2].op)
    BY <1>2, <2>1, Following
  <2>3. \A i \in 1..1 : Follows(S[i].op, S[i + 1].op)
    <3> SUFFICES ASSUME NEW i \in 1..1 PROVE Follows(S[i].op, S[i + 1].op)
      OBVIOUS
    <3> QED BY ONLY <2>2, i \in 1..1
  <2>5. PICK n \in Nat : n = 2
    OBVIOUS
  <2>4. Len(S) = 2
    BY <2>1
  <2>6. n >= 2 /\ Len(S) = n
    BY ONLY <2>4, <2>5
  <2>7. S[n].op = S[2].op
    BY <2>5, Zenon
  <2>8. S[n].op \notin {"listen", "START br-edr", "START le"}
    BY ONLY <2>1, <2>7
  <2>9. \A i \in 1..n - 1 : Follows(S[i].op, S[i + 1].op)
    BY <2>3, <2>5
  <2> QED BY <1>2, <2>6, <2>9, <2>8, OrderlyFrom
<1>4. CASE args[1] = "bredr-scan"
  <2>1. Len(S) = 5
    BY <1>4 DEF Shape
  <2>2. /\ S[2].op = "SET_POWERED on" /\ S[3].op = "START br-edr"
        /\ S[4].op = "listen" /\ S[5].op = "STOP"
    BY <1>1, <1>4, StepOps DEF Shape
  <2>3. /\ Follows(S[1].op, S[2].op) /\ Follows(S[2].op, S[3].op)
        /\ Follows(S[3].op, S[4].op) /\ Follows(S[4].op, S[5].op)
    BY <1>2, <2>2, Following
  <2>4. \A i \in 1..4 : Follows(S[i].op, S[i + 1].op)
    <3> SUFFICES ASSUME NEW i \in 1..4 PROVE Follows(S[i].op, S[i + 1].op)
      OBVIOUS
    <3> QED BY ONLY <2>3, i \in 1..4
  <2>5. PICK n \in Nat : n = 5
    OBVIOUS
  <2>6. n >= 2 /\ Len(S) = n
    BY <2>1, <2>5
  <2>7. S[n].op = S[5].op
    BY <2>5, Zenon
  <2>8. S[n].op \notin {"listen", "START br-edr", "START le"}
    BY ONLY <2>1, <2>2, <2>7
  <2>9. \A i \in 1..n - 1 : Follows(S[i].op, S[i + 1].op)
    BY <2>4, <2>5
  <2> QED BY <1>2, <2>6, <2>8, <2>9, OrderlyFrom
<1>5. CASE args[1] = "le-scan"
  <2>1. Len(S) = 6
    BY <1>5 DEF Shape
  <2>2. /\ S[2].op = "SET_POWERED on" /\ S[3].op = "SET_LE"
        /\ S[4].op = "START le" /\ S[5].op = "listen"
    BY <1>1, <1>5, StepOps DEF Shape
  <2>3. S[6].op = "STOP"
    BY <1>1, <1>5, StepOps DEF Shape
  <2>4. /\ Follows(S[1].op, S[2].op) /\ Follows(S[2].op, S[3].op)
        /\ Follows(S[3].op, S[4].op) /\ Follows(S[4].op, S[5].op)
        /\ Follows(S[5].op, S[6].op)
    BY <1>2, <2>2, <2>3, Following
  <2>5. \A i \in 1..5 : Follows(S[i].op, S[i + 1].op)
    <3> SUFFICES ASSUME NEW i \in 1..5 PROVE Follows(S[i].op, S[i + 1].op)
      OBVIOUS
    <3> QED BY ONLY <2>4, i \in 1..5
  <2>6. PICK n \in Nat : n = 6
    OBVIOUS
  <2>7. n >= 2 /\ Len(S) = n
    BY <2>1, <2>6
  <2>8. S[n].op = S[6].op
    BY <2>6, Zenon
  <2>9. S[n].op \notin {"listen", "START br-edr", "START le"}
    BY ONLY <2>1, <2>2, <2>3, <2>8
  <2>10. \A i \in 1..n - 1 : Follows(S[i].op, S[i + 1].op)
    BY <2>5, <2>6
  <2> QED BY <1>2, <2>7, <2>9, <2>10, OrderlyFrom
<1>6. CASE args[1] = "coexist"
  <2>1. Len(S) = 10
    BY <1>6 DEF Shape
  <2>2. /\ S[2].op = "SET_POWERED on" /\ S[3].op = "START br-edr"
        /\ S[4].op = "listen" /\ S[5].op = "STOP"
    BY <1>1, <1>6, StepOps DEF Shape
  <2>3. /\ S[6].op = "SET_POWERED on" /\ S[7].op = "SET_LE"
        /\ S[8].op = "START le" /\ S[9].op = "listen"
        /\ S[10].op = "STOP"
    BY <1>1, <1>6, StepOps DEF Shape
  <2>4. /\ Follows(S[1].op, S[2].op) /\ Follows(S[2].op, S[3].op)
        /\ Follows(S[3].op, S[4].op) /\ Follows(S[4].op, S[5].op)
        /\ Follows(S[5].op, S[6].op) /\ Follows(S[6].op, S[7].op)
        /\ Follows(S[7].op, S[8].op) /\ Follows(S[8].op, S[9].op)
        /\ Follows(S[9].op, S[10].op)
    BY <1>2, <2>2, <2>3, Following
  <2>5. \A i \in 1..9 : Follows(S[i].op, S[i + 1].op)
    <3> SUFFICES ASSUME NEW i \in 1..9 PROVE Follows(S[i].op, S[i + 1].op)
      OBVIOUS
    <3> QED BY ONLY <2>4, i \in 1..9
  <2>6. PICK n \in Nat : n = 10
    OBVIOUS
  <2>7. n >= 2 /\ Len(S) = n
    BY <2>1, <2>6
  <2>8. S[n].op = S[10].op
    BY <2>6, Zenon
  <2>9. S[n].op \notin {"listen", "START br-edr", "START le"}
    BY ONLY <2>1, <2>2, <2>3, <2>8
  <2>10. \A i \in 1..n - 1 : Follows(S[i].op, S[i + 1].op)
    BY <2>5, <2>6
  <2> QED BY <1>2, <2>7, <2>9, <2>10, OrderlyFrom
<1> QED BY <1>1, <1>3, <1>4, <1>5, <1>6 DEF Bt!BtPrograms

(* The script of the invocation that runs.                                 *)
LEMMA ScriptFacts ==
  ASSUME btArgs \in Arguments
  PROVE  Shape(btArgs, Bt!Script) /\ Orderly(Bt!Script)
<1>1. Bt!Script = Bt!ScriptOf(btArgs)
  BY DEF Bt!Script, Bt!Scripts
<1> QED BY <1>1, Shapes, ScriptsOrderly

(* Its present step, and the next one.                                     *)
LEMMA NowFacts ==
  ASSUME btArgs \in Arguments, btAt \in 1..Len(Bt!Script)
  PROVE  /\ Len(Bt!Script) \in Nat /\ Len(Bt!Script) >= 2
         /\ Bt!Now.op \in Bt!Operations \cup {"listen"}
         /\ Bt!Now.op = "listen" => Bt!Now.seconds \in Int
         /\ btAt = 1 => Bt!Now.op = "READ_INDEX_LIST"
         /\ btAt = Len(Bt!Script) => Bt!Now.op # "listen" /\ ~Bt!Starts(Bt!Now.op)
         /\ btAt # Len(Bt!Script) =>
              /\ btAt + 1 \in 1..Len(Bt!Script)
              /\ Bt!Script[btAt + 1].op \in Bt!Operations \cup {"listen"}
              /\ Follows(Bt!Now.op, Bt!Script[btAt + 1].op)
<1>1. PICK S : S = Bt!Script
  OBVIOUS
<1>2. Orderly(S)
  BY <1>1, ScriptFacts
<1>3. ASSUME NEW x \in Steps
      PROVE  x.op \in Bt!Operations \cup {"listen"} /\ (x.op = "listen" => x.seconds \in Int)
  BY DEF Steps, Bt!Operations
<1>4. /\ Len(S) \in Nat /\ Len(S) >= 2 /\ S[btAt] \in Steps
      /\ btAt # Len(S) => btAt + 1 \in 1..Len(S) /\ S[btAt + 1] \in Steps
  BY <1>1, <1>2 DEF Orderly
<1>5. Bt!Now = S[btAt]
  BY <1>1 DEF Bt!Now
<1> QED BY <1>1, <1>2, <1>3, <1>4, <1>5 DEF Orderly

-----------------------------------------------------------------------------
(* What a step of the Bluetooth client, or of the kernel, does to its state.*)

BtStep ==
  \/ Bt!Program \/ Bt!Kernel \/ Bt!Interrupt
  \/ btDoing = "exited" /\ Bt!Reaped
  \/ \E args \in Arguments : Bt!Start(args)
  \/ UNCHANGED btVars

(* Sequences of messages.                                                  *)
Delivered(s, q, m) ==
  /\ s \in Seq(Bt!Messages) /\ Len(s) = Len(q) + 1 /\ s[Len(q) + 1] = m
  /\ \A i \in 1..Len(q) : s[i] = q[i]
Taken(s, q) ==
  /\ s \in Seq(Bt!Messages) /\ Len(q) > 0 /\ Len(s) = Len(q) - 1 /\ Head(q) = q[1]
  /\ \A i \in 1..Len(s) : s[i] = q[i + 1]

LEMMA Delivering ==
  ASSUME NEW q \in Seq(Bt!Messages), NEW m \in Bt!Messages, NEW s, s = Append(q, m)
  PROVE  Delivered(s, q, m)
BY DEF Delivered

LEMMA Taking ==
  ASSUME NEW q \in Seq(Bt!Messages), q # <<>>, NEW s, s = Tail(q)
  PROVE  Taken(s, q)
BY DEF Taken

(* A program that goes on is at its next step, or has ended well.          *)
LEMMA ProceedFacts ==
  ASSUME btArgs \in Arguments, btAt \in 1..Len(Bt!Script), Bt!Proceed, btArgs' = btArgs
  PROVE  /\ Bt!Script' = Bt!Script
         /\ btAt' \in 1..Len(Bt!Script)
         /\ \/ /\ btAt = Len(Bt!Script) /\ btDoing' = "exited" /\ btStatus' = 0
               /\ btAt' = btAt /\ elapsed' = elapsed
               /\ Bt!Now.op # "listen" /\ ~Bt!Starts(Bt!Now.op)
            \/ /\ btAt' = btAt + 1 /\ elapsed' = 0 /\ btStatus' = btStatus
               /\ btDoing' = (IF Bt!Now'.op = "listen" THEN "listen" ELSE "send")
               /\ Follows(Bt!Now.op, Bt!Now'.op)
<1>1. Bt!Script' = Bt!Script
  BY DEF Bt!Script, Bt!Scripts
<1>2. CASE btAt = Len(Bt!Script)
  BY <1>1, <1>2, NowFacts DEF Bt!Proceed, Bt!exit
<1>3. CASE btAt # Len(Bt!Script)
  <2>1. btAt' = btAt + 1 /\ elapsed' = 0 /\ btStatus' = btStatus
    BY <1>3 DEF Bt!Proceed
  <2>2. Bt!Now' = Bt!Script[btAt + 1]
    BY <1>1, <2>1 DEF Bt!Now
  <2>3. btDoing' = (IF Bt!Now'.op = "listen" THEN "listen" ELSE "send")
    BY <1>3, <2>2 DEF Bt!Proceed
  <2> QED BY <1>1, <1>3, <2>1, <2>2, <2>3, NowFacts
<1> QED BY <1>2, <1>3

(* A step that stays where it is.                                          *)
LEMMA StayFacts ==
  ASSUME btArgs' = btArgs, btAt' = btAt
  PROVE  Bt!Script' = Bt!Script /\ Bt!Now' = Bt!Now
BY DEF Bt!Script, Bt!Scripts, Bt!Now

LEMMA Begins ==
  ASSUME btArgs' \in Arguments, btAt' = 1
  PROVE  btAt' \in 1..Len(Bt!Script') /\ Bt!Now'.op = "READ_INDEX_LIST"
<1>1. PICK S : S = Bt!ScriptOf(btArgs')
  OBVIOUS
<1>2. Orderly(S)
  BY <1>1, Shapes, ScriptsOrderly
<1>3. Bt!Script' = S
  BY <1>1 DEF Bt!Script, Bt!Scripts
<1>4. Bt!Now' = S[1]
  BY <1>3 DEF Bt!Now
<1> QED BY <1>2, <1>3, <1>4 DEF Orderly

LEMMA SomeArguments == (CHOOSE args \in Arguments : TRUE) \in Arguments
BY ScriptAssumption

BtConstants == MaxEvents \in Nat /\ MaxErrors \in Nat /\ MaxOrphans \in Nat /\ U32 \in Nat /\ U32 > 1000

LEMMA BtConstantsTyped == BtConstants
BY ToolsAssumption DEF Bt!BtAssumption, BtConstants

LEMMA ProgramTypesProceed ==
  ASSUME ProgramTypes, btDoing # "exited", Bt!Proceed, btArgs' = btArgs,
         devices' \in Nat, listened' \in Nat
  PROVE  ProgramTypes'
<1>1. U32 \in Nat /\ U32 > 1000
  BY BtConstantsTyped DEF BtConstants
<1> QED BY <1>1, ProceedFacts DEF ProgramTypes

LEMMA ProgramTypesStay ==
  ASSUME ProgramTypes, btArgs' = btArgs, btAt' = btAt,
         btDoing' \in {"send", "await", "listen", "exited"}, btStatus' \in {0, 1, 130},
         btDoing' = "listen" => btDoing = "listen",
         btDoing = "listen" => btDoing' \in {"listen", "exited"},
         btDoing = "exited" => btDoing' = "exited",
         elapsed' \in 0..U32 - 1, devices' \in Nat, listened' \in Nat
  PROVE  ProgramTypes'
BY StayFacts DEF ProgramTypes

LEMMA ProgramTypesFail ==
  ASSUME ProgramTypes, btDoing # "exited", Bt!Fails, btArgs' = btArgs,
         devices' \in Nat, listened' \in Nat
  PROVE  ProgramTypes'
<1>1. CASE Bt!Now.op = "STOP"
  BY <1>1, ProgramTypesProceed DEF Bt!Fails
<1>2. CASE Bt!Now.op # "STOP"
  <2>1. Bt!exit(1)
    BY <1>2 DEF Bt!Fails
  <2> QED BY <2>1, ProgramTypesStay DEF Bt!exit, ProgramTypes
<1> QED BY <1>1, <1>2

LEMMA ProgramTypesBegin ==
  ASSUME btArgs' \in Arguments, btAt' = 1, btDoing' \in {"send", "exited"}, btStatus' = 0,
         elapsed' = 0, devices' = 0, listened' = 0
  PROVE  ProgramTypes'
BY Begins, BtConstantsTyped DEF ProgramTypes, BtConstants

LEMMA PassTyped ==
  ASSUME ProgramTypes, Bt!Pass
  PROVE  elapsed' \in 0..U32 - 1 /\ listened' \in Nat
BY BtConstantsTyped DEF ProgramTypes, BtConstants, Bt!Pass

(* Every step keeps the types.                                             *)
LEMMA ProgramTypesKept ==
  ASSUME BtTypes, BtStep PROVE ProgramTypes'
<1> USE DEF BtTypes
<1>1. CASE Bt!CannotOpen
  BY <1>1, ProgramTypesStay DEF Bt!CannotOpen, Bt!exit, ProgramTypes
<1>2. CASE Bt!send_cmd
  BY <1>2, ProgramTypesStay DEF Bt!send_cmd, Bt!AfterSend, ProgramTypes
<1>3. CASE Bt!CannotSend
  BY <1>3, ProgramTypesStay DEF Bt!CannotSend, Bt!exit, ProgramTypes
<1>4. CASE Bt!command_reply
  <2>1. btArgs' = btArgs /\ devices' \in Nat /\ listened' \in Nat /\ btDoing = "await"
    BY <1>4 DEF Bt!command_reply, ProgramTypes
  <2>2. CASE UNCHANGED <<btAt, btDoing, btStatus, elapsed>>
    BY <2>1, <2>2, ProgramTypesStay DEF ProgramTypes
  <2>3. CASE Bt!Proceed
    BY <2>1, <2>3, ProgramTypesProceed
  <2>4. CASE Bt!Fails
    BY <2>1, <2>4, ProgramTypesFail
  <2> QED BY <1>4, <2>2, <2>3, <2>4 DEF Bt!command_reply
<1>5. CASE Bt!reply_timeout
  BY <1>5, ProgramTypesFail DEF Bt!reply_timeout, ProgramTypes
<1>6. CASE Bt!listen_read
  BY <1>6, PassTyped, ProgramTypesStay DEF Bt!listen_read, ProgramTypes
<1>7. CASE Bt!listen_timeout
  BY <1>7, PassTyped, ProgramTypesStay DEF Bt!listen_timeout, ProgramTypes
<1>8. CASE Bt!listen_end
  BY <1>8, ProgramTypesProceed DEF Bt!listen_end, ProgramTypes
<1>9. CASE Bt!Interrupt
  BY <1>9, ProgramTypesStay DEF Bt!Interrupt, Bt!exit, ProgramTypes
<1>10. CASE Bt!Reaped
  BY <1>10, ProgramTypesBegin, SomeArguments DEF Bt!Reaped
<1>11. CASE \E args \in Arguments : Bt!Start(args)
  BY <1>11, ProgramTypesBegin DEF Bt!Start
<1>12. CASE Bt!Kernel \/ UNCHANGED btVars
  <2>1. UNCHANGED <<btArgs, btAt, btDoing, btStatus, elapsed, devices, listened>>
    BY <1>12 DEF Bt!Kernel, Bt!Complete, Bt!Reject, Bt!Answer, Bt!DeviceFound, Bt!OtherEvent,
                 Bt!DiscoveryEnds, Bt!Event, Bt!program, btVars
  <2> QED BY <2>1, ProgramTypesStay DEF ProgramTypes
<1> QED BY <1>1, <1>2, <1>3, <1>4, <1>5, <1>6, <1>7, <1>8, <1>9, <1>10, <1>11, <1>12
        DEF BtStep, Bt!Program

(* What a request that is carried out makes of the controller.             *)
LEMMA EffectTyped ==
  ASSUME SettingTypes, NEW r \in Bt!Requests, Bt!Effect(r)
  PROVE  powered' \in BOOLEAN /\ le' \in BOOLEAN /\ own' \in BOOLEAN
         /\ discovery' \in {"none", "br-edr", "le"}
<1>1. powered' \in BOOLEAN /\ le' \in BOOLEAN
  BY DEF Bt!Effect
<1>2. own' \in BOOLEAN
  <2>1. CASE Bt!Starts(r.op)
    BY <2>1 DEF Bt!Effect, Bt!Requests
  <2>2. CASE ~Bt!Starts(r.op)
    BY <2>2 DEF Bt!Effect
  <2> QED BY <2>1, <2>2
<1>3. discovery' \in {"none", "br-edr", "le"}
  BY DEF Bt!Effect, Bt!Type, SettingTypes
<1> QED BY <1>1, <1>2, <1>3

LEMMA SettingTypesKept ==
  ASSUME BtTypes, BtStep PROVE SettingTypes'
<1> USE BtConstantsTyped DEF BtTypes, BtConstants
<1>1. CASE Bt!send_cmd
  BY <1>1 DEF SettingTypes, Bt!send_cmd
<1>2. CASE Bt!CannotOpen \/ Bt!CannotSend
  BY <1>2 DEF SettingTypes, Bt!CannotOpen, Bt!CannotSend, Bt!settings, Bt!Error
<1>3. CASE Bt!command_reply \/ Bt!reply_timeout \/ Bt!listen_read \/ Bt!listen_timeout
           \/ Bt!listen_end \/ Bt!Interrupt
  BY <1>3 DEF SettingTypes, Bt!command_reply, Bt!reply_timeout, Bt!listen_read,
     Bt!listen_timeout, Bt!listen_end, Bt!Interrupt, Bt!settings
<1>4. CASE Bt!Reaped \/ \E args \in Arguments : Bt!Start(args)
  BY <1>4 DEF SettingTypes, Bt!Reaped, Bt!Start
<1>5. CASE Bt!Kernel
  <2>1. CASE \E r \in pending : Bt!Complete(r)
    <3>1. PICK r \in pending : Bt!Complete(r)
      BY <2>1
    <3>2. r \in Bt!Requests
      BY DEF ChannelTypes
    <3> QED BY <3>1, <3>2, EffectTyped DEF Bt!Complete, Bt!Answer, SettingTypes
  <2>2. CASE \E r \in pending : Bt!Reject(r)
    BY <2>2 DEF Bt!Reject, Bt!Answer, SettingTypes, Bt!settings, Bt!Error, Bt!program
  <2>3. ASSUME NEW m, Bt!Event(m)
        PROVE  btEvents' \in 0..MaxEvents /\ btErrors' \in 0..MaxErrors
    BY <2>3 DEF Bt!Event, SettingTypes
  <2>4. CASE Bt!DeviceFound \/ Bt!OtherEvent
    <3>1. btEvents' \in 0..MaxEvents /\ btErrors' \in 0..MaxErrors
      BY <2>3, <2>4 DEF Bt!DeviceFound, Bt!OtherEvent
    <3> QED BY <2>4, <3>1 DEF Bt!DeviceFound, Bt!OtherEvent, SettingTypes, Bt!settings
  <2>5. CASE Bt!DiscoveryEnds
    <3>1. btEvents' \in 0..MaxEvents /\ btErrors' \in 0..MaxErrors
      BY <2>3, <2>5 DEF Bt!DiscoveryEnds
    <3> QED BY <2>5, <3>1 DEF Bt!DiscoveryEnds, SettingTypes
  <2> QED BY <1>5, <2>1, <2>2, <2>4, <2>5 DEF Bt!Kernel
<1>6. CASE UNCHANGED btVars
  BY <1>6 DEF SettingTypes, btVars
<1> QED BY <1>1, <1>2, <1>3, <1>4, <1>5, <1>6 DEF BtStep, Bt!Program

(* What is on the socket, after each kind of step.                         *)
OnSocket ==
  \/ socket' = socket
  \/ socket' = <<>>
  \/ Taken(socket', socket)
  \/ \E m \in Bt!Messages : Delivered(socket', socket, m)

LEMMA MessagesTyped ==
  /\ \A e \in {"status", "complete"}, o \in Bt!Operations,
        ok \in BOOLEAN, last \in BOOLEAN, mine \in BOOLEAN :
       Bt!Message(e, o, ok, last, mine) \in Bt!Messages
  /\ \A e \in {"found", "other"}, mine \in BOOLEAN :
       Bt!Message(e, "none", TRUE, FALSE, mine) \in Bt!Messages
BY DEF Bt!Message, Bt!Messages

(* The kernel's answer to a request, if its program still runs.            *)
LEMMA AnswerFacts ==
  ASSUME BtTypes, NEW r \in pending, NEW e \in {"status", "complete"}, NEW ok \in BOOLEAN,
         Bt!Answer(r, e, ok)
  PROVE  /\ pending' = pending \ {r} /\ r \in Bt!Requests
         /\ Bt!Message(e, r.op, ok, r.last, FALSE) \in Bt!Messages
         /\ IF r.live /\ btDoing # "exited"
            THEN Delivered(socket', socket, Bt!Message(e, r.op, ok, r.last, FALSE))
            ELSE socket' = socket
         /\ UNCHANGED <<btArgs, btAt, btDoing, btStatus, elapsed, devices, listened, btEvents>>
<1>1. r \in Bt!Requests
  BY DEF BtTypes, ChannelTypes
<1>2. Bt!Message(e, r.op, ok, r.last, FALSE) \in Bt!Messages
  BY <1>1, MessagesTyped DEF Bt!Requests
<1>3. socket \in Seq(Bt!Messages)
  BY DEF BtTypes, ChannelTypes
<1>4. CASE r.live /\ btDoing # "exited"
  <2>1. socket' = Append(socket, Bt!Message(e, r.op, ok, r.last, FALSE))
    BY <1>4 DEF Bt!Answer, Bt!Deliver
  <2>2. Delivered(socket', socket, Bt!Message(e, r.op, ok, r.last, FALSE))
    BY <1>2, <1>3, <2>1, Delivering, Zenon
  <2> QED BY <1>1, <1>2, <1>4, <2>2 DEF Bt!Answer, Bt!program
<1>5. CASE ~(r.live /\ btDoing # "exited")
  BY <1>1, <1>2, <1>5 DEF Bt!Answer, Bt!Deliver, Bt!program
<1> QED BY <1>4, <1>5

LEMMA EventFacts ==
  ASSUME BtTypes, NEW m \in Bt!Messages, Bt!Event(m)
  PROVE  /\ IF btDoing # "exited" THEN Delivered(socket', socket, m) ELSE socket' = socket
         /\ pending' = pending /\ btEvents' = btEvents + 1
         /\ UNCHANGED <<btArgs, btAt, btDoing, btStatus, elapsed, devices, listened>>
<1>1. socket \in Seq(Bt!Messages)
  BY DEF BtTypes, ChannelTypes
<1>2. CASE btDoing # "exited"
  <2>1. socket' = Append(socket, m)
    BY <1>2 DEF Bt!Event, Bt!Deliver
  <2>2. Delivered(socket', socket, m)
    BY <1>1, <2>1, Delivering, Zenon
  <2> QED BY <1>2, <2>2 DEF Bt!Event, Bt!program
<1>3. CASE btDoing = "exited"
  BY <1>3 DEF Bt!Event, Bt!Deliver, Bt!program
<1> QED BY <1>2, <1>3

(* The message a step reads.                                               *)
LEMMA ReadFacts ==
  ASSUME BtTypes, socket # <<>>, socket' = Tail(socket)
  PROVE  Taken(socket', socket) /\ socket[1] \in Bt!Messages /\ Head(socket) = socket[1]
<1>1. socket \in Seq(Bt!Messages)
  BY DEF BtTypes, ChannelTypes
<1>2. Taken(socket', socket)
  BY <1>1, Taking, Zenon
<1> QED BY <1>1, <1>2 DEF Taken

(* What a request makes of the messages that are on their way.             *)
Marked(s, q, starts) ==
  /\ s \in Seq(Bt!Messages) /\ Len(s) = Len(q)
  /\ \A i \in 1..Len(q) : /\ s[i].event = q[i].event /\ s[i].op = q[i].op /\ s[i].ok = q[i].ok
                          /\ s[i].last = FALSE /\ s[i].own = (q[i].own /\ ~starts)

LEMMA SendFacts ==
  ASSUME BtTypes, Bt!send_cmd
  PROVE  /\ Marked(socket', socket, Bt!Starts(Bt!Now.op))
         /\ pending' = {Bt!Superseded(r) : r \in pending}
                       \cup {[op |-> Bt!Now.op, live |-> TRUE, last |-> TRUE]}
         /\ pending' \subseteq Bt!Requests
         /\ btDoing = "send" /\ btDoing' = "await" /\ Bt!Now.op \in Bt!Operations
         /\ UNCHANGED <<btArgs, btAt, btStatus, elapsed, devices, listened, powered, le,
                        discovery, btEvents, btErrors>>
         /\ own' = (own /\ ~Bt!Starts(Bt!Now.op))
<1>1. Bt!Now.op \in Bt!Operations
  BY NowFacts DEF BtTypes, ProgramTypes, Bt!send_cmd
<1>2. socket \in Seq(Bt!Messages) /\ pending \subseteq Bt!Requests
  BY DEF BtTypes, ChannelTypes
<1>3. PICK starts : starts = Bt!Starts(Bt!Now.op)
  OBVIOUS
<1>4. socket' = [i \in 1..Len(socket) |-> [Bt!Superseded(socket[i]) EXCEPT !.own = @ /\ ~starts]]
  BY <1>3 DEF Bt!send_cmd
<1>5. ASSUME NEW m \in Bt!Messages
      PROVE  LET n == [Bt!Superseded(m) EXCEPT !.own = @ /\ ~starts] IN
             /\ n \in Bt!Messages /\ n.event = m.event /\ n.op = m.op /\ n.ok = m.ok
             /\ n.last = FALSE /\ n.own = (m.own /\ ~starts)
  BY DEF Bt!Superseded, Bt!Messages
<1>6. Len(socket) \in Nat /\ \A i \in 1..Len(socket) : socket[i] \in Bt!Messages
  BY <1>2
<1>7. Marked(socket', socket, starts)
  <2>1. socket' \in [1..Len(socket) -> Bt!Messages]
    BY <1>4, <1>5, <1>6
  <2>2. socket' \in Seq(Bt!Messages) /\ Len(socket') = Len(socket)
    BY <1>6, <2>1
  <2>3. \A i \in 1..Len(socket) :
          /\ socket'[i].event = socket[i].event /\ socket'[i].op = socket[i].op
          /\ socket'[i].ok = socket[i].ok /\ socket'[i].last = FALSE
          /\ socket'[i].own = (socket[i].own /\ ~starts)
    BY <1>4, <1>5, <1>6
  <2> QED BY <2>2, <2>3 DEF Marked
<1>8. pending' \subseteq Bt!Requests
  <2>1. \A r \in Bt!Requests : Bt!Superseded(r) \in Bt!Requests
    BY DEF Bt!Superseded, Bt!Requests
  <2>2. [op |-> Bt!Now.op, live |-> TRUE, last |-> TRUE] \in Bt!Requests
    BY <1>1 DEF Bt!Requests
  <2> QED BY <1>2, <2>1, <2>2 DEF Bt!send_cmd
<1>9. Marked(socket', socket, Bt!Starts(Bt!Now.op))
  BY <1>3, <1>7, Zenon
<1> QED BY <1>1, <1>8, <1>9 DEF Bt!send_cmd, Bt!AfterSend

LEMMA OrphanedTyped ==
  ASSUME ChannelTypes PROVE Bt!Orphaned \subseteq Bt!Requests
                            /\ \A r \in Bt!Orphaned : r.live = FALSE /\ r.last = FALSE
<1>1. \A q \in pending : q \in Bt!Requests
  BY DEF ChannelTypes
<1>2. \A q \in Bt!Requests :
        LET r == [q EXCEPT !.live = FALSE, !.last = FALSE] IN
        r \in Bt!Requests /\ r.live = FALSE /\ r.last = FALSE
  BY DEF Bt!Requests
<1> QED BY <1>1, <1>2 DEF Bt!Orphaned

(* A new process begins with an empty socket, without requests of its own. *)
LEMMA BeginFacts ==
  ASSUME BtTypes, Bt!Reaped \/ \E args \in Arguments : Bt!Start(args)
  PROVE  /\ socket' = <<>> /\ pending' \subseteq Bt!Requests
         /\ \A r \in pending' : r.live = FALSE /\ r.last = FALSE
         /\ btArgs' \in Arguments /\ btAt' = 1 /\ btDoing' \in {"send", "exited"} /\ btStatus' = 0
         /\ elapsed' = 0 /\ devices' = 0 /\ listened' = 0 /\ own' = FALSE
         /\ UNCHANGED <<powered, le, discovery, btEvents, btErrors>>
BY SomeArguments, OrphanedTyped DEF Bt!Reaped, Bt!Start, BtTypes

(* The kernel's steps: an answer or an event.                              *)
LEMMA KernelFacts ==
  ASSUME BtTypes, Bt!Kernel
  PROVE  /\ \/ \E r \in pending, e \in {"status", "complete"}, ok \in BOOLEAN : Bt!Answer(r, e, ok)
            \/ \E m \in Bt!Messages : Bt!Event(m) /\ m.event \in {"found", "other"}
         /\ UNCHANGED <<btArgs, btAt, btDoing, btStatus, elapsed, devices, listened>>
<1>1. CASE \E r \in pending : Bt!Complete(r) \/ Bt!Reject(r)
  <2>1. \E r \in pending, e \in {"status", "complete"}, ok \in BOOLEAN : Bt!Answer(r, e, ok)
    BY <1>1 DEF Bt!Complete, Bt!Reject
  <2> QED BY <2>1, AnswerFacts
<1>2. CASE Bt!DeviceFound \/ Bt!OtherEvent \/ Bt!DiscoveryEnds
  <2>1. \E m \in Bt!Messages : Bt!Event(m) /\ m.event \in {"found", "other"}
    <3>1. own \in BOOLEAN
      BY DEF BtTypes, SettingTypes
    <3>2. Bt!Message("found", "none", TRUE, FALSE, own) \in Bt!Messages
          /\ Bt!Message("other", "none", TRUE, FALSE, FALSE) \in Bt!Messages
      BY <3>1, MessagesTyped
    <3>3. Bt!Message("found", "none", TRUE, FALSE, own).event = "found"
          /\ Bt!Message("other", "none", TRUE, FALSE, FALSE).event = "other"
      BY DEF Bt!Message
    <3> QED BY <1>2, <3>2, <3>3 DEF Bt!DeviceFound, Bt!OtherEvent, Bt!DiscoveryEnds
  <2> QED BY <2>1, EventFacts
<1> QED BY <1>1, <1>2 DEF Bt!Kernel

LEMMA ChannelTypesKept ==
  ASSUME BtTypes, BtStep PROVE ChannelTypes'
<1>1. socket \in Seq(Bt!Messages) /\ pending \subseteq Bt!Requests
  BY DEF BtTypes, ChannelTypes
<1>2. CASE Bt!send_cmd
  <2>1. Marked(socket', socket, Bt!Starts(Bt!Now.op)) /\ pending' \subseteq Bt!Requests
    BY <1>2, SendFacts, Zenon
  <2> QED BY <2>1 DEF Marked, ChannelTypes
<1>3. CASE Bt!CannotOpen \/ Bt!CannotSend \/ Bt!reply_timeout \/ Bt!listen_timeout
           \/ Bt!listen_end \/ Bt!Interrupt
  BY <1>1, <1>3 DEF ChannelTypes, Bt!CannotOpen, Bt!CannotSend, Bt!reply_timeout,
     Bt!listen_timeout, Bt!listen_end, Bt!Interrupt
<1>4. CASE Bt!command_reply \/ Bt!listen_read
  <2>1. Taken(socket', socket) /\ pending' = pending
    BY <1>4, ReadFacts DEF Bt!command_reply, Bt!listen_read
  <2> QED BY <1>1, <2>1 DEF ChannelTypes, Taken
<1>5. CASE Bt!Reaped \/ \E args \in Arguments : Bt!Start(args)
  <2>1. <<>> \in Seq(Bt!Messages)
    OBVIOUS
  <2> QED BY <1>5, <2>1, BeginFacts DEF ChannelTypes
<1>6. CASE Bt!Kernel
  <2>1. CASE \E r \in pending, e \in {"status", "complete"}, ok \in BOOLEAN : Bt!Answer(r, e, ok)
    BY <1>1, <2>1, AnswerFacts DEF ChannelTypes, Delivered
  <2>2. CASE \E m \in Bt!Messages : Bt!Event(m)
    BY <1>1, <2>2, EventFacts DEF ChannelTypes, Delivered
  <2> QED BY <1>6, <2>1, <2>2, KernelFacts
<1>7. CASE UNCHANGED btVars
  BY <1>1, <1>7 DEF ChannelTypes, btVars
<1> QED BY <1>2, <1>3, <1>4, <1>5, <1>6, <1>7 DEF BtStep, Bt!Program

LEMMA BtTypesKept ==
  ASSUME BtTypes, BtStep PROVE BtTypes'
BY ProgramTypesKept, ChannelTypesKept, SettingTypesKept DEF BtTypes

-----------------------------------------------------------------------------
(* The devices counted.                                                    *)

LEMMA FoundFinite ==
  ASSUME NEW q \in Seq(Bt!Messages)
  PROVE  IsFiniteSet(Found(q)) /\ Cardinality(Found(q)) \in Nat
<1>1. Len(q) \in Nat /\ Found(q) \in SUBSET (1..Len(q))
  BY DEF Found
<1>2. IsFiniteSet(1..Len(q))
  BY <1>1, FS_Interval
<1> QED BY <1>1, <1>2, FS_Subset, FS_CardinalityType

(* A message that is delivered adds at most one to the devices on their way,*)
(* and one that is read takes its own away.                                *)
LEMMA FoundDelivered ==
  ASSUME NEW q \in Seq(Bt!Messages), NEW m, NEW s, Delivered(s, q, m)
  PROVE  Cardinality(Found(s)) <= Cardinality(Found(q)) + (IF m.event = "found" THEN 1 ELSE 0)
<1>1. IsFiniteSet(Found(q)) /\ Cardinality(Found(q)) \in Nat /\ Len(q) \in Nat
  BY FoundFinite
<1>2. CASE m.event = "found"
  <2>1. Found(s) = Found(q) \cup {Len(q) + 1}
    BY <1>1, <1>2 DEF Found, Delivered
  <2>2. Cardinality(Found(q) \cup {Len(q) + 1})
          = IF Len(q) + 1 \in Found(q) THEN Cardinality(Found(q)) ELSE Cardinality(Found(q)) + 1
    BY <1>1, FS_AddElement
  <2>3. Cardinality(Found(s)) = Cardinality(Found(q) \cup {Len(q) + 1})
    BY <2>1, Zenon
  <2> QED BY <1>1, <1>2, <2>2, <2>3
<1>3. CASE m.event # "found"
  <2>1. Found(s) = Found(q)
    BY <1>1, <1>3 DEF Found, Delivered
  <2> QED BY <1>1, <1>3, <2>1
<1> QED BY <1>2, <1>3

LEMMA FoundTaken ==
  ASSUME NEW q \in Seq(Bt!Messages), NEW s, Taken(s, q)
  PROVE  Cardinality(Found(s)) + (IF q[1].event = "found" THEN 1 ELSE 0) <= Cardinality(Found(q))
<1> DEFINE T == Found(q) \ {1}
           f == [i \in Found(s) |-> i + 1]
<1>1. IsFiniteSet(Found(q)) /\ Cardinality(Found(q)) \in Nat
  BY FoundFinite
<1>2. IsFiniteSet(T) /\ Cardinality(T) = IF 1 \in Found(q) THEN Cardinality(Found(q)) - 1
                                                          ELSE Cardinality(Found(q))
  BY <1>1, FS_RemoveElement
<1>3. 1 \in Found(q) <=> q[1].event = "found"
  BY DEF Found, Taken
<1>4. f \in Injection(Found(s), T)
  <2>1. \A i \in Found(s) : i \in Nat /\ i + 1 \in T
    BY DEF Found, Taken
  <2>2. f \in [Found(s) -> T]
    BY <2>1
  <2>3. \A i \in Found(s), j \in Found(s) : f[i] = f[j] => i = j
    BY <2>1
  <2> QED BY <2>2, <2>3 DEF Injection, IsInjective
<1>5. Cardinality(Found(s)) <= Cardinality(T)
  <2> HIDE DEF T, f
  <2> QED BY <1>2, <1>4, FS_Injection
<1>6. Cardinality(Found(s)) \in Nat
  BY FoundFinite DEF Taken
<1> QED BY <1>1, <1>2, <1>3, <1>5, <1>6

LEMMA FoundNone == Cardinality(Found(<<>>)) = 0
<1>1. Found(<<>>) = {}
  BY DEF Found
<1> QED BY <1>1, FS_EmptySet

LEMMA FoundInvKept ==
  ASSUME BtTypes, FoundInv, BtStep PROVE FoundInv'
<1>1. /\ socket \in Seq(Bt!Messages) /\ devices \in Nat /\ btEvents \in Nat
      /\ Cardinality(Found(socket)) \in Nat
  BY FoundFinite, BtConstantsTyped DEF BtTypes, ProgramTypes, ChannelTypes, SettingTypes, BtConstants
<1>2. CASE Bt!send_cmd
  <2>1. Marked(socket', socket, Bt!Starts(Bt!Now.op)) /\ devices' = devices /\ btEvents' = btEvents
    BY <1>2, SendFacts, Zenon
  <2>2. Found(socket') = Found(socket)
    BY <2>1 DEF Found, Marked
  <2>3. Cardinality(Found(socket')) = Cardinality(Found(socket))
    BY <2>2, Zenon
  <2> QED BY <2>1, <2>3 DEF FoundInv
<1>3. CASE \/ Bt!CannotOpen \/ Bt!CannotSend \/ Bt!reply_timeout \/ Bt!listen_timeout
           \/ Bt!listen_end \/ Bt!Interrupt \/ UNCHANGED btVars
  BY <1>3 DEF FoundInv, Bt!CannotOpen, Bt!CannotSend, Bt!reply_timeout,
     Bt!listen_timeout, Bt!listen_end, Bt!Interrupt, btVars
<1>4. CASE Bt!command_reply
  <2>1. Taken(socket', socket) /\ devices' = devices /\ btEvents' = btEvents
    BY <1>4, ReadFacts DEF Bt!command_reply
  <2>2. /\ Cardinality(Found(socket')) + (IF socket[1].event = "found" THEN 1 ELSE 0)
             <= Cardinality(Found(socket))
        /\ Cardinality(Found(socket')) \in Nat
    BY <1>1, <2>1, FoundTaken, FoundFinite DEF Taken
  <2> QED BY <1>1, <2>1, <2>2 DEF FoundInv
<1>5. CASE Bt!listen_read
  <2>1. /\ Taken(socket', socket) /\ btEvents' = btEvents
        /\ devices' = devices + (IF socket[1].event = "found" THEN 1 ELSE 0)
    BY <1>5, ReadFacts DEF Bt!listen_read
  <2>2. /\ Cardinality(Found(socket')) + (IF socket[1].event = "found" THEN 1 ELSE 0)
             <= Cardinality(Found(socket))
        /\ Cardinality(Found(socket')) \in Nat
    BY <1>1, <2>1, FoundTaken, FoundFinite DEF Taken
  <2> QED BY <1>1, <2>1, <2>2 DEF FoundInv
<1>6. CASE Bt!Reaped \/ \E args \in Arguments : Bt!Start(args)
  <2>1. socket' = <<>> /\ devices' = 0 /\ btEvents' = btEvents
    BY <1>6, BeginFacts
  <2>2. Cardinality(Found(socket')) = 0
    BY <2>1, FoundNone, Zenon
  <2> QED BY <1>1, <2>1, <2>2 DEF FoundInv
<1>7. CASE Bt!Kernel
  <2>1. ASSUME NEW r \in pending, NEW e \in {"status", "complete"}, NEW ok \in BOOLEAN,
               Bt!Answer(r, e, ok)
        PROVE  FoundInv'
    <3> DEFINE m == Bt!Message(e, r.op, ok, r.last, FALSE)
    <3>1. /\ socket' = socket \/ Delivered(socket', socket, m)
          /\ devices' = devices /\ btEvents' = btEvents
      BY <2>1, AnswerFacts
    <3>2. m.event # "found"
      BY DEF Bt!Message
    <3> HIDE DEF m
    <3>3. Cardinality(Found(socket')) <= Cardinality(Found(socket))
      <4>1. CASE socket' = socket
        BY <1>1, <4>1
      <4>2. CASE Delivered(socket', socket, m)
        BY <1>1, <3>2, <4>2, FoundDelivered
      <4> QED BY <3>1, <4>1, <4>2
    <3>4. Cardinality(Found(socket')) \in Nat
      BY <1>1, <3>1, FoundFinite DEF Delivered
    <3> QED BY <1>1, <3>1, <3>3, <3>4 DEF FoundInv
  <2>2. ASSUME NEW m \in Bt!Messages, Bt!Event(m) PROVE FoundInv'
    <3>1. /\ socket' = socket \/ Delivered(socket', socket, m)
          /\ devices' = devices /\ btEvents' = btEvents + 1
      BY <2>2, EventFacts
    <3>4. Cardinality(Found(socket')) \in Nat
      BY <1>1, <3>1, FoundFinite DEF Delivered
    <3>3. Cardinality(Found(socket')) <= Cardinality(Found(socket)) + 1
      <4>1. CASE socket' = socket
        BY <1>1, <4>1
      <4>2. CASE Delivered(socket', socket, m)
        <5>1. Cardinality(Found(socket'))
                <= Cardinality(Found(socket)) + (IF m.event = "found" THEN 1 ELSE 0)
          BY <1>1, <4>2, FoundDelivered
        <5> QED BY <1>1, <3>4, <5>1
      <4> QED BY <3>1, <4>1, <4>2
    <3> QED BY <1>1, <3>1, <3>3, <3>4 DEF FoundInv
  <2> QED BY <1>7, <2>1, <2>2, KernelFacts
<1> QED BY <1>2, <1>3, <1>4, <1>5, <1>6, <1>7 DEF BtStep, Bt!Program

-----------------------------------------------------------------------------
(* The replies and the devices found that are on their way.                *)

ChannelInv == RepliesInv /\ OnceInv /\ MetInv /\ ListenInv

(* Nothing of this run is under way any more.                              *)
NoneLive ==
  /\ \A r \in pending : ~r.live /\ ~r.last
  /\ \A i \in 1..Len(socket) : ~IsReply(socket[i]) /\ ~socket[i].last

LEMMA NoneLiveWhen ==
  ASSUME BtTypes, RepliesInv,
         \/ btDoing = "listen"
         \/ btDoing = "send" /\ Bt!Now.op = "STOP"
  PROVE  NoneLive
BY DEF RepliesInv, NoneLive, Fits, AfterStop

(* It holds of every process that has just ended, or just begun, and of    *)
(* every one of which nothing is under way.                                *)
LEMMA HeldWhenOver ==
  ASSUME RepliesInv, btDoing' = "exited",
         pending' = pending, socket' = socket \/ Taken(socket', socket)
  PROVE  ChannelInv'
BY DEF ChannelInv, RepliesInv, OnceInv, MetInv, ListenInv, Taken

LEMMA HeldWhenNoneLive ==
  ASSUME NoneLive', btDoing' # "listen", btDoing' = "await" => ~Bt!Starts(Bt!Now'.op)
  PROVE  ChannelInv'
BY DEF ChannelInv, NoneLive, RepliesInv, OnceInv, MetInv, ListenInv

LEMMA HeldAtBegin ==
  ASSUME BtTypes, Bt!Reaped \/ \E args \in Arguments : Bt!Start(args)
  PROVE  ChannelInv'
<1>1. /\ socket' = <<>> /\ btDoing' \in {"send", "exited"}
      /\ \A r \in pending' : r.live = FALSE /\ r.last = FALSE
  BY BeginFacts
<1>2. NoneLive'
  BY <1>1 DEF NoneLive
<1> QED BY <1>1, <1>2, HeldWhenNoneLive

LEMMA HeldAfterSend ==
  ASSUME BtTypes, ChannelInv, Bt!send_cmd
  PROVE  ChannelInv'
<1>1. /\ Marked(socket', socket, Bt!Starts(Bt!Now.op))
      /\ pending' = {Bt!Superseded(r) : r \in pending}
                    \cup {[op |-> Bt!Now.op, live |-> TRUE, last |-> TRUE]}
      /\ btDoing = "send" /\ btDoing' = "await"
      /\ own' = (own /\ ~Bt!Starts(Bt!Now.op))
      /\ Bt!Now' = Bt!Now
  BY SendFacts, StayFacts
<1>2. \A r \in pending : /\ Bt!Superseded(r).last = FALSE /\ Bt!Superseded(r).op = r.op
                         /\ Bt!Superseded(r).live = r.live
  BY DEF Bt!Superseded, BtTypes, ChannelTypes, Bt!Requests
<1>3. \A r \in pending' : \/ r.last = TRUE /\ r.live = TRUE /\ r.op = Bt!Now.op
                          \/ r.last = FALSE /\ \E q \in pending : r.op = q.op /\ r.live = q.live
  BY <1>1, <1>2
<1>4. \A i \in 1..Len(socket') :
        /\ socket'[i].last = FALSE /\ socket'[i].op = socket[i].op
        /\ IsReply(socket'[i]) <=> IsReply(socket[i])
  BY <1>1 DEF Marked, IsReply
<1>5. Len(socket') = Len(socket)
  BY <1>1 DEF Marked
<1>6. /\ \A r \in pending : r.live => r.op = "STOP" /\ Bt!Now.op \in AfterStop
      /\ \A i \in 1..Len(socket) : IsReply(socket[i]) => socket[i].op = "STOP" /\ Bt!Now.op \in AfterStop
  BY <1>1 DEF ChannelInv, RepliesInv, Fits
<1>7. RepliesInv'
  BY <1>1, <1>3, <1>4, <1>5, <1>6 DEF RepliesInv, Fits
<1>8. OnceInv' /\ ListenInv'
  BY <1>1, <1>4 DEF OnceInv, ListenInv
<1>9. MetInv'
  BY <1>1, <1>4 DEF MetInv, MetAt
<1> QED BY <1>7, <1>8, <1>9 DEF ChannelInv

(* The reply that was waited for is read, and the program goes on.         *)
LEMMA HeldAfterReply ==
  ASSUME BtTypes, ChannelInv, btDoing = "await", Taken(socket', socket), pending' = pending,
         Bt!Wanted(socket[1]), socket[1].ok \/ Bt!Now.op = "STOP",
         Bt!Proceed, btArgs' = btArgs, UNCHANGED <<powered, le, discovery, own>>
  PROVE  ChannelInv'
<1>1. IsReply(socket[1]) /\ socket[1].op = Bt!Now.op /\ 1 \in 1..Len(socket)
  BY DEF Bt!Wanted, IsReply, Taken
<1>2. socket[1].last
  BY <1>1 DEF ChannelInv, RepliesInv, Fits, AfterStop
<1>3. \A r \in pending : ~r.last
  BY <1>1, <1>2 DEF ChannelInv, OnceInv
<1>4. \A i \in 1..Len(socket') : socket'[i] = socket[i + 1] /\ i + 1 \in 1..Len(socket) /\ i + 1 # 1
  BY DEF Taken
<1>5. \A i \in 1..Len(socket') : ~socket'[i].last
  BY <1>1, <1>2, <1>4 DEF ChannelInv, OnceInv
<1>6. \/ btDoing' = "exited"
      \/ /\ btDoing' = (IF Bt!Now'.op = "listen" THEN "listen" ELSE "send")
         /\ Follows(Bt!Now.op, Bt!Now'.op)
  BY ProceedFacts DEF BtTypes, ProgramTypes
<1>7. CASE btDoing' = "exited"
  BY <1>7, HeldWhenOver DEF ChannelInv
<1>8. CASE btDoing' # "exited" /\ Bt!Starts(Bt!Now.op)
  <2>1. MetAt(1)
    BY <1>1, <1>2, <1>8 DEF MetAt, Bt!Starts
  <2>2. /\ Calm
        /\ \A j \in 1..Len(socket) : IsReply(socket[j]) => j <= 1
        /\ \A j \in 1..Len(socket) : j > 1 /\ socket[j].event = "found" => socket[j].own
    BY <1>1, <1>8, <2>1 DEF ChannelInv, MetInv
  <2>3. \A i \in 1..Len(socket') : ~IsReply(socket'[i])
    BY <1>4, <2>2
  <2>4. \A r \in pending' : ~r.live
    <3>1. ASSUME NEW r \in pending, r.live PROVE FALSE
      <4>1. r.op = "STOP"
        BY <1>3, <3>1, <1>8 DEF ChannelInv, RepliesInv, Fits
      <4> QED BY <2>2, <4>1 DEF Calm
    <3> QED BY <3>1
  <2>5. RepliesInv' /\ OnceInv' /\ MetInv'
    BY <1>3, <1>5, <1>6, <1>8, <2>3, <2>4 DEF RepliesInv, OnceInv, MetInv
  <2>6. ListenInv'
    BY <1>4, <2>2 DEF ListenInv, Calm
  <2> QED BY <2>5, <2>6 DEF ChannelInv
<1>9. CASE btDoing' # "exited" /\ ~Bt!Starts(Bt!Now.op)
  <2>1. btDoing' = "send" /\ (Bt!Now.op \in AfterStop => Bt!Now'.op \in AfterStop)
    BY <1>6, <1>9 DEF Follows
  <2>2. \A r \in pending : r.live => r.op = "STOP" /\ Bt!Now.op \in AfterStop
    BY <1>3 DEF ChannelInv, RepliesInv, Fits
  <2>3. \A i \in 1..Len(socket') : IsReply(socket'[i]) => socket'[i].op = "STOP" /\ Bt!Now.op \in AfterStop
    BY <1>4, <1>5 DEF ChannelInv, RepliesInv, Fits
  <2>4. RepliesInv'
    BY <1>3, <1>5, <2>1, <2>2, <2>3 DEF RepliesInv, Fits
  <2> QED BY <2>1, <2>4 DEF ChannelInv, OnceInv, MetInv, ListenInv
<1> QED BY <1>7, <1>8, <1>9

(* Another message is read while waiting.                                  *)
LEMMA HeldAfterOther ==
  ASSUME BtTypes, ChannelInv, btDoing = "await", Taken(socket', socket), pending' = pending,
         ~Bt!Wanted(socket[1]), btArgs' = btArgs,
         UNCHANGED <<btAt, btDoing, powered, le, discovery, own>>
  PROVE  ChannelInv'
<1>1. \A i \in 1..Len(socket') : socket'[i] = socket[i + 1] /\ i + 1 \in 1..Len(socket)
  BY DEF Taken
<1>2. Bt!Now' = Bt!Now
  BY StayFacts
<1>3. ~socket[1].last
  <2>1. 1 \in 1..Len(socket)
    BY DEF Taken
  <2> QED BY <2>1 DEF ChannelInv, RepliesInv, Fits, Bt!Wanted, IsReply
<1>4. RepliesInv' /\ OnceInv'
  <2>1. RepliesInv'
    BY <1>1, <1>2 DEF ChannelInv, RepliesInv, Fits
  <2>2. ASSUME NEW i \in 1..Len(socket'), socket'[i].last
        PROVE  /\ \A r \in pending' : ~r.last
               /\ \A j \in 1..Len(socket') : socket'[j].last => i = j
    <3>1. /\ \A r \in pending : ~r.last
          /\ \A j \in 1..Len(socket) : socket[j].last => i + 1 = j
      BY <1>1, <2>2 DEF ChannelInv, OnceInv
    <3>2. ASSUME NEW j \in 1..Len(socket'), socket'[j].last PROVE i = j
      <4>1. i + 1 = j + 1
        BY <1>1, <3>1, <3>2
      <4> QED BY <4>1
    <3> QED BY <3>1, <3>2
  <2> QED BY <2>1, <2>2 DEF OnceInv
<1>5. MetInv'
  <2>1. SUFFICES ASSUME Bt!Starts(Bt!Now.op) PROVE MetInv'
    BY <1>2 DEF MetInv
  <2>2. ASSUME NEW i \in 1..Len(socket'), MetAt(i)'
        PROVE  /\ Calm'
               /\ \A j \in 1..Len(socket') : IsReply(socket'[j]) => j <= i
               /\ \A j \in 1..Len(socket') : j > i /\ socket'[j].event = "found" => socket'[j].own
    <3>1. MetAt(i + 1) /\ i + 1 \in 1..Len(socket)
      BY <1>1, <2>2 DEF MetAt
    <3>2. /\ Calm
          /\ \A j \in 1..Len(socket) : IsReply(socket[j]) => j <= i + 1
          /\ \A j \in 1..Len(socket) : j > i + 1 /\ socket[j].event = "found" => socket[j].own
      BY <2>1, <3>1 DEF ChannelInv, MetInv
    <3>3. Calm'
      BY <3>2 DEF Calm
    <3>4. ASSUME NEW j \in 1..Len(socket')
          PROVE  /\ IsReply(socket'[j]) => j <= i
                 /\ j > i /\ socket'[j].event = "found" => socket'[j].own
      <4>1. socket'[j] = socket[j + 1] /\ j + 1 \in 1..Len(socket)
        BY <1>1
      <4>2. /\ IsReply(socket[j + 1]) => j + 1 <= i + 1
            /\ j + 1 > i + 1 /\ socket[j + 1].event = "found" => socket[j + 1].own
        BY <3>2, <4>1
      <4> QED BY <4>1, <4>2
    <3> QED BY <3>3, <3>4
  <2>3. ASSUME \A i \in 1..Len(socket') : ~MetAt(i)' PROVE ~own'
    <3>1. \A i \in 1..Len(socket) : ~MetAt(i)
      <4>1. SUFFICES ASSUME NEW i \in 1..Len(socket), MetAt(i) PROVE FALSE
        OBVIOUS
      <4>2. i # 1
        BY <1>3, <4>1 DEF MetAt
      <4>3. i - 1 \in 1..Len(socket') /\ socket'[i - 1] = socket[i]
        BY <4>2 DEF Taken
      <4> QED BY <2>3, <4>1, <4>3 DEF MetAt
    <3> QED BY <2>1, <3>1 DEF ChannelInv, MetInv
  <2> QED BY <2>2, <2>3 DEF MetInv
<1> QED BY <1>4, <1>5 DEF ChannelInv, ListenInv

(* Only one request is the last one.                                       *)
LEMMA LastIsOne ==
  ASSUME BtTypes, ChannelInv, btDoing = "await",
         NEW r \in pending, NEW q \in pending, r.last, q.last
  PROVE  r = q
<1>1. r \in Bt!Requests /\ q \in Bt!Requests
  BY DEF BtTypes, ChannelTypes
<1>2. r.live /\ q.live /\ r.op = Bt!Now.op /\ q.op = Bt!Now.op
  BY DEF ChannelInv, RepliesInv, Fits
<1>3. r.live = TRUE /\ q.live = TRUE /\ r.last = TRUE /\ q.last = TRUE
  BY <1>1, <1>2 DEF Bt!Requests
<1> QED BY <1>1, <1>2, <1>3 DEF Bt!Requests

(* While nothing is being started or stopped, the kernel's answers to old  *)
(* requests leave the discovery as it is, or end it.                       *)
LEMMA CalmKept ==
  ASSUME BtTypes, Calm, NEW r \in pending, pending' = pending \ {r},
         Bt!Effect(r) \/ UNCHANGED Bt!settings
  PROVE  Calm'
<1>1. ~Bt!Starts(r.op) /\ r.op # "STOP"
  BY DEF Calm
<1>2. CASE Bt!Effect(r)
  <2>1. discovery' = (IF r.op = "SET_POWERED off" THEN "none" ELSE discovery)
    BY <1>1, <1>2 DEF Bt!Effect
  <2>2. r.op # "SET_POWERED off" => own' = own
    BY <1>1, <1>2 DEF Bt!Effect, BtTypes, SettingTypes
  <2> QED BY <2>1, <2>2 DEF Calm
<1>3. CASE UNCHANGED Bt!settings
  BY <1>3 DEF Calm, Bt!settings
<1> QED BY <1>2, <1>3

(* The answer to a request of which the program, if it still runs, no      *)
(* longer hears.                                                           *)
LEMMA HeldAfterUnheard ==
  ASSUME BtTypes, ChannelInv, NEW r \in pending, pending' = pending \ {r}, socket' = socket,
         UNCHANGED <<btArgs, btAt, btDoing>>,
         Bt!Effect(r) \/ UNCHANGED Bt!settings,
         btDoing # "exited" => ~r.live /\ ~r.last
  PROVE  ChannelInv'
<1>1. Bt!Now' = Bt!Now
  BY StayFacts
<1>2. RepliesInv' /\ OnceInv'
  BY <1>1 DEF ChannelInv, RepliesInv, OnceInv, Fits
<1>3. MetInv'
  <2>1. SUFFICES ASSUME btDoing = "await", Bt!Starts(Bt!Now.op) PROVE MetInv'
    BY <1>1 DEF MetInv
  <2>2. ASSUME NEW i \in 1..Len(socket), MetAt(i) PROVE Calm'
    BY <2>1, <2>2, CalmKept DEF ChannelInv, MetInv
  <2>3. ASSUME \A i \in 1..Len(socket) : ~MetAt(i) PROVE ~own'
    <3>1. ~own
      BY <2>1, <2>3 DEF ChannelInv, MetInv
    <3> QED BY <2>1, <3>1 DEF Bt!Effect, Bt!settings
  <2>4. \A i \in 1..Len(socket) : MetAt(i)' <=> MetAt(i)
    BY DEF MetAt
  <2> QED BY <2>1, <2>2, <2>3, <2>4 DEF ChannelInv, MetInv
<1>4. ListenInv'
  <2>1. SUFFICES ASSUME btDoing = "listen" PROVE ListenInv'
    BY DEF ListenInv
  <2>2. Calm'
    BY <2>1, CalmKept DEF ChannelInv, ListenInv
  <2> QED BY <2>1, <2>2 DEF ChannelInv, ListenInv
<1> QED BY <1>2, <1>3, <1>4 DEF ChannelInv

(* The answer to a request of this run.                                    *)
LEMMA HeldAfterHeard ==
  ASSUME BtTypes, ChannelInv, btDoing # "exited",
         NEW r \in pending, r.live, NEW e \in {"status", "complete"}, NEW ok \in BOOLEAN,
         pending' = pending \ {r},
         Delivered(socket', socket, Bt!Message(e, r.op, ok, r.last, FALSE)),
         UNCHANGED <<btArgs, btAt, btDoing>>,
         IF ok THEN Bt!CanMeet(r) /\ Bt!Effect(r) ELSE UNCHANGED Bt!settings
  PROVE  ChannelInv'
<1> DEFINE m == Bt!Message(e, r.op, ok, r.last, FALSE)
<1>1. Bt!Now' = Bt!Now
  BY StayFacts
<1>2. /\ IsReply(m) /\ m.op = r.op /\ m.ok = ok /\ m.last = r.last /\ m.event # "found"
  BY DEF Bt!Message, IsReply
<1>3. btDoing \in {"send", "await"} /\ Fits(r.op, r.last)
  BY DEF ChannelInv, RepliesInv, Fits, BtTypes, ProgramTypes
<1>4. Delivered(socket', socket, m) /\ Len(socket) \in Nat
  <2>1. Len(socket) \in Nat
    BY DEF BtTypes, ChannelTypes
  <2> QED BY <2>1, Zenon
<1> HIDE DEF m
<1>5. \A i \in 1..Len(socket') : \/ i \in 1..Len(socket) /\ socket'[i] = socket[i]
                                 \/ i = Len(socket) + 1 /\ socket'[i] = m
  BY <1>4 DEF Delivered
<1>6. RepliesInv'
  BY <1>1, <1>2, <1>3, <1>5 DEF ChannelInv, RepliesInv, Fits
<1>7. OnceInv'
  <2>1. SUFFICES ASSUME btDoing = "await", NEW i \in 1..Len(socket'), socket'[i].last
        PROVE  /\ \A q \in pending' : ~q.last
               /\ \A j \in 1..Len(socket') : socket'[j].last => i = j
    BY DEF OnceInv
  <2>2. CASE r.last
    <3>1. \A q \in pending' : ~q.last
      BY <2>1, <2>2, LastIsOne
    <3>2. \A j \in 1..Len(socket) : ~socket[j].last
      BY <2>1, <2>2 DEF ChannelInv, OnceInv
    <3> QED BY <1>5, <2>1, <3>1, <3>2
  <2>3. CASE ~r.last
    BY <1>2, <1>5, <2>1, <2>3 DEF ChannelInv, OnceInv
  <2> QED BY <2>2, <2>3
<1>8. ListenInv'
  BY <1>3 DEF ListenInv
<1>9. MetInv'
  <2>1. SUFFICES ASSUME btDoing = "await", Bt!Starts(Bt!Now.op) PROVE MetInv'
    BY <1>1 DEF MetInv
  <2>2. \A i \in 1..Len(socket) : ~MetAt(i)
    <3>1. SUFFICES ASSUME NEW i \in 1..Len(socket), MetAt(i) PROVE FALSE
      OBVIOUS
    <3>2. r.op # "STOP" /\ ~Bt!Starts(r.op)
      BY <2>1, <3>1 DEF ChannelInv, MetInv, Calm
    <3> QED BY <1>3, <2>1, <3>2 DEF Fits
  <2>3. ~own
    BY <2>1, <2>2 DEF ChannelInv, MetInv
  <2>4. \A i \in 1..Len(socket') : MetAt(i)' => i = Len(socket) + 1 /\ r.last /\ ok
    BY <1>2, <1>5, <2>2 DEF MetAt
  <2>5. CASE r.last /\ ok
    <3>1. r.op = Bt!Now.op /\ Bt!Starts(r.op)
      BY <1>3, <2>1, <2>5 DEF Fits
    <3>2. ~Bt!Busy(r)
      BY <2>5, <3>1 DEF Bt!CanMeet, Bt!Starts
    <3>3. own'
      BY <2>5, <3>1, Zenon DEF Bt!Effect
    <3>4. \A q \in pending' : q.op # "STOP" /\ ~Bt!Starts(q.op)
      <4>1. SUFFICES ASSUME NEW q \in pending, q # r PROVE q.op # "STOP" /\ ~Bt!Starts(q.op)
        OBVIOUS
      <4>2. ~q.last
        BY <2>1, <2>5, <4>1, LastIsOne
      <4> QED BY <3>2, <4>1, <4>2 DEF Bt!Busy
    <3>5. Calm'
      BY <3>3, <3>4 DEF Calm
    <3>6. ASSUME NEW i \in 1..Len(socket'), MetAt(i)', NEW j \in 1..Len(socket')
          PROVE  j <= i
      <4>1. i = Len(socket) + 1 /\ Len(socket') = Len(socket) + 1
        BY <1>4, <2>4, <3>6 DEF Delivered
      <4> QED BY <1>4, <4>1
    <3>7. \E i \in 1..Len(socket') : MetAt(i)'
      <4>1. Len(socket') = Len(socket) + 1
        BY ONLY <1>4 DEF Delivered
      <4>2. Len(socket) + 1 \in 1..Len(socket')
        BY ONLY <1>4, <4>1
      <4>3. socket'[Len(socket) + 1] = m
        BY ONLY <1>4 DEF Delivered
      <4> QED BY <1>2, <2>5, <4>2, <4>3 DEF MetAt
    <3>8. \A i \in 1..Len(socket') : MetAt(i)' => \A j \in 1..Len(socket') : ~(j > i)
      BY <1>4, <3>6
    <3>9. \A i \in 1..Len(socket') : MetAt(i)' =>
            /\ Calm'
            /\ \A j \in 1..Len(socket') : IsReply(socket'[j]) => j <= i
            /\ \A j \in 1..Len(socket') : j > i /\ socket'[j].event = "found" => socket'[j].own
      BY <3>5, <3>6, <3>8
    <3> QED BY <3>7, <3>9 DEF MetInv
  <2>6. CASE ~(r.last /\ ok)
    <3>1. ~own'
      BY <2>3, <2>6 DEF Bt!Effect, Bt!settings
    <3> QED BY <2>4, <2>6, <3>1 DEF MetInv
  <2> QED BY <2>5, <2>6
<1> QED BY <1>6, <1>7, <1>8, <1>9 DEF ChannelInv

(* An event, of which the program hears if it still runs.                  *)
LEMMA HeldAfterEvent ==
  ASSUME BtTypes, ChannelInv, Bt!DeviceFound \/ Bt!OtherEvent \/ Bt!DiscoveryEnds
  PROVE  ChannelInv'
<1>1. own \in BOOLEAN /\ Len(socket) \in Nat /\ btArgs \in Arguments
  BY DEF BtTypes, SettingTypes, ChannelTypes, ProgramTypes
<1>2. PICK m \in Bt!Messages :
        /\ Bt!Event(m) /\ ~IsReply(m) /\ m.last = FALSE
        /\ m.event = "found" => m.own = own /\ discovery # "none"
        /\ \/ discovery' = discovery /\ own' = own
           \/ discovery' = "none" /\ own' = FALSE /\ m.event # "found"
  <2>1. /\ Bt!Message("found", "none", TRUE, FALSE, own) \in Bt!Messages
        /\ Bt!Message("other", "none", TRUE, FALSE, FALSE) \in Bt!Messages
    BY <1>1, MessagesTyped
  <2>2. CASE Bt!DeviceFound
    <3>1. LET n == Bt!Message("found", "none", TRUE, FALSE, own) IN
          Bt!Event(n) /\ ~IsReply(n) /\ n.last = FALSE /\ n.own = own /\ discovery # "none"
      BY <2>2 DEF Bt!DeviceFound, Bt!Message, IsReply
    <3>2. discovery' = discovery /\ own' = own
      BY <2>2 DEF Bt!DeviceFound, Bt!settings
    <3> QED BY <2>1, <3>1, <3>2
  <2>3. CASE Bt!OtherEvent \/ Bt!DiscoveryEnds
    <3>1. LET n == Bt!Message("other", "none", TRUE, FALSE, FALSE) IN
          Bt!Event(n) /\ ~IsReply(n) /\ n.last = FALSE /\ n.event # "found"
      BY <2>3 DEF Bt!OtherEvent, Bt!DiscoveryEnds, Bt!Message, IsReply
    <3>2. (discovery' = discovery /\ own' = own) \/ (discovery' = "none" /\ own' = FALSE)
      BY <2>3 DEF Bt!OtherEvent, Bt!DiscoveryEnds, Bt!settings
    <3> QED BY <2>1, <3>1, <3>2
  <2> QED BY <2>2, <2>3
<1>3. /\ IF btDoing # "exited" THEN Delivered(socket', socket, m) ELSE socket' = socket
      /\ pending' = pending /\ UNCHANGED <<btArgs, btAt, btDoing>>
  BY <1>2, EventFacts
<1>4. Bt!Now' = Bt!Now
  BY <1>3, StayFacts
<1>6. CASE btDoing = "exited"
  BY <1>3, <1>6, HeldWhenOver DEF ChannelInv
<1>7. CASE btDoing # "exited"
  <2>1. Delivered(socket', socket, m)
    BY <1>3, <1>7
  <2>2. \A i \in 1..Len(socket') : \/ i \in 1..Len(socket) /\ socket'[i] = socket[i]
                                   \/ i = Len(socket) + 1 /\ socket'[i] = m
    BY <1>1, <2>1 DEF Delivered
  <2>3. RepliesInv'
    BY <1>2, <1>3, <1>4, <2>2 DEF ChannelInv, RepliesInv, Fits
  <2>4. OnceInv'
    BY <1>2, <1>3, <2>2 DEF ChannelInv, OnceInv
  <2>5. Calm => Calm'
    BY <1>3, <1>2 DEF Calm
  <2>6. ListenInv'
    <3>1. SUFFICES ASSUME btDoing = "listen" PROVE ListenInv'
      BY <1>3 DEF ListenInv
    <3>2. Calm /\ \A i \in 1..Len(socket) : socket[i].event = "found" => socket[i].own
      BY <3>1 DEF ChannelInv, ListenInv
    <3> QED BY <1>2, <2>2, <2>5, <3>2 DEF ListenInv, Calm
  <2>7. MetInv'
    <3>1. SUFFICES ASSUME btDoing = "await", Bt!Starts(Bt!Now.op) PROVE MetInv'
      BY <1>3, <1>4 DEF MetInv
    <3>2. \A i \in 1..Len(socket') : MetAt(i)' => i \in 1..Len(socket) /\ MetAt(i)
      BY <1>2, <2>2 DEF MetAt
    <3>3. ASSUME NEW i \in 1..Len(socket'), MetAt(i)'
          PROVE  /\ Calm'
                 /\ \A j \in 1..Len(socket') : IsReply(socket'[j]) => j <= i
                 /\ \A j \in 1..Len(socket') : j > i /\ socket'[j].event = "found" => socket'[j].own
      <4>1. i \in 1..Len(socket) /\ MetAt(i)
        BY <3>2, <3>3
      <4>2. /\ Calm
            /\ \A j \in 1..Len(socket) : IsReply(socket[j]) => j <= i
            /\ \A j \in 1..Len(socket) : j > i /\ socket[j].event = "found" => socket[j].own
        BY <3>1, <4>1 DEF ChannelInv, MetInv
      <4>3. Calm'
        BY <2>5, <4>2
      <4>4. \A j \in 1..Len(socket') : IsReply(socket'[j]) => j <= i
        BY <1>2, <2>2, <4>2
      <4>5. m.event = "found" => m.own
        BY <1>2, <4>2 DEF Calm
      <4>6. \A j \in 1..Len(socket') : j > i /\ socket'[j].event = "found" => socket'[j].own
        BY <2>2, <4>2, <4>5
      <4> QED BY <4>3, <4>4, <4>6
    <3>4. ASSUME \A i \in 1..Len(socket') : ~MetAt(i)' PROVE ~own'
      <4>1. ASSUME NEW i \in 1..Len(socket) PROVE ~MetAt(i)
        <5>1. i \in 1..Len(socket') /\ socket'[i] = socket[i]
          BY <1>1, <2>1 DEF Delivered
        <5> QED BY <3>4, <5>1 DEF MetAt
      <4>2. ~own
        BY <3>1, <4>1 DEF ChannelInv, MetInv
      <4> QED BY <1>2, <4>2
    <3> QED BY <3>3, <3>4 DEF MetInv
  <2> QED BY <2>3, <2>4, <2>6, <2>7 DEF ChannelInv
<1> QED BY <1>6, <1>7

(* The program goes on after a STOP, answered or not, when nothing of the  *)
(* run is under way.                                                       *)
LEMMA HeldAfterNothing ==
  ASSUME BtTypes, ChannelInv, btDoing = "await", socket = <<>>, socket' = socket,
         pending' = pending, Bt!Proceed, btArgs' = btArgs, Bt!Now.op = "STOP"
  PROVE  ChannelInv'
<1>1. \/ btDoing' = "exited"
      \/ /\ btDoing' = (IF Bt!Now'.op = "listen" THEN "listen" ELSE "send")
         /\ Follows(Bt!Now.op, Bt!Now'.op)
  BY ProceedFacts DEF BtTypes, ProgramTypes
<1>2. CASE btDoing' = "exited"
  BY <1>2, HeldWhenOver DEF ChannelInv
<1>3. CASE btDoing' # "exited"
  <2>1. btDoing' = "send" /\ Bt!Now'.op = "SET_POWERED on"
    BY <1>1, <1>3 DEF Follows
  <2>2. \A r \in pending : r.live => r.op = "STOP"
    BY DEF ChannelInv, RepliesInv, Fits
  <2>3. Len(socket') = 0
    OBVIOUS
  <2>4. RepliesInv'
    BY <2>1, <2>2, <2>3 DEF ChannelInv, RepliesInv, Fits, AfterStop
  <2> QED BY <2>1, <2>4 DEF ChannelInv, OnceInv, MetInv, ListenInv
<1> QED BY <1>2, <1>3

LEMMA HeldWhileListening ==
  ASSUME BtTypes, ChannelInv, Bt!listen_read \/ Bt!listen_timeout \/ Bt!listen_end
  PROVE  ChannelInv'
<1>1. btDoing = "listen" /\ NoneLive /\ pending' = pending /\ btArgs' = btArgs
      /\ Len(socket) \in Nat
  BY NoneLiveWhen DEF ChannelInv, Bt!listen_read, Bt!listen_timeout, Bt!listen_end,
     BtTypes, ChannelTypes
<1>2. CASE Bt!listen_end
  <2>1. Bt!Proceed /\ socket' = socket
    BY <1>2 DEF Bt!listen_end
  <2>2. btDoing' \in {"send", "exited"}
    BY <1>1, <2>1, ProceedFacts DEF BtTypes, ProgramTypes, Follows
  <2>3. NoneLive'
    BY <1>1, <2>1 DEF NoneLive
  <2> QED BY <2>2, <2>3, HeldWhenNoneLive
<1>3. CASE Bt!listen_read \/ Bt!listen_timeout
  <2>1. btDoing' = btDoing /\ UNCHANGED Bt!settings
    BY <1>3 DEF Bt!listen_read, Bt!listen_timeout
  <2>2. Taken(socket', socket) \/ socket' = socket
    BY <1>3, ReadFacts DEF Bt!listen_read, Bt!listen_timeout
  <2>3. \A i \in 1..Len(socket') : \E j \in 1..Len(socket) : socket'[i] = socket[j]
    BY <1>1, <2>2 DEF Taken
  <2>4. NoneLive'
    BY <1>1, <2>3 DEF NoneLive
  <2>5. ListenInv'
    BY <1>1, <2>1, <2>3 DEF ChannelInv, ListenInv, Calm, Bt!settings
  <2>6. RepliesInv' /\ OnceInv' /\ MetInv'
    BY <1>1, <2>1, <2>4 DEF NoneLive, RepliesInv, OnceInv, MetInv
  <2> QED BY <2>5, <2>6 DEF ChannelInv
<1> QED BY <1>2, <1>3

LEMMA HeldWhileAwaiting ==
  ASSUME BtTypes, ChannelInv, Bt!command_reply \/ Bt!reply_timeout
  PROVE  ChannelInv'
<1>1. btDoing = "await" /\ btArgs' = btArgs /\ pending' = pending
      /\ UNCHANGED <<powered, le, discovery, own>>
  BY DEF Bt!command_reply, Bt!reply_timeout, Bt!settings
<1>2. CASE Bt!command_reply
  <2>1. Taken(socket', socket) /\ Head(socket) = socket[1]
    BY <1>2, ReadFacts DEF Bt!command_reply
  <2>2. CASE ~Bt!Wanted(socket[1])
    <3>1. UNCHANGED <<btAt, btDoing>>
      BY <1>2, <2>1, <2>2 DEF Bt!command_reply
    <3> QED BY <1>1, <2>1, <2>2, <3>1, HeldAfterOther
  <2>3. CASE Bt!Wanted(socket[1]) /\ (socket[1].ok \/ Bt!Now.op = "STOP")
    <3>1. Bt!Proceed
      BY <1>2, <2>1, <2>3 DEF Bt!command_reply, Bt!Fails
    <3> QED BY <1>1, <2>1, <2>3, <3>1, HeldAfterReply
  <2>4. CASE Bt!Wanted(socket[1]) /\ ~socket[1].ok /\ Bt!Now.op # "STOP"
    <3>1. btDoing' = "exited"
      BY <1>2, <2>1, <2>4 DEF Bt!command_reply, Bt!Fails, Bt!exit
    <3> QED BY <1>1, <2>1, <3>1, HeldWhenOver DEF ChannelInv
  <2> QED BY <2>2, <2>3, <2>4
<1>3. CASE Bt!reply_timeout
  <2>1. socket = <<>> /\ socket' = socket
    BY <1>3 DEF Bt!reply_timeout
  <2>2. CASE Bt!Now.op = "STOP"
    <3>1. Bt!Proceed
      BY <1>3, <2>2 DEF Bt!reply_timeout, Bt!Fails
    <3> QED BY <1>1, <2>1, <2>2, <3>1, HeldAfterNothing
  <2>3. CASE Bt!Now.op # "STOP"
    <3>1. btDoing' = "exited"
      BY <1>3, <2>3 DEF Bt!reply_timeout, Bt!Fails, Bt!exit
    <3> QED BY <1>1, <2>1, <3>1, HeldWhenOver DEF ChannelInv
  <2> QED BY <2>2, <2>3
<1> QED BY <1>2, <1>3

LEMMA HeldAfterCannot ==
  ASSUME BtTypes, ChannelInv, Bt!CannotOpen \/ Bt!CannotSend \/ Bt!Interrupt
  PROVE  ChannelInv'
<1>1. socket' = socket /\ pending' = pending /\ btArgs' = btArgs
  BY DEF Bt!CannotOpen, Bt!CannotSend, Bt!Interrupt
<1>2. CASE btDoing' = "exited"
  BY <1>1, <1>2, HeldWhenOver DEF ChannelInv
<1>3. CASE btDoing' # "exited"
  <2>1. btDoing = "send" /\ Bt!Now.op = "STOP" /\ btDoing' = "await" /\ btAt' = btAt
    BY <1>3 DEF Bt!CannotOpen, Bt!CannotSend, Bt!Interrupt, Bt!exit
  <2>2. Bt!Now' = Bt!Now
    BY <1>1, <2>1, StayFacts
  <2>3. NoneLive'
    BY <1>1, <2>1, NoneLiveWhen DEF ChannelInv, NoneLive
  <2> QED BY <2>1, <2>2, <2>3, HeldWhenNoneLive DEF Bt!Starts
<1> QED BY <1>2, <1>3

LEMMA HeldAfterAnswer ==
  ASSUME BtTypes, ChannelInv, NEW r \in pending, Bt!Complete(r) \/ Bt!Reject(r)
  PROVE  ChannelInv'
<1>1. PICK e \in {"status", "complete"}, ok \in BOOLEAN :
        /\ Bt!Answer(r, e, ok)
        /\ IF ok THEN Bt!CanMeet(r) /\ Bt!Effect(r) ELSE UNCHANGED Bt!settings
  BY DEF Bt!Complete, Bt!Reject
<1>2. /\ pending' = pending \ {r} /\ UNCHANGED <<btArgs, btAt, btDoing>>
      /\ IF r.live /\ btDoing # "exited"
         THEN Delivered(socket', socket, Bt!Message(e, r.op, ok, r.last, FALSE))
         ELSE socket' = socket
  BY <1>1, AnswerFacts
<1>3. Bt!Effect(r) \/ UNCHANGED Bt!settings
  BY <1>1
<1>4. CASE r.live /\ btDoing # "exited"
  BY <1>1, <1>2, <1>4, HeldAfterHeard
<1>5. CASE ~(r.live /\ btDoing # "exited")
  <2>1. btDoing # "exited" => ~r.live /\ ~r.last
    BY <1>5 DEF ChannelInv, RepliesInv
  <2> QED BY <1>2, <1>3, <1>5, <2>1, HeldAfterUnheard
<1> QED BY <1>4, <1>5

LEMMA ChannelInvKept ==
  ASSUME BtTypes, ChannelInv, BtStep
  PROVE  ChannelInv'
<1>1. CASE UNCHANGED btVars
  <2>1. Bt!Now' = Bt!Now
    BY <1>1, StayFacts DEF btVars
  <2> QED BY <1>1, <2>1 DEF btVars, ChannelInv, RepliesInv, Fits, OnceInv, MetInv, MetAt, Calm, ListenInv
<1>2. CASE Bt!Kernel
  BY <1>2, HeldAfterAnswer, HeldAfterEvent DEF Bt!Kernel
<1>3. CASE Bt!Program \/ Bt!Interrupt
  BY <1>3, HeldAfterCannot, HeldAfterSend, HeldWhileAwaiting, HeldWhileListening DEF Bt!Program
<1>4. CASE Bt!Reaped \/ \E args \in Arguments : Bt!Start(args)
  BY <1>4, HeldAtBegin
<1> QED BY <1>1, <1>2, <1>3, <1>4 DEF BtStep

-----------------------------------------------------------------------------
(* The seconds listened.                                                   *)

(* The two scans of coexist share its seconds.                             *)
LEMMA HalfFacts ==
  ASSUME NEW s \in Nat, s # 0
  PROVE  Half(s) \in 1..s
BY DEF Half

(* The seconds of a program's scans add up to the seconds it was given.    *)
LEMMA HeardFacts ==
  ASSUME btArgs \in Arguments, NEW at \in 1..Len(Bt!Script), Measured
  PROVE  /\ HeardBy(btArgs, at) \in Nat
         /\ at + 1 \in 1..Len(Bt!Script) =>
              HeardBy(btArgs, at + 1)
                = HeardBy(btArgs, at) + (IF Bt!Script[at].op = "listen" THEN Bt!Script[at].seconds ELSE 0)
         /\ Bt!Script[at].op = "listen" => Bt!Script[at].seconds \in Nat /\ Bt!Script[at].seconds * 1000 < U32
         /\ at = Len(Bt!Script) /\ at > 2 => HeardBy(btArgs, at) = btArgs[2]
<1> DEFINE k == btArgs[1]
           s == btArgs[2]
<1>1. k \in Bt!BtPrograms /\ s \in Nat /\ s # 0 /\ s * 1000 < U32 /\ U32 \in Nat
  BY Numbers DEF Measured
<1>2. Half(s) \in 1..s /\ (s - Half(s)) % U32 = s - Half(s)
  <2>1. Half(s) \in 1..s
    BY <1>1, HalfFacts
  <2>2. s - Half(s) \in 0..U32 - 1
    BY <1>1, <2>1
  <2>3. PICK x \in 0..U32 - 1 : x = s - Half(s)
    BY <2>2
  <2>4. x % U32 = x
    BY ONLY <1>1, <2>3
  <2> QED BY <2>1, <2>3, <2>4
<1>3. PICK S : S = Bt!Script
  OBVIOUS
<1>4. Shape(btArgs, S) /\ at \in 1..Len(S)
  BY <1>3, ScriptFacts
<1>5. CASE k \in {"info", "power on", "power off"}
  <2>1. Len(S) = 2 /\ S[1].op # "listen" /\ S[2].op # "listen"
    BY <1>4, <1>5, StepOps DEF Shape
  <2>2. \A i \in {1, 2} : HeardBy(btArgs, i) = 0
    BY <1>5 DEF HeardBy
  <2>3. at \in {1, 2}
    BY <1>4, <2>1
  <2> QED BY <1>3, <1>4, <2>1, <2>2, <2>3
<1>6. CASE k = "bredr-scan"
  <2>1. Len(S) = 5 /\ S[4].op = "listen" /\ S[4].seconds = s
    <3>1. S[4] = L(s) /\ Len(S) = 5
      BY <1>4, <1>6 DEF Shape
    <3>2. s \in Int
      BY <1>1
    <3> QED BY <3>1, <3>2, StepOps
  <2>2. S[1].op # "listen" /\ S[2].op # "listen" /\ S[3].op # "listen" /\ S[5].op # "listen"
    BY <1>4, <1>6, StepOps DEF Shape
  <2>3. \A i \in 1..5 : HeardBy(btArgs, i) = IF i > 4 THEN s ELSE 0
    BY <1>6 DEF HeardBy
  <2>4. at \in 1..5
    BY <1>4, <2>1
  <2> QED BY <1>1, <1>3, <1>4, <2>1, <2>2, <2>3, <2>4
<1>7. CASE k = "le-scan"
  <2>1. Len(S) = 6 /\ S[5].op = "listen" /\ S[5].seconds = s
    <3>1. S[5] = L(s) /\ Len(S) = 6
      BY <1>4, <1>7 DEF Shape
    <3>2. s \in Int
      BY <1>1
    <3> QED BY <3>1, <3>2, StepOps
  <2>2. /\ S[1].op # "listen" /\ S[2].op # "listen" /\ S[3].op # "listen"
        /\ S[4].op # "listen" /\ S[6].op # "listen"
    BY <1>4, <1>7, StepOps DEF Shape
  <2>3. \A i \in 1..6 : HeardBy(btArgs, i) = IF i > 5 THEN s ELSE 0
    BY <1>7 DEF HeardBy
  <2>4. at \in 1..6
    BY <1>4, <2>1
  <2> QED BY <1>1, <1>3, <1>4, <2>1, <2>2, <2>3, <2>4
<1>8. CASE k = "coexist"
  <2>1. /\ Len(S) = 10 /\ S[4].op = "listen" /\ S[4].seconds = Half(s)
        /\ S[9].op = "listen" /\ S[9].seconds = s - Half(s)
    <3>1. Half(s) \in Int /\ (s - Half(s)) % U32 \in Int
      BY <1>1, <1>2
    <3>2. S[4] = L(Half(s)) /\ S[9] = L((s - Half(s)) % U32) /\ Len(S) = 10
      BY <1>4, <1>8 DEF Shape
    <3> QED BY <1>2, <3>1, <3>2, StepOps
  <2>2. S[1].op # "listen" /\ S[2].op # "listen" /\ S[3].op # "listen" /\ S[5].op # "listen"
    BY <1>4, <1>8, StepOps DEF Shape
  <2>5. S[6].op # "listen" /\ S[7].op # "listen" /\ S[8].op # "listen" /\ S[10].op # "listen"
    BY <1>4, <1>8, StepOps DEF Shape
  <2>3. \A i \in 1..10 : HeardBy(btArgs, i) = IF i > 9 THEN s ELSE IF i > 4 THEN Half(s) ELSE 0
    BY <1>8 DEF HeardBy
  <2>4. at \in 1..10
    BY <1>4, <2>1
  <2> QED BY <1>1, <1>2, <1>3, <1>4, <2>1, <2>2, <2>3, <2>4, <2>5
<1> QED BY <1>1, <1>5, <1>6, <1>7, <1>8 DEF Bt!BtPrograms

(* The loop's counter goes up in halves of a second, so that it meets the  *)
(* end of the window and does not wrap.                                    *)
LEMMA NextHalf ==
  ASSUME NEW U \in Nat, NEW s \in Nat, s * 1000 < U,
         NEW x \in Nat, x % 500 = 0, x < (s * 1000) % U
  PROVE  (x + 500) % U = x + 500 /\ (x + 500) % 500 = 0 /\ x + 500 <= s * 1000
<1>1. (s * 1000) % U = s * 1000
  OBVIOUS
<1>2. x = 500 * (x \div 500) /\ x \div 500 \in Nat
  OBVIOUS
<1>3. x + 500 <= s * 1000
  BY <1>1, <1>2
<1>4. PICK y \in 0..U - 1 : y = x + 500
  BY <1>3
<1>5. y % U = y
  BY ONLY <1>4, U \in Nat
<1>6. (x + 500) % 500 = 0
  BY <1>2
<1> QED BY <1>3, <1>4, <1>5, <1>6

LEMMA WindowOver ==
  ASSUME NEW U \in Nat, NEW s \in Nat, s * 1000 < U,
         NEW x \in Nat, x <= s * 1000, ~(x < (s * 1000) % U)
  PROVE  x = s * 1000
OBVIOUS

LEMMA LaterSeconds ==
  ASSUME btArgs' = btArgs, btArgs \in Arguments, btAt' \in 1..Len(Bt!Script), Measured,
         Bt!Now'.op = "listen"
  PROVE  Bt!Now'.seconds \in Nat
<1>1. Bt!Script' = Bt!Script
  BY DEF Bt!Script, Bt!Scripts
<1> QED BY <1>1, HeardFacts DEF Bt!Now

(* The program goes on with the next step, or ends with status 0.          *)
LEMMA TimeProceed ==
  ASSUME BtTypes, TimeInv, btDoing \in {"await", "listen"}, btArgs' = btArgs, listened' = listened,
         Bt!Proceed, btDoing = "listen" => ~Bt!Remains
  PROVE  TimeInv'
<1>1. btArgs \in Arguments /\ btAt \in 1..Len(Bt!Script) /\ elapsed \in Nat /\ listened \in Nat
      /\ U32 \in Nat /\ (btDoing = "listen" => Bt!Now.op = "listen")
      /\ (btDoing = "await" => Bt!Now.op # "listen")
  BY BtConstantsTyped DEF BtTypes, ProgramTypes, BtConstants
<1>2. /\ Bt!Script' = Bt!Script
      /\ \/ /\ btAt = Len(Bt!Script) /\ btDoing' = "exited" /\ btStatus' = 0
            /\ btAt' = btAt /\ elapsed' = elapsed
            /\ Bt!Now.op # "listen" /\ ~Bt!Starts(Bt!Now.op)
         \/ /\ btAt' = btAt + 1 /\ elapsed' = 0 /\ btStatus' = btStatus
            /\ btDoing' = (IF Bt!Now'.op = "listen" THEN "listen" ELSE "send")
      /\ btAt' \in 1..Len(Bt!Script)
  BY <1>1, ProceedFacts
<1>3. btDoing' = "exited" /\ btStatus' = 0 => btAt' = Len(Bt!Script')
  BY <1>2
<1>4. ASSUME Measured PROVE Timed'
  <2>1. Timed
    BY <1>1, <1>4 DEF TimeInv
  <2>2. /\ HeardBy(btArgs, btAt) \in Nat
        /\ btAt + 1 \in 1..Len(Bt!Script) =>
             HeardBy(btArgs, btAt + 1)
               = HeardBy(btArgs, btAt) + (IF Bt!Now.op = "listen" THEN Bt!Now.seconds ELSE 0)
        /\ Bt!Now.op = "listen" => Bt!Now.seconds \in Nat /\ Bt!Now.seconds * 1000 < U32
    BY <1>1, <1>4, HeardFacts DEF Bt!Now
  <2>3. listened = 1000 * HeardBy(btArgs, btAt)
                   + (IF btDoing = "listen" THEN 1000 * Bt!Now.seconds ELSE 0)
    <3>1. CASE btDoing = "listen"
      <4>1. elapsed <= Bt!Now.seconds * 1000 /\ ~(elapsed < (Bt!Now.seconds * 1000) % U32)
        BY <2>1, <3>1 DEF Timed, Bt!Remains
      <4>2. PICK s \in Nat : s = Bt!Now.seconds /\ s * 1000 < U32
        BY <1>1, <2>2, <3>1
      <4>3. elapsed = s * 1000
        BY <1>1, <4>1, <4>2, WindowOver
      <4> QED BY <1>1, <2>1, <2>2, <3>1, <4>2, <4>3 DEF Timed
    <3>2. CASE btDoing # "listen"
      BY <1>1, <2>1, <2>2, <3>2 DEF Timed
    <3> QED BY <3>1, <3>2
  <2>4. CASE btAt' = btAt
    <3>1. btDoing' # "listen" /\ btDoing # "listen"
      BY <1>1, <1>2, <2>4
    <3>2. HeardBy(btArgs', btAt') = HeardBy(btArgs, btAt)
      BY <2>4
    <3> QED BY <1>1, <2>2, <2>3, <3>1, <3>2 DEF Timed
  <2>5. CASE btAt' = btAt + 1 /\ elapsed' = 0
    <3>1. HeardBy(btArgs', btAt') = HeardBy(btArgs, btAt + 1)
      BY <2>5
    <3>2. listened' = 1000 * HeardBy(btArgs', btAt')
      BY <1>1, <1>2, <2>2, <2>3, <2>5, <3>1
    <3>3. HeardBy(btArgs', btAt') \in Nat
      BY <1>1, <1>2, <2>2, <2>5, <3>1
    <3>4. btDoing' = "listen" => Bt!Now'.seconds \in Nat
      BY <1>1, <1>2, <1>4, <2>5, LaterSeconds
    <3> QED BY <2>5, <3>2, <3>3, <3>4 DEF Timed
  <2> QED BY <1>2, <2>4, <2>5
<1> QED BY <1>1, <1>2, <1>3, <1>4 DEF TimeInv, Measured

(* A step that neither moves on nor listens.                               *)
LEMMA TimeStay ==
  ASSUME TimeInv, btArgs' = btArgs, btAt' = btAt, listened' = listened, elapsed' = elapsed,
         \/ btStatus' # 0 /\ btDoing' = "exited"
         \/ /\ btStatus' = btStatus /\ (btDoing' = "listen" <=> btDoing = "listen")
            /\ (btDoing' = "exited" <=> btDoing = "exited")
  PROVE  TimeInv'
<1>1. Bt!Script' = Bt!Script /\ Bt!Now' = Bt!Now
  BY StayFacts
<1>2. CASE btStatus' # 0 /\ btDoing' = "exited"
  BY <1>2 DEF TimeInv
<1>3. CASE /\ btStatus' = btStatus /\ (btDoing' = "listen" <=> btDoing = "listen")
           /\ (btDoing' = "exited" <=> btDoing = "exited")
  <2>1. HeardBy(btArgs', btAt') = HeardBy(btArgs, btAt)
    OBVIOUS
  <2>2. Timed => Timed'
    BY <1>1, <1>3, <2>1 DEF Timed
  <2> QED BY <1>1, <1>3, <2>2 DEF TimeInv, Measured
<1> QED BY <1>2, <1>3

LEMMA TimePass ==
  ASSUME BtTypes, TimeInv, Bt!listen_read \/ Bt!listen_timeout
  PROVE  TimeInv'
<1>1. /\ btDoing = "listen" /\ Bt!Remains /\ Bt!Pass
      /\ UNCHANGED <<btArgs, btAt, btDoing, btStatus>>
  BY DEF Bt!listen_read, Bt!listen_timeout
<1>2. /\ Bt!Now' = Bt!Now /\ Bt!Now.op = "listen" /\ elapsed \in Nat /\ listened \in Nat
      /\ U32 \in Nat /\ btArgs \in Arguments /\ btAt \in 1..Len(Bt!Script)
  BY <1>1, StayFacts, BtConstantsTyped DEF BtTypes, ProgramTypes, BtConstants
<1>3. ASSUME Measured, btStatus = 0 PROVE Timed'
  <2>1. listened = 1000 * HeardBy(btArgs, btAt) + elapsed /\ elapsed % 500 = 0
    BY <1>1, <1>3 DEF TimeInv, Timed
  <2>2. Bt!Now.seconds \in Nat /\ Bt!Now.seconds * 1000 < U32 /\ HeardBy(btArgs, btAt) \in Nat
    BY <1>2, <1>3, HeardFacts DEF Bt!Now
  <2>3. PICK s \in Nat : s = Bt!Now.seconds
    BY <2>2
  <2>4. elapsed < (s * 1000) % U32
    BY <1>1, <2>3 DEF Bt!Remains
  <2>5. s * 1000 < U32
    BY <2>2, <2>3
  <2>6. (elapsed + 500) % U32 = elapsed + 500 /\ (elapsed + 500) % 500 = 0 /\ elapsed + 500 <= s * 1000
    <3>1. U32 \in Nat /\ elapsed \in Nat /\ elapsed % 500 = 0
      BY <1>2, <2>1
    <3> QED BY ONLY s \in Nat, <2>4, <2>5, <3>1, NextHalf, SMT
  <2>7. elapsed' = elapsed + 500 /\ listened' = listened + 500
    BY <1>1, <2>6 DEF Bt!Pass
  <2>8. HeardBy(btArgs', btAt') = HeardBy(btArgs, btAt)
    BY <1>1
  <2>9. listened' = 1000 * HeardBy(btArgs', btAt') + elapsed'
    BY <1>2, <2>1, <2>2, <2>7, <2>8
  <2>10. elapsed' % 500 = 0 /\ elapsed' <= Bt!Now'.seconds * 1000
    BY <1>2, <2>3, <2>6, <2>7
  <2> QED BY <1>1, <2>9, <2>10 DEF Timed
<1> QED BY <1>1, <1>3 DEF TimeInv, Measured

LEMMA TimeBegin ==
  ASSUME BtTypes, Bt!Reaped \/ \E args \in Arguments : Bt!Start(args)
  PROVE  TimeInv'
<1>1. /\ btAt' = 1 /\ btDoing' \in {"send", "exited"} /\ btStatus' = 0 /\ listened' = 0
  BY BeginFacts
<1>2. HeardBy(btArgs', btAt') = 0
  BY <1>1 DEF HeardBy
<1> QED BY <1>1, <1>2 DEF TimeInv, Timed

LEMMA TimeInvKept ==
  ASSUME BtTypes, TimeInv, BtStep
  PROVE  TimeInv'
<1>1. CASE Bt!send_cmd
  BY <1>1, SendFacts, TimeStay DEF BtTypes
<1>2. CASE Bt!CannotOpen \/ Bt!CannotSend \/ Bt!Interrupt
  BY <1>2, TimeStay DEF Bt!CannotOpen, Bt!CannotSend, Bt!Interrupt, Bt!exit
<1>3. CASE Bt!command_reply \/ Bt!reply_timeout
  <2>1. btDoing = "await" /\ btArgs' = btArgs /\ listened' = listened
    BY <1>3 DEF Bt!command_reply, Bt!reply_timeout
  <2>2. \/ UNCHANGED <<btAt, btDoing, btStatus, elapsed>>
        \/ Bt!Proceed \/ Bt!exit(1)
    BY <1>3 DEF Bt!command_reply, Bt!reply_timeout, Bt!Fails
  <2>3. CASE Bt!Proceed
    BY <2>1, <2>3, TimeProceed
  <2>4. CASE Bt!exit(1) \/ UNCHANGED <<btAt, btDoing, btStatus, elapsed>>
    BY <2>1, <2>4, TimeStay DEF Bt!exit
  <2> QED BY <2>2, <2>3, <2>4
<1>4. CASE Bt!listen_read \/ Bt!listen_timeout
  BY <1>4, TimePass
<1>5. CASE Bt!listen_end
  BY <1>5, TimeProceed DEF Bt!listen_end
<1>6. CASE Bt!Reaped \/ \E args \in Arguments : Bt!Start(args)
  BY <1>6, TimeBegin
<1>7. CASE Bt!Kernel \/ UNCHANGED btVars
  <2>1. UNCHANGED <<btArgs, btAt, btDoing, btStatus, elapsed, devices, listened>>
    BY <1>7, KernelFacts DEF btVars
  <2> QED BY <2>1, TimeStay
<1> QED BY <1>1, <1>2, <1>3, <1>4, <1>5, <1>6, <1>7 DEF BtStep, Bt!Program

LEMMA SecondsShared ==
  ASSUME BtTypes, TimeInv
  PROVE  Bt!ScansShareSeconds
<1>1. SUFFICES ASSUME btDoing = "exited", btStatus = 0, btAt > 2, Measured
      PROVE  listened = btArgs[2] * 1000
  BY DEF Bt!ScansShareSeconds, Measured
<1>2. btArgs \in Arguments /\ btAt \in 1..Len(Bt!Script) /\ btAt = Len(Bt!Script)
  BY <1>1 DEF BtTypes, ProgramTypes, TimeInv
<1>3. HeardBy(btArgs, btAt) = btArgs[2]
  BY <1>1, <1>2, HeardFacts
<1>4. listened = 1000 * HeardBy(btArgs, btAt)
  BY <1>1 DEF TimeInv, Timed
<1>5. btArgs[2] \in Nat
  BY <1>2, Numbers
<1> QED BY <1>3, <1>4, <1>5

-----------------------------------------------------------------------------
(* The Wi-Fi client.                                                       *)

WifiStep ==
  \/ Wifi!Program \/ Wifi!Kernel \/ Wifi!Interrupt \/ Wifi!Reaped \/ Wifi!Start
  \/ UNCHANGED wifiVars

LEMMA WifiConstantsTyped == MaxStations \in Nat /\ MaxErrors \in Nat
BY ToolsAssumption DEF Wifi!WifiAssumption

LEMMA DatagramsTyped ==
  /\ \A of \in {"family", "ack", "scan", "list"}, ok \in BOOLEAN,
        n \in 0..MaxStations, done \in BOOLEAN :
       /\ Wifi!Datagram(of, ok, n, done) \in Wifi!Datagrams
       /\ Wifi!Datagram(of, ok, n, done).of = of /\ Wifi!Datagram(of, ok, n, done).ok = ok
       /\ Wifi!Datagram(of, ok, n, done).bss = n /\ Wifi!Datagram(of, ok, n, done).done = done
BY DEF Wifi!Datagram, Wifi!Datagrams

LEMMA NoAnswer ==
  ASSUME answers' = <<>> PROVE OneAnswer'
BY DEF OneAnswer

LEMMA AnAnswer ==
  ASSUME NEW d \in Wifi!Datagrams, answers' = <<d>> PROVE OneAnswer'
BY DEF OneAnswer

LEMMA OneAppended ==
  ASSUME NEW d PROVE Append(<<>>, d) = <<d>>
OBVIOUS

(* Each kind of step of the Wi-Fi client and its kernel.                   *)
LEMMA WifiAfterStart ==
  ASSUME WifiInv, Wifi!Start \/ Wifi!Reaped
  PROVE  WifiInv'
<1>1. /\ wifiAt' \in {"open", "exited"} /\ wifiStatus' = 0 /\ counted' = 0
      /\ answers' = <<>> /\ dumpFrom' = -1 /\ listed' = 0 /\ asked' = "none"
      /\ UNCHANGED <<scanning, stations, wifiErrors>>
  BY DEF Wifi!Start, Wifi!Reaped, Wifi!radio
<1>2. WifiTypes'
  BY <1>1, WifiConstantsTyped DEF WifiInv, WifiTypes, Wifi!Calls
<1> QED BY <1>1, <1>2, NoAnswer DEF WifiInv, Silent, OneAnswer, Wifi!CountsEveryStation

LEMMA WifiAfterExit ==
  ASSUME WifiInv, wifiAt' = "exited", wifiStatus' \in 1..6 \cup {130},
         wifiErrors' \in 0..MaxErrors, answers' = answers,
         UNCHANGED <<counted, dumpFrom, listed, asked, scanning, stations>>
  PROVE  WifiInv'
<1>1. WifiTypes'
  BY DEF WifiInv, WifiTypes, Wifi!Calls
<1> QED BY <1>1 DEF WifiInv, Wifi!CountsEveryStation, OneAnswer

LEMMA WifiAfterFail ==
  ASSUME WifiInv, Wifi!Fail \/ Wifi!Interrupt
  PROVE  WifiInv'
<1>1. /\ wifiAt' = "exited" /\ answers' = answers
      /\ UNCHANGED <<counted, dumpFrom, listed, asked, scanning, stations>>
  BY DEF Wifi!Fail, Wifi!Interrupt, Wifi!exit, Wifi!netlink, Wifi!radio
<1>2. wifiErrors' \in 0..MaxErrors
  BY WifiConstantsTyped DEF Wifi!Fail, Wifi!Interrupt, Wifi!Error, WifiInv, WifiTypes
<1>3. wifiStatus' \in 1..6 \cup {130}
  <2>1. CASE Wifi!Fail
    BY <2>1 DEF WifiInv, WifiTypes, Wifi!Fail, Wifi!exit, Wifi!Codes, Wifi!Calls
  <2>2. CASE Wifi!Interrupt
    BY <2>2 DEF Wifi!Interrupt, Wifi!exit
  <2> QED BY <2>1, <2>2
<1> QED BY <1>1, <1>2, <1>3, WifiAfterExit

LEMMA WifiAfterPrepare ==
  ASSUME WifiInv, Wifi!Prepare("open", "resolve") \/ Wifi!Prepare("sleep", "dump")
  PROVE  WifiInv'
<1>1. /\ \/ wifiAt = "open" /\ wifiAt' = "resolve"
         \/ wifiAt = "sleep" /\ wifiAt' = "dump"
      /\ UNCHANGED <<wifiStatus, counted, answers, dumpFrom, listed, asked, scanning, stations, wifiErrors>>
  BY DEF Wifi!Prepare, Wifi!Goto, Wifi!netlink, Wifi!radio
<1>2. WifiTypes'
  BY <1>1 DEF WifiInv, WifiTypes, Wifi!Calls
<1> QED BY <1>1, <1>2 DEF WifiInv, Silent, Wifi!CountsEveryStation, OneAnswer

LEMMA WifiAfterSend ==
  ASSUME WifiInv, Wifi!SendResolve \/ Wifi!SendTrigger \/ Wifi!SendDump
  PROVE  WifiInv'
<1>1. CASE Wifi!SendResolve
  <2>1. /\ wifiAt' = "family" /\ asked' = "family" /\ counted = 0 /\ answers = <<>> /\ dumpFrom = -1
        /\ UNCHANGED <<wifiStatus, counted, dumpFrom, listed, scanning, stations, wifiErrors>>
        /\ answers' = <<>> \o Wifi!FamilyAnswer
    BY <1>1 DEF Wifi!SendResolve, Wifi!Goto, Wifi!radio, WifiInv, Silent
  <2>2. answers' = <<Wifi!Datagram("family", TRUE, 0, FALSE)>>
    BY <2>1 DEF Wifi!FamilyAnswer
  <2>3. OneAnswer'
    <3>1. Wifi!Datagram("family", TRUE, 0, FALSE) \in Wifi!Datagrams
      BY WifiConstantsTyped DEF Wifi!Datagram, Wifi!Datagrams
    <3> QED BY <2>2, <3>1, AnAnswer, Zenon
  <2>4. WifiTypes'
    BY <2>1 DEF WifiInv, WifiTypes, Wifi!Calls
  <2> QED BY <2>1, <2>2, <2>3, <2>4 DEF WifiInv, OneAnswer, Wifi!CountsEveryStation, Wifi!FamilyAnswer
<1>2. CASE Wifi!SendTrigger
  <2>1. /\ wifiAt' = "started" /\ asked' = "scan" /\ counted = 0 /\ answers = <<>> /\ dumpFrom = -1
        /\ UNCHANGED <<wifiStatus, counted, dumpFrom, listed, stations, wifiErrors>>
        /\ scanning' \in BOOLEAN
        /\ \E ok \in BOOLEAN : answers' = Append(<<>>, Wifi!Datagram("scan", ok, 0, FALSE))
    BY <1>2 DEF Wifi!SendTrigger, Wifi!Goto, Wifi!radio, WifiInv, WifiTypes, Silent
  <2>2. PICK ok \in BOOLEAN : answers' = <<Wifi!Datagram("scan", ok, 0, FALSE)>>
    BY <2>1, OneAppended, Zenon
  <2>3. OneAnswer'
    <3>1. Wifi!Datagram("scan", ok, 0, FALSE) \in Wifi!Datagrams
      BY WifiConstantsTyped DEF Wifi!Datagram, Wifi!Datagrams
    <3> QED BY <2>2, <3>1, AnAnswer, Zenon
  <2>4. WifiTypes'
    BY <2>1 DEF WifiInv, WifiTypes, Wifi!Calls
  <2> QED BY <2>1, <2>2, <2>3, <2>4 DEF WifiInv, OneAnswer, Wifi!CountsEveryStation
<1>3. CASE Wifi!SendDump
  <2>1. /\ wifiAt' = "list" /\ asked' = "list" /\ dumpFrom' = 0 /\ counted = 0 /\ answers = <<>>
        /\ UNCHANGED <<wifiStatus, counted, answers, listed, scanning, stations, wifiErrors>>
    BY <1>3 DEF Wifi!SendDump, Wifi!Goto, Wifi!radio, WifiInv, Silent
  <2>2. OneAnswer'
    BY <2>1, NoAnswer
  <2>3. WifiTypes' /\ stations \in Nat
    BY <2>1, WifiConstantsTyped DEF WifiInv, WifiTypes, Wifi!Calls
  <2>4. ListInv'
    BY <2>1, <2>3 DEF ListInv
  <2> QED BY <2>1, <2>2, <2>3, <2>4 DEF WifiInv, OneAnswer, Wifi!CountsEveryStation
<1> QED BY <1>1, <1>2, <1>3

(* The one datagram on its way, read.                                      *)
LEMMA OneRead ==
  ASSUME NEW d, answers = <<d>>
  PROVE  Head(answers) = d /\ Tail(answers) = <<>> /\ answers # <<>> /\ answers[1] = d
OBVIOUS

LEMMA WifiAfterRead ==
  ASSUME WifiInv, Wifi!ReadFamily \/ Wifi!ReadStarted
  PROVE  WifiInv'
<1>1. CASE Wifi!ReadFamily
  <2>1. /\ answers = <<Wifi!Datagram("family", TRUE, 0, FALSE)>>
        /\ dumpFrom = -1 /\ counted = 0 /\ asked = "family"
    BY <1>1 DEF Wifi!ReadFamily, WifiInv, Wifi!FamilyAnswer
  <2>2. Head(answers).of = "family" /\ Tail(answers) = <<>>
    <3>1. Head(answers) = Wifi!Datagram("family", TRUE, 0, FALSE) /\ Tail(answers) = <<>>
      BY <2>1, OneRead
    <3> QED BY <3>1 DEF Wifi!Datagram
  <2>3. /\ wifiAt' = "trigger" /\ answers' = <<>>
        /\ UNCHANGED <<wifiStatus, counted, dumpFrom, listed, asked, scanning, stations, wifiErrors>>
    BY <1>1, <2>2 DEF Wifi!ReadFamily, Wifi!Goto, Wifi!radio
  <2>4. WifiTypes'
    BY <2>3 DEF WifiInv, WifiTypes, Wifi!Calls
  <2> QED BY <2>1, <2>3, <2>4, NoAnswer DEF WifiInv, Silent, OneAnswer, Wifi!CountsEveryStation
<1>2. CASE Wifi!ReadStarted
  <2>1. /\ dumpFrom = -1 /\ counted = 0 /\ asked = "scan"
        /\ \E ok \in BOOLEAN : answers = <<Wifi!Datagram("scan", ok, 0, FALSE)>>
    BY <1>2 DEF Wifi!ReadStarted, WifiInv
  <2>2. Tail(answers) = <<>>
    BY <2>1, OneRead
  <2>3. /\ \/ wifiAt' = "sleep" /\ wifiStatus' = wifiStatus
           \/ wifiAt' = "exited" /\ wifiStatus' = 5
        /\ answers' = <<>>
        /\ UNCHANGED <<counted, dumpFrom, listed, asked, scanning, stations, wifiErrors>>
    BY <1>2, <2>2 DEF Wifi!ReadStarted, Wifi!Goto, Wifi!exit, Wifi!radio
  <2>4. WifiTypes'
    BY <2>3 DEF WifiInv, WifiTypes, Wifi!Calls
  <2> QED BY <2>1, <2>3, <2>4, NoAnswer DEF WifiInv, Silent, OneAnswer, Wifi!CountsEveryStation
<1> QED BY <1>1, <1>2

(* The part of the list that was sent and is on its way.                   *)
LEMMA WifiAfterList ==
  ASSUME WifiInv, Wifi!ReadList
  PROVE  WifiInv'
<1>1. /\ ListInv /\ asked = "list" /\ wifiAt = "list" /\ answers # <<>>
      /\ UNCHANGED <<dumpFrom, listed, asked, scanning, stations, wifiErrors>>
      /\ counted \in Nat /\ MaxStations \in Nat /\ dumpFrom \in -1..MaxStations /\ listed \in 0..MaxStations
      /\ stations \in 0..MaxStations
  BY WifiConstantsTyped DEF WifiInv, WifiTypes, Wifi!ReadList, Wifi!radio
<1>2. CASE \E n \in 0..MaxStations, done \in BOOLEAN :
             /\ answers = <<Wifi!Datagram("list", TRUE, n, done)>>
             /\ IF done THEN dumpFrom = -1 /\ counted + n = listed
                        ELSE dumpFrom >= 0 /\ counted + n = dumpFrom /\ dumpFrom <= stations
  <2>1. PICK n \in 0..MaxStations, done \in BOOLEAN :
             /\ answers = <<Wifi!Datagram("list", TRUE, n, done)>>
             /\ IF done THEN dumpFrom = -1 /\ counted + n = listed
                        ELSE dumpFrom >= 0 /\ counted + n = dumpFrom /\ dumpFrom <= stations
    BY <1>2
  <2>2. Head(answers) = Wifi!Datagram("list", TRUE, n, done) /\ Tail(answers) = <<>>
    BY <2>1, OneRead
  <2>3. /\ Head(answers).ok = TRUE /\ Head(answers).of = "list"
        /\ Head(answers).bss = n /\ Head(answers).done = done
    BY <2>2 DEF Wifi!Datagram
  <2>4. counted' = counted + n /\ answers' = <<>>
    BY <1>1, <2>2, <2>3 DEF Wifi!ReadList
  <2>5. OneAnswer'
    BY <2>4, NoAnswer
  <2>6. CASE done
    <3>1. wifiAt' = "exited" /\ wifiStatus' = IF counted' = 0 THEN 7 ELSE 0
      BY <1>1, <2>2, <2>3, <2>6 DEF Wifi!ReadList, Wifi!Ends, Wifi!exit
    <3>2. counted' = listed'
      BY <1>1, <2>1, <2>4, <2>6
    <3>3. WifiTypes'
      BY <1>1, <3>1, <3>2 DEF WifiInv, WifiTypes
    <3>4. Wifi!CountsEveryStation'
      BY <3>1, <3>2 DEF Wifi!CountsEveryStation
    <3> QED BY <2>5, <3>1, <3>3, <3>4 DEF WifiInv, OneAnswer, Wifi!Calls
  <2>7. CASE ~done
    <3>1. wifiAt' = "list" /\ wifiStatus' = wifiStatus
      BY <1>1, <2>2, <2>3, <2>7 DEF Wifi!ReadList, Wifi!Ends, Wifi!Goto
    <3>2. counted' = dumpFrom' /\ dumpFrom' >= 0 /\ dumpFrom' <= stations'
      BY <1>1, <2>1, <2>4, <2>7
    <3>3. WifiTypes'
      BY <1>1, <3>1, <3>2 DEF WifiInv, WifiTypes
    <3>4. ListInv'
      BY <2>4, <3>2 DEF ListInv
    <3> QED BY <1>1, <2>5, <3>1, <3>3, <3>4 DEF WifiInv, OneAnswer, Wifi!CountsEveryStation
  <2> QED BY <2>6, <2>7
<1>3. CASE answers = <<Wifi!Datagram("list", FALSE, 0, TRUE)>>
  <2>1. Head(answers) = Wifi!Datagram("list", FALSE, 0, TRUE) /\ Tail(answers) = <<>>
    BY <1>3, OneRead
  <2>2. Head(answers).ok = FALSE /\ Head(answers).bss = 0
    BY <2>1 DEF Wifi!Datagram
  <2>3. counted' = counted + 0 /\ answers' = <<>> /\ wifiAt' = "exited" /\ wifiStatus' = 6
    BY <1>1, <2>1, <2>2 DEF Wifi!ReadList, Wifi!exit
  <2>4. counted' = counted
    BY <1>1, <2>3
  <2>5. WifiTypes'
    BY <1>1, <2>3, <2>4 DEF WifiInv, WifiTypes
  <2> QED BY <2>3, <2>5, NoAnswer DEF WifiInv, OneAnswer, Wifi!CountsEveryStation
<1> QED BY <1>1, <1>2, <1>3 DEF ListInv

LEMMA WifiAfterKernel ==
  ASSUME WifiInv, Wifi!Kernel
  PROVE  WifiInv'
<1>1. CASE Wifi!SendList
  <2>1. PICK n \in 0..stations - dumpFrom, done \in BOOLEAN :
          /\ done => dumpFrom + n = stations
          /\ answers' = <<Wifi!Datagram("list", TRUE, n, done)>>
          /\ dumpFrom' = (IF done THEN -1 ELSE dumpFrom + n)
          /\ listed' = (IF done THEN stations ELSE listed)
    BY <1>1 DEF Wifi!SendList
  <2>2. /\ wifiAt = "list" /\ dumpFrom >= 0 /\ answers = <<>> /\ ListInv
        /\ UNCHANGED <<wifiAt, wifiStatus, counted, asked, scanning, stations, wifiErrors>>
    BY <1>1 DEF Wifi!SendList, Wifi!client, Wifi!radio, WifiInv
  <2>3. /\ dumpFrom \in 0..MaxStations /\ stations \in 0..MaxStations /\ MaxStations \in Nat
        /\ listed \in 0..MaxStations /\ counted \in Nat
    BY <2>2, WifiConstantsTyped DEF WifiInv, WifiTypes
  <2>4. counted = dumpFrom /\ dumpFrom <= stations
    <3>1. \A d : answers # <<d>>
      BY <2>2
    <3> QED BY <2>2, <3>1 DEF ListInv
  <2>5. n \in 0..MaxStations
    BY <2>1, <2>3, <2>4
  <2>6. OneAnswer'
    <3>1. Wifi!Datagram("list", TRUE, n, done) \in Wifi!Datagrams
      BY <2>5 DEF Wifi!Datagram, Wifi!Datagrams
    <3> QED BY <2>1, <3>1, AnAnswer, Zenon
  <2>7. IF done THEN dumpFrom' = -1 /\ counted' + n = listed'
                ELSE dumpFrom' >= 0 /\ counted' + n = dumpFrom' /\ dumpFrom' <= stations'
    BY <2>1, <2>2, <2>3, <2>4
  <2>8. ListInv'
    BY <2>1, <2>5, <2>7 DEF ListInv
  <2>9. dumpFrom' \in -1..MaxStations /\ listed' \in 0..MaxStations
    BY <2>1, <2>3, <2>4
  <2>10. WifiTypes'
    BY <2>2, <2>9 DEF WifiInv, WifiTypes
  <2> QED BY <2>2, <2>6, <2>8, <2>10 DEF WifiInv, OneAnswer, Wifi!CountsEveryStation
<1>2. CASE Wifi!ListFails
  <2>1. /\ wifiAt = "list" /\ dumpFrom' = -1 /\ answers' = <<Wifi!Datagram("list", FALSE, 0, TRUE)>>
        /\ UNCHANGED <<wifiAt, wifiStatus, counted, listed, asked, scanning, stations>>
        /\ wifiErrors' \in 0..MaxErrors
    BY <1>2, WifiConstantsTyped DEF Wifi!ListFails, Wifi!client, Wifi!radio, Wifi!Error, WifiInv, WifiTypes
  <2>2. OneAnswer'
    <3>1. Wifi!Datagram("list", FALSE, 0, TRUE) \in Wifi!Datagrams
      BY WifiConstantsTyped DEF Wifi!Datagram, Wifi!Datagrams
    <3> QED BY <2>1, <3>1, AnAnswer, Zenon
  <2>3. WifiTypes'
    BY <2>1, WifiConstantsTyped DEF WifiInv, WifiTypes
  <2> QED BY <2>1, <2>2, <2>3 DEF WifiInv, OneAnswer, ListInv, Wifi!CountsEveryStation
<1>3. CASE Wifi!StationHeard \/ Wifi!ScanEnds \/ Wifi!Expire
  <2>1. /\ UNCHANGED <<wifiAt, wifiStatus, counted, answers, dumpFrom, listed, asked, wifiErrors>>
        /\ scanning' \in BOOLEAN /\ stations' \in 0..MaxStations
        /\ dumpFrom >= 0 => stations' >= stations
    <3>1. scanning \in BOOLEAN /\ stations \in 0..MaxStations /\ MaxStations \in Nat
      BY WifiConstantsTyped DEF WifiInv, WifiTypes
    <3>2. CASE Wifi!StationHeard
      <4>1. stations < MaxStations /\ stations' = stations + 1 /\ scanning' = scanning
        BY <3>2 DEF Wifi!StationHeard
      <4>2. UNCHANGED <<wifiAt, wifiStatus, counted, answers, dumpFrom, listed, asked, wifiErrors>>
        BY <3>2 DEF Wifi!StationHeard, Wifi!client, Wifi!netlink
      <4>3. stations' \in 0..MaxStations /\ stations' >= stations
        BY ONLY <3>1, <4>1
      <4> QED BY <3>1, <4>1, <4>2, <4>3
    <3>3. CASE Wifi!ScanEnds
      <4>1. scanning' = FALSE /\ stations' = stations
        BY <3>3 DEF Wifi!ScanEnds
      <4>2. UNCHANGED <<wifiAt, wifiStatus, counted, answers, dumpFrom, listed, asked, wifiErrors>>
        BY <3>3 DEF Wifi!ScanEnds, Wifi!client, Wifi!netlink
      <4>3. stations' \in 0..MaxStations /\ scanning' \in BOOLEAN
        BY <3>1, <4>1
      <4>4. dumpFrom >= 0 => stations' >= stations
        BY <3>1, <4>1
      <4> QED BY <4>2, <4>3, <4>4
    <3>4. CASE Wifi!Expire
      <4>1. dumpFrom = -1 /\ stations' = 0 /\ scanning' = scanning
        BY <3>4 DEF Wifi!Expire
      <4>2. UNCHANGED <<wifiAt, wifiStatus, counted, answers, dumpFrom, listed, asked, wifiErrors>>
        BY <3>4 DEF Wifi!Expire, Wifi!client, Wifi!netlink
      <4>3. stations' \in 0..MaxStations /\ scanning' \in BOOLEAN
        BY <3>1, <4>1
      <4>4. dumpFrom >= 0 => stations' >= stations
        BY <3>1, <4>1
      <4> QED BY <4>2, <4>3, <4>4
    <3> QED BY <1>3, <3>2, <3>3, <3>4
  <2>2. WifiTypes'
    BY <2>1 DEF WifiInv, WifiTypes
  <2>3. ListInv => ListInv'
    <3>1. stations \in Nat /\ dumpFrom \in Int /\ stations' \in Nat
      BY <2>1, WifiConstantsTyped DEF WifiInv, WifiTypes
    <3>2. dumpFrom >= 0 /\ dumpFrom <= stations => dumpFrom <= stations'
      BY <2>1, <3>1
    <3> QED BY <2>1, <3>2 DEF ListInv
  <2> QED BY <2>1, <2>2, <2>3 DEF WifiInv, Silent, OneAnswer, Wifi!CountsEveryStation
<1> QED BY <1>1, <1>2, <1>3 DEF Wifi!Kernel

LEMMA WifiInvKept ==
  ASSUME WifiInv, WifiStep
  PROVE  WifiInv'
<1>1. CASE UNCHANGED wifiVars
  BY <1>1 DEF wifiVars, WifiInv, WifiTypes, Silent, ListInv, OneAnswer, Wifi!CountsEveryStation
<1> QED BY <1>1, WifiAfterStart, WifiAfterFail, WifiAfterPrepare, WifiAfterSend, WifiAfterRead,
        WifiAfterList, WifiAfterKernel DEF WifiStep, Wifi!Program

LEMMA WifiTyped ==
  ASSUME WifiInv PROVE Wifi!TypeOK
BY DEF WifiInv, WifiTypes, OneAnswer, Wifi!TypeOK

(* What is read answers what was asked last.                               *)
LEMMA WifiAnswersMatch ==
  ASSUME WifiInv, WifiStep, Len(answers') < Len(answers), wifiAt # "exited"
  PROVE  Head(answers).of = asked
<1>1. ASSUME NEW d, answers = <<d>> PROVE Head(answers) = d
  BY <1>1, OneRead
<1>2. answers # <<>>
  <2>1. SUFFICES ASSUME answers = <<>> PROVE FALSE
    OBVIOUS
  <2>2. OneAnswer'
    BY WifiInvKept DEF WifiInv, OneAnswer
  <2>3. Len(answers') \in Nat /\ Len(answers) = 0
    BY <2>1, <2>2 DEF OneAnswer
  <2> QED BY <2>3
<1>3. wifiAt \in {"family", "started", "list"}
  BY <1>2 DEF WifiInv, WifiTypes, Wifi!Calls, Silent
<1>4. CASE wifiAt = "family"
  BY <1>1, <1>4 DEF WifiInv, Wifi!FamilyAnswer, Wifi!Datagram
<1>5. CASE wifiAt = "started"
  BY <1>1, <1>5 DEF WifiInv, Wifi!Datagram
<1>6. CASE wifiAt = "list"
  BY <1>1, <1>2, <1>6 DEF WifiInv, ListInv, Wifi!Datagram
<1> QED BY <1>3, <1>4, <1>5, <1>6

-----------------------------------------------------------------------------
(* Both tools, and the answers they act on.                                *)

ToolsInv == BtTypes /\ FoundInv /\ ChannelInv /\ TimeInv /\ WifiInv

(* The lines of the script are invocations.                                *)
LEMMA LineIs ==
  ASSUME NEW n \in 1..Lines
  PROVE  \/ Line(n) = <<"wifi">>
         \/ Line(n) \in Arguments /\ Line(n) # <<"wifi">>
<1>1. /\ <<"info", 0>> # <<"wifi">>
      /\ <<"le-scan", Seconds>> # <<"wifi">> /\ <<"bredr-scan", Seconds>> # <<"wifi">>
  OBVIOUS
<1>2. CASE n = 1
  BY <1>1, <1>2, ScriptAssumption DEF Line
<1>3. CASE n # 1
  <2>1. Cycles \in Nat
    BY ScriptAssumption
  <2>2. n \in Nat /\ n >= 2
    BY <1>3, <2>1 DEF Lines
  <2>3. PICK k \in 1..3 : k = ((n - 2) % 3) + 1
    BY <2>2
  <2>4. Line(n) = Cycle[k]
    BY <1>3, <2>3 DEF Line
  <2>5. Cycle[k] \in {<<"wifi">>, <<"le-scan", Seconds>>, <<"bredr-scan", Seconds>>}
    BY DEF Cycle
  <2> QED BY <1>1, <2>4, <2>5, ScriptAssumption
<1> QED BY <1>2, <1>3

LEMMA RunSteps ==
  ASSUME NEW i, i = <<"wifi">> \/ i \in Arguments, Idle, Run(i)
  PROVE  BtStep /\ WifiStep
BY DEF Run, Idle, BtStep, WifiStep

(* Every step of the system is a step of each tool, or leaves it alone.    *)
LEMMA NextParts ==
  ASSUME [Next]_vars
  PROVE  BtStep /\ WifiStep
<1>1. CASE ByHand
  <2>1. PICK i \in Arguments \cup {<<"wifi">>} : Run(i)
    BY <1>1 DEF ByHand
  <2> QED BY <1>1, <2>1, RunSteps DEF ByHand
<1>2. CASE NextLine
  BY <1>2, LineIs, RunSteps DEF NextLine
<1>3. CASE StartScript \/ EndOfScript \/ Prompt \/ UNCHANGED vars
  BY <1>3 DEF StartScript, EndOfScript, Prompt, vars, BtStep, WifiStep
<1>4. CASE Interrupt
  BY <1>4 DEF Interrupt, BtStep, WifiStep
<1>5. CASE ToolStep
  BY <1>5 DEF ToolStep, BtStep, WifiStep
<1> QED BY <1>1, <1>2, <1>3, <1>4, <1>5 DEF Next

LEMMA ToolsInvInit ==
  ASSUME Init PROVE ToolsInv
<1>1. /\ btArgs \in Arguments /\ btAt = 1 /\ btDoing = "exited" /\ btStatus = 0
      /\ elapsed = 0 /\ devices = 0 /\ listened = 0 /\ socket = <<>> /\ pending = {}
      /\ powered = FALSE /\ le = FALSE /\ discovery = "none" /\ own = FALSE
      /\ btEvents = 0 /\ btErrors = 0
  BY DEF Init, Bt!Init
<1>2. Orderly(Bt!Script)
  BY <1>1, ScriptFacts
<1>3. BtTypes
  <2>1. <<>> \in Seq(Bt!Messages)
    OBVIOUS
  <2>2. ChannelTypes
    BY <1>1, <2>1 DEF ChannelTypes
  <2>3. ProgramTypes
    BY <1>1, <1>2, BtConstantsTyped DEF ProgramTypes, BtConstants, Orderly
  <2>4. SettingTypes
    <3>1. /\ powered \in BOOLEAN /\ le \in BOOLEAN /\ own \in BOOLEAN
          /\ discovery \in {"none", "br-edr", "le"}
      BY <1>1, Zenon
    <3>2. btEvents \in 0..MaxEvents /\ btErrors \in 0..MaxErrors
      BY <1>1, BtConstantsTyped DEF BtConstants
    <3> QED BY <3>1, <3>2 DEF SettingTypes
  <2> QED BY <2>2, <2>3, <2>4 DEF BtTypes
<1>4. FoundInv
  BY <1>1, FoundNone DEF FoundInv
<1>5. ChannelInv
  BY <1>1 DEF ChannelInv, RepliesInv, OnceInv, MetInv, ListenInv
<1>6. TimeInv
  <2>1. HeardBy(btArgs, btAt) = 0
    BY <1>1 DEF HeardBy
  <2> QED BY <1>1, <2>1 DEF TimeInv, Timed
<1>7. WifiInv
  <2>1. /\ wifiAt = "exited" /\ wifiStatus = 0 /\ counted = 0 /\ answers = <<>> /\ dumpFrom = -1
        /\ listed = 0 /\ asked = "none" /\ scanning = FALSE /\ stations = 0 /\ wifiErrors = 0
    BY DEF Init, Wifi!Init
  <2>2. OneAnswer
    BY <2>1 DEF OneAnswer
  <2>3. WifiTypes
    <3>1. /\ scanning \in BOOLEAN /\ wifiAt \in Wifi!Calls \cup {"exited"}
          /\ asked \in {"none", "family", "scan", "list"}
      BY <2>1, Zenon
    <3>2. /\ wifiStatus \in 0..7 \cup {130} /\ counted \in 0..MaxStations /\ wifiErrors \in 0..MaxErrors
          /\ dumpFrom \in -1..MaxStations /\ listed \in 0..MaxStations /\ stations \in 0..MaxStations
      BY <2>1, WifiConstantsTyped
    <3> QED BY <3>1, <3>2 DEF WifiTypes
  <2> QED BY <2>1, <2>2, <2>3 DEF WifiInv, Silent, Wifi!CountsEveryStation
<1> QED BY <1>3, <1>4, <1>5, <1>6, <1>7 DEF ToolsInv

LEMMA ToolsInvKept ==
  ASSUME ToolsInv, BtStep, WifiStep PROVE ToolsInv'
BY BtTypesKept, FoundInvKept, ChannelInvKept, TimeInvKept, WifiInvKept DEF ToolsInv

LEMMA ToolsHold == Spec => []ToolsInv
<1>1. ToolsInv /\ [Next]_vars => ToolsInv'
  BY NextParts, ToolsInvKept
<1> QED BY <1>1, ToolsInvInit, PTL DEF Spec

(* The steps that read a reply, and that count a device.                   *)
LEMMA RepliesMatchStep ==
  ASSUME ToolsInv, BtStep, btDoing = "await", btDoing' # "await", Len(socket') < Len(socket)
  PROVE  Head(socket).last
<1>1. Len(socket) \in Nat
  BY DEF ToolsInv, BtTypes, ChannelTypes
<1>2. Bt!command_reply
  <2>1. CASE Bt!Kernel \/ UNCHANGED btVars
    <3>1. btDoing' = btDoing
      BY <2>1, KernelFacts DEF btVars, ToolsInv
    <3> QED BY <3>1
  <2>2. CASE \/ Bt!CannotOpen \/ Bt!send_cmd \/ Bt!CannotSend \/ Bt!listen_read \/ Bt!listen_timeout
             \/ Bt!listen_end \/ \E args \in Arguments : Bt!Start(args)
    BY <2>2 DEF Bt!CannotOpen, Bt!send_cmd, Bt!CannotSend, Bt!listen_read, Bt!listen_timeout,
       Bt!listen_end, Bt!Start
  <2>3. CASE Bt!reply_timeout \/ Bt!Interrupt
    BY <1>1, <2>3 DEF Bt!reply_timeout, Bt!Interrupt
  <2> QED BY <2>1, <2>2, <2>3 DEF BtStep, Bt!Program
<1>3. Taken(socket', socket) /\ Head(socket) = socket[1]
  BY <1>2, ReadFacts DEF Bt!command_reply, ToolsInv
<1>4. Bt!Wanted(socket[1])
  BY <1>2, <1>3 DEF Bt!command_reply
<1>5. 1 \in 1..Len(socket) /\ IsReply(socket[1]) /\ socket[1].op = Bt!Now.op
  BY <1>1, <1>3, <1>4 DEF Bt!Wanted, IsReply, Taken
<1>6. Fits(socket[1].op, socket[1].last)
  BY <1>5 DEF ToolsInv, ChannelInv, RepliesInv
<1> QED BY <1>3, <1>5, <1>6 DEF Fits, AfterStop

LEMMA CountsOwnStep ==
  ASSUME ToolsInv, BtStep
  PROVE  Bt!CountsOwnScan
<1>1. SUFFICES ASSUME devices' > devices PROVE Head(socket).own
  BY DEF Bt!CountsOwnScan
<1>2. devices \in Nat
  BY DEF ToolsInv, BtTypes, ProgramTypes
<1>3. Bt!listen_read
  <2>1. CASE Bt!Kernel
    BY <1>1, <1>2, <2>1, KernelFacts DEF ToolsInv
  <2>2. CASE Bt!Reaped \/ \E args \in Arguments : Bt!Start(args)
    <3>1. devices' = 0
      BY <2>2, BeginFacts DEF ToolsInv
    <3> QED BY <1>1, <1>2, <3>1
  <2>3. CASE \/ Bt!CannotOpen \/ Bt!send_cmd \/ Bt!CannotSend \/ Bt!listen_timeout \/ Bt!command_reply
             \/ Bt!listen_end \/ Bt!reply_timeout \/ Bt!Interrupt \/ UNCHANGED btVars
    <3>1. devices' = devices
      BY <2>3 DEF Bt!CannotOpen, Bt!send_cmd, Bt!CannotSend, Bt!listen_timeout,
         Bt!command_reply, Bt!listen_end, Bt!reply_timeout, Bt!Interrupt, btVars
    <3> QED BY <1>1, <1>2, <3>1
  <2> QED BY <2>1, <2>2, <2>3 DEF BtStep, Bt!Program
<1>4. Taken(socket', socket) /\ Head(socket) = socket[1]
  BY <1>3, ReadFacts DEF Bt!listen_read, ToolsInv
<1>5. socket[1].event = "found"
  BY <1>1, <1>2, <1>3, <1>4 DEF Bt!listen_read
<1> QED BY <1>3, <1>4, <1>5 DEF ToolsInv, ChannelInv, ListenInv, Bt!listen_read, Taken

(* A reply that ends a wait is the reply to the last request, and what the *)
(* Wi-Fi client reads answers what it asked last, whatever an earlier run left*)
(* unanswered (BtMgmt's RepliesMatch, WifiScan's AnswersMatch).            *)
THEOREM AnswersMatched == Spec => AnswersMatch
<1>1. ToolsInv /\ [Next]_vars =>
        [btDoing = "await" /\ btDoing' # "await" /\ Len(socket') < Len(socket) => Head(socket).last]_Bt!btVars
  BY NextParts, RepliesMatchStep
<1>2. ToolsInv /\ [Next]_vars =>
        [Len(answers') < Len(answers) /\ wifiAt # "exited" => Head(answers).of = asked]_Wifi!wifiVars
  BY NextParts, WifiAnswersMatch DEF ToolsInv
<1>3. Spec => Bt!RepliesMatch
  BY <1>1, ToolsHold, PTL DEF Spec, Bt!RepliesMatch
<1>4. Spec => Wifi!AnswersMatch
  BY <1>2, ToolsHold, PTL DEF Spec, Wifi!AnswersMatch
<1> QED BY <1>3, <1>4 DEF AnswersMatch

(* Only devices that the run's own discovery found are counted, and a Wi-Fi*)
(* client that ends well has counted every station of the list.            *)
THEOREM CountedFound == Spec => CountsWhatWasFound
<1>1. ToolsInv /\ [Next]_vars => [Bt!CountsOwnScan /\ Wifi!CountsEveryStation']_vars
  <2>1. SUFFICES ASSUME ToolsInv, [Next]_vars PROVE Bt!CountsOwnScan /\ Wifi!CountsEveryStation'
    OBVIOUS
  <2>2. ToolsInv'
    BY <2>1, NextParts, ToolsInvKept
  <2> QED BY <2>1, <2>2, NextParts, CountsOwnStep DEF ToolsInv, WifiInv
<1> QED BY <1>1, ToolsHold, PTL DEF Spec, CountsWhatWasFound

-----------------------------------------------------------------------------
(* When a scan begins.                                                     *)

(* A Wi-Fi scan begins, once, when the kernel accepts the request, and no  *)
(* run succeeds without one.                                               *)
LEMMA WifiBegins ==
  ASSUME WifiInv, Wifi!Program \/ Wifi!Kernel
  PROVE  /\ wifiAt' # "exited" => (WifiBegun' <=> WifiBegun \/ Begun("wifi"))
         /\ Begun("wifi") => ~WifiBegun /\ wifiAt' # "exited"
         /\ wifiAt' = "exited" /\ wifiStatus' = 0 /\ wifiAt # "exited" => WifiBegun
         /\ wifiAt = "exited" => wifiAt' = "exited" /\ wifiStatus' = wifiStatus
<1>1. CASE Wifi!SendTrigger
  <2>1. wifiAt = "trigger" /\ wifiAt' = "started" /\ answers = <<>>
    BY <1>1 DEF Wifi!SendTrigger, Wifi!Goto, WifiInv, Silent
  <2>2. CASE scanning
    <3>1. answers' = <<Wifi!Datagram("scan", FALSE, 0, FALSE)>>
      BY <1>1, <2>1, <2>2, OneAppended, Zenon DEF Wifi!SendTrigger
    <3>2. answers'[1].ok = FALSE
      BY <3>1 DEF Wifi!Datagram
    <3> QED BY <2>1, <2>2, <3>2 DEF WifiBegun, Begun
  <2>3. CASE ~scanning
    <3>1. answers' = <<Wifi!Datagram("scan", TRUE, 0, FALSE)>> /\ scanning' = TRUE
      BY <1>1, <2>1, <2>3, OneAppended, Zenon DEF Wifi!SendTrigger
    <3>2. answers'[1].ok = TRUE
      BY <3>1 DEF Wifi!Datagram
    <3> QED BY <2>1, <2>3, <3>1, <3>2 DEF WifiBegun, Begun
  <2> QED BY <2>2, <2>3
<1>2. CASE ~Wifi!SendTrigger
  <2>1. scanning' => scanning
    BY <1>2 DEF Wifi!Program, Wifi!Kernel, Wifi!Prepare, Wifi!SendResolve, Wifi!ReadFamily, Wifi!ReadStarted,
       Wifi!SendDump, Wifi!ReadList, Wifi!Fail, Wifi!SendList, Wifi!ListFails, Wifi!StationHeard,
       Wifi!ScanEnds, Wifi!Expire, Wifi!radio
  <2>2. ~Begun("wifi")
    BY <2>1 DEF Begun
  <2>3. CASE Wifi!Kernel
    <3>1. wifiAt' = wifiAt /\ wifiStatus' = wifiStatus /\ (wifiAt # "list" => answers' = answers)
      BY <2>3 DEF Wifi!Kernel, Wifi!SendList, Wifi!ListFails, Wifi!StationHeard,
         Wifi!ScanEnds, Wifi!Expire, Wifi!client, Wifi!netlink
    <3> QED BY <2>2, <3>1 DEF WifiBegun
  <2>4. CASE \/ Wifi!Prepare("open", "resolve") \/ Wifi!Prepare("sleep", "dump")
             \/ Wifi!SendResolve \/ Wifi!SendDump
    BY <2>2, <2>4 DEF Wifi!Prepare, Wifi!SendResolve, Wifi!SendDump, Wifi!Goto, WifiBegun
  <2>5. CASE Wifi!Fail
    <3>1. wifiAt' = "exited" /\ wifiStatus' # 0 /\ wifiAt # "exited"
      BY <2>5 DEF Wifi!Fail, Wifi!exit, Wifi!Codes, WifiInv, WifiTypes, Wifi!Calls
    <3> QED BY <2>2, <3>1
  <2>6. CASE Wifi!ReadFamily
    <3>1. wifiAt = "family" /\ (wifiAt' = "trigger" \/ (wifiAt' = "exited" /\ wifiStatus' = 4))
      BY <2>6 DEF Wifi!ReadFamily, Wifi!Goto, Wifi!exit
    <3> QED BY <2>2, <3>1 DEF WifiBegun
  <2>7. CASE Wifi!ReadStarted
    <3>1. PICK ok \in BOOLEAN : answers = <<Wifi!Datagram("scan", ok, 0, FALSE)>>
      BY <2>7 DEF Wifi!ReadStarted, WifiInv
    <3>2. Head(answers) = answers[1]
      BY <3>1, OneRead
    <3>3. /\ wifiAt = "started"
          /\ \/ wifiAt' = "sleep" /\ answers[1].ok
             \/ wifiAt' = "exited" /\ wifiStatus' = 5
      BY <2>7, <3>2 DEF Wifi!ReadStarted, Wifi!Goto, Wifi!exit
    <3> QED BY <2>2, <3>3 DEF WifiBegun
  <2>8. CASE Wifi!ReadList
    <3>1. wifiAt = "list" /\ wifiAt' \in {"list", "exited"}
      BY <2>8 DEF Wifi!ReadList, Wifi!Goto, Wifi!exit
    <3> QED BY <2>2, <3>1 DEF WifiBegun
  <2> QED BY <1>2, <2>3, <2>4, <2>5, <2>6, <2>7, <2>8 DEF Wifi!Program
<1> QED BY <1>1, <1>2

(* A script with one scan: it ends with the STOP.                          *)
ScanRadio == IF btArgs[1] = "le-scan" THEN "le" ELSE "br-edr"

LEMMA ScanFacts ==
  ASSUME btArgs \in Arguments, btAt \in 1..Len(Bt!Script), btArgs[1] \in {"le-scan", "bredr-scan"}
  PROVE  /\ btAt = Len(Bt!Script) <=> Bt!Now.op = "STOP"
         /\ Bt!Starts(Bt!Now.op) => Bt!Type(Bt!Now.op) = ScanRadio
<1>1. PICK S : S = Bt!Script
  OBVIOUS
<1>2. Shape(btArgs, S) /\ Bt!Now = S[btAt] /\ btAt \in 1..Len(S) /\ btArgs[2] \in Int
  BY <1>1, ScriptFacts, Numbers DEF Bt!Now
<1>3. CASE btArgs[1] = "bredr-scan"
  <2>1. /\ Len(S) = 5 /\ S[1].op = "READ_INDEX_LIST" /\ S[2].op = "SET_POWERED on"
        /\ S[3].op = "START br-edr" /\ S[4].op = "listen" /\ S[5].op = "STOP"
    BY <1>2, <1>3, StepOps DEF Shape
  <2>2. btAt \in 1..5 /\ ScanRadio = "br-edr"
    BY <1>2, <1>3, <2>1 DEF ScanRadio
  <2>3. \A i \in 1..5 : (i = 5 <=> S[i].op = "STOP") /\ S[i].op # "START le"
    <3> SUFFICES ASSUME NEW i \in 1..5 PROVE (i = 5 <=> S[i].op = "STOP") /\ S[i].op # "START le"
      OBVIOUS
    <3>1. i = 1 \/ i = 2 \/ i = 3 \/ i = 4 \/ i = 5
      OBVIOUS
    <3> QED BY ONLY <2>1, <3>1
  <2>4. (btAt = 5 <=> S[btAt].op = "STOP") /\ S[btAt].op # "START le"
    BY <2>2, <2>3, Zenon
  <2> QED BY <1>1, <1>2, <2>1, <2>2, <2>4 DEF Bt!Type, Bt!Starts
<1>4. CASE btArgs[1] = "le-scan"
  <2>1. /\ Len(S) = 6 /\ S[1].op = "READ_INDEX_LIST" /\ S[2].op = "SET_POWERED on" /\ S[3].op = "SET_LE"
        /\ S[4].op = "START le" /\ S[5].op = "listen" /\ S[6].op = "STOP"
    BY <1>2, <1>4, StepOps DEF Shape
  <2>2. btAt \in 1..6 /\ ScanRadio = "le"
    BY <1>2, <1>4, <2>1 DEF ScanRadio
  <2>3. \A i \in 1..6 : (i = 6 <=> S[i].op = "STOP") /\ S[i].op # "START br-edr"
    <3> SUFFICES ASSUME NEW i \in 1..6 PROVE (i = 6 <=> S[i].op = "STOP") /\ S[i].op # "START br-edr"
      OBVIOUS
    <3>1. i = 1 \/ i = 2 \/ i = 3 \/ i = 4 \/ i = 5 \/ i = 6
      OBVIOUS
    <3> QED BY ONLY <2>1, <3>1
  <2>4. (btAt = 6 <=> S[btAt].op = "STOP") /\ S[btAt].op # "START br-edr"
    BY <2>2, <2>3, Zenon
  <2> QED BY <1>1, <1>2, <2>1, <2>2, <2>4 DEF Bt!Type, Bt!Starts
<1> QED BY <1>3, <1>4

LEMMA InfoFacts ==
  ASSUME btArgs \in Arguments, btAt \in 1..Len(Bt!Script), btArgs[1] = "info"
  PROVE  ~Bt!Starts(Bt!Now.op)
<1>1. PICK S : S = Bt!Script
  OBVIOUS
<1>2. Shape(btArgs, S) /\ Bt!Now = S[btAt] /\ btAt \in 1..Len(S)
  BY <1>1, ScriptFacts DEF Bt!Now
<1>3. Len(S) = 2 /\ S[1].op = "READ_INDEX_LIST" /\ S[2].op = "READ_INFO"
  BY <1>2, StepOps DEF Shape
<1>4. btAt \in 1..2
  BY <1>2, <1>3
<1>5. S[btAt].op \in {"READ_INDEX_LIST", "READ_INFO"}
  BY ONLY <1>3, <1>4
<1> QED BY <1>2, <1>5 DEF Bt!Starts

(* The discovery becomes the run's own when its START is carried out.      *)
Started(r) ==
  /\ Bt!Complete(r) /\ Bt!Starts(r.op) /\ r.last /\ ~own

LEMMA OwnBegins ==
  ASSUME BtTypes, Bt!Program \/ Bt!Kernel, ~own, own'
  PROVE  \E r \in pending : Started(r)
<1>1. CASE \E r \in pending : Bt!Complete(r)
  BY <1>1 DEF Bt!Complete, Bt!Effect, Started
<1>2. CASE ~\E r \in pending : Bt!Complete(r)
  <2>1. CASE Bt!Kernel
    BY <1>2, <2>1 DEF Bt!Kernel, Bt!Reject, Bt!DeviceFound, Bt!OtherEvent, Bt!DiscoveryEnds, Bt!settings
  <2>2. CASE Bt!send_cmd
    BY <2>2 DEF Bt!send_cmd
  <2>3. CASE Bt!Program /\ ~Bt!send_cmd
    BY <2>3 DEF Bt!Program, Bt!CannotOpen, Bt!CannotSend, Bt!command_reply, Bt!reply_timeout, Bt!listen_read,
       Bt!listen_timeout, Bt!listen_end, Bt!settings
  <2> QED BY <2>1, <2>2, <2>3
<1> QED BY <1>1, <1>2

LEMMA WhenStarted ==
  ASSUME BtTypes, ChannelInv, btDoing # "exited", NEW r \in pending, Started(r)
  PROVE  /\ btDoing = "await" /\ r.op = Bt!Now.op /\ Bt!Starts(Bt!Now.op) /\ ~BtBegun /\ BtBegun'
         /\ own' /\ discovery' = Bt!Type(Bt!Now.op)
         /\ UNCHANGED <<btArgs, btDoing, btStatus>>
<1>1. Bt!Answer(r, "complete", TRUE) /\ Bt!Effect(r)
  BY DEF Started, Bt!Complete
<1>2. r.live /\ Bt!Starts(r.op) /\ r.last
  BY DEF Started, ChannelInv, RepliesInv
<1>3. btDoing = "await" /\ r.op = Bt!Now.op
  BY <1>2 DEF ChannelInv, RepliesInv, Fits, Bt!Starts
<1>4. \A i \in 1..Len(socket) : ~MetAt(i)
  BY <1>2, <1>3 DEF ChannelInv, MetInv, Calm
<1>5. ~BtBegun
  BY <1>2, <1>3, <1>4 DEF BtBegun, Bt!Starts
<1>6. PICK m \in Bt!Messages : m = Bt!Message("complete", r.op, TRUE, r.last, FALSE)
  BY <1>1, AnswerFacts
<1>7. /\ Delivered(socket', socket, m) /\ UNCHANGED <<btArgs, btAt, btDoing, btStatus>>
      /\ Len(socket) \in Nat
  <2>1. Delivered(socket', socket, Bt!Message("complete", r.op, TRUE, r.last, FALSE))
    BY <1>1, <1>2, AnswerFacts
  <2>2. UNCHANGED <<btArgs, btAt, btDoing, btStatus>>
    BY <1>1, AnswerFacts
  <2>3. Len(socket) \in Nat
    BY DEF BtTypes, ChannelTypes
  <2>4. Delivered(socket', socket, m)
    BY <1>6, <2>1, Zenon
  <2> QED BY <2>2, <2>3, <2>4
<1>8. m.last /\ m.ok
  BY <1>2, <1>6 DEF Bt!Message
<1>9. Bt!Now' = Bt!Now
  BY <1>7, StayFacts
<1>10. Len(socket') = Len(socket) + 1
  BY ONLY <1>7 DEF Delivered
<1>11. Len(socket) + 1 \in 1..Len(socket')
  BY ONLY <1>7, <1>10
<1>12. socket'[Len(socket) + 1] = m
  BY ONLY <1>7 DEF Delivered
<1>13. BtBegun'
  BY <1>2, <1>3, <1>7, <1>8, <1>9, <1>11, <1>12 DEF BtBegun, MetAt
<1>14. own' /\ discovery' = Bt!Type(r.op)
  BY <1>1, <1>2, Zenon DEF Bt!Effect
<1> QED BY <1>2, <1>3, <1>5, <1>7, <1>13, <1>14

(* No other step of a kernel makes the scan begin, or undoes it.           *)
LEMMA BegunByKernel ==
  ASSUME BtTypes, ChannelInv, btDoing # "exited", Bt!Kernel, ~\E r \in pending : Started(r)
  PROVE  BtBegun' <=> BtBegun
<1>1. UNCHANGED <<btArgs, btAt, btDoing>> /\ Len(socket) \in Nat
  BY KernelFacts DEF BtTypes, ChannelTypes
<1>2. Bt!Now' = Bt!Now
  BY <1>1, StayFacts
<1>3. SUFFICES ASSUME btDoing = "await", Bt!Starts(Bt!Now.op)
      PROVE  (\E i \in 1..Len(socket') : MetAt(i)') <=> \E i \in 1..Len(socket) : MetAt(i)
  BY <1>1, <1>2 DEF BtBegun
<1>4. \/ socket' = socket
      \/ \E m : Delivered(socket', socket, m) /\ ~(m.last /\ m.ok)
  <2>1. CASE \E r \in pending : Bt!Complete(r)
    <3>1. PICK r \in pending : Bt!Complete(r)
      BY <2>1
    <3>2. Bt!Answer(r, "complete", TRUE)
      BY <3>1 DEF Bt!Complete
    <3>3. PICK m \in Bt!Messages : m = Bt!Message("complete", r.op, TRUE, r.last, FALSE)
      BY <3>2, AnswerFacts
    <3>4. Delivered(socket', socket, m) \/ socket' = socket
      BY <3>2, <3>3, AnswerFacts
    <3>5. ~m.last
      <4>1. SUFFICES ASSUME r.last PROVE FALSE
        BY <3>3 DEF Bt!Message
      <4>2. r.live /\ r.op = Bt!Now.op
        BY <1>3, <4>1 DEF ChannelInv, RepliesInv, Fits
      <4>3. own
        BY <1>3, <3>1, <4>1, <4>2 DEF Started
      <4>4. Calm
        BY <1>3, <4>3 DEF ChannelInv, MetInv
      <4> QED BY <1>3, <4>2, <4>4 DEF Calm
    <3> QED BY <3>4, <3>5
  <2>2. CASE \E r \in pending : Bt!Reject(r)
    <3>1. PICK r \in pending, e \in {"status", "complete"} : Bt!Answer(r, e, FALSE)
      BY <2>2 DEF Bt!Reject
    <3>2. PICK m \in Bt!Messages : m = Bt!Message(e, r.op, FALSE, r.last, FALSE)
      BY <3>1, AnswerFacts
    <3>3. Delivered(socket', socket, m) \/ socket' = socket
      BY <3>1, <3>2, AnswerFacts
    <3>4. ~m.ok
      BY <3>2 DEF Bt!Message
    <3> QED BY <3>3, <3>4
  <2>3. ASSUME NEW e \in {"found", "other"}, NEW mine \in BOOLEAN,
               Bt!Event(Bt!Message(e, "none", TRUE, FALSE, mine))
        PROVE  \E m : Delivered(socket', socket, m) /\ ~(m.last /\ m.ok)
    <3>1. PICK m \in Bt!Messages : m = Bt!Message(e, "none", TRUE, FALSE, mine)
      BY MessagesTyped
    <3>2. Delivered(socket', socket, m)
      BY <2>3, <3>1, EventFacts
    <3>3. ~m.last
      BY <3>1 DEF Bt!Message
    <3> QED BY <3>2, <3>3
  <2>4. own \in BOOLEAN
    BY DEF BtTypes, SettingTypes
  <2> QED BY <2>1, <2>2, <2>3, <2>4 DEF Bt!Kernel, Bt!DeviceFound, Bt!OtherEvent, Bt!DiscoveryEnds
<1>5. CASE socket' = socket
  BY <1>5 DEF MetAt
<1>6. ASSUME NEW m, Delivered(socket', socket, m), ~(m.last /\ m.ok)
      PROVE  (\E i \in 1..Len(socket') : MetAt(i)') <=> \E i \in 1..Len(socket) : MetAt(i)
  <2>1. \A i \in 1..Len(socket) : i \in 1..Len(socket') /\ socket'[i] = socket[i]
    BY <1>1, <1>6 DEF Delivered
  <2>2. \A i \in 1..Len(socket') : \/ i \in 1..Len(socket) /\ socket'[i] = socket[i]
                                   \/ socket'[i] = m
    BY <1>1, <1>6 DEF Delivered
  <2> QED BY <1>6, <2>1, <2>2 DEF MetAt
<1> QED BY <1>4, <1>5, <1>6

(* The step after the present one, if the program goes on.                 *)
LEMMA BegunByProceed ==
  ASSUME BtTypes, btArgs[1] \in {"le-scan", "bredr-scan"}, btDoing \in {"await", "listen"},
         Bt!Proceed, btArgs' = btArgs,
         Bt!Starts(Bt!Now.op) => BtBegun
  PROVE  /\ btDoing' # "exited" => (BtBegun' <=> BtBegun)
         /\ btDoing' = "exited" => BtBegun
<1>1. btArgs \in Arguments /\ btAt \in 1..Len(Bt!Script)
  BY DEF BtTypes, ProgramTypes
<1>2. btAt = Len(Bt!Script) <=> Bt!Now.op = "STOP"
  BY <1>1, ScanFacts
<1>3. \/ /\ btAt = Len(Bt!Script) /\ btDoing' = "exited"
      \/ /\ btAt # Len(Bt!Script) /\ btDoing' # "exited" /\ btDoing' # "await"
         /\ Follows(Bt!Now.op, Bt!Now'.op)
  BY <1>1, ProceedFacts, NowFacts
<1>4. CASE btAt = Len(Bt!Script) /\ btDoing' = "exited"
  BY <1>2, <1>4 DEF BtBegun
<1>5. CASE /\ btAt # Len(Bt!Script) /\ btDoing' # "exited" /\ btDoing' # "await"
           /\ Follows(Bt!Now.op, Bt!Now'.op)
  <2>1. BtBegun' <=> Bt!Now'.op \in {"listen", "STOP"}
    BY <1>5 DEF BtBegun
  <2>2. Bt!Now'.op \in {"listen", "STOP"} <=> Bt!Starts(Bt!Now.op) \/ Bt!Now.op = "listen"
    BY <1>5 DEF Follows
  <2>3. BtBegun <=> Bt!Starts(Bt!Now.op) \/ Bt!Now.op = "listen"
    BY <1>2, <1>5 DEF BtBegun
  <2> QED BY <1>5, <2>1, <2>2, <2>3
<1> QED BY <1>3, <1>4, <1>5

LEMMA BegunByProgram ==
  ASSUME BtTypes, ChannelInv, btArgs[1] \in {"le-scan", "bredr-scan"}, Bt!Program
  PROVE  /\ btDoing' # "exited" => (BtBegun' <=> BtBegun)
         /\ btDoing' = "exited" /\ btStatus' = 0 => BtBegun
<1>1. btArgs \in Arguments /\ btAt \in 1..Len(Bt!Script) /\ Len(socket) \in Nat
  BY DEF BtTypes, ProgramTypes, ChannelTypes
<1>2. CASE Bt!CannotOpen \/ Bt!CannotSend
  <2>1. btArgs' = btArgs
    BY <1>2 DEF Bt!CannotOpen, Bt!CannotSend
  <2>2. \/ btDoing' = "exited" /\ btStatus' = 1
        \/ btDoing' = "await" /\ Bt!Now.op = "STOP" /\ btAt' = btAt
    BY <1>2 DEF Bt!CannotOpen, Bt!CannotSend, Bt!exit
  <2> QED BY <2>1, <2>2, StayFacts DEF BtBegun
<1>3. CASE Bt!send_cmd
  <2>1. /\ Marked(socket', socket, Bt!Starts(Bt!Now.op)) /\ btDoing = "send" /\ btDoing' = "await"
        /\ btArgs' = btArgs /\ btAt' = btAt
    BY <1>3, SendFacts
  <2>2. \A i \in 1..Len(socket') : ~MetAt(i)'
    BY <2>1 DEF Marked, MetAt
  <2> QED BY <2>1, <2>2, StayFacts DEF BtBegun
<1>4. CASE Bt!command_reply
  <2>1. /\ Taken(socket', socket) /\ Head(socket) = socket[1] /\ 1 \in 1..Len(socket)
        /\ btArgs' = btArgs /\ btDoing = "await"
    BY <1>1, <1>4, ReadFacts DEF Bt!command_reply, Taken
  <2>2. Bt!Wanted(socket[1]) => socket[1].last
    BY <2>1 DEF ChannelInv, RepliesInv, Fits, Bt!Wanted, IsReply, AfterStop
  <2>3. socket[1].last => Bt!Wanted(socket[1])
    BY <2>1 DEF ChannelInv, RepliesInv, Fits, Bt!Wanted, IsReply
  <2>4. CASE ~Bt!Wanted(socket[1])
    <3>1. UNCHANGED <<btAt, btDoing>>
      BY <1>4, <2>1, <2>4 DEF Bt!command_reply
    <3>2. Bt!Now' = Bt!Now
      BY <2>1, <3>1, StayFacts
    <3>3. \A i \in 1..Len(socket') : i + 1 \in 1..Len(socket) /\ socket'[i] = socket[i + 1]
      BY <2>1 DEF Taken
    <3>4. \A i \in 1..Len(socket) : i # 1 => i - 1 \in 1..Len(socket') /\ socket'[i - 1] = socket[i]
      BY <2>1 DEF Taken
    <3>5. (\E i \in 1..Len(socket') : MetAt(i)') <=> \E i \in 1..Len(socket) : MetAt(i)
      <4>1. ASSUME NEW i \in 1..Len(socket'), MetAt(i)' PROVE MetAt(i + 1) /\ i + 1 \in 1..Len(socket)
        BY <3>3, <4>1 DEF MetAt
      <4>2. ASSUME NEW i \in 1..Len(socket), MetAt(i) PROVE MetAt(i - 1)' /\ i - 1 \in 1..Len(socket')
        <5>1. i # 1
          BY <2>3, <2>4, <4>2 DEF MetAt
        <5> QED BY <3>4, <4>2, <5>1 DEF MetAt
      <4> QED BY <4>1, <4>2
    <3> QED BY <2>1, <3>1, <3>2, <3>5 DEF BtBegun
  <2>5. CASE Bt!Wanted(socket[1]) /\ (socket[1].ok \/ Bt!Now.op = "STOP")
    <3>1. Bt!Proceed
      BY <1>4, <2>1, <2>5 DEF Bt!command_reply, Bt!Fails
    <3>2. Bt!Starts(Bt!Now.op) => BtBegun
      BY <2>1, <2>2, <2>5 DEF BtBegun, MetAt, Bt!Starts
    <3> QED BY <2>1, <3>1, <3>2, BegunByProceed
  <2>6. CASE Bt!Wanted(socket[1]) /\ ~socket[1].ok /\ Bt!Now.op # "STOP"
    <3>1. btDoing' = "exited" /\ btStatus' = 1
      BY <1>4, <2>1, <2>6 DEF Bt!command_reply, Bt!Fails, Bt!exit
    <3> QED BY <3>1
  <2> QED BY <2>4, <2>5, <2>6
<1>5. CASE Bt!reply_timeout
  <2>1. btDoing = "await" /\ btArgs' = btArgs
    BY <1>5 DEF Bt!reply_timeout
  <2>2. CASE Bt!Now.op = "STOP"
    <3>1. Bt!Proceed
      BY <1>5, <2>2 DEF Bt!reply_timeout, Bt!Fails
    <3> QED BY <2>1, <2>2, <3>1, BegunByProceed DEF BtBegun
  <2>3. CASE Bt!Now.op # "STOP"
    BY <1>5, <2>3 DEF Bt!reply_timeout, Bt!Fails, Bt!exit
  <2> QED BY <2>2, <2>3
<1>6. CASE Bt!listen_read \/ Bt!listen_timeout
  <2>1. btDoing = "listen" /\ UNCHANGED <<btArgs, btAt, btDoing>>
    BY <1>6 DEF Bt!listen_read, Bt!listen_timeout
  <2> QED BY <2>1, StayFacts DEF BtBegun
<1>7. CASE Bt!listen_end
  <2>1. btDoing = "listen" /\ Bt!Proceed /\ btArgs' = btArgs /\ Bt!Now.op = "listen"
    BY <1>7 DEF Bt!listen_end, BtTypes, ProgramTypes
  <2> QED BY <2>1, BegunByProceed DEF BtBegun
<1> QED BY <1>2, <1>3, <1>4, <1>5, <1>6, <1>7 DEF Bt!Program

BtRadios == {"le", "br-edr"}

(* A Bluetooth scan begins, once, when the kernel has started a discovery  *)
(* for it, on the radio that was asked for, and no run succeeds without.   *)
LEMMA BtBegins ==
  ASSUME BtTypes, ChannelInv, btDoing # "exited", btArgs[1] \in {"le-scan", "bredr-scan"},
         Bt!Program \/ Bt!Kernel
  PROVE  /\ btDoing' # "exited" => (BtBegun' <=> BtBegun \/ Begun(ScanRadio))
         /\ \A r \in BtRadios : Begun(r) => ~BtBegun /\ btDoing' # "exited" /\ r = ScanRadio
         /\ btDoing' = "exited" /\ btStatus' = 0 => BtBegun
<1>1. btArgs \in Arguments /\ btAt \in 1..Len(Bt!Script)
  BY DEF BtTypes, ProgramTypes
<1>2. ScanRadio \in BtRadios
  BY DEF ScanRadio, BtRadios
<1>3. \A r \in BtRadios : Begun(r) <=> (~own /\ own' /\ discovery' = r)
  BY DEF Begun, BtRadios
<1>4. CASE \E r \in pending : Started(r)
  <2>1. /\ Bt!Starts(Bt!Now.op) /\ ~BtBegun /\ BtBegun'
        /\ own' /\ ~own /\ discovery' = Bt!Type(Bt!Now.op) /\ btDoing' = btDoing
    BY <1>4, WhenStarted DEF Started
  <2>2. discovery' = ScanRadio
    BY <1>1, <2>1, ScanFacts
  <2> QED BY <1>2, <1>3, <2>1, <2>2
<1>5. CASE ~\E r \in pending : Started(r)
  <2>1. \A r \in BtRadios : ~Begun(r)
    BY <1>3, <1>5, OwnBegins
  <2>2. CASE Bt!Program
    BY <1>2, <2>1, <2>2, BegunByProgram
  <2>3. CASE Bt!Kernel
    <3>1. btDoing' = btDoing
      BY <2>3, KernelFacts
    <3> QED BY <1>2, <1>5, <2>1, <2>3, <3>1, BegunByKernel
  <2> QED BY <2>2, <2>3
<1> QED BY <1>4, <1>5

(* A program that does not scan begins no scan.                            *)
LEMMA InfoBegins ==
  ASSUME BtTypes, ChannelInv, Bt!Program \/ Bt!Kernel, btDoing = "exited" \/ btArgs[1] = "info",
         NEW r \in BtRadios
  PROVE  ~Begun(r)
<1>1. SUFFICES ASSUME btDoing # "exited", ~own, own' PROVE FALSE
  BY DEF Begun, BtRadios
<1>2. PICK q \in pending : Started(q)
  BY <1>1, OwnBegins
<1>3. Bt!Starts(Bt!Now.op)
  BY <1>1, <1>2, WhenStarted
<1> QED BY <1>1, <1>3, InfoFacts DEF BtTypes, ProgramTypes

-----------------------------------------------------------------------------
(* The lines of the script and the scans counted for it.                   *)

RadioOf(n) == CASE n % 3 = 0 -> "wifi" [] n % 3 = 1 -> "le" [] n % 3 = 2 -> "br-edr"

(* Three lines a cycle: arithmetic.                                        *)
LEMMA DueNext ==
  ASSUME NEW n \in Nat, NEW o \in 0..2
  PROVE  (n + 3 - o) \div 3 = (n + 2 - o) \div 3 + (IF n % 3 = o THEN 1 ELSE 0)
OBVIOUS

LEMMA DueFull ==
  ASSUME NEW c \in Nat, NEW o \in 0..2
  PROVE  (3 * c + 2 - o) \div 3 = c
OBVIOUS

LEMMA DueBound ==
  ASSUME NEW c \in Nat, NEW m \in 0..3 * c, NEW o \in 0..2
  PROVE  (m + 2 - o) \div 3 \in 0..c
OBVIOUS

LEMMA Offsets ==
  ASSUME NEW r \in Radios
  PROVE  Offset(r) \in 0..2 /\ \A n \in Nat : n % 3 = Offset(r) <=> r = RadioOf(n)
<1>1. Offset(r) \in 0..2
  BY DEF Offset, Radios
<1>2. ASSUME NEW n \in Nat PROVE n % 3 = Offset(r) <=> r = RadioOf(n)
  <2>1. n % 3 \in {0, 1, 2}
    OBVIOUS
  <2> QED BY <2>1 DEF Offset, Radios, RadioOf
<1> QED BY <1>1, <1>2

(* Of one line of the script to the next, one radio has one more scan.     *)
LEMMA CountsNext ==
  ASSUME NEW n \in Nat
  PROVE  Counts(n + 1) = [r \in Radios |-> IF r = RadioOf(n) THEN Counts(n)[r] + 1 ELSE Counts(n)[r]]
<1>1. ASSUME NEW r \in Radios
      PROVE  Due(r, n + 1) = IF r = RadioOf(n) THEN Counts(n)[r] + 1 ELSE Counts(n)[r]
  <2>1. PICK o \in 0..2 : o = Offset(r)
    BY Offsets
  <2>2. n % 3 = o <=> r = RadioOf(n)
    BY <2>1, Offsets
  <2>3. Counts(n)[r] = (n + 2 - o) \div 3
    BY <2>1 DEF Counts, Due
  <2>4. n + 1 + 2 - o = n + 3 - o
    BY <2>1
  <2>5. Due(r, n + 1) = (n + 3 - o) \div 3
    BY <2>1, <2>4 DEF Due
  <2>6. (n + 2 - o) \div 3 \in Int
    BY <2>1
  <2> QED BY <2>2, <2>3, <2>5, <2>6, DueNext
<1> QED BY <1>1 DEF Counts

LEMMA CountsFacts ==
  /\ Counts(0) = None
  /\ Counts(3 * Cycles) = [r \in Radios |-> Cycles]
  /\ \A m \in 0..3 * Cycles : Counts(m) \in [Radios -> 0..Cycles]
<1>1. Cycles \in Nat
  BY ScriptAssumption
<1>2. ASSUME NEW c \in Nat PROVE \A r \in Radios : Due(r, 3 * c) = c
  BY <1>2, Offsets, DueFull DEF Due
<1>3. \A m \in 0..3 * Cycles : \A r \in Radios : Due(r, m) \in 0..Cycles
  BY <1>1, Offsets, DueBound DEF Due
<1>4. Counts(0) = None
  <2>1. \A r \in Radios : Due(r, 0) = 0
    BY <1>2
  <2> QED BY <2>1 DEF Counts, None
<1> QED BY <1>1, <1>2, <1>3, <1>4 DEF Counts

(* The line that runs, and its radio.                                      *)
LEMMA LineRadio ==
  ASSUME NEW n \in Nat
  PROVE  /\ RadioOf(n) \in Radios
         /\ RadioOf(n) = "wifi" => Line(n + 2) = <<"wifi">>
         /\ RadioOf(n) = "le" => Line(n + 2) = <<"le-scan", Seconds>> /\ Line(n + 2) # <<"wifi">>
         /\ RadioOf(n) = "br-edr" => Line(n + 2) = <<"bredr-scan", Seconds>> /\ Line(n + 2) # <<"wifi">>
<1>1. <<"le-scan", Seconds>> # <<"wifi">> /\ <<"bredr-scan", Seconds>> # <<"wifi">>
  OBVIOUS
<1>2. n % 3 \in {0, 1, 2}
  OBVIOUS
<1>3. n + 2 # 1 /\ n + 2 - 2 = n
  OBVIOUS
<1>4. Line(n + 2) = Cycle[(n % 3) + 1]
  BY <1>3 DEF Line
<1>5. Cycle[1] = <<"wifi">> /\ Cycle[2] = <<"le-scan", Seconds>> /\ Cycle[3] = <<"bredr-scan", Seconds>>
  BY DEF Cycle
<1>6. CASE n % 3 = 0
  <2>1. Line(n + 2) = Cycle[1] /\ RadioOf(n) = "wifi"
    BY <1>4, <1>6 DEF RadioOf
  <2> QED BY <1>5, <2>1 DEF Radios
<1>7. CASE n % 3 = 1
  <2>1. Line(n + 2) = Cycle[2] /\ RadioOf(n) = "le"
    BY <1>4, <1>7 DEF RadioOf
  <2> QED BY <1>1, <1>5, <2>1 DEF Radios
<1>8. CASE n % 3 = 2
  <2>1. Line(n + 2) = Cycle[3] /\ RadioOf(n) = "br-edr"
    BY <1>4, <1>8 DEF RadioOf
  <2> QED BY <1>1, <1>5, <2>1 DEF Radios
<1> QED BY <1>2, <1>6, <1>7, <1>8

LEMMA CurrentRadio ==
  ASSUME ConsoleInv, line >= 3
  PROVE  /\ line - 3 \in Nat /\ RadioOf(line - 3) \in Radios
         /\ \/ tool = "wifi" /\ RadioOf(line - 3) = "wifi"
            \/ /\ tool = "bt" /\ btArgs[1] \in {"le-scan", "bredr-scan"}
               /\ RadioOf(line - 3) = ScanRadio
<1>1. line \in Nat
  BY ScriptAssumption DEF ConsoleInv, Lines
<1>2. PICK n \in Nat : n = line - 3
  BY <1>1
<1>3. n + 2 = line - 1
  BY <1>1, <1>2
<1>4. IF Line(n + 2) = <<"wifi">> THEN tool = "wifi" ELSE tool = "bt" /\ btArgs = Line(n + 2)
  BY <1>1, <1>3 DEF ConsoleInv
<1>5. RadioOf(n) \in {"wifi", "le", "br-edr"}
  BY LineRadio DEF Radios
<1>6. CASE RadioOf(n) = "wifi"
  BY <1>2, <1>4, <1>6, LineRadio
<1>7. CASE RadioOf(n) = "le"
  <2>1. tool = "bt" /\ btArgs = <<"le-scan", Seconds>>
    BY <1>4, <1>7, LineRadio
  <2> QED BY <1>2, <1>5, <1>7, <2>1 DEF ScanRadio, Radios
<1>8. CASE RadioOf(n) = "br-edr"
  <2>1. tool = "bt" /\ btArgs = <<"bredr-scan", Seconds>>
    BY <1>4, <1>8, LineRadio
  <2> QED BY <1>2, <1>5, <1>8, <2>1 DEF ScanRadio, Radios
<1> QED BY <1>5, <1>6, <1>7, <1>8

(* What a step of a tool, or of its kernel, does to a scan that is counted.*)
BeginsOnce(R) ==
  /\ \A r \in Radios : Begun(r) => r = R /\ ~HasBegun /\ ~Idle /\ ~Idle'
  /\ ~Idle' => ~Idle /\ (HasBegun' <=> HasBegun \/ Begun(R))
  /\ ~Idle /\ Idle' /\ Status' = 0 => HasBegun
  /\ Idle => Idle' /\ Status' = Status

LEMMA WifiToolBegins ==
  ASSUME ToolsInv, tool = "wifi", btDoing = "exited", tool' = tool,
         \/ (Bt!Program \/ Bt!Kernel) /\ UNCHANGED wifiVars
         \/ (Wifi!Program \/ Wifi!Kernel) /\ UNCHANGED btVars
  PROVE  BeginsOnce("wifi")
<1>1. btDoing' = "exited" /\ \A r \in BtRadios : ~Begun(r)
  <2>1. CASE Bt!Program \/ Bt!Kernel
    <3>1. Bt!Kernel
      BY <2>1 DEF Bt!Program, Bt!CannotOpen, Bt!send_cmd, Bt!CannotSend, Bt!command_reply,
         Bt!reply_timeout, Bt!listen_read, Bt!listen_timeout, Bt!listen_end
    <3> QED BY <3>1, KernelFacts DEF ToolsInv, Begun, BtRadios
  <2>2. CASE UNCHANGED btVars
    BY <2>2 DEF btVars, Begun, BtRadios
  <2> QED BY <2>1, <2>2
<1>2. /\ Idle <=> wifiAt = "exited"
      /\ Idle' <=> wifiAt' = "exited"
      /\ Status = wifiStatus /\ Status' = wifiStatus'
      /\ HasBegun <=> WifiBegun
      /\ HasBegun' <=> WifiBegun'
  BY <1>1 DEF Idle, Status, HasBegun
<1>3. \A r \in Radios : r = "wifi" \/ r \in BtRadios
  BY DEF Radios, BtRadios
<1>4. CASE UNCHANGED wifiVars
  <2>1. ~Begun("wifi") /\ wifiAt' = wifiAt /\ wifiStatus' = wifiStatus /\ (WifiBegun' <=> WifiBegun)
    BY <1>4 DEF wifiVars, Begun, WifiBegun
  <2> QED BY <1>1, <1>2, <1>3, <2>1 DEF BeginsOnce
<1>5. CASE Wifi!Program \/ Wifi!Kernel
  <2>1. /\ wifiAt' # "exited" => (WifiBegun' <=> WifiBegun \/ Begun("wifi"))
        /\ Begun("wifi") => ~WifiBegun /\ wifiAt' # "exited"
        /\ wifiAt' = "exited" /\ wifiStatus' = 0 /\ wifiAt # "exited" => WifiBegun
        /\ wifiAt = "exited" => wifiAt' = "exited" /\ wifiStatus' = wifiStatus
    BY <1>5, WifiBegins DEF ToolsInv
  <2> QED BY <1>1, <1>2, <1>3, <2>1 DEF BeginsOnce
<1> QED BY <1>4, <1>5

LEMMA BtToolBegins ==
  ASSUME ToolsInv, tool = "bt", wifiAt = "exited", tool' = tool,
         btArgs[1] \in {"le-scan", "bredr-scan"},
         \/ (Bt!Program \/ Bt!Kernel) /\ UNCHANGED wifiVars
         \/ (Wifi!Program \/ Wifi!Kernel) /\ UNCHANGED btVars
  PROVE  BeginsOnce(ScanRadio)
<1>1. wifiAt' = "exited" /\ ~Begun("wifi")
  <2>1. CASE Wifi!Program \/ Wifi!Kernel
    BY <2>1, WifiBegins DEF ToolsInv
  <2>2. CASE UNCHANGED wifiVars
    BY <2>2 DEF wifiVars, Begun
  <2> QED BY <2>1, <2>2
<1>2. /\ Idle <=> btDoing = "exited"
      /\ Idle' <=> btDoing' = "exited"
      /\ Status = btStatus /\ Status' = btStatus'
      /\ HasBegun <=> BtBegun
      /\ HasBegun' <=> BtBegun'
  BY <1>1 DEF Idle, Status, HasBegun
<1>3. \A r \in Radios : r = "wifi" \/ r \in BtRadios
  BY DEF Radios, BtRadios
<1>4. ScanRadio \in BtRadios
  BY DEF ScanRadio, BtRadios
<1>5. CASE UNCHANGED btVars
  <2>1. btArgs' = btArgs /\ btAt' = btAt /\ btDoing' = btDoing /\ btStatus' = btStatus
        /\ socket' = socket /\ own' = own
    BY <1>5 DEF btVars
  <2>2. BtBegun' <=> BtBegun
    BY <2>1, StayFacts DEF BtBegun, MetAt
  <2>3. \A r \in BtRadios : ~Begun(r)
    BY <2>1 DEF Begun, BtRadios
  <2> QED BY <1>1, <1>2, <1>3, <1>4, <2>1, <2>2, <2>3 DEF BeginsOnce
<1>6. CASE (Bt!Program \/ Bt!Kernel) /\ btDoing # "exited"
  <2>1. /\ btDoing' # "exited" => (BtBegun' <=> BtBegun \/ Begun(ScanRadio))
        /\ \A r \in BtRadios : Begun(r) => ~BtBegun /\ btDoing' # "exited" /\ r = ScanRadio
        /\ btDoing' = "exited" /\ btStatus' = 0 => BtBegun
    BY <1>6, BtBegins DEF ToolsInv
  <2> QED BY <1>1, <1>2, <1>3, <1>4, <1>6, <2>1 DEF BeginsOnce
<1>7. CASE (Bt!Program \/ Bt!Kernel) /\ btDoing = "exited"
  <2>1. Bt!Kernel
    BY <1>7 DEF Bt!Program, Bt!CannotOpen, Bt!send_cmd, Bt!CannotSend, Bt!command_reply,
       Bt!reply_timeout, Bt!listen_read, Bt!listen_timeout, Bt!listen_end
  <2>2. btDoing' = btDoing /\ btStatus' = btStatus
    BY <2>1, KernelFacts DEF ToolsInv
  <2>3. \A r \in BtRadios : ~Begun(r)
    BY <1>7 DEF Begun, BtRadios
  <2> QED BY <1>1, <1>2, <1>3, <1>4, <1>7, <2>2, <2>3 DEF BeginsOnce
<1> QED BY <1>5, <1>6, <1>7

LEMMA FirstLines ==
  ASSUME ConsoleInv, line \in {1, 2}
  PROVE  wifiAt = "exited" /\ (btDoing = "exited" \/ btArgs[1] = "info")
<1>1. CASE line = 1
  BY <1>1 DEF ConsoleInv
<1>2. CASE line = 2
  <2>1. Line(1) = <<"info", 0>> /\ Line(1) # <<"wifi">>
    BY DEF Line
  <2>2. line - 1 = 1
    BY <1>2
  <2>3. tool = "bt" /\ btArgs = <<"info", 0>>
    BY <1>2, <2>1, <2>2 DEF ConsoleInv
  <2> QED BY <2>3 DEF ConsoleInv
<1> QED BY <1>1, <1>2

(* Before the first scan of the script, nothing is counted.                *)
LEMMA NothingBegins ==
  ASSUME ToolsInv, ConsoleInv, line \in {1, 2}, ToolStep, NEW r \in Radios
  PROVE  ~Begun(r)
<1>1. wifiAt = "exited"
  BY FirstLines
<1>2. btDoing = "exited" \/ btArgs[1] = "info"
  BY FirstLines
<1>3. CASE r = "wifi"
  <2>1. CASE Wifi!Program \/ Wifi!Kernel
    BY <1>1, <1>3, <2>1, WifiBegins DEF ToolsInv
  <2>2. CASE UNCHANGED wifiVars
    BY <1>3, <2>2 DEF wifiVars, Begun
  <2> QED BY <2>1, <2>2 DEF ToolStep
<1>4. CASE r \in BtRadios
  <2>1. CASE Bt!Program \/ Bt!Kernel
    BY <1>2, <1>4, <2>1, InfoBegins DEF ToolsInv
  <2>2. CASE UNCHANGED btVars
    BY <1>4, <2>2 DEF btVars, Begun, BtRadios
  <2> QED BY <2>1, <2>2 DEF ToolStep
<1> QED BY <1>3, <1>4 DEF Radios, BtRadios

LEMMA LinesTyped == Cycles \in Nat /\ Lines \in Nat /\ Lines = 1 + 3 * Cycles
BY ScriptAssumption DEF Lines

(* The tool that is run, and that it has not begun a scan yet.             *)
LEMMA RunFacts ==
  ASSUME NEW i, i = <<"wifi">> \/ i \in Arguments, Idle, Run(i)
  PROVE  /\ ~Idle' /\ ~HasBegun'
         /\ IF i = <<"wifi">> THEN tool' = "wifi" /\ btDoing' = "exited"
                              ELSE tool' = "bt" /\ btArgs' = i /\ wifiAt' = "exited"
<1>1. CASE i = <<"wifi">>
  <2>1. wifiAt' = "open" /\ tool' = "wifi" /\ btDoing' = "exited"
    BY <1>1 DEF Run, Wifi!Start, Bt!Reaped
  <2> QED BY <1>1, <2>1 DEF Idle, HasBegun, WifiBegun
<1>2. CASE i # <<"wifi">>
  <2>1. /\ btArgs' = i /\ i \in Arguments /\ btAt' = 1 /\ btDoing' = "send" /\ tool' = "bt"
        /\ wifiAt' = "exited"
    BY <1>2 DEF Run, Bt!Start, Wifi!Reaped
  <2>2. Bt!Now'.op = "READ_INDEX_LIST"
    BY <2>1, Begins
  <2> QED BY <1>2, <2>1, <2>2 DEF Idle, HasBegun, BtBegun
<1> QED BY <1>1, <1>2

LEMMA StatusTyped ==
  ASSUME ToolsInv, ConsoleInv
  PROVE  Status \in {130} \cup 0..7
<1>1. btStatus \in {130} \cup 0..7
  BY DEF ToolsInv, BtTypes, ProgramTypes
<1>2. wifiStatus \in {130} \cup 0..7
  BY DEF ToolsInv, WifiInv, WifiTypes
<1> QED BY <1>1, <1>2 DEF Status, ConsoleInv

(* A tool that has ended stays where it is, whatever its kernel does.      *)
LEMMA ToolStepFacts ==
  ASSUME ToolsInv, ToolStep
  PROVE  /\ btArgs' = btArgs /\ line' = line /\ tool' = tool /\ shellStatus' = shellStatus
         /\ btDoing = "exited" => btDoing' = "exited"
         /\ wifiAt = "exited" => wifiAt' = "exited"
<1>1. line' = line /\ tool' = tool /\ shellStatus' = shellStatus
  BY DEF ToolStep, console
<1>2. btArgs' = btArgs /\ (btDoing = "exited" => btDoing' = "exited")
  <2>1. CASE Bt!Program
    BY <2>1 DEF Bt!Program, Bt!CannotOpen, Bt!send_cmd, Bt!CannotSend, Bt!command_reply,
       Bt!reply_timeout, Bt!listen_read, Bt!listen_timeout, Bt!listen_end
  <2>2. CASE Bt!Kernel
    BY <2>2, KernelFacts DEF ToolsInv
  <2>3. CASE UNCHANGED btVars
    BY <2>3 DEF btVars
  <2> QED BY <2>1, <2>2, <2>3 DEF ToolStep
<1>3. wifiAt = "exited" => wifiAt' = "exited"
  <2>1. CASE Wifi!Program \/ Wifi!Kernel
    BY <2>1, WifiBegins DEF ToolsInv
  <2>2. CASE UNCHANGED wifiVars
    BY <2>2 DEF wifiVars
  <2> QED BY <2>1, <2>2 DEF ToolStep
<1> QED BY <1>1, <1>2, <1>3

LEMMA ConsoleInvKept ==
  ASSUME ToolsInv, ConsoleInv, [Next]_vars
  PROVE  ConsoleInv'
<1>1. CASE ByHand
  <2>1. PICK i \in Arguments \cup {<<"wifi">>} : Run(i)
    BY <1>1 DEF ByHand
  <2>2. line' = 0 /\ shellStatus' = -1 /\ Idle
    BY <1>1 DEF ByHand
  <2>3. IF i = <<"wifi">> THEN tool' = "wifi" /\ btDoing' = "exited"
                          ELSE tool' = "bt" /\ btArgs' = i /\ wifiAt' = "exited"
    BY <2>1, <2>2, RunFacts
  <2> QED BY <2>2, <2>3, LinesTyped DEF ConsoleInv
<1>2. CASE StartScript
  <2>1. line' = 1 /\ tool' = "none" /\ shellStatus' = -1 /\ btDoing' = "exited" /\ wifiAt' = "exited"
    BY <1>2 DEF StartScript, Idle, btVars, wifiVars
  <2> QED BY <2>1, LinesTyped DEF ConsoleInv
<1>3. CASE NextLine
  <2>1. line \in 1..Lines /\ Idle /\ Run(Line(line)) /\ line' = line + 1 /\ shellStatus' = shellStatus
    BY <1>3 DEF NextLine
  <2>2. Line(line) = <<"wifi">> \/ (Line(line) \in Arguments /\ Line(line) # <<"wifi">>)
    BY <2>1, LineIs
  <2>3. IF Line(line) = <<"wifi">> THEN tool' = "wifi" /\ btDoing' = "exited"
                                   ELSE tool' = "bt" /\ btArgs' = Line(line) /\ wifiAt' = "exited"
    BY <2>1, <2>2, RunFacts
  <2>4. line' - 1 = line /\ line' >= 2 /\ line' \in 0..Lines + 1
    BY <2>1, LinesTyped
  <2>5. Line(line' - 1) = Line(line)
    BY <2>4
  <2>6. shellStatus' = -1
    BY <2>1, LinesTyped DEF ConsoleInv
  <2>7. line' # 1
    BY <2>4
  <2> QED BY <2>3, <2>4, <2>5, <2>6, <2>7 DEF ConsoleInv
<1>4. CASE EndOfScript
  <2>1. /\ line' = 0 /\ shellStatus' = Status /\ tool' = tool
        /\ btDoing' = "exited" /\ wifiAt' = "exited"
    BY <1>4 DEF EndOfScript, Idle, btVars, wifiVars
  <2> QED BY <2>1, StatusTyped, LinesTyped DEF ConsoleInv, Idle
<1>5. CASE Prompt
  <2>1. /\ line' = 0 /\ shellStatus' = -1 /\ tool' = "none"
        /\ btDoing' = "exited" /\ wifiAt' = "exited"
    BY <1>5 DEF Prompt, ConsoleInv, Idle, btVars, wifiVars
  <2> QED BY <2>1, LinesTyped DEF ConsoleInv
<1>6. CASE Interrupt
  <2>1. line' = 0 /\ shellStatus' \in {130, -1} /\ tool' = tool /\ (shellStatus' = 130 => line > 0)
    BY <1>6 DEF Interrupt
  <2>2. \/ btDoing # "exited" /\ btDoing' = "exited" /\ wifiAt' = wifiAt
        \/ wifiAt # "exited" /\ wifiAt' = "exited" /\ btDoing' = btDoing
    BY <1>6 DEF Interrupt, Bt!Interrupt, Wifi!Interrupt, Bt!exit, Wifi!exit, btVars, wifiVars
  <2>3. btDoing' = "exited" /\ wifiAt' = "exited"
    BY <2>2 DEF ConsoleInv
  <2> QED BY <2>1, <2>3, LinesTyped DEF ConsoleInv, Idle
<1>7. CASE ToolStep
  <2>1. /\ btArgs' = btArgs /\ line' = line /\ tool' = tool /\ shellStatus' = shellStatus
        /\ btDoing = "exited" => btDoing' = "exited"
        /\ wifiAt = "exited" => wifiAt' = "exited"
    BY <1>7, ToolStepFacts
  <2>2. Line(line' - 1) = Line(line - 1)
    BY <2>1
  <2> QED BY <2>1, <2>2 DEF ConsoleInv, Idle
<1>8. CASE UNCHANGED vars
  <2>1. UNCHANGED <<btArgs, line, tool, shellStatus, btDoing, wifiAt>>
    BY <1>8 DEF vars, btVars, wifiVars, console
  <2>2. Line(line' - 1) = Line(line - 1)
    BY <2>1
  <2> QED BY <2>1, <2>2 DEF ConsoleInv, Idle
<1> QED BY <1>1, <1>2, <1>3, <1>4, <1>5, <1>6, <1>7, <1>8 DEF Next

SomeCount == \E m \in 0..3 * Cycles : scans = Counts(m)

LEMMA CountIsFunction ==
  ASSUME SomeCount
  PROVE  scans = [r \in Radios |-> scans[r]]
BY DEF SomeCount, Counts

(* The steps of the tools and of the console, one by one.                  *)
LEMMA SuccessCounts ==
  ASSUME line' = line, shellStatus' = shellStatus, scans' = scans, CoexistMeansScanned
  PROVE  CoexistMeansScanned'
BY DEF CoexistMeansScanned

LEMMA ScanAfterToolStep ==
  ASSUME ToolsInv, ConsoleInv, ScanInv, ToolStep
  PROVE  ScanInv'
<1>1. line' = line /\ tool' = tool /\ shellStatus' = shellStatus /\ line \in Nat /\ SomeCount
  BY ToolStepFacts, LinesTyped DEF ConsoleInv, ScanInv, SomeCount
<1>2. scans' = [r \in Radios |-> IF line > 0 /\ Begun(r) THEN scans[r] + 1 ELSE scans[r]]
  BY DEF ToolStep
<1>3. CASE line \in {0, 1, 2}
  <2>1. \A r \in Radios : ~(line > 0 /\ Begun(r))
    BY <1>3, NothingBegins
  <2>2. scans' = [r \in Radios |-> scans[r]]
    BY <1>2, <2>1
  <2>3. scans' = scans
    BY <1>1, <2>2, CountIsFunction
  <2> QED BY <1>1, <1>3, <2>3, SuccessCounts DEF ScanInv
<1>4. CASE line >= 3
  <2>1. PICK n \in Nat : n = line - 3
    BY <1>4, <1>1
  <2>2. PICK R \in Radios : R = RadioOf(n)
    BY LineRadio
  <2>3. BeginsOnce(R)
    <3>1. \/ tool = "wifi" /\ RadioOf(n) = "wifi"
          \/ /\ tool = "bt" /\ btArgs[1] \in {"le-scan", "bredr-scan"}
             /\ RadioOf(n) = ScanRadio
      BY <1>4, <2>1, CurrentRadio
    <3>2. CASE tool = "wifi" /\ RadioOf(n) = "wifi"
      <4>1. btDoing = "exited"
        BY <3>2 DEF ConsoleInv
      <4> QED BY <1>1, <2>2, <3>2, <4>1, WifiToolBegins DEF ToolStep
    <3>3. CASE /\ tool = "bt" /\ btArgs[1] \in {"le-scan", "bredr-scan"}
               /\ RadioOf(n) = ScanRadio
      <4>1. wifiAt = "exited"
        BY <3>3 DEF ConsoleInv
      <4> QED BY <1>1, <2>2, <3>3, <4>1, BtToolBegins DEF ToolStep
    <3> QED BY <3>1, <3>2, <3>3
  <2>4. n + 1 = line - 2 /\ n + 1 \in 0..3 * Cycles /\ n \in 0..3 * Cycles
    BY <1>1, <1>4, <2>1, LinesTyped DEF ConsoleInv
  <2>5. /\ scans \in {Counts(n), Counts(n + 1)}
        /\ ~Idle => scans = Counts(IF HasBegun THEN n + 1 ELSE n)
        /\ Idle /\ Status = 0 => scans = Counts(n + 1)
    BY <1>4, <2>1, <2>4 DEF ScanInv
  <2>6. CASE Begun(R)
    <3>1. ~HasBegun /\ ~Idle /\ ~Idle' /\ HasBegun'
      BY <2>3, <2>6 DEF BeginsOnce
    <3>2. scans = Counts(n)
      BY <2>5, <3>1
    <3>3. \A r \in Radios : (line > 0 /\ Begun(r)) <=> r = R
      <4>1. line > 0
        BY <1>1, <1>4
      <4>2. \A r \in Radios : Begun(r) => r = R
        BY <2>3 DEF BeginsOnce
      <4> QED BY <2>6, <4>1, <4>2, Zenon
    <3>4. scans' = [r \in Radios |-> IF r = R THEN Counts(n)[r] + 1 ELSE Counts(n)[r]]
      BY <1>2, <3>2, <3>3
    <3>5. scans' = Counts(n + 1)
      BY <2>1, <2>2, <3>4, CountsNext
    <3>6. CoexistMeansScanned'
      BY <1>1, <1>4 DEF CoexistMeansScanned
    <3> QED BY <1>1, <1>4, <2>1, <2>4, <3>1, <3>5, <3>6 DEF ScanInv
  <2>7. CASE ~Begun(R)
    <3>1. \A r \in Radios : ~Begun(r)
      BY <2>3, <2>7 DEF BeginsOnce
    <3>2. scans' = [r \in Radios |-> scans[r]]
      BY <1>2, <3>1
    <3>3. scans' = scans
      BY <1>1, <3>2, CountIsFunction
    <3>4. /\ ~Idle' => ~Idle /\ (HasBegun' <=> HasBegun)
          /\ Idle' /\ Status' = 0 => (~Idle /\ HasBegun) \/ (Idle /\ Status = 0)
      BY <2>3, <2>7 DEF BeginsOnce
    <3>5. ~Idle' => scans' = Counts(IF HasBegun' THEN n + 1 ELSE n)
      BY <2>5, <3>3, <3>4
    <3>6. Idle' /\ Status' = 0 => scans' = Counts(n + 1)
      BY <2>5, <3>3, <3>4
    <3>7. CoexistMeansScanned'
      BY <1>1, <1>4 DEF CoexistMeansScanned
    <3> QED BY <1>1, <1>4, <2>1, <2>4, <2>5, <3>3, <3>5, <3>6, <3>7 DEF ScanInv
  <2> QED BY <2>6, <2>7
<1> QED BY <1>1, <1>3, <1>4

LEMMA CountsDone ==
  ASSUME ConsoleInv, ScanInv, line > Lines, Idle, Status = 0
  PROVE  scans = [r \in Radios |-> Cycles]
<1>1. line = Lines + 1
  BY LinesTyped DEF ConsoleInv
<1>2. CASE Cycles = 0
  <2>1. line = 2 /\ scans = Counts(0)
    BY <1>1, <1>2, LinesTyped DEF ScanInv
  <2>2. 3 * Cycles = 0
    BY <1>2
  <2> QED BY <2>1, <2>2, CountsFacts
<1>3. CASE Cycles > 0
  <2>1. line >= 3 /\ line - 2 = 3 * Cycles
    BY <1>1, <1>3, LinesTyped
  <2>2. scans = Counts(line - 2)
    BY <2>1 DEF ScanInv
  <2> QED BY <2>1, <2>2, CountsFacts
<1> QED BY <1>2, <1>3, LinesTyped

LEMMA ScanInvKept ==
  ASSUME ToolsInv, ConsoleInv, ScanInv, [Next]_vars
  PROVE  ScanInv'
<1>1. SomeCount /\ line \in Nat
  BY LinesTyped DEF ScanInv, SomeCount, ConsoleInv
<1>2. SomeCount' /\ line' = 0 /\ shellStatus' # 0 => ScanInv'
  BY DEF ScanInv, SomeCount, CoexistMeansScanned
<1>3. CASE ByHand
  <2>1. line' = 0 /\ shellStatus' # 0 /\ scans' = scans
    BY <1>3 DEF ByHand
  <2> QED BY <1>1, <1>2, <2>1 DEF SomeCount
<1>4. CASE StartScript
  <2>1. line' = 1 /\ scans' = Counts(0)
    BY <1>4, CountsFacts DEF StartScript
  <2>2. 0 \in 0..3 * Cycles
    BY LinesTyped
  <2> QED BY <2>1, <2>2 DEF ScanInv, CoexistMeansScanned
<1>5. CASE NextLine
  <2>1. line \in 1..Lines /\ Idle /\ Status = 0 /\ Run(Line(line)) /\ line' = line + 1 /\ scans' = scans
    BY <1>5 DEF NextLine, GoesOn
  <2>2. Line(line) = <<"wifi">> \/ Line(line) \in Arguments
    BY <2>1, LineIs
  <2>3. ~Idle' /\ ~HasBegun'
    BY <2>1, <2>2, RunFacts
  <2>4. CoexistMeansScanned'
    BY <1>1, <2>1 DEF CoexistMeansScanned
  <2>5. CASE line = 1
    <3>1. line' = 2 /\ scans' = Counts(0)
      BY <2>1, <2>5 DEF ScanInv
    <3>2. (\E m \in 0..3 * Cycles : scans = Counts(m))'
      BY <1>1, <2>1 DEF SomeCount
    <3>3. ~(line' >= 3)
      BY <3>1
    <3> QED BY <2>4, <3>1, <3>2, <3>3 DEF ScanInv
  <2>6. CASE line >= 2
    <3>1. line' - 3 = line - 2 /\ line' >= 3
      BY <1>1, <2>1, <2>6
    <3>2. scans = Counts(line - 2)
      <4>1. CASE line = 2
        BY <4>1 DEF ScanInv
      <4>2. CASE line >= 3
        BY <2>1, <4>2 DEF ScanInv
      <4> QED BY <1>1, <2>6, <4>1, <4>2
    <3>3. scans' = Counts(line' - 3)
      BY <2>1, <3>1, <3>2
    <3>4. line' \notin {1, 2}
      BY <3>1
    <3>5. (~Idle => scans = Counts(IF HasBegun THEN line - 2 ELSE line - 3))'
      BY <2>3, <3>3
    <3>6. (\E m \in 0..3 * Cycles : scans = Counts(m))'
      BY <1>1, <2>1 DEF SomeCount
    <3> QED BY <2>3, <2>4, <3>3, <3>4, <3>5, <3>6 DEF ScanInv
  <2> QED BY <1>1, <2>1, <2>5, <2>6
<1>6. CASE EndOfScript
  <2>1. line' = 0 /\ shellStatus' = Status /\ scans' = scans /\ Idle /\ (line > Lines \/ Status # 0)
    BY <1>6 DEF EndOfScript, GoesOn
  <2>2. CoexistMeansScanned'
    BY <2>1, CountsDone DEF CoexistMeansScanned
  <2> QED BY <1>1, <2>1, <2>2 DEF ScanInv, SomeCount
<1>7. CASE Prompt
  <2>1. line' = 0 /\ shellStatus' # 0 /\ scans' = Counts(0)
    BY <1>7, CountsFacts DEF Prompt
  <2>2. 0 \in 0..3 * Cycles
    BY LinesTyped
  <2> QED BY <1>2, <2>1, <2>2 DEF SomeCount
<1>8. CASE Interrupt
  <2>1. line' = 0 /\ shellStatus' # 0 /\ scans' = scans
    BY <1>8 DEF Interrupt
  <2> QED BY <1>1, <1>2, <2>1 DEF SomeCount
<1>9. CASE ToolStep
  BY <1>9, ScanAfterToolStep
<1>10. CASE UNCHANGED vars
  <2>1. UNCHANGED <<btArgs, btAt, btDoing, btStatus, socket, wifiAt, wifiStatus, answers,
                    line, tool, shellStatus, scans>>
    BY <1>10 DEF vars, btVars, wifiVars, console
  <2>2. /\ Idle' = Idle /\ Status' = Status
        /\ HasBegun' <=> HasBegun
    BY <2>1, StayFacts DEF Idle, Status, HasBegun, WifiBegun, BtBegun, MetAt
  <2> QED BY <2>1, <2>2 DEF ScanInv, CoexistMeansScanned
<1> QED BY <1>3, <1>4, <1>5, <1>6, <1>7, <1>8, <1>9, <1>10 DEF Next

Inv == ToolsInv /\ ConsoleInv /\ ScanInv

LEMMA InvInit == Init => Inv
<1> SUFFICES ASSUME Init PROVE Inv
  OBVIOUS
<1>1. ToolsInv
  BY ToolsInvInit
<1>2. line = 0 /\ tool = "none" /\ shellStatus = -1 /\ btDoing = "exited" /\ wifiAt = "exited"
  BY DEF Init, Bt!Init, Wifi!Init
<1>3. ConsoleInv
  BY <1>2, LinesTyped DEF ConsoleInv, Idle
<1>4. scans = Counts(0) /\ 0 \in 0..3 * Cycles
  BY CountsFacts, LinesTyped DEF Init
<1>5. ScanInv
  BY <1>2, <1>4 DEF ScanInv, CoexistMeansScanned
<1> QED BY <1>1, <1>3, <1>5 DEF Inv

LEMMA InvKept == Inv /\ [Next]_vars => Inv'
<1> SUFFICES ASSUME Inv, [Next]_vars PROVE Inv'
  OBVIOUS
<1>1. ToolsInv'
  BY NextParts, ToolsInvKept DEF Inv
<1>2. ConsoleInv'
  BY ConsoleInvKept DEF Inv
<1>3. ScanInv'
  BY ScanInvKept DEF Inv
<1> QED BY <1>1, <1>2, <1>3 DEF Inv

(* The invariant of the whole, which holds of every reachable state.       *)
LEMMA InvHolds == Spec => []Inv
<1> QED BY InvInit, InvKept, PTL DEF Spec

LEMMA InvTyped == ASSUME Inv PROVE TypeOK
<1>1. Wifi!TypeOK
  BY WifiTyped DEF Inv, ToolsInv
<1>2. scans \in [Radios -> 0..Cycles + 1]
  <2>1. scans \in [Radios -> 0..Cycles]
    BY CountsFacts DEF Inv, ScanInv
  <2> QED BY <2>1, LinesTyped
<1>3. Bt!TypeOK
  <2>1. BtTypes /\ FoundInv
    BY DEF Inv, ToolsInv
  <2>2. devices \in 0..MaxEvents
    <3>1. IsFiniteSet(Found(socket))
      <4>1. Found(socket) \in SUBSET (1..Len(socket)) /\ Len(socket) \in Nat
        BY <2>1 DEF Found, BtTypes, ChannelTypes
      <4>2. IsFiniteSet(1..Len(socket))
        BY <4>1, FS_Interval
      <4> QED BY <4>1, <4>2, FS_Subset
    <3>2. Cardinality(Found(socket)) \in Nat
      BY <3>1, FS_CardinalityType
    <3>3. devices + Cardinality(Found(socket)) <= btEvents /\ devices \in Nat
          /\ btEvents \in 0..MaxEvents /\ MaxEvents \in Nat
      BY <2>1, BtConstantsTyped DEF FoundInv, BtTypes, ProgramTypes, SettingTypes, BtConstants
    <3>4. \A n \in Nat : devices + n <= btEvents => devices \in 0..MaxEvents
      BY <3>3
    <3> QED BY <3>2, <3>3, <3>4
  <2> QED BY <2>1, <2>2 DEF BtTypes, ProgramTypes, ChannelTypes, SettingTypes, Bt!TypeOK
<1>4. line \in 0..Lines + 1 /\ tool \in {"bt", "wifi", "none"} /\ shellStatus \in {-1, 130} \cup 0..7
  BY DEF Inv, ConsoleInv
<1> QED BY <1>1, <1>2, <1>3, <1>4 DEF TypeOK

(* Types, and the bounds of every counter.                                 *)
THEOREM TypeCorrect == Spec => []TypeOK
<1>1. Inv => TypeOK
  BY InvTyped
<1> QED BY <1>1, InvHolds, PTL

(* A Bluetooth tool that ends well has listened for the seconds it was given,*)
(* and a script that ends well has begun every scan of every cycle.        *)
THEOREM SuccessScanned == Spec => []SuccessMeansScanned
<1>1. Inv => SuccessMeansScanned
  BY SecondsShared DEF Inv, ToolsInv, ScanInv, SuccessMeansScanned
<1> QED BY <1>1, InvHolds, PTL
=============================================================================
