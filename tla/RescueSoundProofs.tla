-------------------------- MODULE RescueSoundProofs --------------------------
(***************************************************************************)
(* Proofs of the properties of RescueSound, for any length of a test, any  *)
(* buffer, any table of controls and any number of failures.               *)
(***************************************************************************)
EXTENDS RescueSound, FiniteSetTheorems, TLAPS

-----------------------------------------------------------------------------
(* The running mean.                                                       *)

(* A quotient and its remainder.                                           *)
LEMMA Quotient ==
  ASSUME NEW a \in Nat, NEW d \in Nat \ {0}
  PROVE  /\ a \div d \in Nat
         /\ \E r \in 0..d - 1 : a = d * (a \div d) + r
<1>1. a \div d \in Nat
  BY SMT
<1>2. a = d * (a \div d) + (a % d) /\ a % d \in 0..d - 1
  BY SMT
<1> QED BY <1>1, <1>2

(* What update_stats adds to count * mean - sum is at most the remainder   *)
(* of the division it makes.                                               *)
LEMMA Correction ==
  ASSUME NEW m \in Nat, NEW b \in Nat, NEW n \in Nat
  PROVE  /\ Pcm!NextMean(m, b, n + 1) \in Nat
         /\ \E r \in -n..n : (n + 1) * Pcm!NextMean(m, b, n + 1) = n * m + b + r
<1>1. CASE b >= m
  <2> DEFINE q == (b - m) \div (n + 1)
  <2>1. b - m \in Nat /\ n + 1 \in Nat \ {0}
    BY <1>1
  <2>2. q \in Nat
    BY <2>1, Quotient
  <2>3. PICK r \in 0..n : b - m = (n + 1) * q + r
    <3>1. \E r \in 0..(n + 1) - 1 : b - m = (n + 1) * q + r
      BY <2>1, Quotient
    <3>2. (n + 1) - 1 = n
      OBVIOUS
    <3> QED BY <3>1, <3>2
  <2>4. Pcm!NextMean(m, b, n + 1) = m + q
    BY <1>1 DEF Pcm!NextMean
  <2> HIDE DEF q
  <2>5. (n + 1) * (m + q) = (n + 1) * m + (n + 1) * q
    BY <2>2
  <2>6. (n + 1) * m = n * m + m /\ n * m \in Int /\ (n + 1) * q \in Int
    BY <2>2
  <2>7. (n + 1) * (m + q) = n * m + b + (-r) /\ -r \in -n..n
    BY <2>2, <2>3, <2>5, <2>6
  <2>8. \E k \in -n..n : (n + 1) * (m + q) = n * m + b + k
    BY <2>7
  <2>9. m + q \in Nat
    BY <2>2
  <2> QED BY <2>4, <2>8, <2>9
<1>2. CASE ~(b >= m)
  <2> DEFINE q == (m - b) \div (n + 1)
  <2>1. m - b \in Nat /\ n + 1 \in Nat \ {0}
    BY <1>2
  <2>2. q \in Nat
    BY <2>1, Quotient
  <2>3. PICK r \in 0..n : m - b = (n + 1) * q + r
    <3>1. \E r \in 0..(n + 1) - 1 : m - b = (n + 1) * q + r
      BY <2>1, Quotient
    <3>2. (n + 1) - 1 = n
      OBVIOUS
    <3> QED BY <3>1, <3>2
  <2>4. Pcm!NextMean(m, b, n + 1) = m - q
    BY <1>2 DEF Pcm!NextMean
  <2> HIDE DEF q
  <2>5. (n + 1) * (m - q) = (n + 1) * m - (n + 1) * q
    BY <2>2
  <2>6. (n + 1) * m = n * m + m /\ n * m \in Int /\ (n + 1) * q = n * q + q /\ n * q \in Nat
    BY <2>2
  <2>7. (n + 1) * (m - q) = n * m + b + r /\ r \in -n..n
    BY <2>2, <2>3, <2>5, <2>6
  <2>8. m - q \in Nat
    BY <2>2, <2>3, <2>6
  <2> QED BY <2>4, <2>7, <2>8
<1> QED BY <1>1, <1>2

StatsOf == [mean_square : Nat, blocks : Nat]

(* The statistics have their types, and the error its bound.               *)
MeanInv ==
  /\ stats \in [Channels -> StatsOf] /\ sum \in [Channels -> Nat]
  /\ MeanError

(* One block more.                                                         *)
LEMMA OneBlock ==
  ASSUME MeanInv, NEW block \in [Channels -> BlockMeans],
         stats' = [c \in Channels |-> Pcm!update_stats(stats[c], block[c])],
         sum' = [c \in Channels |-> sum[c] + block[c]]
  PROVE  MeanInv'
<1>1. BlockMeans \subseteq Nat
  BY SoundAssumption DEF Pcm!PcmAssumption
<1>2. ASSUME NEW c \in Channels
      PROVE  /\ stats'[c] \in StatsOf /\ sum'[c] \in Nat
             /\ LET n == stats'[c].blocks
                    difference == n * stats'[c].mean_square - sum'[c]
                IN -(n * (n - 1)) <= 2 * difference /\ 2 * difference <= n * (n - 1)
  <2> DEFINE m == stats[c].mean_square
             n == stats[c].blocks
             s == sum[c]
             b == block[c]
             M == Pcm!NextMean(m, b, n + 1)
  <2>1. m \in Nat /\ n \in Nat /\ s \in Nat /\ b \in Nat
    BY <1>1 DEF MeanInv, StatsOf
  <2>2. -(n * (n - 1)) <= 2 * (n * m - s) /\ 2 * (n * m - s) <= n * (n - 1)
    BY DEF MeanInv, MeanError, Pcm!MeanError
  <2>3. M \in Nat
    BY <2>1, Correction
  <2>4. PICK r \in -n..n : (n + 1) * M = n * m + b + r
    BY <2>1, Correction
  <2>5. stats'[c] = [mean_square |-> M, blocks |-> n + 1] /\ sum'[c] = s + b
    BY DEF Pcm!update_stats
  <2> HIDE DEF m, n, s, b, M
  <2>6. (n + 1) * ((n + 1) - 1) = n * (n - 1) + 2 * n /\ n * (n - 1) \in Int /\ n * m \in Int
    BY <2>1
  <2>7. 2 * ((n + 1) * M - (s + b)) = 2 * (n * m - s) + 2 * r
    BY <2>1, <2>4, <2>6
  <2>8. /\ -((n + 1) * ((n + 1) - 1)) <= 2 * ((n + 1) * M - (s + b))
        /\ 2 * ((n + 1) * M - (s + b)) <= (n + 1) * ((n + 1) - 1)
    <3> DEFINE D == 2 * (n * m - s)
               B == n * (n - 1)
               E == (n + 1) * ((n + 1) - 1)
    <3>1. D \in Int /\ B \in Int /\ E = B + 2 * n /\ -B <= D /\ D <= B
      BY <2>1, <2>2, <2>6
    <3>2. 2 * ((n + 1) * M - (s + b)) = D + 2 * r
      BY <2>7
    <3> HIDE DEF D, B, E
    <3>3. -E <= D + 2 * r /\ D + 2 * r <= E
      BY <2>1, <3>1
    <3> QED BY <3>2, <3>3 DEF E
  <2> QED BY <2>1, <2>3, <2>5, <2>8 DEF StatsOf
<1>3. stats' = [c \in Channels |-> stats'[c]] /\ sum' = [c \in Channels |-> sum'[c]]
  OBVIOUS
<1> QED BY <1>2, <1>3 DEF MeanInv, MeanError, Pcm!MeanError

-----------------------------------------------------------------------------
(* One test and its device.                                                *)

(* What the test has read or written since it was started, the part of an  *)
(* unfinished call included.                                               *)
Transferred(t) == (Length - bytes_left[t]) + (IF at[t] = "move" THEN moved[t] ELSE 0)

(* What of it the device has moved since it was prepared, and what is in   *)
(* its buffer.                                                             *)
OnDevice(t) == IF t = "playback" THEN run[t] + fill[t] ELSE run[t] - fill[t]

TestTypes(t) ==
  /\ at[t] \in {"exited", "open", "transfer", "move", "drop"}
  /\ status[t] \in {-1, 0, 1, 143}
  /\ bytes_left[t] \in 0..Length /\ moved[t] \in 0..PERIOD /\ xruns[t] \in Nat
  /\ pcm[t] \in {"closed", "prepared", "running", "xrun"}
  /\ fill[t] \in 0..Pcm!BUFFER /\ run[t] \in Nat

(* What the device's state says of its buffer, and of the times it has     *)
(* stopped.                                                                *)
DeviceInv(t) ==
  /\ pcm[t] \in {"closed", "prepared"} => fill[t] = 0
  /\ pcm[t] = "running" => IF t = "playback" THEN fill[t] >= 1 ELSE fill[t] < Pcm!BUFFER
  /\ xruns[t] + (IF pcm[t] = "xrun" THEN 1 ELSE 0) <= stops

(* Where the program stands.  Without a recovery, the device has moved     *)
(* what was transferred, but for what is in the buffer.                    *)
ProgramInv(t) ==
  /\ at[t] \in {"exited", "open"} => pcm[t] = "closed"
  /\ at[t] = "open" => run[t] = 0 /\ bytes_left[t] = Length /\ status[t] = 0
  /\ at[t] \in {"transfer", "move"} => status[t] = 0
  /\ at[t] = "move" => moved[t] <= Pcm!chunk(t)
  /\ at[t] = "drop" => status[t] = 1 \/ (status[t] = 0 /\ bytes_left[t] = 0)
  /\ at[t] \in {"transfer", "move", "drop"} =>
       /\ OnDevice(t) <= Transferred(t)
       /\ xruns[t] = 0 => OnDevice(t) = Transferred(t)
  /\ at[t] = "exited" => run[t] <= Length + Pcm!BUFFER
  /\ at[t] = "exited" /\ status[t] = 0 =>
       run[t] >= (IF t = "playback" THEN Length - Pcm!BUFFER ELSE Length)

TestInv(t) == TestTypes(t) /\ DeviceInv(t) /\ ProgramInv(t)

PcmDomains ==
  /\ DOMAIN at = Tests /\ DOMAIN status = Tests /\ DOMAIN bytes_left = Tests
  /\ DOMAIN moved = Tests /\ DOMAIN xruns = Tests /\ DOMAIN pcm = Tests
  /\ DOMAIN fill = Tests /\ DOMAIN run = Tests
  /\ at = [t \in Tests |-> at[t]] /\ status = [t \in Tests |-> status[t]]
  /\ bytes_left = [t \in Tests |-> bytes_left[t]] /\ moved = [t \in Tests |-> moved[t]]
  /\ xruns = [t \in Tests |-> xruns[t]] /\ pcm = [t \in Tests |-> pcm[t]]
  /\ fill = [t \in Tests |-> fill[t]] /\ run = [t \in Tests |-> run[t]]

(* Every block was at least one part long.                                 *)
BlocksInv == \A c \in Channels : stats[c].blocks + bytes_left["capture"] <= Length

PcmInv ==
  /\ PcmDomains /\ (\A t \in Tests : TestInv(t))
  /\ MeanInv /\ BlocksInv
  /\ stops \in 0..MaxXruns /\ pcmErrors \in 0..MaxPcmErrors

LEMMA BufferSize == Pcm!BUFFER \in Nat /\ Pcm!BUFFER >= 1
  BY SoundAssumption, SMT DEF Pcm!PcmAssumption, Pcm!BUFFER

(* A step that leaves a test alone keeps what is said of it.               *)
LEMMA Untouched ==
  ASSUME NEW t \in Tests, TestInv(t), stops' >= stops, stops \in Nat, stops' \in Nat,
         at'[t] = at[t], status'[t] = status[t], bytes_left'[t] = bytes_left[t],
         moved'[t] = moved[t], xruns'[t] = xruns[t], pcm'[t] = pcm[t],
         fill'[t] = fill[t], run'[t] = run[t]
  PROVE  TestInv(t)'
  BY DEF TestInv, TestTypes, DeviceInv, ProgramInv, OnDevice, Transferred, Pcm!chunk, Pcm!Least

(* What every step of a test keeps of its own.                             *)
LEMMA ProgramKeeps ==
  ASSUME PcmInv, NEW t \in Tests, Pcm!Program(t)
  PROVE  TestInv(t)'
<1> USE SoundAssumption, BufferSize DEF Pcm!PcmAssumption
<1>1. TestInv(t) /\ PcmDomains /\ stops \in Nat /\ Length \in Nat \ {0} /\ PERIOD \in Nat \ {0}
  BY DEF PcmInv
<1>2. CASE Pcm!configure_pcm(t)
  BY <1>1, <1>2 DEF Pcm!configure_pcm, Pcm!Prepared, Pcm!Goto, Pcm!Error, Pcm!Fails,
    Pcm!device, PcmDomains, TestInv, TestTypes, DeviceInv, ProgramInv, OnDevice, Transferred
<1>3. CASE Pcm!Call(t)
  BY <1>1, <1>3 DEF Pcm!Call, Pcm!Goto, Pcm!chunk, Pcm!Least,
    Pcm!blocks, PcmDomains, TestInv, TestTypes, DeviceInv, ProgramInv, OnDevice, Transferred
<1>4. CASE Pcm!Move(t)
  BY <1>1, <1>4 DEF Pcm!Move, Pcm!CanMove, Pcm!chunk, Pcm!Least,
    Pcm!blocks, PcmDomains, TestInv, TestTypes, DeviceInv, ProgramInv, OnDevice, Transferred
<1>5. CASE Pcm!Moved(t)
  BY <1>1, <1>5 DEF Pcm!Moved, Pcm!Goto, Pcm!chunk, Pcm!Least, Pcm!device,
    Pcm!blocks, PcmDomains, TestInv, TestTypes, DeviceInv, ProgramInv, OnDevice, Transferred
<1>6. CASE Pcm!Recover(t)
  BY <1>1, <1>6 DEF Pcm!Recover, Pcm!Counted, Pcm!Prepared, Pcm!Close, Pcm!Goto, Pcm!Error,
    Pcm!Fails, Pcm!chunk, Pcm!Least, Pcm!blocks, PcmDomains, TestInv, TestTypes, DeviceInv,
    ProgramInv, OnDevice, Transferred
<1>7. CASE Pcm!TransferFails(t)
  BY <1>1, <1>7 DEF Pcm!TransferFails, Pcm!Goto, Pcm!Error, Pcm!Fails, Pcm!device,
    Pcm!blocks, PcmDomains, TestInv, TestTypes, DeviceInv, ProgramInv, OnDevice, Transferred
<1>8. CASE Pcm!Finish(t)
  BY <1>1, <1>8 DEF Pcm!Finish, Pcm!Close, Pcm!Goto, Pcm!Verdicts,
    Pcm!blocks, PcmDomains, TestInv, TestTypes, DeviceInv, ProgramInv, OnDevice, Transferred
<1> QED
  BY <1>2, <1>3, <1>4, <1>5, <1>6, <1>7, <1>8 DEF Pcm!Program

(* It leaves the other test alone.                                         *)
LEMMA ProgramFrame ==
  ASSUME PcmInv, NEW t \in Tests, Pcm!Program(t) \/ Pcm!Kill(t) \/ Pcm!Start(t)
  PROVE  /\ PcmDomains' /\ stops' = stops /\ pcmErrors' \in 0..MaxPcmErrors
         /\ \A u \in Tests \ {t} : TestInv(u)'
<1> USE SoundAssumption DEF Pcm!PcmAssumption
<1>1. PcmDomains /\ stops \in Nat /\ pcmErrors \in 0..MaxPcmErrors
  BY DEF PcmInv
<1>2. /\ PcmDomains' /\ stops' = stops /\ pcmErrors' \in 0..MaxPcmErrors
      /\ \A u \in Tests \ {t} :
           /\ at'[u] = at[u] /\ status'[u] = status[u] /\ bytes_left'[u] = bytes_left[u]
           /\ moved'[u] = moved[u] /\ xruns'[u] = xruns[u] /\ pcm'[u] = pcm[u]
           /\ fill'[u] = fill[u] /\ run'[u] = run[u]
  <2>1. CASE Pcm!configure_pcm(t) \/ Pcm!Call(t)
    BY <1>1, <2>1 DEF Pcm!configure_pcm, Pcm!Call, Pcm!Prepared, Pcm!Goto, Pcm!Error,
      Pcm!Fails, Pcm!device, PcmDomains
  <2>2. CASE Pcm!Move(t) \/ Pcm!Moved(t)
    BY <1>1, <2>2 DEF Pcm!Move, Pcm!Moved, Pcm!Goto, Pcm!device, PcmDomains
  <2>3. CASE Pcm!Recover(t) \/ Pcm!TransferFails(t)
    BY <1>1, <2>3 DEF Pcm!Recover, Pcm!TransferFails, Pcm!Counted, Pcm!Prepared, Pcm!Close,
      Pcm!Goto, Pcm!Error, Pcm!Fails, Pcm!device, PcmDomains
  <2>4. CASE Pcm!Finish(t) \/ Pcm!Kill(t) \/ Pcm!Start(t)
    BY <1>1, <2>4 DEF Pcm!Finish, Pcm!Kill, Pcm!Start, Pcm!Close, Pcm!Goto, PcmDomains
  <2> QED BY <2>1, <2>2, <2>3, <2>4 DEF Pcm!Program
<1>3. ASSUME NEW u \in Tests \ {t} PROVE TestInv(u)'
  BY <1>1, <1>2, Untouched DEF PcmInv
<1> QED BY <1>2, <1>3

(* A block of a captured period, and everything else that leaves the       *)
(* statistics alone.                                                       *)
LEMMA ProgramBlocks ==
  ASSUME PcmInv, NEW t \in Tests, Pcm!Program(t)
  PROVE  MeanInv' /\ BlocksInv'
<1> USE SoundAssumption DEF Pcm!PcmAssumption
<1>1. TestInv(t) /\ PcmDomains /\ MeanInv /\ BlocksInv
  BY DEF PcmInv
<1>2. CASE UNCHANGED <<stats, sum>> /\ bytes_left' = bytes_left
  BY <1>1, <1>2 DEF MeanInv, MeanError, Pcm!MeanError, BlocksInv
<1>3. CASE Pcm!Moved(t)
  <2>1. CASE t = "playback"
    BY <1>1, <1>3, <2>1 DEF Pcm!Moved, Pcm!blocks, PcmDomains, MeanInv, MeanError,
      Pcm!MeanError, BlocksInv, Tests
  <2>2. CASE t = "capture"
    <3>1. PICK block \in [Channels -> BlockMeans] :
            /\ stats' = [c \in Channels |-> Pcm!update_stats(stats[c], block[c])]
            /\ sum' = [c \in Channels |-> sum[c] + block[c]]
      BY <1>3, <2>2 DEF Pcm!Moved
    <3>2. MeanInv'
      BY <1>1, <3>1, OneBlock
    <3>3. bytes_left'["capture"] <= bytes_left["capture"] - 1
      BY <1>1, <1>3, <2>2 DEF Pcm!Moved, PcmDomains, TestInv, TestTypes
    <3>4. \A c \in Channels : stats'[c].blocks = stats[c].blocks + 1
      BY <3>1 DEF Pcm!update_stats
    <3>5. bytes_left["capture"] \in Int /\ bytes_left'["capture"] \in Int
      BY <1>1, <1>3, <2>2 DEF Pcm!Moved, PcmDomains, TestInv, TestTypes
    <3>6. \A c \in Channels : stats[c].blocks \in Nat
      BY <1>1 DEF MeanInv, StatsOf
    <3>7. BlocksInv'
      BY <1>1, <3>3, <3>4, <3>5, <3>6 DEF BlocksInv
    <3> QED BY <3>2, <3>7
  <2> QED BY <2>1, <2>2 DEF Tests
<1> QED
  BY <1>2, <1>3 DEF Pcm!Program, Pcm!configure_pcm, Pcm!Call, Pcm!Move, Pcm!Recover,
    Pcm!TransferFails, Pcm!Finish, Pcm!blocks

LEMMA ProgramStep ==
  ASSUME PcmInv, NEW t \in Tests, Pcm!Program(t)
  PROVE  PcmInv'
  BY ProgramKeeps, ProgramFrame, ProgramBlocks DEF PcmInv

(* The start and the end of a process.                                     *)
LEMMA ProcessStep ==
  ASSUME PcmInv, NEW t \in Tests, Pcm!Start(t) \/ Pcm!Kill(t)
  PROVE  PcmInv'
<1> USE SoundAssumption, BufferSize DEF Pcm!PcmAssumption
<1>1. TestInv(t) /\ PcmDomains /\ MeanInv /\ BlocksInv /\ stops \in Nat
  BY DEF PcmInv
<1>2. TestInv(t)'
  <2>1. CASE Pcm!Start(t)
    BY <1>1, <2>1 DEF Pcm!Start, Pcm!Goto, PcmDomains, TestInv, TestTypes, DeviceInv,
      ProgramInv, OnDevice, Transferred
  <2>2. CASE Pcm!Kill(t)
    BY <1>1, <2>2 DEF Pcm!Kill, Pcm!Close, Pcm!Goto, Pcm!chunk, Pcm!Least, PcmDomains,
      TestInv, TestTypes, DeviceInv, ProgramInv, OnDevice, Transferred
  <2> QED BY <2>1, <2>2
<1>3. MeanInv' /\ BlocksInv'
  <2>1. CASE Pcm!Kill(t)
    BY <1>1, <2>1 DEF Pcm!Kill, Pcm!blocks, MeanInv, MeanError, Pcm!MeanError, BlocksInv
  <2>2. CASE Pcm!Start(t) /\ t = "capture"
    BY <1>1, <2>2 DEF Pcm!Start, Pcm!NoStats, PcmDomains, MeanInv, StatsOf, MeanError,
      Pcm!MeanError, BlocksInv
  <2>3. CASE Pcm!Start(t) /\ t = "playback"
    BY <1>1, <2>3 DEF Pcm!Start, Pcm!blocks, PcmDomains, MeanInv, MeanError,
      Pcm!MeanError, BlocksInv, Tests
  <2> QED BY <2>1, <2>2, <2>3 DEF Tests
<1> QED BY <1>2, <1>3, ProgramFrame DEF PcmInv

(* A part of a period moves between every running device and the wire.     *)
LEMMA TickStep ==
  ASSUME PcmInv, Pcm!Tick
  PROVE  PcmInv'
<1> USE SoundAssumption, BufferSize DEF Pcm!PcmAssumption
<1>1. PcmDomains /\ MeanInv /\ BlocksInv /\ stops \in 0..MaxXruns /\ Pcm!Tests = Tests
  BY DEF PcmInv, Pcm!Tests, Tests
<1>2. Pcm!Stops \subseteq Tests /\ Cardinality(Pcm!Stops) \in Nat
      /\ (Pcm!Stops # {} => Cardinality(Pcm!Stops) >= 1)
  <2>1. Pcm!Stops \subseteq Tests
    BY <1>1 DEF Pcm!Stops
  <2>2. IsFiniteSet(Tests)
    <3>1. IsFiniteSet({"playback"})
      BY FS_Singleton
    <3>2. IsFiniteSet({"playback"} \cup {"capture"})
      BY <3>1, FS_AddElement
    <3>3. Tests = {"playback"} \cup {"capture"}
      BY DEF Tests
    <3> QED BY <3>2, <3>3
  <2>3. IsFiniteSet(Pcm!Stops)
    BY <2>1, <2>2, FS_Subset
  <2>4. Cardinality(Pcm!Stops) \in Nat /\ (Cardinality(Pcm!Stops) = 0 => Pcm!Stops = {})
    BY <2>3, FS_CardinalityType, FS_EmptySet
  <2> QED BY <2>1, <2>4
<1>3. stops' \in 0..MaxXruns /\ stops' >= stops
      /\ (Pcm!Stops # {} => stops' >= stops + 1)
  <2>1. Pcm!Cardinality(Pcm!Stops) = Cardinality(Pcm!Stops)
    BY DEF Cardinality, Pcm!Cardinality
  <2> QED BY <1>1, <1>2, <2>1 DEF Pcm!Tick
<1>4. ASSUME NEW t \in Tests PROVE TestInv(t)'
  <2>1. TestInv(t)
    BY DEF PcmInv
  <2> QED
    BY <1>1, <1>3, <2>1 DEF Pcm!Tick, Pcm!Runs, Pcm!Level, Pcm!Stops, Pcm!program,
      PcmDomains, TestInv, TestTypes, DeviceInv, ProgramInv, OnDevice, Transferred,
      Pcm!chunk, Pcm!Least
<1>5. PcmDomains' /\ MeanInv' /\ BlocksInv' /\ pcmErrors' = pcmErrors
  BY <1>1 DEF Pcm!Tick, Pcm!program, Pcm!blocks, PcmDomains, MeanInv, MeanError,
    Pcm!MeanError, BlocksInv
<1> QED BY <1>3, <1>4, <1>5 DEF PcmInv

(* What holds before any test has run, and once those that ran are reaped. *)
LEMMA NothingRan ==
  ASSUME at = [t \in Tests |-> "exited"], status = [t \in Tests |-> -1],
         bytes_left = [t \in Tests |-> 0], moved = [t \in Tests |-> 0],
         xruns = [t \in Tests |-> 0], pcm = [t \in Tests |-> "closed"],
         fill = [t \in Tests |-> 0], run = [t \in Tests |-> 0],
         stats = [c \in Channels |-> Pcm!NoStats], sum = [c \in Channels |-> 0],
         stops \in 0..MaxXruns, pcmErrors \in 0..MaxPcmErrors
  PROVE  PcmInv
<1> USE SoundAssumption, BufferSize DEF Pcm!PcmAssumption
<1>1. PcmDomains
  BY DEF PcmDomains
<1>2. ASSUME NEW t \in Tests PROVE TestInv(t)
  BY DEF TestInv, TestTypes, DeviceInv, ProgramInv, OnDevice, Transferred
<1>3. MeanInv
  BY DEF MeanInv, MeanError, Pcm!MeanError, StatsOf, Pcm!NoStats
<1>4. BlocksInv
  BY DEF BlocksInv, Pcm!NoStats, Tests
<1> QED BY <1>1, <1>2, <1>3, <1>4 DEF PcmInv

LEMMA PcmInit == Init => PcmInv
<1> USE SoundAssumption DEF Pcm!PcmAssumption
<1> SUFFICES ASSUME Init PROVE PcmInv
  OBVIOUS
<1>1. Pcm!Tests = Tests
  BY DEF Pcm!Tests, Tests
<1> QED BY <1>1, NothingRan DEF Init, Pcm!Init

LEMMA ReapedStep ==
  ASSUME PcmInv, Pcm!Reaped
  PROVE  PcmInv'
<1> USE SoundAssumption, BufferSize DEF Pcm!PcmAssumption
<1>1. Pcm!Tests = Tests /\ stops \in 0..MaxXruns /\ pcmErrors \in 0..MaxPcmErrors
  BY DEF Pcm!Tests, Tests, PcmInv
<1>2. PcmDomains'
  BY <1>1 DEF Pcm!Reaped, PcmDomains
<1>3. ASSUME NEW t \in Tests PROVE TestInv(t)'
  BY <1>1 DEF Pcm!Reaped, TestInv, TestTypes, DeviceInv, ProgramInv, OnDevice, Transferred
<1>4. MeanInv'
  BY DEF Pcm!Reaped, MeanInv, MeanError, Pcm!MeanError, StatsOf, Pcm!NoStats
<1>5. BlocksInv'
  BY <1>1 DEF Pcm!Reaped, BlocksInv, Pcm!NoStats, Tests
<1> QED BY <1>1, <1>2, <1>3, <1>4, <1>5 DEF PcmInv, Pcm!Reaped

LEMMA PcmStutter ==
  ASSUME PcmInv, UNCHANGED pcmVars
  PROVE  PcmInv'
<1>1. PcmDomains' /\ MeanInv' /\ BlocksInv' /\ stops' = stops /\ pcmErrors' = pcmErrors
  BY DEF pcmVars, PcmInv, PcmDomains, MeanInv, MeanError, Pcm!MeanError, BlocksInv
<1>2. ASSUME NEW t \in Tests PROVE TestInv(t)'
  BY DEF pcmVars, PcmInv, TestInv, TestTypes, DeviceInv, ProgramInv, OnDevice, Transferred,
    Pcm!chunk, Pcm!Least
<1> QED BY <1>1, <1>2 DEF PcmInv

LEMMA PcmStep == PcmInv /\ [Next]_vars => PcmInv'
<1> SUFFICES ASSUME PcmInv, [Next]_vars PROVE PcmInv'
  OBVIOUS
<1>1. CASE UNCHANGED pcmVars
  BY <1>1, PcmStutter
<1>2. CASE Script
  <2>1. CASE Begin
    BY <2>1, ReapedStep DEF Begin
  <2>2. CASE Launch("playback", "capture") \/ Launch("capture", "radio")
    BY <2>2, ProcessStep DEF Launch, Tests
  <2>3. CASE Checks \/ Radio \/ Wait("playback", "wait capture")
             \/ Wait("capture", "verdict") \/ Verdict
    BY <1>1, <2>3 DEF Checks, Radio, Wait, Verdict
  <2> QED BY <1>2, <2>1, <2>2, <2>3 DEF Script
<1>3. CASE \E t \in Tests : Test(t)
  BY <1>3, ProgramStep DEF Test
<1>4. CASE \E t \in Tests : Timeout(t)
  BY <1>4, ProcessStep DEF Timeout
<1>5. CASE Devices
  BY <1>5, TickStep DEF Devices
<1>6. CASE Trap \/ SetRoute \/ UNCHANGED vars
  BY <1>1, <1>6 DEF Trap, SetRoute, vars
<1> QED BY <1>2, <1>3, <1>4, <1>5, <1>6 DEF Next

(* However long a capture and whatever its blocks, the mean square it      *)
(* reports differs from the mean of its blocks by at most half the number  *)
(* of blocks less one (update_stats cuts off a quotient per block).        *)
THEOREM MeanIsExact == Spec => []MeanError
<1>1. Spec => []PcmInv
  BY PcmInit, PcmStep, PTL DEF Spec
<1>2. PcmInv => MeanError
  BY DEF PcmInv, MeanInv
<1> QED BY <1>1, <1>2, PTL

(* A test that reports success ran without a gap: whatever the device's    *)
(* buffer, however its reads and writes are cut short, and wherever it is  *)
(* ended.                                                                  *)
THEOREM PassIsGapless == Spec => []PassMeansGapless
<1>1. Spec => []PcmInv
  BY PcmInit, PcmStep, PTL DEF Spec
<1>2. PcmInv => PassMeansGapless
  <2>1. Pcm!Tests = Tests
    BY DEF Pcm!Tests, Tests
  <2> QED
    BY <2>1 DEF PcmInv, TestInv, ProgramInv, PassMeansGapless, Pcm!PassMeansGapless
<1> QED BY <1>1, <1>2, PTL

-----------------------------------------------------------------------------
(* The route.                                                              *)

Controls == 1..Len(Wanted)

(* The controls that hold what the table says of them.                     *)
Held == {i \in Controls : Route!Holds(i)}

(* The value the program is about to write is the one the table wants.     *)
RightItem ==
  IF Wanted[control].name = "NULL" THEN item = Wanted[control].value
  ELSE driver[control].items[item + 1] = Wanted[control].name

RouteTypes ==
  /\ routeAt \in {"exited", "open", "info", "lookup", "write"}
  /\ routeStatus \in {-1, 0, 1} /\ control \in Controls /\ item \in Nat
  /\ values \in [Controls -> Nat \cup {-1}] /\ driver \in Drivers
  /\ routeErrors \in 0..MaxRouteErrors

(* Controls are set from the first on, and those above the one the program *)
(* is at hold what they should.                                            *)
RouteInv ==
  /\ RouteTypes
  /\ \A i \in Controls : values[i] # -1 => \A j \in 1..i : j \in Held
  /\ routeAt = "open" => control = 1
  /\ routeAt \in {"info", "lookup", "write"} => \A j \in 1..control - 1 : j \in Held
  /\ routeAt = "lookup" => Wanted[control].name # "NULL"
  /\ routeAt = "write" => RightItem
  /\ routeAt = "exited" /\ routeStatus = 0 => \A j \in Controls : j \in Held

LEMMA RouteInit == Init => RouteInv
<1> USE SoundAssumption DEF Route!RouteAssumption
<1> SUFFICES ASSUME Init PROVE RouteInv
  OBVIOUS
<1>1. values \in [Controls -> Nat \cup {-1}] /\ \A i \in Controls : values[i] = -1
  BY DEF Init, Route!Init, Controls
<1>2. RouteTypes
  BY <1>1 DEF Init, Route!Init, RouteTypes, Controls
<1> QED BY <1>1, <1>2 DEF Init, Route!Init, RouteInv

(* A program that writes nothing keeps the controls as they are.           *)
LEMMA RouteReads ==
  ASSUME RouteInv, Route!Start \/ Route!Open \/ Route!Info \/ Route!find_enum_item \/ Route!Fail
  PROVE  RouteInv'
<1>1. values' = values /\ driver' = driver /\ Held' = Held
  <2>1. values' = values /\ driver' = driver
    BY DEF Route!Start, Route!Open, Route!Info, Route!find_enum_item, Route!Fail
  <2> QED BY <2>1 DEF Held, Route!Holds
<1>2. CASE Route!Start
  BY <1>1, <1>2 DEF Route!Start, RouteInv, RouteTypes, Controls
<1>3. CASE Route!Open
  BY <1>1, <1>3 DEF Route!Open, Route!Goto, RouteInv, RouteTypes, Controls
<1>4. CASE Route!Info
  <2> DEFINE Named == Wanted[control].name # "NULL" /\ driver[control].type = "enumerated"
             Direct == \/ Wanted[control].name = "NULL" /\ driver[control].type = "integer"
                       \/ /\ Wanted[control].name = "NULL" /\ driver[control].type = "enumerated"
                          /\ Wanted[control].value < Len(driver[control].items)
  <2>1. routeAt = "info" /\ routeErrors' = routeErrors
    BY <1>4 DEF Route!Info
  <2>2. CASE Named
    BY <1>1, <1>4, <2>1, <2>2 DEF Route!Info, Route!Goto, Route!want, Route!info, RouteInv,
      RouteTypes, Controls
  <2>3. CASE ~Named /\ Direct
    <3>1. control \in Controls /\ Wanted[control].value \in Nat
      BY SoundAssumption DEF Route!RouteAssumption, RouteInv, RouteTypes, Controls
    <3>2. routeAt' = "write" /\ item' = Wanted[control].value /\ control' = control
          /\ routeStatus' = routeStatus
      BY <1>4, <2>3 DEF Route!Info, Route!Goto, Route!want, Route!info
    <3> QED
      BY <1>1, <2>1, <2>3, <3>1, <3>2 DEF RightItem, RouteInv, RouteTypes, Controls
  <2>4. CASE ~Named /\ ~Direct
    BY <1>1, <1>4, <2>1, <2>4 DEF Route!Info, Route!exit, Route!want, Route!info, RouteInv,
      RouteTypes, Controls
  <2> QED BY <2>2, <2>3, <2>4
<1>5. CASE Route!find_enum_item
  BY <1>1, <1>5 DEF Route!find_enum_item, Route!Goto, Route!exit, Route!want, Route!info,
    RightItem, RouteInv, RouteTypes, Controls
<1>6. CASE Route!Fail
  BY <1>1, <1>6, SoundAssumption DEF Route!RouteAssumption, Route!Fail, Route!GiveUp,
    Route!exit, RouteInv, RouteTypes, Controls
<1> QED BY <1>2, <1>3, <1>4, <1>5, <1>6

LEMMA RouteWrites ==
  ASSUME RouteInv, Route!Write
  PROVE  RouteInv'
<1>1. CASE values' = values /\ Route!exit(1)
  <2>1. driver' = driver /\ routeErrors' = routeErrors
    BY DEF Route!Write
  <2>2. Held' = Held
    BY <1>1, <2>1 DEF Held, Route!Holds
  <2>3. routeAt' = "exited" /\ routeStatus' = 1 /\ control' = control /\ item' = item
    BY <1>1 DEF Route!exit
  <2>4. RouteTypes'
    BY <1>1, <2>1, <2>3 DEF RouteInv, RouteTypes, Controls
  <2>5. \A i \in Controls : values'[i] # -1 => \A j \in 1..i : j \in Held'
    BY <1>1, <2>2 DEF RouteInv
  <2> QED BY <2>3, <2>4, <2>5 DEF RouteInv
<1>2. CASE values' = [values EXCEPT ![control] = item]
  <2>1. routeAt = "write" /\ driver' = driver /\ routeErrors' = routeErrors
    BY DEF Route!Write
  <2>2. /\ RouteTypes /\ RightItem /\ \A j \in 1..control - 1 : j \in Held
        /\ control \in Controls /\ item \in Nat /\ Len(Wanted) \in Nat \ {0}
        /\ values \in [Controls -> Nat \cup {-1}]
    BY <2>1, SoundAssumption DEF Route!RouteAssumption, RouteInv, RouteTypes
  <2>3. values' \in [Controls -> Nat \cup {-1}] /\ values'[control] = item
        /\ \A i \in Controls \ {control} : values'[i] = values[i]
    BY <1>2, <2>2
  <2>4. control \in Held'
    BY <2>1, <2>2, <2>3 DEF RightItem, Held, Route!Holds, Controls
  <2>5. Held \subseteq Held'
    BY <2>1, <2>3, <2>4 DEF Held, Route!Holds
  <2>6. \A j \in 1..control : j \in Held'
    BY <2>2, <2>4, <2>5 DEF Controls
  <2>7. \A i \in Controls : values'[i] # -1 => \A j \in 1..i : j \in Held'
    <3> SUFFICES ASSUME NEW i \in Controls, values'[i] # -1 PROVE \A j \in 1..i : j \in Held'
      OBVIOUS
    <3>1. CASE i = control
      BY <2>6, <3>1
    <3>2. CASE i # control
      BY <2>3, <2>5, <3>2 DEF RouteInv
    <3> QED BY <3>1, <3>2
  <2>8. CASE control = Len(Wanted)
    <3>1. /\ routeAt' = "exited" /\ routeStatus' \in {0, 1}
          /\ control' = control /\ item' = item
      <4>1. Route!exit(1) \/ Route!exit(0)
        <5>1. CASE Route!info.type = "enumerated" /\ item >= Len(Route!info.items)
          BY <5>1 DEF Route!Write
        <5>2. CASE ~(Route!info.type = "enumerated" /\ item >= Len(Route!info.items))
          BY <2>8, <5>2 DEF Route!Write
        <5> QED BY <5>1, <5>2
      <4> QED BY <4>1 DEF Route!exit
    <3>2. \A j \in Controls : j \in Held'
      BY <2>6, <2>8 DEF Controls
    <3> QED BY <2>1, <2>2, <2>3, <2>7, <3>1, <3>2 DEF RouteInv, RouteTypes
  <2>9. CASE control # Len(Wanted) /\ ~Route!exit(1)
    <3>1. routeAt' = "info" /\ control' = control + 1 /\ item' = 0 /\ routeStatus' = routeStatus
      BY <2>9 DEF Route!Write
    <3>2. control' \in Controls /\ control' - 1 = control
      BY <2>2, <2>9, <3>1 DEF Controls
    <3> QED BY <2>1, <2>2, <2>3, <2>6, <2>7, <3>1, <3>2 DEF RouteInv, RouteTypes
  <2>10. CASE Route!exit(1)
    BY <2>1, <2>2, <2>3, <2>7, <2>10 DEF Route!exit, RouteInv, RouteTypes
  <2> QED BY <2>8, <2>9, <2>10
<1> QED BY <1>1, <1>2 DEF Route!Write

LEMMA RouteStep == RouteInv /\ [Next]_vars => RouteInv'
<1> SUFFICES ASSUME RouteInv, [Next]_vars PROVE RouteInv'
  OBVIOUS
<1>1. CASE UNCHANGED routeVars
  <2>1. Held' = Held
    BY <1>1 DEF routeVars, Held, Route!Holds
  <2> QED BY <1>1, <2>1 DEF routeVars, RouteInv, RouteTypes, RightItem
<1>2. CASE SetRoute
  BY <1>2, RouteReads, RouteWrites DEF SetRoute, Route!Program
<1>3. CASE Script \/ Trap \/ (\E t \in Tests : Test(t) \/ Timeout(t)) \/ Devices \/ UNCHANGED vars
  <2>1. SetRoute \/ UNCHANGED routeVars
    BY <1>3 DEF Next, Test, Timeout, Devices, vars
  <2> QED BY <1>1, <1>2, <2>1
<1> QED BY <1>2, <1>3 DEF Next

(* The route is complete when the tool says so, and set in its order       *)
(* whatever fails: for every table and every driver with as many controls. *)
THEOREM RouteIsComplete == Spec => []RouteComplete
<1>1. Spec => []RouteInv
  BY RouteInit, RouteStep, PTL DEF Spec
<1>2. RouteInv => RouteComplete
  BY DEF RouteInv, RouteTypes, RouteComplete, Route!RouteComplete, Held, Controls
<1> QED BY <1>1, <1>2, PTL

-----------------------------------------------------------------------------
(* The script.                                                             *)

SoakTypes ==
  /\ image \in Images /\ line \in Lines /\ failed \in BOOLEAN
  /\ verdict \in {"none", "PASS", "FAIL", "INTERRUPTED"}

(* A test that was waited for has ended, and well if nothing failed.       *)
EndedWell(t) == Ended(t) /\ (failed = FALSE => status[t] = 0)

SoakInv ==
  /\ SoakTypes
  /\ line \in {"checks", "playback"} => Silent
  /\ line \in {"wait capture", "verdict"} => EndedWell("playback")
  /\ line = "verdict" => EndedWell("capture")
  /\ SoakPassMeansBoth

LEMMA SoakInit == Init => SoakInv
  BY DEF Init, Pcm!Init, Pcm!Tests, SoakInv, SoakTypes, Lines, Silent, Ended, Tests,
    SoakPassMeansBoth

(* A test that has ended does nothing more by itself.                      *)
LEMMA EndedStays ==
  ASSUME PcmDomains, NEW t \in Tests, Ended(t),
         \/ \E u \in Tests : Pcm!Program(u) \/ (~Ended(u) /\ Pcm!Kill(u))
         \/ Pcm!Tick
  PROVE  Ended(t)' /\ status'[t] = status[t]
<1>1. CASE \E u \in Tests : Pcm!Program(u)
  <2>1. PICK u \in Tests : Pcm!Program(u)
    BY <1>1
  <2>2. at[u] # "exited"
    BY <2>1 DEF Pcm!Program, Pcm!configure_pcm, Pcm!Call, Pcm!Move, Pcm!Moved, Pcm!Recover,
      Pcm!TransferFails, Pcm!Finish
  <2>3. u # t
    BY <2>2 DEF Ended
  <2>4. at'[t] = at[t] /\ status'[t] = status[t]
    BY <2>1, <2>3 DEF Pcm!Program, Pcm!configure_pcm, Pcm!Call, Pcm!Move, Pcm!Moved, Pcm!Recover,
      Pcm!TransferFails, Pcm!Finish, Pcm!Goto, Pcm!Fails, PcmDomains
  <2> QED BY <2>4 DEF Ended
<1>2. CASE \E u \in Tests : ~Ended(u) /\ Pcm!Kill(u)
  BY <1>2 DEF Ended, Pcm!Kill, Pcm!Goto, PcmDomains
<1>3. CASE Pcm!Tick
  BY <1>3 DEF Ended, Pcm!Tick, Pcm!program
<1> QED BY <1>1, <1>2, <1>3

LEMMA SoakStep ==
  ASSUME PcmDomains, SoakInv, [Next]_vars
  PROVE  SoakInv'
<1>1. SoakTypes'
  BY DEF SoakInv, SoakTypes, Next, Script, Begin, Checks, Launch, Radio, Wait, Verdict, Trap,
    Test, Timeout, Devices, SetRoute, soak, vars, Goto, Count, CountStatus, End, Lines
<1>2. CASE UNCHANGED soak /\ \A t \in Tests : Ended(t) => Ended(t)' /\ status'[t] = status[t]
  BY <1>1, <1>2 DEF soak, SoakInv, Silent, EndedWell, Tests, SoakPassMeansBoth
<1>3. CASE \/ \E t \in Tests : Test(t) \/ Timeout(t)
           \/ Devices \/ SetRoute \/ UNCHANGED vars
  BY <1>2, <1>3, EndedStays DEF Test, Timeout, Devices, SetRoute, vars, pcmVars, Ended
<1>4. CASE Script \/ Trap
  <2>1. CASE Begin
    BY <1>1, <2>1 DEF Begin, Pcm!Reaped, Pcm!Tests, SoakInv, Silent, Ended, Tests, SoakPassMeansBoth
  <2>2. CASE Checks
    BY <1>1, <2>2 DEF Checks, Goto, End, pcmVars, SoakInv, Silent, Ended, SoakPassMeansBoth
  <2>3. CASE Launch("playback", "capture") \/ Launch("capture", "radio") \/ Radio
    BY <1>1, <2>3 DEF Launch, Radio, Goto, SoakInv, SoakPassMeansBoth
  <2>4. CASE Wait("playback", "wait capture")
    BY <1>1, <2>4 DEF Wait, Goto, CountStatus, Count, pcmVars, SoakInv, SoakTypes, EndedWell,
      Ended, SoakPassMeansBoth
  <2>5. CASE Wait("capture", "verdict")
    BY <1>1, <2>5 DEF Wait, Goto, CountStatus, Count, pcmVars, SoakInv, SoakTypes, EndedWell,
      Ended, SoakPassMeansBoth
  <2>6. CASE Verdict
    BY <1>1, <2>6 DEF Verdict, End, Count, pcmVars, SoakInv, SoakTypes, EndedWell, Silent,
      Ended, Tests, SoakPassMeansBoth
  <2>7. CASE Trap
    BY <1>1, <2>7 DEF Trap, SoakInv, SoakPassMeansBoth
  <2> QED BY <1>4, <2>1, <2>2, <2>3, <2>4, <2>5, <2>6, <2>7 DEF Script
<1> QED BY <1>3, <1>4 DEF Next

LEMMA Invariant == Spec => [](PcmInv /\ RouteInv /\ SoakInv)
<1>1. Init => PcmInv /\ RouteInv /\ SoakInv
  BY PcmInit, RouteInit, SoakInit
<1>2. PcmInv /\ RouteInv /\ SoakInv /\ [Next]_vars => (PcmInv /\ RouteInv /\ SoakInv)'
  BY PcmStep, RouteStep, SoakStep DEF PcmInv
<1> QED BY <1>1, <1>2, PTL DEF Spec

(* The soak passes only when both tests of this soak passed, and leaves    *)
(* none running unless it is interrupted: whatever the order in which they *)
(* end, fail or are ended by their timeouts.                               *)
THEOREM SoakIsBoth == Spec => []SoakPassMeansBoth
<1>1. SoakInv => SoakPassMeansBoth
  BY DEF SoakInv
<1> QED BY <1>1, Invariant, PTL

(* Every variable keeps its type; no test counts more than the run's stops *)
(* or moves more than it was asked and a buffer holds.                     *)
THEOREM TypeCorrect == Spec => []TypeOK
<1> USE SoundAssumption, BufferSize DEF Pcm!PcmAssumption
<1>1. PcmInv => Pcm!TypeOK
  <2> SUFFICES ASSUME PcmInv PROVE Pcm!TypeOK
    OBVIOUS
  <2>1. Pcm!Tests = Tests /\ PcmDomains /\ MeanInv /\ BlocksInv /\ Length \in Nat
    BY DEF Pcm!Tests, Tests, PcmInv
  <2>2. ASSUME NEW t \in Tests PROVE xruns[t] \in 0..MaxXruns /\ run[t] \in 0..Length + Pcm!BUFFER
    <3>1. TestTypes(t) /\ DeviceInv(t) /\ ProgramInv(t) /\ stops \in 0..MaxXruns
      BY DEF PcmInv, TestInv
    <3>2. xruns[t] \in 0..MaxXruns
      BY <3>1 DEF TestTypes, DeviceInv
    <3>3. run[t] \in 0..Length + Pcm!BUFFER
      BY <2>1, <3>1 DEF TestTypes, ProgramInv, OnDevice, Transferred, Pcm!chunk, Pcm!Least
    <3> QED BY <3>2, <3>3
  <2>3. ASSUME NEW c \in Channels PROVE stats[c].mean_square \in Nat /\ stats[c].blocks \in 0..Length
    <3>1. bytes_left["capture"] \in 0..Length
      BY DEF PcmInv, TestInv, TestTypes, Tests
    <3> QED BY <2>1, <3>1 DEF MeanInv, StatsOf, BlocksInv
  <2>4. \A t \in Tests : TestTypes(t)
    BY DEF PcmInv, TestInv
  <2>5. stops \in 0..MaxXruns /\ pcmErrors \in 0..MaxPcmErrors /\ sum \in [Channels -> Nat]
    BY DEF PcmInv, MeanInv
  <2>6. /\ at \in [Tests -> {"exited", "open", "transfer", "move", "drop"}]
        /\ status \in [Tests -> {-1, 0, 1, 143}]
        /\ bytes_left \in [Tests -> 0..Length] /\ moved \in [Tests -> 0..PERIOD]
        /\ xruns \in [Tests -> 0..MaxXruns]
        /\ pcm \in [Tests -> {"closed", "prepared", "running", "xrun"}]
        /\ fill \in [Tests -> 0..Pcm!BUFFER] /\ run \in [Tests -> 0..Length + Pcm!BUFFER]
    BY <2>1, <2>2, <2>4 DEF PcmDomains, TestTypes
  <2> QED BY <2>1, <2>3, <2>5, <2>6 DEF Pcm!TypeOK
<1>2. RouteInv => Route!TypeOK
  BY DEF RouteInv, RouteTypes, Controls, Route!TypeOK
<1>3. SoakInv => image \in Images /\ line \in Lines /\ failed \in BOOLEAN
                 /\ verdict \in {"none", "PASS", "FAIL", "INTERRUPTED"}
  BY DEF SoakInv, SoakTypes
<1>4. PcmInv /\ RouteInv /\ SoakInv => TypeOK
  BY <1>1, <1>2, <1>3 DEF TypeOK
<1> QED BY <1>4, Invariant, PTL
=============================================================================
