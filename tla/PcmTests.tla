------------------------------ MODULE PcmTests ------------------------------
(***************************************************************************)
(* tools/r1-pcm-clock-test.c (zeros, or the factory's tone, to the         *)
(* playback device) and tools/r1-pcm-capture-test.c (statistics of what    *)
(* the capture device delivers), each with the ring buffer of its device.  *)
(*                                                                         *)
(* Time and data are counted in parts of a period.  A device moves one     *)
(* part at a time between its buffer and the wire and stops when the       *)
(* buffer runs dry or over; a read or write moves what it can, waits for   *)
(* the rest, and returns early with part of it when the device stops.      *)
(*                                                                         *)
(* A definition marked "Variant" is a faulty form of the next one.  No     *)
(* action uses it; it shows which fault of the code a property detects.    *)
(***************************************************************************)
EXTENDS Integers, FiniteSets

CONSTANTS
  Length,       \* what a test is asked to move
  PERIOD,       \* a period
  PERIODS,      \* periods in a buffer, 4 in the programs
  Channels,     \* "left" and "right" in the program
  BlockMeans,   \* mean squares a captured block may have
  MaxXruns,     \* bound on the times a device stops
  MaxPcmErrors  \* bound on calls that fail

(* Assumed by the modules that compose this one.                           *)
PcmAssumption ==
  /\ Length \in Nat \ {0} /\ PERIOD \in Nat \ {0} /\ PERIODS \in Nat \ {0, 1}
  /\ BlockMeans \subseteq Nat
  /\ MaxXruns \in Nat /\ MaxPcmErrors \in Nat

BUFFER == PERIODS * PERIOD
Tests == {"playback", "capture"}

VARIABLES
  at,           \* where each program is
  status,       \* its exit status, -1 before the first run
  bytes_left,   \* what it has still to move
  moved,        \* what its present read or write has moved
  xruns,        \* recoveries it has counted
  pcm,          \* state of the device
  fill,         \* what the device's buffer holds
  run,          \* history: parts the device has moved since it was prepared
  stats,        \* the capture test's statistics of each channel
  sum,          \* history: the sum of the block means of each channel
  stops,        \* devices that have stopped in this run
  pcmErrors

program == <<at, status, bytes_left, moved, xruns>>
device  == <<pcm, fill, run>>
blocks  == <<stats, sum>>
pcmVars == <<program, device, blocks, stops, pcmErrors>>

NoStats == [mean_square |-> 0, blocks |-> 0]

Init ==
  /\ at = [t \in Tests |-> "exited"] /\ status = [t \in Tests |-> -1]
  /\ bytes_left = [t \in Tests |-> 0] /\ moved = [t \in Tests |-> 0]
  /\ xruns = [t \in Tests |-> 0]
  /\ pcm = [t \in Tests |-> "closed"] /\ fill = [t \in Tests |-> 0]
  /\ run = [t \in Tests |-> 0]
  /\ stats = [c \in Channels |-> NoStats] /\ sum = [c \in Channels |-> 0]
  /\ stops = 0 /\ pcmErrors = 0

Least(a, b) == IF a <= b THEN a ELSE b
Goto(t, where) == at' = [at EXCEPT ![t] = where]
Error == pcmErrors < MaxPcmErrors /\ pcmErrors' = pcmErrors + 1
\* Variant.
WholePeriod(t) == PERIOD
chunk(t) == Least(bytes_left[t], PERIOD)

-----------------------------------------------------------------------------
(* divide_u32 and integer_sqrt, bit by bit for words of w bits: MC modules *)
(* compare them with division and the square root.                         *)

divide(w, dividend, divisor) ==
  LET after[bit \in 0..w] ==      \* <<quotient, remainder>> above this bit
        IF bit = w THEN <<0, 0>>
        ELSE LET q == after[bit + 1][1]
                 r == (2 * after[bit + 1][2] + ((dividend \div 2^bit) % 2)) % 2^w
             IN IF r >= divisor THEN <<q + 2^bit, r - divisor>> ELSE <<q, r>>
  IN after[0][1]

square_root(w, value) ==
  LET \* <<value, root>> once the bits from 4^k on are done
      after[k \in 0..w \div 2] ==
        IF k = w \div 2 THEN <<value, 0>>
        ELSE LET v == after[k + 1][1]
                 r == after[k + 1][2]
             IN IF 4^k > value THEN <<v, r>>
                ELSE IF v >= r + 4^k THEN <<v - r - 4^k, r \div 2 + 4^k>>
                ELSE <<v, r \div 2>>
  IN after[0][2]

(* The running mean of update_stats; a quotient is cut off toward the mean *)
(* there was, so that a change smaller than the block count is lost.       *)
\* Variant.
Unsigned(mean, block, count) == mean + ((block - mean) % 2^16) \div count
NextMean(mean, block, count) ==
  IF block >= mean THEN mean + (block - mean) \div count
                   ELSE mean - (mean - block) \div count

update_stats(s, block) ==
  [mean_square |-> NextMean(s.mean_square, block, s.blocks + 1),
   blocks |-> s.blocks + 1]

-----------------------------------------------------------------------------
(* The programs.                                                           *)

Start(t) ==
  /\ at[t] = "exited" /\ Goto(t, "open")
  /\ status' = [status EXCEPT ![t] = 0] /\ xruns' = [xruns EXCEPT ![t] = 0]
  /\ bytes_left' = [bytes_left EXCEPT ![t] = Length]
  /\ moved' = [moved EXCEPT ![t] = 0] /\ run' = [run EXCEPT ![t] = 0]
  /\ IF t = "capture"
     THEN stats' = [c \in Channels |-> NoStats] /\ sum' = [c \in Channels |-> 0]
     ELSE UNCHANGED blocks
  /\ UNCHANGED <<pcm, fill, stops, pcmErrors>>

Close(t) == pcm' = [pcm EXCEPT ![t] = "closed"] /\ fill' = [fill EXCEPT ![t] = 0]
Fails(t) == status' = [status EXCEPT ![t] = 1]
Prepared(t) ==
  /\ pcm' = [pcm EXCEPT ![t] = "prepared"] /\ fill' = [fill EXCEPT ![t] = 0]
  /\ run' = [run EXCEPT ![t] = 0]

(* open and configure_pcm, which ends in PREPARE.                          *)
configure_pcm(t) ==
  /\ at[t] = "open"
  /\ \/ Prepared(t) /\ Goto(t, "transfer") /\ UNCHANGED <<status, pcmErrors>>
     \/ Error /\ Fails(t) /\ Goto(t, "exited") /\ UNCHANGED device
  /\ UNCHANGED <<bytes_left, moved, xruns, blocks, stops>>

(* The read that finds the device prepared starts it.                      *)
Call(t) ==
  /\ at[t] = "transfer" /\ bytes_left[t] > 0
  /\ Goto(t, "move") /\ moved' = [moved EXCEPT ![t] = 0]
  /\ pcm' = IF t = "capture" /\ pcm[t] = "prepared"
            THEN [pcm EXCEPT ![t] = "running"] ELSE pcm
  /\ UNCHANGED <<status, bytes_left, xruns, fill, run, blocks, stops, pcmErrors>>

CanMove(t) ==
  Least(chunk(t) - moved[t], IF t = "playback" THEN BUFFER - fill[t] ELSE fill[t])

(* In the kernel: the call copies what it can; a first write starts the    *)
(* device.                                                                 *)
Move(t) ==
  /\ at[t] = "move" /\ pcm[t] \in {"prepared", "running"} /\ CanMove(t) > 0
  /\ moved' = [moved EXCEPT ![t] = @ + CanMove(t)]
  /\ fill' = [fill EXCEPT ![t] = IF t = "playback" THEN @ + CanMove(t) ELSE @ - CanMove(t)]
  /\ pcm' = [pcm EXCEPT ![t] = "running"]
  /\ UNCHANGED <<at, status, bytes_left, xruns, run, blocks, stops, pcmErrors>>

Moved(t) ==
  /\ at[t] = "move" /\ moved[t] > 0
  /\ moved[t] = chunk(t) \/ pcm[t] = "xrun"
  /\ bytes_left' = [bytes_left EXCEPT ![t] = @ - moved[t]]
  /\ Goto(t, IF bytes_left'[t] = 0 THEN "drop" ELSE "transfer")
  /\ IF t = "playback" THEN UNCHANGED blocks
     ELSE \E block \in [Channels -> BlockMeans] :
            /\ stats' = [c \in Channels |-> update_stats(stats[c], block[c])]
            /\ sum' = [c \in Channels |-> sum[c] + block[c]]
  /\ UNCHANGED <<status, moved, xruns, device, stops, pcmErrors>>

(* EPIPE: the recovery is counted and the device prepared again.           *)
\* Variant.
NotCounted(t) == UNCHANGED xruns
Counted(t) == xruns' = [xruns EXCEPT ![t] = @ + 1]

Recover(t) ==
  /\ at[t] = "move" /\ pcm[t] = "xrun" /\ moved[t] = 0 /\ Counted(t)
  /\ \/ Prepared(t) /\ Goto(t, "transfer") /\ UNCHANGED <<status, pcmErrors>>
     \/ Error /\ Fails(t) /\ Goto(t, "exited") /\ Close(t) /\ UNCHANGED run
  /\ UNCHANGED <<bytes_left, moved, blocks, stops>>

(* Any other error, and a call that moves nothing.                         *)
TransferFails(t) ==
  /\ at[t] = "move" /\ moved[t] = 0 /\ Error /\ Fails(t) /\ Goto(t, "drop")
  /\ UNCHANGED <<bytes_left, moved, xruns, device, blocks, stops>>

(* DROP, close, and the verdict: xruns fail a test, and so does a capture  *)
(* without a single sample that is not zero (samples so small that the     *)
(* mean square of their block is 0 may still be such).                     *)
Verdicts(t) ==
  IF status[t] = 1 \/ xruns[t] > 0 THEN {1}
  ELSE IF t = "capture" /\ \A c \in Channels : sum[c] = 0 THEN {0, 1} ELSE {0}

Finish(t) ==
  /\ at[t] = "drop" /\ Close(t) /\ Goto(t, "exited")
  /\ \E verdict \in Verdicts(t) : status' = [status EXCEPT ![t] = verdict]
  /\ UNCHANGED <<bytes_left, moved, xruns, run, blocks, stops, pcmErrors>>

(* timeout, or a signal, ends the program; the kernel closes the device.   *)
Kill(t) ==
  /\ at[t] # "exited" /\ Close(t) /\ Goto(t, "exited")
  /\ status' = [status EXCEPT ![t] = 143]
  /\ UNCHANGED <<bytes_left, moved, xruns, run, blocks, stops, pcmErrors>>

(* Processes that ended have left nothing: every device is closed.         *)
Reaped ==
  /\ at' = [t \in Tests |-> "exited"] /\ status' = [t \in Tests |-> -1]
  /\ bytes_left' = [t \in Tests |-> 0] /\ moved' = [t \in Tests |-> 0]
  /\ xruns' = [t \in Tests |-> 0]
  /\ pcm' = [t \in Tests |-> "closed"] /\ fill' = [t \in Tests |-> 0]
  /\ run' = [t \in Tests |-> 0]
  /\ stats' = [c \in Channels |-> NoStats] /\ sum' = [c \in Channels |-> 0]
  /\ UNCHANGED <<stops, pcmErrors>>

Program(t) ==
  configure_pcm(t) \/ Call(t) \/ Move(t) \/ Moved(t) \/ Recover(t)
    \/ TransferFails(t) \/ Finish(t)

-----------------------------------------------------------------------------
(* The devices: both hang on one I2S controller and move in step.          *)

Runs(t) == pcm[t] = "running"
Level(t) == IF ~Runs(t) THEN fill[t] ELSE IF t = "playback" THEN fill[t] - 1 ELSE fill[t] + 1
Stops == {t \in Tests : Runs(t) /\ Level(t) \notin 1..BUFFER - 1}

Tick ==
  /\ \E t \in Tests : Runs(t)
  /\ fill' = [t \in Tests |-> Level(t)]
  /\ run' = [t \in Tests |-> IF Runs(t) THEN run[t] + 1 ELSE run[t]]
  /\ pcm' = [t \in Tests |-> IF t \in Stops THEN "xrun" ELSE pcm[t]]
  /\ stops' = stops + Cardinality(Stops) /\ stops' <= MaxXruns
  /\ UNCHANGED <<program, blocks, pcmErrors>>

Next == Tick \/ \E t \in Tests : Start(t) \/ Program(t) \/ Kill(t)

Spec == Init /\ [][Next]_pcmVars

-----------------------------------------------------------------------------
(* Properties.                                                             *)

TypeOK ==
  /\ at \in [Tests -> {"exited", "open", "transfer", "move", "drop"}]
  /\ status \in [Tests -> {-1, 0, 1, 143}]
  /\ bytes_left \in [Tests -> 0..Length] /\ moved \in [Tests -> 0..PERIOD]
  /\ xruns \in [Tests -> 0..MaxXruns]
  /\ pcm \in [Tests -> {"closed", "prepared", "running", "xrun"}]
  /\ fill \in [Tests -> 0..BUFFER] /\ run \in [Tests -> 0..Length + BUFFER]
  /\ \A c \in Channels : stats[c].mean_square \in Nat /\ stats[c].blocks \in 0..Length
  /\ sum \in [Channels -> Nat]
  /\ stops \in 0..MaxXruns /\ pcmErrors \in 0..MaxPcmErrors

(* A test that reports success has moved all it was asked to move in one   *)
(* run of its device, without a gap; only what was in the playback buffer  *)
(* when the test dropped it was not heard.                                 *)
PassMeansGapless ==
  \A t \in Tests :
    at[t] = "exited" /\ status[t] = 0 => run[t] >= (IF t = "playback" THEN Length - BUFFER ELSE Length)

(* The mean square a channel reports differs from the mean of its blocks   *)
(* by at most half the number of blocks less one; a longer capture is less *)
(* exact.                                                                  *)
MeanError ==
  \A c \in Channels :
    LET n == stats[c].blocks
        difference == n * stats[c].mean_square - sum[c]
    IN -(n * (n - 1)) <= 2 * difference /\ 2 * difference <= n * (n - 1)
=============================================================================
