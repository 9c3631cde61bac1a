-------------------------- MODULE AudibleTestProofs --------------------------
(***************************************************************************)
(* Whatever the programs do and however long their calls take: with one    *)
(* failure at most they leave the amplifier silent, and silence it before  *)
(* they stop the stream.  With any number of failures and stalls, neither  *)
(* the buffer nor a counter leaves its range, a program that prints PASS   *)
(* was heard to the end of every tone (but for the two that mute the DAC   *)
(* behind it), and no tone of peak 32 jumps.  And if no call fails or is   *)
(* later than 256 frames, every program passes.                            *)
(***************************************************************************)
EXTENDS AudibleTest, SequenceTheorems, TLAPS

(* Phases in which nothing is to be heard: before the gate is open, and    *)
(* once it has been made safe or closed.                                   *)
QuietPhases == {"start", "drop", "close_PCM", "close_gate", "killed_PCM", "exited"}

Quiet(a, l) == ~Audible(a) /\ l = 0

(* The strengthening: one failure cannot defeat both regulators, and no    *)
(* step in a quiet phase touches them again.                               *)
IInv == faults \in Nat /\ (phase \in QuietPhases => Quiet(amp, lease))

(* Making safe with one failure at most leaves one regulator off.          *)
LEMMA ForcedIsSilent ==
  ASSUME MaxFaults <= 1, faults \in Nat, NEW K, Fails(K)
  PROVE  ~Audible(Forced(K))
<1>1. SUFFICES ASSUME "shutdown" \in K, "mute" \in K PROVE FALSE
  BY DEF Audible, Forced
<1>2. One("shutdown", K) = 1 /\ One("mute", K) = 1 /\ One("call", K) \in {0, 1}
  BY <1>1 DEF One
<1>3. faults + 2 + One("call", K) <= MaxFaults
  BY <1>2 DEF Fails
<1> QED BY <1>2, <1>3, BoundsAssumption

LEMMA FailsCounts ==
  ASSUME faults \in Nat, NEW K, Fails(K) PROVE faults' \in Nat
<1>1. One("mute", K) \in {0, 1} /\ One("shutdown", K) \in {0, 1} /\ One("call", K) \in {0, 1}
  BY DEF One
<1> QED BY <1>1 DEF Fails

LEMMA ForceSafeSilences ==
  ASSUME MaxFaults <= 1, faults \in Nat, ForceSafe
  PROVE  faults' \in Nat /\ Quiet(amp', lease')
<1>1. PICK K \in SUBSET Regulators : Fails(K) /\ amp' = Forced(K)
  BY DEF ForceSafe
<1>2. ~Audible(amp')
  BY <1>1, ForcedIsSilent
<1>3. faults' \in Nat
  BY <1>1, FailsCounts
<1> QED BY <1>2, <1>3 DEF ForceSafe, Quiet

(* The steps of main end in main or on the way out, where the first call   *)
(* is still to make the gate safe.                                         *)
LEMMA MainNeverQuiet ==
  ASSUME Main \/ Wait, phase # "start" PROVE phase = "main" /\ phase' \in {"main", "safe"}
<1>1. ASSUME phase = "main", Advance PROVE phase' \in {"main", "safe"}
  BY <1>1 DEF Advance
<1>2. ASSUME Leave PROVE phase' = "safe"
  BY <1>2 DEF Leave
<1>3. ASSUME phase = "main", Iterated PROVE phase' \in {"main", "safe"}
  BY <1>1, <1>3 DEF Iterated
<1>4. CASE Wait
  BY <1>4 DEF Wait
<1>5. CASE OpenGate
  BY <1>5 DEF OpenGate
<1>6. CASE Safe
  BY <1>1, <1>2, <1>6 DEF Safe, At
<1>7. CASE ArmMuted
  BY <1>1, <1>2, <1>7 DEF ArmMuted, At
<1>8. CASE Unmute
  BY <1>1, <1>2, <1>8 DEF Unmute, At
<1>9. CASE Keepalive
  BY <1>2, <1>9 DEF Keepalive
<1>10. CASE CodecRequest
  BY <1>1, <1>2, <1>10 DEF CodecRequest, At
<1>11. CASE OpenPcm \/ Prepare \/ Drop
  BY <1>1, <1>11 DEF OpenPcm, Prepare, Drop, At
<1>12. CASE Write
  BY <1>2, <1>3, <1>12 DEF Write
<1>13. CASE Sleep
  BY <1>3, <1>13 DEF Sleep
<1>14. CASE CallFails
  BY <1>2, <1>14 DEF CallFails
<1> QED BY <1>4, <1>5, <1>6, <1>7, <1>8, <1>9, <1>10, <1>11, <1>12, <1>13, <1>14 DEF Main

LEMMA MainCounts ==
  ASSUME faults \in Nat, Main \/ Wait PROVE faults' \in Nat
<1>1. CASE Wait
  BY <1>1, FailsCounts DEF Wait
<1>2. CASE OpenGate
  BY <1>2, FailsCounts DEF OpenGate
<1>3. CASE Safe
  BY <1>3, FailsCounts DEF Safe
<1>4. CASE ArmMuted
  BY <1>4, FailsCounts DEF ArmMuted
<1>5. CASE CallFails
  BY <1>5, FailsCounts DEF CallFails
<1>6. CASE \/ Unmute \/ Keepalive \/ CodecRequest \/ OpenPcm \/ Prepare \/ Drop
           \/ Write \/ Sleep
  BY <1>6 DEF Unmute, Keepalive, CodecRequest, OpenPcm, Prepare, Drop, Write, Sleep
<1> QED BY <1>1, <1>2, <1>3, <1>4, <1>5, <1>6 DEF Main

LEMMA InvariantKept ==
  ASSUME MaxFaults <= 1, IInv, [Next]_vars PROVE IInv'
<1> USE DEF IInv
<1>1. CASE (Main \/ Wait) /\ phase # "start"
  <2>1. phase' \notin QuietPhases
    BY <1>1, MainNeverQuiet DEF QuietPhases
  <2> QED BY <1>1, <2>1, MainCounts
<1>2. CASE (Main \/ Wait) /\ phase = "start"
  <2>1. OpenGate
    BY <1>2 DEF Main, Wait, Safe, ArmMuted, Unmute, Keepalive, CodecRequest,
                OpenPcm, Prepare, Drop, Write, Sleep, CallFails, At
  <2>2. amp' = amp /\ lease' = lease
    BY <2>1 DEF OpenGate, gate
  <2>3. Quiet(amp, lease)
    BY <1>2 DEF QuietPhases
  <2> QED BY <1>2, <2>2, <2>3, MainCounts DEF Quiet, Audible
<1>3. CASE OutSafe \/ Release \/ KilledRelease
  <2>1. ForceSafe
    BY <1>3 DEF OutSafe, Release, KilledRelease, r1_audio_safety_release
  <2> QED BY <2>1, ForceSafeSilences DEF Quiet, Audible
<1>4. CASE OutDrop \/ OutClose \/ KilledClose
  <2>1. phase \in QuietPhases
    BY <1>4 DEF OutDrop, OutClose, KilledClose, Finish, QuietPhases
  <2>2. amp' = amp /\ lease' = lease /\ faults' = faults
    BY <1>4 DEF OutDrop, OutClose, KilledClose, StopStream, gate
  <2> QED BY <2>1, <2>2 DEF Quiet, Audible
<1>5. CASE Kill
  BY <1>5 DEF Kill, QuietPhases
<1>6. CASE UNCHANGED vars
  BY <1>6 DEF vars, client, gate, Quiet, Audible
<1> QED BY <1>1, <1>2, <1>3, <1>4, <1>5, <1>6 DEF Next, End

LEMMA InvariantInitially == Init => IInv
BY DEF Init, IInv, Quiet, Audible, Off

(* The inductive invariant: before the gate is open and from the first     *)
(* SAFE or close on, the amplifier is silent and no timeout is pending.    *)
THEOREM QuietOutside == ASSUME MaxFaults <= 1 PROVE Spec => []IInv
<1>1. IInv /\ [Next]_vars => IInv'
  BY InvariantKept
<1> QED BY <1>1, InvariantInitially, PTL DEF Spec

(* However the process ends (r1-audible-test.c:1042 or the kernel closing  *)
(* its files), one failing regulator does not leave the amplifier audible. *)
THEOREM AlwaysSilentAfter == ASSUME MaxFaults <= 1 PROVE Spec => []SilentAfter
<1>1. IInv => SilentAfter
  BY DEF IInv, SilentAfter, Quiet, QuietPhases
<1> QED BY <1>1, QuietOutside, PTL

(* On the way out the amplifier is silent before the PCM is dropped or     *)
(* closed under it.                                                        *)
THEOREM AlwaysSilentBeforeStop == ASSUME MaxFaults <= 1 PROVE Spec => SilentBeforeStop
<1> DEFINE Stops == /\ stream = "running" /\ stream' \in {"stopped", "closed"}
                    /\ phase # "main"
<1>1. ASSUME IInv, [Next]_vars PROVE Stops => ~Audible(amp)
  <2>1. SUFFICES ASSUME Stops PROVE ~Audible(amp)
    OBVIOUS
  <2>2. OutDrop \/ OutClose \/ KilledClose
    <3>1. ~Main /\ ~Wait
      <4>1. CASE phase = "start"
        BY <2>1, <4>1 DEF Main, OpenGate, Wait, Safe, ArmMuted, Unmute, Keepalive,
          CodecRequest, OpenPcm, Prepare, Drop, Write, Sleep, CallFails, At, pcm
      <4>2. CASE phase # "start"
        BY <2>1, <4>2, MainNeverQuiet
      <4> QED BY <4>1, <4>2
    <3>2. ~OutSafe /\ ~Release /\ ~KilledRelease /\ ~Kill /\ ~UNCHANGED vars
      BY <2>1 DEF OutSafe, Release, KilledRelease, Kill, r1_audio_safety_release,
        ForceSafe, vars, pcm
    <3> QED BY <1>1, <3>1, <3>2 DEF Next, End
  <2>3. phase \in QuietPhases
    BY <2>2 DEF OutDrop, OutClose, KilledClose, Finish, QuietPhases
  <2> QED BY <1>1, <2>3 DEF IInv, Quiet
<1>2. IInv /\ [Next]_vars => [Stops => ~Audible(amp)]_vars
  BY <1>1
<1> QED BY <1>2, QuietOutside, PTL DEF Spec, SilentBeforeStop

(* No way out is heard as a click or leaves anything behind it.            *)
THEOREM AlwaysEndsQuietly == ASSUME MaxFaults <= 1 PROVE Spec => EndsQuietly
BY AlwaysSilentAfter, AlwaysSilentBeforeStop DEF EndsQuietly

-----------------------------------------------------------------------------
(* The invariant behind TypeOK, PassMeansHeard and GentleAtPeak32.  What   *)
(* is queued and whether it is heard depends on where the program stands:  *)
(*   PlaceInv   the place in the program,                                  *)
(*   StreamInv  the state of the stream there, and room for the next       *)
(*              period once the wait for it is over,                       *)
(*   CodecInv   the output and the D4 stage of the codec there,            *)
(*   LiveInv    while the stream runs behind an amplifier that is on, the  *)
(*              lease outlives the queue: a timeout finds an underrun,     *)
(*   ToneInv    a tone is queued only where the amplifier and the DAC are  *)
(*              on, and has left the queue when its zeros are written,     *)
(*   RefusedInv the three programs whose requests the codec refuses stop   *)
(*              at the first of them.                                      *)
(* In a run without failures and stalls, whose calls are late by 256       *)
(* frames at most, more can be said, and CleanRunPasses follows:           *)
(*   BufferInv  the buffer holds enough to outlast the waits before the    *)
(*              next write, so that it never runs dry,                     *)
(*   LeaseInv   the amplifier is in the state the next call needs, and     *)
(*              the lease outlives all that is queued,                     *)
(*   PassInv    main has been left by the end of the program only.         *)
(* Numbers and Flags, below, are TypeOK in two halves: no leaf needs both. *)

Calls == {"SAFE", "ARM_MUTED", "UNMUTE", "open_PCM", "PREPARE", "DROP"} \cup Requests
Steps == [do : Calls \cup Loops, frames : Nat]
Writes == {"tone", "zeros", "unkept_zeros"}

(* The steps that begin with an unmuted amplifier.                         *)
LiveSteps == {"tone", "zeros", "DROP", "sleep"} \cup Requests

(* The loops that start the stream.                                        *)
Starts(i) == i = 5 \/ (program = "i2s_clock_ab" /\ i = 11)

(* The codec's output and its D4 stage when step i begins.                 *)
OutputAt(i) ==
  CASE program = "dac_mute_ab" -> IF i \in {10, 11} THEN "muted" ELSE "on"
    [] program = "analog_boundary" ->
         IF i <= 8 THEN "on" ELSE IF i <= 10 THEN "muted" ELSE IF i <= 12 THEN "off" ELSE "hiz"
    [] program = "lineout_volume" -> IF i <= 8 THEN "on" ELSE "muted"
    [] program = "lineout_selfcheck" -> IF i \in {10, 11, 15, 16} THEN "muted" ELSE "on"
    [] OTHER -> "on"

VolumeAt(i) ==
  CASE program = "lineout_volume" -> IF i <= 10 THEN 0 ELSE IF i <= 12 THEN 1 ELSE 2
    [] program = "lineout_selfcheck" -> IF i <= 10 THEN 0 ELSE IF i <= 15 THEN 1 ELSE 2
    [] OTHER -> 0

(* Where the program stands.                                               *)
PlaceInv ==
  /\ left \in 0..Now.frames /\ (Now.do \in Loops => left >= 1)
  /\ phase = "main" /\ kept => Now.do \in Loops \ {"unkept_zeros"}
  /\ phase \in {"start", "main"} => result = 1
  /\ phase = "start" => pc = 1 /\ stream = "closed" /\ ~kept /\ ~due

StreamInv ==
  /\ stream # "running" => queue = 0
  /\ phase = "main" =>
       /\ due /\ AtWrite /\ stream = "running" => queue + Chunk <= BUFFER
       /\ pc <= 3 => stream = "closed"
       /\ pc = 4 => stream = "open"
       /\ Now.do = "sleep" \/ (Now.do = "PREPARE" /\ pc # 4) => stream = "stopped"
       /\ Starts(pc) /\ left = Now.frames => stream = "prepared"
       /\ (pc > 4 /\ Now.do \notin {"sleep", "PREPARE"}
            /\ ~(Starts(pc) /\ left = Now.frames)) => stream \in {"running", "xrun"}

CodecInv == phase = "main" /\ pc > 4 => dac = OutputAt(pc) /\ volume = VolumeAt(pc)

LiveInv ==
  phase = "main" /\ Now.do \in LiveSteps /\ stream = "running" /\ program # "i2s_clock_ab" =>
    /\ Audible(amp) /\ lease >= queue + 6592
    /\ kept => lease >= queue + 7616

(* The programs that mute the DAC right behind the tone.                   *)
Exempt == {"analog_boundary", "lineout_volume"}

(* Where frames of a tone may be queued.                                   *)
Voices ==
  \/ voiced = 0
  \/ Now.do = "tone"
  \/ /\ Now.do = "zeros" /\ pc > 1 /\ Script[pc - 1].do = "tone"
     /\ voiced + (Now.frames - left) <= queue

ToneInv ==
  /\ program = "i2s_clock_ab" => voiced = 0
  /\ program \notin Exempt =>
       /\ phase \in {"start", "main"} => ~cut
       /\ phase \notin {"start", "main"} /\ result = 0 => ~cut /\ voiced = 0
       /\ phase = "main" => Voices

RefusedInv == program \in Refused => pc <= 10 /\ result = 1

(* Nothing went wrong so far.                                              *)
Clean == faults = 0 /\ stalls = 0

(* In a loop the buffer fills by half of what is written at least: each    *)
(* period may be late by 256 frames twice.  n frames are written, the      *)
(* buffer takes b.                                                         *)
Filled(q, n, b) == IF n = 0 THEN q >= 1024 ELSE 2 * q >= 1024 + n \/ q >= b - 256

(* What the waits before this write can have taken from the buffer.        *)
Lateness == IF kept THEN IF due THEN 512 ELSE 256 ELSE IF due THEN 256 ELSE 0

(* What the wait for this call can have taken.                             *)
Awaited == IF due THEN Duration + 256 ELSE 0

(* What the buffer must hold when the call begins: in the self-check three *)
(* calls follow each other, and time for all of them was buffered (even    *)
(* though the second one is refused).                                      *)
Reserve ==
  CASE program = "lineout_selfcheck" /\ Now.do = "DAC_MUTE" -> 15616
    [] program = "lineout_selfcheck" /\ Now.do \in {"MINUS14DB", "MINUS28DB"} -> 13824
    [] program = "lineout_selfcheck" /\ Now.do = "DAC_UNMUTE" -> 12800
    [] OTHER -> 3328

Ample ==
  IF Now.do \in Writes
  THEN \/ Filled(queue + Lateness, Now.frames - left, BUFFER)
       \/ due /\ AtWrite /\ queue >= BUFFER - Chunk - 256
  ELSE queue + Awaited >= Reserve

BufferInv ==
  phase = "main" /\ Clean /\ pc # Len(Script) =>
    stream # "xrun" /\ (stream = "running" => Ample)

(* The steps between ARM_MUTED and the effect of UNMUTE.                   *)
Armed == Now.do \in {"open_PCM", "unkept_zeros", "UNMUTE"} \/ pc = 4

(* The lease while the stream plays, where it must outlive the queue, and  *)
(* while it does not.                                                      *)
Playing == IF Armed THEN 20000 + left ELSE IF kept THEN 7616 ELSE 6592

Pausing ==
  CASE pc = 3 -> 144000
    [] pc = 4 -> 143744
    [] pc = 5 -> 139904
    [] pc > 5 /\ kept -> 24000
    [] pc > 5 /\ ~kept /\ Now.do = "PREPARE" -> 18944
    [] pc > 5 /\ ~kept /\ Now.do = "zeros" -> 15104
    [] OTHER -> 6592

Lit == IF Armed THEN amp.enabled /\ ~amp.unmuted ELSE Audible(amp)

Covered ==
  IF stream = "running" THEN lease >= queue + Playing ELSE lease + Awaited >= Pausing

LeaseInv ==
  phase = "main" /\ Clean /\ Now.do \notin {"SAFE", "ARM_MUTED"} => Lit /\ Covered

PassInv ==
  phase \in {"safe", "drop", "close_PCM", "close_gate"} /\ Clean /\ program \notin Refused
    => result = 0

-----------------------------------------------------------------------------
(* The programs, step by step: what follows what.                          *)

(* The loops of zeros and of sleeping.                                     *)
Preroll == Unkept(8)
MutedWindow == Unkept(94)
Gap == Zeros(144)
Pause == Sleeps(20)
Postroll == Zeros(POSTROLL)

(* The step b behind step i, which is a.                                   *)
Succ(i, a, b) ==
  /\ Starts(i + 1) <=> a.do = "PREPARE"
  /\ a.do = "SAFE" => i = 1 /\ b = Call("ARM_MUTED")
  /\ a.do = "ARM_MUTED" => \/ i = 2 /\ b = Call("open_PCM")
                           \/ program = "mute_ab" /\ i = 9 /\ b = MutedWindow
  /\ a.do = "open_PCM" => i = 3 /\ b = Call("PREPARE")
  /\ a.do = "PREPARE" => \/ i = 4 /\ b = Preroll
                         \/ program = "i2s_clock_ab" /\ i = 10 /\ b = Window
  /\ a.do = "unkept_zeros" => /\ b = Call("UNMUTE")
                              /\ \/ i = 5 /\ a = Preroll
                                 \/ program = "mute_ab" /\ i = 10 /\ a = MutedWindow
  /\ a.do = "UNMUTE" => \/ i = 6 /\ program # "i2s_clock_ab" /\ b = Tone
                        \/ i = 6 /\ program = "i2s_clock_ab" /\ b = Window
                        \/ program = "mute_ab" /\ i = 11 /\ b = Window
  /\ a.do = "tone" =>
       /\ i >= 7 /\ program # "i2s_clock_ab" /\ a = Tone /\ OutputAt(i) = "on"
       /\ \/ b = Window
          \/ b = Gap /\ program = "channel"
          \/ b = Postroll /\ program # "lineout_selfcheck"
          \/ b = Call("DAC_MUTE") /\ program \in Exempt
  /\ a.do = "zeros" =>
       /\ i >= 7
       /\ \/ a = Postroll /\ b = Call("SAFE") /\ i + 1 = Len(Script)
          \/ /\ a = Window \/ (a = Gap /\ program = "channel")
             /\ \/ b = Tone \/ b = Postroll
                \/ b = Call("DROP") /\ i = 7 /\ program = "i2s_clock_ab"
                \/ b = Call("ARM_MUTED") /\ i = 8 /\ program = "mute_ab"
                \/ b = Call("DAC_MUTE")
                \/ b.do \in Requests /\ b.frames = 0 /\ program # "lineout_selfcheck"
  /\ a.do = "DROP" => program = "i2s_clock_ab" /\ i = 8 /\ b = Pause
  /\ a.do = "sleep" =>
       program = "i2s_clock_ab" /\ i = 9 /\ a = Pause /\ b = Call("PREPARE")
  /\ a.do \in Requests =>
       /\ i >= 8 /\ program # "i2s_clock_ab"
       /\ \/ b = Window /\ program # "lineout_selfcheck"
          \/ /\ program = "lineout_selfcheck"
             /\ \/ a.do = "DAC_MUTE" /\ b \in {Call("MINUS14DB"), Call("MINUS28DB")}
                \/ a.do \in {"MINUS14DB", "MINUS28DB"} /\ b = Call("DAC_UNMUTE")
                \/ a.do = "DAC_UNMUTE" /\ b = Tone

(* What step i makes of the codec.                                         *)
Codec(i, c) ==
  LET o == OutputAt(i)  p == OutputAt(i + 1)  v == VolumeAt(i)  w == VolumeAt(i + 1)
  IN /\ c \notin Requests => p = o /\ w = v
     /\ c = "DAC_MUTE" => o = "on" /\ p = "muted" /\ w = v
     /\ c = "DAC_UNMUTE" => o = "muted" /\ p = "on" /\ w = v
     /\ c = "DAC_ANALOG_OFF" => o = "muted" /\ v = 0 /\ p = "off" /\ w = v
     /\ c = "LINEOUT_HIZ" => o = "off" /\ v = 0 /\ p = "hiz" /\ w = v
     /\ c = "MINUS14DB" => o = "muted" /\ v = 0 /\ p = o /\ w = 1
     /\ c = "MINUS28DB" => o = "muted" /\ v = 1 /\ p = o /\ w = 2
     /\ c \in Requests \ {"DAC_MUTE", "DAC_UNMUTE"} => program \in Refused

LEMMA CallTyped == ASSUME NEW c \in Calls PROVE Call(c) \in Steps
BY DEF Call, Steps

LEMMA LoopTyped ==
  /\ Tone \in Steps /\ Tone.do = "tone" /\ Tone.frames = TONE_FRAMES
  /\ Window \in Steps /\ Window.do = "zeros" /\ Window.frames = 96256
  /\ Postroll \in Steps /\ Postroll.do = "zeros" /\ Postroll.frames = 4096
  /\ Gap \in Steps /\ Gap.do = "zeros" /\ Gap.frames = 147456
  /\ Preroll \in Steps /\ Preroll.do = "unkept_zeros" /\ Preroll.frames = 8192
  /\ MutedWindow \in Steps /\ MutedWindow.do = "unkept_zeros" /\ MutedWindow.frames = 96256
  /\ Pause \in Steps /\ Pause.do = "sleep" /\ Pause.frames = 96000
  /\ TONE_FRAMES \in Nat /\ TONE_FRAMES >= 36000
  /\ program = "lineout_selfcheck" => TONE_FRAMES = 48000
<1>1. TONE_FRAMES \in Nat /\ TONE_FRAMES >= 36000
  BY DEF TONE_FRAMES
<1>2. program = "lineout_selfcheck" => TONE_FRAMES = 48000
  BY DEF TONE_FRAMES
<1>3. Tone \in Steps /\ Tone.do = "tone" /\ Tone.frames = TONE_FRAMES
  BY <1>1 DEF Tone, Steps, Loops
<1>4. Postroll \in Steps /\ Postroll.do = "zeros" /\ Postroll.frames = 4096
  BY DEF Postroll, POSTROLL, Gap, Zeros, Steps, Loops, PERIOD
<1>5. Gap \in Steps /\ Gap.do = "zeros" /\ Gap.frames = 147456
  BY DEF Postroll, POSTROLL, Gap, Zeros, Steps, Loops, PERIOD
<1>6. Preroll \in Steps /\ Preroll.do = "unkept_zeros" /\ Preroll.frames = 8192
  BY DEF Preroll, MutedWindow, Unkept, Steps, Loops, PERIOD
<1>7. MutedWindow \in Steps /\ MutedWindow.do = "unkept_zeros" /\ MutedWindow.frames = 96256
  BY DEF Preroll, MutedWindow, Unkept, Steps, Loops, PERIOD
<1>8. Pause \in Steps /\ Pause.do = "sleep" /\ Pause.frames = 96000
  BY DEF Pause, Sleeps, Steps, Loops, PERIOD
<1>9. Window \in Steps /\ Window.do = "zeros" /\ Window.frames = 96256
  BY DEF Window, Zeros, Steps, Loops, PERIOD
<1> QED BY <1>1, <1>2, <1>3, <1>4, <1>5, <1>6, <1>7, <1>8, <1>9

LEMMA CallIs == ASSUME NEW c \in Calls PROVE Call(c).do = c /\ Call(c).frames = 0
BY DEF Call

LEMMA StageIs ==
  ASSUME NEW c \in Calls
  PROVE  /\ Stage(c) \in Seq(Steps) /\ Len(Stage(c)) = 5
         /\ Stage(c)[1] = Call("DAC_MUTE") /\ Stage(c)[2] = Call(c)
         /\ Stage(c)[3] = Call("DAC_UNMUTE") /\ Stage(c)[4] = Tone /\ Stage(c)[5] = Window
<1>1. Call("DAC_MUTE") \in Steps /\ Call(c) \in Steps /\ Call("DAC_UNMUTE") \in Steps
  BY CallTyped DEF Calls, Requests
<1>2. Tone \in Steps /\ Window \in Steps
  BY LoopTyped
<1> QED BY <1>1, <1>2 DEF Stage

LEMMA Joined ==
  ASSUME NEW s \in Seq(Steps), NEW t \in Seq(Steps)
  PROVE  /\ s \o t \in Seq(Steps)
         /\ Len(s) \in Nat /\ Len(t) \in Nat /\ Len(s \o t) = Len(s) + Len(t)
         /\ \A i \in 1..Len(s) : (s \o t)[i] = s[i]
         /\ \A i \in 1..Len(t) : (s \o t)[Len(s) + i] = t[i]
<1>1. s \o t \in Seq(Steps) /\ Len(s \o t) = Len(s) + Len(t)
  BY ConcatProperties
<1>2. Len(s) \in Nat /\ Len(t) \in Nat
  OBVIOUS
<1>3. \A i \in 1..Len(s) + Len(t) : (s \o t)[i] = IF i <= Len(s) THEN s[i] ELSE t[i - Len(s)]
  BY ConcatProperties
<1>4. \A i \in 1..Len(s) : (s \o t)[i] = s[i]
  BY <1>2, <1>3
<1>5. ASSUME NEW i \in 1..Len(t) PROVE (s \o t)[Len(s) + i] = t[i]
  <2>1. Len(s) + i \in 1..Len(s) + Len(t) /\ ~(Len(s) + i <= Len(s)) /\ (Len(s) + i) - Len(s) = i
    BY <1>2
  <2> QED BY <1>3, <2>1
<1> QED BY <1>1, <1>2, <1>4, <1>5

(* The bodies, step by step.                                               *)
LEMMA Bodies ==
  ASSUME program \in AllPrograms
  PROVE  /\ Body \in Seq(Steps)
         /\ program = "i2s_clock_ab" =>
              /\ Len(Body) = 5 /\ Body[1] = Window /\ Body[2] = Call("DROP")
              /\ Body[3] = Pause /\ Body[4] = Call("PREPARE") /\ Body[5] = Window
         /\ program = "mute_ab" =>
              /\ Len(Body) = 6 /\ Body[1] = Tone /\ Body[2] = Window
              /\ Body[3] = Call("ARM_MUTED") /\ Body[4] = MutedWindow
              /\ Body[5] = Call("UNMUTE") /\ Body[6] = Window
         /\ program = "dac_mute_ab" =>
              /\ Len(Body) = 6 /\ Body[1] = Tone /\ Body[2] = Window
              /\ Body[3] = Call("DAC_MUTE") /\ Body[4] = Window
              /\ Body[5] = Call("DAC_UNMUTE") /\ Body[6] = Window
         /\ program = "analog_boundary" =>
              /\ Len(Body) = 7 /\ Body[1] = Tone /\ Body[2] = Call("DAC_MUTE")
              /\ Body[3] = Window /\ Body[4] = Call("DAC_ANALOG_OFF") /\ Body[5] = Window
              /\ Body[6] = Call("LINEOUT_HIZ") /\ Body[7] = Window
         /\ program = "lineout_volume" =>
              /\ Len(Body) = 7 /\ Body[1] = Tone /\ Body[2] = Call("DAC_MUTE")
              /\ Body[3] = Window /\ Body[4] = Call("MINUS14DB") /\ Body[5] = Window
              /\ Body[6] = Call("MINUS28DB") /\ Body[7] = Window
         /\ program = "lineout_selfcheck" =>
              /\ Len(Body) = 12 /\ Body[1] = Tone /\ Body[2] = Window
              /\ Body[3] = Call("DAC_MUTE") /\ Body[4] = Call("MINUS14DB")
              /\ Body[5] = Call("DAC_UNMUTE") /\ Body[6] = Tone /\ Body[7] = Window
              /\ Body[8] = Call("DAC_MUTE") /\ Body[9] = Call("MINUS28DB")
              /\ Body[10] = Call("DAC_UNMUTE") /\ Body[11] = Tone /\ Body[12] = Window
         /\ program = "channel" =>
              Len(Body) = 3 /\ Body[1] = Tone /\ Body[2] = Gap /\ Body[3] = Tone
         /\ program \in {"audible_test", "melody", "music", "sweep", "sweep_high"} =>
              Len(Body) = 1 /\ Body[1] = Tone
<1>1. /\ Call("DROP") \in Steps /\ Call("PREPARE") \in Steps /\ Call("ARM_MUTED") \in Steps
      /\ Call("UNMUTE") \in Steps /\ Call("DAC_MUTE") \in Steps /\ Call("DAC_UNMUTE") \in Steps
      /\ Call("DAC_ANALOG_OFF") \in Steps /\ Call("LINEOUT_HIZ") \in Steps
      /\ Call("MINUS14DB") \in Steps /\ Call("MINUS28DB") \in Steps
  BY CallTyped DEF Calls, Requests
<1>2. /\ Tone \in Steps /\ Window \in Steps /\ Pause \in Steps /\ MutedWindow \in Steps
      /\ Gap \in Steps
  BY LoopTyped
<1>3. CASE program = "i2s_clock_ab"
  <2>1. Body = <<Window, Call("DROP"), Pause, Call("PREPARE"), Window>>
    BY <1>3 DEF Body, ClockAb, Pause
  <2> QED BY <1>1, <1>2, <1>3, <2>1
<1>4. CASE program = "mute_ab"
  <2>1. Body = <<Tone, Window, Call("ARM_MUTED"), MutedWindow, Call("UNMUTE"), Window>>
    BY <1>4 DEF Body, MuteAb, MutedWindow
  <2> QED BY <1>1, <1>2, <1>4, <2>1
<1>5. CASE program = "dac_mute_ab"
  <2>1. Body = <<Tone, Window, Call("DAC_MUTE"), Window, Call("DAC_UNMUTE"), Window>>
    BY <1>5 DEF Body, DacMuteAb
  <2> QED BY <1>1, <1>2, <1>5, <2>1
<1>6. CASE program = "analog_boundary"
  <2>1. Body = <<Tone, Call("DAC_MUTE"), Window, Call("DAC_ANALOG_OFF"), Window,
                 Call("LINEOUT_HIZ"), Window>>
    BY <1>6 DEF Body, AnalogBoundary
  <2> QED BY <1>1, <1>2, <1>6, <2>1
<1>7. CASE program = "lineout_volume"
  <2>1. Body = <<Tone, Call("DAC_MUTE"), Window, Call("MINUS14DB"), Window,
                 Call("MINUS28DB"), Window>>
    BY <1>7 DEF Body, LineoutVolume
  <2> QED BY <1>1, <1>2, <1>7, <2>1
<1>8. CASE program = "lineout_selfcheck"
  <2>1. Body = (<<Tone, Window>> \o Stage("MINUS14DB")) \o Stage("MINUS28DB")
    BY <1>8 DEF Body, Selfcheck
  <2> DEFINE s == Stage("MINUS14DB")
             t == Stage("MINUS28DB")
             r == <<Tone, Window>>
             u == r \o s
  <2>2. "MINUS14DB" \in Calls /\ "MINUS28DB" \in Calls
    BY DEF Calls, Requests
  <2>3. /\ s \in Seq(Steps) /\ Len(s) = 5 /\ s[1] = Call("DAC_MUTE") /\ s[2] = Call("MINUS14DB")
        /\ s[3] = Call("DAC_UNMUTE") /\ s[4] = Tone /\ s[5] = Window
    BY <2>2, StageIs
  <2>4. /\ t \in Seq(Steps) /\ Len(t) = 5 /\ t[1] = Call("DAC_MUTE") /\ t[2] = Call("MINUS28DB")
        /\ t[3] = Call("DAC_UNMUTE") /\ t[4] = Tone /\ t[5] = Window
    BY <2>2, StageIs
  <2>5. r \in Seq(Steps) /\ Len(r) = 2 /\ r[1] = Tone /\ r[2] = Window
    BY <1>2
  <2>6. Body = u \o t
    BY <2>1
  <2> HIDE DEF s, t, r, u
  <2>7. /\ u \in Seq(Steps) /\ Len(u) = Len(r) + Len(s)
        /\ \A i \in 1..Len(r) : u[i] = r[i]
        /\ \A i \in 1..Len(s) : u[Len(r) + i] = s[i]
    BY <2>3, <2>5, Joined, Zenon DEF u
  <2>8. Len(u) = 7
    BY <2>3, <2>5, <2>7
  <2>9. /\ u[1] = Tone /\ u[2] = Window /\ u[3] = Call("DAC_MUTE") /\ u[4] = Call("MINUS14DB")
        /\ u[5] = Call("DAC_UNMUTE") /\ u[6] = Tone /\ u[7] = Window
    BY <2>3, <2>5, <2>7
  <2>10. /\ Body \in Seq(Steps) /\ Len(Body) = Len(u) + Len(t)
         /\ \A i \in 1..Len(u) : Body[i] = u[i]
         /\ \A i \in 1..Len(t) : Body[Len(u) + i] = t[i]
    BY <2>4, <2>6, <2>7, Joined, Zenon
  <2>11. Len(Body) = 12
    BY <2>4, <2>8, <2>10
  <2>12. /\ \A i \in 1..7 : Body[i] = u[i]
         /\ \A i \in 1..5 : Body[7 + i] = t[i]
    BY <2>4, <2>8, <2>10
  <2>13. /\ Body[1] = Tone /\ Body[2] = Window
         /\ Body[3] = Call("DAC_MUTE") /\ Body[4] = Call("MINUS14DB")
         /\ Body[5] = Call("DAC_UNMUTE") /\ Body[6] = Tone /\ Body[7] = Window
    BY <2>9, <2>12
  <2>14. /\ Body[8] = Call("DAC_MUTE") /\ Body[9] = Call("MINUS28DB")
         /\ Body[10] = Call("DAC_UNMUTE") /\ Body[11] = Tone /\ Body[12] = Window
    BY <2>4, <2>12
  <2> QED BY <1>8, <2>10, <2>11, <2>13, <2>14
<1>9. CASE program = "channel"
  <2>1. Body = <<Tone, Gap, Tone>>
    BY <1>9 DEF Body, ChannelTest, Gap
  <2> QED BY <1>1, <1>2, <1>9, <2>1
<1>10. CASE program \in {"audible_test", "melody", "music", "sweep", "sweep_high"}
  <2>1. Body = <<Tone>>
    BY <1>10 DEF Body
  <2> QED BY <1>1, <1>2, <1>10, <2>1
<1> QED BY <1>3, <1>4, <1>5, <1>6, <1>7, <1>8, <1>9, <1>10 DEF AllPrograms
LEMMA BodyLength == ASSUME program \in AllPrograms PROVE Len(Body) \in 1..12
BY Bodies DEF AllPrograms

LEMMA Scripts ==
  ASSUME program \in AllPrograms
  PROVE  /\ Script \in Seq(Steps) /\ Len(Script) = Len(Body) + 8
         /\ Script[1] = Call("SAFE") /\ Script[2] = Call("ARM_MUTED")
         /\ Script[3] = Call("open_PCM") /\ Script[4] = Call("PREPARE")
         /\ Script[5] = Preroll /\ Script[6] = Call("UNMUTE")
         /\ \A i \in 1..Len(Body) : Script[6 + i] = Body[i]
         /\ Script[Len(Body) + 7] = Postroll /\ Script[Len(Body) + 8] = Call("SAFE")
<1> DEFINE p == <<Call("SAFE"), Call("ARM_MUTED"), Call("open_PCM"), Call("PREPARE"),
                  Unkept(8), Call("UNMUTE")>>
           q == <<Zeros(POSTROLL), Call("SAFE")>>
           u == p \o Body
<1>1. Script = u \o q
  BY DEF Script
<1>2. /\ p \in Seq(Steps) /\ Len(p) = 6
      /\ p[1] = Call("SAFE") /\ p[2] = Call("ARM_MUTED")
      /\ p[3] = Call("open_PCM") /\ p[4] = Call("PREPARE")
      /\ p[5] = Preroll /\ p[6] = Call("UNMUTE")
  <2>1. /\ Call("SAFE") \in Steps /\ Call("ARM_MUTED") \in Steps /\ Call("open_PCM") \in Steps
        /\ Call("PREPARE") \in Steps /\ Call("UNMUTE") \in Steps
    BY CallTyped DEF Calls
  <2>2. Preroll \in Steps /\ Unkept(8) = Preroll
    BY LoopTyped DEF Preroll
  <2> QED BY <2>1, <2>2
<1>3. q \in Seq(Steps) /\ Len(q) = 2 /\ q[1] = Postroll /\ q[2] = Call("SAFE")
  <2>1. Call("SAFE") \in Steps
    BY CallTyped DEF Calls
  <2>2. Postroll \in Steps /\ Zeros(POSTROLL) = Postroll
    BY LoopTyped DEF Postroll
  <2> QED BY <2>1, <2>2
<1>4. Body \in Seq(Steps) /\ Len(Body) \in 1..12
  BY Bodies, BodyLength
<1> HIDE DEF p, q, u
<1>5. /\ u \in Seq(Steps) /\ Len(u) = Len(p) + Len(Body)
      /\ \A i \in 1..Len(p) : u[i] = p[i]
      /\ \A i \in 1..Len(Body) : u[Len(p) + i] = Body[i]
  BY <1>2, <1>4, Joined, Zenon DEF u
<1>6. Len(u) = Len(Body) + 6
  BY <1>2, <1>4, <1>5
<1>7. /\ Script \in Seq(Steps) /\ Len(Script) = Len(u) + Len(q)
      /\ \A i \in 1..Len(u) : Script[i] = u[i]
      /\ \A i \in 1..Len(q) : Script[Len(u) + i] = q[i]
  BY <1>1, <1>3, <1>5, Joined, Zenon
<1>8. Len(Script) = Len(Body) + 8
  BY <1>3, <1>4, <1>6, <1>7
<1>9. \A i \in 1..6 : Script[i] = p[i]
  BY <1>2, <1>4, <1>5, <1>6, <1>7
<1>10. \A i \in 1..Len(Body) : Script[6 + i] = Body[i]
  <2>1. SUFFICES ASSUME NEW i \in 1..Len(Body) PROVE Script[6 + i] = Body[i]
    OBVIOUS
  <2>2. 6 + i \in 1..Len(u)
    BY <1>4, <1>6
  <2> QED BY <1>2, <1>4, <1>5, <1>7, <2>2
<1>11. Script[Len(Body) + 7] = Postroll
  <2>1. Script[Len(u) + 1] = q[1] /\ Len(u) + 1 = Len(Body) + 7
    BY <1>3, <1>4, <1>6, <1>7
  <2> QED BY <1>3, <2>1
<1>12. Script[Len(Body) + 8] = Call("SAFE")
  <2>1. Script[Len(u) + 2] = q[2] /\ Len(u) + 2 = Len(Body) + 8
    BY <1>3, <1>4, <1>6, <1>7
  <2> QED BY <1>3, <2>1
<1>13. /\ Script[1] = Call("SAFE") /\ Script[2] = Call("ARM_MUTED")
       /\ Script[3] = Call("open_PCM") /\ Script[4] = Call("PREPARE")
       /\ Script[5] = Preroll /\ Script[6] = Call("UNMUTE")
  BY <1>2, <1>9
<1> QED BY <1>7, <1>8, <1>10, <1>11, <1>12, <1>13

LEMMA CallsAre ==
  /\ Call("SAFE").do = "SAFE" /\ Call("ARM_MUTED").do = "ARM_MUTED"
  /\ Call("open_PCM").do = "open_PCM" /\ Call("PREPARE").do = "PREPARE"
  /\ Call("UNMUTE").do = "UNMUTE" /\ Call("DROP").do = "DROP"
  /\ Call("DAC_MUTE").do = "DAC_MUTE" /\ Call("DAC_UNMUTE").do = "DAC_UNMUTE"
  /\ Call("DAC_ANALOG_OFF").do = "DAC_ANALOG_OFF" /\ Call("LINEOUT_HIZ").do = "LINEOUT_HIZ"
  /\ Call("MINUS14DB").do = "MINUS14DB" /\ Call("MINUS28DB").do = "MINUS28DB"
BY DEF Call

LEMMA CallsTakeNoFrames ==
  /\ Call("SAFE").frames = 0 /\ Call("ARM_MUTED").frames = 0
  /\ Call("open_PCM").frames = 0 /\ Call("PREPARE").frames = 0
  /\ Call("UNMUTE").frames = 0 /\ Call("DROP").frames = 0
  /\ Call("DAC_MUTE").frames = 0 /\ Call("DAC_UNMUTE").frames = 0
  /\ Call("DAC_ANALOG_OFF").frames = 0 /\ Call("LINEOUT_HIZ").frames = 0
  /\ Call("MINUS14DB").frames = 0 /\ Call("MINUS28DB").frames = 0
BY DEF Call

(* The programs row by row.                                                *)
Row(i) == Succ(i, Script[i], Script[i + 1]) /\ Codec(i, Script[i].do)

LEMMA ClockAbSteps ==
  ASSUME program = "i2s_clock_ab"
  PROVE  \A i \in 7..Len(Script) - 1 : Row(i)
<1>1. program \in AllPrograms
  BY DEF AllPrograms
<1>2. /\ Len(Body) = 5 /\ Body[1] = Window /\ Body[2] = Call("DROP")
      /\ Body[3] = Pause /\ Body[4] = Call("PREPARE") /\ Body[5] = Window
  BY <1>1, Bodies
<1>3. /\ Len(Script) = Len(Body) + 8
      /\ \A i \in 1..Len(Body) : Script[6 + i] = Body[i]
      /\ Script[Len(Body) + 7] = Postroll /\ Script[Len(Body) + 8] = Call("SAFE")
  BY <1>1, Scripts
<1>4. /\ Len(Script) = 13 /\ Script[7] = Window /\ Script[8] = Call("DROP")
      /\ Script[9] = Pause /\ Script[10] = Call("PREPARE") /\ Script[11] = Window
      /\ Script[12] = Postroll /\ Script[13] = Call("SAFE")
  BY <1>2, <1>3
<1>5. ASSUME NEW i \in 7..12 PROVE Succ(i, Script[i], Script[i + 1])
  BY <1>4, CallsAre, CallsTakeNoFrames, LoopTyped DEF Succ, Starts, OutputAt, Exempt, Requests
<1>6. ASSUME NEW i \in 7..12 PROVE Codec(i, Script[i].do)
  BY <1>4, CallsAre, LoopTyped DEF Codec, OutputAt, VolumeAt, Requests, Refused
<1> QED BY <1>4, <1>5, <1>6 DEF Row

LEMMA MuteAbSteps ==
  ASSUME program = "mute_ab"
  PROVE  \A i \in 7..Len(Script) - 1 : Row(i)
<1>1. program \in AllPrograms
  BY DEF AllPrograms
<1>2. /\ Len(Body) = 6 /\ Body[1] = Tone /\ Body[2] = Window
      /\ Body[3] = Call("ARM_MUTED") /\ Body[4] = MutedWindow
      /\ Body[5] = Call("UNMUTE") /\ Body[6] = Window
  BY <1>1, Bodies
<1>3. /\ Len(Script) = Len(Body) + 8
      /\ \A i \in 1..Len(Body) : Script[6 + i] = Body[i]
      /\ Script[Len(Body) + 7] = Postroll /\ Script[Len(Body) + 8] = Call("SAFE")
  BY <1>1, Scripts
<1>4. /\ Len(Script) = 14 /\ Script[7] = Tone /\ Script[8] = Window
      /\ Script[9] = Call("ARM_MUTED") /\ Script[10] = MutedWindow
      /\ Script[11] = Call("UNMUTE") /\ Script[12] = Window /\ Script[13] = Postroll
      /\ Script[14] = Call("SAFE")
  BY <1>2, <1>3
<1>5. ASSUME NEW i \in 7..13 PROVE Succ(i, Script[i], Script[i + 1])
  BY <1>4, CallsAre, CallsTakeNoFrames, LoopTyped DEF Succ, Starts, OutputAt, Exempt, Requests
<1>6. ASSUME NEW i \in 7..13 PROVE Codec(i, Script[i].do)
  BY <1>4, CallsAre, LoopTyped DEF Codec, OutputAt, VolumeAt, Requests, Refused
<1> QED BY <1>4, <1>5, <1>6 DEF Row

LEMMA DacMuteAbSteps ==
  ASSUME program = "dac_mute_ab"
  PROVE  \A i \in 7..Len(Script) - 1 : Row(i)
<1>1. program \in AllPrograms
  BY DEF AllPrograms
<1>2. /\ Len(Body) = 6 /\ Body[1] = Tone /\ Body[2] = Window
      /\ Body[3] = Call("DAC_MUTE") /\ Body[4] = Window
      /\ Body[5] = Call("DAC_UNMUTE") /\ Body[6] = Window
  BY <1>1, Bodies
<1>3. /\ Len(Script) = Len(Body) + 8
      /\ \A i \in 1..Len(Body) : Script[6 + i] = Body[i]
      /\ Script[Len(Body) + 7] = Postroll /\ Script[Len(Body) + 8] = Call("SAFE")
  BY <1>1, Scripts
<1>4. /\ Len(Script) = 14 /\ Script[7] = Tone /\ Script[8] = Window
      /\ Script[9] = Call("DAC_MUTE") /\ Script[10] = Window
      /\ Script[11] = Call("DAC_UNMUTE") /\ Script[12] = Window
      /\ Script[13] = Postroll /\ Script[14] = Call("SAFE")
  BY <1>2, <1>3
<1>5. ASSUME NEW i \in 7..13 PROVE Succ(i, Script[i], Script[i + 1])
  BY <1>4, CallsAre, CallsTakeNoFrames, LoopTyped DEF Succ, Starts, OutputAt, Exempt, Requests
<1>6. ASSUME NEW i \in 7..13 PROVE Codec(i, Script[i].do)
  BY <1>4, CallsAre, LoopTyped DEF Codec, OutputAt, VolumeAt, Requests, Refused
<1> QED BY <1>4, <1>5, <1>6 DEF Row

LEMMA AnalogBoundarySteps ==
  ASSUME program = "analog_boundary"
  PROVE  \A i \in 7..Len(Script) - 1 : Row(i)
<1>1. program \in AllPrograms
  BY DEF AllPrograms
<1>2. /\ Len(Body) = 7 /\ Body[1] = Tone /\ Body[2] = Call("DAC_MUTE")
      /\ Body[3] = Window /\ Body[4] = Call("DAC_ANALOG_OFF") /\ Body[5] = Window
      /\ Body[6] = Call("LINEOUT_HIZ") /\ Body[7] = Window
  BY <1>1, Bodies
<1>3. /\ Len(Script) = Len(Body) + 8
      /\ \A i \in 1..Len(Body) : Script[6 + i] = Body[i]
      /\ Script[Len(Body) + 7] = Postroll /\ Script[Len(Body) + 8] = Call("SAFE")
  BY <1>1, Scripts
<1>4. /\ Len(Script) = 15 /\ Script[7] = Tone /\ Script[8] = Call("DAC_MUTE")
      /\ Script[9] = Window /\ Script[10] = Call("DAC_ANALOG_OFF")
      /\ Script[11] = Window /\ Script[12] = Call("LINEOUT_HIZ")
      /\ Script[13] = Window /\ Script[14] = Postroll /\ Script[15] = Call("SAFE")
  BY <1>2, <1>3
<1>5. ASSUME NEW i \in 7..14 PROVE Succ(i, Script[i], Script[i + 1])
  BY <1>4, CallsAre, CallsTakeNoFrames, LoopTyped DEF Succ, Starts, OutputAt, Exempt, Requests
<1>6. ASSUME NEW i \in 7..14 PROVE Codec(i, Script[i].do)
  BY <1>4, CallsAre, LoopTyped DEF Codec, OutputAt, VolumeAt, Requests, Refused
<1> QED BY <1>4, <1>5, <1>6 DEF Row

LEMMA LineoutVolumeSteps ==
  ASSUME program = "lineout_volume"
  PROVE  \A i \in 7..Len(Script) - 1 : Row(i)
<1>1. program \in AllPrograms
  BY DEF AllPrograms
<1>2. /\ Len(Body) = 7 /\ Body[1] = Tone /\ Body[2] = Call("DAC_MUTE")
      /\ Body[3] = Window /\ Body[4] = Call("MINUS14DB") /\ Body[5] = Window
      /\ Body[6] = Call("MINUS28DB") /\ Body[7] = Window
  BY <1>1, Bodies
<1>3. /\ Len(Script) = Len(Body) + 8
      /\ \A i \in 1..Len(Body) : Script[6 + i] = Body[i]
      /\ Script[Len(Body) + 7] = Postroll /\ Script[Len(Body) + 8] = Call("SAFE")
  BY <1>1, Scripts
<1>4. /\ Len(Script) = 15 /\ Script[7] = Tone /\ Script[8] = Call("DAC_MUTE")
      /\ Script[9] = Window /\ Script[10] = Call("MINUS14DB") /\ Script[11] = Window
      /\ Script[12] = Call("MINUS28DB") /\ Script[13] = Window
      /\ Script[14] = Postroll /\ Script[15] = Call("SAFE")
  BY <1>2, <1>3
<1>5. ASSUME NEW i \in 7..14 PROVE Succ(i, Script[i], Script[i + 1])
  BY <1>4, CallsAre, CallsTakeNoFrames, LoopTyped DEF Succ, Starts, OutputAt, Exempt, Requests
<1>6. ASSUME NEW i \in 7..14 PROVE Codec(i, Script[i].do)
  BY <1>4, CallsAre, LoopTyped DEF Codec, OutputAt, VolumeAt, Requests, Refused
<1> QED BY <1>4, <1>5, <1>6 DEF Row

LEMMA SelfcheckSteps ==
  ASSUME program = "lineout_selfcheck"
  PROVE  \A i \in 7..Len(Script) - 1 : Row(i)
<1>1. program \in AllPrograms
  BY DEF AllPrograms
<1>2. /\ Len(Body) = 12 /\ Body[1] = Tone /\ Body[2] = Window
      /\ Body[3] = Call("DAC_MUTE") /\ Body[4] = Call("MINUS14DB")
      /\ Body[5] = Call("DAC_UNMUTE") /\ Body[6] = Tone /\ Body[7] = Window
      /\ Body[8] = Call("DAC_MUTE") /\ Body[9] = Call("MINUS28DB")
      /\ Body[10] = Call("DAC_UNMUTE") /\ Body[11] = Tone /\ Body[12] = Window
  BY <1>1, Bodies
<1>3. /\ Len(Script) = Len(Body) + 8
      /\ \A i \in 1..Len(Body) : Script[6 + i] = Body[i]
      /\ Script[Len(Body) + 7] = Postroll /\ Script[Len(Body) + 8] = Call("SAFE")
  BY <1>1, Scripts
<1>4. /\ Len(Script) = 20 /\ Script[7] = Tone /\ Script[8] = Window
      /\ Script[9] = Call("DAC_MUTE") /\ Script[10] = Call("MINUS14DB")
      /\ Script[11] = Call("DAC_UNMUTE") /\ Script[12] = Tone /\ Script[13] = Window
      /\ Script[14] = Call("DAC_MUTE") /\ Script[15] = Call("MINUS28DB")
      /\ Script[16] = Call("DAC_UNMUTE") /\ Script[17] = Tone /\ Script[18] = Window
      /\ Script[19] = Postroll /\ Script[20] = Call("SAFE")
  BY <1>2, <1>3
<1>5. ASSUME NEW i \in 7..19 PROVE Succ(i, Script[i], Script[i + 1])
  BY <1>4, CallsAre, CallsTakeNoFrames, LoopTyped DEF Succ, Starts, OutputAt, Exempt, Requests
<1>6. ASSUME NEW i \in 7..19 PROVE Codec(i, Script[i].do)
  BY <1>4, CallsAre, LoopTyped DEF Codec, OutputAt, VolumeAt, Requests, Refused
<1> QED BY <1>4, <1>5, <1>6 DEF Row

LEMMA ChannelSteps ==
  ASSUME program = "channel"
  PROVE  \A i \in 7..Len(Script) - 1 : Row(i)
<1>1. program \in AllPrograms
  BY DEF AllPrograms
<1>2. /\ Len(Body) = 3 /\ Body[1] = Tone /\ Body[2] = Gap /\ Body[3] = Tone
  BY <1>1, Bodies
<1>3. /\ Len(Script) = Len(Body) + 8
      /\ \A i \in 1..Len(Body) : Script[6 + i] = Body[i]
      /\ Script[Len(Body) + 7] = Postroll /\ Script[Len(Body) + 8] = Call("SAFE")
  BY <1>1, Scripts
<1>4. /\ Len(Script) = 11 /\ Script[7] = Tone /\ Script[8] = Gap /\ Script[9] = Tone
      /\ Script[10] = Postroll /\ Script[11] = Call("SAFE")
  BY <1>2, <1>3
<1>5. ASSUME NEW i \in 7..10 PROVE Succ(i, Script[i], Script[i + 1])
  BY <1>4, CallsAre, CallsTakeNoFrames, LoopTyped DEF Succ, Starts, OutputAt, Exempt, Requests
<1>6. ASSUME NEW i \in 7..10 PROVE Codec(i, Script[i].do)
  BY <1>4, CallsAre, LoopTyped DEF Codec, OutputAt, VolumeAt, Requests, Refused
<1> QED BY <1>4, <1>5, <1>6 DEF Row

LEMMA ToneSteps ==
  ASSUME program \in {"audible_test", "melody", "music", "sweep", "sweep_high"}
  PROVE  \A i \in 7..Len(Script) - 1 : Row(i)
<1>1. program \in AllPrograms
  BY DEF AllPrograms
<1>2. /\ Len(Body) = 1 /\ Body[1] = Tone
  BY <1>1, Bodies
<1>3. /\ Len(Script) = Len(Body) + 8
      /\ \A i \in 1..Len(Body) : Script[6 + i] = Body[i]
      /\ Script[Len(Body) + 7] = Postroll /\ Script[Len(Body) + 8] = Call("SAFE")
  BY <1>1, Scripts
<1>4. /\ Len(Script) = 9 /\ Script[7] = Tone /\ Script[8] = Postroll
      /\ Script[9] = Call("SAFE")
  BY <1>2, <1>3
<1>5. ASSUME NEW i \in 7..8 PROVE Succ(i, Script[i], Script[i + 1])
  BY <1>4, CallsAre, CallsTakeNoFrames, LoopTyped DEF Succ, Starts, OutputAt, Exempt, Requests
<1>6. ASSUME NEW i \in 7..8 PROVE Codec(i, Script[i].do)
  BY <1>4, CallsAre, LoopTyped DEF Codec, OutputAt, VolumeAt, Requests, Refused
<1> QED BY <1>4, <1>5, <1>6 DEF Row

LEMMA PrologueSteps ==
  ASSUME program \in AllPrograms
  PROVE  /\ \A i \in 1..6 : Succ(i, Script[i], Script[i + 1])
         /\ \A i \in 5..6 : Codec(i, Script[i].do)
<1>1. /\ Script[1] = Call("SAFE") /\ Script[2] = Call("ARM_MUTED")
      /\ Script[3] = Call("open_PCM") /\ Script[4] = Call("PREPARE")
      /\ Script[5] = Preroll /\ Script[6] = Call("UNMUTE")
  BY Scripts
<1>2. Script[7] = Body[1]
  BY Scripts, BodyLength
<1>3. Body[1] = IF program = "i2s_clock_ab" THEN Window ELSE Tone
  BY Bodies DEF AllPrograms
<1>4. ASSUME NEW i \in 1..6 PROVE Succ(i, Script[i], Script[i + 1])
  BY <1>1, <1>2, <1>3, CallsAre, LoopTyped DEF Succ, Starts, Requests
<1>5. ASSUME NEW i \in 5..6 PROVE Codec(i, Script[i].do)
  BY <1>1, CallsAre, LoopTyped DEF Codec, OutputAt, VolumeAt, Requests, Refused
<1> QED BY <1>4, <1>5

LEMMA Successor ==
  ASSUME program \in AllPrograms, NEW i \in 1..Len(Script) - 1
  PROVE  Succ(i, Script[i], Script[i + 1]) /\ (i > 4 => Codec(i, Script[i].do))
<1>1. Len(Script) \in Nat
  BY Scripts, BodyLength
<1>2. CASE i <= 6
  BY <1>1, <1>2, PrologueSteps
<1>3. CASE i > 6
  <2>1. i \in 7..Len(Script) - 1
    BY <1>1, <1>3
  <2>2. Row(i)
    BY <2>1, ClockAbSteps, MuteAbSteps, DacMuteAbSteps, AnalogBoundarySteps, LineoutVolumeSteps, SelfcheckSteps, ChannelSteps, ToneSteps DEF AllPrograms
  <2> QED BY <2>2 DEF Row
<1> QED BY <1>1, <1>2, <1>3

(* The tenth step of three programs asks for what the codec refuses.       *)
LEMMA TenthStep ==
  ASSUME program \in Refused
  PROVE  Len(Script) > 10 /\ Script[10].do \in {"DAC_ANALOG_OFF", "MINUS14DB"}
<1>1. program \in AllPrograms
  BY DEF Refused, AllPrograms
<1>2. Len(Body) \in 7..12 /\ Body[4] \in {Call("DAC_ANALOG_OFF"), Call("MINUS14DB")}
  BY <1>1, Bodies DEF Refused
<1>3. Len(Script) = Len(Body) + 8 /\ \A i \in 1..Len(Body) : Script[6 + i] = Body[i]
  BY <1>1, Scripts
<1>4. Script[6 + 4] = Body[4]
  BY <1>2, <1>3
<1> QED BY <1>2, <1>3, <1>4, CallsAre

-----------------------------------------------------------------------------
(* What a program does next is fixed while it runs.                        *)

LEMMA Same ==
  ASSUME program' = program
  PROVE  /\ Script' = Script /\ BUFFER' = BUFFER /\ TONE_FRAMES' = TONE_FRAMES
         /\ OutputAt(pc)' = OutputAt(pc') /\ VolumeAt(pc)' = VolumeAt(pc')
         /\ Starts(pc)' = Starts(pc')
<1>1. TONE_FRAMES' = TONE_FRAMES
  BY DEF TONE_FRAMES
<1>2. Tone' = Tone
  BY <1>1 DEF Tone
<1>3. Body' = Body
  BY <1>2 DEF Body, ClockAb, MuteAb, DacMuteAb, AnalogBoundary, LineoutVolume, Selfcheck, Stage,
    ChannelTest
<1>4. Script' = Script
  BY <1>3 DEF Script
<1>5. BUFFER' = BUFFER
  BY DEF BUFFER, PCM_PERIODS
<1>6. OutputAt(pc)' = OutputAt(pc') /\ VolumeAt(pc)' = VolumeAt(pc')
  BY DEF OutputAt, VolumeAt
<1>7. Starts(pc)' = Starts(pc')
  BY DEF Starts
<1> QED BY <1>1, <1>4, <1>5, <1>6, <1>7

LEMMA BufferIs ==
  /\ BUFFER = IF program = "lineout_selfcheck" THEN 16384 ELSE 4096
  /\ BUFFER \in Nat
BY DEF BUFFER, PCM_PERIODS, PERIOD

(* What holds of the step at pc, and of the one behind it.                 *)
Placed ==
  /\ Len(Script) \in Nat /\ Len(Script) >= 9 /\ Now \in Steps
  /\ Now.frames \in 0..TONE_FRAMES + 147456 /\ TONE_FRAMES \in Nat /\ TONE_FRAMES >= 36000
  /\ program = "lineout_selfcheck" => TONE_FRAMES = 48000
  /\ Now.do \in Loops => Now.frames >= 4096
  /\ Now.do \notin Loops => Now.frames = 0
  /\ pc = 1 => Now.do = "SAFE"
  /\ pc = 2 => Now.do = "ARM_MUTED"
  /\ pc = 3 => Now.do = "open_PCM"
  /\ pc = 4 => Now.do = "PREPARE"
  /\ pc = 5 => Now = Preroll
  /\ pc = 6 => Now.do = "UNMUTE"
  /\ pc = Len(Script) => Now.do = "SAFE"
  /\ pc # Len(Script) =>
       /\ pc + 1 \in 1..Len(Script) /\ Script[pc + 1] \in Steps
       /\ Succ(pc, Now, Script[pc + 1]) /\ (pc > 4 => Codec(pc, Now.do))
  /\ pc > 1 => Succ(pc - 1, Script[pc - 1], Now) /\ Script[pc - 1] \in Steps
  /\ pc > 5 => Codec(pc - 1, Script[pc - 1].do)

(* How long the loops are; a call is no loop.                              *)
Sized(b) ==
  /\ b.frames \in 0..TONE_FRAMES + 147456
  /\ b.do \in Loops => b.frames >= 4096
  /\ b.do \notin Loops => b.frames = 0

LEMMA AllSized ==
  /\ Sized(Tone) /\ Sized(Window) /\ Sized(Gap) /\ Sized(Postroll) /\ Sized(Preroll)
  /\ Sized(MutedWindow) /\ Sized(Pause)
  /\ \A c \in Calls : Sized(Call(c))
<1>1. /\ Sized(Tone) /\ Sized(Window) /\ Sized(Gap) /\ Sized(Postroll) /\ Sized(Preroll)
      /\ Sized(MutedWindow) /\ Sized(Pause)
  BY LoopTyped DEF Sized, Loops
<1>2. ASSUME NEW c \in Calls PROVE Sized(Call(c))
  <2>1. c \notin Loops
    BY DEF Calls, Requests, Loops
  <2> QED BY <2>1, LoopTyped DEF Sized, Call
<1> QED BY <1>1, <1>2

LEMMA SuccessorsSized ==
  ASSUME NEW i, NEW a \in Steps, NEW b \in Steps, Succ(i, a, b)
  PROVE  Sized(b)
<1>1. a.do \in Calls \cup Loops /\ b.do \in Calls \cup Loops
  BY DEF Steps
<1>2. \/ b \in {Tone, Window, Gap, Postroll, Preroll, MutedWindow, Pause}
      \/ b \in {Call("SAFE"), Call("ARM_MUTED"), Call("open_PCM"), Call("PREPARE"),
               Call("UNMUTE"), Call("DROP"), Call("DAC_MUTE"), Call("DAC_UNMUTE"),
               Call("MINUS14DB"), Call("MINUS28DB")}
      \/ b.do \in Requests /\ b.frames = 0
  BY <1>1 DEF Succ, Calls, Loops, Requests
<1>3. CASE b \in {Tone, Window, Gap, Postroll, Preroll, MutedWindow, Pause}
  BY <1>3, AllSized
<1>4. CASE b \in {Call("SAFE"), Call("ARM_MUTED"), Call("open_PCM"), Call("PREPARE"),
               Call("UNMUTE"), Call("DROP"), Call("DAC_MUTE"), Call("DAC_UNMUTE"),
               Call("MINUS14DB"), Call("MINUS28DB")}
  BY <1>4, AllSized DEF Calls, Requests
<1>5. CASE b.do \in Requests /\ b.frames = 0
  BY <1>5, LoopTyped DEF Sized, Requests, Loops
<1> QED BY <1>2, <1>3, <1>4, <1>5

LEMMA AlwaysPlaced ==
  ASSUME program \in AllPrograms, pc \in 1..Len(Script) PROVE Placed
<1>1. /\ Script \in Seq(Steps) /\ Len(Script) = Len(Body) + 8 /\ Len(Body) \in 1..12
      /\ Script[1] = Call("SAFE") /\ Script[2] = Call("ARM_MUTED")
      /\ Script[3] = Call("open_PCM") /\ Script[4] = Call("PREPARE")
      /\ Script[5] = Preroll /\ Script[6] = Call("UNMUTE")
      /\ Script[Len(Body) + 8] = Call("SAFE")
  BY Scripts, BodyLength
<1>2. Len(Script) \in Nat /\ Len(Script) >= 9
  BY <1>1
<1>3. \A i \in 1..Len(Script) : Script[i] \in Steps
  BY <1>1
<1>4. Now \in Steps
  BY <1>3 DEF Now
<1>5. /\ pc = 1 => Now.do = "SAFE"
      /\ pc = 2 => Now.do = "ARM_MUTED"
      /\ pc = 3 => Now.do = "open_PCM"
      /\ pc = 4 => Now.do = "PREPARE"
      /\ pc = 5 => Now = Preroll
      /\ pc = 6 => Now.do = "UNMUTE"
      /\ pc = Len(Script) => Now.do = "SAFE"
  BY <1>1, CallsAre DEF Now
<1>6. pc # Len(Script) =>
        /\ pc + 1 \in 1..Len(Script) /\ Script[pc + 1] \in Steps
        /\ Succ(pc, Now, Script[pc + 1]) /\ (pc > 4 => Codec(pc, Now.do))
  <2>1. SUFFICES ASSUME pc # Len(Script)
                 PROVE  /\ pc + 1 \in 1..Len(Script) /\ Script[pc + 1] \in Steps
                        /\ Succ(pc, Now, Script[pc + 1]) /\ (pc > 4 => Codec(pc, Now.do))
    OBVIOUS
  <2>2. pc \in 1..Len(Script) - 1 /\ pc + 1 \in 1..Len(Script)
    BY <1>2, <2>1
  <2> QED BY <1>3, <2>2, Successor DEF Now
<1>7. pc > 1 => Succ(pc - 1, Script[pc - 1], Now) /\ Script[pc - 1] \in Steps
  <2>1. SUFFICES ASSUME pc > 1
                 PROVE  Succ(pc - 1, Script[pc - 1], Now) /\ Script[pc - 1] \in Steps
    OBVIOUS
  <2>2. pc - 1 \in 1..Len(Script) - 1 /\ pc - 1 \in 1..Len(Script) /\ (pc - 1) + 1 = pc
    BY <1>2, <2>1
  <2>3. PICK j : j = pc - 1
    OBVIOUS
  <2>4. Succ(j, Script[j], Script[j + 1])
    BY <2>2, <2>3, Successor
  <2> QED BY <1>3, <2>2, <2>3, <2>4 DEF Now
<1>9. pc > 5 => Codec(pc - 1, Script[pc - 1].do)
  <2>1. SUFFICES ASSUME pc > 5 PROVE Codec(pc - 1, Script[pc - 1].do)
    OBVIOUS
  <2>2. pc - 1 \in 1..Len(Script) - 1 /\ pc - 1 > 4
    BY <1>2, <2>1
  <2>3. PICK j : j = pc - 1
    OBVIOUS
  <2> QED BY <2>2, <2>3, Successor
<1>8. Sized(Now)
  <2>1. CASE pc = 1
    BY <1>1, <2>1, AllSized DEF Now, Calls
  <2>2. CASE pc > 1
    BY <1>4, <1>7, <2>2, SuccessorsSized
  <2> QED BY <1>2, <2>1, <2>2
<1> QED BY <1>2, <1>4, <1>5, <1>6, <1>7, <1>8, <1>9, LoopTyped DEF Placed, Sized

-----------------------------------------------------------------------------
(* What the calls of main, and time, do to the state.                      *)

(* How a call of main can end: the next step, the end with status 0, or    *)
(* the way out.                                                            *)
Moved ==
  /\ pc # Len(Script) /\ pc' = pc + 1 /\ Now' = Script[pc + 1] /\ left' = Now'.frames
  /\ phase' = "main" /\ result' = result

Passed == pc = Len(Script) /\ phase' = "safe" /\ result' = 0 /\ pc' = pc /\ left' = left /\ Now' = Now

LEMMA Advanced ==
  ASSUME Placed, pc \in 1..Len(Script), phase = "main", Advance
  PROVE  /\ program' = program /\ due' = FALSE /\ kept' = FALSE
         /\ Moved \/ Passed
         /\ pc' \in 1..Len(Script) /\ Script' = Script
<1>1. program' = program /\ due' = FALSE /\ kept' = FALSE
  BY DEF Advance
<1>2. Script' = Script
  BY <1>1, Same
<1>3. CASE pc < Len(Script)
  <2>1. pc' = pc + 1 /\ left' = Script[pc + 1].frames /\ phase' = phase /\ result' = result
    BY <1>3 DEF Advance
  <2>2. Now' = Script[pc + 1]
    BY <1>2, <2>1 DEF Now
  <2>3. Len(Script) \in Nat
    BY DEF Placed
  <2>4. Moved
    BY <1>3, <2>1, <2>2, <2>3 DEF Moved
  <2> QED BY <1>1, <1>2, <1>3, <2>1, <2>3, <2>4
<1>4. CASE ~(pc < Len(Script))
  <2>1. phase' = "safe" /\ result' = 0 /\ pc' = pc /\ left' = left
    BY <1>4 DEF Advance
  <2>2. Len(Script) \in Nat
    BY DEF Placed
  <2>3. pc = Len(Script)
    BY <1>4, <2>2
  <2>4. Passed
    BY <1>2, <2>1, <2>3 DEF Passed, Now
  <2> QED BY <1>1, <1>2, <2>1, <2>4
<1> QED BY <1>3, <1>4

LEMMA Stayed ==
  ASSUME program' = program, pc' = pc PROVE Script' = Script /\ Now' = Now
BY Same DEF Now

LEMMA ChunkIs ==
  ASSUME Placed, left \in Nat, Now.do \in Loops, left >= 1
  PROVE  /\ Chunk \in Nat /\ Chunk >= 1
         /\ Now.do = "sleep" => Chunk = 4800
         /\ Now.do # "sleep" => Chunk <= left /\ Chunk <= 1024 /\ (left > Chunk => Chunk = 1024)
BY DEF Chunk, Amin, PERIOD

LEMMA IteratedLeft ==
  ASSUME Placed, pc \in 1..Len(Script), phase = "main", left \in 1..Now.frames, result \in {0, 1},
         Now.do \in Loops, Iterated
  PROVE  /\ program' = program /\ due' = FALSE /\ kept' = FALSE /\ Script' = Script
         /\ pc' \in 1..Len(Script)
         /\ \/ Moved /\ left <= Chunk
            \/ /\ left > Chunk /\ left' = left - Chunk /\ left' >= 1 /\ left' < Now.frames
               /\ phase' = "main" /\ pc' = pc /\ result' = result /\ Now' = Now
<1>1. left \in Nat /\ left >= 1 /\ Now.frames \in Nat
  BY DEF Placed
<1>2. CASE left > Chunk
  <2>1. /\ left' = left - Chunk /\ kept' = FALSE /\ due' = FALSE
        /\ program' = program /\ phase' = phase /\ pc' = pc /\ result' = result
    BY <1>2 DEF Iterated
  <2> QED BY <1>1, <1>2, <2>1, ChunkIs, Stayed
<1>3. CASE ~(left > Chunk)
  <2>1. Advance
    BY <1>3 DEF Iterated
  <2>2. ~Passed
    BY DEF Passed, Placed, Loops
  <2> QED BY <1>1, <1>3, <2>1, <2>2, Advanced, ChunkIs
<1> QED BY <1>2, <1>3

(* The numbers after some time.                                            *)
LEMMA Elapsed ==
  ASSUME queue \in Nat, voiced \in 0..queue, lease \in Nat,
         NEW d \in Nat, NEW K \in SUBSET Regulators, Elapse(d, K)
  PROVE  /\ lease' \in 0..lease
         /\ lease > d => lease' = lease - d /\ amp' = amp
         /\ lease = 0 => amp' = amp
         /\ amp' = amp \/ amp' = Forced(K)
         /\ stream = "running" =>
              /\ queue > d => stream' = "running" /\ queue' = queue - d
              /\ queue <= d => stream' = "xrun" /\ queue' = 0 /\ voiced' = 0
              /\ voiced' = (IF voiced > d THEN voiced - d ELSE 0) /\ voiced' \in 0..queue'
         /\ stream # "running" => stream' = stream /\ queue' = queue /\ voiced' = voiced
<1>1. lease' \in 0..lease /\ (lease > d => lease' = lease - d)
  BY DEF Elapse, Amax
<1>2. lease > d \/ lease = 0 => amp' = amp
  BY DEF Elapse
<1>3. amp' = amp \/ amp' = Forced(K)
  BY DEF Elapse
<1>4. stream = "running" =>
              /\ queue > d => stream' = "running" /\ queue' = queue - d
              /\ queue <= d => stream' = "xrun" /\ queue' = 0 /\ voiced' = 0
              /\ voiced' = (IF voiced > d THEN voiced - d ELSE 0) /\ voiced' \in 0..queue'
  BY DEF Elapse, Amax
<1>5. stream # "running" => stream' = stream /\ queue' = queue /\ voiced' = voiced
  BY DEF Elapse
<1>6. (lease > d => lease' = lease - d /\ amp' = amp) /\ (lease = 0 => amp' = amp)
  BY <1>1, <1>2
<1> QED BY <1>1, <1>3, <1>4, <1>5, <1>6

LEMMA ElapsedCut ==
  ASSUME queue \in Nat, voiced \in 0..queue, lease \in Nat,
         NEW d \in Nat, NEW K \in SUBSET Regulators, Elapse(d, K)
  PROVE  /\ cut' \in BOOLEAN
         /\ ~cut /\ cut' => stream = "running" /\ voiced > 0 /\ (~Heard \/ voiced > lease)
<1>1. cut' \in BOOLEAN
  BY DEF Elapse
<1>2. ~cut /\ cut' => stream = "running" /\ voiced > 0 /\ (~Heard \/ voiced > lease)
  BY DEF Elapse
<1> QED BY <1>1, <1>2

LEMMA FailsBounds ==
  ASSUME faults \in 0..MaxFaults, NEW K, Fails(K)
  PROVE  faults' \in 0..MaxFaults /\ faults' >= faults
<1>1. One("mute", K) \in {0, 1} /\ One("shutdown", K) \in {0, 1} /\ One("call", K) \in {0, 1}
  BY DEF One
<1> QED BY <1>1, BoundsAssumption DEF Fails

LEMMA DurationIs ==
  ASSUME queue \in Nat, Placed, left \in Nat, Now.do \in Loops => left >= 1
  PROVE  /\ Duration \in Nat
         /\ AtKeepalive => Duration = 0
         /\ AtWrite /\ stream = "running" =>
              Duration = IF queue + Chunk > BUFFER THEN queue + Chunk - BUFFER ELSE 0
         /\ AtWrite /\ stream # "running" => Duration = 0
         /\ ~AtWrite /\ ~AtKeepalive => Duration <= 4800
<1>1. BUFFER \in Nat
  BY BufferIs
<1>2. Now.do \in Loops => Chunk \in Nat
  BY ChunkIs
<1>3. AtKeepalive => Duration = 0
  BY DEF Duration, AtKeepalive, AtWrite, Loops
<1>4. ~AtKeepalive /\ AtWrite => Now.do \in Loops
  BY DEF AtWrite
<1>5. AtWrite => ~AtKeepalive
  BY DEF AtWrite
<1>6. AtWrite /\ stream = "running" =>
         Duration = (IF queue + Chunk > BUFFER THEN queue + Chunk - BUFFER ELSE 0) /\ Duration \in Nat
  BY <1>1, <1>2, <1>4, <1>5 DEF Duration, Amax, AtKeepalive, AtWrite, Loops
<1>7. AtWrite /\ stream # "running" => Duration = 0
  BY <1>5 DEF Duration, AtKeepalive, AtWrite, Loops
<1>8. ~AtWrite /\ ~AtKeepalive => Duration <= 4800 /\ Duration \in Nat
  BY DEF Duration, AtKeepalive, AtWrite, Loops
<1> QED BY <1>3, <1>5, <1>6, <1>7, <1>8

-----------------------------------------------------------------------------
(* The program and its place: PlaceInv.                                    *)

(* The part of the state that the process keeps.                           *)
Control ==
  /\ program \in AllPrograms /\ pc \in 1..Len(Script)
  /\ phase \in {"start", "main", "safe", "drop", "close_PCM", "close_gate",
                "killed", "killed_PCM", "exited"}
  /\ result \in {0, 1} /\ PlaceInv

LEMMA ControlPlaced == ASSUME Control PROVE Placed
BY AlwaysPlaced DEF Control

(* The program and its place after a step of main.                         *)
ControlKept ==
  /\ program' = program /\ Script' = Script /\ BUFFER' = BUFFER
  /\ Control'

LEMMA ControlNext ==
  ASSUME program' = program, program \in AllPrograms, Script' = Script, BUFFER' = BUFFER,
         pc' \in 1..Len(Script), result' \in {0, 1}, PlaceInv',
         phase' \in {"start", "main", "safe", "drop", "close_PCM", "close_gate",
                    "killed", "killed_PCM", "exited"}
  PROVE  ControlKept
<1> DEFINE Within(s) == pc' \in 1..Len(s)
<1>1. Within(Script)
  OBVIOUS
<1> HIDE DEF Within
<1>2. Within(Script')
  BY <1>1
<1>3. pc' \in 1..Len(Script')
  BY <1>2 DEF Within
<1>4. program' \in AllPrograms
  OBVIOUS
<1> QED BY <1>3, <1>4 DEF ControlKept, Control

LEMMA AdvanceKeeps == ASSUME Control, phase = "main", Advance PROVE ControlKept
<1>1. Placed
  BY ControlPlaced
<1>2. pc \in 1..Len(Script)
  BY DEF Control
<1>3. /\ program' = program /\ due' = FALSE /\ kept' = FALSE
      /\ Moved \/ Passed
      /\ pc' \in 1..Len(Script) /\ Script' = Script
  BY <1>1, <1>2, Advanced
<1>4. TONE_FRAMES' = TONE_FRAMES /\ BUFFER' = BUFFER
  BY <1>3, Same
<1>5. CASE Moved
  <2>1. Sized(Now') /\ left' = Now'.frames /\ phase' = "main" /\ result' = result
    BY <1>1, <1>5, SuccessorsSized DEF Moved, Placed
  <2>2. result = 1
    BY DEF Control, PlaceInv
  <2>3. left' \in 0..Now'.frames /\ (Now'.do \in Loops => left' >= 1)
    BY <2>1 DEF Sized
  <2>4. PlaceInv'
    BY <1>3, <2>1, <2>2, <2>3 DEF PlaceInv
  <2>5. program \in AllPrograms
    BY DEF Control
  <2> QED BY <1>3, <1>4, <2>1, <2>2, <2>3, <2>4, <2>5, ControlNext
<1>6. CASE Passed
  <2>1. PlaceInv'
    BY <1>3, <1>6 DEF Passed, PlaceInv, Control
  <2>2. program \in AllPrograms
    BY DEF Control
  <2>3. left' = left /\ phase' = "safe" /\ result' = 0
    BY <1>6 DEF Passed
  <2> QED BY <1>3, <1>4, <2>1, <2>2, <2>3, ControlNext
<1> QED BY <1>3, <1>5, <1>6

LEMMA LeaveKeeps == ASSUME Control, Leave PROVE ControlKept /\ Now' = Now
<1>1. program' = program /\ pc' = pc
  BY DEF Leave
<1>2. /\ Script' = Script /\ TONE_FRAMES' = TONE_FRAMES /\ BUFFER' = BUFFER /\ Now' = Now
  BY <1>1, Same, Stayed
<1>3. PlaceInv'
  BY <1>2 DEF Leave, Control, PlaceInv
<1>4. /\ program \in AllPrograms /\ pc \in 1..Len(Script) /\ result \in {0, 1}
  BY DEF Control
<1>5. left' = left /\ result' = result /\ phase' = "safe"
  BY DEF Leave
<1> QED BY <1>1, <1>2, <1>3, <1>4, <1>5, ControlNext

LEMMA IterateKeeps ==
  ASSUME Control, phase = "main", Now.do \in Loops, Iterated PROVE ControlKept
<1>1. CASE left > Chunk
  <2>1. /\ program' = program /\ pc' = pc /\ phase' = phase /\ result' = result
        /\ kept' = FALSE /\ due' = FALSE /\ left' = left - Chunk
    BY <1>1 DEF Iterated
  <2>2. /\ Script' = Script /\ TONE_FRAMES' = TONE_FRAMES /\ BUFFER' = BUFFER /\ Now' = Now
    BY <2>1, Same, Stayed
  <2>3. left \in Nat /\ left >= 1 /\ left <= Now.frames /\ Now.frames \in Nat /\ Placed
    BY ControlPlaced DEF Control, PlaceInv, Placed
  <2>4. left' \in 1..left
    BY <1>1, <2>1, <2>3, ChunkIs
  <2>5. PlaceInv'
    BY <2>1, <2>2, <2>3, <2>4 DEF PlaceInv, Control
  <2>7. program \in AllPrograms /\ pc \in 1..Len(Script) /\ result \in {0, 1}
    BY DEF Control
  <2> QED BY <2>1, <2>2, <2>5, <2>7, ControlNext
<1>2. CASE ~(left > Chunk)
  BY <1>2, AdvanceKeeps DEF Iterated
<1> QED BY <1>1, <1>2

(* A step that stays where it is, in another phase or not.                 *)
LEMMA StandKeeps ==
  ASSUME Control, UNCHANGED <<program, pc, left, result>>,
         phase' \in {"main", "safe", "drop", "close_PCM", "close_gate", "killed", "killed_PCM",
                     "exited"},
         phase' = "main" => phase \in {"start", "main"},
         phase' = "main" /\ kept' => Now.do \in Loops \ {"unkept_zeros"}
  PROVE  ControlKept /\ Now' = Now
<1>1. /\ Script' = Script /\ TONE_FRAMES' = TONE_FRAMES /\ BUFFER' = BUFFER /\ Now' = Now
  BY Same, Stayed
<1>2. PlaceInv'
  BY <1>1 DEF Control, PlaceInv
<1>3. /\ program \in AllPrograms /\ pc \in 1..Len(Script) /\ result \in {0, 1}
  BY DEF Control
<1> QED BY <1>1, <1>2, <1>3, ControlNext

LEMMA NextControl == ASSUME Control, [Next]_vars PROVE ControlKept
<1>1. CASE Wait
  <2>1. /\ UNCHANGED <<program, phase, pc, left, kept, result>> /\ phase = "main" /\ due' = TRUE
    BY <1>1 DEF Wait
  <2> QED BY <2>1, StandKeeps DEF Control, PlaceInv
<1>2. CASE OpenGate
  BY <1>2, StandKeeps DEF OpenGate, Control, PlaceInv
<1>3. CASE Safe
  BY <1>3, AdvanceKeeps, LeaveKeeps DEF Safe, At
<1>4. CASE ArmMuted
  BY <1>4, AdvanceKeeps, LeaveKeeps DEF ArmMuted, At
<1>5. CASE Unmute
  BY <1>5, AdvanceKeeps, LeaveKeeps DEF Unmute, At
<1>6. CASE Keepalive
  <2>1. CASE amp.unmuted
    <3>1. /\ UNCHANGED <<program, phase, pc, left, result>> /\ phase = "main" /\ due' = FALSE
          /\ kept' = TRUE /\ Now.do \in Loops \ {"unkept_zeros"}
      BY <1>6, <2>1 DEF Keepalive, AtKeepalive
    <3> QED BY <3>1, StandKeeps
  <2>2. CASE ~amp.unmuted
    BY <1>6, <2>2, LeaveKeeps DEF Keepalive
  <2> QED BY <2>1, <2>2
<1>7. CASE CodecRequest
  BY <1>7, AdvanceKeeps, LeaveKeeps DEF CodecRequest, At
<1>8. CASE OpenPcm \/ Prepare \/ Drop
  BY <1>8, AdvanceKeeps DEF OpenPcm, Prepare, Drop, At
<1>9. CASE Write
  <2>1. Now.do \in Loops
    BY <1>9 DEF Write, AtWrite
  <2> QED BY <1>9, <2>1, IterateKeeps, LeaveKeeps DEF Write
<1>10. CASE Sleep
  BY <1>10, IterateKeeps DEF Sleep, Loops
<1>11. CASE CallFails
  BY <1>11, LeaveKeeps DEF CallFails
<1>12. CASE End
  <2>1. /\ UNCHANGED <<program, pc, left, kept, due, result>>
        /\ phase' \in {"drop", "close_PCM", "close_gate", "killed_PCM", "exited"}
    BY <1>12 DEF End, OutSafe, OutDrop, OutClose, Release, KilledRelease, KilledClose, Finish
  <2> QED BY <2>1, StandKeeps DEF Control
<1>13. CASE Kill
  BY <1>13, StandKeeps DEF Kill, Control
<1>14. CASE UNCHANGED vars
  <2>1. UNCHANGED <<program, phase, pc, left, kept, due, result, stream>>
    BY <1>14 DEF vars, client, pcm
  <2>2. CASE phase # "start"
    BY <2>1, <2>2, StandKeeps DEF Control, PlaceInv
  <2>3. CASE phase = "start"
    <3>1. /\ Script' = Script /\ TONE_FRAMES' = TONE_FRAMES /\ BUFFER' = BUFFER /\ Now' = Now
      BY <2>1, Same, Stayed
    <3>2. PlaceInv'
      BY <2>1, <3>1 DEF Control, PlaceInv
    <3>3. /\ program \in AllPrograms /\ pc \in 1..Len(Script) /\ result \in {0, 1}
      BY DEF Control
    <3> QED BY <2>1, <2>3, <3>1, <3>2, <3>3, ControlNext
  <2> QED BY <2>2, <2>3
<1> QED BY <1>1, <1>2, <1>3, <1>4, <1>5, <1>6, <1>7, <1>8, <1>9, <1>10, <1>11, <1>12, <1>13, <1>14
  DEF Next, Main

(* The successors by their names.                                          *)
LEMMA Names ==
  ASSUME NEW i, NEW a \in Steps, NEW b \in Steps, Succ(i, a, b)
  PROVE  /\ a.do = "SAFE" => b.do = "ARM_MUTED"
         /\ a.do = "ARM_MUTED" => b.do \in {"open_PCM", "unkept_zeros"}
         /\ a.do = "open_PCM" => b.do = "PREPARE" /\ i = 3
         /\ a.do = "PREPARE" => b.do \in {"unkept_zeros", "zeros"}
         /\ a.do = "unkept_zeros" => b.do = "UNMUTE"
         /\ a.do = "UNMUTE" => b.do \in {"tone", "zeros"}
         /\ a.do = "tone" => b.do \in {"zeros", "DAC_MUTE"}
         /\ a.do = "zeros" => b.do \in {"SAFE", "tone", "zeros", "DROP", "ARM_MUTED"} \cup Requests
         /\ a.do = "DROP" => b.do = "sleep"
         /\ a.do = "sleep" => b.do = "PREPARE"
         /\ a.do \in Requests =>
              b.do \in {"zeros", "MINUS14DB", "MINUS28DB", "DAC_UNMUTE", "tone"}
<1>1. a.do = "SAFE" => b.do = "ARM_MUTED"
  BY CallsAre DEF Succ
<1>2. a.do = "ARM_MUTED" => b.do \in {"open_PCM", "unkept_zeros"}
  BY CallsAre, LoopTyped DEF Succ
<1>3. a.do = "open_PCM" => b.do = "PREPARE" /\ i = 3
  BY CallsAre DEF Succ
<1>4. a.do = "PREPARE" => b.do \in {"unkept_zeros", "zeros"}
  BY LoopTyped DEF Succ
<1>5. a.do = "unkept_zeros" => b.do = "UNMUTE"
  BY CallsAre DEF Succ
<1>6. a.do = "UNMUTE" => b.do \in {"tone", "zeros"}
  BY LoopTyped DEF Succ
<1>7. a.do = "tone" => b.do \in {"zeros", "DAC_MUTE"}
  BY CallsAre, LoopTyped DEF Succ
<1>8. a.do = "zeros" => b.do \in {"SAFE", "tone", "zeros", "DROP", "ARM_MUTED"} \cup Requests
  <2>1. a.do = "zeros" =>
             \/ b = Call("SAFE") \/ b = Tone \/ b = Postroll \/ b = Call("DROP")
             \/ b = Call("ARM_MUTED") \/ b = Call("DAC_MUTE") \/ b.do \in Requests
    BY DEF Succ
  <2> QED BY <2>1, CallsAre, LoopTyped DEF Requests
<1>9. (a.do = "DROP" => b.do = "sleep") /\ (a.do = "sleep" => b.do = "PREPARE")
  BY CallsAre, LoopTyped DEF Succ
<1>10. a.do \in Requests =>
              b.do \in {"zeros", "MINUS14DB", "MINUS28DB", "DAC_UNMUTE", "tone"}
  BY CallsAre, LoopTyped DEF Succ
<1> QED BY <1>1, <1>2, <1>3, <1>4, <1>5, <1>6, <1>7, <1>8, <1>9, <1>10

LEMMA Started ==
  ASSUME NEW i, NEW a, NEW b, Succ(i, a, b) PROVE Starts(i + 1) <=> a.do = "PREPARE"
BY DEF Succ

(* The predecessors by their names.                                        *)
LEMMA Behind ==
  ASSUME NEW i, NEW a \in Steps, NEW b \in Steps, Succ(i, a, b)
  PROVE  /\ b.do = "sleep" => a.do = "DROP"
         /\ b.do = "PREPARE" => a.do = "sleep" \/ (a.do = "open_PCM" /\ i = 3)
         /\ b.do = "DROP" => a.do = "zeros"
         /\ b.do = "UNMUTE" => a.do = "unkept_zeros"
         /\ b.do = "unkept_zeros" => a.do \in {"PREPARE", "ARM_MUTED"}
         /\ b.do \in Requests => a.do \in {"tone", "zeros"} \cup Requests
         /\ b.do = "tone" => a.do \in {"UNMUTE", "zeros", "DAC_UNMUTE"} \cup Requests
<1>1. a.do \in Calls \cup Loops
  BY DEF Steps
<1>2. a.do \in {"SAFE", "ARM_MUTED", "open_PCM", "PREPARE", "unkept_zeros", "UNMUTE", "tone", "zeros",
               "DROP", "sleep"} \cup Requests
  BY <1>1 DEF Calls, Loops
<1> QED BY <1>2, Names DEF Requests

-----------------------------------------------------------------------------
(* The stream and the numbers: StreamInv, Numbers, Flags.                  *)

(* The counters and the state of the stream.                               *)
Numbers ==
  /\ lease \in 0..ARM_LEASE /\ queue \in 0..BUFFER /\ voiced \in 0..queue
  /\ faults \in 0..MaxFaults /\ stalls \in 0..MaxStalls
  /\ stream \in {"closed", "open", "prepared", "running", "xrun", "stopped"}

(* The switches.                                                           *)
Flags ==
  /\ kept \in BOOLEAN /\ due \in BOOLEAN /\ cut \in BOOLEAN
  /\ amp \in [enabled : BOOLEAN, unmuted : BOOLEAN]
  /\ dac \in {"on", "muted", "off", "hiz"} /\ volume \in 0..2

LEMMA ForcedTyped ==
  ASSUME amp \in [enabled : BOOLEAN, unmuted : BOOLEAN], NEW K
  PROVE  Forced(K) \in [enabled : BOOLEAN, unmuted : BOOLEAN]
BY DEF Forced

LEMMA WritesAre ==
  ASSUME Control, Now.do \in Writes
  PROVE  /\ pc > 4 /\ pc # Len(Script) /\ left >= 1 /\ left \in Nat /\ left <= Now.frames
         /\ Chunk \in Nat /\ Chunk >= 1 /\ Chunk <= left /\ Chunk <= 1024
         /\ left > Chunk => Chunk = 1024
         /\ Now.do \in Loops /\ Now.do \notin {"sleep", "PREPARE", "SAFE"}
<1>1. Placed
  BY ControlPlaced
<1>2. Now.do \in Loops /\ Now.do \notin {"sleep", "PREPARE", "SAFE"}
  BY DEF Writes, Loops
<1>3. pc # Len(Script)
  BY <1>1, <1>2 DEF Placed
<1>4. pc > 4
  <2>1. pc \in 1..Len(Script) /\ Len(Script) \in Nat
    BY <1>1 DEF Control, Placed
  <2>2. pc # 1 /\ pc # 2 /\ pc # 3 /\ pc # 4
    BY <1>1 DEF Placed, Writes
  <2> QED BY <2>1, <2>2
<1>5. left >= 1 /\ left \in Nat /\ left <= Now.frames
  BY <1>1, <1>2 DEF Control, PlaceInv, Placed
<1> QED BY <1>1, <1>2, <1>3, <1>4, <1>5, ChunkIs

(* The stream at the next step.                                            *)
LEMMA MovedStream ==
  ASSUME Control, StreamInv, phase = "main", Moved, program' = program, ~due',
         Now.do = "open_PCM" => stream' = "open",
         Now.do = "PREPARE" => stream' = "prepared",
         Now.do = "DROP" => stream' = "stopped",
         Now.do \in Writes => stream' = "running",
         Now.do \notin {"open_PCM", "PREPARE", "DROP"} \cup Writes => stream' = stream,
         stream' # "running" => queue' = 0
  PROVE  StreamInv'
<1>1. Placed
  BY ControlPlaced
<1>2. pc' = pc + 1 /\ left' = Now'.frames /\ Starts(pc)' = Starts(pc + 1)
  BY Same DEF Moved
<1>3. Succ(pc, Now, Now')
  BY <1>1 DEF Placed, Moved
<1>a. pc \in Nat /\ pc >= 1
  BY <1>1 DEF Control, Placed
<1>b. /\ pc = 1 => Now.do = "SAFE"
      /\ pc = 2 => Now.do = "ARM_MUTED"
      /\ pc = 3 => Now.do = "open_PCM"
      /\ pc = 4 => Now.do = "PREPARE"
  BY <1>1 DEF Placed
<1>c. /\ pc <= 3 => stream = "closed"
      /\ pc = 4 => stream = "open"
      /\ Now.do = "sleep" \/ (Now.do = "PREPARE" /\ pc # 4) => stream = "stopped"
      /\ (pc > 4 /\ Now.do \notin {"sleep", "PREPARE"}
           /\ ~(Starts(pc) /\ left = Now.frames)) => stream \in {"running", "xrun"}
  BY DEF StreamInv
<1>4. pc' <= 3 => stream' = "closed"
  BY <1>2, <1>a, <1>b, <1>c DEF Writes
<1>5. pc' = 4 => stream' = "open"
  BY <1>2, <1>a, <1>b
<1>6. Starts(pc)' => stream' = "prepared"
  BY <1>2, <1>3, Started
<1>d. Now \in Steps /\ Now' \in Steps
  BY <1>1 DEF Placed, Moved
<1>7. Now'.do = "sleep" \/ (Now'.do = "PREPARE" /\ pc' # 4) => stream' = "stopped"
  <2>1. Now'.do = "sleep" => Now.do = "DROP"
    BY <1>3, <1>d, Behind
  <2>2. Now'.do = "PREPARE" /\ pc' # 4 => Now.do = "sleep"
    BY <1>2, <1>3, <1>d, Behind
  <2> QED BY <1>c, <2>1, <2>2 DEF Writes
<1>8. (pc' > 4 /\ Now'.do \notin {"sleep", "PREPARE"} /\ ~Starts(pc)')
        => stream' \in {"running", "xrun"}
  <2>1. SUFFICES ASSUME pc' > 4, Now'.do \notin {"sleep", "PREPARE"}, ~Starts(pc)'
                 PROVE  stream' \in {"running", "xrun"}
    OBVIOUS
  <2>2. Now.do # "PREPARE"
    BY <1>2, <1>3, <2>1, Started
  <2>3. Now.do # "DROP" /\ Now.do # "sleep"
    BY <1>3, <1>d, <2>1, Names
  <2>4. pc > 4 /\ Now.do # "open_PCM"
    <3>1. pc # 4 /\ pc >= 4
      BY <1>2, <1>a, <1>b, <2>1, <2>2
    <3>2. Now.do # "open_PCM"
      BY <1>3, <1>d, <3>1, Names
    <3> QED BY <1>a, <3>1, <3>2
  <2>5. CASE Now.do \in Writes
    BY <2>5
  <2>6. CASE Now.do \notin Writes
    <3>1. Starts(pc) => Now.do \in Writes
      <4>1. Succ(pc - 1, Script[pc - 1], Now) /\ (pc - 1) + 1 = pc /\ Script[pc - 1] \in Steps
        BY <1>1, <1>a, <2>4 DEF Placed
      <4>2. PICK j : j = pc - 1
        OBVIOUS
      <4>3. Succ(j, Script[j], Now) /\ j + 1 = pc /\ Script[j] \in Steps
        BY <4>1, <4>2
      <4>4. Starts(pc) => Script[j].do = "PREPARE"
        BY <4>3, Started
      <4> QED BY <1>d, <4>3, <4>4, Names DEF Writes
    <3>2. ~(Starts(pc) /\ left = Now.frames)
      BY <2>6, <3>1
    <3>3. stream \in {"running", "xrun"}
      BY <1>c, <2>2, <2>3, <2>4, <3>2
    <3> QED BY <2>2, <2>3, <2>4, <2>6, <3>3
  <2> QED BY <2>5, <2>6
<1> QED BY <1>2, <1>4, <1>5, <1>6, <1>7, <1>8 DEF StreamInv

LEMMA OutsideStream ==
  ASSUME phase' # "main", stream' # "running" => queue' = 0 PROVE StreamInv'
BY DEF StreamInv

(* A call that takes effect and moves the program on.                      *)
LEMMA AdvancedStream ==
  ASSUME Control, StreamInv, phase = "main", Advance,
         Now.do = "open_PCM" => stream' = "open",
         Now.do = "PREPARE" => stream' = "prepared",
         Now.do = "DROP" => stream' = "stopped",
         Now.do \in Writes => stream' = "running",
         Now.do \notin {"open_PCM", "PREPARE", "DROP"} \cup Writes => stream' = stream,
         stream' # "running" => queue' = 0
  PROVE  StreamInv'
<1>1. Placed /\ pc \in 1..Len(Script)
  BY ControlPlaced DEF Control
<1>2. program' = program /\ due' = FALSE /\ (Moved \/ Passed)
  BY <1>1, Advanced
<1>3. CASE Moved
  BY <1>2, <1>3, MovedStream
<1>4. CASE Passed
  BY <1>4, OutsideStream DEF Passed
<1> QED BY <1>2, <1>3, <1>4

LEMMA WaitStream ==
  ASSUME Control, Numbers, StreamInv, Wait PROVE StreamInv'
<1>1. Placed /\ pc \in 1..Len(Script)
  BY ControlPlaced DEF Control
<1>2. /\ phase = "main" /\ due' = TRUE /\ UNCHANGED <<program, phase, pc, left, kept>>
  BY DEF Wait
<1>3. Now' = Now /\ BUFFER' = BUFFER /\ Starts(pc)' = Starts(pc)
  BY <1>2, Same, Stayed
<1>4. PICK d \in Nat, K \in SUBSET Regulators : Elapse(Duration + d, K)
  BY TimesAssumption DEF Wait
<1>5. queue \in Nat /\ left \in Nat /\ voiced \in 0..queue /\ lease \in Nat /\ BUFFER \in Nat
  BY <1>1, BufferIs DEF Numbers, Control, PlaceInv, Placed
<1>6. Now.do \in Loops => left >= 1
  BY DEF Control, PlaceInv
<1>7. Duration \in Nat /\ Duration + d \in Nat
  BY <1>1, <1>4, <1>5, <1>6, DurationIs
<1>8. /\ stream = "running" => stream' \in {"running", "xrun"}
      /\ stream' = "running" => stream = "running" /\ queue' = queue - (Duration + d)
      /\ stream # "running" => stream' = stream
      /\ stream' # "running" => queue' = 0
  <2>1. /\ stream = "running" =>
              /\ queue > Duration + d => stream' = "running" /\ queue' = queue - (Duration + d)
              /\ queue <= Duration + d => stream' = "xrun" /\ queue' = 0
        /\ stream # "running" => stream' = stream /\ queue' = queue
    BY <1>4, <1>5, <1>7, Elapsed
  <2>2. stream # "running" => queue = 0
    BY DEF StreamInv
  <2> QED BY <1>5, <1>7, <2>1, <2>2
<1>9. due' /\ AtWrite' /\ stream' = "running" => queue' + Chunk' <= BUFFER'
  <2>1. SUFFICES ASSUME AtWrite', stream' = "running" PROVE queue' + Chunk' <= BUFFER'
    OBVIOUS
  <2>2. AtWrite
    BY <1>2, <1>3, <2>1 DEF AtWrite, AtKeepalive
  <2>3. Chunk' = Chunk
    BY <1>2, <1>3 DEF Chunk
  <2>4. Duration = IF queue + Chunk > BUFFER THEN queue + Chunk - BUFFER ELSE 0
    BY <1>1, <1>5, <1>6, <1>8, <2>1, <2>2, DurationIs
  <2>5. Chunk \in Nat
    BY <1>1, <1>5, <1>6, <2>2, ChunkIs DEF AtWrite
  <2> QED BY <1>3, <1>4, <1>5, <1>7, <1>8, <2>1, <2>3, <2>4, <2>5
<1>10. /\ pc <= 3 => stream = "closed"
       /\ pc = 4 => stream = "open"
       /\ Now.do = "sleep" \/ (Now.do = "PREPARE" /\ pc # 4) => stream = "stopped"
       /\ Starts(pc) /\ left = Now.frames => stream = "prepared"
       /\ (pc > 4 /\ Now.do \notin {"sleep", "PREPARE"}
            /\ ~(Starts(pc) /\ left = Now.frames)) => stream \in {"running", "xrun"}
  BY <1>2 DEF StreamInv
<1>11. /\ pc <= 3 => stream' = "closed"
       /\ pc = 4 => stream' = "open"
       /\ Now.do = "sleep" \/ (Now.do = "PREPARE" /\ pc # 4) => stream' = "stopped"
       /\ Starts(pc) /\ left = Now.frames => stream' = "prepared"
       /\ (pc > 4 /\ Now.do \notin {"sleep", "PREPARE"}
            /\ ~(Starts(pc) /\ left = Now.frames)) => stream' \in {"running", "xrun"}
  BY <1>8, <1>10
<1> QED BY <1>2, <1>3, <1>8, <1>9, <1>11 DEF StreamInv

LEMMA WriteStream == ASSUME Control, StreamInv, Write PROVE StreamInv'
<1>1. phase = "main" /\ Now.do \in Writes
  BY DEF Write, AtWrite, Loops, Writes
<1>2. CASE stream = "xrun"
  <2>1. phase' = "safe" /\ stream' = stream /\ queue' = queue
    BY <1>2 DEF Write, Leave, pcm
  <2> QED BY <1>2, <2>1, OutsideStream DEF StreamInv
<1>3. CASE stream # "xrun"
  <2>1. Iterated /\ stream' = "running"
    BY <1>3 DEF Write
  <2>2. Placed
    BY ControlPlaced
  <2>3. /\ pc > 4 /\ left >= 1 /\ left \in Nat /\ left <= Now.frames
        /\ Now.do \in Loops /\ Now.do \notin {"sleep", "PREPARE", "SAFE"}
    BY <1>1, WritesAre
  <2>a. Now.frames \in Nat
    BY <2>2 DEF Placed
  <2>b. result \in {0, 1} /\ pc \in 1..Len(Script)
    BY DEF Control
  <2>c. left \in 1..Now.frames
    BY <2>3, <2>a
  <2>d. /\ program' = program /\ due' = FALSE /\ kept' = FALSE /\ Script' = Script
        /\ pc' \in 1..Len(Script)
        /\ \/ Moved /\ left <= Chunk
           \/ /\ left > Chunk /\ left' = left - Chunk /\ left' >= 1 /\ left' < Now.frames
              /\ phase' = "main" /\ pc' = pc /\ result' = result /\ Now' = Now
    BY <1>1, <2>1, <2>2, <2>3, <2>b, <2>c, IteratedLeft
  <2>e. Chunk \in Nat
    BY <2>2, <2>3, ChunkIs
  <2>4. program' = program /\ due' = FALSE /\
        \/ Moved
        \/ left' # Now.frames /\ phase' = "main" /\ pc' = pc /\ Now' = Now
    BY <2>3, <2>a, <2>d, <2>e
  <2>5. CASE Moved
    BY <1>1, <2>1, <2>4, <2>5, MovedStream DEF Writes
  <2>6. CASE left' # Now.frames /\ phase' = "main" /\ pc' = pc /\ Now' = Now
    <3>1. left' # Now'.frames
      BY <2>6
    <3>2. Now'.do \notin {"sleep", "PREPARE"}
      BY <2>3, <2>6
    <3>3. ~(pc' <= 3) /\ pc' # 4
      BY <2>3, <2>6, <2>b, <2>2 DEF Placed
    <3> QED BY <2>1, <2>4, <2>6, <3>1, <3>2, <3>3 DEF StreamInv
  <2> QED BY <2>4, <2>5, <2>6
<1> QED BY <1>2, <1>3

LEMMA PlainStep ==
  ASSUME Control, StreamInv, phase = "main", Advance \/ Leave,
         Now.do \notin {"open_PCM", "PREPARE", "DROP"} \cup Writes, UNCHANGED pcm
  PROVE  StreamInv'
<1>1. stream' = stream /\ queue' = queue
  BY DEF pcm
<1>2. stream # "running" => queue = 0
  BY DEF StreamInv
<1>3. CASE Advance
  BY <1>1, <1>2, <1>3, AdvancedStream
<1>4. CASE Leave
  BY <1>1, <1>2, <1>4, OutsideStream DEF Leave
<1> QED BY <1>3, <1>4

LEMMA NextStream == ASSUME Control, Numbers, StreamInv, [Next]_vars PROVE StreamInv'
<1>0. stream # "running" => queue = 0
  BY DEF StreamInv
<1>1. CASE Wait
  BY <1>1, WaitStream
<1>2. CASE OpenGate
  <2>1. /\ UNCHANGED <<program, pc, left, kept, due, pcm>> /\ phase = "start"
        /\ pc = 1 /\ stream = "closed" /\ ~due
    BY <1>2 DEF OpenGate, Control, PlaceInv
  <2>2. Now' = Now /\ Starts(pc)' = Starts(pc) /\ ~Starts(pc)
    BY <2>1, Same, Stayed DEF Starts
  <2>3. Now.do = "SAFE"
    BY <2>1, ControlPlaced DEF Placed
  <2>4. pc' = 1 /\ stream' = "closed" /\ ~due' /\ queue' = 0
    BY <1>0, <2>1 DEF pcm
  <2> QED BY <2>2, <2>3, <2>4 DEF StreamInv
<1>3. CASE Safe
  BY <1>3, PlainStep DEF Safe, At, Writes
<1>4. CASE ArmMuted
  BY <1>4, PlainStep DEF ArmMuted, At, Writes
<1>5. CASE Unmute
  BY <1>5, PlainStep DEF Unmute, At, Writes
<1>6. CASE Keepalive
  <2>1. CASE amp.unmuted
    <3>1. /\ UNCHANGED <<program, phase, pc, left, pcm>> /\ due' = FALSE
      BY <1>6, <2>1 DEF Keepalive
    <3>2. Now' = Now /\ Starts(pc)' = Starts(pc) /\ stream' = stream /\ queue' = queue
      BY <3>1, Same, Stayed DEF pcm
    <3> QED BY <3>1, <3>2 DEF StreamInv
  <2>2. CASE ~amp.unmuted
    <3>1. phase' = "safe" /\ stream' = stream /\ queue' = queue
      BY <1>6, <2>2 DEF Keepalive, Leave, pcm
    <3> QED BY <1>0, <3>1, OutsideStream
  <2> QED BY <2>1, <2>2
<1>7. CASE CodecRequest
  <2>1. phase = "main" /\ Now.do \in Requests /\ (Advance \/ Leave) /\ UNCHANGED pcm
    BY <1>7 DEF CodecRequest, At, Requests
  <2> QED BY <2>1, PlainStep DEF Requests, Writes
<1>8. CASE OpenPcm
  <2>1. phase = "main" /\ Now.do = "open_PCM" /\ Advance /\ stream' = "open" /\ queue' = queue
    BY <1>8 DEF OpenPcm, At
  <2>2. stream = "closed"
    <3>1. Placed
      BY ControlPlaced
    <3>2. pc # Len(Script)
      BY <2>1, <3>1 DEF Placed
    <3>3. pc = 3
      BY <2>1, <3>1, <3>2, Names DEF Placed
    <3> QED BY <2>1, <3>3 DEF StreamInv
  <2> QED BY <1>0, <2>1, <2>2, AdvancedStream DEF Writes
<1>9. CASE Prepare
  <2>1. phase = "main" /\ Now.do = "PREPARE" /\ Advance /\ stream' = "prepared" /\ queue' = queue
    BY <1>9 DEF Prepare, At
  <2>2. stream # "running"
    BY <2>1 DEF StreamInv
  <2> QED BY <1>0, <2>1, <2>2, AdvancedStream DEF Writes
<1>10. CASE Drop
  <2>1. phase = "main" /\ Now.do = "DROP" /\ Advance /\ stream' = "stopped" /\ queue' = 0
    BY <1>10 DEF Drop, At
  <2> QED BY <2>1, AdvancedStream DEF Writes
<1>11. CASE Write
  BY <1>11, WriteStream
<1>12. CASE Sleep
  <2>1. phase = "main" /\ Now.do = "sleep" /\ Iterated /\ stream' = stream /\ queue' = queue
    BY <1>12 DEF Sleep, pcm
  <2>2. CASE left > Chunk
    <3>1. UNCHANGED <<program, phase, pc>> /\ due' = FALSE
      BY <2>1, <2>2 DEF Iterated
    <3>2. Now' = Now /\ Starts(pc)' = Starts(pc)
      BY <3>1, Same, Stayed
    <3>3. stream = "stopped"
      BY <2>1 DEF StreamInv
    <3>4. ~Starts(pc)
      <4>1. Placed
        BY ControlPlaced
      <4>2. pc # Len(Script)
        BY <2>1, <4>1 DEF Placed
      <4>3. pc = 9
        <5>1. Succ(pc, Now, Script[pc + 1])
          BY <4>1, <4>2 DEF Placed
        <5> QED BY <2>1, <5>1 DEF Succ
      <4> QED BY <4>3 DEF Starts
    <3> QED BY <2>1, <3>1, <3>2, <3>3, <3>4 DEF StreamInv
  <2>3. CASE ~(left > Chunk)
    BY <1>0, <2>1, <2>3, AdvancedStream DEF Iterated, Writes
  <2> QED BY <2>2, <2>3
<1>13. CASE CallFails
  <2>1. phase' = "safe" /\ stream' = stream /\ queue' = queue
    BY <1>13 DEF CallFails, Leave, pcm
  <2> QED BY <1>0, <2>1, OutsideStream
<1>14. CASE End
  <2>1. phase' # "main" /\ (queue' = 0 \/ (stream' = stream /\ queue' = queue))
    BY <1>14 DEF End, OutSafe, OutDrop, OutClose, Release, KilledRelease, KilledClose, Finish,
      StopStream, ForceSafe, r1_audio_safety_release, pcm
  <2> QED BY <1>0, <2>1, OutsideStream
<1>15. CASE Kill
  <2>1. phase' = "killed" /\ stream' = stream /\ queue' = queue
    BY <1>15 DEF Kill, pcm
  <2> QED BY <1>0, <2>1, OutsideStream
<1>16. CASE UNCHANGED vars
  <2>1. UNCHANGED <<program, phase, pc, left, kept, due, stream, queue>>
    BY <1>16 DEF vars, client, pcm
  <2>2. Now' = Now /\ Starts(pc)' = Starts(pc) /\ BUFFER' = BUFFER
    BY <2>1, Same, Stayed
  <2>3. AtWrite' = AtWrite /\ Chunk' = Chunk
    BY <2>1, <2>2 DEF AtWrite, AtKeepalive, Chunk
  <2> QED BY <2>1, <2>2, <2>3 DEF StreamInv
<1> QED BY <1>1, <1>2, <1>3, <1>4, <1>5, <1>6, <1>7, <1>8, <1>9, <1>10, <1>11, <1>12, <1>13, <1>14,
  <1>15, <1>16 DEF Next, Main

(* A step that leaves the stream alone, or stops it.                       *)
LEMMA QuietNumbers ==
  ASSUME Numbers, program' = program,
         lease' \in {lease, 0, ARM_LEASE, LIVE_LEASE},
         \/ queue' = queue /\ voiced' = voiced
         \/ queue' = 0 /\ voiced' = 0,
         faults' = faults \/ (\E K : Fails(K)), stalls' = stalls,
         stream' \in {"closed", "open", "prepared", "running", "xrun", "stopped"}
  PROVE  Numbers'
<1>1. BUFFER' = BUFFER /\ BUFFER \in Nat
  BY Same, BufferIs
<1>2. lease' \in 0..ARM_LEASE
  <2>1. ARM_LEASE \in 0..ARM_LEASE /\ LIVE_LEASE \in 0..ARM_LEASE /\ 0 \in 0..ARM_LEASE
    BY DEF ARM_LEASE, LIVE_LEASE
  <2>2. lease \in 0..ARM_LEASE
    BY DEF Numbers
  <2> QED BY <2>1, <2>2
<1>3. queue' \in 0..BUFFER /\ voiced' \in 0..queue'
  BY <1>1 DEF Numbers
<1>4. faults' \in 0..MaxFaults
  <2>1. faults \in 0..MaxFaults
    BY DEF Numbers
  <2>2. ASSUME NEW K, Fails(K) PROVE faults' \in 0..MaxFaults
    BY <2>1, <2>2, FailsBounds
  <2> QED BY <2>1, <2>2
<1>5. stalls' \in 0..MaxStalls
  BY DEF Numbers
<1> QED BY <1>1, <1>2, <1>3, <1>4, <1>5 DEF Numbers

LEMMA WaitNumbers == ASSUME Control, Numbers, Wait PROVE Numbers'
<1>1. Placed
  BY ControlPlaced
<1>2. program' = program
  BY DEF Wait
<1>3. BUFFER' = BUFFER /\ BUFFER \in Nat
  BY <1>2, Same, BufferIs
<1>4. PICK d \in Nat, K \in SUBSET Regulators : Elapse(Duration + d, K)
  BY TimesAssumption DEF Wait
<1>5. queue \in Nat /\ left \in Nat /\ voiced \in 0..queue /\ lease \in Nat
  BY <1>1, <1>3 DEF Numbers, Control, PlaceInv, Placed
<1>6. Now.do \in Loops => left >= 1
  BY DEF Control, PlaceInv
<1>7. Duration \in Nat /\ Duration + d \in Nat
  BY <1>1, <1>4, <1>5, <1>6, DurationIs
<1>8. PICK e \in Nat : e = Duration + d
  BY <1>7
<1>9. Elapse(e, K)
  BY <1>4, <1>8
<1>10. /\ lease' \in 0..lease
       /\ stream = "running" =>
              /\ queue > e => stream' = "running" /\ queue' = queue - e
              /\ queue <= e => stream' = "xrun" /\ queue' = 0 /\ voiced' = 0
              /\ voiced' \in 0..queue'
       /\ stream # "running" => stream' = stream /\ queue' = queue /\ voiced' = voiced
  BY <1>5, <1>9, Elapsed
<1>11. lease' \in 0..ARM_LEASE
  <2>1. lease \in 0..ARM_LEASE
    BY DEF Numbers
  <2>2. ARM_LEASE \in Nat
    BY DEF ARM_LEASE
  <2> QED BY <1>10, <2>1, <2>2
<1>12. queue' \in 0..queue /\ voiced' \in 0..queue'
  BY <1>5, <1>8, <1>10
<1>13. queue' \in 0..BUFFER
  BY <1>3, <1>12 DEF Numbers
<1>14. stream' \in {"closed", "open", "prepared", "running", "xrun", "stopped"}
  BY <1>5, <1>8, <1>10 DEF Numbers
<1>15. faults' \in 0..MaxFaults
  <2>1. faults \in 0..MaxFaults
    BY DEF Numbers
  <2>2. PICK L : Fails(L)
    BY DEF Wait
  <2> QED BY <2>1, <2>2, FailsBounds
<1>16. stalls' \in 0..MaxStalls
  <2>1. stalls' = stalls \/ (stalls < MaxStalls /\ stalls' = stalls + 1)
    BY DEF Wait
  <2> QED BY <2>1, BoundsAssumption DEF Numbers
<1> QED BY <1>3, <1>11, <1>12, <1>13, <1>14, <1>15, <1>16 DEF Numbers

LEMMA WriteNumbers == ASSUME Control, StreamInv, Numbers, Write PROVE Numbers'
<1>1. phase = "main" /\ Now.do \in Writes /\ due /\ AtWrite
  BY DEF Write, AtWrite, Loops, Writes
<1>2. program' = program /\ lease' = lease /\ faults' = faults /\ stalls' = stalls
  BY DEF Write, Leave, Iterated, Advance, gate
<1>3. BUFFER' = BUFFER /\ BUFFER \in Nat /\ BUFFER >= 4096
  BY <1>2, Same, BufferIs
<1>4. CASE stream = "xrun"
  <2>1. queue' = queue /\ voiced' = voiced /\ stream' = stream
    BY <1>4 DEF Write, pcm
  <2> QED BY <1>2, <1>4, <2>1, QuietNumbers
<1>5. CASE stream # "xrun"
  <2>1. /\ stream' = "running" /\ queue' = queue + Chunk
        /\ voiced' = IF Now.do = "tone" THEN queue + Chunk ELSE voiced
    BY <1>5 DEF Write
  <2>2. Chunk \in Nat /\ Chunk <= 1024
    BY <1>1, WritesAre
  <2>3. queue \in Nat /\ voiced \in 0..queue
    BY <1>3 DEF Numbers
  <2>4. queue + Chunk <= BUFFER
    <3>1. CASE stream = "running"
      BY <1>1, <3>1 DEF StreamInv
    <3>2. CASE stream # "running"
      <4>1. queue = 0
        BY <3>2 DEF StreamInv
      <4> QED BY <1>3, <2>2, <4>1
    <3> QED BY <3>1, <3>2
  <2>5. queue' \in 0..BUFFER' /\ voiced' \in 0..queue'
    BY <1>3, <2>1, <2>2, <2>3, <2>4
  <2> QED BY <1>2, <2>1, <2>5 DEF Numbers
<1> QED BY <1>4, <1>5

LEMMA NextNumbers == ASSUME Control, Numbers, StreamInv, [Next]_vars PROVE Numbers'
<1> DEFINE Streams == {"closed", "open", "prepared", "running", "xrun", "stopped"}
<1>0. stream \in Streams
  BY DEF Numbers
<1>1. CASE Wait
  BY <1>1, WaitNumbers
<1>2. CASE Write
  BY <1>2, WriteNumbers
<1>3. CASE OpenGate \/ Kill \/ UNCHANGED vars
  <2>1. /\ program' = program /\ UNCHANGED <<lease, queue, voiced, stream, stalls>>
        /\ faults' = faults \/ (\E K : Fails(K))
    BY <1>3 DEF OpenGate, Kill, vars, client, gate, pcm
  <2> QED BY <1>0, <2>1, QuietNumbers
<1>4. CASE Safe \/ ArmMuted \/ Unmute \/ Keepalive \/ CodecRequest \/ Sleep \/ CallFails
  <2>1. program' = program
    BY <1>4 DEF Safe, ArmMuted, Unmute, Keepalive, CodecRequest, Sleep, CallFails, Advance,
      Leave, Iterated
  <2>2. UNCHANGED <<queue, voiced, stream, stalls>>
    BY <1>4 DEF Safe, ArmMuted, Unmute, Keepalive, CodecRequest, Sleep, CallFails, pcm
  <2>3. lease' \in {lease, 0, ARM_LEASE, LIVE_LEASE}
    BY <1>4 DEF Safe, ArmMuted, Unmute, Keepalive, CodecRequest, Sleep, CallFails, gate
  <2>4. faults' = faults \/ (\E K : Fails(K))
    BY <1>4 DEF Safe, ArmMuted, Unmute, Keepalive, CodecRequest, Sleep, CallFails
  <2> QED BY <1>0, <2>1, <2>2, <2>3, <2>4, QuietNumbers
<1>5. CASE OpenPcm \/ Prepare \/ Drop
  <2>1. program' = program /\ UNCHANGED <<lease, stalls, faults>>
    BY <1>5 DEF OpenPcm, Prepare, Drop, Advance, gate
  <2>2. \/ queue' = queue /\ voiced' = voiced
        \/ queue' = 0 /\ voiced' = 0
    BY <1>5 DEF OpenPcm, Prepare, Drop
  <2>3. stream' \in Streams
    BY <1>5 DEF OpenPcm, Prepare, Drop
  <2> QED BY <2>1, <2>2, <2>3, QuietNumbers
<1>6. CASE End
  <2>1. program' = program /\ stalls' = stalls
    BY <1>6 DEF End, OutSafe, OutDrop, OutClose, Release, KilledRelease, KilledClose, Finish
  <2>2. CASE OutSafe \/ Release \/ KilledRelease
    <3>1. lease' = 0 /\ UNCHANGED <<queue, voiced, stream>> /\ \E K : Fails(K)
      BY <2>2 DEF OutSafe, Release, KilledRelease, r1_audio_safety_release, ForceSafe, pcm
    <3> QED BY <1>0, <2>1, <3>1, QuietNumbers
  <2>3. CASE OutDrop \/ OutClose \/ KilledClose
    <3>1. /\ lease' = lease /\ queue' = 0 /\ voiced' = 0 /\ faults' = faults
          /\ stream' \in {"closed", "stopped"}
      BY <2>3 DEF OutDrop, OutClose, KilledClose, StopStream, gate
    <3> QED BY <2>1, <3>1, QuietNumbers
  <2> QED BY <1>6, <2>2, <2>3 DEF End
<1> QED BY <1>1, <1>2, <1>3, <1>4, <1>5, <1>6 DEF Next, Main

LEMMA NextFlags == ASSUME Flags, [Next]_vars PROVE Flags'
<1>1. kept' \in BOOLEAN /\ due' \in BOOLEAN
  BY DEF Flags, Next, Wait, Main, OpenGate, Safe, ArmMuted, Unmute, Keepalive, CodecRequest,
    OpenPcm, Prepare, Drop, Write, Sleep, CallFails, Advance, Leave, Iterated, End, OutSafe, OutDrop,
    OutClose, Release, KilledRelease, KilledClose, Finish, Kill, vars, client
<1>2. cut' \in BOOLEAN
  BY DEF Flags, Next, Wait, Main, OpenGate, Safe, ArmMuted, Unmute, Keepalive, CodecRequest,
    OpenPcm, Prepare, Drop, Write, Sleep, CallFails, End, OutSafe, OutDrop, StopStream, ForceSafe,
    OutClose, Release, KilledRelease, KilledClose, r1_audio_safety_release, Kill, vars, Elapse
<1>3. amp' \in [enabled : BOOLEAN, unmuted : BOOLEAN]
  <2>1. \A K : Forced(K) \in [enabled : BOOLEAN, unmuted : BOOLEAN]
    BY ForcedTyped DEF Flags
  <2>2. [enabled |-> TRUE, unmuted |-> FALSE] \in [enabled : BOOLEAN, unmuted : BOOLEAN]
    OBVIOUS
  <2>3. [amp EXCEPT !.unmuted = TRUE] \in [enabled : BOOLEAN, unmuted : BOOLEAN]
    BY DEF Flags
  <2>4. \/ amp' = amp \/ (\E K : amp' = Forced(K)) \/ amp' = [enabled |-> TRUE, unmuted |-> FALSE]
        \/ amp' = [amp EXCEPT !.unmuted = TRUE]
    BY DEF Next, Wait, Main, OpenGate, Safe, ArmMuted, Unmute, Keepalive, CodecRequest,
      OpenPcm, Prepare, Drop, Write, Sleep, CallFails, End, OutSafe, OutDrop, StopStream, ForceSafe,
      OutClose, Release, KilledRelease, KilledClose, r1_audio_safety_release, Kill, vars, Elapse, gate
  <2> QED BY <2>1, <2>2, <2>3, <2>4 DEF Flags
<1>4. dac' \in {"on", "muted", "off", "hiz"} /\ volume' \in 0..2
  BY DEF Flags, Next, Wait, Main, OpenGate, Safe, ArmMuted, Unmute, Keepalive, CodecRequest,
    OpenPcm, Prepare, Drop, Write, Sleep, CallFails, End, OutSafe, OutDrop, StopStream, ForceSafe,
    OutClose, Release, KilledRelease, KilledClose, r1_audio_safety_release, Kill, vars, codec, Output,
    Volume
<1> QED BY <1>1, <1>2, <1>3, <1>4 DEF Flags

-----------------------------------------------------------------------------
(* The codec: CodecInv.                                                    *)

(* A step of main that leaves the codec as it is.                          *)
LEMMA SameCodec ==
  ASSUME Control, CodecInv, phase = "main", Advance \/ Leave, UNCHANGED codec,
         Now.do \notin Requests, pc # 4
  PROVE  CodecInv'
<1>1. Placed /\ pc \in 1..Len(Script)
  BY ControlPlaced DEF Control
<1>2. dac' = dac /\ volume' = volume
  BY DEF codec
<1>3. CASE Leave
  BY <1>3 DEF Leave, CodecInv
<1>4. CASE Advance
  <2>1. program' = program /\ (Moved \/ Passed)
    BY <1>1, <1>4, Advanced
  <2>2. CASE Passed
    BY <2>2 DEF Passed, CodecInv
  <2>3. CASE Moved
    <3>1. pc' = pc + 1 /\ pc # Len(Script) /\ pc \in Nat
      BY <1>1, <2>3 DEF Moved, Placed
    <3>2. OutputAt(pc)' = OutputAt(pc + 1) /\ VolumeAt(pc)' = VolumeAt(pc + 1)
      BY <2>1, <3>1, Same
    <3>3. CASE pc > 4
      <4>1. Codec(pc, Now.do)
        BY <1>1, <3>1, <3>3 DEF Placed
      <4>2. OutputAt(pc + 1) = OutputAt(pc) /\ VolumeAt(pc + 1) = VolumeAt(pc)
        BY <4>1 DEF Codec
      <4> QED BY <1>2, <3>2, <3>3, <4>2 DEF CodecInv
    <3>4. CASE pc < 4
      BY <3>1, <3>4 DEF CodecInv
    <3> QED BY <3>1, <3>3, <3>4
  <2> QED BY <2>1, <2>2, <2>3
<1> QED BY <1>3, <1>4

LEMMA RequestCodec == ASSUME Control, CodecInv, CodecRequest PROVE CodecInv'
<1>1. Placed /\ pc \in 1..Len(Script)
  BY ControlPlaced DEF Control
<1>2. phase = "main" /\ Now.do \in Requests
  BY DEF CodecRequest, At, Requests
<1>3. CASE Leave
  BY <1>3 DEF Leave, CodecInv
<1>4. CASE ~Leave
  <2>1. Advance
    BY <1>4 DEF CodecRequest
  <2>2. program' = program /\ (Moved \/ Passed)
    BY <1>1, <1>2, <2>1, Advanced
  <2>3. CASE Passed
    BY <2>3 DEF Passed, CodecInv
  <2>4. CASE Moved
    <3>1. pc' = pc + 1 /\ pc # Len(Script) /\ pc \in Nat
      BY <1>1, <2>4 DEF Moved, Placed
    <3>2. OutputAt(pc)' = OutputAt(pc + 1) /\ VolumeAt(pc)' = VolumeAt(pc + 1)
      BY <2>2, <3>1, Same
    <3>3. pc > 4
      <4>1. pc # 1 /\ pc # 2 /\ pc # 3 /\ pc # 4
        BY <1>1, <1>2 DEF Placed, Requests
      <4> QED BY <3>1, <1>1, <4>1
    <3>4. Codec(pc, Now.do)
      BY <1>1, <3>1, <3>3 DEF Placed
    <3>5. dac = OutputAt(pc) /\ volume = VolumeAt(pc)
      BY <1>2, <3>3 DEF CodecInv
    <3>a. dac' = Output(Now.do) /\ volume' = Volume(Now.do) /\ Permitted(Now.do)
      BY <1>4 DEF CodecRequest
    <3>6. \/ Now.do = "DAC_MUTE" /\ dac' = "muted" /\ volume' = volume
          \/ Now.do = "DAC_UNMUTE" /\ dac' = "on" /\ volume' = volume
          \/ Now.do = "DAC_ANALOG_OFF" /\ dac' = "off" /\ volume' = volume
          \/ Now.do = "LINEOUT_HIZ" /\ dac' = "hiz" /\ volume' = volume
          \/ Now.do = "MINUS14DB" /\ dac' = dac /\ volume' = 1
          \/ Now.do = "MINUS28DB" /\ dac' = dac /\ volume' = 2
      BY <1>2, <3>a DEF Output, Volume, Permitted, Requests
    <3>7. dac' = OutputAt(pc + 1) /\ volume' = VolumeAt(pc + 1)
      BY <3>4, <3>5, <3>6 DEF Codec
    <3> QED BY <3>2, <3>7 DEF CodecInv
  <2> QED BY <2>2, <2>3, <2>4
<1> QED BY <1>3, <1>4

LEMMA PrepareCodec == ASSUME Control, StreamInv, CodecInv, Prepare PROVE CodecInv'
<1>1. Placed /\ pc \in 1..Len(Script)
  BY ControlPlaced DEF Control
<1>2. phase = "main" /\ Now.do = "PREPARE" /\ Advance
  BY DEF Prepare, At
<1>3. CASE pc = 4
  <2>1. dac' = "on" /\ volume' = 0
    BY <1>2, <1>3 DEF Prepare, StreamInv
  <2>2. program' = program /\ (Moved \/ Passed)
    BY <1>1, <1>2, Advanced
  <2>3. CASE Passed
    BY <2>3 DEF Passed, CodecInv
  <2>4. CASE Moved
    <3>1. pc' = 5
      BY <1>3, <2>4 DEF Moved
    <3>2. OutputAt(5) = "on" /\ VolumeAt(5) = 0
      BY DEF OutputAt, VolumeAt
    <3>3. OutputAt(pc)' = "on" /\ VolumeAt(pc)' = 0
      BY <2>2, <3>1, <3>2, Same
    <3> QED BY <2>1, <3>3 DEF CodecInv
  <2> QED BY <2>2, <2>3, <2>4
<1>4. CASE pc # 4
  <2>1. UNCHANGED codec
    BY <1>2, <1>4 DEF Prepare, StreamInv
  <2> QED BY <1>2, <1>4, <2>1, SameCodec DEF Requests
<1> QED BY <1>3, <1>4

LEMMA NextCodec == ASSUME Control, StreamInv, CodecInv, [Next]_vars PROVE CodecInv'
<1>1. Placed /\ pc \in 1..Len(Script)
  BY ControlPlaced DEF Control
<1>a. pc = 4 => Now.do = "PREPARE"
  BY <1>1 DEF Placed
<1>2. CASE Wait \/ Keepalive \/ UNCHANGED vars
  <2>1. /\ UNCHANGED <<program, pc>> /\ UNCHANGED codec /\ phase' \in {phase, "safe"}
    BY <1>2 DEF Wait, Keepalive, Leave, vars, client
  <2>2. OutputAt(pc)' = OutputAt(pc) /\ VolumeAt(pc)' = VolumeAt(pc)
    BY <2>1, Same
  <2> QED BY <2>1, <2>2 DEF CodecInv, codec
<1>3. CASE OpenGate
  <2>1. pc' = 1
    BY <1>3 DEF OpenGate, Control, PlaceInv
  <2> QED BY <2>1 DEF CodecInv
<1>4. CASE Safe \/ ArmMuted \/ Unmute \/ OpenPcm \/ Drop \/ CallFails
  <2>1. phase = "main" /\ (Advance \/ Leave) /\ UNCHANGED codec
    BY <1>4 DEF Safe, ArmMuted, Unmute, OpenPcm, Drop, CallFails, At
  <2>2. CASE Leave
    BY <2>2 DEF Leave, CodecInv
  <2>3. CASE ~Leave
    <3>1. Now.do \in {"SAFE", "ARM_MUTED", "UNMUTE", "open_PCM", "DROP"}
      BY <1>4, <2>3 DEF Safe, ArmMuted, Unmute, OpenPcm, Drop, CallFails, At
    <3>2. Now.do \notin Requests /\ pc # 4
      BY <1>a, <3>1 DEF Requests
    <3> QED BY <2>1, <3>2, SameCodec
  <2> QED BY <2>2, <2>3
<1>5. CASE CodecRequest
  BY <1>5, RequestCodec
<1>6. CASE Prepare
  BY <1>6, PrepareCodec
<1>7. CASE Write \/ Sleep
  <2>1. phase = "main" /\ (Iterated \/ Leave) /\ UNCHANGED codec /\ Now.do \in Loops
    BY <1>7 DEF Write, Sleep, AtWrite, Loops
  <2>2. CASE Iterated /\ left > Chunk
    <3>1. UNCHANGED <<program, phase, pc>>
      BY <2>2 DEF Iterated
    <3>2. OutputAt(pc)' = OutputAt(pc) /\ VolumeAt(pc)' = VolumeAt(pc)
      BY <3>1, Same
    <3> QED BY <2>1, <3>1, <3>2 DEF CodecInv, codec
  <2>3. CASE (Iterated /\ ~(left > Chunk)) \/ Leave
    <3>1. Advance \/ Leave
      BY <2>3 DEF Iterated
    <3>2. Now.do \notin Requests /\ pc # 4
      BY <1>a, <2>1 DEF Requests, Loops
    <3> QED BY <2>1, <3>1, <3>2, SameCodec
  <2> QED BY <2>1, <2>2, <2>3
<1>8. CASE End \/ Kill
  <2>1. phase' # "main"
    BY <1>8 DEF End, OutSafe, OutDrop, OutClose, Release, KilledRelease, KilledClose, Finish, Kill
  <2> QED BY <2>1 DEF CodecInv
<1> QED BY <1>2, <1>3, <1>4, <1>5, <1>6, <1>7, <1>8 DEF Next, Main

-----------------------------------------------------------------------------
(* The amplifier and its lease: LiveInv.                                   *)

(* The amplifier plays, and the lease outlives the queue.                  *)
Live == Audible(amp) /\ lease >= queue + 6592 /\ (kept => lease >= queue + 7616)

LEMMA LiveIs ==
  ASSUME LiveInv, phase = "main", Now.do \in LiveSteps, stream = "running",
         program # "i2s_clock_ab"
  PROVE  Live
BY DEF LiveInv, Live

LEMMA LiveNext ==
  ASSUME program' = program,
         phase' = "main" /\ Now'.do \in LiveSteps /\ stream' = "running"
           /\ program # "i2s_clock_ab" => Live'
  PROVE  LiveInv'
BY DEF LiveInv, Live

LEMMA Renewed ==
  ASSUME Numbers, lease' = LIVE_LEASE, queue' = queue, Audible(amp') PROVE Live'
<1>1. queue \in 0..BUFFER
  BY DEF Numbers
<1>2. queue \in Nat /\ queue <= 16384
  BY <1>1, BufferIs
<1>3. lease' = 24000
  BY DEF LIVE_LEASE
<1>4. Audible(amp)'
  BY DEF Audible
<1> QED BY <1>2, <1>3, <1>4 DEF Live

LEMMA WaitLive == ASSUME Control, Numbers, LiveInv, Wait PROVE LiveInv'
<1>1. Placed
  BY ControlPlaced
<1>2. UNCHANGED <<program, phase, pc, left, kept>> /\ phase = "main"
  BY DEF Wait
<1>3. Now' = Now /\ BUFFER \in Nat
  BY <1>2, Stayed, BufferIs
<1>4. PICK d \in Nat, K \in SUBSET Regulators : Elapse(Duration + d, K)
  BY TimesAssumption DEF Wait
<1>5. queue \in Nat /\ left \in Nat /\ voiced \in 0..queue /\ lease \in Nat
  BY <1>1, <1>3 DEF Numbers, Control, PlaceInv, Placed
<1>6. Now.do \in Loops => left >= 1
  BY DEF Control, PlaceInv
<1>7. Duration \in Nat /\ Duration + d \in Nat
  BY <1>1, <1>4, <1>5, <1>6, DurationIs
<1>8. PICK e \in Nat : e = Duration + d
  BY <1>7
<1>9. Elapse(e, K)
  BY <1>4, <1>8
<1>10. /\ lease > e => lease' = lease - e /\ amp' = amp
       /\ stream = "running" =>
              /\ queue > e => stream' = "running" /\ queue' = queue - e
              /\ queue <= e => stream' = "xrun" /\ queue' = 0 /\ voiced' = 0
       /\ stream # "running" => stream' = stream
  BY <1>5, <1>9, Elapsed
<1>11. SUFFICES ASSUME phase' = "main", Now'.do \in LiveSteps, stream' = "running",
                       program # "i2s_clock_ab"
                PROVE  Live'
  BY <1>2, LiveNext
<1>12. stream = "running" /\ queue > e /\ queue' = queue - e
  BY <1>5, <1>8, <1>10, <1>11
<1>13. Live
  BY <1>2, <1>3, <1>11, <1>12, LiveIs
<1>14. lease >= queue + 6592
  BY <1>13 DEF Live
<1>15. lease' = lease - e /\ amp' = amp
  BY <1>5, <1>8, <1>10, <1>12, <1>14
<1>16. Audible(amp)'
  BY <1>13, <1>15 DEF Live, Audible
<1>17. lease' >= queue' + 6592
  BY <1>5, <1>8, <1>12, <1>14, <1>15
<1>18. kept' => lease' >= queue' + 7616
  <2>1. kept => lease >= queue + 7616
    BY <1>13 DEF Live
  <2>2. CASE kept
    BY <1>5, <1>8, <1>12, <1>15, <2>1, <2>2
  <2> QED BY <1>2, <2>2
<1> QED BY <1>16, <1>17, <1>18 DEF Live

LEMMA WriteLive == ASSUME Control, Numbers, StreamInv, LiveInv, Write PROVE LiveInv'
<1>1. /\ phase = "main" /\ AtWrite /\ Now.do \in Writes /\ Now.do \in Loops
      /\ amp' = amp /\ lease' = lease
  BY DEF Write, AtWrite, Loops, Writes, gate
<1>2. CASE stream = "xrun"
  BY <1>2 DEF Write, Leave, LiveInv
<1>3. CASE stream # "xrun"
  <2>1. Iterated /\ queue' = queue + Chunk
    BY <1>3 DEF Write
  <2>2. Placed /\ pc \in 1..Len(Script) /\ result \in {0, 1}
    BY ControlPlaced DEF Control
  <2>3. /\ pc > 4 /\ left >= 1 /\ left \in Nat /\ left <= Now.frames /\ pc # Len(Script)
        /\ Chunk \in Nat /\ Chunk <= 1024
    BY <1>1, WritesAre
  <2>4. left \in 1..Now.frames
    BY <2>2, <2>3 DEF Placed
  <2>5. /\ program' = program /\ kept' = FALSE
        /\ Moved \/ (pc' = pc /\ Now' = Now)
    BY <1>1, <2>1, <2>2, <2>4, IteratedLeft
  <2>6. SUFFICES ASSUME phase' = "main", Now'.do \in LiveSteps, stream' = "running",
                        program # "i2s_clock_ab"
                 PROVE  Live'
    BY <2>5, LiveNext
  <2>7. Now.do # "unkept_zeros"
    <3>1. CASE Moved
      <4>1. Succ(pc, Now, Now') /\ Now \in Steps /\ Now' \in Steps
        BY <2>2, <2>3, <3>1 DEF Moved, Placed
      <4>2. Now.do = "unkept_zeros" => Now'.do = "UNMUTE"
        BY <4>1, Names
      <4>3. Now'.do # "UNMUTE"
        BY <2>6 DEF LiveSteps, Requests
      <4> QED BY <4>2, <4>3
    <3>2. CASE Now' = Now
      BY <2>6, <3>2 DEF LiveSteps, Requests
    <3> QED BY <2>5, <3>1, <3>2
  <2>8. Now.do \in LiveSteps /\ kept
    BY <1>1, <2>7 DEF AtWrite, AtKeepalive, Loops, Writes, LiveSteps
  <2>9. stream = "running"
    <3>1. ~Starts(pc)
      <4>1. pc # 5
        BY <2>2, <2>7, LoopTyped DEF Placed
      <4> QED BY <2>6, <4>1 DEF Starts
    <3>2. Now.do \notin {"sleep", "PREPARE"}
      BY <1>1 DEF Writes
    <3> QED BY <1>1, <1>3, <2>3, <3>1, <3>2 DEF StreamInv
  <2>10. Live
    BY <1>1, <2>6, <2>8, <2>9, LiveIs
  <2>11. lease >= queue + 7616
    BY <2>8, <2>10 DEF Live
  <2>12. lease' >= queue' + 6592
    <3>1. queue \in Nat /\ lease \in Nat
      BY BufferIs DEF Numbers
    <3> QED BY <1>1, <2>1, <2>3, <2>11, <3>1
  <2>13. Audible(amp)'
    BY <1>1, <2>10 DEF Live, Audible
  <2> QED BY <2>5, <2>12, <2>13 DEF Live
<1> QED BY <1>2, <1>3

LEMMA NextLive ==
  ASSUME Control, Numbers, Flags, StreamInv, LiveInv, [Next]_vars PROVE LiveInv'
<1>1. Placed /\ pc \in 1..Len(Script)
  BY ControlPlaced DEF Control
<1>2. CASE Wait
  BY <1>2, WaitLive
<1>3. CASE Write
  BY <1>3, WriteLive
<1>4. CASE phase' # "main" \/ stream' # "running"
  BY <1>4 DEF LiveInv
<1>5. CASE OpenGate
  <2>1. stream' # "running"
    BY <1>5 DEF OpenGate, Control, PlaceInv, pcm
  <2> QED BY <1>4, <2>1
<1>6. CASE Safe \/ ArmMuted
  <2>1. phase = "main" /\ (Advance \/ Leave) /\ Now.do \in {"SAFE", "ARM_MUTED"}
    BY <1>6 DEF Safe, ArmMuted, At
  <2>2. CASE Leave
    BY <1>4, <2>2 DEF Leave
  <2>3. CASE Advance
    <3>1. program' = program /\ (Moved \/ Passed)
      BY <1>1, <2>1, <2>3, Advanced
    <3>2. CASE Passed
      BY <1>4, <3>2 DEF Passed
    <3>3. CASE Moved
      <4>1. Succ(pc, Now, Now') /\ Now \in Steps /\ Now' \in Steps
        BY <1>1, <3>3 DEF Moved, Placed
      <4>2. Now'.do \in {"ARM_MUTED", "open_PCM", "unkept_zeros"}
        BY <2>1, <4>1, Names
      <4>3. Now'.do \notin LiveSteps
        BY <4>2 DEF LiveSteps, Requests
      <4> QED BY <3>1, <4>3, LiveNext
    <3> QED BY <3>1, <3>2, <3>3
  <2> QED BY <2>1, <2>2, <2>3
<1>7. CASE Unmute
  <2>1. CASE Leave
    BY <1>4, <2>1 DEF Leave
  <2>2. CASE ~Leave
    <3>1. /\ amp.enabled /\ amp' = [amp EXCEPT !.unmuted = TRUE] /\ lease' = LIVE_LEASE
          /\ queue' = queue /\ program' = program
      BY <1>7, <2>2 DEF Unmute, pcm, Advance
    <3>2. Audible(amp')
      BY <3>1 DEF Flags, Audible
    <3>3. Live'
      BY <3>1, <3>2, Renewed
    <3> QED BY <3>1, <3>3, LiveNext
  <2> QED BY <2>1, <2>2
<1>8. CASE Keepalive
  <2>1. CASE Leave
    BY <1>4, <2>1 DEF Leave
  <2>2. CASE ~Leave
    <3>1. /\ UNCHANGED <<program, phase, pc, queue, stream, amp>> /\ lease' = LIVE_LEASE
          /\ phase = "main" /\ Now.do \in Loops \ {"unkept_zeros"}
      BY <1>8, <2>2 DEF Keepalive, pcm, AtKeepalive
    <3>2. Now.do \in LiveSteps
      BY <3>1 DEF Loops, LiveSteps
    <3>3. ASSUME stream = "running", program # "i2s_clock_ab" PROVE Live'
      <4>1. Audible(amp)
        BY <3>1, <3>2, <3>3, LiveIs DEF Live
      <4> QED BY <3>1, <4>1, Renewed
    <3> QED BY <3>1, <3>3, LiveNext
  <2> QED BY <2>1, <2>2
<1>9. CASE CodecRequest
  <2>1. CASE Leave
    BY <1>4, <2>1 DEF Leave
  <2>2. CASE ~Leave
    <3>1. /\ program' = program /\ queue' = queue /\ stream' = stream /\ amp' = amp
          /\ lease' = LIVE_LEASE /\ phase = "main"
      BY <1>9, <2>2 DEF CodecRequest, At, pcm, Advance
    <3>2. Now.do \in LiveSteps
      BY <1>9 DEF CodecRequest, At, LiveSteps, Requests
    <3>3. ASSUME stream = "running", program # "i2s_clock_ab" PROVE Live'
      <4>1. Audible(amp)
        BY <3>1, <3>2, <3>3, LiveIs DEF Live
      <4> QED BY <3>1, <4>1, Renewed
    <3> QED BY <3>1, <3>3, LiveNext
  <2> QED BY <2>1, <2>2
<1>10. CASE OpenPcm \/ Prepare \/ Drop
  BY <1>4, <1>10 DEF OpenPcm, Prepare, Drop
<1>11. CASE Sleep
  <2>1. stream' # "running"
    BY <1>11 DEF Sleep, StreamInv, pcm
  <2> QED BY <1>4, <2>1
<1>12. CASE CallFails \/ End \/ Kill
  <2>1. phase' # "main"
    BY <1>12 DEF CallFails, Leave, End, OutSafe, OutDrop, OutClose, Release, KilledRelease,
      KilledClose, Finish, Kill
  <2> QED BY <1>4, <2>1
<1>13. CASE UNCHANGED vars
  <2>1. UNCHANGED <<program, phase, pc, kept, amp, lease, stream, queue>>
    BY <1>13 DEF vars, client, gate, pcm
  <2>2. Now' = Now
    BY <2>1, Stayed
  <2> QED BY <2>1, <2>2 DEF LiveInv, Audible
<1> QED BY <1>2, <1>3, <1>5, <1>6, <1>7, <1>8, <1>9, <1>10, <1>11, <1>12, <1>13 DEF Next, Main

-----------------------------------------------------------------------------
(* While a tone is queued, the codec plays.                                *)
LEMMA ToneHeard ==
  ASSUME Control, CodecInv, phase = "main", Voices, voiced # 0, program \notin Exempt
  PROVE  Now.do \in {"tone", "zeros"} /\ dac = "on" /\ pc # Len(Script) /\ pc > 4
<1>1. Placed /\ pc \in 1..Len(Script)
  BY ControlPlaced DEF Control
<1>2. Now.do \in {"tone", "zeros"}
  BY DEF Voices
<1>3. pc # Len(Script)
  BY <1>1, <1>2 DEF Placed
<1>4. Succ(pc, Now, Script[pc + 1])
  BY <1>1, <1>3 DEF Placed
<1>5. pc >= 7
  BY <1>2, <1>4 DEF Succ
<1>6. OutputAt(pc) = "on"
  <2>1. CASE Now.do = "tone"
    BY <1>4, <2>1 DEF Succ
  <2>2. CASE Now.do # "tone"
    <3>1. pc - 1 > 4 /\ (pc - 1) + 1 = pc /\ pc > 5 /\ pc > 1
      BY <1>1, <1>5 DEF Placed
    <3>2. PICK j : j = pc - 1
      OBVIOUS
    <3>3. Succ(j, Script[j], Now) /\ Codec(j, Script[j].do) /\ j + 1 = pc
      BY <1>1, <3>1, <3>2 DEF Placed
    <3>4. Script[j].do = "tone"
      BY <2>2, <3>2 DEF Voices
    <3>5. OutputAt(j) = "on"
      BY <3>3, <3>4 DEF Succ
    <3>6. OutputAt(j + 1) = OutputAt(j)
      BY <3>3, <3>4 DEF Codec, Requests
    <3> QED BY <3>3, <3>5, <3>6
  <2> QED BY <2>1, <2>2
<1>7. pc > 4
  BY <1>1, <1>5 DEF Placed
<1>8. dac = OutputAt(pc)
  BY <1>7 DEF CodecInv
<1> QED BY <1>2, <1>3, <1>6, <1>7, <1>8

-----------------------------------------------------------------------------
(* The tone: ToneInv.                                                      *)

(* A step that ends the run of main without success.                       *)
LEMMA LeftTone ==
  ASSUME Control, ToneInv, phase = "main", program' = program, phase' # "main", phase' # "start",
         result' = result, program = "i2s_clock_ab" => voiced' = 0
  PROVE  ToneInv'
<1>1. result = 1
  BY DEF Control, PlaceInv
<1> QED BY <1>1 DEF ToneInv

(* A call that does not touch the queue, or drops what is in it.           *)
LEMMA CalledTone ==
  ASSUME Control, ToneInv, phase = "main", Advance, Now.do \notin {"tone", "zeros"},
         voiced' \in {voiced, 0}, cut' = (cut \/ voiced > 0) \/ cut' = cut
  PROVE  ToneInv'
<1>1. Placed /\ pc \in 1..Len(Script)
  BY ControlPlaced DEF Control
<1>2. program' = program /\ (Moved \/ Passed)
  BY <1>1, Advanced
<1>3. program = "i2s_clock_ab" => voiced' = 0
  BY DEF ToneInv
<1>4. program \notin Exempt => voiced = 0 /\ ~cut
  BY DEF ToneInv, Voices
<1>5. program \notin Exempt => voiced' = 0 /\ ~cut'
  <2>1. voiced = 0 => ~(voiced > 0)
    OBVIOUS
  <2>2. program \notin Exempt => ~cut'
    BY <1>4, <2>1, Zenon
  <2> QED BY <1>4, <2>2
<1>6. phase' # "start"
  BY <1>2 DEF Moved, Passed
<1>7. program \notin Exempt => Voices'
  BY <1>5 DEF Voices
<1> QED BY <1>2, <1>3, <1>5, <1>7 DEF ToneInv

LEMMA WaitTone ==
  ASSUME Control, Numbers, StreamInv, CodecInv, LiveInv, ToneInv, Wait PROVE ToneInv'
<1>1. Placed /\ pc \in 1..Len(Script)
  BY ControlPlaced DEF Control
<1>2. UNCHANGED <<program, phase, pc, left, kept, result>> /\ phase = "main"
  BY DEF Wait
<1>3. Now' = Now /\ BUFFER \in Nat /\ Script' = Script
  BY <1>2, Stayed, BufferIs
<1>4. PICK d \in Nat, K \in SUBSET Regulators : Elapse(Duration + d, K)
  BY TimesAssumption DEF Wait
<1>5. queue \in Nat /\ left \in Nat /\ voiced \in 0..queue /\ lease \in Nat
  BY <1>1, <1>3 DEF Numbers, Control, PlaceInv, Placed
<1>6. Now.do \in Loops => left >= 1
  BY DEF Control, PlaceInv
<1>7. Duration \in Nat /\ Duration + d \in Nat
  BY <1>1, <1>4, <1>5, <1>6, DurationIs
<1>8. PICK e \in Nat : e = Duration + d
  BY <1>7
<1>9. Elapse(e, K)
  BY <1>4, <1>8
<1>10. /\ stream = "running" =>
              /\ queue > e => stream' = "running" /\ queue' = queue - e
              /\ queue <= e => stream' = "xrun" /\ queue' = 0 /\ voiced' = 0
              /\ voiced' = (IF voiced > e THEN voiced - e ELSE 0)
       /\ stream # "running" => stream' = stream /\ queue' = queue /\ voiced' = voiced
  BY <1>5, <1>9, Elapsed
<1>11. voiced = 0 => voiced' = 0
  BY <1>5, <1>8, <1>10
<1>12. program = "i2s_clock_ab" => voiced' = 0
  BY <1>11 DEF ToneInv
<1>13. ASSUME program \notin Exempt PROVE ~cut'
  <2>1. ~cut /\ Voices
    BY <1>2, <1>13 DEF ToneInv
  <2>2. ~cut /\ cut' => stream = "running" /\ voiced > 0 /\ (~Heard \/ voiced > lease)
    BY <1>5, <1>9, ElapsedCut
  <2>3. SUFFICES ASSUME stream = "running", voiced > 0 PROVE Heard /\ ~(voiced > lease)
    BY <2>1, <2>2
  <2>4. Now.do \in {"tone", "zeros"} /\ dac = "on"
    BY <1>2, <1>5, <1>13, <2>1, <2>3, ToneHeard
  <2>5. program # "i2s_clock_ab"
    BY <1>5, <2>3 DEF ToneInv
  <2>6. Live
    BY <1>2, <2>3, <2>4, <2>5, LiveIs DEF LiveSteps
  <2>7. Audible(amp) /\ lease >= queue + 6592
    BY <2>6 DEF Live
  <2>8. ~(voiced > lease)
    BY <1>5, <2>7
  <2> QED BY <2>4, <2>7, <2>8 DEF Heard
<1>14. ASSUME program \notin Exempt PROVE Voices'
  <2>1. Voices
    BY <1>2, <1>14 DEF ToneInv
  <2>2. Now.frames \in Nat /\ left <= Now.frames
    BY <1>1 DEF Placed, Control, PlaceInv
  <2>3. voiced' = 0 \/ voiced' + (Now.frames - left) <= queue'
        \/ ~(voiced + (Now.frames - left) <= queue)
    BY <1>5, <1>8, <1>10, <2>2
  <2> QED BY <1>2, <1>3, <1>11, <2>1, <2>3 DEF Voices
<1> QED BY <1>2, <1>12, <1>13, <1>14 DEF ToneInv

LEMMA WriteTone == ASSUME Control, Numbers, StreamInv, ToneInv, Write PROVE ToneInv'
<1>1. /\ phase = "main" /\ AtWrite /\ Now.do \in Writes /\ Now.do \in Loops /\ cut' = cut /\ due
  BY DEF Write, AtWrite, Loops, Writes
<1>2. CASE stream = "xrun"
  <2>1. Leave /\ voiced' = voiced
    BY <1>2 DEF Write, pcm
  <2> QED BY <1>1, <2>1, LeftTone DEF Leave, ToneInv
<1>3. CASE stream # "xrun"
  <2>1. /\ Iterated /\ queue' = queue + Chunk
        /\ voiced' = IF Now.do = "tone" THEN queue + Chunk ELSE voiced
    BY <1>3 DEF Write
  <2>2. Placed /\ pc \in 1..Len(Script) /\ result \in {0, 1}
    BY ControlPlaced DEF Control
  <2>3. /\ pc > 4 /\ left >= 1 /\ left \in Nat /\ left <= Now.frames /\ pc # Len(Script)
        /\ Chunk \in Nat /\ Chunk <= 1024 /\ Chunk <= left
    BY <1>1, WritesAre
  <2>4. left \in 1..Now.frames /\ Now.frames \in Nat
    BY <2>2, <2>3 DEF Placed
  <2>5. /\ program' = program /\ Script' = Script
        /\ \/ Moved /\ left <= Chunk
           \/ left' = left - Chunk /\ phase' = "main" /\ pc' = pc /\ Now' = Now /\ result' = result
    BY <1>1, <2>1, <2>2, <2>4, IteratedLeft
  <2>6. phase' = "main"
    BY <2>5 DEF Moved
  <2>7. program = "i2s_clock_ab" => voiced' = 0
    <3>1. Succ(pc, Now, Script[pc + 1])
      BY <2>2, <2>3 DEF Placed
    <3>2. Now.do = "tone" => program # "i2s_clock_ab"
      BY <3>1 DEF Succ
    <3> QED BY <2>1, <3>2 DEF ToneInv
  <2>8. program \notin Exempt => ~cut'
    BY <1>1 DEF ToneInv
  <2>9. ASSUME program \notin Exempt PROVE Voices'
    <3>1. Voices
      BY <1>1, <2>9 DEF ToneInv
    <3>2. queue \in Nat /\ voiced \in 0..queue
      BY BufferIs DEF Numbers
    <3>3. CASE left' = left - Chunk /\ pc' = pc /\ Now' = Now
      <4>1. CASE Now.do = "tone" \/ voiced' = 0
        BY <3>3, <4>1 DEF Voices
      <4>2. CASE Now.do # "tone" /\ voiced' # 0
        <5>1. voiced' = voiced
          BY <2>1, <4>2
        <5>2. /\ Now.do = "zeros" /\ pc > 1 /\ Script[pc - 1].do = "tone"
              /\ voiced + (Now.frames - left) <= queue
          BY <3>1, <4>2, <5>1 DEF Voices
        <5>3. voiced' + (Now.frames - left') <= queue'
          BY <2>1, <2>3, <2>4, <3>2, <3>3, <5>1, <5>2
        <5> QED BY <2>5, <3>3, <5>2, <5>3 DEF Voices
      <4> QED BY <4>1, <4>2
    <3>4. CASE Moved /\ left <= Chunk
      <4>1. /\ Succ(pc, Now, Now') /\ Now \in Steps /\ Now' \in Steps /\ pc' = pc + 1
            /\ left' = Now'.frames /\ Chunk = left
        BY <2>2, <2>3, <3>4 DEF Moved, Placed
      <4>2. CASE Now.do = "tone"
        <5>1. Now' \in {Window, Gap, Postroll}
          BY <2>9, <4>1, <4>2 DEF Succ
        <5>2. Now'.do = "zeros" /\ Now'.frames \in Nat
          BY <5>1, LoopTyped
        <5>3. voiced' = queue' /\ queue' \in Nat
          BY <2>1, <2>3, <3>2, <4>2
        <5>4. voiced' + (Now'.frames - left') <= queue'
          BY <4>1, <5>2, <5>3
        <5>5. pc' > 1 /\ pc' - 1 = pc
          BY <2>2, <2>3, <4>1 DEF Placed
        <5>6. Script'[pc' - 1].do = "tone"
          BY <2>5, <4>2, <5>5 DEF Now
        <5> QED BY <5>2, <5>4, <5>5, <5>6 DEF Voices
      <4>3. CASE Now.do # "tone" /\ voiced # 0
        <5>1. /\ Now.do = "zeros" /\ pc > 1 /\ Script[pc - 1].do = "tone"
              /\ voiced + (Now.frames - left) <= queue
          BY <3>1, <4>3 DEF Voices
        <5>2. Now \in {Window, Gap} \/ (Now = Postroll /\ program # "lineout_selfcheck")
          <6>1. PICK j : j = pc - 1
            OBVIOUS
          <6>2. Succ(j, Script[j], Now) /\ Script[j].do = "tone"
            BY <2>2, <5>1, <6>1 DEF Placed
          <6> QED BY <2>9, <6>2 DEF Succ
        <5>3. Now.frames >= BUFFER
          BY <5>2, LoopTyped, BufferIs
        <5>4. queue + Chunk <= BUFFER
          <6>1. CASE stream = "running"
            BY <1>1, <6>1 DEF StreamInv
          <6>2. CASE stream # "running"
            BY <3>2, <4>3, <6>2 DEF StreamInv
          <6> QED BY <6>1, <6>2
        <5>5. FALSE
          BY <2>3, <2>4, <3>2, <4>1, <4>3, <5>1, <5>3, <5>4, BufferIs
        <5> QED BY <5>5
      <4>4. CASE Now.do # "tone" /\ voiced = 0
        BY <2>1, <4>4 DEF Voices
      <4> QED BY <4>2, <4>3, <4>4
    <3> QED BY <2>5, <3>3, <3>4
  <2> QED BY <2>5, <2>6, <2>7, <2>8, <2>9 DEF ToneInv
<1> QED BY <1>2, <1>3
LEMMA NextTone ==
  ASSUME Control, Numbers, StreamInv, CodecInv, LiveInv, ToneInv, [Next]_vars PROVE ToneInv'
<1>1. Placed
  BY ControlPlaced
<1>2. CASE Wait
  BY <1>2, WaitTone
<1>3. CASE Write
  BY <1>3, WriteTone
<1>4. CASE Main /\ phase = "main" /\ Leave /\ voiced' = voiced
  BY <1>4, LeftTone DEF Leave, ToneInv
<1>5. CASE OpenGate
  <2>1. /\ phase = "start" /\ phase' \in {"main", "exited"} /\ UNCHANGED <<program, cut, voiced>>
        /\ result' = result
    BY <1>5 DEF OpenGate, pcm
  <2>2. queue = 0 /\ result = 1
    BY <2>1 DEF Control, PlaceInv, StreamInv
  <2>3. voiced = 0
    BY <2>2 DEF Numbers
  <2>4. Voices'
    BY <2>1, <2>3 DEF Voices
  <2> QED BY <2>1, <2>2, <2>3, <2>4 DEF ToneInv
<1>6. CASE Safe \/ ArmMuted \/ Unmute \/ CodecRequest \/ OpenPcm \/ Prepare \/ Drop \/ CallFails
  <2>1. phase = "main" /\ (Advance \/ Leave)
    BY <1>6 DEF Safe, ArmMuted, Unmute, CodecRequest, OpenPcm, Prepare, Drop, CallFails, At
  <2>2. \/ UNCHANGED <<cut, voiced>>
        \/ cut' = (cut \/ voiced > 0) /\ voiced' = 0 /\ Advance
    BY <1>6 DEF Safe, ArmMuted, Unmute, CodecRequest, OpenPcm, Prepare, Drop, CallFails, pcm
  <2>3. CASE Leave
    <3>1. program = "i2s_clock_ab" => voiced' = 0
      BY <2>2 DEF ToneInv
    <3> QED BY <2>1, <2>3, <3>1, LeftTone DEF Leave
  <2>4. CASE ~Leave
    <3>1. Now.do \notin {"tone", "zeros"}
      BY <1>6, <2>4 DEF Safe, ArmMuted, Unmute, CodecRequest, OpenPcm, Prepare, Drop,
        CallFails, At, Requests
    <3>2. Advance /\ voiced' \in {voiced, 0}
      BY <2>1, <2>2, <2>4
    <3> QED BY <2>1, <2>2, <3>1, <3>2, CalledTone
  <2> QED BY <2>3, <2>4
<1>7. CASE Keepalive
  <2>1. phase = "main" /\ UNCHANGED <<cut, pcm>>
    BY <1>7 DEF Keepalive
  <2>2. CASE Leave
    BY <2>1, <2>2, LeftTone DEF Leave, ToneInv, pcm
  <2>3. CASE ~Leave
    <3>1. UNCHANGED <<program, phase, pc, left, result, queue, voiced, cut>>
      BY <1>7, <2>1, <2>3 DEF Keepalive, pcm
    <3>2. Now' = Now /\ Script' = Script
      BY <3>1, Stayed
    <3> QED BY <2>1, <3>1, <3>2 DEF ToneInv, Voices
  <2> QED BY <2>2, <2>3
<1>8. CASE Sleep
  <2>1. phase = "main" /\ Now.do = "sleep" /\ Iterated /\ UNCHANGED <<cut, voiced, queue>>
    BY <1>8 DEF Sleep, pcm
  <2>2. CASE left > Chunk
    <3>1. UNCHANGED <<program, phase, pc, result>>
      BY <2>1, <2>2 DEF Iterated
    <3>2. program \notin Exempt => voiced = 0
      BY <2>1 DEF ToneInv, Voices
    <3>3. program \notin Exempt => Voices'
      BY <2>1, <3>2 DEF Voices
    <3> QED BY <2>1, <3>1, <3>3 DEF ToneInv
  <2>3. CASE ~(left > Chunk)
    BY <2>1, <2>3, CalledTone DEF Iterated
  <2> QED BY <2>2, <2>3
<1>9. CASE End
  <2>1. /\ phase \in {"safe", "drop", "close_PCM", "close_gate", "killed", "killed_PCM"}
        /\ phase' \in {"drop", "close_PCM", "close_gate", "killed_PCM", "exited"}
        /\ program' = program /\ result' = result
    BY <1>9 DEF End, OutSafe, OutDrop, OutClose, Release, KilledRelease, KilledClose, Finish
  <2>2. \/ UNCHANGED <<cut, voiced>>
        \/ cut' = (cut \/ voiced > 0) /\ voiced' = 0
    BY <1>9 DEF End, OutSafe, OutDrop, OutClose, Release, KilledRelease, KilledClose, StopStream,
      r1_audio_safety_release, ForceSafe, pcm
  <2>3. program = "i2s_clock_ab" => voiced' = 0
    BY <2>2 DEF ToneInv
  <2>4. ASSUME program \notin Exempt, result = 0 PROVE ~cut' /\ voiced' = 0
    <3>1. ~cut /\ voiced = 0
      BY <2>1, <2>4 DEF ToneInv
    <3>2. ~(voiced > 0)
      BY <3>1
    <3>3. voiced' = 0
      BY <2>2, <3>1
    <3>4. ~cut'
      BY <2>2, <3>1, <3>2, Zenon
    <3> QED BY <3>3, <3>4
  <2> QED BY <2>1, <2>3, <2>4 DEF ToneInv
<1>10. CASE Kill
  <2>1. /\ phase \in {"main", "safe", "drop", "close_PCM", "close_gate"} /\ phase' = "killed"
        /\ UNCHANGED <<program, result, cut, voiced>>
    BY <1>10 DEF Kill, pcm
  <2>2. phase = "main" => result = 1
    BY DEF Control, PlaceInv
  <2> QED BY <2>1, <2>2 DEF ToneInv
<1>11. CASE UNCHANGED vars
  <2>1. UNCHANGED <<program, phase, pc, left, result, queue, voiced, cut>>
    BY <1>11 DEF vars, client, pcm
  <2>2. Now' = Now /\ Script' = Script
    BY <2>1, Stayed
  <2> QED BY <2>1, <2>2 DEF ToneInv, Voices
<1> QED BY <1>2, <1>3, <1>5, <1>6, <1>7, <1>8, <1>9, <1>10, <1>11 DEF Next, Main

-----------------------------------------------------------------------------
(* The refused programs: RefusedInv.                                       *)

LEMMA CodecRefuses ==
  ASSUME CodecRequest, Now.do \in {"DAC_ANALOG_OFF", "MINUS14DB"} PROVE Leave
<1>1. FactoryRoute.D3 = 15 /\ DirectRoute.D3 = 0
  BY DEF FactoryRoute, DirectRoute
<1>2. ~ReadsBack(Now.do)
  BY <1>1 DEF ReadsBack
<1> QED BY <1>2 DEF CodecRequest

LEMMA NextRefused == ASSUME Control, RefusedInv, [Next]_vars PROVE RefusedInv'
<1>1. program' = program
  BY NextControl DEF ControlKept
<1>2. SUFFICES ASSUME program \in Refused PROVE pc' <= 10 /\ result' = 1
  BY <1>1 DEF RefusedInv, Refused
<1>3. pc \in 1..10 /\ result = 1 /\ Len(Script) \in Nat /\ Len(Script) > 10
  BY <1>2, ControlPlaced, TenthStep DEF RefusedInv, Control, Placed
<1>4. CASE UNCHANGED <<pc, result>>
  BY <1>3, <1>4
<1>5. CASE Advance /\ pc # 10
  BY <1>3, <1>5 DEF Advance
<1>6. CASE Advance /\ ~UNCHANGED <<pc, result>> /\ pc = 10
  <2>1. Now.do \in {"DAC_ANALOG_OFF", "MINUS14DB"}
    BY <1>2, <1>6, TenthStep DEF Now
  <2>2. Main
    BY <1>6 DEF Next, Wait, End, OutSafe, OutDrop, OutClose, Release, KilledRelease, KilledClose,
      Finish, Kill, vars, client
  <2>3. CodecRequest
    BY <1>6, <2>1, <2>2 DEF Main, OpenGate, Safe, ArmMuted, Unmute, Keepalive, OpenPcm, Prepare, Drop,
      Write, Sleep, CallFails, Leave, At, AtKeepalive, AtWrite, Loops
  <2> QED BY <1>6, <2>1, <2>3, CodecRefuses DEF Leave
<1>7. Advance \/ UNCHANGED <<pc, result>>
  BY DEF Next, Main, Wait, OpenGate, Safe, ArmMuted, Unmute, Keepalive, CodecRequest, OpenPcm, Prepare,
    Drop, Write, Sleep, CallFails, Leave, Iterated, End, OutSafe, OutDrop, OutClose, Release,
    KilledRelease, KilledClose, Finish, Kill, vars, client
<1> QED BY <1>4, <1>5, <1>6, <1>7

-----------------------------------------------------------------------------
(* The invariant.                                                          *)
Inv ==
  /\ program \in Programs /\ Control /\ Numbers /\ Flags
  /\ StreamInv /\ CodecInv /\ LiveInv /\ ToneInv /\ RefusedInv

LEMMA InitInv == ASSUME Init PROVE Inv
<1>1. /\ program \in Programs /\ program \in AllPrograms /\ phase = "start" /\ pc = 1 /\ left = 0
      /\ kept = FALSE /\ due = FALSE /\ result = 1 /\ stream = "closed" /\ queue = 0 /\ voiced = 0
      /\ cut = FALSE /\ lease = 0 /\ faults = 0 /\ stalls = 0
  BY ProgramsAssumption DEF Init
<1>2. /\ Script \in Seq(Steps) /\ Len(Script) = Len(Body) + 8 /\ Len(Body) \in 1..12
  BY <1>1, Scripts, BodyLength
<1>3. pc \in 1..Len(Script)
  BY <1>1, <1>2
<1>4. Placed
  BY <1>1, <1>3, AlwaysPlaced
<1>5. Control
  BY <1>1, <1>3, <1>4 DEF Placed, Control, PlaceInv, Loops
<1>6. Numbers
  <2>1. ARM_LEASE \in Nat /\ BUFFER \in Nat /\ MaxFaults \in Nat /\ MaxStalls \in Nat
    BY BufferIs, BoundsAssumption DEF ARM_LEASE
  <2>2. lease \in 0..ARM_LEASE /\ queue \in 0..BUFFER /\ voiced \in 0..queue
    BY <1>1, <2>1
  <2>3. faults \in 0..MaxFaults /\ stalls \in 0..MaxStalls
    BY <1>1, <2>1
  <2>4. stream \in {"closed", "open", "prepared", "running", "xrun", "stopped"}
    BY DEF Init
  <2> QED BY <2>2, <2>3, <2>4, Zenon DEF Numbers
<1>7. Flags
  <2>1. kept \in BOOLEAN /\ due \in BOOLEAN /\ cut \in BOOLEAN
    BY Zenon DEF Init
  <2>2. amp \in [enabled : BOOLEAN, unmuted : BOOLEAN]
    BY DEF Init, Off
  <2>3. volume \in 0..2 /\ dac \in {"on", "muted", "off", "hiz"}
    BY DEF Init
  <2> QED BY <2>1, <2>2, <2>3, Zenon DEF Flags
<1>8. StreamInv /\ CodecInv /\ LiveInv /\ ToneInv /\ RefusedInv
  BY <1>1 DEF StreamInv, CodecInv, LiveInv, ToneInv, RefusedInv
<1> QED BY <1>1, <1>5, <1>6, <1>7, <1>8 DEF Inv

LEMMA NextInv == ASSUME Inv, [Next]_vars PROVE Inv'
<1>1. ControlKept
  BY NextControl DEF Inv
<1>2. program' \in Programs
  BY <1>1 DEF ControlKept, Inv
<1>3. Numbers' /\ StreamInv'
  BY NextNumbers, NextStream DEF Inv
<1>4. Flags' /\ CodecInv'
  BY NextFlags, NextCodec DEF Inv
<1>5. LiveInv' /\ ToneInv' /\ RefusedInv'
  BY NextLive, NextTone, NextRefused DEF Inv
<1> QED BY <1>1, <1>2, <1>3, <1>4, <1>5 DEF Inv, ControlKept

LEMMA Invariance == Spec => []Inv
<1>1. Inv /\ [Next]_vars => Inv'
  BY NextInv
<1> QED BY InitInv, <1>1, PTL DEF Spec

LEMMA Typed == ASSUME Inv PROVE TypeOK
<1>1. Control /\ Numbers /\ Flags /\ program \in Programs
  BY DEF Inv
<1>2. Placed
  BY <1>1, ControlPlaced
<1>3. left \in 0..TONE_FRAMES + 144 * PERIOD
  <2>1. left \in 0..Now.frames
    BY <1>1 DEF Control, PlaceInv
  <2>2. Now.frames \in 0..TONE_FRAMES + 147456 /\ TONE_FRAMES \in Nat
    BY <1>2 DEF Placed
  <2>3. 144 * PERIOD = 147456
    BY DEF PERIOD
  <2>4. left \in 0..TONE_FRAMES + 147456
    BY <2>1, <2>2
  <2> QED BY <2>3, <2>4
<1>4. /\ phase \in {"start", "main", "safe", "drop", "close_PCM", "close_gate",
                   "killed", "killed_PCM", "exited"}
      /\ pc \in 1..Len(Script) /\ result \in {0, 1}
  BY <1>1 DEF Control
<1>5. kept \in BOOLEAN /\ due \in BOOLEAN /\ cut \in BOOLEAN
  BY <1>1, Zenon DEF Flags
<1>6. /\ amp \in [enabled : BOOLEAN, unmuted : BOOLEAN]
      /\ dac \in {"on", "muted", "off", "hiz"} /\ volume \in 0..2
  BY <1>1, Zenon DEF Flags
<1>7. /\ lease \in 0..ARM_LEASE /\ queue \in 0..BUFFER /\ voiced \in 0..queue
      /\ faults \in 0..MaxFaults /\ stalls \in 0..MaxStalls
      /\ stream \in {"closed", "open", "prepared", "running", "xrun", "stopped"}
  BY <1>1, Zenon DEF Numbers
<1> QED BY <1>1, <1>3, <1>4, <1>5, <1>6, <1>7, Zenon DEF TypeOK

(* Whatever fails and however late the calls are: no write overfills the   *)
(* buffer, no wait takes more from it than it holds, no loop runs past its *)
(* end, no program past its last step, and the lease stays in its bounds.  *)
THEOREM TypeCorrect == Spec => []TypeOK
BY Invariance, Typed, PTL

LEMMA InvHeard == ASSUME Inv PROVE PassMeansHeard
<1>1. SUFFICES ASSUME result = 0 PROVE ~cut
  BY DEF PassMeansHeard
<1>2. program \notin Exempt
  BY <1>1 DEF Inv, RefusedInv, Refused, Exempt
<1> QED BY <1>1, <1>2 DEF Inv, ToneInv

(* main prints PASS only if every frame of every tone was played while the *)
(* amplifier was on and the DAC not muted: a timeout ends in an underrun   *)
(* or a call that fails, four periods of zeros push the tone out of the    *)
(* buffer, and the two programs that mute the DAC behind the tone end with *)
(* status 1, because the codec refuses what they ask for next.             *)
THEOREM PassHeard == Spec => []PassMeansHeard
BY Invariance, InvHeard, PTL

-----------------------------------------------------------------------------
(* The amplitude of a tone.                                                *)

(* The tones.                                                              *)
LEMMA Quotients ==
  ASSUME NEW n \in Nat, NEW r \in Nat, r > 0, NEW k \in 0..r
  PROVE  ((n + k) \div r) - (n \div r) \in 0..1 /\ (n + k) \div r \in Nat /\ n \div r \in Nat
OBVIOUS

LEMMA Remainders ==
  ASSUME NEW n \in Nat, n > 0, NEW r \in Nat, r > 0
  PROVE  /\ n % r \in 0..r - 1
         /\ n % r # 0 => (n - 1) % r = (n % r) - 1 /\ (n - 1) \div r = n \div r
         /\ n % r = 0 => (n - 1) % r = r - 1
OBVIOUS

LEMMA TrapezoidGentle ==
  ASSUME NEW peak \in Nat, NEW rise \in Nat, rise > 0, peak <= rise, NEW end \in Nat,
         2 * rise <= end, NEW f \in Nat, f > 0
  PROVE  Trapezoid(peak, rise, end, f) - Trapezoid(peak, rise, end, f - 1) \in -1..1
<1> DEFINE U(x) == (peak * x) \div rise
           H(x) == IF x < rise THEN x ELSE IF x < end - rise THEN rise ELSE IF x < end THEN end - x ELSE 0
<1>1. U(0) = 0 /\ U(rise) = peak
  OBVIOUS
<1>2. \A x \in Nat : U(x + 1) - U(x) \in 0..1 /\ U(x) \in Nat
  <2>1. SUFFICES ASSUME NEW x \in Nat PROVE U(x + 1) - U(x) \in 0..1 /\ U(x) \in Nat
    OBVIOUS
  <2>2. peak * (x + 1) = peak * x + peak /\ peak * x \in Nat
    OBVIOUS
  <2> QED BY <2>2, Quotients
<1>3. \A x \in Nat : Trapezoid(peak, rise, end, x) = U(H(x))
  BY <1>1 DEF Trapezoid
<1>4. H(f) \in Nat /\ H(f - 1) \in Nat /\ (H(f) = H(f - 1) \/ H(f) = H(f - 1) + 1 \/ H(f - 1) = H(f) + 1)
  OBVIOUS
<1> HIDE DEF U, H
<1>5. PICK a \in Nat, b \in Nat : a = H(f) /\ b = H(f - 1) /\ (a = b \/ a = b + 1 \/ b = a + 1)
  BY <1>4
<1>6. U(a) - U(b) \in -1..1
  BY <1>2, <1>5
<1>7. Trapezoid(peak, rise, end, f) = U(a) /\ Trapezoid(peak, rise, end, f - 1) = U(b)
  BY <1>3, <1>5
<1> QED BY <1>6, <1>7

(* A note is silent at both ends, and so may follow another one.           *)
LEMMA NotesSilent ==
  ASSUME NEW rise \in Nat, rise > 0, NEW end \in Nat, 2 * rise <= end, NEW p \in Nat,
         NEW g \in Nat, g = 0 \/ g >= end
  PROVE  Trapezoid(p, rise, end, g) = 0
<1>1. CASE g = 0
  <2>1. (p * 0) \div rise = 0
    OBVIOUS
  <2> QED BY <1>1, <2>1 DEF Trapezoid
<1>2. CASE g >= end
  <2>1. ~(g < rise) /\ ~(g < end - rise) /\ ~(g < end)
    BY <1>2
  <2> QED BY <2>1 DEF Trapezoid
<1> QED BY <1>1, <1>2

LEMMA NotesGentle ==
  ASSUME NEW rise \in Nat, rise > 0, NEW end \in Nat, 2 * rise <= end,
         NEW p \in Nat, p <= rise, NEW o \in Nat, o <= rise, NEW g \in Nat, NEW h \in Nat,
         g # 0 => o = p /\ h = g - 1, g = 0 => h >= end
  PROVE  Trapezoid(p, rise, end, g) - Trapezoid(o, rise, end, h) \in -1..1
<1>1. CASE g = 0
  BY <1>1, NotesSilent
<1>2. CASE g # 0
  BY <1>2, TrapezoidGentle
<1> QED BY <1>1, <1>2

LEMMA ToneGentle ==
  ASSUME NEW f \in Nat, f > 0, f < TONE_FRAMES, TONE_PEAK = 32, TONE_FRAMES \in {36000, 48000}
  PROVE  fill_tone(f) - fill_tone(f - 1) \in -1..1
<1>1. PICK t \in Nat : t = TONE_FRAMES /\ t >= 36000
  OBVIOUS
<1> DEFINE H(x) == IF x < 4800 THEN x ELSE IF x >= t - 4800 THEN t - x ELSE 4800
<1>2. \A x \in 0..t - 1 : fill_tone(x) = Amin(H(x) \div 150, 32)
  BY <1>1 DEF fill_tone, Amin
<1>3. H(f) \in Nat /\ H(f - 1) \in Nat /\ (H(f) = H(f - 1) \/ H(f) = H(f - 1) + 1 \/ H(f - 1) = H(f) + 1)
  BY <1>1
<1>4. f \in 0..t - 1 /\ f - 1 \in 0..t - 1
  BY <1>1
<1> HIDE DEF H
<1>5. PICK a \in Nat, b \in Nat : a = H(f) /\ b = H(f - 1) /\ (a = b \/ a = b + 1 \/ b = a + 1)
  BY <1>3
<1>6. Amin(a \div 150, 32) - Amin(b \div 150, 32) \in -1..1
  BY <1>5 DEF Amin
<1> QED BY <1>2, <1>4, <1>5, <1>6

(* Every program but one begins and ends its tone in silence, and changes  *)
(* the amplitude by one unit at a time.                                    *)
LEMMA AmplitudeGentle ==
  ASSUME program \in AllPrograms, program # "lineout_selfcheck", NEW f \in Nat, f <= TONE_FRAMES
  PROVE  (IF f = TONE_FRAMES THEN 0 ELSE Amplitude(f))
           - (IF f = 0 THEN 0 ELSE Amplitude(f - 1)) \in -1..1
<1>0. TONE_FRAMES \in Nat /\ TONE_FRAMES >= 36000 /\ f \in Nat /\ f <= TONE_FRAMES
  BY LoopTyped, SMT
<1>1. CASE program \in {"sweep", "sweep_high"}
  <2>1. PICK rise \in Nat, end \in Nat, r \in Nat : rise = 2048 /\ end = 65536 /\ r = 73728
    BY SMT
  <2>2. rise > 0 /\ 2 * rise <= end /\ end < r /\ TONE_FRAMES % r = 0 /\ TONE_FRAMES = 3 * r
    BY <1>1, <2>1, SMT DEF TONE_FRAMES
  <2> DEFINE P(x) == peaks[x \div r + 1]
             Low(p) == p \in Nat /\ p <= rise
  <2>3. \A x : Amplitude(x) = Trapezoid(P(x), rise, end, x % r)
    BY <1>1, <2>1, SMT DEF Amplitude, fill_sweep
  <2>4. \A x \in Nat : x < TONE_FRAMES => Low(P(x))
    <3>1. SUFFICES ASSUME NEW x \in Nat, x < TONE_FRAMES PROVE Low(P(x))
      OBVIOUS
    <3>2. r > 0 /\ x < 3 * r
      BY <2>2, <3>1, SMT
    <3>3. x \div r + 1 \in {1, 2, 3}
      BY <3>2, SMT
    <3>4. Low(peaks[1]) /\ Low(peaks[2]) /\ Low(peaks[3])
      BY <2>1, SMT DEF peaks
    <3> QED BY <3>3, <3>4
  <2>5. PICK g \in Nat, h \in Nat : g = f % r /\ (f > 0 => h = (f - 1) % r)
    BY <2>2, SMT
  <2>6. /\ f = 0 \/ f = TONE_FRAMES => g = 0
        /\ f > 0 /\ g # 0 => h = g - 1
        /\ f > 0 /\ g = 0 => h = r - 1
    <3>1. f = 0 \/ f = TONE_FRAMES => f % r = 0
      BY <2>2, SMT
    <3>a. r > 0
      BY <2>2, SMT
    <3>2. ASSUME f > 0
          PROVE  /\ f % r # 0 => (f - 1) % r = (f % r) - 1
                 /\ f % r = 0 => (f - 1) % r = r - 1
      BY ONLY f \in Nat, r \in Nat, <3>a, <3>2, Remainders, Zenon
    <3> QED BY <2>5, <3>1, <3>2, Zenon
  <2>7. f # TONE_FRAMES => Low(P(f))
    BY <1>0, <2>4, SMT
  <2>8. f > 0 => Low(P(f - 1))
    <3>1. f > 0 => f - 1 \in Nat /\ f - 1 < TONE_FRAMES
      BY <1>0
    <3> QED BY <2>4, <3>1, Zenon
  <2>9. f > 0 /\ g # 0 => P(f - 1) = P(f)
    <3>1. f > 0 /\ g # 0 => (f - 1) \div r = f \div r
      BY <2>2, <2>5, SMT
    <3> QED BY <3>1, Zenon
  <2> HIDE DEF P
  <2>10. Amplitude(f) = Trapezoid(P(f), rise, end, g)
         /\ (f > 0 => Amplitude(f - 1) = Trapezoid(P(f - 1), rise, end, h))
    BY <2>3, <2>5, Zenon
  <2>11. PICK p, o : p = P(f) /\ o = P(f - 1)
    OBVIOUS
  <2>12. CASE f = 0
    BY <2>2, <2>6, <2>7, <2>8, <2>9, <2>10, <2>11, <2>12, NotesSilent, SMT
  <2>13. CASE f = TONE_FRAMES
    BY <1>0, <2>2, <2>6, <2>7, <2>8, <2>9, <2>10, <2>11, <2>13, NotesSilent, SMT
  <2>14. CASE f > 0 /\ f # TONE_FRAMES
    BY <2>2, <2>6, <2>7, <2>8, <2>9, <2>10, <2>11, <2>14, NotesGentle, SMT
  <2> QED BY <1>0, <2>12, <2>13, <2>14, SMT
<1>2. CASE program = "music"
  <2>1. PICK rise \in Nat, end \in Nat, r \in Nat, p \in Nat :
          rise = 2048 /\ end = 28672 /\ r = 32768 /\ p = 512
    BY SMT
  <2>2. rise > 0 /\ 2 * rise <= end /\ end < r /\ p <= rise /\ TONE_FRAMES % r = 0
    BY <1>2, <2>1, SMT DEF TONE_FRAMES
  <2>3. \A x : Amplitude(x) = Trapezoid(p, rise, end, x % r)
    BY <1>2, <2>1, SMT DEF Amplitude, fill_music
  <2>4. PICK g \in Nat, h \in Nat : g = f % r /\ (f > 0 => h = (f - 1) % r)
    BY <2>2, SMT
  <2>5. /\ f = 0 \/ f = TONE_FRAMES => g = 0
        /\ f > 0 /\ g # 0 => h = g - 1
        /\ f > 0 /\ g = 0 => h = r - 1
    <3>1. f = 0 \/ f = TONE_FRAMES => f % r = 0
      BY <2>2, SMT
    <3>a. r > 0
      BY <2>2, SMT
    <3>2. ASSUME f > 0
          PROVE  /\ f % r # 0 => (f - 1) % r = (f % r) - 1
                 /\ f % r = 0 => (f - 1) % r = r - 1
      BY ONLY f \in Nat, r \in Nat, <3>a, <3>2, Remainders, Zenon
    <3> QED BY <2>4, <3>1, <3>2, Zenon
  <2>6. Amplitude(f) = Trapezoid(p, rise, end, g)
        /\ (f > 0 => Amplitude(f - 1) = Trapezoid(p, rise, end, h))
    BY <2>3, <2>4, Zenon
  <2>7. CASE f = 0
    BY <2>2, <2>5, <2>6, <2>7, NotesSilent, SMT
  <2>8. CASE f = TONE_FRAMES
    BY <1>0, <2>2, <2>5, <2>6, <2>8, NotesSilent, SMT
  <2>9. CASE f > 0 /\ f # TONE_FRAMES
    BY <2>2, <2>5, <2>6, <2>9, NotesGentle, SMT
  <2> QED BY <1>0, <2>7, <2>8, <2>9, SMT
<1>3. CASE program = "melody"
  <2>1. PICK rise \in Nat, end \in Nat, r \in Nat, p \in Nat :
          rise = 512 /\ end = 14336 /\ r = 16384 /\ p = 32
    BY SMT
  <2>2. rise > 0 /\ 2 * rise <= end /\ end < r /\ p <= rise /\ TONE_FRAMES % r = 0
    BY <1>3, <2>1, SMT DEF TONE_FRAMES
  <2>3. \A x : Amplitude(x) = Trapezoid(p, rise, end, x % r)
    BY <1>3, <2>1, SMT DEF Amplitude, fill_melody
  <2>4. PICK g \in Nat, h \in Nat : g = f % r /\ (f > 0 => h = (f - 1) % r)
    BY <2>2, SMT
  <2>5. /\ f = 0 \/ f = TONE_FRAMES => g = 0
        /\ f > 0 /\ g # 0 => h = g - 1
        /\ f > 0 /\ g = 0 => h = r - 1
    <3>1. f = 0 \/ f = TONE_FRAMES => f % r = 0
      BY <2>2, SMT
    <3>a. r > 0
      BY <2>2, SMT
    <3>2. ASSUME f > 0
          PROVE  /\ f % r # 0 => (f - 1) % r = (f % r) - 1
                 /\ f % r = 0 => (f - 1) % r = r - 1
      BY ONLY f \in Nat, r \in Nat, <3>a, <3>2, Remainders, Zenon
    <3> QED BY <2>4, <3>1, <3>2, Zenon
  <2>6. Amplitude(f) = Trapezoid(p, rise, end, g)
        /\ (f > 0 => Amplitude(f - 1) = Trapezoid(p, rise, end, h))
    BY <2>3, <2>4, Zenon
  <2>7. CASE f = 0
    BY <2>2, <2>5, <2>6, <2>7, NotesSilent, SMT
  <2>8. CASE f = TONE_FRAMES
    BY <1>0, <2>2, <2>5, <2>6, <2>8, NotesSilent, SMT
  <2>9. CASE f > 0 /\ f # TONE_FRAMES
    BY <2>2, <2>5, <2>6, <2>9, NotesGentle, SMT
  <2> QED BY <1>0, <2>7, <2>8, <2>9, SMT
<1>4. CASE program \notin {"sweep", "sweep_high", "music", "melody"}
  <2>1. TONE_FRAMES \in {36000, 48000} /\ TONE_PEAK = 32
    BY <1>4 DEF TONE_FRAMES, TONE_PEAK
  <2>2. \A x : Amplitude(x) = fill_tone(x)
    BY <1>4 DEF Amplitude
  <2>3. CASE f = 0
    <3>1. fill_tone(f) = 0
      BY <2>1, <2>3 DEF fill_tone, Amin
    <3> QED BY <1>0, <2>2, <2>3, <3>1
  <2>4. CASE f = TONE_FRAMES
    <3>1. fill_tone(f - 1) = 0
      BY <2>1, <2>4 DEF fill_tone, Amin
    <3> QED BY <1>0, <2>2, <2>4, <3>1
  <2>5. CASE f > 0 /\ f < TONE_FRAMES
    BY <1>0, <2>1, <2>2, <2>5, ToneGentle
  <2> QED BY <1>0, <2>3, <2>4, <2>5
<1> QED BY <1>1, <1>2, <1>3, <1>4

LEMMA GentleSteps == ASSUME Inv PROVE GentleAtPeak32
<1>1. SUFFICES ASSUME program # "lineout_selfcheck", phase = "main", Now.do = "tone", kept,
                      NEW f \in (TONE_FRAMES - left)..(TONE_FRAMES - left) + Chunk
               PROVE  (IF f = TONE_FRAMES THEN 0 ELSE Amplitude(f))
                        - (IF f = 0 THEN 0 ELSE Amplitude(f - 1)) \in -1..1
  BY DEF GentleAtPeak32, Gentle
<1>2. Control /\ Placed
  BY ControlPlaced DEF Inv
<1>3. Now.do \in Writes
  BY <1>1 DEF Writes
<1>4. /\ pc # Len(Script) /\ left >= 1 /\ left \in Nat /\ left <= Now.frames
      /\ Chunk \in Nat /\ Chunk <= left
  BY <1>2, <1>3, WritesAre
<1>5. Succ(pc, Now, Script[pc + 1])
  BY <1>2, <1>4 DEF Placed
<1>6. Now = Tone
  BY <1>1, <1>5 DEF Succ
<1>7. Now.frames = TONE_FRAMES /\ TONE_FRAMES \in Nat
  BY <1>6, LoopTyped
<1>8. f \in Nat /\ f <= TONE_FRAMES
  BY <1>1, <1>4, <1>7
<1> QED BY <1>1, <1>2, <1>8, AmplitudeGentle DEF Control

(* fill_sweep, fill_music, fill_melody and fill_tone with the peak of 32   *)
(* change the amplitude by one unit at most from frame to frame, and begin *)
(* and end every tone in silence.                                          *)
THEOREM GentleTones == Spec => []GentleAtPeak32
BY Invariance, GentleSteps, PTL

-----------------------------------------------------------------------------
(* An undisturbed run: what time takes.                                    *)

(* A clean state comes from a clean state.                                 *)
LEMMA CleanBefore ==
  ASSUME Numbers, [Next]_vars, Clean' PROVE Clean
<1>1. faults' >= faults
  <2>0. faults \in 0..MaxFaults /\ MaxFaults \in Nat
    BY BoundsAssumption DEF Numbers
  <2>1. CASE \E K : Fails(K)
    BY <2>0, <2>1, FailsBounds
  <2>2. CASE faults' = faults
    BY <2>0, <2>2
  <2>3. (\E K : Fails(K)) \/ faults' = faults
    <3>1. CASE Wait
      BY <3>1 DEF Wait
    <3>2. CASE OpenGate \/ Safe \/ ArmMuted \/ Unmute \/ Keepalive \/ CodecRequest
      BY <3>2 DEF OpenGate, Safe, ArmMuted, Unmute, Keepalive, CodecRequest
    <3>3. CASE OpenPcm \/ Prepare \/ Drop \/ Write \/ Sleep \/ CallFails
      BY <3>3 DEF OpenPcm, Prepare, Drop, Write, Sleep, CallFails
    <3>4. CASE End
      BY <3>4 DEF End, OutSafe, OutDrop, OutClose, Release, KilledRelease, KilledClose, ForceSafe,
        StopStream, r1_audio_safety_release
    <3>5. CASE Kill \/ UNCHANGED vars
      BY <3>5 DEF Kill, vars
    <3> QED BY <3>1, <3>2, <3>3, <3>4, <3>5 DEF Next, Main
  <2> QED BY <2>1, <2>2, <2>3
<1>2. stalls' = stalls \/ stalls' = stalls + 1
  <2>1. CASE Wait
    BY <2>1 DEF Wait
  <2>2. CASE OpenGate \/ Safe \/ ArmMuted \/ Unmute \/ Keepalive \/ CodecRequest
    BY <2>2 DEF OpenGate, Safe, ArmMuted, Unmute, Keepalive, CodecRequest
  <2>3. CASE OpenPcm \/ Prepare \/ Drop \/ Write \/ Sleep \/ CallFails
    BY <2>3 DEF OpenPcm, Prepare, Drop, Write, Sleep, CallFails
  <2>4. CASE End
    BY <2>4 DEF End, OutSafe, OutDrop, OutClose, Release, KilledRelease, KilledClose, Finish
  <2>5. CASE Kill \/ UNCHANGED vars
    BY <2>5 DEF Kill, vars
  <2> QED BY <2>1, <2>2, <2>3, <2>4, <2>5 DEF Next, Main
<1>3. faults \in Nat /\ stalls \in Nat /\ faults' = 0 /\ stalls' = 0
  BY BoundsAssumption DEF Numbers, Clean
<1> QED BY <1>1, <1>2, <1>3 DEF Clean

(* A wait that is no stall.                                                *)
LEMMA PromptWait ==
  ASSUME Late \subseteq 0..256, Control, Numbers, Wait, Clean'
  PROVE  /\ Clean
         /\ phase = "main" /\ UNCHANGED <<program, phase, pc, left, kept, result>> /\ ~due /\ due'
         /\ Now' = Now /\ BUFFER' = BUFFER /\ Script' = Script
         /\ \E e \in Nat :
              /\ e >= Duration /\ e <= Duration + 256
              /\ lease > e => lease' = lease - e /\ amp' = amp
              /\ stream = "running" /\ queue > e => stream' = "running" /\ queue' = queue - e
              /\ stream = "running" /\ queue <= e => stream' = "xrun"
              /\ stream # "running" => stream' = stream /\ queue' = queue
<1>1. Placed
  BY ControlPlaced
<1>2. /\ phase = "main" /\ UNCHANGED <<program, phase, pc, left, kept, result>> /\ ~due /\ due'
      /\ \E K \in SUBSET Regulators : Fails(K)
  BY DEF Wait
<1>3. Now' = Now /\ BUFFER' = BUFFER /\ Script' = Script /\ BUFFER \in Nat
  BY <1>2, Stayed, Same, BufferIs
<1>4. Clean
  <2>1. [Next]_vars
    BY DEF Next
  <2> QED BY <2>1, CleanBefore
<1>5. PICK d \in Late, K \in SUBSET Regulators : Elapse(Duration + d, K)
  <2>1. stalls = 0 /\ stalls' = 0
    BY <1>4 DEF Clean
  <2> QED BY <2>1 DEF Wait
<1>6. queue \in Nat /\ left \in Nat /\ voiced \in 0..queue /\ lease \in Nat
  BY <1>1, <1>3 DEF Numbers, Control, PlaceInv, Placed
<1>7. Now.do \in Loops => left >= 1
  BY DEF Control, PlaceInv
<1>8. d \in Nat /\ d <= 256 /\ Duration \in Nat
  BY <1>1, <1>5, <1>6, <1>7, DurationIs
<1>9. PICK e \in Nat : e = Duration + d
  BY <1>8
<1>10. Elapse(e, K)
  BY <1>5, <1>9
<1>11. /\ lease > e => lease' = lease - e /\ amp' = amp
       /\ stream = "running" /\ queue > e => stream' = "running" /\ queue' = queue - e
       /\ stream = "running" /\ queue <= e => stream' = "xrun"
       /\ stream # "running" => stream' = stream /\ queue' = queue
  BY <1>6, <1>10, Elapsed
<1>12. e >= Duration /\ e <= Duration + 256
  BY <1>8, <1>9
<1> QED BY <1>2, <1>3, <1>4, <1>11, <1>12

(* How full the buffer is in a loop.                                       *)
LEMMA FilledFacts ==
  ASSUME NEW q \in Nat, NEW n \in Nat, NEW b \in {4096, 16384}, Filled(q, n, b)
  PROVE  /\ q > 512
         /\ \A r \in Nat : r >= q => Filled(r, n, b)
         /\ \A s \in Nat : s + 512 >= q => Filled(s + 1024, n + 1024, b)
BY DEF Filled

(* How full it is when a loop is nearly over.                              *)
LEMMA FilledUp ==
  ASSUME NEW p \in Nat, NEW n \in Nat, n >= 7168, NEW b \in {4096, 16384}, Filled(p, n, b)
  PROVE  p >= 3840 /\ (b = 16384 /\ n >= 95232 => p >= 16128)
BY DEF Filled

-----------------------------------------------------------------------------
(* The buffer: BufferInv.                                                  *)

LEMMA LatenessIs ==
  /\ Lateness \in Nat /\ Lateness <= 512
  /\ ~due /\ ~kept => Lateness = 0
  /\ ~due /\ kept => Lateness = 256
  /\ due /\ ~kept => Lateness = 256
BY DEF Lateness

LEMMA LatenessNext ==
  /\ Lateness' \in Nat /\ Lateness' <= 512
  /\ ~due' /\ ~kept' => Lateness' = 0
  /\ ~due' /\ kept' => Lateness' = 256
  /\ due' /\ ~kept' => Lateness' = 256
  /\ due' /\ kept' => Lateness' = 512
BY DEF Lateness

(* How long the calls take, which are no loops.                            *)
LEMMA CallTakes ==
  ASSUME Now.do \notin Loops
  PROVE  /\ Duration \in Nat
         /\ Now.do \in {"ARM_MUTED", "DAC_MUTE", "DAC_UNMUTE"} => Duration = 1536
         /\ Now.do \in {"MINUS14DB", "MINUS28DB", "LINEOUT_HIZ"} => Duration = 768
         /\ Now.do = "DAC_ANALOG_OFF" => Duration = 2048
         /\ Now.do = "PREPARE" => Duration = 3584
         /\ Now.do \in {"SAFE", "open_PCM", "UNMUTE", "DROP"} => Duration = 0
<1>1. ~AtKeepalive /\ ~AtWrite /\ Now.do # "sleep"
  BY DEF AtKeepalive, AtWrite, Loops
<1> QED BY <1>1 DEF Duration

LEMMA ReserveIs ==
  /\ Reserve \in {15616, 13824, 12800, 3328}
  /\ Now.do \in {"UNMUTE", "ARM_MUTED", "DROP", "LINEOUT_HIZ", "DAC_ANALOG_OFF", "SAFE"} => Reserve = 3328
  /\ program # "lineout_selfcheck" => Reserve = 3328
  /\ program = "lineout_selfcheck" =>
       /\ Now.do = "DAC_MUTE" => Reserve = 15616
       /\ Now.do \in {"MINUS14DB", "MINUS28DB"} => Reserve = 13824
       /\ Now.do = "DAC_UNMUTE" => Reserve = 12800
BY DEF Reserve

(* A wait for a call leaves what the next step needs.                      *)
LEMMA CallSpares == ASSUME Placed, Now.do \notin Loops PROVE Reserve >= Duration + 1280 \/ Now.do = "PREPARE"
<1>1. Now.do \in Calls
  BY DEF Placed, Steps
<1>2. CASE Now.do \in {"ARM_MUTED", "DAC_MUTE", "DAC_UNMUTE"}
  BY <1>2, CallTakes, ReserveIs
<1>3. CASE Now.do \in {"MINUS14DB", "MINUS28DB", "LINEOUT_HIZ"}
  BY <1>3, CallTakes, ReserveIs
<1>4. CASE Now.do = "DAC_ANALOG_OFF"
  BY <1>4, CallTakes, ReserveIs
<1>5. CASE Now.do \in {"SAFE", "open_PCM", "UNMUTE", "DROP"}
  BY <1>5, CallTakes, ReserveIs
<1> QED BY <1>1, <1>2, <1>3, <1>4, <1>5 DEF Calls, Requests

(* Time takes no more from the buffer than what was allowed for.           *)
LEMMA WaitAmple ==
  ASSUME Late \subseteq 0..256, Control, Numbers, StreamInv, Wait, Clean', stream = "running", Ample,
         pc # Len(Script)
  PROVE  stream' = "running" /\ Ample'
<1>1. Placed
  BY ControlPlaced
<1>2. /\ phase = "main" /\ UNCHANGED <<program, phase, pc, left, kept, result>> /\ ~due /\ due'
      /\ Now' = Now /\ BUFFER' = BUFFER /\ BUFFER \in {4096, 16384}
  BY PromptWait, BufferIs
<1>3. PICK e \in Nat :
         /\ e >= Duration /\ e <= Duration + 256
         /\ queue > e => stream' = "running" /\ queue' = queue - e
  BY PromptWait
<1>4. queue \in Nat
  BY <1>2 DEF Numbers
<1>5. CASE Now.do \in Writes
  <2>1. /\ left >= 1 /\ left \in Nat /\ left <= Now.frames /\ Now.frames \in Nat
        /\ Chunk \in Nat /\ Chunk >= 1 /\ Chunk <= 1024 /\ Now.do \in Loops /\ Now.do # "sleep"
    BY <1>1, <1>5, WritesAre DEF Placed
  <2>2. /\ AtKeepalive => Duration = 0
        /\ AtWrite => Duration = IF queue + Chunk > BUFFER THEN queue + Chunk - BUFFER ELSE 0
    BY <1>1, <1>4, <2>1, DurationIs
  <2>3. Filled(queue + Lateness, Now.frames - left, BUFFER)
    BY <1>2, <1>5 DEF Ample
  <2>4. AtKeepalive \/ AtWrite
    BY <2>1 DEF AtKeepalive, AtWrite
  <2>5. PICK q \in Nat : q = queue + Lateness
    BY <1>4, LatenessIs
  <2>6. PICK n \in Nat : n = Now.frames - left
    BY <2>1
  <2>7. q > 512 /\ \A r \in Nat : r >= q => Filled(r, n, BUFFER)
    BY <1>2, <2>3, <2>5, <2>6, FilledFacts
  <2>8. queue > 256 /\ Lateness' = Lateness + 256
    <3>1. CASE kept
      BY <1>2, <1>4, <2>5, <2>7, <3>1, LatenessIs DEF Lateness
    <3>2. CASE ~kept
      BY <1>2, <1>4, <2>5, <2>7, <3>2, LatenessIs DEF Lateness
    <3> QED BY <3>1, <3>2
  <2>9. CASE Duration = 0
    <3>1. queue > e /\ e <= 256
      BY <1>3, <1>4, <2>8, <2>9
    <3>2. queue' = queue - e /\ stream' = "running"
      BY <1>3, <3>1
    <3>3. PICK r \in Nat : r = queue' + Lateness' /\ r >= q
      BY <1>4, <2>5, <2>8, <3>1, <3>2, LatenessIs
    <3>4. Filled(r, n, BUFFER)
      BY <2>7, <3>3
    <3>5. Filled(queue' + Lateness', Now'.frames - left', BUFFER')
      BY <1>2, <2>6, <3>3, <3>4
    <3>6. Now'.do \in Writes'
      BY <1>2, <1>5 DEF Writes
    <3> QED BY <3>2, <3>5, <3>6 DEF Ample
  <2>10. CASE Duration # 0
    <3>1. AtWrite /\ Duration = queue + Chunk - BUFFER
      BY <2>2, <2>4, <2>10
    <3>2. queue > e /\ queue - e >= BUFFER - Chunk - 256
      BY <1>2, <1>3, <1>4, <2>1, <3>1
    <3>3. queue' = queue - e /\ stream' = "running"
      BY <1>3, <3>2
    <3>4. AtWrite' /\ Chunk' = Chunk /\ Now'.do \in Writes'
      BY <1>2, <1>5, <3>1 DEF AtWrite, AtKeepalive, Loops, Chunk, Amin, Writes, PERIOD
    <3>5. queue' >= BUFFER' - Chunk' - 256
      BY <1>2, <3>2, <3>3, <3>4
    <3> QED BY <1>2, <3>3, <3>4, <3>5 DEF Ample
  <2> QED BY <2>9, <2>10
<1>6. CASE Now.do \notin Writes
  <2>1. Now.do \notin {"sleep", "PREPARE"}
    <3>1. pc = 4 => stream = "open"
      BY <1>2 DEF StreamInv
    <3>2. Now.do = "sleep" \/ (Now.do = "PREPARE" /\ pc # 4) => stream = "stopped"
      BY <1>2 DEF StreamInv
    <3> QED BY <3>1, <3>2
  <2>2. Now.do \notin Loops
    BY <1>6, <2>1 DEF Loops, Writes
  <2>3. Reserve >= Duration + 1280 /\ Reserve \in Nat /\ Duration \in Nat
    BY <1>1, <2>1, <2>2, CallSpares, CallTakes, ReserveIs
  <2>4. Awaited = 0
    BY <1>2 DEF Awaited
  <2>5. queue >= Reserve
    BY <1>4, <1>6, <2>4 DEF Ample
  <2>6. queue > e /\ queue - e >= Reserve - Duration - 256
    BY <1>3, <1>4, <2>3, <2>5
  <2>7. queue' = queue - e /\ stream' = "running"
    BY <1>3, <2>6
  <2>8. Reserve' = Reserve /\ Now'.do \notin Writes'
    BY <1>2, <1>6 DEF Reserve, Writes
  <2>9. Awaited' = Duration + 256
    <3>1. Duration' = Duration
      BY <1>2, <2>2 DEF Duration, AtKeepalive, AtWrite, Loops
    <3> QED BY <1>2, <3>1 DEF Awaited
  <2>10. queue' + Awaited' >= Reserve'
    BY <1>3, <1>4, <2>3, <2>6, <2>7, <2>8, <2>9
  <2> QED BY <2>7, <2>8, <2>10 DEF Ample
<1> QED BY <1>5, <1>6

(* A call with the stream running leaves what the next step needs.         *)
LEMMA CallAmple ==
  ASSUME Control, Numbers, StreamInv, phase = "main", Now.do \notin Writes, stream = "running", Ample,
         Now.do # "DROP", Moved, program' = program, ~due', ~kept', queue' = queue, pc' # Len(Script)
  PROVE  Ample'
<1>1. Placed /\ pc \in 1..Len(Script)
  BY ControlPlaced DEF Control
<1>2. /\ pc # Len(Script) /\ left' = Now'.frames /\ Now \in Steps /\ Now' \in Steps
      /\ Succ(pc, Now, Now') /\ pc' = pc + 1
  BY <1>1 DEF Moved, Placed
<1>3. Now.do \notin {"sleep", "PREPARE", "open_PCM", "SAFE"}
  <2>1. pc = 4 => stream = "open"
    BY DEF StreamInv
  <2>2. Now.do = "sleep" \/ (Now.do = "PREPARE" /\ pc # 4) => stream = "stopped"
    BY DEF StreamInv
  <2>3. pc <= 3 => stream = "closed"
    BY DEF StreamInv
  <2>4. Now.do = "SAFE" => pc = 1
    BY <1>2 DEF Succ
  <2>5. Now.do = "open_PCM" => pc = 3
    BY <1>2 DEF Succ
  <2> QED BY <2>1, <2>2, <2>3, <2>4, <2>5
<1>4. Now.do \notin Loops /\ Now.do \in Calls
  BY <1>2, <1>3 DEF Loops, Writes, Steps
<1>5. queue \in Nat /\ BUFFER' \in Nat
  BY BufferIs, Same DEF Numbers
<1>6. queue + Awaited >= Reserve /\ Awaited <= Duration + 256 /\ Awaited \in Nat
  BY <1>4, CallTakes DEF Ample, Awaited
<1>7. Lateness' = 0 /\ Awaited' = 0
  BY LatenessNext DEF Awaited
<1>8. ASSUME Now'.do \in Writes, queue' >= 1024 PROVE Ample'
  <2>1. Filled(queue' + Lateness', Now'.frames - left', BUFFER')
    <3>1. Now'.frames - left' = 0 /\ queue' + Lateness' >= 1024
      BY <1>2, <1>5, <1>7, <1>8 DEF Steps
    <3> QED BY <3>1 DEF Filled
  <2> QED BY <1>8, <2>1 DEF Ample, Writes
<1>9. ASSUME Now'.do \notin Writes, queue' >= Reserve' PROVE Ample'
  BY <1>5, <1>7, <1>9 DEF Ample, Writes
<1>10. CASE Now.do = "UNMUTE"
  <2>1. Now'.do \in Writes
    BY <1>2, <1>10, Names DEF Writes
  <2>2. Duration = 0 /\ Reserve = 3328
    BY <1>4, <1>10, CallTakes, ReserveIs
  <2> QED BY <1>5, <1>6, <1>8, <2>1, <2>2
<1>11. CASE Now.do = "ARM_MUTED"
  <2>1. pc # 2
    BY DEF StreamInv
  <2>2. Now'.do \in Writes
    <3>1. Now' = MutedWindow
      BY <1>2, <1>11, <2>1 DEF Succ
    <3> QED BY <3>1, LoopTyped DEF Writes
  <2>3. Duration = 1536 /\ Reserve = 3328
    BY <1>4, <1>11, CallTakes, ReserveIs
  <2> QED BY <1>5, <1>6, <1>8, <2>2, <2>3
<1>12. CASE Now.do \in Requests
  <2>1. \/ Now' = Window /\ program # "lineout_selfcheck"
        \/ /\ program = "lineout_selfcheck"
           /\ \/ Now.do = "DAC_MUTE" /\ Now' \in {Call("MINUS14DB"), Call("MINUS28DB")}
              \/ Now.do \in {"MINUS14DB", "MINUS28DB"} /\ Now' = Call("DAC_UNMUTE")
              \/ Now.do = "DAC_UNMUTE" /\ Now' = Tone
    BY <1>2, <1>12 DEF Succ
  <2>2. CASE Now' = Window /\ program # "lineout_selfcheck"
    <3>1. Now'.do \in Writes
      BY <2>2, LoopTyped DEF Writes
    <3>2. Duration <= 2048 /\ Reserve = 3328 /\ Duration \in Nat
      BY <1>4, <1>12, <2>2, CallTakes, ReserveIs DEF Requests
    <3> QED BY <1>5, <1>6, <1>8, <3>1, <3>2
  <2>3. CASE /\ program = "lineout_selfcheck" /\ Now.do = "DAC_MUTE"
             /\ Now' \in {Call("MINUS14DB"), Call("MINUS28DB")}
    <3>1. Now'.do \in {"MINUS14DB", "MINUS28DB"}
      BY <2>3, CallsAre
    <3>2. Duration = 1536 /\ Reserve = 15616
      BY <1>4, <2>3, CallTakes, ReserveIs
    <3>3. Reserve' = 13824
      BY <2>3, <3>1 DEF Reserve
    <3>4. Now'.do \notin Writes
      BY <3>1 DEF Writes
    <3> QED BY <1>5, <1>6, <1>9, <3>2, <3>3, <3>4
  <2>4. CASE /\ program = "lineout_selfcheck" /\ Now.do \in {"MINUS14DB", "MINUS28DB"}
             /\ Now' = Call("DAC_UNMUTE")
    <3>1. Now'.do = "DAC_UNMUTE"
      BY <2>4, CallsAre
    <3>2. Duration = 768 /\ Reserve = 13824
      BY <1>4, <2>4, CallTakes, ReserveIs
    <3>3. Reserve' = 12800
      BY <2>4, <3>1 DEF Reserve
    <3>4. Now'.do \notin Writes
      BY <3>1 DEF Writes
    <3> QED BY <1>5, <1>6, <1>9, <3>2, <3>3, <3>4
  <2>5. CASE program = "lineout_selfcheck" /\ Now.do = "DAC_UNMUTE" /\ Now' = Tone
    <3>1. Now'.do \in Writes
      BY <2>5, LoopTyped DEF Writes
    <3>2. Duration = 1536 /\ Reserve = 12800
      BY <1>4, <2>5, CallTakes, ReserveIs
    <3> QED BY <1>5, <1>6, <1>8, <3>1, <3>2
  <2> QED BY <2>1, <2>2, <2>3, <2>4, <2>5
<1> QED BY <1>3, <1>4, <1>10, <1>11, <1>12 DEF Calls

(* The buffer when a loop is over, and the next step begins.               *)
LEMMA LoopAmple ==
  ASSUME Control, Numbers, Now.do \in Writes, stream = "running", Ample, AtWrite, due,
         Moved, program' = program, ~due', ~kept', left <= Chunk, queue' = queue + Chunk,
         queue' <= BUFFER, pc' # Len(Script)
  PROVE  Ample'
<1>1. Placed /\ pc \in 1..Len(Script)
  BY ControlPlaced DEF Control
<1>2. /\ pc # Len(Script) /\ left' = Now'.frames /\ Now \in Steps /\ Now' \in Steps
      /\ Succ(pc, Now, Now') /\ pc' = pc + 1 /\ Now'.frames \in Nat
  BY <1>1 DEF Moved, Placed, Steps
<1>3. /\ left >= 1 /\ left \in Nat /\ left <= Now.frames /\ Now.frames \in Nat
      /\ Chunk \in Nat /\ Chunk = left /\ Chunk <= 1024 /\ BUFFER \in {4096, 16384} /\ queue \in Nat
  BY <1>1, WritesAre, BufferIs DEF Placed, Numbers
<1>4. /\ Now.frames >= 8192
      /\ program = "lineout_selfcheck" /\ Now'.do = "DAC_MUTE" => Now.frames = 96256
  <2>1. CASE Now.do = "tone"
    <3>1. Now = Tone /\ (Now'.do = "DAC_MUTE" => program \in Exempt)
      BY <1>2, <2>1, LoopTyped DEF Succ
    <3> QED BY <3>1, LoopTyped DEF Exempt
  <2>2. CASE Now.do = "zeros"
    <3>1. \/ Now = Postroll /\ pc + 1 = Len(Script)
          \/ Now = Window \/ (Now = Gap /\ program = "channel")
      BY <1>2, <2>2 DEF Succ
    <3> QED BY <1>2, <3>1, LoopTyped
  <2>3. CASE Now.do = "unkept_zeros"
    <3>1. (Now = Preroll \/ Now = MutedWindow) /\ Now' = Call("UNMUTE")
      BY <1>2, <2>3 DEF Succ
    <3> QED BY <3>1, LoopTyped, CallsAre
  <2> QED BY <2>1, <2>2, <2>3 DEF Writes
<1>5. /\ queue' >= 3328
      /\ program = "lineout_selfcheck" /\ Now'.do = "DAC_MUTE" => queue' >= 15616
  <2>1. CASE queue >= BUFFER - Chunk - 256
    <3>1. program = "lineout_selfcheck" => BUFFER = 16384
      BY BufferIs
    <3> QED BY <1>3, <2>1, <3>1
  <2>2. CASE Filled(queue + Lateness, Now.frames - left, BUFFER)
    <3>1. PICK n \in Nat : n = Now.frames - left
      BY <1>3
    <3>2. PICK p \in Nat : p = queue + Lateness /\ p <= queue + 512
      BY <1>3, LatenessIs
    <3>3. Filled(p, n, BUFFER) /\ left \in 1..1024
      BY <1>3, <2>2, <3>1, <3>2
    <3>4. n >= 7168 /\ (Now.frames = 96256 => n >= 95232)
      BY <1>3, <1>4, <3>1
    <3>6. p >= 3840 /\ (BUFFER = 16384 /\ n >= 95232 => p >= 16128)
      BY <1>3, <3>3, <3>4, FilledUp
    <3>5. program = "lineout_selfcheck" => BUFFER = 16384
      BY BufferIs
    <3> QED BY <1>3, <1>4, <3>2, <3>4, <3>5, <3>6
  <2> QED BY <2>1, <2>2 DEF Ample
<1>6. Lateness' = 0 /\ Awaited' = 0
  BY LatenessNext DEF Awaited
<1>7. CASE Now'.do \in Writes
  <2>1. Filled(queue' + Lateness', Now'.frames - left', BUFFER')
    <3>1. Now'.frames - left' = 0 /\ queue' + Lateness' >= 1024
      BY <1>2, <1>3, <1>5, <1>6
    <3> QED BY <3>1 DEF Filled
  <2> QED BY <1>7, <2>1 DEF Ample, Writes
<1>8. CASE Now'.do \notin Writes
  <2>1. queue' >= Reserve'
    <3>1. Now'.do \notin {"MINUS14DB", "MINUS28DB", "DAC_UNMUTE"} \/ program # "lineout_selfcheck"
      <4>1. CASE Now.do = "tone"
        BY <1>2, <4>1, CallsAre, LoopTyped DEF Succ
      <4>2. CASE Now.do = "zeros"
        BY <1>2, <4>2, CallsAre, LoopTyped DEF Succ
      <4>3. CASE Now.do = "unkept_zeros"
        BY <1>2, <4>3, CallsAre DEF Succ
      <4> QED BY <4>1, <4>2, <4>3 DEF Writes
    <3>2. Reserve' = 3328 \/ (Reserve' = 15616 /\ program = "lineout_selfcheck" /\ Now'.do = "DAC_MUTE")
      BY <3>1 DEF Reserve
    <3> QED BY <1>5, <3>2
  <2> QED BY <1>3, <1>6, <1>8, <2>1 DEF Ample, Writes
<1> QED BY <1>7, <1>8

LEMMA WriteBuffer ==
  ASSUME Control, Numbers, Numbers', StreamInv, BufferInv, Write, Clean, phase' = "main",
         pc' # Len(Script)
  PROVE  stream' # "xrun" /\ (stream' = "running" => Ample')
<1>1. /\ phase = "main" /\ AtWrite /\ Now.do \in Writes /\ Now.do \in Loops /\ due
  BY DEF Write, AtWrite, Loops, Writes
<1>2. /\ pc > 4 /\ left >= 1 /\ left \in Nat /\ left <= Now.frames /\ pc # Len(Script)
      /\ Chunk \in Nat /\ Chunk <= 1024 /\ Chunk <= left /\ (left > Chunk => Chunk = 1024)
  BY <1>1, WritesAre
<1>3. Placed /\ pc \in 1..Len(Script) /\ result \in {0, 1}
  BY ControlPlaced DEF Control
<1>4. stream # "xrun" /\ (stream = "running" => Ample)
  BY <1>1, <1>2 DEF BufferInv
<1>5. Iterated /\ queue' = queue + Chunk /\ stream' = "running"
  BY <1>4 DEF Write
<1>6. left \in 1..Now.frames
  BY <1>2, <1>3 DEF Placed
<1>7. /\ program' = program /\ ~due' /\ ~kept' /\ Script' = Script
      /\ \/ Moved /\ left <= Chunk
         \/ left > Chunk /\ left' = left - Chunk /\ left' < Now.frames /\ Now' = Now /\ pc' = pc
  BY <1>1, <1>3, <1>5, <1>6, IteratedLeft
<1>8. BUFFER' = BUFFER /\ BUFFER \in {4096, 16384} /\ queue \in Nat /\ Now.frames \in Nat
  BY <1>3, <1>7, Same, BufferIs DEF Numbers, Placed
<1>9. queue' <= BUFFER
  BY <1>8 DEF Numbers
<1>10. stream # "running" => queue = 0 /\ left = Now.frames /\ Now.frames >= 4096
  <2>1. Now.do \notin {"sleep", "PREPARE"}
    BY <1>1 DEF Writes
  <2> QED BY <1>1, <1>2, <1>3, <1>4, <2>1 DEF StreamInv, Placed
<1>11. CASE Moved /\ left <= Chunk
  <2>1. stream = "running"
    BY <1>2, <1>10, <1>11
  <2>2. Ample'
    BY <1>1, <1>4, <1>5, <1>7, <1>9, <1>11, <2>1, LoopAmple
  <2> QED BY <1>5, <2>2
<1>12. CASE left > Chunk /\ left' = left - Chunk /\ left' < Now.frames /\ Now' = Now /\ pc' = pc
  <2>1. Chunk = 1024 /\ queue' = queue + 1024 /\ left' = left - 1024
    BY <1>2, <1>5, <1>12
  <2>2. PICK n \in Nat : n = Now.frames - left
    BY <1>2, <1>8
  <2>3. Now'.frames - left' = n + 1024
    BY <1>2, <1>8, <1>12, <2>1, <2>2
  <2>4. Filled(queue', n + 1024, BUFFER)
    <3>1. CASE stream # "running"
      <4>1. queue' = 1024 /\ n + 1024 = 1024
        BY <1>8, <1>10, <2>1, <2>2, <3>1
      <4> QED BY <4>1 DEF Filled
    <3>2. CASE stream = "running" /\ queue >= BUFFER - Chunk - 256
      BY <1>8, <2>1, <2>2, <3>2 DEF Filled
    <3>3. CASE Filled(queue + Lateness, Now.frames - left, BUFFER)
      <4>1. PICK q \in Nat : q = queue + Lateness /\ queue + 512 >= q
        BY <1>8, LatenessIs
      <4>2. Filled(q, n, BUFFER)
        BY <2>2, <3>3, <4>1
      <4> QED BY <1>8, <2>1, <4>1, <4>2, FilledFacts
    <3> QED BY <1>1, <1>4, <3>1, <3>2, <3>3 DEF Ample
  <2>5. queue' + Lateness' = queue'
    BY <1>7, <1>8, <2>1, LatenessNext
  <2>6. Now'.do \in Writes'
    BY <1>1, <1>12 DEF Writes
  <2>7. Ample'
    BY <1>8, <2>3, <2>4, <2>5, <2>6 DEF Ample
  <2> QED BY <1>5, <2>7
<1> QED BY <1>7, <1>11, <1>12

LEMMA NextBuffer ==
  ASSUME Late \subseteq 0..256, Control, Numbers, Flags, StreamInv, BufferInv, [Next]_vars
  PROVE  BufferInv'
<1>1. Placed /\ pc \in 1..Len(Script) /\ Numbers' /\ program' = program /\ Script' = Script
  BY ControlPlaced, NextNumbers, NextControl DEF Control, ControlKept
<1>2. SUFFICES ASSUME phase' = "main", Clean', pc' # Len(Script)
               PROVE  stream' # "xrun" /\ (stream' = "running" => Ample')
  BY <1>1 DEF BufferInv
<1>3. Clean
  BY <1>2, CleanBefore
<1>4. CASE Wait
  <2>1. phase = "main" /\ pc' = pc
    BY <1>4 DEF Wait
  <2>2. stream # "xrun" /\ (stream = "running" => Ample)
    BY <1>2, <1>3, <2>1 DEF BufferInv
  <2>3. stream # "running" => stream' = stream
    BY <1>2, <1>4, PromptWait
  <2> QED BY <1>2, <1>4, <2>1, <2>2, <2>3, WaitAmple
<1>5. CASE OpenGate
  BY <1>5 DEF OpenGate, Control, PlaceInv, pcm
<1>6. CASE Safe \/ ArmMuted \/ Unmute \/ CodecRequest
  <2>1. phase = "main" /\ stream' = stream /\ queue' = queue
    BY <1>6 DEF Safe, ArmMuted, Unmute, CodecRequest, At, pcm
  <2>2. Advance
    BY <1>2, <1>6 DEF Safe, ArmMuted, Unmute, CodecRequest, Leave
  <2>3. Now.do \in {"SAFE", "ARM_MUTED", "UNMUTE"} \cup Requests
    BY <1>6 DEF Safe, ArmMuted, Unmute, CodecRequest, At, Requests
  <2>4. Now.do \notin Writes /\ Now.do # "DROP"
    BY <2>3 DEF Writes, Requests
  <2>5. ~due' /\ ~kept' /\ (Moved \/ Passed)
    BY <1>1, <2>1, <2>2, Advanced
  <2>6. Moved
    BY <1>2, <2>5 DEF Passed
  <2>7. stream # "xrun" /\ (stream = "running" => Ample)
    BY <1>3, <2>1, <2>6 DEF BufferInv, Moved
  <2> QED BY <1>1, <1>2, <2>1, <2>4, <2>5, <2>6, <2>7, CallAmple
<1>7. CASE Keepalive
  <2>1. /\ phase = "main" /\ due /\ AtKeepalive /\ kept' = TRUE /\ due' = FALSE
        /\ UNCHANGED <<pc, left, stream, queue>>
    BY <1>2, <1>7 DEF Keepalive, Leave, pcm
  <2>2. Now' = Now /\ BUFFER' = BUFFER
    BY <1>1, <2>1, Stayed, Same
  <2>3. stream # "xrun" /\ (stream = "running" => Ample)
    BY <1>2, <1>3, <2>1 DEF BufferInv
  <2>4. ASSUME stream = "running" PROVE Ample'
    <3>1. Now.do # "sleep"
      BY <2>1, <2>4 DEF StreamInv
    <3>2. Now.do \in Writes
      BY <2>1, <3>1 DEF AtKeepalive, Loops, Writes
    <3>3. Filled(queue + Lateness, Now.frames - left, BUFFER)
      BY <2>1, <2>3, <2>4, <3>2 DEF Ample, AtWrite
    <3>4. Lateness' = Lateness
      <4>1. ~kept
        BY <2>1 DEF AtKeepalive
      <4> QED BY <2>1, <4>1, LatenessIs, LatenessNext
    <3>5. Filled(queue' + Lateness', Now'.frames - left', BUFFER')
      BY <2>1, <2>2, <3>3, <3>4
    <3> QED BY <2>2, <3>2, <3>5 DEF Ample, Writes
  <2> QED BY <2>1, <2>3, <2>4
<1>8. CASE OpenPcm \/ Prepare \/ Drop
  BY <1>8 DEF OpenPcm, Prepare, Drop
<1>9. CASE Write
  BY <1>1, <1>2, <1>3, <1>9, WriteBuffer
<1>10. CASE Sleep
  BY <1>10 DEF Sleep, StreamInv, pcm
<1>11. CASE CallFails \/ End \/ Kill
  <2>1. phase' # "main"
    BY <1>11 DEF CallFails, Leave, End, OutSafe, OutDrop, OutClose, Release, KilledRelease,
      KilledClose, Finish, Kill
  <2> QED BY <1>2, <2>1
<1>12. CASE UNCHANGED vars
  <2>1. UNCHANGED <<program, phase, pc, left, kept, due, stream, queue, faults, stalls>>
    BY <1>12 DEF vars, client, pcm
  <2>2. Now' = Now /\ BUFFER' = BUFFER
    BY <2>1, Stayed, Same
  <2>3. stream # "xrun" /\ (stream = "running" => Ample)
    BY <1>2, <1>3, <2>1 DEF BufferInv
  <2>4. Ample => Ample'
    BY <2>1, <2>2 DEF Ample, Writes, Filled, Lateness, AtWrite, AtKeepalive, Loops, Chunk, Amin, PERIOD,
      Awaited, Reserve, Duration, Amax
  <2> QED BY <2>1, <2>3, <2>4
<1> QED BY <1>4, <1>5, <1>6, <1>7, <1>8, <1>9, <1>10, <1>11, <1>12 DEF Next, Main

-----------------------------------------------------------------------------
(* The lease: LeaseInv.                                                    *)

LEMMA PlayingIs ==
  ASSUME left \in Nat
  PROVE  /\ Playing \in Nat
         /\ Armed => Playing = 20000 + left
         /\ ~Armed => Playing >= 6592
         /\ ~Armed /\ kept => Playing = 7616
         /\ ~Armed /\ ~kept => Playing = 6592
BY DEF Playing

LEMMA PlayingNext ==
  /\ Armed' => Playing' = 20000 + left'
  /\ ~Armed' /\ kept' => Playing' = 7616
  /\ ~Armed' /\ ~kept' => Playing' = 6592
BY DEF Playing

LEMMA PausingIs ==
  ASSUME pc \in Nat
  PROVE  /\ Pausing \in Nat /\ Pausing >= 6592
         /\ pc = 3 => Pausing = 144000
         /\ pc = 4 => Pausing = 143744
         /\ pc = 5 => Pausing = 139904
         /\ pc > 5 /\ kept => Pausing = 24000
         /\ pc > 5 /\ ~kept /\ Now.do = "PREPARE" => Pausing = 18944
         /\ pc > 5 /\ ~kept /\ Now.do = "zeros" => Pausing = 15104
         /\ pc > 5 /\ ~kept /\ Now.do \notin {"PREPARE", "zeros"} => Pausing = 6592
BY DEF Pausing

LEMMA PausingNext ==
  ASSUME pc' \in Nat
  PROVE  /\ pc' = 3 => Pausing' = 144000
         /\ pc' = 4 => Pausing' = 143744
         /\ pc' = 5 => Pausing' = 139904
         /\ pc' > 5 /\ kept' => Pausing' = 24000
         /\ pc' > 5 /\ ~kept' /\ Now'.do = "PREPARE" => Pausing' = 18944
         /\ pc' > 5 /\ ~kept' /\ Now'.do = "zeros" => Pausing' = 15104
         /\ pc' > 5 /\ ~kept' /\ Now'.do \notin {"PREPARE", "zeros"} => Pausing' = 6592
BY DEF Pausing

(* Time takes no more from the lease than what was allowed for.            *)
LEMMA WaitLease ==
  ASSUME Late \subseteq 0..256, Control, Numbers, StreamInv, BufferInv, Wait, Clean',
         Now.do # "SAFE", Lit, Covered
  PROVE  Lit' /\ Covered'
<1>1. Placed
  BY ControlPlaced
<1>2. /\ phase = "main" /\ UNCHANGED <<program, phase, pc, left, kept, result>> /\ ~due /\ due'
      /\ Now' = Now /\ Clean
  BY PromptWait
<1>3. PICK e \in Nat :
         /\ e >= Duration /\ e <= Duration + 256
         /\ lease > e => lease' = lease - e /\ amp' = amp
         /\ stream = "running" /\ queue > e => stream' = "running" /\ queue' = queue - e
         /\ stream = "running" /\ queue <= e => stream' = "xrun"
         /\ stream # "running" => stream' = stream /\ queue' = queue
  BY PromptWait
<1>4. queue \in Nat /\ lease \in Nat /\ left \in Nat /\ pc \in Nat
  BY <1>1, BufferIs DEF Numbers, Control, PlaceInv, Placed
<1>5. (Armed <=> Armed') /\ Playing' = Playing /\ Pausing' = Pausing
  <2>1. Armed <=> Armed'
    BY <1>2 DEF Armed
  <2>2. Playing' = Playing
    BY <1>2, <2>1 DEF Playing
  <2>3. Pausing' = Pausing
    BY <1>2 DEF Pausing
  <2> QED BY <2>1, <2>2, <2>3
<1>6. ASSUME amp' = amp PROVE Lit'
  BY <1>5, <1>6 DEF Lit, Audible
<1>7. CASE stream = "running"
  <2>1. pc # Len(Script)
    BY <1>1 DEF Placed
  <2>2. Ample
    BY <1>2, <1>7, <2>1 DEF BufferInv
  <2>3. stream' = "running"
    BY <1>7, <2>1, <2>2, WaitAmple
  <2>4. queue > e /\ queue' = queue - e
    BY <1>3, <1>4, <1>7, <2>3
  <2>5. lease >= queue + Playing /\ Playing \in Nat
    BY <1>4, <1>7, PlayingIs DEF Covered
  <2>6. lease > e
    BY <1>4, <2>4, <2>5
  <2>7. lease' = lease - e /\ amp' = amp
    BY <1>3, <2>6
  <2>8. lease' >= queue' + Playing'
    BY <1>4, <1>5, <2>4, <2>5, <2>7
  <2> QED BY <1>6, <2>3, <2>7, <2>8 DEF Covered
<1>8. CASE stream # "running"
  <2>1. Now.do \in Loops => left >= 1
    BY <1>2 DEF Control, PlaceInv
  <2>2. Duration \in Nat /\ Duration <= 4800
    BY <1>1, <1>4, <1>8, <2>1, DurationIs
  <2>3. Awaited = 0 /\ lease >= Pausing /\ Pausing \in Nat /\ Pausing >= 6592
    BY <1>2, <1>4, <1>8, PausingIs DEF Covered, Awaited
  <2>4. lease > e
    BY <1>3, <1>4, <2>2, <2>3
  <2>5. lease' = lease - e /\ amp' = amp /\ stream' = stream
    BY <1>3, <1>8, <2>4
  <2>6. Awaited' = Duration + 256
    <3>1. AtWrite' <=> AtWrite
      BY <1>2 DEF AtWrite, AtKeepalive, Loops
    <3>2. AtKeepalive' <=> AtKeepalive
      BY <1>2 DEF AtKeepalive, Loops
    <3>3. Duration' = Duration
      BY <1>2, <1>8, <2>5, <3>1, <3>2 DEF Duration
    <3> QED BY <1>2, <3>3 DEF Awaited
  <2>7. lease' + Awaited' >= Pausing'
    BY <1>3, <1>4, <1>5, <2>2, <2>3, <2>5, <2>6
  <2> QED BY <1>6, <1>8, <2>5, <2>7 DEF Covered
<1> QED BY <1>7, <1>8

(* In a clean run the stream runs where it should.                         *)
LEMMA Runs ==
  ASSUME Control, StreamInv, BufferInv, Clean, phase = "main", pc # Len(Script), pc > 4,
         Now.do \notin {"sleep", "PREPARE"}, ~(Starts(pc) /\ left = Now.frames)
  PROVE  stream = "running"
BY DEF StreamInv, BufferInv

(* A write takes from the lease what it adds to the buffer.                *)
LEMMA WriteLease ==
  ASSUME Control, Numbers, StreamInv, BufferInv, Write, Clean, phase' = "main",
         Now'.do \notin {"SAFE", "ARM_MUTED"}, Lit, Covered
  PROVE  Lit' /\ Covered'
<1>1. /\ phase = "main" /\ AtWrite /\ Now.do \in Writes /\ Now.do \in Loops /\ due
      /\ amp' = amp /\ lease' = lease
  BY DEF Write, AtWrite, Loops, Writes, gate
<1>2. /\ pc > 4 /\ left >= 1 /\ left \in Nat /\ left <= Now.frames /\ pc # Len(Script)
      /\ Chunk \in Nat /\ Chunk <= 1024 /\ Chunk <= left /\ (left > Chunk => Chunk = 1024)
  BY <1>1, WritesAre
<1>3. Placed /\ pc \in 1..Len(Script) /\ result \in {0, 1} /\ pc \in Nat
  BY ControlPlaced DEF Control, Placed
<1>4. stream # "xrun"
  BY <1>1, <1>2 DEF BufferInv
<1>5. Iterated /\ queue' = queue + Chunk /\ stream' = "running"
  BY <1>4 DEF Write
<1>6. left \in 1..Now.frames
  BY <1>2, <1>3 DEF Placed
<1>7. /\ program' = program /\ ~due' /\ ~kept' /\ Script' = Script
      /\ \/ Moved /\ left <= Chunk
         \/ left > Chunk /\ left' = left - Chunk /\ left' < Now.frames /\ Now' = Now /\ pc' = pc
  BY <1>1, <1>3, <1>5, <1>6, IteratedLeft
<1>8. queue \in Nat /\ lease \in Nat
  BY BufferIs DEF Numbers
<1>9. pc' # 4
  BY <1>2, <1>3, <1>7 DEF Moved
<1>10. ASSUME Moved PROVE Succ(pc, Now, Now') /\ Now \in Steps /\ Now' \in Steps
  BY <1>3, <1>10 DEF Moved, Placed
<1>11. CASE Now.do = "unkept_zeros"
  <2>1. Armed /\ Armed'
    <3>1. Moved => Now'.do = "UNMUTE"
      BY <1>10, <1>11, Names
    <3> QED BY <1>7, <1>11, <3>1 DEF Armed
  <2>2. left' = left - Chunk
    <3>1. CASE Moved /\ left <= Chunk
      <4>1. Now' = Call("UNMUTE")
        BY <1>10, <1>11, <3>1 DEF Succ
      <4>2. left' = 0
        BY <3>1, <4>1, CallsTakeNoFrames DEF Moved
      <4> QED BY <1>2, <3>1, <4>2
    <3> QED BY <1>7, <3>1
  <2>3. lease >= queue + 20000 + left
    <3>1. CASE stream = "running"
      BY <1>2, <1>8, <2>1, <3>1, PlayingIs DEF Covered
    <3>2. CASE stream # "running"
      <4>1. Starts(pc) /\ queue = 0
        BY <1>2, <1>1, <1>3, <1>4, <3>2 DEF StreamInv, Writes
      <4>2. Now.frames = 8192 /\ pc = 5
        <5>1. pc = 5
          <6>1. pc = 11 => program # "i2s_clock_ab"
            BY <1>2, <1>3, <1>11 DEF Placed, Succ
          <6> QED BY <4>1, <6>1 DEF Starts
        <5> QED BY <1>3, <5>1, LoopTyped DEF Placed
      <4>3. Pausing = 139904 /\ Awaited = 256
        <5>1. Duration = 0
          <6>1. Now.do \in Loops => left >= 1
            BY <1>2
          <6> QED BY <1>1, <1>2, <1>3, <1>8, <3>2, <6>1, DurationIs
        <5> QED BY <1>1, <1>3, <4>2, <5>1, PausingIs DEF Awaited
      <4> QED BY <1>2, <1>8, <3>2, <4>1, <4>2, <4>3 DEF Covered
    <3> QED BY <3>1, <3>2
  <2>4. lease' >= queue' + Playing'
    <3>1. Playing' = 20000 + left'
      BY <2>1, PlayingNext
    <3> QED BY <1>1, <1>2, <1>5, <1>8, <2>2, <2>3, <3>1
  <2>5. Lit'
    BY <1>1, <2>1 DEF Lit
  <2> QED BY <1>5, <2>4, <2>5 DEF Covered
<1>12. CASE Now.do # "unkept_zeros"
  <2>1. kept /\ ~Armed
    BY <1>1, <1>2, <1>3, <1>12 DEF AtWrite, AtKeepalive, Loops, Writes, Armed
  <2>2. ~Armed'
    <3>1. CASE Moved
      BY <1>1, <1>9, <1>10, <1>12, <3>1, Names DEF Armed, Writes, Requests
    <3> QED BY <1>7, <1>9, <2>1, <3>1 DEF Armed
  <2>3. lease >= queue + 7616
    <3>1. CASE stream = "running"
      BY <1>2, <1>8, <2>1, <3>1, PlayingIs DEF Covered
    <3>2. CASE stream # "running"
      <4>1. queue = 0 /\ pc > 5
        <5>1. pc # 5
          BY <1>3, <1>12, LoopTyped DEF Placed
        <5> QED BY <1>2, <1>3, <3>2, <5>1 DEF StreamInv
      <4>2. Pausing = 24000 /\ Awaited = 256
        <5>1. Duration = 0
          <6>1. Now.do \in Loops => left >= 1
            BY <1>2
          <6> QED BY <1>1, <1>2, <1>3, <1>8, <3>2, <6>1, DurationIs
        <5> QED BY <1>1, <1>3, <2>1, <4>1, <5>1, PausingIs DEF Awaited
      <4> QED BY <1>8, <3>2, <4>1, <4>2 DEF Covered
    <3> QED BY <3>1, <3>2
  <2>4. lease' >= queue' + Playing'
    <3>1. Playing' = 6592
      BY <1>7, <2>2, PlayingNext
    <3> QED BY <1>1, <1>2, <1>5, <1>8, <2>3, <3>1
  <2>5. Lit'
    BY <1>1, <2>1, <2>2 DEF Lit, Audible
  <2> QED BY <1>5, <2>4, <2>5 DEF Covered
<1> QED BY <1>11, <1>12

(* A call that renews the lease behind an amplifier that is on.            *)
LEMMA RenewedLease ==
  ASSUME Numbers, Audible(amp'), lease' = LIVE_LEASE, queue' = queue, stream' = "running",
         ~kept', ~Armed'
  PROVE  Lit' /\ Covered'
<1>1. queue \in Nat /\ queue <= 16384
  BY BufferIs DEF Numbers
<1>2. lease' >= queue' + Playing'
  BY <1>1, PlayingNext DEF LIVE_LEASE
<1> QED BY <1>2 DEF Lit, Covered, Audible

LEMMA ArmLease ==
  ASSUME Control, Numbers, StreamInv, StreamInv', BufferInv, Clean, ArmMuted, phase' = "main",
         Now'.do \notin {"SAFE", "ARM_MUTED"}
  PROVE  Lit' /\ Covered'
<1>1. Placed /\ pc \in 1..Len(Script) /\ pc \in Nat
  BY ControlPlaced DEF Control, Placed
<1>2. /\ phase = "main" /\ Now.do = "ARM_MUTED" /\ Advance
      /\ amp' = [enabled |-> TRUE, unmuted |-> FALSE] /\ lease' = 144000
      /\ stream' = stream /\ queue' = queue
  BY DEF ArmMuted, At, Leave, pcm, ARM_LEASE
<1>3. ~due' /\ ~kept' /\ (Moved \/ Passed)
  BY <1>1, <1>2, Advanced
<1>4. Moved
  BY <1>3 DEF Passed
<1>5. Succ(pc, Now, Now') /\ pc' = pc + 1 /\ left' = Now'.frames /\ pc # Len(Script)
  BY <1>1, <1>4 DEF Moved, Placed
<1>6. CASE pc = 2 /\ Now' = Call("open_PCM")
  <2>1. Armed' /\ pc' = 3
    BY <1>5, <1>6, CallsAre DEF Armed
  <2>2. stream # "running"
    BY <1>2, <1>6 DEF StreamInv
  <2>3. Awaited' = 0 /\ Pausing' = 144000
    BY <1>3, <2>1, PausingNext DEF Awaited
  <2> QED BY <1>2, <2>1, <2>2, <2>3 DEF Lit, Covered
<1>7. CASE program = "mute_ab" /\ pc = 9 /\ Now' = MutedWindow
  <2>1. Armed' /\ left' = 96256
    BY <1>5, <1>7, LoopTyped DEF Armed
  <2>2. stream = "running"
    BY <1>2, <1>5, <1>7, Runs DEF Starts
  <2>3. queue \in Nat /\ queue <= 16384
    BY BufferIs DEF Numbers
  <2>4. lease' >= queue' + Playing'
    BY <1>2, <2>1, <2>3, PlayingNext
  <2> QED BY <1>2, <2>1, <2>2, <2>4 DEF Lit, Covered
<1> QED BY <1>2, <1>5, <1>6, <1>7 DEF Succ

LEMMA UnmuteLease ==
  ASSUME Control, Numbers, Flags, StreamInv, BufferInv, Clean, Unmute, phase' = "main"
  PROVE  Lit' /\ Covered'
<1>1. Placed /\ pc \in 1..Len(Script) /\ pc \in Nat
  BY ControlPlaced DEF Control, Placed
<1>2. /\ phase = "main" /\ Now.do = "UNMUTE" /\ Advance
      /\ amp.enabled /\ amp' = [amp EXCEPT !.unmuted = TRUE] /\ lease' = LIVE_LEASE
      /\ stream' = stream /\ queue' = queue
  BY DEF Unmute, At, Leave, pcm
<1>3. ~due' /\ ~kept' /\ (Moved \/ Passed)
  BY <1>1, <1>2, Advanced
<1>4. Moved
  BY <1>3 DEF Passed
<1>5. Succ(pc, Now, Now') /\ pc' = pc + 1 /\ pc # Len(Script) /\ Now \in Steps /\ Now' \in Steps
  BY <1>1, <1>4 DEF Moved, Placed
<1>6. pc \in {6, 11} /\ (pc = 11 => program = "mute_ab")
  BY <1>2, <1>5 DEF Succ
<1>7. stream = "running"
  BY <1>2, <1>5, <1>6, Runs DEF Starts
<1>8. ~Armed'
  <2>1. Now'.do \in {"tone", "zeros"}
    BY <1>2, <1>5, Names
  <2> QED BY <1>5, <1>6, <2>1 DEF Armed
<1>9. Audible(amp')
  BY <1>2 DEF Flags, Audible
<1> QED BY <1>2, <1>3, <1>7, <1>8, <1>9, RenewedLease

LEMMA KeepLease ==
  ASSUME Control, Numbers, StreamInv, Keepalive, phase' = "main", Lit
  PROVE  Lit' /\ Covered'
<1>1. Placed /\ pc \in 1..Len(Script) /\ pc \in Nat
  BY ControlPlaced DEF Control, Placed
<1>2. /\ phase = "main" /\ Now.do \in Loops \ {"unkept_zeros"} /\ amp' = amp /\ lease' = LIVE_LEASE
      /\ kept' /\ ~due' /\ UNCHANGED <<program, pc, left, stream, queue>>
  BY DEF Keepalive, Leave, pcm, AtKeepalive
<1>3. Now' = Now
  BY <1>2, Stayed
<1>4. pc > 5
  BY <1>1, <1>2, LoopTyped DEF Placed, Loops
<1>5. ~Armed /\ ~Armed'
  BY <1>2, <1>3, <1>4 DEF Armed, Loops
<1>6. Lit'
  BY <1>2, <1>5 DEF Lit, Audible
<1>7. queue \in Nat /\ queue <= 16384
  BY BufferIs DEF Numbers
<1>8. CASE stream = "running"
  <2>1. lease' >= queue' + Playing'
    BY <1>2, <1>5, <1>7, PlayingNext DEF LIVE_LEASE
  <2> QED BY <1>2, <1>6, <1>8, <2>1 DEF Covered
<1>9. CASE stream # "running"
  <2>1. Awaited' = 0 /\ Pausing' = 24000
    BY <1>1, <1>2, <1>4, PausingNext DEF Awaited
  <2> QED BY <1>2, <1>6, <1>9, <2>1 DEF Covered, LIVE_LEASE
<1> QED BY <1>8, <1>9

LEMMA RequestLease ==
  ASSUME Control, Numbers, StreamInv, BufferInv, Clean, CodecRequest, phase' = "main", Lit
  PROVE  Lit' /\ Covered'
<1>1. Placed /\ pc \in 1..Len(Script) /\ pc \in Nat
  BY ControlPlaced DEF Control, Placed
<1>2. /\ phase = "main" /\ Now.do \in Requests /\ Advance
      /\ amp' = amp /\ lease' = LIVE_LEASE /\ stream' = stream /\ queue' = queue
  BY DEF CodecRequest, At, Leave, pcm, Requests
<1>3. ~due' /\ ~kept' /\ (Moved \/ Passed)
  BY <1>1, <1>2, Advanced
<1>4. Moved
  BY <1>3 DEF Passed
<1>5. Succ(pc, Now, Now') /\ pc' = pc + 1 /\ pc # Len(Script) /\ Now \in Steps /\ Now' \in Steps
  BY <1>1, <1>4 DEF Moved, Placed
<1>6. pc >= 8 /\ program # "i2s_clock_ab"
  BY <1>2, <1>5 DEF Succ
<1>7. stream = "running"
  BY <1>1, <1>2, <1>5, <1>6, Runs DEF Starts, Requests
<1>8. ~Armed /\ ~Armed'
  <2>1. Now'.do \in {"zeros", "MINUS14DB", "MINUS28DB", "DAC_UNMUTE", "tone"}
    BY <1>2, <1>5, Names
  <2> QED BY <1>1, <1>2, <1>5, <1>6, <2>1 DEF Armed, Requests
<1>9. Audible(amp')
  BY <1>2, <1>8 DEF Lit
<1> QED BY <1>2, <1>3, <1>7, <1>8, <1>9, RenewedLease

(* The calls around the stream, which do not touch the lease.              *)
LEMMA StreamLease ==
  ASSUME Control, Numbers, StreamInv, BufferInv, Clean, OpenPcm \/ Prepare \/ Drop, phase' = "main",
         Lit, Covered
  PROVE  Lit' /\ Covered'
<1>1. Placed /\ pc \in 1..Len(Script) /\ pc \in Nat
  BY ControlPlaced DEF Control, Placed
<1>2. /\ phase = "main" /\ due /\ Now.do \in {"open_PCM", "PREPARE", "DROP"} /\ Advance
      /\ amp' = amp /\ lease' = lease /\ stream' # "running"
      /\ Now.do \in {"open_PCM", "PREPARE"} => queue' = queue
  BY DEF OpenPcm, Prepare, Drop, At, gate
<1>3. ~due' /\ ~kept' /\ (Moved \/ Passed)
  BY <1>1, <1>2, Advanced
<1>4. Moved
  BY <1>3 DEF Passed
<1>5. Succ(pc, Now, Now') /\ pc' = pc + 1 /\ pc # Len(Script) /\ Now \in Steps /\ Now' \in Steps
  BY <1>1, <1>4 DEF Moved, Placed
<1>6. lease \in Nat /\ queue \in Nat /\ Now.do \notin Loops /\ left \in Nat
  BY <1>1, <1>2, BufferIs DEF Numbers, Loops, Control, PlaceInv, Placed
<1>7. Awaited' = 0
  BY <1>3 DEF Awaited
<1>8. ASSUME Lit', lease >= Pausing' PROVE Lit' /\ Covered'
  BY <1>2, <1>6, <1>7, <1>8 DEF Covered
<1>9. ~kept
  BY <1>2 DEF Control, PlaceInv, Loops
<1>10. CASE Now.do = "open_PCM"
  <2>1. pc = 3 /\ Now' = Call("PREPARE")
    BY <1>5, <1>10 DEF Succ
  <2>2. stream # "running"
    BY <1>2, <2>1 DEF StreamInv
  <2>3. Awaited = 256 /\ Pausing = 144000
    BY <1>1, <1>2, <1>6, <1>10, <2>1, CallTakes, PausingIs DEF Awaited
  <2>4. lease >= 143744
    BY <1>6, <2>2, <2>3 DEF Covered
  <2>5. Pausing' = 143744 /\ Armed /\ Armed'
    BY <1>5, <1>10, <2>1, PausingNext DEF Armed
  <2>6. Lit'
    BY <1>2, <2>5 DEF Lit
  <2> QED BY <1>8, <2>4, <2>5, <2>6
<1>11. CASE Now.do = "PREPARE"
  <2>1. \/ pc = 4 /\ Now' = Preroll
        \/ program = "i2s_clock_ab" /\ pc = 10 /\ Now' = Window
    BY <1>5, <1>11 DEF Succ
  <2>2. stream # "running"
    BY <1>2, <1>11 DEF StreamInv
  <2>3. Awaited = 3840
    BY <1>2, <1>6, <1>11, CallTakes DEF Awaited
  <2>4. CASE pc = 4 /\ Now' = Preroll
    <3>1. Pausing = 143744 /\ Pausing' = 139904
      BY <1>1, <1>5, <2>4, PausingIs, PausingNext
    <3>2. lease >= Pausing'
      BY <1>6, <2>2, <2>3, <3>1 DEF Covered
    <3>3. Armed /\ Armed'
      BY <2>4, LoopTyped DEF Armed
    <3>4. Lit'
      BY <1>2, <3>3 DEF Lit
    <3> QED BY <1>8, <3>2, <3>4
  <2>5. CASE pc = 10 /\ Now' = Window
    <3>1. Pausing = 18944 /\ Pausing' = 15104
      BY <1>1, <1>3, <1>5, <1>9, <1>11, <2>5, LoopTyped, PausingIs, PausingNext
    <3>2. lease >= Pausing'
      BY <1>6, <2>2, <2>3, <3>1 DEF Covered
    <3>3. ~Armed /\ ~Armed'
      BY <1>5, <1>11, <2>5, LoopTyped DEF Armed
    <3>4. Lit'
      BY <1>2, <3>3 DEF Lit, Audible
    <3> QED BY <1>8, <3>2, <3>4
  <2> QED BY <2>1, <2>4, <2>5
<1>12. CASE Now.do = "DROP"
  <2>1. pc = 8 /\ Now' = Pause
    BY <1>5, <1>12 DEF Succ
  <2>2. stream = "running"
    BY <1>2, <1>5, <1>12, <2>1, Runs DEF Starts
  <2>3. ~Armed /\ ~Armed'
    BY <1>5, <1>12, <2>1, LoopTyped DEF Armed
  <2>4. lease >= 6592
    BY <1>6, <2>2, <2>3, PlayingIs DEF Covered
  <2>5. Pausing' = 6592
    BY <1>3, <1>5, <2>1, LoopTyped, PausingNext
  <2>6. Lit'
    BY <1>2, <2>3 DEF Lit, Audible
  <2> QED BY <1>8, <2>4, <2>5, <2>6
<1> QED BY <1>2, <1>10, <1>11, <1>12

LEMMA SleepLease ==
  ASSUME Control, Numbers, StreamInv, Sleep, phase' = "main", Lit, Covered
  PROVE  Lit' /\ Covered'
<1>1. Placed /\ pc \in 1..Len(Script) /\ pc \in Nat /\ result \in {0, 1}
  BY ControlPlaced DEF Control, Placed
<1>2. /\ phase = "main" /\ due /\ kept /\ Now.do = "sleep" /\ Iterated
      /\ UNCHANGED <<amp, lease, stream, queue>>
  BY DEF Sleep, gate, pcm
<1>3. left \in 1..Now.frames /\ Now.do \in Loops
  BY <1>1, <1>2 DEF Control, PlaceInv, Loops, Placed
<1>4. /\ ~due' /\ ~kept'
      /\ \/ Moved
         \/ Now' = Now /\ pc' = pc
  BY <1>1, <1>2, <1>3, IteratedLeft
<1>5. pc # Len(Script)
  BY <1>1, <1>2 DEF Placed
<1>6. Succ(pc, Now, Script[pc + 1]) /\ Now \in Steps /\ Script[pc + 1] \in Steps
  BY <1>1, <1>5 DEF Placed
<1>7. pc = 9 /\ Script[pc + 1] = Call("PREPARE")
  BY <1>2, <1>6 DEF Succ
<1>8. stream = "stopped"
  BY <1>2 DEF StreamInv
<1>9. Awaited = 5056 /\ Pausing = 24000
  <2>1. Duration = 4800
    BY <1>2 DEF Duration, AtKeepalive, AtWrite, Loops
  <2> QED BY <1>1, <1>2, <1>7, <2>1, PausingIs DEF Awaited
<1>10. lease \in Nat /\ lease >= 18944
  BY <1>8, <1>9 DEF Covered, Numbers
<1>11. (pc' = 10 /\ Now'.do = "PREPARE") \/ (pc' = 9 /\ Now'.do = "sleep")
  BY <1>2, <1>4, <1>7, CallsAre DEF Moved
<1>12. Pausing' \in {18944, 6592} /\ Awaited' = 0
  BY <1>4, <1>11, PausingNext DEF Awaited
<1>13. ~Armed /\ ~Armed'
  BY <1>2, <1>7, <1>11 DEF Armed
<1>14. Lit'
  BY <1>2, <1>13 DEF Lit, Audible
<1>15. lease' + Awaited' >= Pausing'
  BY <1>2, <1>10, <1>12
<1> QED BY <1>2, <1>8, <1>14, <1>15 DEF Covered

-----------------------------------------------------------------------------
(* The run passes: PassInv.                                                *)

LEMMA NothingFails ==
  ASSUME NEW K \in SUBSET (Regulators \cup {"call"}), Fails(K), Clean, Clean'
  PROVE  K = {}
<1>1. One("mute", K) + One("shutdown", K) + One("call", K) = 0
  BY DEF Fails, Clean, One
<1>2. "mute" \notin K /\ "shutdown" \notin K /\ "call" \notin K
  BY <1>1 DEF One
<1> QED BY <1>2 DEF Regulators

(* In an undisturbed run the lease outlives the queue: the step is one of  *)
(* main, which found the amplifier lit and the lease long enough, or takes *)
(* or renews a lease.                                                      *)
LEMMA NextLease ==
  ASSUME Late \subseteq 0..256, Control, Numbers, Flags, StreamInv, BufferInv, LeaseInv,
         [Next]_vars
  PROVE  LeaseInv'
<1>1. Placed /\ pc \in 1..Len(Script) /\ StreamInv'
  BY ControlPlaced, NextStream DEF Control
<1>2. SUFFICES ASSUME phase' = "main", Clean', Now'.do \notin {"SAFE", "ARM_MUTED"}
               PROVE  Lit' /\ Covered'
  BY DEF LeaseInv
<1>3. Clean
  BY <1>2, CleanBefore
<1>4. phase = "main" /\ Now.do \notin {"SAFE", "ARM_MUTED"} => Lit /\ Covered
  BY <1>3 DEF LeaseInv
<1>5. CASE Wait
  <2>1. phase = "main" /\ Now' = Now
    BY <1>2, <1>5, PromptWait
  <2> QED BY <1>2, <1>4, <1>5, <2>1, WaitLease
<1>6. CASE OpenGate
  <2>1. pc = 1 /\ Now' = Now
    BY <1>6, Stayed DEF OpenGate, Control, PlaceInv
  <2> QED BY <1>1, <1>2, <2>1 DEF Placed
<1>7. CASE Safe
  <2>1. phase = "main" /\ Now.do = "SAFE" /\ Advance
    BY <1>2, <1>7 DEF Safe, At, Leave
  <2>2. Moved
    BY <1>1, <1>2, <2>1, Advanced DEF Passed
  <2>3. Succ(pc, Now, Now') /\ Now \in Steps /\ Now' \in Steps
    BY <1>1, <2>2 DEF Moved, Placed
  <2> QED BY <1>2, <2>1, <2>3, Names
<1>8. CASE ArmMuted
  BY <1>1, <1>2, <1>3, <1>8, ArmLease
<1>9. CASE Unmute
  BY <1>2, <1>3, <1>9, UnmuteLease
<1>10. CASE Keepalive
  <2>1. phase = "main" /\ Now.do \in Loops
    BY <1>10 DEF Keepalive, AtKeepalive
  <2> QED BY <1>2, <1>4, <1>10, <2>1, KeepLease DEF Loops
<1>11. CASE CodecRequest
  <2>1. phase = "main" /\ Now.do \in Requests
    BY <1>11 DEF CodecRequest, At, Requests
  <2> QED BY <1>2, <1>3, <1>4, <1>11, <2>1, RequestLease DEF Requests
<1>12. CASE OpenPcm \/ Prepare \/ Drop
  <2>1. phase = "main" /\ Now.do \in {"open_PCM", "PREPARE", "DROP"}
    BY <1>12 DEF OpenPcm, Prepare, Drop, At
  <2> QED BY <1>2, <1>3, <1>4, <1>12, <2>1, StreamLease
<1>13. CASE Write
  <2>1. phase = "main" /\ Now.do \in Loops
    BY <1>13 DEF Write, AtWrite
  <2> QED BY <1>2, <1>3, <1>4, <1>13, <2>1, WriteLease DEF Loops
<1>14. CASE Sleep
  <2>1. phase = "main" /\ Now.do = "sleep"
    BY <1>14 DEF Sleep
  <2> QED BY <1>2, <1>4, <1>14, <2>1, SleepLease
<1>15. CASE CallFails \/ End \/ Kill
  BY <1>2, <1>15 DEF CallFails, Leave, End, OutSafe, OutDrop, OutClose, Release, KilledRelease,
    KilledClose, Finish, Kill
<1>16. CASE UNCHANGED vars
  <2>1. UNCHANGED <<program, phase, pc, left, kept, due, amp, lease, stream, queue>>
    BY <1>16 DEF vars, client, gate, pcm
  <2>2. Now' = Now /\ BUFFER' = BUFFER
    BY <2>1, Stayed, Same
  <2>3. Lit /\ Covered
    BY <1>2, <1>4, <2>1, <2>2
  <2>4. Lit' /\ Armed' = Armed
    BY <2>1, <2>2, <2>3 DEF Lit, Armed, Audible
  <2>5. Playing' = Playing /\ Pausing' = Pausing /\ Awaited' = Awaited
    BY <2>1, <2>2, <2>4 DEF Playing, Pausing, Awaited, Duration, AtWrite, AtKeepalive, Loops, Chunk,
      Amin, Amax, PERIOD
  <2> QED BY <2>1, <2>3, <2>4, <2>5 DEF Covered
<1> QED BY <1>5, <1>6, <1>7, <1>8, <1>9, <1>10, <1>11, <1>12, <1>13, <1>14, <1>15, <1>16
  DEF Next, Main

(* What a call of main finds in an undisturbed run: nothing it can fail at.*)
LEMMA RequestAccepted ==
  ASSUME Control, StreamInv, CodecInv, LeaseInv, Clean, CodecRequest, program \notin Refused
  PROVE  Advance
<1>1. Placed /\ pc \in 1..Len(Script) /\ pc \in Nat
  BY ControlPlaced DEF Control, Placed
<1>2. phase = "main" /\ due /\ Now.do \in Requests
  BY DEF CodecRequest, At, Requests
<1>3. pc # Len(Script)
  BY <1>1, <1>2 DEF Placed, Requests
<1>4. Succ(pc, Now, Script[pc + 1])
  BY <1>1, <1>3 DEF Placed
<1>5. pc >= 8 /\ program # "i2s_clock_ab"
  BY <1>2, <1>4 DEF Succ
<1>6. Codec(pc, Now.do) /\ dac = OutputAt(pc) /\ volume = VolumeAt(pc)
  BY <1>1, <1>2, <1>3, <1>5 DEF Placed, CodecInv
<1>7. ~Armed
  BY <1>1, <1>2, <1>5 DEF Armed, Requests
<1>8. amp.unmuted
  BY <1>2, <1>7 DEF LeaseInv, Lit, Audible, Requests
<1>9. stream # "closed"
  <2>1. ~Starts(pc)
    BY <1>1, <1>2, <1>5 DEF Starts
  <2> QED BY <1>1, <1>2, <1>5, <2>1 DEF StreamInv, Requests
<1>10. Now.do \in {"DAC_MUTE", "DAC_UNMUTE"} /\ dac \in {"on", "muted"}
  BY <1>2, <1>6 DEF Codec, Requests
<1>11. Permitted(Now.do) /\ ReadsBack(Now.do)
  BY <1>10 DEF Permitted, ReadsBack
<1> QED BY <1>8, <1>9, <1>11 DEF CodecRequest

(* Main leaves an undisturbed run by its end only.                         *)
LEMMA LeavesPassed ==
  ASSUME Control, Numbers, Flags, StreamInv, CodecInv, BufferInv, LeaseInv, Clean, Clean', Main,
         phase' = "safe", program \notin Refused
  PROVE  result' = 0
<1>1. Placed /\ pc \in 1..Len(Script) /\ pc \in Nat
  BY ControlPlaced DEF Control, Placed
<1>2. ASSUME phase = "main", Advance PROVE result' = 0
  BY <1>1, <1>2, Advanced DEF Passed, Moved
<1>3. CASE OpenGate
  BY <1>3 DEF OpenGate
<1>4. CASE Safe
  <2>1. phase = "main"
    BY <1>4 DEF Safe, At
  <2>2. PICK K \in SUBSET Regulators : Fails(K) /\ (IF K = {} THEN Advance ELSE Leave)
    BY <1>4 DEF Safe
  <2>3. K = {}
    BY <2>2, NothingFails
  <2> QED BY <1>2, <2>1, <2>2, <2>3
<1>5. CASE ArmMuted
  <2>1. phase = "main"
    BY <1>5 DEF ArmMuted, At
  <2>2. Advance \/ \E K \in SUBSET (Regulators \cup {"call"}) : K # {} /\ Fails(K)
    BY <1>5 DEF ArmMuted
  <2> QED BY <1>2, <2>1, <2>2, NothingFails
<1>6. CASE Unmute
  <2>1. phase = "main" /\ Now.do = "UNMUTE"
    BY <1>6 DEF Unmute, At
  <2>2. amp.enabled /\ ~amp.unmuted
    BY <2>1 DEF LeaseInv, Lit, Armed
  <2> QED BY <1>2, <1>6, <2>1, <2>2 DEF Unmute
<1>7. CASE Keepalive
  <2>1. phase = "main" /\ Now.do \in Loops \ {"unkept_zeros"}
    BY <1>7 DEF Keepalive, AtKeepalive
  <2>2. ~Armed
    BY <1>1, <2>1 DEF Armed, Placed, Loops
  <2>3. amp.unmuted
    BY <2>1, <2>2 DEF LeaseInv, Lit, Audible, Loops
  <2> QED BY <1>7, <2>1, <2>3 DEF Keepalive
<1>8. CASE CodecRequest
  <2>1. phase = "main"
    BY <1>8 DEF CodecRequest, At
  <2> QED BY <1>2, <1>8, <2>1, RequestAccepted
<1>9. CASE OpenPcm \/ Prepare \/ Drop
  BY <1>2, <1>9 DEF OpenPcm, Prepare, Drop, At
<1>10. CASE Write
  <2>1. phase = "main" /\ Now.do \in Writes
    BY <1>10 DEF Write, AtWrite, Loops, Writes
  <2>2. stream # "xrun"
    BY <2>1, WritesAre DEF BufferInv
  <2> QED BY <1>2, <1>10, <2>1, <2>2 DEF Write, Iterated
<1>11. CASE Sleep
  BY <1>2, <1>11 DEF Sleep, Iterated
<1>12. CASE CallFails
  <2>1. Fails({"call"})
    BY <1>12 DEF CallFails
  <2>2. {"call"} = {}
    BY <2>1, NothingFails
  <2> QED BY <2>2
<1> QED BY <1>3, <1>4, <1>5, <1>6, <1>7, <1>8, <1>9, <1>10, <1>11, <1>12 DEF Main

LEMMA NextPass ==
  ASSUME Control, Numbers, Flags, StreamInv, CodecInv, BufferInv, LeaseInv, PassInv, [Next]_vars
  PROVE  PassInv'
<1>0. program' = program
  BY NextControl DEF ControlKept
<1>1. SUFFICES ASSUME phase' \in {"safe", "drop", "close_PCM", "close_gate"}, Clean',
                      program \notin Refused
               PROVE  result' = 0
  BY <1>0 DEF PassInv, Refused
<1>2. Clean
  BY <1>1, CleanBefore
<1>3. CASE Wait
  BY <1>1, <1>3 DEF Wait
<1>4. CASE Main
  <2>1. phase' = "safe"
    <3>1. phase \in {"start", "main"}
      BY <1>4 DEF Main, OpenGate, Safe, ArmMuted, Unmute, Keepalive, CodecRequest, OpenPcm,
        Prepare, Drop, Write, Sleep, CallFails, At
    <3>2. phase' \in {"main", "exited", "safe", phase}
      BY <1>4 DEF Main, OpenGate, Safe, ArmMuted, Unmute, Keepalive, CodecRequest, OpenPcm,
        Prepare, Drop, Write, Sleep, CallFails, Advance, Iterated, Leave
    <3> QED BY <1>1, <3>1, <3>2
  <2> QED BY <1>2, <1>1, <1>4, <2>1, LeavesPassed
<1>5. CASE End
  BY <1>1, <1>2, <1>5 DEF PassInv, End, OutSafe, OutDrop, OutClose, Release, KilledRelease, KilledClose,
    Finish
<1>6. CASE Kill
  BY <1>1, <1>6 DEF Kill
<1>7. CASE UNCHANGED vars
  BY <1>1, <1>2, <1>7 DEF PassInv, vars, client
<1> QED BY <1>3, <1>4, <1>5, <1>6, <1>7 DEF Next

LEMMA CleanInvariance ==
  ASSUME Late \subseteq 0..256 PROVE Spec => [](BufferInv /\ LeaseInv /\ PassInv)
<1>1. Init => BufferInv /\ LeaseInv /\ PassInv
  BY DEF Init, BufferInv, LeaseInv, PassInv
<1>2. Inv /\ BufferInv /\ LeaseInv /\ PassInv /\ [Next]_vars => (BufferInv /\ LeaseInv /\ PassInv)'
  BY NextBuffer, NextLease, NextPass DEF Inv
<1> QED BY Invariance, <1>1, <1>2, PTL DEF Spec

(* main's exit status tells whether the tone was heard.  A run in which no *)
(* call fails, and none is later than 256 frames, comes to its end with    *)
(* status 0 in nine programs: no lease runs out, no buffer runs dry, and   *)
(* the gate and the codec accept every request where the program makes it. *)
(* The other three ask for a volume or a boundary, which the codec never   *)
(* grants on the factory route, and end with status 1.  And a run that     *)
(* ends with status 0 was heard, however late its calls were.              *)
THEOREM StatusTold == ASSUME Late \subseteq 0..256 PROVE Spec => []StatusTells
<1>1. Inv /\ PassInv => StatusTells
  <2>1. Inv /\ PassInv => CleanRunPasses
    BY DEF Inv, RefusedInv, PassInv, CleanRunPasses, Clean
  <2>2. Inv => PassMeansHeard
    BY InvHeard
  <2> QED BY <2>1, <2>2 DEF StatusTells
<1> QED BY Invariance, CleanInvariance, <1>1, PTL
=============================================================================
