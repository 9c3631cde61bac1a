----------------------------- MODULE AudibleTest -----------------------------
(***************************************************************************)
(* tools/r1-audible-test.c, the client of the amplifier gate, in the       *)
(* twelve programs that the build scripts make of it.  A program is a      *)
(* fixed sequence of gate calls, PCM calls and loops that write periods    *)
(* of a tone or of zeros, renewing the gate's lease before each of them.   *)
(*                                                                         *)
(* Time is counted in PCM frames, 48 per millisecond.  Every call first    *)
(* waits: as long as the call takes, and up to the largest number in Late  *)
(* more.  Meanwhile the codec plays the queue, and the lease runs out.  A  *)
(* stall is a longer delay: of a process that is not scheduled, or         *)
(* stopped.  The gate and the codec are modelled as far as a single,       *)
(* exclusive client sees them; AmpGate and Ak7755Codec have the details.   *)
(*                                                                         *)
(* A definition marked "Variant" is a faulty form of the next one.  No     *)
(* action uses it; it shows which fault of the code a property detects.    *)
(***************************************************************************)
EXTENDS Integers, Sequences

CONSTANTS
  Programs,    \* the programs of this instance
  Late,        \* frames by which any call may be late
  Stalls,      \* frames of a long delay
  MaxStalls,   \* bound on long delays
  MaxFaults    \* bound on calls and regulator operations that fail

AllPrograms == {"audible_test", "channel", "melody", "music", "sweep", "sweep_high",
                "mute_ab", "dac_mute_ab", "analog_boundary", "lineout_volume",
                "lineout_selfcheck", "i2s_clock_ab"}

ASSUME ProgramsAssumption == Programs \subseteq AllPrograms
ASSUME TimesAssumption == Late \subseteq Nat /\ Stalls \subseteq Nat
ASSUME BoundsAssumption == MaxStalls \in Nat /\ MaxFaults \in Nat

VARIABLES
  program,                \* the program that runs
  phase,                  \* main, its exit path, or the kernel closing files
  pc, left, kept,         \* step; frames left in its loop; lease renewed for this one
  due,                    \* the call has waited and now takes effect
  result,                 \* the exit status
  amp, lease,             \* the gate: the two regulators; frames to the timeout
  dac, volume,            \* the codec: its output; the D4 stage
  stream, queue,          \* the PCM: state; frames buffered
  voiced,                 \* frames up to the last one of a tone in the queue
  cut,                    \* a frame of a tone was not heard
  faults, stalls

client == <<program, phase, pc, left, kept, due, result>>
gate   == <<amp, lease>>
codec  == <<dac, volume>>
pcm    == <<stream, queue, voiced>>
vars   == <<client, gate, codec, pcm, cut, faults, stalls>>

Amax(a, b) == IF a >= b THEN a ELSE b
Amin(a, b) == IF a <= b THEN a ELSE b

-----------------------------------------------------------------------------
(* The programs.                                                           *)

PERIOD == 1024

PCM_PERIODS == IF program = "lineout_selfcheck" THEN 16 ELSE 4

BUFFER == PERIOD * PCM_PERIODS

(* Variant: the postroll is shorter than the buffer.                       *)
POSTROLL_3 == 3

POSTROLL == 4

(* Variant: ARM_MUTED gives the short lease.                               *)
ARM_LEASE_SHORT == 24000

ARM_LEASE == 144000     \* R1_AUDIO_ARM_TIMEOUT_MS
LIVE_LEASE == 24000     \* R1_AUDIO_LIVE_TIMEOUT_MS

TONE_FRAMES ==
  CASE program \in {"sweep", "sweep_high"} -> 3 * (65536 + 8192)
    [] program = "music" -> 16 * 32768
    [] program = "melody" -> 14 * 16384
    [] program = "channel" -> 36000
    [] OTHER -> 48000

Call(c) == [do |-> c, frames |-> 0]
Tone == [do |-> "tone", frames |-> TONE_FRAMES]
Zeros(n) == [do |-> "zeros", frames |-> n * PERIOD]
Unkept(n) == [do |-> "unkept_zeros", frames |-> n * PERIOD]    \* without KEEPALIVE
Sleeps(n) == [do |-> "sleep", frames |-> n * 4800]             \* 100 ms each
Window == Zeros(94)                                            \* 2 s

(* What the programs do between UNMUTE and the postroll.                   *)
ClockAb == <<Window, Call("DROP"), Sleeps(20), Call("PREPARE"), Window>>
MuteAb == <<Tone, Window, Call("ARM_MUTED"), Unkept(94), Call("UNMUTE"), Window>>
DacMuteAb == <<Tone, Window, Call("DAC_MUTE"), Window, Call("DAC_UNMUTE"), Window>>
AnalogBoundary ==
  <<Tone, Call("DAC_MUTE"), Window, Call("DAC_ANALOG_OFF"), Window,
    Call("LINEOUT_HIZ"), Window>>
LineoutVolume ==
  <<Tone, Call("DAC_MUTE"), Window, Call("MINUS14DB"), Window, Call("MINUS28DB"), Window>>
Stage(request) ==
  <<Call("DAC_MUTE"), Call(request), Call("DAC_UNMUTE"), Tone, Window>>
Selfcheck == <<Tone, Window>> \o Stage("MINUS14DB") \o Stage("MINUS28DB")
ChannelTest == <<Tone, Zeros(144), Tone>>

Body ==
  CASE program = "i2s_clock_ab" -> ClockAb
    [] program = "mute_ab" -> MuteAb
    [] program = "dac_mute_ab" -> DacMuteAb
    [] program = "analog_boundary" -> AnalogBoundary
    [] program = "lineout_volume" -> LineoutVolume
    [] program = "lineout_selfcheck" -> Selfcheck
    [] program = "channel" -> ChannelTest
    [] OTHER -> <<Tone>>

Script ==
  <<Call("SAFE"), Call("ARM_MUTED"), Call("open_PCM"), Call("PREPARE"),
    Unkept(8), Call("UNMUTE")>>
  \o Body \o <<Zeros(POSTROLL), Call("SAFE")>>

Now == Script[pc]
Loops == {"tone", "zeros", "unkept_zeros", "sleep"}
Chunk == IF Now.do = "sleep" THEN 4800 ELSE Amin(PERIOD, left)
AtKeepalive == Now.do \in Loops \ {"unkept_zeros"} /\ ~kept
AtWrite == Now.do \in Loops \ {"sleep"} /\ ~AtKeepalive

-----------------------------------------------------------------------------
(* The amplitude the fill functions give to frame f of a tone.             *)

Trapezoid(peak, rise, end, f) ==
  IF f < rise THEN (peak * f) \div rise
  ELSE IF f < end - rise THEN peak
  ELSE IF f < end THEN (peak * (end - f)) \div rise ELSE 0

TONE_PEAK == IF program = "lineout_selfcheck" THEN 512 ELSE 32

(* Variant: the fade begins one step too late.                             *)
fill_tone_late(f) ==
  CASE f < 4800 -> Amin(f \div 150, TONE_PEAK)
    [] f > TONE_FRAMES - 4650 -> Amin((TONE_FRAMES - f) \div 150, TONE_PEAK)
    [] OTHER -> TONE_PEAK

fill_tone(f) ==
  CASE f < 4800 -> Amin(f \div 150, TONE_PEAK)
    [] f >= TONE_FRAMES - 4800 -> Amin((TONE_FRAMES - f) \div 150, TONE_PEAK)
    [] OTHER -> TONE_PEAK

peaks == IF program = "sweep_high" THEN <<128, 256, 512>> ELSE <<32, 64, 128>>
fill_sweep(f) == Trapezoid(peaks[f \div 73728 + 1], 2048, 65536, f % 73728)
fill_music(f) == Trapezoid(512, 2048, 28672, f % 32768)
fill_melody(f) == Trapezoid(32, 512, 14336, f % 16384)

Amplitude(f) ==
  CASE program \in {"sweep", "sweep_high"} -> fill_sweep(f)
    [] program = "music" -> fill_music(f)
    [] program = "melody" -> fill_melody(f)
    [] OTHER -> fill_tone(f)

-----------------------------------------------------------------------------
(* Time.                                                                   *)

Off == [enabled |-> FALSE, unmuted |-> FALSE]
Audible(a) == a.enabled /\ a.unmuted
Heard == Audible(amp) /\ dac = "on"

(* Operations of the set K fail.                                           *)
One(k, K) == IF k \in K THEN 1 ELSE 0
Fails(K) ==
  /\ faults' = faults + One("mute", K) + One("shutdown", K) + One("call", K)
  /\ faults' <= MaxFaults

(* r1_audio_force_safe_locked: one regulator may fail, or both.            *)
Regulators == {"mute", "shutdown"}
Forced(K) ==
  [enabled |-> amp.enabled /\ "shutdown" \in K, unmuted |-> amp.unmuted /\ "mute" \in K]

(* Variant: an empty queue is not noticed.                                 *)
ElapseUnchecked(d, K) ==
  LET running == stream = "running"
      expires == lease > 0 /\ d >= lease
  IN /\ amp' = IF expires THEN Forced(K) ELSE amp
     /\ lease' = IF expires THEN 0 ELSE Amax(lease - d, 0)
     /\ expires \/ K = {}
     /\ queue' = IF running THEN queue - d ELSE queue
     /\ voiced' = IF running THEN Amax(voiced - d, 0) ELSE voiced
     /\ UNCHANGED <<stream, cut>>

(* d frames of time, with a timeout in which the operations of K fail.      *)
Elapse(d, K) ==
  LET running == stream = "running"
      expires == lease > 0 /\ d >= lease
  IN /\ amp' = IF expires THEN Forced(K) ELSE amp
     /\ lease' = IF expires THEN 0 ELSE Amax(lease - d, 0)
     /\ expires \/ K = {}
     /\ stream' = IF running /\ d >= queue THEN "xrun" ELSE stream
     /\ queue' = IF running THEN Amax(queue - d, 0) ELSE queue
     /\ voiced' = IF running THEN Amax(voiced - d, 0) ELSE voiced
     /\ cut' = (cut \/ (running /\ voiced > 0 /\ d > 0
                         /\ (~Heard \/ (expires /\ voiced > lease))))

(* What a call takes: the sleeps in the drivers and the transfers around   *)
(* them, rounded up; a write waits for room in the buffer.                 *)
Duration ==
  CASE AtKeepalive -> 0
    [] AtWrite -> IF stream = "running" THEN Amax(queue + Chunk - BUFFER, 0) ELSE 0
    [] Now.do = "sleep" /\ kept -> 4800
    [] Now.do \in {"ARM_MUTED", "DAC_MUTE", "DAC_UNMUTE"} -> 1536
    [] Now.do \in {"MINUS14DB", "MINUS28DB", "LINEOUT_HIZ"} -> 768
    [] Now.do = "DAC_ANALOG_OFF" -> 2048
    [] Now.do = "PREPARE" -> 3584
    [] OTHER -> 0

Wait ==
  /\ phase = "main" /\ ~due
  /\ \E K \in SUBSET Regulators :
       /\ Fails(K)
       /\ \/ \E d \in Late : Elapse(Duration + d, K) /\ UNCHANGED stalls
          \/ /\ stalls < MaxStalls /\ stalls' = stalls + 1
             /\ \E d \in Stalls : Elapse(Duration + d, K)
  /\ due' = TRUE
  /\ UNCHANGED <<program, phase, pc, left, kept, result, codec>>

-----------------------------------------------------------------------------
(* main.                                                                   *)

(* On to the next step, or, behind the last one, out with status 0.        *)
Advance ==
  /\ due' = FALSE /\ kept' = FALSE
  /\ IF pc < Len(Script)
     THEN /\ pc' = pc + 1 /\ left' = Script[pc + 1].frames
          /\ UNCHANGED <<phase, result>>
     ELSE phase' = "safe" /\ result' = 0 /\ UNCHANGED <<pc, left>>
  /\ UNCHANGED program

(* goto out                                                                *)
Leave ==
  phase' = "safe" /\ due' = FALSE /\ UNCHANGED <<program, pc, left, kept, result>>

At(c) == phase = "main" /\ due /\ Now.do = c

(* Without the gate there is nothing to undo.                              *)
OpenGate ==
  /\ phase = "start"
  /\ \/ phase' = "main" /\ UNCHANGED faults
     \/ phase' = "exited" /\ Fails({"call"})
  /\ UNCHANGED <<program, pc, left, kept, due, result, gate, codec, pcm, cut, stalls>>

(* A regulator that fails ends the call, which was made in main.           *)
Safe ==
  /\ At("SAFE")
  /\ \E K \in SUBSET Regulators :
       /\ Fails(K) /\ amp' = Forced(K)
       /\ IF K = {} THEN Advance ELSE Leave
  /\ lease' = 0
  /\ UNCHANGED <<codec, pcm, cut, stalls>>

ArmMuted ==
  /\ At("ARM_MUTED")
  /\ \/ /\ amp' = [enabled |-> TRUE, unmuted |-> FALSE] /\ lease' = ARM_LEASE
        /\ Advance /\ UNCHANGED faults
     \/ /\ \E K \in SUBSET (Regulators \cup {"call"}) :
             K # {} /\ Fails(K) /\ amp' = Forced(K)
        /\ lease' = 0 /\ Leave
  /\ UNCHANGED <<codec, pcm, cut, stalls>>

Unmute ==
  /\ At("UNMUTE")
  /\ IF amp.enabled /\ ~amp.unmuted
     THEN amp' = [amp EXCEPT !.unmuted = TRUE] /\ lease' = LIVE_LEASE /\ Advance
     ELSE Leave /\ UNCHANGED gate
  /\ UNCHANGED <<codec, pcm, cut, faults, stalls>>

Keepalive ==
  /\ phase = "main" /\ due /\ AtKeepalive
  /\ IF amp.unmuted
     THEN /\ lease' = LIVE_LEASE /\ kept' = TRUE /\ due' = FALSE
          /\ UNCHANGED <<program, phase, pc, left, result>>
     ELSE Leave /\ UNCHANGED lease
  /\ UNCHANGED <<amp, codec, pcm, cut, faults, stalls>>

(* The codec's part of a request: the stage it must be in, and what then   *)
(* becomes of its output and of its D4 volume.                             *)
Requests == {"DAC_MUTE", "DAC_UNMUTE", "DAC_ANALOG_OFF", "LINEOUT_HIZ", "MINUS14DB", "MINUS28DB"}

Permitted(c) ==
  \/ c \in {"DAC_MUTE", "DAC_UNMUTE"} /\ dac \in {"on", "muted"}
  \/ c = "DAC_ANALOG_OFF" /\ dac \in {"on", "muted"} /\ volume = 0
  \/ c = "LINEOUT_HIZ" /\ dac = "off" /\ volume = 0
  \/ c = "MINUS14DB" /\ dac = "muted" /\ volume = 0
  \/ c = "MINUS28DB" /\ dac = "muted" /\ volume = 1

Output(c) ==
  CASE c = "DAC_UNMUTE" -> "on"
    [] c = "DAC_ANALOG_OFF" -> "off"
    [] c = "LINEOUT_HIZ" -> "hiz"
    [] OTHER -> "muted"

Volume(c) == CASE c = "MINUS14DB" -> 1 [] c = "MINUS28DB" -> 2 [] OTHER -> volume

(* Behind a change of volume or boundary the codec reads its route back    *)
(* and demands the one from the serial port straight to the DAC.  The      *)
(* driver only sets up and runs the factory's, through the DSP.            *)
DirectRoute  == [analog_input |-> "off", DAC_input |-> "SDIN1", D3 |-> 0, cores |-> {"codec"}]
FactoryRoute == [analog_input |-> "on", DAC_input |-> "DSP", D3 |-> 15, cores |-> {"codec", "DSP"}]

(* Variant: the read-back compares the changed registers only.             *)
ReadsBackChanges(c) == TRUE

ReadsBack(c) == c \in {"DAC_MUTE", "DAC_UNMUTE"} \/ FactoryRoute = DirectRoute

(* A request that the gate passes on.  When the read-back refuses it, the  *)
(* registers have changed already; the lease is not renewed.               *)
CodecRequest ==
  /\ phase = "main" /\ due /\ Now.do \in Requests
  /\ IF amp.unmuted /\ stream # "closed" /\ Permitted(Now.do)
     THEN /\ dac' = Output(Now.do) /\ volume' = Volume(Now.do)
          /\ IF ReadsBack(Now.do) THEN lease' = LIVE_LEASE /\ Advance
             ELSE Leave /\ UNCHANGED lease
     ELSE Leave /\ UNCHANGED <<codec, lease>>
  /\ UNCHANGED <<amp, pcm, cut, faults, stalls>>

OpenPcm ==
  /\ At("open_PCM") /\ stream' = "open" /\ Advance
  /\ UNCHANGED <<gate, codec, queue, voiced, cut, faults, stalls>>

(* configure_pcm, and the restart behind DROP.  A codec that already runs  *)
(* is left as it is.                                                       *)
Prepare ==
  /\ At("PREPARE") /\ stream' = "prepared" /\ Advance
  /\ IF stream = "open" THEN dac' = "on" /\ volume' = 0 ELSE UNCHANGED codec
  /\ UNCHANGED <<gate, queue, voiced, cut, faults, stalls>>

Drop ==
  /\ At("DROP") /\ stream' = "stopped" /\ queue' = 0 /\ voiced' = 0
  /\ cut' = (cut \/ voiced > 0) /\ Advance
  /\ UNCHANGED <<gate, codec, faults, stalls>>

Iterated ==
  IF left > Chunk
  THEN /\ left' = left - Chunk /\ kept' = FALSE /\ due' = FALSE
       /\ UNCHANGED <<program, phase, pc, result>>
  ELSE Advance

(* Variant: an underrun is retried without another prepare.                *)
WriteRetried ==
  /\ phase = "main" /\ due /\ AtWrite
  /\ IF stream = "xrun"
     THEN due' = FALSE /\ UNCHANGED <<program, phase, pc, left, kept, result, pcm>>
     ELSE /\ stream' = "running" /\ queue' = queue + Chunk
          /\ voiced' = IF Now.do = "tone" THEN queue + Chunk ELSE voiced
          /\ Iterated
  /\ UNCHANGED <<gate, codec, cut, faults, stalls>>

(* write_period: the first write starts the stream, an underrun ends it.   *)
Write ==
  /\ phase = "main" /\ due /\ AtWrite
  /\ IF stream = "xrun"
     THEN Leave /\ UNCHANGED pcm
     ELSE /\ stream' = "running" /\ queue' = queue + Chunk
          /\ voiced' = IF Now.do = "tone" THEN queue + Chunk ELSE voiced
          /\ Iterated
  /\ UNCHANGED <<gate, codec, cut, faults, stalls>>

Sleep ==
  /\ phase = "main" /\ due /\ Now.do = "sleep" /\ kept /\ Iterated
  /\ UNCHANGED <<gate, codec, pcm, cut, faults, stalls>>

(* Any call of main may fail without an effect.                            *)
CallFails ==
  /\ phase = "main" /\ due /\ Fails({"call"}) /\ Leave
  /\ UNCHANGED <<gate, codec, pcm, cut, stalls>>

-----------------------------------------------------------------------------
(* The end of the process.  out: SAFE, DROP, close the PCM, close the gate *)
(* and ignore their errors.  The kernel closes the files of a killed       *)
(* process in the order of their descriptors, the gate first.              *)

Finish(from, to) ==
  phase = from /\ phase' = to /\ UNCHANGED <<program, pc, left, kept, due, result, stalls>>

ForceSafe ==
  /\ \E K \in SUBSET Regulators : Fails(K) /\ amp' = Forced(K)
  /\ lease' = 0 /\ UNCHANGED <<codec, pcm, cut>>

(* Variant: the last close of the gate leaves the amplifier as it is.      *)
ReleaseOnly == UNCHANGED <<gate, codec, pcm, cut, faults>>

r1_audio_safety_release == ForceSafe

StopStream(new) ==
  /\ stream' = (IF stream = "closed" THEN "closed" ELSE new)
  /\ queue' = 0 /\ voiced' = 0 /\ cut' = (cut \/ voiced > 0)
  /\ UNCHANGED <<gate, codec, faults>>

(* Variant: DROP before SAFE.                                              *)
OutDropFirst == Finish("safe", "drop") /\ StopStream("stopped")

OutSafe  == Finish("safe", "drop") /\ ForceSafe
OutDrop  == Finish("drop", "close_PCM") /\ StopStream("stopped")
OutClose == Finish("close_PCM", "close_gate") /\ StopStream("closed")
Release  == Finish("close_gate", "exited") /\ r1_audio_safety_release

Kill ==
  /\ phase \in {"main", "safe", "drop", "close_PCM", "close_gate"} /\ phase' = "killed"
  /\ UNCHANGED <<program, pc, left, kept, due, result, gate, codec, pcm, cut, faults, stalls>>

KilledRelease == Finish("killed", "killed_PCM") /\ r1_audio_safety_release
KilledClose   == Finish("killed_PCM", "exited") /\ StopStream("closed")

-----------------------------------------------------------------------------
Init ==
  /\ program \in Programs
  /\ phase = "start" /\ pc = 1 /\ left = 0 /\ kept = FALSE /\ due = FALSE /\ result = 1
  /\ amp = Off /\ lease = 0
  /\ dac = "muted" /\ volume = 0
  /\ stream = "closed" /\ queue = 0 /\ voiced = 0
  /\ cut = FALSE /\ faults = 0 /\ stalls = 0

Main ==
  \/ OpenGate \/ Safe \/ ArmMuted \/ Unmute \/ Keepalive \/ CodecRequest
  \/ OpenPcm \/ Prepare \/ Drop \/ Write \/ Sleep \/ CallFails

End == OutSafe \/ OutDrop \/ OutClose \/ Release \/ KilledRelease \/ KilledClose

Next == Wait \/ Main \/ End \/ Kill

Spec == Init /\ [][Next]_vars
(* The process is scheduled, the stream plays and system calls return.     *)
FairSpec == Spec /\ WF_vars(Wait \/ Main \/ End)

-----------------------------------------------------------------------------
(* Properties.                                                             *)

(* Types; in particular neither the buffer nor a loop counter wraps.       *)
TypeOK ==
  /\ program \in Programs
  /\ phase \in {"start", "main", "safe", "drop", "close_PCM", "close_gate",
                "killed", "killed_PCM", "exited"}
  /\ pc \in 1..Len(Script) /\ left \in 0..TONE_FRAMES + 144 * PERIOD
  /\ kept \in BOOLEAN /\ due \in BOOLEAN /\ cut \in BOOLEAN /\ result \in {0, 1}
  /\ amp \in [enabled : BOOLEAN, unmuted : BOOLEAN] /\ lease \in 0..ARM_LEASE
  /\ dac \in {"on", "muted", "off", "hiz"} /\ volume \in 0..2
  /\ stream \in {"closed", "open", "prepared", "running", "xrun", "stopped"}
  /\ queue \in 0..BUFFER /\ voiced \in 0..queue
  /\ faults \in 0..MaxFaults /\ stalls \in 0..MaxStalls

(* The programs that ask for a volume or a boundary, which the codec       *)
(* always refuses (ReadsBack).                                             *)
Refused == {"analog_boundary", "lineout_volume", "lineout_selfcheck"}

(* If no call fails and nothing takes longer than it should, main comes to *)
(* its end with status 0: the lease outlives every loop and window, the    *)
(* buffer outlives every sequence of codec requests, and the gate and the  *)
(* codec accept every request where the program makes it; but for three    *)
(* programs, which the codec's refusal ends with status 1.                 *)
CleanRunPasses ==
  phase \in {"safe", "drop", "close_PCM", "close_gate"} /\ faults = 0 /\ stalls = 0
    => result = IF program \in Refused THEN 1 ELSE 0

(* PASS is printed only if every frame of every tone was played while the  *)
(* amplifier was on and the DAC not muted: nothing is still queued when    *)
(* the amplifier goes off, and a timeout or an underrun is noticed.  Two   *)
(* programs mute the DAC right behind the tone and lose its end, but do    *)
(* not live to print PASS.                                                 *)
PassMeansHeard == result = 0 => ~cut

(* The status tells whether the tone was heard: an undisturbed run passes, *)
(* unless the codec refuses what it asks for, and a run that passes was    *)
(* heard.                                                                  *)
StatusTells == CleanRunPasses /\ PassMeansHeard

(* On every way out, the amplifier is silent before the stream stops.      *)
SilentBeforeStop ==
  [][stream = "running" /\ stream' \in {"stopped", "closed"} /\ phase # "main"
       => ~Audible(amp)]_vars

(* However the process ends, with one failure at most, the amplifier is    *)
(* silent then, and nothing is left to time out.                           *)
SilentAfter == phase = "exited" => ~Audible(amp) /\ lease = 0

(* No way out is heard as a click, or leaves anything behind it.           *)
EndsQuietly == SilentBeforeStop /\ []SilentAfter

(* The amplitude never changes by more than one unit from one frame to the *)
(* next, from the silence before the tone to the silence behind it.        *)
(* (Samples do not depend on what happened before: a run without stalls    *)
(* visits every frame.)                                                    *)
Gentle ==
  phase = "main" /\ due /\ Now.do = "tone" /\ kept /\ stalls = 0 =>
    LET first == TONE_FRAMES - left IN
    \A f \in first..first + Chunk :
      LET before == IF f = 0 THEN 0 ELSE Amplitude(f - 1)
          here == IF f = TONE_FRAMES THEN 0 ELSE Amplitude(f)
      IN here - before \in -1..1

(* The same of the programs whose tone has the peak the ramp was made for. *)
GentleAtPeak32 == program # "lineout_selfcheck" => Gentle

(* Every run ends.                                                         *)
Ends == <>(phase = "exited")
=============================================================================
