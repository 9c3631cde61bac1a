------------------------------ MODULE AmpSafety ------------------------------
(***************************************************************************)
(* What the machine driver promises of the power amplifier, without the    *)
(* lock, the worker, the timer and the calls by which it keeps it.         *)
(*                                                                         *)
(* The amplifier works for one user at a time: the process that holds the  *)
(* gate, or an open playback stream of anybody.  The gate is handed over   *)
(* only while the amplifier is down and nobody has a stream open, streams  *)
(* are opened beside the gate only by its holder, and the amplifier comes  *)
(* up for a user, and muted first.  It may go down at any time.            *)
(***************************************************************************)
CONSTANTS
  Processes,   \* who may hold the gate or open a stream
  None         \* nobody

VARIABLES
  enabled, unmuted,   \* the two regulators
  holder,             \* the process that holds the gate
  user                \* user[d]: the process that has stream d open

amplifier == <<enabled, unmuted>>
vars == <<enabled, unmuted, holder, user>>

Streams == {"playback", "capture"}

Init ==
  /\ enabled = FALSE /\ unmuted = FALSE
  /\ holder = None /\ user = [d \in Streams |-> None]

InUse == holder # None \/ user["playback"] # None

OpenStream(p, d) ==
  /\ user[d] = None /\ holder \in {None, p}
  /\ user' = [user EXCEPT ![d] = p]
  /\ UNCHANGED <<amplifier, holder>>

CloseStream(d) ==
  /\ user[d] # None
  /\ user' = [user EXCEPT ![d] = None]
  /\ UNCHANGED <<amplifier, holder>>

TakeGate(p) ==
  /\ holder = None /\ \A d \in Streams : user[d] = None
  /\ ~enabled /\ ~unmuted
  /\ holder' = p
  /\ UNCHANGED <<amplifier, user>>

ReturnGate ==
  /\ holder # None
  /\ holder' = None
  /\ UNCHANGED <<amplifier, user>>

Enable ==
  /\ InUse /\ ~enabled /\ ~unmuted
  /\ enabled' = TRUE
  /\ UNCHANGED <<unmuted, holder, user>>

Unmute ==
  /\ InUse /\ enabled /\ ~unmuted
  /\ unmuted' = TRUE
  /\ UNCHANGED <<enabled, holder, user>>

Mute == unmuted /\ unmuted' = FALSE /\ UNCHANGED <<enabled, holder, user>>

ShutDown == enabled /\ enabled' = FALSE /\ UNCHANGED <<unmuted, holder, user>>

Next ==
  \/ \E p \in Processes : TakeGate(p) \/ \E d \in Streams : OpenStream(p, d)
  \/ \E d \in Streams : CloseStream(d)
  \/ ReturnGate \/ Enable \/ Unmute \/ Mute \/ ShutDown

Spec == Init /\ [][Next]_vars
=============================================================================
