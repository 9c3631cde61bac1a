---------------------------- MODULE FactoryRoute ----------------------------
(***************************************************************************)
(* tools/r1-factory-ak7755-route.c: writes the mixer controls of a table,  *)
(* in its order, and gives up at the first that fails.  A control of the   *)
(* table is set to an item it knows by name, whose number it looks up      *)
(* among the items of the driver, or to a number it knows, which stands    *)
(* for an item or for itself, as the driver says.                          *)
(*                                                                         *)
(* A definition marked "Variant" is a faulty form of the next one.  No     *)
(* action uses it; it shows which fault of the code a property detects.    *)
(***************************************************************************)
EXTENDS Integers, Sequences

CONSTANTS
  Wanted,          \* media_speaker: records [name, value], name "NULL" for none
  Drivers,         \* drivers it may meet: their controls, in that order, as
                   \* records [type, items]
  MaxRouteErrors   \* bound on calls that fail

(* Assumed by the modules that compose this one.                           *)
RouteAssumption ==
  /\ Len(Wanted) \in Nat \ {0}
  /\ \A d \in Drivers : Len(d) = Len(Wanted)
  /\ MaxRouteErrors \in Nat
  /\ \A i \in 1..Len(Wanted) : Wanted[i].value \in Nat

VARIABLES
  routeAt,         \* the call the program is about to make, or "exited"
  routeStatus,     \* the exit status, -1 before the first run
  control,         \* position in the table
  item,            \* the item asked about in a lookup, or the value to write
  driver,          \* the driver
  values,          \* its controls, -1 for what they held before
  routeErrors

routeVars == <<routeAt, routeStatus, control, item, driver, values, routeErrors>>

Init ==
  /\ routeAt = "exited" /\ routeStatus = -1 /\ control = 1 /\ item = 0
  /\ values = [i \in 1..Len(Wanted) |-> -1] /\ routeErrors = 0
  /\ driver \in Drivers

-----------------------------------------------------------------------------

want == Wanted[control]
info == driver[control]

exit(code) == routeAt' = "exited" /\ routeStatus' = code /\ UNCHANGED <<control, item>>
Goto(where) == routeAt' = where /\ UNCHANGED <<routeStatus, control>>

Start ==
  /\ routeAt = "exited" /\ routeAt' = "open" /\ routeStatus' = 0
  /\ control' = 1 /\ item' = 0
  /\ UNCHANGED <<driver, values, routeErrors>>

Open ==
  /\ routeAt = "open" /\ Goto("info")
  /\ UNCHANGED <<item, driver, values, routeErrors>>

(* What the driver says of the control decides how it is set; a control    *)
(* of another kind than the table expects ends the program.                *)
Info ==
  /\ routeAt = "info"
  /\ CASE want.name # "NULL" /\ info.type = "enumerated"
            -> Goto("lookup") /\ item' = 0
       [] \/ want.name = "NULL" /\ info.type = "integer"
          \/ want.name = "NULL" /\ info.type = "enumerated" /\ want.value < Len(info.items)
            -> Goto("write") /\ item' = want.value
       [] OTHER -> exit(1)
  /\ UNCHANGED <<driver, values, routeErrors>>

(* find_enum_item asks for one item after the other.                       *)
find_enum_item ==
  /\ routeAt = "lookup"
  /\ IF item = Len(info.items) THEN exit(1)
     ELSE IF info.items[item + 1] = want.name THEN Goto("write") /\ item' = item
     ELSE Goto("lookup") /\ item' = item + 1
  /\ UNCHANGED <<driver, values, routeErrors>>

(* A driver refuses an item it does not have.                              *)
Write ==
  /\ routeAt = "write"
  /\ IF info.type = "enumerated" /\ item >= Len(info.items)
     THEN exit(1) /\ UNCHANGED values
     ELSE /\ values' = [values EXCEPT ![control] = item]
          /\ IF control = Len(Wanted) THEN exit(0)
             ELSE /\ routeAt' = "info" /\ control' = control + 1
                  /\ item' = 0 /\ UNCHANGED routeStatus
  /\ UNCHANGED <<driver, routeErrors>>

\* Variant.
SkipControl ==
  IF control = Len(Wanted) THEN exit(0)
  ELSE /\ routeAt' = "info" /\ control' = control + 1 /\ item' = 0 /\ UNCHANGED routeStatus
GiveUp == exit(1)

Fail ==
  /\ routeAt # "exited" /\ routeErrors < MaxRouteErrors
  /\ routeErrors' = routeErrors + 1 /\ GiveUp
  /\ UNCHANGED <<driver, values>>

Program == Open \/ Info \/ find_enum_item \/ Write \/ Fail

Next == Start \/ Program

Spec == Init /\ [][Next]_routeVars

-----------------------------------------------------------------------------
(* Properties.                                                             *)

TypeOK ==
  /\ routeAt \in {"exited", "open", "info", "lookup", "write"}
  /\ routeStatus \in {-1, 0, 1} /\ control \in 1..Len(Wanted)
  /\ item \in Nat /\ \A i \in 1..Len(Wanted) : values[i] \in Nat \cup {-1}
  /\ driver \in Drivers
  /\ routeErrors \in 0..MaxRouteErrors

Holds(i) ==
  IF Wanted[i].name = "NULL" THEN values[i] = Wanted[i].value
  ELSE values[i] >= 0 /\ driver[i].items[values[i] + 1] = Wanted[i].name

(* The route is reported only when every control holds what the table says *)
(* of it; and whatever failed, no control was set before all those above   *)
(* it in the table: not the line-out amplifiers before firmware and        *)
(* volume.                                                                 *)
RouteComplete ==
  /\ routeAt = "exited" /\ routeStatus = 0 => \A i \in 1..Len(Wanted) : Holds(i)
  /\ \A i \in 1..Len(Wanted) : \A j \in 1..i : values[i] # -1 => Holds(j)
=============================================================================
