---------------------------- MODULE MCRescueSound ----------------------------
(* RescueSound with a table of one control of each kind, drivers that have *)
(* what it asks for, lack an item or have another kind of control, and the *)
(* arithmetic of the statistics compared with what it stands for.          *)
EXTENDS RescueSound

MCWanted == <<[name |-> "NULL", value |-> 1], [name |-> "data2", value |-> 0],
              [name |-> "NULL", value |-> 15]>>

Enumerated(items) == [type |-> "enumerated", items |-> items]
Integer == [type |-> "integer", items |-> <<>>]
MCDrivers ==
  {<<Enumerated(<<"00", "01">>), Enumerated(<<"basic", "data1", "data2", "data3">>), Integer>>,
   <<Enumerated(<<"00", "01">>), Enumerated(<<"basic", "data1">>), Integer>>,
   <<Integer, Integer, Integer>>}

(* divide_u32 divides and integer_sqrt takes the root, for words of seven  *)
(* and eight bits.                                                         *)
ASSUME DivisionIsExact ==
  \A a \in 0..127, b \in 1..127 : Pcm!divide(7, a, b) = a \div b

ASSUME RootIsExact ==
  \A a \in 0..255 : LET r == Pcm!square_root(8, a) IN r * r <= a /\ a < (r + 1) * (r + 1)
=============================================================================
