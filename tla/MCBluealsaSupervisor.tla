------------------------ MODULE MCBluealsaSupervisor ------------------------
(* Instances of BluealsaSupervisor for TLC: two process numbers for        *)
(* supervisors, four for daemons.                                          *)
EXTENDS BluealsaSupervisor

CONSTANTS s1, s2, d1, d2, d3, d4
=============================================================================
