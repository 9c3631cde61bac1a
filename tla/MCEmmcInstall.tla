--------------------------- MODULE MCEmmcInstall ---------------------------
(* The four scripts on one board.  MaxFaults is given by the configuration. *)
EXTENDS EmmcInstall
=============================================================================
