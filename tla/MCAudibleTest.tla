---------------------------- MODULE MCAudibleTest ----------------------------
(* AudibleTest for TLC.                                                    *)
EXTENDS AudibleTest
=============================================================================
