---------------------------- MODULE MCRescueRadio ----------------------------
(* RescueRadio with the shortest scans: a second, two passes of the loop.  *)
EXTENDS RescueRadio

MCArguments == {<<"info", 0>>, <<"power off", 0>>, <<"bredr-scan", 1>>,
                <<"le-scan", 1>>, <<"coexist", 1>>}
=============================================================================
