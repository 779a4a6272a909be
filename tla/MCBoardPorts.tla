---------------------------- MODULE MCBoardPorts ----------------------------
(* The constants of the TLC run of BoardPorts. *)
EXTENDS BoardPorts

CONSTANTS t1, r1, r2, led, sw1, sw3, d1

OneEach == {<<t1, sw1>>, <<t1, d1>>}
=============================================================================
