---------------------------- MODULE MCEfErrorHdl ----------------------------
(* The constants of the TLC run of EfErrorHdl. *)
EXTENDS EfErrorHdl

CONSTANTS t1, t2, e1, e2
=============================================================================
