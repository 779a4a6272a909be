----------------------------- MODULE MCEfHalI2c -----------------------------
(* The constants of the TLC run of EfHalI2c. *)
EXTENDS EfHalI2c

CONSTANTS t1, t2, hw1, sw1
=============================================================================
