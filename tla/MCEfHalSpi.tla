----------------------------- MODULE MCEfHalSpi -----------------------------
(* The constants of the TLC run of EfHalSpi. *)
EXTENDS EfHalSpi

CONSTANTS t1, t2, t3, d1
=============================================================================
