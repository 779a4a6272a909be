----------------------------- MODULE MCEfHalUart -----------------------------
(* The constants of the TLC runs of EfHalUart. *)
EXTENDS EfHalUart, TLC

CONSTANTS s1, s2, r1

TaskSymmetry == Permutations(Senders)
=============================================================================
