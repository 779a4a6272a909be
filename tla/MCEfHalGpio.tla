----------------------------- MODULE MCEfHalGpio -----------------------------
(* The constants of the TLC runs of EfHalGpio. *)
EXTENDS EfHalGpio, TLC

CONSTANTS t1, t2, t3, r1, r2, led, sw1, sw3

\* t1 waits for the pin whose identifier is 0; t2 and t3 wait for the same one.
Pairs == {<<t1, led>>, <<t2, sw3>>, <<t3, sw3>>}
PairSymmetry == Permutations({t2, t3})
OneWaiter == {<<t1, sw1>>}
=============================================================================
