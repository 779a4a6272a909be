---------------------------- MODULE MCEfHalAnalog ----------------------------
(* The constants of the TLC run of EfHalAnalog. *)
EXTENDS EfHalAnalog

CONSTANTS t1, t2, t3, a0, a1, d9, cb1

\* t1 has an input of its own; t2 and t3 share another, with time limits; t2
\* also tries a pin that is no input, and t3 starts conversions on its own.
Readers == {<<t1, a0>>, <<t2, a1>>, <<t2, d9>>, <<t3, a1>>}
Starters == {<<t3, a1>>, <<t3, d9>>}
=============================================================================
