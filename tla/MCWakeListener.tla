---------------------------- MODULE MCWakeListener ----------------------------
(* Small instances of the wake-word listener for TLC. *)
EXTENDS WakeListener, TLC

CONSTANTS p1, p2, q1

OnePut == {p1}
TwoPuts == {p1, p2}
OneRec == {q1}

Symmetry == Permutations(Puts)
=============================================================================
