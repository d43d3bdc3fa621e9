----------------------------- MODULE MCRegistry -----------------------------
(* Registry for TLC: two objects that may claim each other's name.  There is *)
(* no symmetry set, since the run checks a liveness property.                *)
EXTENDS Registry

CONSTANTS o1, o2, k1, k2

TwoObjects == {o1, o2}
TwoNames == {k1, k2}
=============================================================================
