----------------------------- MODULE MCCacheSync -----------------------------
(* CacheSync for TLC: two volumes, on the same or on different nodes.  There is *)
(* no symmetry set, since the run checks a liveness property.                   *)
EXTENDS CacheSync

CONSTANTS v1, v2

TwoVolumes == {v1, v2}
=============================================================================
