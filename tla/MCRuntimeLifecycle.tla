------------------------- MODULE MCRuntimeLifecycle -------------------------
(* Instances of RuntimeLifecycle for TLC.                                  *)
EXTENDS RuntimeLifecycle, TLC

CONSTANTS c1, c2
MCCalls == {c1, c2}
Interchangeable == Permutations(MCCalls)
=============================================================================
