---------------------------- MODULE MCRunRecords ----------------------------
(* Two runs that are alike; nothing temporal is checked of them.             *)
EXTENDS RunRecords, TLC

Symmetry == Permutations(Runs)
=============================================================================
