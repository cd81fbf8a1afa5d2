------------------------------ MODULE Selection ------------------------------
(***************************************************************************)
(* Those elements of a sequence that are in a set, in their order: what    *)
(* SelectSeq does, by a set instead of an operator and as a recursive      *)
(* function, so that it can be reasoned about by induction.                *)
(***************************************************************************)
EXTENDS Integers, Sequences

Those(s, S) ==
  LET kept[n \in 0..Len(s)] ==
        IF n = 0 THEN <<>>
        ELSE IF s[n] \in S THEN Append(kept[n - 1], s[n])
        ELSE kept[n - 1]
  IN  kept[Len(s)]
=============================================================================
