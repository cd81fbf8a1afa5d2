---------------------------- MODULE EventStream ----------------------------
(***************************************************************************)
(* What an event subscription promises its consumer: out of the events of  *)
(* one Bridge boot it hands over the ones the filter wants, in order, each *)
(* once, and none between two of them is missing.  Where the stream starts *)
(* and how far behind the Bridge it is are left open.                      *)
(***************************************************************************)
EXTENDS Selection, SequencesExt

CONSTANT Kinds  \* the kinds of event a filter can tell apart

VARIABLES
  log,       \* the kinds of all events of the boot, in the order of their sequence
  wanted,    \* the kinds the consumer asked for
  delivered  \* the events handed over, oldest first

Event(n) == [seq |-> n, kind |-> log[n]]

(* The wanted events from sequence a up to sequence b.                     *)
Stretch(a, b) ==
  Those([k \in 1..(b + 1 - a) |-> Event(a + k - 1)], [seq : Nat, kind : wanted])

Init ==
  /\ log = <<>>
  /\ wanted = {}
  /\ delivered = <<>>

Happen(k) ==
  /\ log' = Append(log, k)
  /\ UNCHANGED <<wanted, delivered>>

Ask(F) ==
  /\ delivered = <<>>
  /\ wanted' = F
  /\ UNCHANGED <<log, delivered>>

Deliver(a, b) ==
  /\ delivered # <<>> => a = Last(delivered).seq + 1
  /\ delivered' = delivered \o Stretch(a, b)
  /\ UNCHANGED <<log, wanted>>

Next ==
  \/ \E k \in Kinds : Happen(k)
  \/ \E F \in SUBSET Kinds : Ask(F)
  \/ \E a \in 1..Len(log) : \E b \in a..Len(log) : Deliver(a, b)

Spec == Init /\ [][Next]_<<log, wanted, delivered>>
=============================================================================
