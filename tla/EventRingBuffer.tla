-------------------------- MODULE EventRingBuffer --------------------------
(***************************************************************************)
(* The Bridge's bounded buffer of events (EventRingBuffer.java).  append() *)
(* and query() hold one lock, so each is a single step.  An event is its   *)
(* sequence and its kind, the only fields the buffer and the filters of    *)
(* its readers look at.                                                    *)
(***************************************************************************)
EXTENDS Integers, Sequences, FiniteSets

CONSTANTS
  Kinds,      \* kinds of event
  Capacity,   \* slots.length (4096 by default)
  MaxEvents   \* bound: events recorded in one boot

ASSUME RingAssumption ==
  /\ Capacity \in Nat \ {0}
  /\ MaxEvents \in Nat

VARIABLES
  slots,         \* the array
  nextSequence,
  droppedCount,
  log            \* history: the kinds of all events recorded in this boot

ring == <<slots, nextSequence, droppedCount, log>>

NoEvent == [seq |-> 0, kind |-> "none"]
Events == [seq : 1..MaxEvents, kind : Kinds]
Indices == 0..(Capacity - 1)

Smaller(a, b) == IF a <= b THEN a ELSE b
Larger(a, b) == IF a <= b THEN b ELSE a

RingTypeOK ==
  /\ slots \in [Indices -> Events \cup {NoEvent}]
  /\ nextSequence \in 1..(MaxEvents + 1)
  /\ droppedCount \in 0..MaxEvents
  /\ log \in Seq(Kinds)

RingInit ==
  /\ slots = [x \in Indices |-> NoEvent]
  /\ nextSequence = 1
  /\ droppedCount = 0
  /\ log = <<>>

\* Mutant: events are stored at their sequence, read one slot before.
RecordShifted(k) ==
  LET x == nextSequence % Capacity IN
  /\ nextSequence <= MaxEvents
  /\ slots' = [slots EXCEPT ![x] = [seq |-> nextSequence, kind |-> k]]
  /\ droppedCount' = droppedCount + (IF slots[x] = NoEvent THEN 0 ELSE 1)
  /\ nextSequence' = nextSequence + 1
  /\ log' = Append(log, k)

(* recordEvent and append: the oldest event makes room.                    *)
Record(k) ==
  LET x == (nextSequence - 1) % Capacity IN
  /\ nextSequence <= MaxEvents
  /\ slots' = [slots EXCEPT ![x] = [seq |-> nextSequence, kind |-> k]]
  /\ droppedCount' = droppedCount + (IF slots[x] = NoEvent THEN 0 ELSE 1)
  /\ nextSequence' = nextSequence + 1
  /\ log' = Append(log, k)

latest == nextSequence - 1
oldestSequence == IF latest = 0 THEN 0 ELSE latest - Smaller(latest, Capacity) + 1

Refusal(code) == [code |-> code, events |-> <<>>]
Answered(s) == [code |-> "ok", events |-> s]

\* Mutant: a cursor whose next event has just been dropped passes.
QueryLenient(boot, after, limit) ==
  LET first == Larger(after + 1, oldestSequence)
      count == Smaller(limit, latest + 1 - first)
  IN  IF boot # "this" \/ after < 0 \/ after > latest THEN Refusal("mismatch")
      ELSE IF latest > 0 /\ after > 0 /\ after < oldestSequence - 2 THEN Refusal("expired")
      ELSE Answered([k \in 1..count |-> slots[(first + k - 2) % Capacity]])

(* query().  The boot is this one's or another's.  The loop's own test of  *)
(* the slot it reads never fails (RingIsExact), so it takes them all.      *)
Query(boot, after, limit) ==
  LET first == Larger(after + 1, oldestSequence)
      count == Smaller(limit, latest + 1 - first)
  IN  IF boot # "this" \/ after < 0 \/ after > latest THEN Refusal("mismatch")
      ELSE IF latest > 0 /\ after > 0 /\ after < oldestSequence - 1 THEN Refusal("expired")
      ELSE Answered([k \in 1..count |-> slots[(first + k - 2) % Capacity]])

-----------------------------------------------------------------------------
(* The buffer holds the last events of the boot, each in the slot where    *)
(* query() looks for it, and has counted the others as dropped: no event   *)
(* is both gone and uncounted, none is found under another's sequence.     *)
Lost == Larger(0, Len(log) - Capacity)
RingIsExact ==
  /\ latest = Len(log)
  /\ droppedCount = Lost
  /\ \A n \in (Lost + 1)..Len(log) : slots[(n - 1) % Capacity] = [seq |-> n, kind |-> log[n]]
  /\ \A x \in Indices : slots[x] # NoEvent => slots[x].seq > Lost

(* EV-03, and the comment on query(): a reader with a cursor into the      *)
(* stream gets the very next events or an explicit error, never a stream   *)
(* with a hole; a cursor of 0 asks for whatever there still is.            *)
QueryIsExact ==
  \A after \in 0..(MaxEvents + 1), limit \in 1..(Capacity + 1) :
    LET reply == Query("this", after, limit) IN
    IF after > Len(log) THEN reply.code = "mismatch"
    ELSE IF after > 0 /\ after + 1 <= Lost THEN reply.code = "expired"
    ELSE LET from == IF after = 0 THEN Lost ELSE after IN
         /\ reply.code = "ok"
         /\ Len(reply.events) = Smaller(limit, Len(log) - from)
         /\ \A k \in 1..Len(reply.events) :
              reply.events[k] = [seq |-> from + k, kind |-> log[from + k]]

(* The buffer and its queries together.                                    *)
RingIsFaithful == RingIsExact /\ QueryIsExact
=============================================================================
