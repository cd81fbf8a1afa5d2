-------------------------- MODULE EventSubscription --------------------------
(***************************************************************************)
(* One event subscription of the Supervisor over the Bridge's ring buffer: *)
(* a timer polls the Bridge and moves what the filter lets through into a  *)
(* buffer that the consumer pages through.  eventSubscribe gives every     *)
(* subscription a manager of its own, so subscriptions share nothing but   *)
(* the ring, which they only read.                                         *)
(***************************************************************************)
EXTENDS EventRingBuffer, Selection, SequencesExt

CONSTANTS
  Filters,      \* the filters clients use: the sets of kinds they let through
  Polls,        \* slots for polls in flight at the same time
  FetchLimit,   \* the limit of a fetch (100)
  MaxBuffered   \* maxEvents of the subscription

ASSUME SubscriptionAssumption ==
  /\ Filters \subseteq SUBSET Kinds
  /\ FetchLimit \in Nat \ {0}
  /\ MaxBuffered \in Nat

VARIABLES
  bridge,      \* whether the Bridge of the subscription's client is still there
  status,      \* "none", "active" (its timer runs), "expired" (it stopped), "removed"
  overdue,     \* the time to live has passed
  boot,        \* the boot the client subscribed to, this one or another
  filter,
  lastCursor,
  events,      \* the buffer, oldest first
  polls        \* the polls in flight

sub == <<status, boot, filter, lastCursor, events>>
vars == <<ring, bridge, overdue, sub, polls>>

-----------------------------------------------------------------------------
NoPoll == [pc |-> "idle", after |-> 0, reply |-> Answered(<<>>)]

TypeOK ==
  /\ RingTypeOK
  /\ bridge \in BOOLEAN
  /\ status \in {"none", "active", "expired", "removed"}
  /\ overdue \in BOOLEAN
  /\ boot \in {"this", "other"}
  /\ filter \in Filters \cup {{}}
  /\ lastCursor \in 0..MaxEvents
  /\ events \in Seq(Events) /\ Len(events) <= MaxBuffered
  /\ polls \in [Polls -> [pc : {"idle", "asked", "answered"}, after : 0..MaxEvents,
                          reply : [code : {"ok", "mismatch", "expired"}, events : Seq(Events)]]]

Init ==
  /\ RingInit
  /\ bridge = TRUE
  /\ status = "none"
  /\ overdue = FALSE
  /\ boot = "this"
  /\ filter = {}
  /\ lastCursor = 0
  /\ events = <<>>
  /\ polls = [p \in Polls |-> NoPoll]

-----------------------------------------------------------------------------
(* The Bridge and the clock                                                *)

RecordEvent(k) ==
  /\ bridge
  /\ Record(k)
  /\ UNCHANGED <<bridge, overdue, sub, polls>>

(* The runtime stopped or crashed: requests to its Bridge fail from now on.*)
BridgeGone ==
  /\ bridge
  /\ bridge' = FALSE
  /\ UNCHANGED <<ring, overdue, sub, polls>>

TimeToLivePasses ==
  /\ status = "active"
  /\ ~ overdue
  /\ overdue' = TRUE
  /\ UNCHANGED <<ring, bridge, sub, polls>>

-----------------------------------------------------------------------------
(* Clients                                                                 *)

Subscribe(b, F) ==
  /\ status = "none"
  /\ bridge
  /\ status' = "active"
  /\ boot' = b
  /\ filter' = F
  /\ UNCHANGED <<ring, bridge, overdue, lastCursor, events, polls>>

(* The polls in flight go on with the removed subscription.                *)
Unsubscribe ==
  /\ status \in {"active", "expired"}
  /\ status' = "removed"
  /\ UNCHANGED <<ring, bridge, overdue, boot, filter, lastCursor, events, polls>>

\* Mutant: a page that ends the buffer exactly says there is more, and no
\* page that leaves something out does.
ListEventsShort(after, limit) ==
  LET found == Those(events, [seq : (after + 1)..MaxEvents, kind : Kinds])
      page == SubSeq(found, 1, Smaller(limit, Len(found)))
  IN  [events |-> page,
       nextCursor |-> IF Len(found) = limit THEN Last(page).seq ELSE 0]

(* listEvents; a null nextCursor is 0.                                     *)
ListEvents(after, limit) ==
  LET found == Those(events, [seq : (after + 1)..MaxEvents, kind : Kinds])
      page == SubSeq(found, 1, Smaller(limit, Len(found)))
  IN  [events |-> page,
       nextCursor |-> IF Len(found) > limit THEN Last(page).seq ELSE 0]

-----------------------------------------------------------------------------
(* The timer.  It fires whether or not the poll before has come back.      *)

PollBegin(p) ==
  /\ status = "active"
  /\ ~ overdue
  /\ polls[p].pc = "idle"
  /\ polls' = [polls EXCEPT ![p] = [NoPoll EXCEPT !.pc = "asked", !.after = lastCursor]]
  /\ UNCHANGED <<ring, bridge, overdue, sub>>

StopPolling ==
  /\ status = "active"
  /\ overdue
  /\ status' = "expired"
  /\ UNCHANGED <<ring, bridge, overdue, boot, filter, lastCursor, events, polls>>

(* handleEvents runs in the Bridge, and its answer travels back.           *)
Fetch(p) ==
  /\ polls[p].pc = "asked"
  /\ bridge
  /\ polls' = [polls EXCEPT ![p].pc = "answered",
                            ![p].reply = Query(boot, polls[p].after, FetchLimit)]
  /\ UNCHANGED <<ring, bridge, overdue, sub>>

(* Busy, timed out or gone: the error is logged and forgotten.             *)
FetchFail(p) ==
  /\ polls[p].pc = "asked"
  /\ polls' = [polls EXCEPT ![p] = NoPoll]
  /\ UNCHANGED <<ring, bridge, overdue, sub>>

Passed(s) == Those(s, [seq : Nat, kind : filter])

\* Mutant: when the room is short, the newest events get it.
PollEndNewest(p) ==
  /\ polls[p].pc = "answered"
  /\ LET new == Passed(polls[p].reply.events)
         room == Smaller(Len(new), MaxBuffered - Len(events)) IN
     /\ events' = events \o SubSeq(new, Len(new) + 1 - room, Len(new))
     /\ lastCursor' = IF new = <<>> THEN lastCursor ELSE Last(new).seq
  /\ polls' = [polls EXCEPT ![p] = NoPoll]
  /\ UNCHANGED <<ring, bridge, overdue, status, boot, filter>>

\* Mutant: the cursor is taken for the first sequence still to come.
PollEndInclusive(p) ==
  /\ polls[p].pc = "answered"
  /\ LET new == Passed(polls[p].reply.events) IN
     /\ events' = events \o SubSeq(new, 1, Smaller(Len(new), MaxBuffered - Len(events)))
     /\ lastCursor' = IF new = <<>> THEN lastCursor ELSE Last(new).seq + 1
  /\ polls' = [polls EXCEPT ![p] = NoPoll]
  /\ UNCHANGED <<ring, bridge, overdue, status, boot, filter>>

(* What does not pass the filter moves nothing, not even the cursor; what  *)
(* passes moves the cursor, but finds no room in a full buffer.            *)
PollEnd(p) ==
  /\ polls[p].pc = "answered"
  /\ LET new == Passed(polls[p].reply.events) IN
     /\ events' = events \o SubSeq(new, 1, Smaller(Len(new), MaxBuffered - Len(events)))
     /\ lastCursor' = IF new = <<>> THEN lastCursor ELSE Last(new).seq
  /\ polls' = [polls EXCEPT ![p] = NoPoll]
  /\ UNCHANGED <<ring, bridge, overdue, status, boot, filter>>

-----------------------------------------------------------------------------
Next ==
  \/ \E k \in Kinds : RecordEvent(k)
  \/ BridgeGone
  \/ TimeToLivePasses
  \/ \E b \in {"this", "other"}, F \in Filters : Subscribe(b, F)
  \/ Unsubscribe
  \/ StopPolling
  \/ \E p \in Polls : PollBegin(p) \/ Fetch(p) \/ FetchFail(p) \/ PollEnd(p)

(* The timer fires as long as it is set, a fetch comes back within its     *)
(* time-out, and of the fetches from a Bridge that is there not all fail.  *)
Fairness ==
  \A p \in Polls :
    /\ WF_vars(PollBegin(p))
    /\ WF_vars(Fetch(p) \/ FetchFail(p))
    /\ SF_vars(Fetch(p))
    /\ WF_vars(PollEnd(p))

Spec == Init /\ [][Next]_vars
FairSpec == Spec /\ Fairness

-----------------------------------------------------------------------------
(* With polls that do not overlap, the subscription is an EventStream, a   *)
(* full buffer being the end of it.                                        *)
Stream == INSTANCE EventStream WITH wanted <- filter, delivered <- events
IsEventStream == Stream!Spec

(* The pages that a consumer gets who follows nextCursor from the first.   *)
Pages(limit) ==
  LET pages[n \in 0..MaxBuffered] ==
        IF n = 0 THEN ListEvents(0, limit)
        ELSE IF pages[n - 1].nextCursor = 0 THEN pages[n - 1]
        ELSE [ListEvents(pages[n - 1].nextCursor, limit)
                EXCEPT !.events = pages[n - 1].events \o @]
  IN  pages[MaxBuffered]

(* Together they are the events of the buffer, each once and in order,     *)
(* whatever the size of the pages.                                         *)
PagingIsComplete ==
  \A limit \in 1..(MaxBuffered + 1) : Pages(limit).events = events

(* What a subscription is for: as long as it lives, what its filter wants  *)
(* arrives, or the ring has dropped it, or the buffer is full, or the      *)
(* cursor has fallen out of the ring.                                      *)
InRing(n) == n \in (Lost + 1)..Len(log)
Arrived(n) == \E k \in 1..Len(events) : events[k].seq = n
Behind == lastCursor > 0 /\ lastCursor < Lost
Over == status # "active" \/ overdue \/ ~ bridge \/ boot # "this"
Arrives(F) ==
  \A n \in 1..MaxEvents :
    ~ Over /\ filter = F /\ InRing(n) /\ log[n] \in F
      ~> Arrived(n) \/ Len(events) = MaxBuffered \/ ~ InRing(n) \/ Behind \/ Over

(* It does when the filter lets every kind through.                        *)
UnfilteredEventsArrive == Arrives(Kinds)

-----------------------------------------------------------------------------
(* What the documentation says and the code does not do.                   *)

(* "Filtered events reach the right client" (release-checklist.md).        *)
FilteredEventsArrive == \A F \in Filters : Arrives(F)
=============================================================================
