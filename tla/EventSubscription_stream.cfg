CONSTANTS
  Kinds = {"block", "chat"}
  Capacity = 2
  MaxEvents = 4
  Filters <- MCFilters
  Polls = {"p1"}
  FetchLimit = 2
  MaxBuffered = 3
SPECIFICATION FairSpec
INVARIANTS RingIsFaithful PagingIsComplete
PROPERTIES IsEventStream UnfilteredEventsArrive
CHECK_DEADLOCK FALSE
