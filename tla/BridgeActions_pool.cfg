SPECIFICATION FairSpec
CONSTANTS
  MaxRequests = 4
  Keys = {"k1"}
  Workers = 2
  QueueCapacity = 1
  BlindRetries = FALSE
INVARIANTS OncePerKey AnswersAreTrue
PROPERTY RequestsLeave
CHECK_DEADLOCK FALSE
