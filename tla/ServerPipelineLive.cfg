\* One client, and a stop at any moment.
CONSTANTS
  c1 = c1
  c2 = c2
  Clients <- Single
  Sends <- SingleSends
  Unanswered = {}
  Fds <- PairFds
  Capacity = 1
  MayStop = TRUE
SPECIFICATION FairSpec
PROPERTIES
  EveryRequestAnswered
  StopReturnsUnlessStuck
CHECK_DEADLOCK FALSE
