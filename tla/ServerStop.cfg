\* stop() as its documentation has it, with one client.
CONSTANTS
  c1 = c1
  c2 = c2
  Clients <- Single
  Sends <- SingleSends
  Unanswered = {}
  Fds <- PairFds
  Capacity = 1
  MayStop = TRUE
SPECIFICATION FairSpec
PROPERTY StopReturns
CHECK_DEADLOCK FALSE
