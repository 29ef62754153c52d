\* Two clients with four requests between them, one of which is unknown.
CONSTANTS
  c1 = c1
  c2 = c2
  Clients <- Pair
  Sends <- PairSends
  Unanswered <- PairUnanswered
  Fds <- PairFds
  Capacity = 1
  MayStop = FALSE
SPECIFICATION Spec
INVARIANTS
  TypeOK
  AnswersInOrder
  NoAnswerStranded
  NoOpenConnectionDropped
CHECK_DEADLOCK FALSE
