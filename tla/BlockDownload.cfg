\* A task of two blocks that is started twice.
CONSTANTS
  t1 = t1
  t2 = t2
  b1 = b1
  b2 = b2
  Tasks <- OneTask
  BlocksOf <- OneBlocksOf
  Requests <- OneRequests
  Contents <- TwoContents
  Answers <- TwoContents
  StartBudget <- OneBudget
  MaxTimeouts = 1
  MaxRequests = 5
SPECIFICATION Spec
INVARIANTS
  TypeOK
  CompletedLeavesNothingWaiting
  
CHECK_DEADLOCK FALSE
