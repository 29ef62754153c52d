\* Two kinds of request, two answers, three requests sent.
CONSTANTS
  Requests = {download, block}
  Answers = {data, empty}
  MaxRequests = 3
SPECIFICATION FairTransSpec
INVARIANTS
  
  AnswersReachTheirAskers
  TimedOutStaysUnanswered
 
CHECK_DEADLOCK FALSE
