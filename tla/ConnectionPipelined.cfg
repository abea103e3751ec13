\* Three short requests, sent without waiting.
SPECIFICATION FairSpec
CONSTANTS
  Kinds = {"short"}
  MaxRequests = 3
  SockCap = 1
  MaxReadBuffer = 100
PROPERTIES
  PipelinedAnswered
CHECK_DEADLOCK FALSE
