\* Two requests of any kinds, which the client may overlap; the send buffer
\* holds one unit, so that every longer response is sent in pieces; three
\* fragments fill the read buffer, so that its limit is reached.
SPECIFICATION FairSpec
CONSTANTS
  Kinds = {"short", "long", "file", "close", "bad"}
  MaxRequests = 2
  SockCap = 1
  MaxReadBuffer = 3
INVARIANTS
  
  NothingLeftBehind
  EachInTurn
PROPERTIES
  
  AnswersFollow
\* SIGPIPE ends the process.
CHECK_DEADLOCK FALSE
