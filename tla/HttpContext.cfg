\* Requests alone and after each other, with bodies that look like ends of lines and
\* lengths that are replaced, and malformed ones; a buffer of three bytes, which has
\* to grow and to be shifted; and two clients for one object.
SPECIFICATION FairSpec
CONSTANTS
  Bytes <- Tokens
  Conversations <- Pipelines
  MaxReceive = 3
  InitSize = 3
  MaxBody = 2
  MaxConnections = 2
INVARIANTS
  BufferSound
  

  
\* The last client leaves.
CHECK_DEADLOCK FALSE
