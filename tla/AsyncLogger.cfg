\* Two threads with two lines each, buffers and files of two lines, two files, so
\* that the oldest is unlinked, and one restart.
SPECIFICATION FairLogSpec
CONSTANTS
  Threads = {t1, t2}
  MaxLines = 2
  BufferThreshold = 2
  MaxFileSize = 2
  MaxFiles = 2
  MaxRestarts = 1
INVARIANTS
  LinesIntact
  FilesAreTheEnd
PROPERTIES
  LinesDoNotLinger
\* Nobody has to log.
CHECK_DEADLOCK FALSE
