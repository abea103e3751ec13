\* Two workers, so that both may wait or one add what the other takes, and
\* four tasks, one of them empty, so that the queue holds several.
SPECIFICATION FairPoolSpec
CONSTANTS
  ThreadCount = 2
  Tasks = {t1, t2, t3, t4}
  Empty = {t4}
  None = None
INVARIANTS
  RunsOnce
PROPERTIES
  Finishes
\* The pool may stay idle for ever, and it ends.
CHECK_DEADLOCK FALSE
