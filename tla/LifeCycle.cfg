\* Two IO threads, so that one is stopped while the other still runs, and two
\* signals, so that one can come on the way down.
SPECIFICATION FairSpec
CONSTANTS
  ThreadNum = 2
  MaxSignals = 2
INVARIANTS
  ServesSafely
  CleanEnd
  GracefulWhenIdle
PROPERTIES
  SignalEnds
\* The process ends.
CHECK_DEADLOCK FALSE
