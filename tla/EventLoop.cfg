\* Two other threads (the accepting loop's and one more), two functors, one
\* socket and one timer; epoll_wait reports one channel at a time, so that a
\* wake-up can be left for the next round.
SPECIFICATION FairSpec
CONSTANTS
  Callers = {main, other}
  Loop = loop
  Tasks = {f1, f2}
  Channels = {sock}
  WakeupChannel = wakeup
  Timers = {fd}
  MaxEvents = 1
  MaxCount = 2
  MaxSignals = 1
INVARIANTS
  FifoExactlyOnce
  NoLostWakeup
PROPERTIES
  BatchIsFixed
  QuitTerminates
  AwakeLoopFiresTimers
  QueueSpec
