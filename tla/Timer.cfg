\* Six descriptors: with fewer, the last node never has to rise in the place of
\* a deleted one.  Three timeouts and a clock that ticks once give deadlines
\* that are equal, due, and not due.
SPECIFICATION HeapSpec
CONSTANTS
  Fds = {f1, f2, f3, f4, f5, f6}
  Delays = {0, 1, 2}
  MaxTime = 1
  None = None
SYMMETRY Symmetry
INVARIANTS
  Valid
PROPERTIES
  DeadlinesSpec
