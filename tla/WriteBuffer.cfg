CONSTANTS
  Entries = {e1, e2, e3}
  Parts = 2
SPECIFICATION FairSpec
CHECK_DEADLOCK FALSE
INVARIANTS NeverStuck
PROPERTIES CallbackOnce Fifo EveryWriteEnds
