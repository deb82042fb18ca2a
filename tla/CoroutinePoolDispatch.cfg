CONSTANTS
  Workers = {w1, w2}
  Jobs = {j1, j2}
  JobCalls = {"Schedule"}
  MaxNums = {0}
  None = None
SPECIFICATION Spec
CHECK_DEADLOCK FALSE
PROPERTIES DispatchBlocks
