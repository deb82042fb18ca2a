CONSTANTS
  Workers = {w1, w2}
  Jobs = {j1, j2, j3}
  JobCalls = {"Schedule", "Dispatch", "RunQueue", "Shutdown"}
  MaxNums = {0, 1}
  None = None
  MaxHelpers = 2
SPECIFICATION FairYieldSpec
CHECK_DEADLOCK FALSE
INVARIANTS TypeOK ResumedOnce NoIdleWorker HelperIsOwn
PROPERTIES EveryJobRuns RunQueueReturns
