CONSTANTS
  max_send_try = 2
  Nulls = {FALSE, TRUE}
  MaxData = 2
  MaxBody = 3
  PipeHint = 2
SPECIFICATION StreamFairSpec
INVARIANTS StreamTypeOK Timed CleanReuse NotReused AtMostOnce Recovers DeadUntouched AnswerIsOwed
PROPERTIES ImplementsExchange SpliceForwardsAll RequestEnds
