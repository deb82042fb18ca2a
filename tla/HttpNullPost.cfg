SPECIFICATION Spec
CONSTANTS
  max_send_try = 2
  Nulls = {FALSE, TRUE}
  MaxData = 2
  MaxBody = 2
INVARIANTS NullEndsPost
