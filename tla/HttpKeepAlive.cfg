SPECIFICATION Spec
CONSTANTS
  max_send_try = 2
  Nulls = {FALSE}
  MaxData = 2
  MaxBody = 2
PROPERTIES KeepAliveDropRetried
