CONSTANTS
  r1 = r1  r2 = r2  d1 = d1  p1 = p1  p2 = p2  ping = ping  None = None
  Requests = {r1, r2}
  Drops = {d1}
  Pings = {p1}
  Syncs = {r1, r2, ping}
  PingSync = ping
  SyncOf <- UniqueSyncs
  PingModes = {FALSE}
  MaxBatch = 1
  MaxFaults = 1
  MaxControls = 1
SPECIFICATION Spec
CHECK_DEADLOCK FALSE
INVARIANTS TypeOK AnsweredOnce NoRequestForgotten WaitersTimed OneOwner QueueMoves
