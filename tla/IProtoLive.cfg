CONSTANTS
  r1 = r1  r2 = r2  d1 = d1  p1 = p1  p2 = p2  ping = ping  None = None
  Requests = {r1}
  Drops = {}
  Pings = {p1, p2}
  Syncs = {r1, ping}
  PingSync = ping
  SyncOf <- UniqueSyncs
  PingModes = {FALSE}
  MaxBatch = 1
  MaxFaults = 2
  MaxControls = 2
SPECIFICATION LiveSpec
CHECK_DEADLOCK FALSE
INVARIANTS SocketWatched PingChain
PROPERTIES EveryRequestAnswered LostPeerLeft
