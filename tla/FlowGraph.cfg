CONSTANTS
  Nodes <- MCNodes
  rootnodes <- MCRootnodes
  nextnodes <- MCNextnodes
  Joins <- MCJoins
  want_orig <- MCJoinOfTwo
  MaxRuns = 2
  MaxResets = 1
SPECIFICATION FairSpec
CHECK_DEADLOCK FALSE
INVARIANTS TypeOK RunsAccounted
PROPERTIES FollowersRun
