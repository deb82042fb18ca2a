CONSTANTS
  Nodes <- MCNodes
  rootnodes <- MCRootnodes
  nextnodes <- MCNextnodes
  Joins <- MCJoins
  want_orig <- MCJoinOfThree
  MaxRuns = 1
  MaxResets = 0
SPECIFICATION FairSpec
CHECK_DEADLOCK FALSE
PROPERTIES JoinFinishes
