SPECIFICATION FairSpec
CONSTANTS
  a = a
  b = b
  c = c
  d = d
  Node <- Nodes
  Snapshots <- Graphs
  CallLimit <- Limits
  MaxDepth = 2
INVARIANTS
  NoReentry
  DepthIsPath
  RefusedMeansReplaced
PROPERTY EveryRunEnds
CHECK_DEADLOCK FALSE
