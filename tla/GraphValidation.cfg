\* Every graph of three nodes with up to two edges out of each.
CONSTANTS
  n1 = n1
  n2 = n2
  n3 = n3
  Node = {n1, n2, n3}
  Graphs <- UpToTwoChildren
SPECIFICATION ValidationSpec
INVARIANTS VerdictCorrect OutcomeCorrect
PROPERTY SearchesEnd
CHECK_DEADLOCK FALSE
