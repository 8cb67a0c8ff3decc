SPECIFICATION FlowSpec
CONSTANTS
  n1 = n1
  n2 = n2
  Node = {n1, n2}
  Connections = 2
  Owner <- Alternate
  PageLimit = 1
  QueueLimit = 3
  Applied = {TRUE, FALSE}
  Size <- LongShort
  Ending = {1}
  MaxTroubles = 1
INVARIANTS ReplayCountsOnce NeverInherited NoSilentLoss
PROPERTIES CatchesUp
CHECK_DEADLOCK FALSE
