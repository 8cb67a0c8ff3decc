SPECIFICATION Spec
CONSTANTS
  relay = relay
  exit = exit
  n1 = n1
  daemon = daemon
  operator = operator
  Entry = {relay, exit}
  Members = 3
  Node = {n1}
  Sync = {daemon}
  Route <- Moves
  MaxPlan = 2
  Quota = 1
  Lease = 1
  Edits = {"rotate", "reassign", "reset", "mesh apply"}
  MaxGen = 2
  MaxSeq = 2
  MaxBytes = 1
INVARIANTS
  ServesItsGrant
PROPERTIES
  NoSecretReturns
CHECK_DEADLOCK FALSE
