SPECIFICATION Spec
CONSTANTS
  relay = relay
  exit = exit
  n1 = n1
  daemon = daemon
  operator = operator
  Entry = {relay}
  Members = 2
  Node = {n1}
  Sync = {daemon}
  Route <- Fixed
  MaxPlan = 1
  Quota = 0
  Lease = 1
  Edits = {"rotate"}
  MaxGen = 2
  MaxSeq = 4
  MaxBytes = 1
INVARIANTS
  NoDoubleCharge
CHECK_DEADLOCK FALSE
