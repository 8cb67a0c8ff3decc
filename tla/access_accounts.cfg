SPECIFICATION FairSpec
CONSTANTS
  relay = relay
  exit = exit
  n1 = n1
  daemon = daemon
  operator = operator
  Entry = {relay}
  Members = 2
  Node = {n1}
  Sync = {daemon, operator}
  Route <- Fixed
  MaxPlan = 1
  Quota = 0
  Lease = 1
  Edits = {"rotate-link", "disable"}
  MaxGen = 2
  MaxSeq = 3
  MaxBytes = 2
INVARIANTS
  EveryByteOnce
  NoDoubleCharge
PROPERTIES
  LeaseEndsService
CHECK_DEADLOCK FALSE
