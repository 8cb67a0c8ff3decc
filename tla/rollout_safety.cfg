SPECIFICATION Spec
CONSTANTS
  master = master
  relay = relay
  exit = exit
  Member = {master, relay, exit}
  Master = master
  Rank <- TopologyRank
  Coord = {c1}
  Tx = {t1, t2}
  NoTx = NoTx
  Late = {"prepare", "commit", "rollback", "finalize"}
  MaxRevision = 2
  MaxFaults = 2
INVARIANTS
  TypeOK
  Agreement
  DecisionHonoured
  FinalizedIsKept
  RuntimeFollowsState
  StateLoads
PROPERTIES
  MasterSwitchesLast
  AtomicSpec
CHECK_DEADLOCK FALSE
