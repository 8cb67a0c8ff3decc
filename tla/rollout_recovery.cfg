SPECIFICATION FairSpec
CONSTANTS
  master = master
  relay = relay
  exit = exit
  Member = {master, relay, exit}
  Master = master
  Rank <- TopologyRank
  Coord = {c1}
  Tx = {t1, t2}
  NoTx = NoTx
  Late = {"commit", "rollback", "finalize"}
  MaxRevision = 2
  MaxFaults = 2
INVARIANTS
  JournalCoversOpenTransactions
PROPERTIES
  RecoveryCompletes
CHECK_DEADLOCK FALSE
