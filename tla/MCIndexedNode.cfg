SPECIFICATION MCIndexedSpec
CONSTANTS
  Block <- MCIBlock
  Genesis = "G"
  NoHash = "zero"
  Parent <- MCIParent
  Work <- MCIWork
  MaxWork = 7
  Tx <- MCTx
  Body <- MCIBody
  OutPoint <- MCOutPoint
  Ins <- MCIns
  Outs <- MCOuts
  OpReturn <- MCOpReturn
  Value <- MCValue
  UtxoRoot <- MCIUtxoRoot
  WellFormed <- MCIBlock
  GoodHeader <- MCIBlock
  Committed <- MCIBlock
  ScriptsOk <- MCIScriptsOk
  Dust = 2
  InitialSubsidy = 4
  HalvingInterval = 2
  MaxReorgDepth = 2
  Address = {"alice", "bob"}
  Owner <- MCOwner
  KeyRank <- MCKeyRank
  ChunkSize = 3
  LocalOnly = {}
  Offered <- MCOffered
  MaxFaults = 2
  MaxRequests = 2
INVARIANTS
  HistoryFollowsChain
  RowsFollowChain
  BalanceDrift
  RestoreContained
CHECK_DEADLOCK FALSE
