SPECIFICATION WorkingSpec
CONSTANTS
  Block <- MCIAll
  Genesis = "G"
  NoHash = "zero"
  Parent <- MCIParent
  Work <- MCIWork
  MaxWork = 7
  Tx <- MCTx
  Body <- MCIBody
  OutPoint <- MCOutPoint
  Ins <- MCIns
  Outs <- MCOuts
  OpReturn <- MCOpReturn
  Value <- MCValue
  UtxoRoot <- MCIUtxoRoot
  WellFormed <- MCIAll
  GoodHeader <- MCIAll
  Committed <- MCIAll
  ScriptsOk <- MCIScriptsOk
  Dust = 2
  InitialSubsidy = 4
  HalvingInterval = 2
  MaxReorgDepth = 2
  Address = {"alice", "bob"}
  Owner <- MCOwner
  KeyRank <- MCKeyRank
  ChunkSize = 3
  LocalOnly = {"w2"}
  Offered <- MCNoneOffered
  MaxFaults = 2
  MaxRequests = 2
INVARIANT Restartable
