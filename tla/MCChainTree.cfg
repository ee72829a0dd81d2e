SPECIFICATION ChainSpec
CONSTANTS
  Block <- MCBlock
  Genesis = "G"
  NoHash = "zero"
  Parent <- MCParent
  Work <- MCWork
  MaxWork = 4
  Tx <- MCTx
  Body <- MCBody
  OutPoint <- MCOutPoint
  Ins <- MCIns
  Outs <- MCOuts
  OpReturn <- MCOpReturn
  Value <- MCValue
  UtxoRoot <- MCUtxoRoot
  WellFormed <- MCWellFormed
  GoodHeader <- MCGoodHeader
  Committed <- MCCommitted
  ScriptsOk <- MCScriptsOk
  Dust = 2
  InitialSubsidy = 4
  HalvingInterval = 2
  MaxReorgDepth = 1
INVARIANTS
  ChainConsistent
  FlagsJustified
  NoInflation
  HeaviestWithinReach
