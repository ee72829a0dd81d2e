SPECIFICATION NodeSpec
CONSTANTS
  Block <- MCNBlock
  Genesis = "G"
  NoHash = "zero"
  Parent <- MCNParent
  Work <- MCNWork
  MaxWork = 7
  Tx <- MCTx
  Body <- MCNBody
  OutPoint <- MCOutPoint
  Ins <- MCIns
  Outs <- MCOuts
  OpReturn <- MCOpReturn
  Value <- MCValue
  UtxoRoot <- MCNUtxoRoot
  WellFormed <- MCNBlock
  GoodHeader <- MCNBlock
  Committed <- MCNBlock
  ScriptsOk <- MCScriptsOk
  Dust = 2
  InitialSubsidy = 4
  HalvingInterval = 2
  MaxReorgDepth = 2
INVARIANTS
  NodeConsistent
  DurableSound
  Restartable
PROPERTY ImplementsDurableLedger
