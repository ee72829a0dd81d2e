SPECIFICATION HeadersPoolSpec
CONSTANTS
  \* HeaderChain
  Base = 4
  Bytes = 5
  Epoch = 2
  Interval = 2
  Clamp = 2
  MaxTarget = 400
  GenesisBits <- MCGenesisBits
  MtpWindow = 3
  MaxDrift = 1
  MaxTime = 17
  MaxLength = 5
  \* Mempool
  Block <- MCBlock
  Genesis = "G"
  NoHash = "zero"
  Parent <- MCParent
  Work <- MCWork
  MaxWork = 20
  Tx <- MCTx
  Body <- MCBody
  OutPoint <- MCOutPoint
  Ins <- MCIns
  Outs <- MCOuts
  OpReturn = {}
  Value <- MCValue
  UtxoRoot <- MCUtxoRoot
  WellFormed <- MCBlock
  GoodHeader <- MCBlock
  Committed <- MCBlock
  ScriptsOk <- MCBlock
  Dust = 2
  InitialSubsidy = 4
  HalvingInterval = 10
  MaxReorgDepth = 3
  Source <- MCSource
  Rate <- MCRate
  Size <- MCSize
  Authorized <- MCTx
  MinRate = 1
  MaxCount = 3
  MaxBytes = 4
  MaxAncestors = 2
  MaxDescendants = 2
  BlockBytes = 3
INVARIANTS
  BranchLawful
  ArithmeticExact
  PoolConsistent
  TemplateApplies
PROPERTY ExtensionPurgesConflicts
CHECK_DEADLOCK FALSE
