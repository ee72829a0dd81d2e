SPECIFICATION ServicesSpec
CHECK_DEADLOCK FALSE
CONSTANTS
  \* Script
  Unlocking <- MCUnlocking
  Locking <- MCLocking
  ContractLock <- MCContractLock
  Heights = {4, 5}
  Blake3 <- MCBlake3
  Signed <- MCSigned
  KeyLen = 1
  SigLen = 2
  IntWidth = 2
  MaxOps = 9
  MaxDepth = 19
  MaxItem = 4
  Ways <- MCWays
  \* Contracts
  Key = {alice, bob}
  Issuer = alice
  Rescuer = bob
  Payee = {bob}
  MaxAmount = 2
  MaxSupply = 2
  FirstSupply = 1
  UnlockTime = 1
  Penalty = 1
  Fuel <- MCFuel
  MaxTxGas = 5
  MaxBlockGas = 5
  MaxWasmFuel = 4
  MaxClock = 1
  MaxSigned = 2
  MaxHeight = 3
  MaxPending = 2
  \* Passbook
  Block <- MPBlock
  Genesis = "G"
  NoHash = "zero"
  Parent <- MPParent
  Work <- MPWork
  MaxWork = 9
  Tx <- MPTx
  Body <- MPBody
  OutPoint <- MPOut
  Ins <- MPIns
  Outs <- MPOuts
  OpReturn = {}
  Value <- MPValue
  UtxoRoot <- MPRoot
  WellFormed <- MPBlock
  GoodHeader <- MPBlock
  Committed <- MPBlock
  ScriptsOk <- MPBlock
  Dust = 1
  InitialSubsidy = 16
  HalvingInterval = 100
  Account = "alice"
  OwnerOf <- MPOwner
  LockOf <- MPLock
  TokenAmount <- MPToken
  OrderOf <- MPOrder
  FirstInput <- MPFirst
  IndexLimit = 5
  \* Peers
  Remote = {"r1", "r2"}
  SubnetKey <- MQSubnet
  NoSubnet = "none"
  Bootnode = {"r2"}
  MaxPerSubnet = 1
  MaxKnown = 1
  MaxFailures = 2
  MaxStrikes = 2
  MaxRate = 2
  Second = 1
  InboundSize = 1
  AnswersSize = 1
  OutboundSize = 1
  MaxTicks = 1
  MaxEvents = 4
  \* Wallets
  Owner = {"k1", "k2"}
  Number = {"n1", "n2"}
  Candidate <- MWCandidate
  WalletPath = {"p1", "p2"}
  Session = {"s1", "s2"}
  None = "none"
  Spent = {2, 3}
  MinerFee = 1
  DustLimit = 2
  GatewayLimit = 1
  MaxCoins = 5
  Opening <- MWOpening
  MaxAsked = 3
INVARIANTS
  StackWithinBudget StructureFollowed SpendAuthorized
  PendingAllowed TokensKept
  StatementBinds JournalExact LineageToIssuance
  RateKept StopEnds
  StoreOpens NumberHolds RerunRefused
