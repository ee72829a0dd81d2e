SPECIFICATION SyncSpec
CONSTANTS
  Caller = {"main", "sync", "ipc"}
  Main = "main"
  Client = {"ipc"}
  Sync = "sync"
  Worker = {1, 2}
  NoWorker = 0
  Reserved = 1
  MiningEnabled = TRUE
  Block <- MCBlock
  Genesis = "G"
  Parent <- MCParent
  Bad = {}
  Minable = {"m1"}
  Peer <- MCPeer
  PeerChain <- MCChain
  Advertised <- MCAdvertised
  Gossip = {"b1"}
  BatchSize = 2
  MaxRequests = 2
  MaxLost = 1
INVARIANTS
  NoWorkerLost
PROPERTIES
  DownloadEnds
  StopReturns
  DownloadReachesPeers
CHECK_DEADLOCK FALSE
