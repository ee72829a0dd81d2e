SPECIFICATION SyncSpec
CONSTANTS
  Caller = {"main", "sync"}
  Main = "main"
  Client = {}
  Sync = "sync"
  Worker = {1, 2}
  NoWorker = 0
  Reserved = 1
  MiningEnabled = FALSE
  Block <- MCLine
  Genesis = "G"
  Parent <- MCLineParent
  Bad = {}
  Minable = {}
  Peer = {"p1"}
  PeerChain <- MCLineChain
  Advertised <- MCLineAdvertised
  Gossip = {}
  BatchSize = 1
  MaxRequests = 5
  MaxLost = 0
PROPERTY DownloadFinishes
CHECK_DEADLOCK FALSE
