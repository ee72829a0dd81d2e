CONSTANTS
  Session = {1, 2}
  MaxSessions = 1
  MaxActiveJobs = 1
  CacheLimit = 0
  MaxOthers = 1
  Share = {"plain"}
  En2 <- MCEn2
  Time = {"curtime", "late"}
  GoodTime = {"curtime"}
  SameTarget = {2}
  Grade <- MCGrade
  MaxTip = 3
  MaxEvents = 1
SPECIFICATION StratumSpec
INVARIANTS CreditOnce ShareMemoryBounded WorkersOnCurrentJob ZeroNonceConnects
PROPERTY JobFollowsTip
CHECK_DEADLOCK FALSE
