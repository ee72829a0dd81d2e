CONSTANTS
  Session = {1, 2}
  MaxSessions = 1
  MaxActiveJobs = 1
  CacheLimit = 1
  MaxOthers = 2
  Share = {"plain", "rolled"}
  En2 <- MCEn2
  Time = {"curtime"}
  GoodTime = {"curtime"}
  SameTarget = {1, 2}
  Grade <- MCGrade
  MaxTip = 3
  MaxEvents = 1
SPECIFICATION StratumSpec
INVARIANT CandidatesConnect
CHECK_DEADLOCK FALSE
