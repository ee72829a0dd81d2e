SPECIFICATION HeaderSpec
CONSTANTS
  Base = 4
  Bytes = 5
  Epoch = 2
  Interval = 2
  Clamp = 2
  MaxTarget = 400
  GenesisBits <- MCGenesisBits
  MtpWindow = 3
  MaxDrift = 1
  MaxTime = 17
  MaxLength = 5
INVARIANT NextHeaderExists
CHECK_DEADLOCK FALSE
