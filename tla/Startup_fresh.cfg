SPECIFICATION FairSpec
CONSTANTS
  Forms = {"none"}
  Last = 4
  LedgerVersion = 1
  HeartbeatVersion = 2
  NullsVersion = 3
  PoolAttempts = 2
  MaxFaults = 0
  MaxOutages = 0
PROPERTY
  ComesUp
