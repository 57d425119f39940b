SPECIFICATION FairSpec
CONSTANTS
  Forms = {"legacy", "foreign", "current"}
  Last = 4
  LedgerVersion = 1
  HeartbeatVersion = 2
  NullsVersion = 3
  PoolAttempts = 2
  MaxFaults = 1
  MaxOutages = 1
INVARIANTS
  TypeOK
  UpIsMigrated
  RecordedIsExecuted
  ExecutedAtMostTwice
PROPERTIES
  ComesUp
