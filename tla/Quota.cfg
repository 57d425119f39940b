SPECIFICATION Spec
CONSTANTS
  t1 = t1  t2 = t2
  Task = {t1, t2}
  Lane = {"simple"}
  Rpm <- McRpm
  Tpm <- McTpm
  Rpd <- McRpd
  Budget <- McBudget
  Estimate = {2}
  Billed = {0, 3}
  Window = 2
  Day = 3
  MaxTx = 1
  MaxRows = 3
  MaxClock = 4
  Null = Null
SYMMETRY Callers
INVARIANTS
  TypeOK
  WindowLimit
  RateLimit
  TokenLimit
  DayLimit
PROPERTIES
  SettlementIsFinal
