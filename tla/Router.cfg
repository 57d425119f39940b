SPECIFICATION FairSpec
CONSTANTS
  t1 = t1
  Task = {t1}
  SimpleRefs <- McSimple
  ComplexRefs <- McComplex
  Gemini = {"flash"}
  MaxAttempts = 3
  EscalationAttempts = 2
INVARIANTS
  TypeOK
  NothingLeftOpen
  CallsBounded
  RespectsCooldown
PROPERTIES
  UsesReservations
  FallbackIsLast
  Ends
