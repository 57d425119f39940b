SPECIFICATION Spec
CONSTANTS
  e1 = e1  e2 = e2  e3 = e3
  u1 = u1  u2 = u2
  w1 = w1  w2 = w2
  c1 = c1  c2 = c2  d1 = d1
  None = None
  Entry = {e1, e2}
  Url = {u1}
  UrlOf <- OneUrl
  Worker = {w1, w2}
  Consumer = {c1, c2, d1}
  Owner <- TwoWorkers
  MaxStops = 0
  MaxDrops = 1
INVARIANTS
  ReadIsDurable
  CompletedIsDurable
PROPERTY
  Delivers
SYMMETRY Twins
CHECK_DEADLOCK FALSE
