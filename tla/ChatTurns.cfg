SPECIFICATION Spec
CONSTANTS
  Turns = {t1, t2, t3}
  Users = {u1, u2}
  Ids = {i1, i2}
  Clients = {c1}
  None = None
  MaxTime = 3
  Ttl = 3
  Cap = 3
  MaxMessages = 2
  Window = 2
  MaxHits = 2
  Day = 3
  MaxEmail = 1
  MaxProcess = 2
SYMMETRY Symmetry
\* The clock and the turns are bounded.
CHECK_DEADLOCK FALSE
INVARIANTS TypeOK WholeExchanges CapsHoldWithinDay
PROPERTIES RefusedOnlyAtCap OnlyOldestEvicted
