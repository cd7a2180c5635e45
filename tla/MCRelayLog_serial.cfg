SPECIFICATION FairSerialSpec
CONSTANTS
  a1 = a1
  a2 = a2
  c1 = c1
  c2 = c2
  t1 = t1
  Actors = {a1, a2}
  Contents = {c1, c2}
  Targets = {t1}
  Registered = {a1}
  Requests <- SerialRequests
  MaxRequests = 4
  MaxCrashes = 0
INVARIANT StateIsDerived
PROPERTY HeadCatchesUp
CHECK_DEADLOCK FALSE
