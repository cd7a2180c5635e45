SPECIFICATION Spec
CONSTANTS
  a1 = a1
  a2 = a2
  c1 = c1
  c2 = c2
  t1 = t1
  Actors = {a1, a2}
  Contents = {c1, c2}
  Targets = {t1}
  Registered = {a1}
  Requests <- ContendedRequests
  MaxRequests = 3
  MaxCrashes = 1
INVARIANTS TypeOK ChainSound HeadTrails AckedIsDurable AckedOwnPlace NoUnloggedDelete
PROPERTY AppendOnly
CHECK_DEADLOCK FALSE
