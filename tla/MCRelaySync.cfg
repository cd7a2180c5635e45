SPECIFICATION SyncSpec
CONSTANTS
  a1 = a1
  c1 = c1
  c2 = c2
  t1 = t1
  Actors = {a1}
  Contents = {c1, c2}
  Targets = {t1}
  Registered = {a1}
  Requests <- TwoPosts
  MaxRequests = 2
  MaxCrashes = 1
INVARIANT ServedEventsImmutable
CHECK_DEADLOCK FALSE
