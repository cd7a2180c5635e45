SPECIFICATION Spec
CONSTANTS
  a1 = a1
  a2 = a2
  c1 = c1
  c2 = c2
  l1 = l1
  Actors = {a1, a2}
  Objects = {c1, c2, l1}
  Registered = {a1}
  Requests <- Devices
  MaxRequests = 3
  MaxCrashes = 1
INVARIANTS TypeOK SingleHead IndexFollowsDisk AckedKeepsEvent NeverStuck
PROPERTY AppendOnly
CHECK_DEADLOCK FALSE
