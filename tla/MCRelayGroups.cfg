SPECIFICATION Spec
CONSTANTS
  a = a
  b = b
  c = c
  Users = {a, b, c}
  Founder = a
  Members = {b}
  Requests <- MCRequests
  MaxRequests = 3
  MaxCrashes = 1
INVARIANTS TypeOK OwnerOfRecord
PROPERTIES OwnerResigns ReturnsByOwnLink
\* Requests run out.
CHECK_DEADLOCK FALSE
