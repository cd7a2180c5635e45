\* Requests run out.
CHECK_DEADLOCK FALSE
SPECIFICATION Spec
CONSTANTS
  a = a
  b = b
  Users = {a, b}
  Requests <- MCRequests
  MaxRequests = 3
  MaxCrashes = 0
INVARIANT MutualFriends
