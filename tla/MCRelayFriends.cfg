\* Requests run out.
CHECK_DEADLOCK FALSE
SPECIFICATION Spec
CONSTANTS
  a = a
  b = b
  Users = {a, b}
  Requests <- MCRequests
  MaxRequests = 4
  MaxCrashes = 1
INVARIANTS TypeOK Consented FriendsAreMutual OneStateOfAPair
PROPERTIES CrashSparesAnswered
