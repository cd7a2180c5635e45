SPECIFICATION Spec
CONSTANTS
  a = a
  b = b
  c = c
  Users = {a, b, c}
  Founder = a
  Members = {b}
  Requests <- Rejoin
  MaxRequests = 2
  MaxCrashes = 0
PROPERTY JoinedIsMember
CHECK_DEADLOCK FALSE
