SPECIFICATION Spec
CONSTANTS
  a1 = a1
  a2 = a2
  c1 = c1
  c2 = c2
  l1 = l1
  Actors = {a1, a2}
  Objects = {c1, c2, l1}
  Registered = {a1}
  Requests <- PhoneAndLaptop
  MaxRequests = 3
  MaxCrashes = 1
INVARIANT BothPostsPreserved
CHECK_DEADLOCK FALSE
