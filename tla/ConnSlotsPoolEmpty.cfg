\* More objects in use than the pool has.
CONSTANTS
  MaxUsersObject = 2
  Pooled = {o1, o2, o3, o4}
  Heap = {}
  SizeMod = 65536
  AcceptCalls = {a1, a2}
  MaxArrivals = 2
  MaxRequests = 2
SPECIFICATION Spec
INVARIANT EveryConnectionListens
CHECK_DEADLOCK FALSE
