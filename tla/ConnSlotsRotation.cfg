\* Liveness: no symmetry, AcceptEx calls enough for every slot and its stale offers.
CONSTANTS
  MaxUsersObject = 3
  Pooled = {o1, o2}
  Heap = {}
  SizeMod = 65536
  AcceptCalls = {a1, a2, a3, a4}
  MaxArrivals = 2
  MaxRequests = 1
SPECIFICATION FairSpec
 
PROPERTY FreshSlotReoffered
CHECK_DEADLOCK FALSE
