\* The centre's slot and a client slot sharing pool and port, over several clients of each.
CONSTANTS
  MaxUsersObject = 2
  Pooled = {o1, o2, o3}
  Heap = {h1}
  SizeMod = 65536
  AcceptCalls = {a1, a2, a3}
  MaxArrivals = 2
  MaxRequests = 2
SYMMETRY ObjectSymmetry
SPECIFICATION Spec
INVARIANTS TypeOK SlotReachable SendCounterAccounts OneOwner
PROPERTY LostOnlyWithAPeer
CHECK_DEADLOCK FALSE
