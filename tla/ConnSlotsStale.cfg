\* Late completions of a connection that is gone.
CONSTANTS
  MaxUsersObject = 2
  Pooled = {o1, o2, o3, o4}
  Heap = {}
  SizeMod = 65536
  AcceptCalls = {a1, a2}
  MaxArrivals = 2
  MaxRequests = 1
SYMMETRY ObjectSymmetry
SPECIFICATION Spec
PROPERTY OnlyOwnLossResets
CHECK_DEADLOCK FALSE
