CONSTANTS
  Bytes = {a, b}
  BufferSize = 4
  MaxLen = 5
SPECIFICATION Spec
INVARIANTS TypeOK Occupancy
PROPERTY ImplementsFifo
