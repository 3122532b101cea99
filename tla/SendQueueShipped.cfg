\* maxThreadCount = 1 (main.cpp): one redis thread and one worker.
CONSTANTS
  Pushers = {redis}
  Workers = {worker}
  Window = 4
  MaxMsgs = 6
  SizeMod = 65536
SPECIFICATION Spec
INVARIANTS TypeOK WireInPushOrder AtMostTwoOutstanding
CHECK_DEADLOCK FALSE
