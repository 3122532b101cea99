\* Clients that wait for each reply before the next request; two redis threads and
\* two workers, as MaxThreadCnt allows.
CONSTANTS
  Pushers = {r1, r2}
  Workers = {w1, w2}
  Window = 1
  MaxMsgs = 4
  SizeMod = 65536
SPECIFICATION FairSpec
INVARIANT SizeAccounting
PROPERTY EveryReplySent
CHECK_DEADLOCK FALSE
