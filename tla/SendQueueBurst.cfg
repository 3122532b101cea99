\* A client that sends its next request while one is unanswered.
CONSTANTS
  Pushers = {redis}
  Workers = {worker}
  Window = 2
  MaxMsgs = 3
  SizeMod = 65536
SPECIFICATION FairSpec
PROPERTY EveryReplySent
CHECK_DEADLOCK FALSE
