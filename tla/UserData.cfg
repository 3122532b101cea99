\* Two items and two passes fit into their buffers; 4 is cast to 0, 6 to 2.
CONSTANTS
  RedisThreads = {r1}
  Users = {u1}
  Positions = 3
  Codes = {1, 4, 6, unreadable}
  Unreadable = unreadable
  Word = 4
  MaxPasses = 4
  FullPasses = {4}
  InvenLen = 7
  PassLen = 7
  MaxChanges = 2
SPECIFICATION Spec
INVARIANTS TypeOK ReplyIsOneSnapshot OverrunOnlyByTooMany HashNotBehindReply
PROPERTY HashNeverGoesBack
CHECK_DEADLOCK FALSE
