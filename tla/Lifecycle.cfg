SPECIFICATION FairSpec
CONSTANTS
  MaxThreadCnt = 2
  MaxUsersObject = 2
  MaxArrivals = 2
  MaxData = 1
INVARIANTS TypeOK DefinedOnceStarted HandlersAfterMySQL
PROPERTY ServerEndReturns
CHECK_DEADLOCK FALSE
