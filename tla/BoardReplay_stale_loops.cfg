SPECIFICATION FairSpec
CONSTANTS
  Client = {t1}
  Banned = {t1}
  MaxSeq = 1
  Slow <- First
  Clearing <- Empty
  MaxConn = 3
  MaxFaults = 1
CHECK_DEADLOCK FALSE
PROPERTIES
  EveryoneReconnects
