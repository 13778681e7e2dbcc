SPECIFICATION FairSpec
CONSTANTS
  Client = {t1}
  Banned = {}
  MaxSeq = 2
  Slow <- First
  Clearing <- Empty
  MaxConn = 2
  MaxFaults = 2
CHECK_DEADLOCK FALSE
INVARIANTS
  ServedBaselineIsReplayable
  ShowsAPrefix
  StreamIsComplete
PROPERTIES
  EveryoneCatchesUp
