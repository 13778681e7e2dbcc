CONSTANTS
  t1 = t1
  t2 = t2
  t3 = t3
  s1 = s1
  s2 = s2
  i1 = i1
  i2 = i2
  n1 = n1
  n2 = n2
  None = None
  Tab = {t1, t2}
  Secret = {s1, s2}
  Ip = {i1, i2}
  SecretOf <- Secrets
  IpOf <- Addresses
  Permanent = {}
  Others = TRUE
  Name = {n1, n2}
  UrlName <- Opened
  BanTime = {1}
  GrantTime = {0, 1}
  MaxConn <- Conns
  MaxTime = 1
  MaxEvents = 2
SPECIFICATION FairSpec
CHECK_DEADLOCK FALSE
INVARIANTS
  ViewsFollowTheBoard
  NoStaleRestriction
PROPERTIES
  EveryoneIsUpToDate
