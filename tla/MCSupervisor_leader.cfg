SPECIFICATION FairSpec
CONSTANTS
  w1 = w1
  w2 = w2
  p1 = p1
  p2 = p2
  k1 = k1
  Workers = {w1, w2}
  Procs = {p1, p2}
  Keys = {k1}
  Tokens = {t1, t2, t3, t4}
  NoToken = NoToken
  TTL = 2
  Proc <- TwoProcs
  Key <- OneKey
  MaxFaults = 1
  MaxLate = 1
  Managed = {p1}
CHECK_DEADLOCK FALSE
INVARIANTS QuietAfterShutdown
PROPERTIES ImplementsLeadership LostIsNoticed ShutdownEnds Failover
