CONSTANTS
    AKeys = {k1, k2}  Requests = {r1, r2}  Volatile = {k1}  Loads = {l1, l2}  None = None
    CacheTTL = 1  CacheMax = 1  MaxVersion = 1
    c1 = c1  c2 = c2  Callers = {c1, c2}  Wants <- Crossing  MaxOrderedFaults = 1
    Keys = {1, 2}  Procs = {p1}  Tokens = {t1, t2, t3, t4, t5, t6}  NoToken = NoToken  TTL = 2
    Conns = {n1, n2}  Broadcasts = {b1}
    Exporters = {e1, e2}  MaxExpiries = 1  MaxEdits = 1  MaxExportFaults = 1
    Calls = {c1, c2}  Attempts = 3  Failures = 2  Cooldown = 1  MaxCooldown = 3
SPECIFICATION SharingSpec
CHECK_DEADLOCK FALSE
INVARIANTS NothingForgotten EveryoneTold ProbeSlot
PROPERTIES GetReturns SomeoneGetsAll Listens ExportAcked OnlyProbesClose Recovers
