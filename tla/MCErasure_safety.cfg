CONSTANTS
    p1 = p1  p2 = p2  r1 = r1  r2 = r2  user = user  o1 = o1  o2 = o2
    None = None
    Requests = {r1, r2}
    ErasedExpires = FALSE
    Procs = {p1, p2}
    Servers = {}
    Sub = user
    Orgs = {o1, o2}
    Sends <- TwoRequests
    MaxSeq = 2
    MaxFaults = 1
SPECIFICATION Spec
CHECK_DEADLOCK FALSE
SYMMETRY Symmetric
INVARIANTS PurgeUnderLock DoneIsExplained HookPerLock OrgsBeforeUser
PROPERTIES ImplementsTable
