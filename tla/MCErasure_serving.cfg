CONSTANTS
    p1 = p1  p2 = p2  r1 = r1  r2 = r2  user = user  o1 = o1  o2 = o2
    None = None
    Requests = {r1, r2}
    ErasedExpires = TRUE
    Procs = {p1}
    Servers = {p1}
    Sub = user
    Orgs = {}
    Sends <- OneRequest
    MaxSeq = 3
    MaxFaults = 1
SPECIFICATION FairSpec
CHECK_DEADLOCK FALSE
PROPERTIES TombstoneStays BlockedConverges EraseIsAnswered
