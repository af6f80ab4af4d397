CONSTANTS
    Requests = {r1, r2}
    FailOpen = {r2}
    Hashes = {h1, h2}
    Statuses = {200, 422, 409, 500}
    Lease = 1
    TTL = 1
    MaxRun = 2
    MaxFaults = 2
    None = None
SPECIFICATION FairSpec
INVARIANTS OneRunner RepeatsExplained
PROPERTIES ReplayIsOriginal ClaimLapses
