CONSTANTS
    Requests = {r1, r2, r3}
    FailOpen = {r2}
    Hashes = {h1, h2}
    Statuses = {200, 422, 409, 500}
    Lease = 1
    TTL = 1
    MaxRun = 2
    MaxFaults = 2
    None = None
SPECIFICATION Spec
INVARIANT ConcurrentRunOnce
