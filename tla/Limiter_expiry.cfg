SPECIFICATION LimiterSpec
CONSTANTS
 Reqs = {r1,r2}
 MaxRequests = 1
 Threshold = 2
 Window = 3
 BlockFor = 3
 MaxCount = 4
INVARIANT EveryKeyExpires
CHECK_DEADLOCK FALSE
