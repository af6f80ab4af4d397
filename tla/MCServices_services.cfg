CONSTANTS
    Verifies = {r1, r2}  KeyTTL = 1  SharedTTL = 2  Throttle = 2  MaxRotations = 1
    Checks = {r1, r2}  Life = 2  RevocationTTL = 3  MemoryTTL = 1  MaxTime = 4
    Reqs = {r1, r2}  MaxRequests = 1  Threshold = 2  Window = 3  BlockFor = 3  MaxCount = 4
    BKeys = {b1, b2, b3}  Burst = 3  PerToken = 2  Rate = 1  MaxKeys = 2
    Replicas = {r1, r2}  Lifetimes = {2, 5}  Margin = 2  Delay = 1  TokenAttempts = 3
    CKeys = {1, 2, 3}  Prefixed = {1, 2}  Slots = {1, 2, 3}  SlotOf <- SlotTable  MaxSize = 2  MaxLeft = 1
    Writers = {r1, r2}  MaxAttempts = 2  MaxIncrements = 2  MaxDeletes = 1
    Positions = {1, 2, 3, 4, 5}  Limit = 2  MaxPages = 2  MaxChanges = 1
    Callers = {r1, r2}  Amounts = {1, 2}
    Optional = {payout, boleto}  Charges = {k1, k2}  PageSize = 2  MaxListed = 3
SPECIFICATION ServicesSpec
CHECK_DEADLOCK FALSE
SYMMETRY Symmetric
INVARIANTS RotationSeen RevokedIsRefused BudgetKept RetryNotEarly NothingGained TokenStillValid CapHolds PrefixGone NoLostUpdate EachListedOnce ConflictWroteNothing ReportsHold NotDowngraded
PROPERTIES BackIsPageBefore
