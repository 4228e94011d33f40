SPECIFICATION TableSpec
CONSTANTS
    ID_BITS = 4
    LocalId <- MCLocalId
    Ids <- BucketIds
    B = 2
    RT_BASE = 1
    BUCKET_SIZE = 2
    CACHE_SIZE = 1
    STALE = 1
    Bsp = {b1}
    TIMEOUT_RESPONSE = 500
    DELAY_MAX = 30000
INVARIANT EveryBucketIsRefreshed
