\* Two lookups, four contact objects of three ids; both come to rest.
CONSTANTS
    Contact <- ContactPair
    Id <- Ids
    IdOf <- IdOfPair
    Lookup = {"p", "q"}
    Distance <- DistanceTwo
    ALPHA = 2
    BUCKET_SIZE = 2
    STALE = 2
SPECIFICATION Spec
INVARIANTS
    BlockedIsAccounted
    OneContactPerId
    CompletesOnce
    PendingMatchesRequests
PROPERTIES
    LookupComesToRest
    NoSecondQuestion
    SilentOnlyWhenExhausted
    OnlyDisplacedOrStale
CHECK_DEADLOCK FALSE
