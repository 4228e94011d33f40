\* Two lookups that share three contacts: one that was answered with stale
\* contacts only never calls its handler.
CONSTANTS
    Contact <- ContactTrio
    Id <- Ids
    IdOf <- IdOfTrio
    Lookup = {"p", "q"}
    Distance <- DistanceTwo
    ALPHA = 2
    BUCKET_SIZE = 2
    STALE = 2
SPECIFICATION Spec
PROPERTIES
    EveryBusyLookupCompletes
CHECK_DEADLOCK FALSE
