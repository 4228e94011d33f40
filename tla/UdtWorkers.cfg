\* Two sockets that send two packets each, one under way at a time and lost once; two sockets in one
\* bucket; two entries put on the list in four units of time.
SPECIFICATION WorkersSpec
CONSTANTS
    Senders = {s1, s2}
    MaxTime = 2
    MaxData = 2
    MaxWindow = 1
    MaxLosses = 1
    Receivers = {1, 2}
    HashSize = 1
    MaxStored = 2
    MaxClock = 4
    MaxInserts = 2
INVARIANTS
    ListsAreKept
PROPERTIES
    EverythingIsSent
    TimersRun
CHECK_DEADLOCK FALSE
