\* A table of six ids in a space of sixteen, four of them in one bucket that holds two; a node that
\* joins over three.  Four requests over three addresses and two message ids, one of them the 0
\* that is never answered; up to three identities and two bootstrap nodes; ids of four bytes of two
\* bits; two sockets.
SPECIFICATION PartsSpec
CONSTANTS
    ID_BITS = 4
    LocalId <- MCLocalId
    Ids <- FewIds
    B = 2
    RT_BASE = 1
    BUCKET_SIZE = 2
    CACHE_SIZE = 1
    STALE = 1
    Bsp = {b1}
    TIMEOUT_RESPONSE = 500
    DELAY_MAX = 30000
    Req = {r1, r2, r3, r4}
    Addr = {x, y, z}
    MsgId = {0, 1}
    None = None
    Key = {k1, k2, k3}
    Peer = {p1, p2}
    SIZE = 4
    BYTE_BITS = 2
    MaxDatagrams = 2
    Socket = {s1, s2}
    MaxMessages = 1
    MaxLate = 1
INVARIANTS
    TableIsSoundAlways
    FindAnswers
    SelfLookupAsksSomeone
    TrackersAgree
    FilesAreKept
    IdsAreNumbers
    MessagesAreHandedOver
PROPERTIES
    NodesAreKept
    JoinEndsHere
    EveryRequestEnds
    ContractSpec
    IdentityPersists
    DestructorsReturn
CHECK_DEADLOCK FALSE
