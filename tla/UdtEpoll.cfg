SPECIFICATION PartsSpec
CONSTANTS
    Threads = {t1, t2}
    Epolls = {1}
    SocketKinds <- FewKinds
    PollEvents <- BothEvents
    SndPackets = 1
    RcvPackets = 1
    MaxTries = 2
    MaxEvents = 3
    BackLog = 1
    Blocking = TRUE
    ClientMSS = 3
    ServerMSS = 2
    ClientFlight = 2
    ServerFlight = 3
    ClientRcvBuf = 3
    ServerRcvBuf = 2
    MaxMsgNo = 3
    MsgPackets = 2
    FirstBlocks = 2
    SndBufPackets = 4
    Keys <- MixedKeys
    Infos = {x, y}
    MaxSize = 3
    MaxUpdates = 4
    AckSlots = 3
    LastAckNo = 2
    AckedSeqNos = {5, 6}
    CCMaxSeqNo = 15
    CCSeqNoTH = 7
    CCFirstSeqNo = 14
    FirstWindow = 2
    MaxWindow = 6
    RateWindows = {1}
    Periods = {2}
    MinPeriod = 2
    MaxFlight = 2
    MaxSends = 4
    MaxReports = 6
    Header = 2
    MinContent = 4
    MinWindow = 2
    OptionSizes = {0, 6, 40}
    Defaults <- FewBytes
    FileLen = 5
    Payload = 2
    FileSndBuf = 3
    FileRcvBuf = 4
    SndBlock = 3
    RcvBlock = 2
    SndSizes = {5, 6}
    RcvSizes = {3, 5}
    MaxCalls = 2
    MaxFull = 1
INVARIANT ReadableIsReported
CHECK_DEADLOCK FALSE
