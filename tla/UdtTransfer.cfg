\* Four packets, two faults of the network, and sequence numbers 0..15 from 14 on.
SPECIFICATION Spec
CONSTANTS
    MaxSeqNo = 15
    SeqNoTH = 7
    RcvBufSize = 4
    Messages <- MCMessages
    SndBufSize = 3
    FlightSize = 4
    CWnd = 3
    ISN = 14
    MaxFaults = 2
    MaxQueue = 1
INVARIANTS
    NumbersMatchBuffer
    NothingForgotten
PROPERTIES
    ImplementsChannel
    EverythingArrives
CHECK_DEADLOCK FALSE
