\* A timer in the air meets a new tracker at the address of an answered one.
CONSTANTS
    Req = {r1, r2, r3}
    Addr = {x, y}
    MsgId = {0, 1}
    None = None
SPECIFICATION Spec
INVARIANTS
    UnresponsiveAfterPeriod
CHECK_DEADLOCK FALSE
