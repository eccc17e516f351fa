\* rudp: three calls, three retransmissions, estimates below, within and above the limits.
SPECIFICATION RudpSpec
CONSTANTS
    MaxCalls = 3
    RTT_RXTMIN = 2
    RTT_RXTMAX = 60
    RTT_MAXNREXMT = 3
    Estimates = {0, 7, 100}
INVARIANTS
    CallReturnsItsAnswer
    UndefinedOnlyFirst
PROPERTY
    CallEnds
CHECK_DEADLOCK FALSE
