\* Signalling of speech-transfer, with either event loop.
SPECIFICATION Spec
CONSTANTS
    RcvBuf = 3
    times = 3
    Inbox = 2
PROPERTIES
    EveryDatagramRead
    JoinTakesEffect
CHECK_DEADLOCK FALSE
