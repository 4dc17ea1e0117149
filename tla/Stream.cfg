\* Four threads send a packet each to a reader whose timeout strikes between frames only.
CONSTANTS
    Messages <- MCMessages
    Size <- MCSize
    PrefixLen = 2
    MaxPacketSize = 3
    Cap = 2
    Stalls = FALSE
SPECIFICATION Spec
INVARIANT NeverGarbage
PROPERTY ImplementsFifo
CHECK_DEADLOCK FALSE
