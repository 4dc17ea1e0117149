\* The same zone; does an object only disappear when that is accepted?
CONSTANTS
    Players = {p}
    Objects = {o}
    Ids = {1, 2}
    MaxAsking = 1
    MaxRetries = 1
    CB_MAX_OPEN = 2
    MaxWire = 0
    MaxFaults = 1
SPECIFICATION Spec
PROPERTIES HappensOnlyIfAccepted
CHECK_DEADLOCK FALSE
