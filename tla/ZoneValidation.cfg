\* One player, one object, two requests at a time, a validator that hangs or dies once.
CONSTANTS
    Players = {p}
    Objects = {o}
    Ids = {1, 2}
    MaxAsking = 1
    MaxRetries = 1
    CB_MAX_OPEN = 2
    MaxWire = 0
    MaxFaults = 1
SPECIFICATION FairSpec
INVARIANT TypeOK
PROPERTIES FailsClosed EveryRequestSettles BreakerRecovers
CHECK_DEADLOCK FALSE
