\* A player between the origin and another chunk, which no zone covers at the
\* start, and two zones; two connections, of which one may break or have an
\* answer that comes late; once, a chunk changes hands.
CONSTANTS
    Chunks = {o, c}
    Origin = o
    Zones = {z, y}
    Covered = {}
    MaxWalks = 3
    MaxChanges = 1
    MaxSessions = 2
    MaxFaults = 1
SPECIFICATION FairSpec
INVARIANT KnowsItsZone
PROPERTIES ReachesOwner DisconnectReturns
CHECK_DEADLOCK FALSE
