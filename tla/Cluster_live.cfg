\* Two failing zones, drains acknowledged in time, and clients that ask for
\* a chunk whether or not its zone has registered.
CONSTANTS
    NAxes = 1
    ChunkLimit = 3
    Fds = {1, 2}
    Ports = {1, 2}
    MinReplicas = 1
    MaxReq = 1
    Boot <- MCTwoZones
    FirstPort = 3
    Samples <- MCFailing
    Breakers = {1}
    Asked <- MCRightChunk
    Slow = {}
    MaxQueue = 1
    MaxFaults = 0
SPECIFICATION FairSpec
PROPERTIES DrainEnds RelocatedZoneCovers
