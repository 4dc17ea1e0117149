\* Splits and merges of a region of two chunks, without faults.
CONSTANTS
    NAxes = 1
    ChunkLimit = 3
    Fds = {1, 2}
    Ports = {1, 2, 3}
    MinReplicas = 1
    MaxReq = 1
    Boot <- MCOneZone
    FirstPort = 2
    Samples <- MCScaling
    Breakers = {}
    Asked <- MCNone
    Slow = {}
    MaxQueue = 1
    MaxFaults = 0
SPECIFICATION Spec
INVARIANTS OneOwnerPerChunk
