\* Three zones of which two must keep serving.
CONSTANTS
    NAxes = 1
    ChunkLimit = 3
    Fds = {1, 2, 3}
    Ports = {1, 2, 3}
    MinReplicas = 2
    MaxReq = 2
    Boot <- MCThreeZones
    FirstPort = 4
    Samples <- MCFailing
    Breakers = {}
    Asked <- MCNone
    Slow = {}
    MaxQueue = 1
    MaxFaults = 0
SPECIFICATION Spec
PROPERTIES ServingFloor
