\* A zone slow to drain, drained twice.  Its neighbour cannot absorb it (the
\* union is not a box), so it is still a neighbour at the second drain.
CONSTANTS
    NAxes = 2
    ChunkLimit = 3
    Fds = {1, 2}
    Ports = {1, 2}
    MinReplicas = 1
    MaxReq = 2
    Boot <- MCStep
    FirstPort = 3
    Samples <- MCCalm
    Breakers = {1}
    Asked <- MCNone
    Slow = {1}
    MaxQueue = 1
    MaxFaults = 1
SPECIFICATION Spec
INVARIANTS TypeOK RetiredNeverListed DrainBookkeeping
PROPERTIES ObeyedIsAnswered DestroyedHasDrained
CHECK_DEADLOCK FALSE
