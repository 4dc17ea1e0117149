\* A player and an object that change once, and three faults.
CONSTANTS
    Players = {p}
    Objects = {o}
    MaxVersion = 2
    MaxFaults = 3
SPECIFICATION FairSpec
INVARIANTS  WorldReturns
PROPERTY EventuallyStored
CHECK_DEADLOCK FALSE
