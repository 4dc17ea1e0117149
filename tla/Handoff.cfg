\* Two zones and a spare one; the object is moved while the zones are
\* split or merged.
CONSTANTS
    NAxes = 1
    ChunkLimit = 3
    NZones = 3
    Boot <- MCBoot
    World <- MCWorld
    Home <- MCHome
    MaxMoves = 1
    MaxChanges = 1
    MaxQueue = 2
    MaxWaiting = 1
SPECIFICATION FairSpec
PROPERTIES OnlyLateVerdictShadows OnlyUnroutableIsLost ComesToRest
CHECK_DEADLOCK FALSE
