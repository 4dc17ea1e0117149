\* Zones are cut by their histogram, or down the middle when nobody is there.
CONSTANTS
    NAxes = 2
    ChunkLimit = 5
    Buckets = 4
    Entities = {e1, e2, e3, e4}
    MaxStray = 1
    StartBoxes <- MCStartBoxes
SPECIFICATION Spec
INVARIANTS TypeOK PopulatedSplitPartitions SplitLeavesNothingOut CutIsFairest CutHugsCrowd
SYMMETRY MCSymmetry
CHECK_DEADLOCK FALSE
