\* Frames of at most three objects, all areas and alignments.
SPECIFICATION FrameSpec
CONSTANTS
    NewObjects <- MCNewObjects
    ArgCounts <- MCArgCounts
    CSCounts <- MCCSCounts
    MaxObjects = 3
INVARIANTS FrameTypeOK AreasApart ObjectsDisjoint ObjectsAligned CallsAligned
