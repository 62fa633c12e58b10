CONSTANTS
    W = 4
    CidrStart = 0
    CidrPrefix = 1
    RangeEnds = {0, 2, 3, 5, 7, 8}
    ExcludeCands = {3, 4, 6}
    MaxRanges = 2
    MaxExcluded = 3
SPECIFICATION Spec
INVARIANT BlocksDisjoint
CHECK_DEADLOCK FALSE
