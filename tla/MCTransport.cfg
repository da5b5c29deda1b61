SPECIFICATION FairSpec
CONSTANTS
    PathCount = 2
    DepthLimits <- MCDepthLimits
    Surfaces <- MCSurfaces
    MaxDepth = 2
    FirstEligibleDepth = 1
    BlackInputs = {}
    None = None
INVARIANT BatchSound
PROPERTIES ScalarSpec BatchEnds
CHECK_DEADLOCK FALSE
