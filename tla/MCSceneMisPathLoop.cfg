SPECIFICATION Spec
CONSTANTS
    Paths = {p1, p2}
    BlackInputs = {p2}
    DepthLimits <- MCDepthLimits
    Surfaces <- MCSurfaces
    MaxDepth = 3
    FirstEligibleDepth = 2
    None = None
INVARIANTS LocalsConsistent LimitNamed NothingCountedTwice
CHECK_DEADLOCK FALSE
