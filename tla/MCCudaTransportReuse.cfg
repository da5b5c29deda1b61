SPECIFICATION DeviceSpec
CONSTANTS
    PathCount = 2
    Capacity = 2
    MaxTraces = 2
    BlackInputs = {1}
    DepthLimits <- MCDepthLimits
    Surfaces <- MCSurfaces
    FirstEligibleDepth = 2
    MaxDepth = 3
    None = None
INVARIANTS OnlyOutsideFailures
PROPERTIES ScalarTraces
CHECK_DEADLOCK FALSE
