SPECIFICATION SideBySide
CONSTANTS
    Devices = {d1, d2}
    maximum_bytes = 2
    MaxHandles = 2
    None = None
    MaxTraces = 1
SYMMETRY Symmetry
PROPERTY GrowthPreserves
