SPECIFICATION SideBySide
CONSTANTS
    Devices = {d1, d2}
    maximum_bytes = 2
    MaxHandles = 4
    None = None
    MaxTraces = 2
SYMMETRY Symmetry
INVARIANTS ReleasedOnce SlicesBacked ReadsItsOwnTrace NothingReleasedInUse QuietUnlessPoisoned
