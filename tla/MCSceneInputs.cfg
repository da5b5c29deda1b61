SPECIFICATION SideBySide
CONSTANTS
    Paths = {a, b, c}
    Contents <- MCContents
    maximum_image_pixel_bytes = 2
    maximum_resident_pixel_bytes = 3
    maximum_entries = 3
    MaxWrites = 3
    Inputs <- MCInputs
    None = None
    Vacant = Vacant
SYMMETRY Symmetry
INVARIANTS OneSnapshotPerSource ResidentBytes AcceptsWhatHoldsTogether InstancesPlaced DocumentsKept DeviceReadsScene MeshSaysFile
