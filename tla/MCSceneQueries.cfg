SPECIFICATION SideBySide
CONSTANTS
    g1 = g1
    g2 = g2
    t1 = t1
    t2 = t2
    far = far
    Geometry = {g1, g2}
    Transform = {t1, t2, far}
    Unsupported = {far}
    Scene <- MCScene
    NoScene = NoScene
    NoCall = NoCall
    Torn = Torn
    MaxCommits = 4
    Launches <- MCLaunches
    Rays <- MCRays
    None = None
    StackCapacity = 3
    Precision = 4
    maximum_path_length = 3
INVARIANTS SnapshotServed RetainedCurrent TraversalSound TechniquesAgree MixtureSound
PROPERTY ContractSpec
