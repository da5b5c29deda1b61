SPECIFICATION SideBySide
CONSTANTS
    Servers = {s1, s2, s3}
    Inodes = {i1, i2}
    Outside = Outside
    None = None
    MaxOutside = 2
    MaxFaults = 1
    Exchangers = {e1, e2}
    Peers = {p1}
    Frames <- MCFrames
    CurrentVersion = 1
    MaximumPayload = 1
    Backlog = 0
    Path <- MCPath
    Library <- MCLibrary
    LibraryOf <- MCLibraryOf
    Exclusive = {"exclusive"}
    MaxQueries = 4
INVARIANTS ServingIsReachable StaleOnlyAfterFault RepliesSound ExtensionsSound
PROPERTIES OwnNodeOnly ExchangeEnds
