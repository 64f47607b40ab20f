CONSTANTS
    ClusterCount = 2
    SectorBytes = 5
    RootSlots = 2
    SectorSlots = 1
    DirSlots = 3
    Paths <- MCPaths
    Data = {"x"}
    MaxSectors = 2
    MaxFaults = 1
    NoFile = NoFile
    Directory = Directory
    Unknown = Unknown
SPECIFICATION Spec
INVARIANTS LiveEntriesOwnClusters NothingLeaks DoneIsDurable
PROPERTIES ImplementsVolume
