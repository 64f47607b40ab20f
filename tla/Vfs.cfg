CONSTANTS
    Fold <- MCFold
    TreePaths <- MCTreePaths
    RawPaths <- MCRawPaths
    Target <- MCTarget
    IsoTree <- MCIsoTree
    LinkDepth = 3
    MaxDepth = 2
SPECIFICATION Spec
INVARIANTS NormalForm LinksResolve DriverCwdLive
