CONSTANTS
    Word = 134217728
    ProcMax = 3
    FdCap = 2
    OfdCap = 3
    StdCount = 1
    n1 = n1
    n2 = n2
    Nodes <- MCNodes
    DepthMax = 2
    PidBound = 3
SPECIFICATION Spec
PROPERTIES FailedExecAtomic
SYMMETRY NodeSymmetry
