CONSTANTS
    Names <- MCNames
    Fold <- MCFold
    IsoImage <- MCIso
    ClusterCount = 2
    Slots = {s1, s2}
    Ofds = {d1, d2}
    WriteCap = 2
    MaxSeek = 1
    OpenFlags <- MCFlags
    Data = {"x"}
SYMMETRY MCSymmetry
SPECIFICATION Spec
INVARIANTS FreshReads SpaceExact 
PROPERTIES FilesChangeByWrites
