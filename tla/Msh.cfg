CONSTANTS
    LineCap = 8
    TokenCap = 6
    TokenLen = 4
    ArgCap = 4
    ExitWord <- MCExit
    CdWord <- MCCd
    Programs <- MCPrograms
    Directory <- MCDirectory
    SubDirs <- MCSubDirs
    FdCap = 6
    Extra <- MCExtra
    HistoryCap = 2
    MaxBytes = 20
    Stored <- MCStored
    Keys = {"c", ";"}
    LineBound = 2
    EditBound = 1
SPECIFICATION Spec
INVARIANTS  CommandStreams  RestartKeepsHistory
PROPERTIES LineFinishes
CHECK_DEADLOCK FALSE
