CONSTANTS
    Provides <- MCProvides
    Size <- MCSize
    Early <- MCEarly
    OnDisk <- MCOnDisk
    ArenaSize = 4
    ImageLimit = 4
    MaxLoaded = 3
    MaxKeys = 3
    MaxSleep = 2
SPECIFICATION Spec
INVARIANTS  CodeIntact NoStuckByte
PROPERTIES BootCompletes SleepEnds
