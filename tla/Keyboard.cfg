CONSTANTS
    BufferSize = 3
    WireCap = 2
    Pressable <- Keyboard
SPECIFICATION Spec
INVARIANTS NoStuckModifier
PROPERTIES ImplementsFifo KeysTaken ResetOnlyOnChord
