SPECIFICATION RecvSpec
CONSTANTS
    AbsMod = 64
    SeqMod = 8
    Byte = {1, 2, 3, 4, 5, 6, 7}
    Source <- MCSource7
    PeerISN = 6
    Capacity = 3
INVARIANTS
    StreamIsPrefix
    AckedHasArrived
PROPERTIES
    WindowNeverShrinks
    NextByteAccepted
