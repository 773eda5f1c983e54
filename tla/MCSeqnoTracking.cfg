SPECIFICATION TrackSpec
CONSTANTS
    SeqMod = 8
    AbsMod = 64
    AbsLimit = 28
INVARIANTS
    Tracks
    UnwrapIsClosest
