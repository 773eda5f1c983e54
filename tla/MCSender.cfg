SPECIFICATION SenderSpec
CONSTANTS
    AbsMod = 64
    SeqMod = 8
    SenderISN = 6
    SendCapacity = 2
    InitRTO = 2
    MaxPayload = 2
    Byte = {1, 2, 3, 4, 5}
    Source <- MCSource5
    MaxWindow = 4
    MaxTick = 2
    MaxRetx = 2
INVARIANTS
    SequenceAccounting
    OutstandingTiles
    TimerIffOutstanding
PROPERTIES
    FillIsMaximal
    ImplementsWindow
    SummaryAdvances
