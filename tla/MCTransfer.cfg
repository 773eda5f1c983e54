SPECIFICATION Spec
CONSTANTS
    AbsMod = 64
    SeqMod = 16
    SenderISN = 14
    SendCapacity = 2
    InitRTO = 1
    MaxPayload = 2
    Byte = {1, 2, 3}
    Source <- MCSource3
    Capacity = 2
    MaxWindow = 2
    MaxTick = 1
    MaxRetx = 0
    TimelyRTO = FALSE
INVARIANTS
    AckedIsReceived
    FinishedTogether
PROPERTY
    ImplementsPipe
