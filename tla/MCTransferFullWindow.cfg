SPECIFICATION Spec
CONSTANTS
    AbsMod = 64
    SeqMod = 16
    SenderISN = 14
    SendCapacity = 4
    InitRTO = 1
    MaxPayload = 1
    Byte = {1, 2, 3, 4}
    Source <- MCSource4
    Capacity = 2
    MaxWindow = 2
    MaxTick = 1
    MaxRetx = 0
    TimelyRTO = FALSE
PROPERTY
    FullWindowRespected
