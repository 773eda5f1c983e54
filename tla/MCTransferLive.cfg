SPECIFICATION FairSpec
CONSTANTS
    AbsMod = 64
    SeqMod = 16
    SenderISN = 14
    SendCapacity = 2
    InitRTO = 1
    MaxPayload = 2
    Byte = {1, 2}
    Source <- MCSource2
    Capacity = 1
    MaxWindow = 1
    MaxTick = 1
    MaxRetx = 1
    TimelyRTO = TRUE
PROPERTY
    TransferCompletes
