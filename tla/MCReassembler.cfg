SPECIFICATION ReasFairSpec
CONSTANTS
    AbsMod = 64
    Byte = {1, 2, 3, 4, 5, 6, 7}
    Source <- MCSource7
    Capacity = 4
INVARIANTS
    OutputIsPrefix
    CapacityRespected
    EndedExactly
PROPERTIES
    ImplementsAbstract
    WholeStreamArrives
