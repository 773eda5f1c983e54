SPECIFICATION FairSpec
CONSTANTS
    sock = sock
    another = another
    Wrapper = {sock, another}
    Number = {3, 4}
    Kind <- Kinds
    Packets <- PacketKinds
    MaxRefs = 3
    MaxInput = 2
    Char = {1, 2, 3, 4, 5, 6, 7}
    Request <- MCRequest
    Ends <- MCEnds
    MaxOutput = 2
    ResponseSize = 5
INVARIANTS
    StillOwned
    NothingLeaks
    EofIsReal
    ClassIsKind
    PrintedIsResponse
    RequestArrivesWhole
PROPERTY
    WebgetEnds
CHECK_DEADLOCK FALSE
