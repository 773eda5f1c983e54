SPECIFICATION Spec
CONSTANTS
    Headers <- MCHeaders
    Payloads <- MCPayloads
    Pseudo = {0, 70000}
    Deltas = {1, 128, 255}
    IPs <- MCIPs
    Ports = {53, 1440}
    MTUs = {22, 65536}
INVARIANTS
    RoundTrip
    DamageNoticed
    CutsDoNotMatter
    WrittenInOrder
    DatagramWhole
CHECK_DEADLOCK FALSE
