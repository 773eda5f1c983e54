SPECIFICATION Spec
CONSTANTS
    Headers <- MCHeaders
    Payloads <- MCPayloads
    Pseudo = {0, 70000}
    Deltas = {1, 128, 255}
    IPs <- MCIPs
    Ports = {53, 1440}
    MTUs = {22, 65536}
INVARIANT
    ShortOffsetRefused
CHECK_DEADLOCK FALSE
