CONSTANTS
    a1 = a1
    a2 = a2
    b1 = b1
    b2 = b2
    host = host
    Relays = {a1, a2, b1, b2, host}
    Address <- MCAddress
    Unknown = Unknown
    MaxHops = 6
SPECIFICATION Spec
INVARIANTS
    TypeOK
    ExactPath
    RepeatsOnlyIfForced
    MatchesReference
CHECK_DEADLOCK FALSE
