CONSTANTS
    fwd1 = fwd1
    fwd2 = fwd2
    exit = exit
    bad = bad
    h1 = h1
    Conns = {c1, c2}
    Frames = {fwd1, fwd2}
    FrameKind <- MCFrameKind
    NextHop <- MCNextHop
    Hops = {h1}
    Streams = {s1, s2, s3}
    MaxConnections = 2
    NoConn = NoConn
    NoFrame = NoFrame
    NoStream = NoStream
SPECIFICATION FairSpec
PROPERTIES
    ForwardingEnds
    PermitReturns
CHECK_DEADLOCK FALSE
