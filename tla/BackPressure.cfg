CONSTANTS
    a = a
    b = b
    c = c
    f1 = f1
    f2 = f2
    f3 = f3
    f4 = f4
    f5 = f5
    f6 = f6
    Relays = {a, b, c}
    Frames = {f1, f2, f3, f4, f5, f6}
    Circuits <- MCCircuits
    Buffer = 1
    None = None
SPECIFICATION FairSpec
INVARIANT StuckOnlyInCircle
PROPERTY FramesDrain
CHECK_DEADLOCK FALSE
