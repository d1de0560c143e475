CONSTANTS
    clash = clash
    max = max
    short = short
    empty = empty
    huge = huge
    id1 = id1
    id2 = id2
    Capacity = 2
    SeqMax = 3
    Messages = {max, clash, short, empty, huge}
    MessageLen <- MCMessageLen
    Ids = {id1, id2}
    MessageId <- MCMessageId
    MaxDups = 1
SPECIFICATION Spec
INVARIANTS
    TypeOK
    IndexInBounds
    CounterExact
    Integrity
    NoReplay
    ArrivedMeansReturned
    NoResidue
    RefusedOnlyForLength
PROPERTY FragmentsStick
CHECK_DEADLOCK FALSE
