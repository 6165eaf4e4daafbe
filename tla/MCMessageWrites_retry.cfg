SPECIFICATION Spec
CONSTANTS
    Requests = {r1, r2, r3}
    Principals = {p1, p2}
    Keys = {k1}
    Contents = {hello, howdy}
    Commands <- AllCommands
    NoKey = NoKey
    Empty = Empty
    None = None
    p1 = p1
    p2 = p2
    k1 = k1
    hello = hello
    howdy = howdy
    MaxClock = 3
    MaxId = 3
    Second = 2
    Day = 1
SYMMETRY RequestSymmetry
CONSTRAINT OneScenario
INVARIANT TypeOK
INVARIANT AcknowledgedIsReachable
INVARIANT OneMessagePerKey
INVARIANT CompletedIsReachable
INVARIANT NoRepublishAfterAck
INVARIANT AcknowledgedIsNeverNotFound
INVARIANT PublishedIsPersisted
INVARIANT FramesAgree
INVARIANT NoLostUpdate
PROPERTY ImplementsRegister
CHECK_DEADLOCK FALSE
