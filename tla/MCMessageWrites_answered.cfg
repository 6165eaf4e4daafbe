SPECIFICATION FairSpec
CONSTANTS
    Requests = {r1, r2}
    Principals = {p1, p2}
    Keys = {k1}
    Contents = {hello, howdy}
    Commands <- MutateCommands
    NoKey = NoKey
    Empty = Empty
    None = None
    p1 = p1
    p2 = p2
    k1 = k1
    hello = hello
    howdy = howdy
    MaxClock = 2
    MaxId = 2
    Second = 1
    Day = 1
PROPERTY EveryRequestIsAnswered
CHECK_DEADLOCK FALSE
