SPECIFICATION HistorySpec
CONSTANTS
    Requests = {r1, r2, r3}
    Principals = {p1}
    Keys = {}
    Contents = {hello}
    Commands <- Posts
    NoKey = NoKey
    Empty = Empty
    None = None
    p1 = p1
    hello = hello
    MaxClock = 2
    MaxId = 3
    Second = 1
    Day = 3
    Limit = 1
SYMMETRY RequestSymmetry
INVARIANT HistoryOrderedByCreatedAt
CHECK_DEADLOCK FALSE
