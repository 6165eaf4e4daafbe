SPECIFICATION BridgeSpec
CONSTANTS
    Pages = {p1, p2}
    Sockets = {s1, s2, s3}
    Faults = {}
    MaxStale = 1
    Login = Login
    None = None
SYMMETRY BridgeSymmetry
INVARIANT NavigationKeepsSession
CHECK_DEADLOCK FALSE
