SPECIFICATION FairBridgeSpec
CONSTANTS
    Pages = {p1, p2}
    Sockets = {s1, s2}
    Faults = {"ticket", "network", "refusal", "outage", "refresh", "elsewhere"}
    MaxStale = 1
    Login = Login
    None = None
INVARIANT BridgeTypeOK
INVARIANT NeverStranded
INVARIANT ReadyIsSubscribed
INVARIANT SignedOutIsDisconnected
PROPERTY SettlesDown
CHECK_DEADLOCK FALSE
