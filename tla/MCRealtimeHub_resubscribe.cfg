SPECIFICATION HubSpec
CONSTANTS
    s1 = s1
    s2 = s2
    c1 = c1
    c2 = c2
    f1 = f1
    f2 = f2
    Sessions = {s1, s2}
    Channels = {c1}
    Frames = {f1}
    Capacity = 1
    Nobody = Nobody
SYMMETRY HubSymmetry
INVARIANT AcknowledgedSubscriptionHolds
CHECK_DEADLOCK FALSE
