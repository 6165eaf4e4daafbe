SPECIFICATION FairHubSpec
CONSTANTS
    s1 = s1
    s2 = s2
    c1 = c1
    c2 = c2
    f1 = f1
    f2 = f2
    Sessions = {s1, s2}
    Channels = {c1, c2}
    Frames = {f1, f2}
    Capacity = 1
    Nobody = Nobody
CONSTRAINT OneSessionOrTwo
INVARIANT HubTypeOK
INVARIANT ClosedIsForgotten
INVARIANT RevokedReceivesNothing
INVARIANT FanoutIsComplete
PROPERTY PublishEnds
PROPERTY ExpiredIsSettled
CHECK_DEADLOCK FALSE
