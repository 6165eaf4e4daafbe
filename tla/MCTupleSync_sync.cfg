SPECIFICATION FairSyncSpec
CONSTANTS
    w1 = w1
    w2 = w2
    Tables = 2
    Tuples = {viewer}
    Workers = {w1, w2}
    MaxEvents = 2
    link = link
    Links = {link}
    LinkOf <- SameChannel
    Watched <- SecondWatched
    All = All
CONSTRAINT Bound
INVARIANT SyncTypeOK
INVARIANT ConvergedUnlessAstray
PROPERTY DecisionsFollow
PROPERTY ResyncRepairs
CHECK_DEADLOCK FALSE
