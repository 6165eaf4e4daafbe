SPECIFICATION TimelineSpec
CONSTANTS
    Mutations = {i1, i2}
    MaxMessage = 3
    MaxVersion = 2
    Posted = 1
    Limit = 1
    First = First
    Other = Other
    Deleted = Deleted
    None = None
CONSTRAINT OverlapOrShift
SYMMETRY MutationSymmetry
INVARIANT TimelineTypeOK
INVARIANT RestIsHonest
INVARIANT ConfirmedIsShown
INVARIANT HeardStays
INVARIANT NoHole
CHECK_DEADLOCK FALSE
