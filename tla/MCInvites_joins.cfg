SPECIFICATION FairInviteSpec
CONSTANTS
    i1 = i1
    i2 = i2
    u1 = u1
    t1 = t1
    t2 = t2
    Users = {u1, u2}
    Codes = {i1, i2}
    MaxUses <- OneOrAll
    Joins = {j1, j2}
    Revokes = {r1}
    Tabs = {t1, t2}
    Deletion = Deletion
    None = None
CONSTRAINT OrderedVisits
INVARIANT InviteTypeOK
INVARIANT LedgersAgree
INVARIANT OneUsePerMember
INVARIANT AnswersAreTrue
PROPERTY RevokedAdmitsNobody
PROPERTY JoiningEnds
CHECK_DEADLOCK FALSE
