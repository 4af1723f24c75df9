SPECIFICATION FairSpec
CONSTANTS
    None = None
    t1 = t1
    t2 = t2
    t3 = t3
    o1 = o1
    o2 = o2
    Team = {t1, t2, t3}
    Org = {o1, o2}
    Id <- Ids
    TeamOf <- TeamOfId
    OrgOf <- OrgOfTeam
    Grant <- Capabilities
    Context <- KeyContext
    SeedIds <- KeyIds
    SeedGrants <- OfTheSecond
    Limits <- SomeLimits
    OVERFETCH_FACTOR = 2
    MAX_REFILL_ROUNDS = 2
    MaxChanges = 4
INVARIANTS ListTypeOK WalkIsComplete PagesAscend PagesAreAuthorized
PROPERTIES WalkEnds WalkShrinks RefinesWalk
CHECK_DEADLOCK FALSE
