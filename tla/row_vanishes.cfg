SPECIFICATION Spec
CONSTANTS
    None = None
    t1 = t1
    t2 = t2
    t3 = t3
    o1 = o1
    o2 = o2
    Team = {t1, t2, t3}
    Org = {o1, o2}
    Id <- Ids
    TeamOf <- TeamOfId
    OrgOf <- OrgOfTeam
    Grant <- Capabilities
    Context <- UserContext
    SeedIds <- SomeIds
    SeedGrants <- ViewBoth
    Limits = {2}
    OVERFETCH_FACTOR = 3
    MAX_REFILL_ROUNDS = 5
    MaxChanges = 1
INVARIANTS
    ListNeverErrors
CHECK_DEADLOCK FALSE
