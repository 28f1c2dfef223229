SPECIFICATION FairSpec
CONSTANTS
    u1 = u1
    u2 = u2
    u3 = u3
    t1 = t1
    t2 = t2
    p1 = p1
    p2 = p2
    Uri = {u1, u2}
    Rank <- RankByName
    Valid = {u1, u2}
    Works = {u2}
    MaxBackends = 2
    Updater = {t1}
    Pid = {p1, p2}
    MaxCalls = 1
    MaxStarts = 1
    MaxDeaths = 1
    Starter = Starter
    Stopper = Stopper
    Monitor = Monitor
    NoUri = NoUri
    NoPid = NoPid
    Nobody = Nobody
PROPERTIES
    StopReturns
    Recovers
CHECK_DEADLOCK FALSE
