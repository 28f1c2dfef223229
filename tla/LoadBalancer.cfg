SPECIFICATION Spec
CONSTANTS
    u1 = u1
    u2 = u2
    u3 = u3
    t1 = t1
    t2 = t2
    p1 = p1
    p2 = p2
    Uri = {u1, u2, u3}
    Rank <- RankByName
    Valid = {u1, u2}
    Works = {u2}
    MaxBackends = 2
    Updater = {t1, t2}
    Pid = {p1, p2}
    MaxCalls = 2
    MaxStarts = 2
    MaxDeaths = 1
    Starter = Starter
    Stopper = Stopper
    Monitor = Monitor
    NoUri = NoUri
    NoPid = NoPid
    Nobody = Nobody
SYMMETRY ThreadSymmetry
CHECK_DEADLOCK FALSE
INVARIANTS
    NoOrphan
    ServesBest
    CleanStop
