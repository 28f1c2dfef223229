\* Three threads, room for two, five ports of which another program has one.
CONSTANTS
    t1 = t1
    t2 = t2
    t3 = t3
    Thread = {t1, t2, t3}
    PortCount = 5
    Taken = {1}
    MaxActive = 2
    MaxWait = 1
    MaxOvertakes = 3
    Nobody = Nobody
SPECIFICATION SlotFairSpec
INVARIANTS
    SlotsAccounted
    ResultsAreOwn
PROPERTY
    TestsEnd
