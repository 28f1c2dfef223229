\* Three URIs of two endpoints, room for one. Low thresholds, one save or torn
\* save, restarts.
CONSTANTS
    u1 = u1
    u2 = u2
    u3 = u3
    k1 = k1
    k2 = k2
    Uri = {u1, u2, u3}
    Key = {k1, k2}
    KeyOf <- SharedKey
    Latency = {1}
    MaxSize = 1
    DeadFails = 1
    EvictFails = 2
    HeavyFails = 2
    EvictTests = 2
    BoostWindow = 1
    StaleAfter = 0
    ShortBackoff = 0
    MidBackoff = 1
    LongBackoff = 1
    OfflineLimit = 1
    ClearAge = {0}
    MaxNow = 3
    MaxTests = 2
    MaxSaves = 1
SPECIFICATION Spec
INVARIANTS
    HealthInv
    NeverForgotten
PROPERTIES
    EvictionSpares
    ImplementsHealthTable
