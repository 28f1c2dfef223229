\* Two configurations, the validator and one cycle; no command.
CONSTANTS
    u1 = u1
    u2 = u2
    k1 = k1
    k2 = k2
    Uri = {u1, u2}
    Key = {k1, k2}
    KeyOf <- Apart
    BatchSize = 1
    DeadFails = 1
    Watch = {{"pool", "cache"}}
    MaxCycles = 1
    MaxCommands = 0
SPECIFICATION Spec
PROPERTIES
    NewAreTested
    PoolFollows
