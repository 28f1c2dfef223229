\* Two configurations of one endpoint, the validator, one cycle and two commands.
CONSTANTS
    u1 = u1
    u2 = u2
    k1 = k1
    k2 = k2
    Uri = {u1, u2}
    Key = {k1, k2}
    KeyOf <- Shared
    BatchSize = 1
    DeadFails = 1
    Watch = {{"gold"}, {"good"}, {"pool", "cache"}, {"gemini"}}
    MaxCycles = 1
    MaxCommands = 2
SYMMETRY UriSymmetry
SPECIFICATION Spec
INVARIANT
    HandedOut
PROPERTY
    KeepsServing
