\* Readers of sources, the rule files and detections on a network that changes.
CONSTANTS
    MaxChanges = 2
    MaxShifts = 1
    Limit = 2
    MaxProbes = 1
    MaxEditions = 2
SPECIFICATION NetSpec
INVARIANTS
    ShunnedForCause
    AssetWhole
PROPERTIES
    SourceComesBack
    StrategyFollows
