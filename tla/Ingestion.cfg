\* Two files, two sources, three downloaders, one end of the process.
CONSTANTS
    f1 = f1
    f2 = f2
    Wild <- MCWild
    Seed <- MCSeed
    Bundle <- MCBundle
    File = {f1, f2}
    Content <- MCContent
    Sources <- MCSources
    Batch = 1
    MaxSize = 2
    MaxEvents = 2
SPECIFICATION FairSpec
INVARIANTS
    ImportsReachDb
    OneDownload
    PersistedStays
PROPERTY
    GithubSucceeds
