\* The main loop, the scanner and a command thread, two ports, two configs.
CONSTANTS
    main = main
    command = command
    scanner = scanner
    p1 = p1
    p2 = p2
    p3 = p3
    u1 = u1
    u2 = u2
    Thread = {main, command, scanner}
    Main = main
    Provisioner = {scanner}
    Commander = {command}
    Feeder = {scanner}
    Uri = {u1, u2}
    Latency <- MCLatency
    PortCount = 2
    TelegramTarget = 1
    DeadFails = 2
    Pid = {p1, p2, p3}
    NoPid = NoPid
    NoUri = NoUri
    Nobody = Nobody
    MaxChanges = 1
SPECIFICATION Spec
SYMMETRY PidSymmetry
INVARIANTS
    EnginesOwned
    SlotsCoherent
    RemovedOnlyLate
