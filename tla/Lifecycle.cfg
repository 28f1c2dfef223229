\* The scanner and one other worker, one session, one command or stop file.
SPECIFICATION FairSpec
CONSTANTS
    scanner = scanner
    validator = validator
    Worker = {scanner, validator}
    Scanner = scanner
    Main = Main
    Cmd = Cmd
    Ui = Ui
    NoOne = NoOne
    Posted = {"cycle"}
    Filed = {"pause", "resume", "stop", "reprovision"}
    MaxInterval = 1
    MaxManagers = 2
    MaxSessions = 1
    MaxRequests = 1
CHECK_DEADLOCK FALSE
INVARIANTS
    LastRunOnly
    StopIsClean
PROPERTIES
    StopReturns
    WorkGoesOn
    ImplementsWorkerLoop
