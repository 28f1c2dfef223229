\* Two standard sources and one of the user's, three acts; two machines and one
\* speed command; a ring of four lines and one download; three tasks.  A window
\* that has been closed does nothing more.
SPECIFICATION Spec
CONSTANTS
    Standard = {"first", "second"}
    Custom = {"own"}
    MaxActs = 3
    MaxQueue = 2
    Cpu = {1, 64}
    Ram = {50, 96}
    Asked = {0, 50}
    Backlog = {0, 300}
    Continuous = TRUE
    MaxOrders = 1
    Capacity = 4
    FrameMax = 3
    PollMax = 2
    MaxUiLogs = 5
    Sources = 1
    MaxLines = 7
    MaxClicks = 1
    MaxTasks = 3
INVARIANTS
    WorkInRange
    SelectionSurvives
    Settled
    LatestShown
    TasksOwned
CHECK_DEADLOCK FALSE
