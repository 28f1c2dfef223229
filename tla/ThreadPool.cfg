\* Two callers, a task that waits for a task of its own pool, two threads and
\* a third by resize.
SPECIFICATION FairSpec
CONSTANTS
    w1 = w1
    w2 = w2
    w3 = w3
    harvester = harvester
    dpi = dpi
    detect = detect
    j1 = j1
    j2 = j2
    Worker = {w1, w2, w3}
    Initial = {w1, w2}
    Job = {detect, j1, j2}
    Caller = {harvester, dpi}
    Work <- SmallWork
    Patient = {detect}
    NoJob = NoJob
CHECK_DEADLOCK FALSE
INVARIANT
    NothingAbandoned
PROPERTIES
    DestructorReturns
    ImplementsTaskQueue
