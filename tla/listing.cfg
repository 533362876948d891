\* A client pages through the lists while triggers fire and rows grow old.
SPECIFICATION Spec
CONSTANTS
    TriggerIds = {"t1", "t2"}
    ScheduleIds = {}
    EventIds = {"e1", "e2"}
    TypeOf <- TwoWebhooks
    Configs <- OneConfig
    MaxTime = 3
    Schedulers = {}
    Requests = {"r1"}
    Hooks = {"h1"}
    Faults = {"kafka"}
    Null = Null
    ArchiveAge = 1
    DeleteAge = 2
    PageSize = 1
    Lists <- EveryList
INVARIANTS
    WalkIsComplete
    TotalPagesAreEnough
    HistoryIsKept
    ArchiveIsOlder
PROPERTIES
    EventListsDoNotShift
CHECK_DEADLOCK FALSE
