\* Two updates of a cron trigger at a time, racing the engine.
SPECIFICATION Spec
CONSTANTS
    TriggerIds = {"t1"}
    ScheduleIds = {"s1", "s2", "s3"}
    EventIds = {"e1", "e2", "e3"}
    TypeOf <- OneCron
    Configs <- CronOrNever
    MaxTime = 1
    Schedulers = {"p1"}
    Requests = {"r1", "r2"}
    Hooks = {}
    Faults = {"kafka", "apishutdown"}
    Null = Null
    MaxRetries = 2
    BatchLimit = 2
    Ops = {"create", "config"}
    Grace = 0
INVARIANTS
    CronChainEndsOnlyAtRetryLimit
PROPERTIES
    CompletedIsFinal
CHECK_DEADLOCK FALSE
