\* Kafka fails and nothing else.
SPECIFICATION FairSpec
CONSTANTS
    TriggerIds = {"t1", "t2"}
    ScheduleIds = {"s1", "s2", "s3", "s4"}
    EventIds = {"e1", "e2", "e3", "e4", "e5", "e6", "e7", "e8"}
    TypeOf <- CronAndTime
    Configs <- RunAtOrCron
    MaxTime = 2
    Schedulers = {"p1"}
    Requests = {"r1"}
    Hooks = {}
    Faults = {"kafka"}
    Null = Null
    MaxRetries = 2
    BatchLimit = 1
    Ops = {"create", "delete"}
    Grace = 1
INVARIANTS
    FailedFiringIsReverted
    LoggedSuccessWasPublished
    CancelledWasTried
PROPERTIES
    EveryDueScheduleSettles
    PendingRunIsNotDropped
CHECK_DEADLOCK FALSE
