\* One scheduler, an API without config updates, and every fault.
SPECIFICATION Spec
CONSTANTS
    TriggerIds = {"t1"}
    ScheduleIds = {"s1", "s2", "s3"}
    EventIds = {"e1", "e2", "e3", "e4", "e5", "e6"}
    TypeOf <- OneCron
    Configs <- OneCronConfig
    MaxTime = 3
    Schedulers = {"p1"}
    Requests = {"r1"}
    Hooks = {}
    Faults = {"db", "kafka", "crash", "shutdown", "apicrash"}
    Null = Null
    MaxRetries = 2
    BatchLimit = 2
    Ops = {"create", "delete", "status"}
    Grace = 0
INVARIANTS
    TypeOK
    CompletedWasPublished
    OneLiveSchedule
    OneRowPerOccurrence
    AttemptsBounded
PROPERTIES
    ImplementsLifecycle
CHECK_DEADLOCK FALSE
