\* A graceful shutdown in the middle of a firing.
SPECIFICATION Spec
CONSTANTS
    TriggerIds = {"t1"}
    ScheduleIds = {"s1", "s2", "s3"}
    EventIds = {"e1", "e2", "e3"}
    TypeOf <- OneCron
    Configs <- OneCronConfig
    MaxTime = 1
    Schedulers = {"p1"}
    Requests = {"r1"}
    Hooks = {}
    Faults = {"shutdown"}
    Null = Null
    MaxRetries = 2
    BatchLimit = 2
    Ops = {"create"}
    Grace = 0
INVARIANTS
    FailedFiringIsReverted
CHECK_DEADLOCK FALSE
