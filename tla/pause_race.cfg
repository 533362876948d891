\* A pause of a trigger whose schedule the engine has read.
SPECIFICATION Spec
CONSTANTS
    TriggerIds = {"t1"}
    ScheduleIds = {"s1", "s2", "s3"}
    EventIds = {"e1", "e2", "e3"}
    TypeOf <- OneCron
    Configs <- OneCronConfig
    MaxTime = 1
    Schedulers = {"p1"}
    Requests = {"r1"}
    Hooks = {}
    Faults = {}
    Null = Null
    MaxRetries = 2
    BatchLimit = 2
    Ops = {"create", "status"}
    Grace = 0
PROPERTIES
    PausedDoesNotFire
CHECK_DEADLOCK FALSE
