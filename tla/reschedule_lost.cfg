\* A new run_at for a one-time trigger that is being fired.
SPECIFICATION Spec
CONSTANTS
    TriggerIds = {"t1"}
    ScheduleIds = {"s1", "s2", "s3"}
    EventIds = {"e1", "e2", "e3"}
    TypeOf <- OneTime
    Configs <- EarlyOrLate
    MaxTime = 1
    Schedulers = {"p1"}
    Requests = {"r1"}
    Hooks = {}
    Faults = {}
    Null = Null
    MaxRetries = 2
    BatchLimit = 2
    Ops = {"create", "config"}
    Grace = 0
PROPERTIES
    PendingRunIsNotDropped
CHECK_DEADLOCK FALSE
