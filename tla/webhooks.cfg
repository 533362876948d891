\* Webhook requests while their trigger is paused or deleted, with every fault.
SPECIFICATION Spec
CONSTANTS
    TriggerIds = {"t1"}
    ScheduleIds = {}
    EventIds = {"e1", "e2"}
    TypeOf <- OneWebhook
    Configs <- OneCronConfig
    MaxTime = 0
    Schedulers = {}
    Requests = {"r1"}
    Hooks = {"h1", "h2"}
    Faults = {"db", "kafka", "apicrash", "apishutdown", "disconnect"}
    Null = Null
    MaxRetries = 2
    BatchLimit = 1
    Ops = {"create", "delete", "status"}
    Grace = 0
INVARIANTS
    AcceptedWasPublished
CHECK_DEADLOCK FALSE
