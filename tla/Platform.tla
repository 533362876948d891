------------------------------ MODULE Platform ------------------------------
(***************************************************************************)
(* The event trigger platform: scheduler processes, the management API and *)
(* the webhook endpoint over one database and one Kafka topic.             *)
(***************************************************************************)
EXTENDS Engine, ApiServer

vars == <<storageVars, eventVars, engineVars, req, hook, server>>

Init ==
    /\ StorageInit
    /\ EventInit
    /\ EngineInit
    /\ RequestInit
    /\ HookInit
    /\ ServerInit

\* The steps of each component leave the variables it does not know alone.
apiVars == <<req, hook, server>>

EventStep(c) ==
    \/ LogEvent(c)      /\ UNCHANGED <<engineVars, apiVars>>
    \/ PublishAcked(c)  /\ UNCHANGED <<engineVars, apiVars>>
    \/ PublishFailed(c) /\ UNCHANGED <<engineVars, apiVars>>
    \/ MarkFailed(c)    /\ UNCHANGED <<engineVars, apiVars>>

EngineStep(p) ==
    \/ Poll(p)                  /\ UNCHANGED apiVars
    \/ MarkProcessing(p)        /\ UNCHANGED apiVars
    \/ RetryLater(p)            /\ UNCHANGED apiVars
    \/ CancelAfterMaxRetries(p) /\ UNCHANGED apiVars
    \/ Complete(p)              /\ UNCHANGED apiVars
    \/ DeactivateOneTime(p)     /\ UNCHANGED apiVars
    \/ ScheduleNextRun(p)       /\ UNCHANGED apiVars

EngineFault(p) ==
    \/ Shutdown(p) /\ UNCHANGED apiVars
    \/ Restart(p)  /\ UNCHANGED apiVars
    \/ Crash(p)    /\ UNCHANGED apiVars

\* What clients start while the server accepts requests, and what they break off.
ClientStep(r) ==
    \/ server = "up" /\ Create(r)      /\ UNCHANGED <<eventVars, engineVars, hook, server>>
    \/ server = "up" /\ Delete(r)      /\ UNCHANGED <<eventVars, engineVars, hook, server>>
    \/ server = "up" /\ BeginUpdate(r) /\ UNCHANGED <<eventVars, engineVars, hook, server>>
    \/ Disconnect(r)                   /\ UNCHANGED <<eventVars, engineVars, hook, server>>

UpdateStep(r) ==
    \/ WriteTrigger(r)  /\ UNCHANGED <<eventVars, engineVars, hook, server>>
    \/ WriteSchedule(r) /\ UNCHANGED <<eventVars, engineVars, hook, server>>
    \/ Respond(r)       /\ UNCHANGED <<eventVars, engineVars, hook, server>>

WebhookStep(h) ==
    \/ server = "up" /\ ReceiveWebhook(h) /\ UNCHANGED <<engineVars, req, server>>
    \/ Reply(h)                           /\ UNCHANGED <<engineVars, req, server>>
    \/ HangUp(h)                          /\ UNCHANGED <<engineVars, req, server>>

ServerStep ==
    \/ BeginShutdown /\ UNCHANGED engineVars
    \/ EndShutdown   /\ UNCHANGED engineVars
    \/ Kill          /\ UNCHANGED engineVars
    \/ StartServer   /\ UNCHANGED engineVars

ClockStep == Tick /\ UNCHANGED <<eventVars, engineVars, apiVars>>

Next ==
    \/ ClockStep
    \/ \E c \in Callers    : EventStep(c)
    \/ \E p \in Schedulers : EngineStep(p) \/ EngineFault(p)
    \/ \E r \in Requests   : ClientStep(r) \/ UpdateStep(r)
    \/ \E h \in Hooks      : WebhookStep(h)
    \/ ServerStep

Spec == Init /\ [][Next]_vars

\* The clock and the ticker run on, a process that has a step to take takes it,
\* and a scheduler that has shut down is started again.  Clients, webhooks and
\* faults need not act.
Fairness ==
    /\ WF_vars(ClockStep)
    /\ \A p \in Schedulers : /\ WF_vars(EventStep(p))
                             /\ WF_vars(EngineStep(p))

FairSpec == Spec /\ Fairness

----------------------------------------------------------------------------
(* Properties.                                                             *)

TypeOK ==
    /\ StorageTypeOK
    /\ EventTypeOK
    /\ EngineTypeOK
    /\ RequestTypeOK
    /\ HookTypeOK
    /\ ServerTypeOK

\* The events logged for a schedule, one for each time its firing got that far.
EventsFor(s) == {e \in EventIds : /\ eventLogs[e].status # "unused"
                                  /\ eventLogs[e].schedule = s}

\* Those whose publish failed and that the log shows as a failure.
FailuresFor(s) == {e \in EventsFor(s) : eventLogs[e].status = "failure"}

\* The schedule was cancelled by the engine: every attempt it allows has failed, and
\* each of them is in the log.
GivenUp(s) == /\ schedules[s].status = "cancelled"
              /\ Cardinality(FailuresFor(s)) = MaxRetries

\* A call has yet to settle the fate of event e.
InFlight(e) == \E c \in Callers : /\ call[c].pc \in {"publish", "markfailed"}
                                  /\ call[c].event = e

\* A schedule is "completed" only after Kafka has stored an event for it that
\* the event log shows as a success, whatever fails and whoever interferes.
CompletedWasPublished ==
    \A s \in ScheduleIds : schedules[s].status = "completed" =>
        \E e \in topic \cap EventsFor(s) : eventLogs[e].status = "success"

\* A client that was answered 202 holds the id of an event that is in Kafka and
\* in the log as a success.
AcceptedWasPublished ==
    \A h \in Hooks : hook[h].pc = "accepted" =>
        hook[h].event \in topic /\ eventLogs[hook[h].event].status = "success"

\* A completed schedule never fires again: no stale row of a batch, no retry and
\* no update of its trigger takes it out of "completed".  With one scheduler.
CompletedIsFinal ==
    [][\A s \in ScheduleIds : schedules[s].status = "completed" =>
          schedules'[s].status \in {"completed", "deleted"}]_vars

\* A schedule that has been cancelled never fires.
CancelledIsFinal ==
    [][\A s \in ScheduleIds : schedules[s].status = "cancelled" =>
          schedules'[s].status \in {"cancelled", "deleted"}]_vars

\* A trigger has at most one run ahead of it.
OneLiveSchedule ==
    \A t \in TriggerIds : Cardinality({s \in SchedulesOf(t) : IsLive(s)}) <= 1

\* No occurrence of a trigger is scheduled twice: the row that createNextSchedule
\* inserts is for a later instant than every row before it.
OneRowPerOccurrence ==
    \A r, s \in ScheduleIds :
        /\ r # s /\ schedules[r].trigger # Null
        /\ schedules[r].trigger = schedules[s].trigger
        => schedules[r].fireAt # schedules[s].fireAt

\* A schedule is fired MaxRetries times at most, across crashes and restarts.
AttemptsBounded ==
    \A s \in ScheduleIds : Cardinality(EventsFor(s)) <= MaxRetries

\* An event the log shows as a success is in Kafka, once FireTrigger is done
\* with it.
LoggedSuccessWasPublished ==
    \A e \in EventIds : eventLogs[e].status = "success" /\ ~InFlight(e) => e \in topic

\* An active cron trigger that has a next time has a run ahead of it, unless an
\* update or the engine is about to insert it, or a run was given up.  Kafka
\* may fail; a crash or a database error at the wrong moment does end the chain.
CronChainEndsOnlyAtRetryLimit ==
    \A t \in TriggerIds :
        /\ TypeOf[t] = "cron_scheduled" /\ triggers[t].status = "active"
        /\ NextFireTime(triggers[t].config, now) # Null
        /\ \A r \in Requests : req[r].trigger # t
        /\ \A p \in Schedulers : pc[p] # "finish" \/ item[p].trigger # t
        => \E s \in SchedulesOf(t) : IsLive(s) \/ GivenUp(s)

\* No occurrence is lost silently (README.md:87): without config updates a schedule is
\* cancelled only after MaxRetries publishes, at as many polls, and the log shows the
\* failure of each.  Kafka may fail; a database error may keep a failure from the log.
CancelledWasTried ==
    \A s \in ScheduleIds : schedules[s].status = "cancelled" => GivenUp(s)

\* A due schedule of an active trigger is settled, or its trigger is paused or
\* deleted, when Kafka may fail but nothing else does.
EveryDueScheduleSettles ==
    \A s \in ScheduleIds :
        IsLive(s) /\ schedules[s].fireAt <= now /\ triggers[schedules[s].trigger].status = "active"
            ~> ~IsLive(s) \/ triggers[schedules[s].trigger].status # "active"

\* With one scheduler and no new configs, the schedules go through the life the
\* README promises, whatever fails.
Lifecycle == INSTANCE ScheduleLifecycle WITH
    RunIds    <- ScheduleIds,
    phase     <- [s \in ScheduleIds |-> schedules[s].status],
    failures  <- [s \in ScheduleIds |-> schedules[s].attempts],
    delivered <- [s \in ScheduleIds |-> \E e \in topic : eventLogs[e].schedule = s]

ImplementsLifecycle == Lifecycle!Spec

----------------------------------------------------------------------------
(* What the documentation says and the code does not do.                   *)

\* Between two batches of the running scheduler no schedule is "processing": one
\* whose publish failed has been reverted to "pending" or given up.
FailedFiringIsReverted ==
    (\A p \in Schedulers : pc[p] = "ready" /\ batch[p] = {} /\ p \notin cancelled) =>
        \A s \in ScheduleIds : schedules[s].status # "processing"

\* An active cron trigger keeps a run ahead of it through a Kafka outage.
CronSurvivesOutage ==
    \A t \in TriggerIds :
        /\ TypeOf[t] = "cron_scheduled" /\ triggers[t].status = "active"
        /\ NextFireTime(triggers[t].config, now) # Null
        /\ \A p \in Schedulers : pc[p] = "ready"
        => \E s \in SchedulesOf(t) : IsLive(s)

\* The firing of a schedule starts only while its trigger is active.
PausedDoesNotFire ==
    [][\A p \in Schedulers : pc[p] = "ready" /\ pc'[p] = "firing" =>
          triggers[item'[p].trigger].status = "active"]_vars

\* A one-time trigger executes at the run_at it was last given: when no client pauses
\* it, it is not deactivated ahead of a pending run.
PendingRunIsNotDropped ==
    [][\A t \in TriggerIds :
          /\ TypeOf[t] = "time_scheduled"
          /\ triggers[t].status = "active" /\ triggers'[t].status = "inactive"
          => \A s \in SchedulesOf(t) : schedules[s].status # "pending"]_vars

\* No two schedulers process the same schedule at a time.
NoDuplicateProcessing ==
    \A p, q \in Schedulers : p # q /\ pc[p] = "firing" /\ pc[q] = "firing" =>
        item[p].schedule # item[q].schedule

\* An update is answered "not found" only when the trigger does not exist.
NotFoundMeansAbsent ==
    [][\A r \in Requests : req[r].pc = "write" /\ req'[r].pc = "notfound" =>
          ~TriggerExists(req[r].trigger)]_vars
============================================================================
