--------------------------- MODULE PlatformProofs ---------------------------
(***************************************************************************)
(* Theorems about Platform, for every value of its constants.              *)
(***************************************************************************)
EXTENDS Platform, TLAPS

ConfigType == Configs \cup {{}}

\* A schedule that was inserted belongs to a trigger.
SchedulesOK ==
    /\ schedules \in [ScheduleIds -> ScheduleRow]
    /\ \A s \in ScheduleIds : schedules[s].status # "unused" =>
          schedules[s].trigger \in TriggerIds

\* The type of every variable, and what it does not say: the locals of a process
\* are set where the process uses them.
StorageOK ==
    /\ now \in 0..MaxTime
    /\ triggers \in [TriggerIds -> TriggerRow]
    /\ SchedulesOK
    /\ eventLogs \in [EventIds -> EventRow]
    /\ cancelled \subseteq Contexts

CallsOK ==
    /\ EventTypeOK
    /\ \A c \in Callers : call[c].pc \in {"publish", "markfailed", "ok"} =>
          call[c].event \in EventIds

EngineOK ==
    /\ EngineTypeOK
    /\ \A p \in Schedulers : pc[p] # "ready" => item[p] \in SnapshotType

RequestsOK ==
    /\ RequestTypeOK
    /\ \A r \in Requests : req[r].pc \notin Done => req[r].trigger \in TriggerIds

TypeInv == StorageOK /\ CallsOK /\ EngineOK /\ RequestsOK /\ HookTypeOK /\ ServerTypeOK

\* The next fire time is an instant after the given one, or there is none.
LEMMA NextFireTimeType ==
    ASSUME NEW config \in ConfigType, NEW from \in Nat
    PROVE  /\ NextFireTime(config, from) \in Nat \cup {Null}
           /\ NextFireTime(config, from) # Null =>
                 /\ NextFireTime(config, from) \in config
                 /\ NextFireTime(config, from) > from
<1>1. config \subseteq Nat
  BY StorageAssumption DEF ConfigType
<1> DEFINE later == {u \in config : u > from}
           least == {u \in later : \A v \in later : u <= v}
<1>2. CASE least = {}
  <2>1. NextFireTime(config, from) = Null
    BY <1>2 DEF NextFireTime
  <2> QED BY <2>1
<1>3. CASE least # {}
  <2>1. NextFireTime(config, from) = CHOOSE u \in least : TRUE
    BY <1>3 DEF NextFireTime
  <2>2. NextFireTime(config, from) \in least
    BY <1>3, <2>1
  <2> QED BY <1>1, <2>2
<1> QED BY <1>2, <1>3

\* An id from Fresh is an id of the table that is not in use.
LEMMA FreshId ==
    ASSUME NEW table, NEW id \in Fresh(table)
    PROVE  id \in DOMAIN table /\ table[id].status = "unused"
BY DEF Fresh

----------------------------------------------------------------------------
(* What each statement does to the table it writes.                        *)

\* UpdateScheduleStatus keeps the table well-formed.
LEMMA UpdateScheduleStatusOK ==
    ASSUME SchedulesOK, NEW c, NEW s \in ScheduleIds, NEW ok \in BOOLEAN,
           NEW status \in {"processing", "completed", "cancelled"},
           UpdateScheduleStatus(c, s, status, ok)
    PROVE  SchedulesOK'
BY DEF SchedulesOK, ScheduleRow, UpdateScheduleStatus, ScheduleExists

\* So does RevertScheduleToPending.
LEMMA RevertScheduleToPendingOK ==
    ASSUME SchedulesOK, NEW c, NEW s \in ScheduleIds,
           RevertScheduleToPending(c, s)
    PROVE  SchedulesOK'
<1>1. CASE UNCHANGED schedules
  BY <1>1 DEF SchedulesOK
<1>2. CASE /\ ScheduleExists(s)
           /\ schedules' = [schedules EXCEPT ![s].status = "pending",
                                             ![s].attempts = @ + 1]
  <2> DEFINE old == schedules[s]
             row == [trigger |-> old.trigger, fireAt |-> old.fireAt,
                     status |-> "pending", attempts |-> old.attempts + 1]
  <2>0. old \in ScheduleRow
    BY DEF SchedulesOK
  <2>1. row \in ScheduleRow /\ row.trigger = schedules[s].trigger
    BY <2>0 DEF ScheduleRow
  <2>2. schedules[s].trigger \in TriggerIds
    BY <1>2 DEF SchedulesOK, ScheduleExists
  <2>3. /\ schedules' \in [ScheduleIds -> ScheduleRow]
        /\ schedules'[s].trigger = schedules[s].trigger
        /\ \A r \in ScheduleIds \ {s} : schedules'[r] = schedules[r]
    BY <1>2, <2>0, <2>1 DEF SchedulesOK, ScheduleRow
  <2> QED BY <2>2, <2>3 DEF SchedulesOK
<1> QED BY <1>1, <1>2 DEF RevertScheduleToPending

\* So does CreateNextSchedule.
LEMMA CreateNextScheduleOK ==
    ASSUME SchedulesOK, NEW c, NEW t \in TriggerIds, NEW at \in Nat \cup {Null},
           CreateNextSchedule(c, t, at)
    PROVE  SchedulesOK'
<1>1. CASE UNCHANGED schedules
  BY <1>1 DEF SchedulesOK
<1>2. CASE /\ at # Null
           /\ \E s \in Fresh(schedules) :
                 schedules' = [schedules EXCEPT ![s] = NewSchedule(t, at)]
  <2>1. NewSchedule(t, at) \in ScheduleRow /\ NewSchedule(t, at).trigger = t
    BY <1>2 DEF NewSchedule, ScheduleRow
  <2> QED BY <1>2, <2>1 DEF SchedulesOK
<1> QED BY <1>1, <1>2 DEF CreateNextSchedule

\* So does the transaction that replaces the schedules of a trigger.
LEMMA UpsertTriggerScheduleOK ==
    ASSUME SchedulesOK, NEW c, NEW t \in TriggerIds, NEW at \in Nat \cup {Null},
           NEW ok \in BOOLEAN, UpsertTriggerSchedule(c, t, at, ok)
    PROVE  SchedulesOK'
<1>1. CASE UNCHANGED schedules
  BY <1>1 DEF SchedulesOK
<1>2. ASSUME at # Null, NEW s \in Fresh(schedules),
             schedules' = [r \in ScheduleIds |->
                 IF r = s THEN NewSchedule(t, at)
                 ELSE IF r \in SchedulesOf(t) /\ IsLive(r)
                      THEN [schedules[r] EXCEPT !.status = "cancelled"]
                      ELSE schedules[r]]
      PROVE  SchedulesOK'
  <2>1. NewSchedule(t, at) \in ScheduleRow /\ NewSchedule(t, at).trigger = t
    BY <1>2 DEF NewSchedule, ScheduleRow
  <2>2. \A r \in SchedulesOf(t) :
           /\ [schedules[r] EXCEPT !.status = "cancelled"] \in ScheduleRow
           /\ [schedules[r] EXCEPT !.status = "cancelled"].trigger \in TriggerIds
    BY DEF SchedulesOf, SchedulesOK, ScheduleRow
  <2> QED BY <1>2, <2>1, <2>2 DEF SchedulesOK
<1> QED BY <1>1, <1>2 DEF UpsertTriggerSchedule

\* CreateTrigger keeps both tables well-formed.
LEMMA CreateTriggerOK ==
    ASSUME SchedulesOK, triggers \in [TriggerIds -> TriggerRow], NEW c,
           NEW t \in TriggerIds, NEW config \in Configs, NEW at \in Nat \cup {Null},
           CreateTrigger(c, t, config, at)
    PROVE  SchedulesOK' /\ triggers' \in [TriggerIds -> TriggerRow]
<1>1. triggers' \in [TriggerIds -> TriggerRow]
  BY DEF CreateTrigger, TriggerRow
<1>2. CASE UNCHANGED schedules
  BY <1>1, <1>2 DEF SchedulesOK
<1>3. CASE /\ at # Null
           /\ \E s \in Fresh(schedules) :
                 schedules' = [schedules EXCEPT ![s] = NewSchedule(t, at)]
  <2>1. NewSchedule(t, at) \in ScheduleRow /\ NewSchedule(t, at).trigger = t
    BY <1>3 DEF NewSchedule, ScheduleRow
  <2> QED BY <1>1, <1>3, <2>1 DEF SchedulesOK
<1> QED BY <1>2, <1>3 DEF CreateTrigger

\* DeleteTrigger, with its cascades, keeps the three tables well-formed.
LEMMA DeleteTriggerOK ==
    ASSUME SchedulesOK, triggers \in [TriggerIds -> TriggerRow],
           eventLogs \in [EventIds -> EventRow], NEW c, NEW t \in TriggerIds,
           DeleteTrigger(c, t)
    PROVE  /\ SchedulesOK'
           /\ triggers' \in [TriggerIds -> TriggerRow]
           /\ eventLogs' \in [EventIds -> EventRow]
<1>1. triggers' \in [TriggerIds -> TriggerRow]
  BY DEF DeleteTrigger, TriggerRow
<1>2. SchedulesOK'
  BY DEF DeleteTrigger, SchedulesOK, SchedulesOf, ScheduleRow
<1>3. eventLogs' \in [EventIds -> EventRow]
  BY DEF DeleteTrigger, EventRow
<1> QED BY <1>1, <1>2, <1>3

\* The rows of a batch are snapshots.
LEMMA BatchType ==
    ASSUME TypeInv, NEW rows \in GetDueSchedules(BatchLimit)
    PROVE  rows \subseteq SnapshotType
<1>1. \A s \in DueRows : /\ s \in ScheduleIds /\ schedules[s].status # "unused"
                         /\ schedules[s].trigger \in TriggerIds
  BY DEF TypeInv, StorageOK, SchedulesOK, DueRows
<1>2. \A s \in DueRows : Snapshot(s) \in SnapshotType
  BY <1>1 DEF Snapshot, SnapshotType, TypeInv, StorageOK, SchedulesOK,
              ScheduleRow, TriggerRow
<1> QED BY <1>2 DEF GetDueSchedules
----------------------------------------------------------------------------
(* Type correctness, one lemma per kind of step.                           *)

\* What a component's variables satisfy is kept by the steps of the others.
LEMMA FrameType ==
    /\ StorageOK /\ UNCHANGED storageVars => StorageOK'
    /\ CallsOK /\ UNCHANGED eventVars => CallsOK'
    /\ EngineOK /\ UNCHANGED engineVars => EngineOK'
    /\ RequestsOK /\ UNCHANGED req => RequestsOK'
    /\ HookTypeOK /\ UNCHANGED hook => HookTypeOK'
    /\ ServerTypeOK /\ UNCHANGED server => ServerTypeOK'
BY DEF StorageOK, storageVars, SchedulesOK, CallsOK, EventTypeOK, eventVars, EngineOK,
       EngineTypeOK, engineVars, RequestsOK, RequestTypeOK, HookTypeOK, ServerTypeOK

\* The call of a process may change in one place at a time.
LEMMA CallChange ==
    ASSUME CallsOK, NEW c \in Callers, NEW new \in CallType,
           new.pc \in {"publish", "markfailed", "ok"} => new.event \in EventIds,
           call' = [call EXCEPT ![c] = new],
           topic' \subseteq EventIds
    PROVE  CallsOK'
BY DEF CallsOK, EventTypeOK

\* The steps of FireTrigger keep the types.
LEMMA EventStepType ==
    ASSUME TypeInv, NEW c \in Callers, EventStep(c)
    PROVE  TypeInv'
<1> USE DEF TypeInv
<1>0. /\ call[c] \in CallType
      /\ call \in [Callers -> CallType]
      /\ topic \subseteq EventIds
  BY DEF CallsOK, EventTypeOK
<1>1. CASE LogEvent(c) /\ UNCHANGED <<engineVars, apiVars>>
  <2>1. PICK e \in Fresh(eventLogs), ok \in BOOLEAN :
           /\ CreateEventLog(c, e, call[c].trigger, call[c].schedule, ok)
           /\ call' = IF ok THEN [call EXCEPT ![c].pc = "publish", ![c].event = e]
                            ELSE [call EXCEPT ![c].pc = "failed"]
    BY <1>1 DEF LogEvent
  <2>2. e \in EventIds
    BY FreshId DEF StorageOK
  <2>3. eventLogs' \in [EventIds -> EventRow]
    <3>1. [status |-> "success", trigger |-> call[c].trigger,
           schedule |-> call[c].schedule] \in EventRow
      BY <1>0 DEF CallType, EventRow
    <3> QED BY <2>1, <3>1 DEF CreateEventLog, StorageOK
  <2>4. CallsOK'
    <3> DEFINE new == IF ok THEN [call[c] EXCEPT !.pc = "publish", !.event = e]
                            ELSE [call[c] EXCEPT !.pc = "failed"]
    <3>1. call' = [call EXCEPT ![c] = new]
      BY <1>0, <2>1 DEF CallType
    <3>2. new \in CallType
      BY <1>0, <2>2 DEF CallType
    <3>3. new.pc \in {"publish", "markfailed", "ok"} => new.event \in EventIds
      BY <1>0, <2>2 DEF CallType
    <3>4. topic' \subseteq EventIds
      BY <1>0, <1>1 DEF LogEvent
    <3> HIDE DEF new
    <3> QED BY <3>1, <3>2, <3>3, <3>4, CallChange
  <2> QED
    BY <1>1, <2>3, <2>4, FrameType DEF LogEvent, StorageOK, SchedulesOK, apiVars
<1>2. CASE PublishAcked(c) /\ UNCHANGED <<engineVars, apiVars>>
  <2> DEFINE new == [call[c] EXCEPT !.pc = "ok"]
  <2>1. call[c].event \in EventIds
    BY <1>2 DEF PublishAcked, CallsOK
  <2>2. call' = [call EXCEPT ![c] = new] /\ topic' \subseteq EventIds
    BY <1>0, <1>2, <2>1 DEF PublishAcked
  <2>3. new \in CallType /\ new.event \in EventIds
    BY <1>0, <2>1 DEF CallType
  <2> HIDE DEF new
  <2>4. CallsOK'
    BY <2>2, <2>3, CallChange
  <2> QED
    BY <1>2, <2>4, FrameType DEF PublishAcked, apiVars
<1>3. CASE PublishFailed(c) /\ UNCHANGED <<engineVars, apiVars>>
  <2> DEFINE new == [call[c] EXCEPT !.pc = "markfailed"]
  <2>1. call[c].event \in EventIds
    BY <1>3 DEF PublishFailed, CallsOK
  <2>2. call' = [call EXCEPT ![c] = new] /\ topic' \subseteq EventIds
    BY <1>0, <1>3, <2>1 DEF PublishFailed
  <2>3. new \in CallType /\ new.event \in EventIds
    BY <1>0, <2>1 DEF CallType
  <2> HIDE DEF new
  <2>4. CallsOK'
    BY <2>2, <2>3, CallChange
  <2> QED
    BY <1>3, <2>4, FrameType DEF PublishFailed, apiVars
<1>4. CASE MarkFailed(c) /\ UNCHANGED <<engineVars, apiVars>>
  <2> DEFINE new == [call[c] EXCEPT !.pc = "failed"]
  <2>1. call' = [call EXCEPT ![c] = new] /\ topic' \subseteq EventIds
    BY <1>0, <1>4 DEF MarkFailed
  <2>2. new \in CallType /\ new.pc = "failed"
    BY <1>0 DEF CallType
  <2> HIDE DEF new
  <2>3. CallsOK'
    BY <2>1, <2>2, CallChange
  <2>4. eventLogs' \in [EventIds -> EventRow]
    BY <1>4 DEF MarkFailed, UpdateEventLogStatus, StorageOK, EventRow
  <2> QED
    BY <1>4, <2>3, <2>4, FrameType DEF MarkFailed, StorageOK, SchedulesOK, apiVars
<1> QED BY <1>1, <1>2, <1>3, <1>4 DEF EventStep

\* The calls stay well-typed when a caller calls FireTrigger or takes its result.
LEMMA CallerType ==
    ASSUME CallsOK, NEW c \in Callers, UNCHANGED topic,
           \/ Return(c)
           \/ \E t \in TriggerIds, s \in ScheduleIds \cup {Null} : FireTrigger(c, t, s)
    PROVE  CallsOK'
<1>1. CASE Return(c)
  <2>1. NoCall \in CallType /\ NoCall.pc = "none"
    BY DEF NoCall, CallType
  <2> QED BY <1>1, <2>1, CallChange DEF Return, CallsOK, EventTypeOK
<1>2. ASSUME NEW t \in TriggerIds, NEW s \in ScheduleIds \cup {Null}, FireTrigger(c, t, s)
      PROVE  CallsOK'
  <2> DEFINE new == [NoCall EXCEPT !.pc = "log", !.trigger = t, !.schedule = s]
  <2>1. new \in CallType /\ new.pc = "log"
    BY DEF NoCall, CallType
  <2>2. call' = [call EXCEPT ![c] = new]
    BY <1>2 DEF FireTrigger
  <2> HIDE DEF new
  <2> QED BY <2>1, <2>2, CallChange DEF CallsOK, EventTypeOK
<1> QED BY <1>1, <1>2

\* The engine stays well-typed when it goes on to the next row.
LEMMA NextRowType ==
    ASSUME EngineOK, NEW p \in Schedulers, NextRow(p), UNCHANGED batch
    PROVE  EngineOK'
BY DEF EngineOK, EngineTypeOK, NextRow

\* A scheduler is a caller, and the row it is at is a snapshot.
LEMMA ItemType ==
    ASSUME EngineOK, NEW p \in Schedulers, pc[p] # "ready"
    PROVE  /\ p \in Callers
           /\ item[p] \in SnapshotType
           /\ item[p].schedule \in ScheduleIds
           /\ item[p].trigger \in TriggerIds
           /\ item[p].config \in ConfigType
BY DEF EngineOK, EngineTypeOK, SnapshotType, Callers, ConfigType

\* The steps of the engine keep the types.
LEMMA EngineStepType ==
    ASSUME TypeInv, NEW p \in Schedulers, EngineStep(p)
    PROVE  TypeInv'
<1> USE DEF TypeInv
<1>0. p \in Callers
  BY DEF Callers
<1>1. CASE Poll(p) /\ UNCHANGED apiVars
  <2>1. PICK rows \in GetDueSchedules(BatchLimit) : batch' = [batch EXCEPT ![p] = rows]
    BY <1>1 DEF Poll
  <2>2. rows \subseteq SnapshotType
    BY BatchType
  <2>3. EngineOK'
    BY <1>1, <2>1, <2>2 DEF Poll, EngineOK, EngineTypeOK
  <2> QED BY <1>1, <2>3, FrameType DEF Poll, apiVars, storageVars, eventVars
<1>2. CASE MarkProcessing(p) /\ UNCHANGED apiVars
  <2>1. PICK row \in batch[p], ok \in BOOLEAN :
           /\ UpdateScheduleStatus(p, row.schedule, "processing", ok)
           /\ batch' = [batch EXCEPT ![p] = @ \ {row}]
           /\ IF ok
              THEN /\ pc' = [pc EXCEPT ![p] = "firing"]
                   /\ item' = [item EXCEPT ![p] = row]
                   /\ FireTrigger(p, row.trigger, row.schedule)
              ELSE UNCHANGED <<pc, item, call>>
    BY <1>2 DEF MarkProcessing
  <2>2. row \in SnapshotType
    BY DEF EngineOK, EngineTypeOK
  <2>3. row.schedule \in ScheduleIds /\ row.trigger \in TriggerIds
    BY <2>2 DEF SnapshotType
  <2>4. SchedulesOK'
    BY <2>1, <2>3, UpdateScheduleStatusOK DEF StorageOK
  <2>5. EngineOK'
    BY <2>1, <2>2, <2>3 DEF EngineOK, EngineTypeOK
  <2>6. CallsOK'
    BY <1>0, <1>2, <2>1, <2>3, CallerType, FrameType DEF MarkProcessing, eventVars
  <2> QED BY <1>2, <2>4, <2>5, <2>6, FrameType DEF MarkProcessing, StorageOK, apiVars
<1>3. CASE RetryLater(p) /\ UNCHANGED apiVars
  <2>1. SchedulesOK'
    BY <1>3, ItemType, RevertScheduleToPendingOK DEF RetryLater, FireFailed, StorageOK
  <2>2. EngineOK' /\ CallsOK'
    BY <1>0, <1>3, NextRowType, CallerType DEF RetryLater
  <2> QED BY <1>3, <2>1, <2>2, FrameType DEF RetryLater, StorageOK, apiVars
<1>4. CASE CancelAfterMaxRetries(p) /\ UNCHANGED apiVars
  <2>1. SchedulesOK'
    BY <1>4, ItemType, UpdateScheduleStatusOK
    DEF CancelAfterMaxRetries, FireFailed, StorageOK
  <2>2. EngineOK' /\ CallsOK'
    BY <1>0, <1>4, NextRowType, CallerType DEF CancelAfterMaxRetries
  <2> QED BY <1>4, <2>1, <2>2, FrameType DEF CancelAfterMaxRetries, StorageOK, apiVars
<1>5. CASE Complete(p) /\ UNCHANGED apiVars
  <2>1. SchedulesOK'
    BY <1>5, ItemType, UpdateScheduleStatusOK DEF Complete, StorageOK
  <2>2. CallsOK'
    BY <1>0, <1>5, CallerType DEF Complete
  <2>3. EngineOK'
    <3>1. CASE NextRow(p)
      BY <1>5, <3>1, NextRowType DEF Complete
    <3>2. CASE pc' = [pc EXCEPT ![p] = "finish"] /\ UNCHANGED item
      BY <1>5, <3>2 DEF Complete, EngineOK, EngineTypeOK
    <3> QED BY <1>5, <3>1, <3>2 DEF Complete
  <2> QED BY <1>5, <2>1, <2>2, <2>3, FrameType DEF Complete, StorageOK, apiVars
<1>6. CASE DeactivateOneTime(p) /\ UNCHANGED apiVars
  <2>1. triggers' \in [TriggerIds -> TriggerRow]
    BY <1>6 DEF DeactivateOneTime, DeactivateTrigger, StorageOK, TriggerRow
  <2>2. EngineOK'
    BY <1>6, NextRowType DEF DeactivateOneTime
  <2> QED
    BY <1>6, <2>1, <2>2, FrameType DEF DeactivateOneTime, StorageOK, SchedulesOK, apiVars
<1>7. CASE ScheduleNextRun(p) /\ UNCHANGED apiVars
  <2>1. now \in Nat
    BY StorageAssumption DEF StorageOK
  <2>2. NextFireTime(item[p].config, now) \in Nat \cup {Null}
    BY <1>7, <2>1, ItemType, NextFireTimeType DEF ScheduleNextRun
  <2>3. SchedulesOK'
    BY <1>7, <2>2, ItemType, CreateNextScheduleOK DEF ScheduleNextRun, StorageOK
  <2>4. EngineOK'
    BY <1>7, NextRowType DEF ScheduleNextRun
  <2> QED BY <1>7, <2>3, <2>4, FrameType DEF ScheduleNextRun, StorageOK, apiVars
<1> QED BY <1>1, <1>2, <1>3, <1>4, <1>5, <1>6, <1>7 DEF EngineStep

\* Shutdowns, restarts and crashes of a scheduler keep the types.
LEMMA EngineFaultType ==
    ASSUME TypeInv, NEW p \in Schedulers, EngineFault(p)
    PROVE  TypeInv'
<1> USE DEF TypeInv
<1>0. p \in Callers /\ p \in Contexts
  BY DEF Callers, Contexts
<1>1. CASE Shutdown(p) /\ UNCHANGED apiVars
  BY <1>0, <1>1, FrameType DEF Shutdown, StorageOK, SchedulesOK, apiVars
<1>2. CASE Restart(p) /\ UNCHANGED apiVars
  BY <1>2, FrameType DEF Restart, StorageOK, SchedulesOK, apiVars
<1>3. CASE Crash(p) /\ UNCHANGED apiVars
  <2>1. CallsOK'
    BY <1>0, <1>3, CallerType DEF Crash
  <2>2. EngineOK'
    BY <1>3 DEF Crash, EngineOK, EngineTypeOK, NextRow
  <2>3. StorageOK'
    BY <1>3 DEF Crash, StorageOK, SchedulesOK
  <2> QED BY <1>3, <2>1, <2>2, <2>3, FrameType DEF apiVars
<1> QED BY <1>1, <1>2, <1>3 DEF EngineFault

\* What Continue and Finish do to the requests.
LEMMA RequestChange ==
    ASSUME RequestsOK, cancelled \subseteq Contexts, NEW r \in Requests,
           \/ \E to \in {"schedule", "respond"} : req[r].pc \notin Done /\ Continue(r, to)
           \/ \E outcome \in Done : Finish(r, outcome)
    PROVE  RequestsOK' /\ cancelled' \subseteq Contexts
<1>1. ASSUME NEW to \in {"schedule", "respond"}, req[r].pc \notin Done, Continue(r, to)
      PROVE  RequestsOK' /\ cancelled' \subseteq Contexts
  BY <1>1 DEF Continue, RequestsOK, RequestTypeOK, RequestType
<1>2. ASSUME NEW outcome \in Done, Finish(r, outcome)
      PROVE  RequestsOK' /\ cancelled' \subseteq Contexts
  <2> DEFINE new == [NoRequest EXCEPT !.pc = outcome]
  <2>1. new \in RequestType /\ new.pc = outcome
    BY DEF NoRequest, RequestType
  <2>2. req' = [req EXCEPT ![r] = new] /\ cancelled' \subseteq cancelled
    BY <1>2 DEF Finish
  <2> HIDE DEF new
  <2> QED BY <2>1, <2>2 DEF RequestsOK, RequestTypeOK
<1> QED BY <1>1, <1>2

\* The first run of an accepted config is an instant, or there is none.
LEMMA FirstRunType ==
    ASSUME now \in 0..MaxTime, NEW t \in TriggerIds, NEW config \in Configs,
           Accepted(t, config)
    PROVE  FirstRun(t, config) \in Nat \cup {Null}
<1>1. TypeOf[t] \in {"webhook", "time_scheduled", "cron_scheduled"}
  BY StorageAssumption DEF TriggerTypes
<1>2. CASE TypeOf[t] = "time_scheduled"
  <2>1. \E at \in config : config = {at}
    BY <1>2 DEF Accepted
  <2>2. FirstRun(t, config) = CHOOSE at \in config : TRUE
    BY <1>2 DEF FirstRun
  <2>3. FirstRun(t, config) \in config
    BY <2>1, <2>2
  <2> QED BY <2>3, StorageAssumption
<1>3. CASE TypeOf[t] = "cron_scheduled"
  <2>1. now \in Nat /\ config \in ConfigType
    BY StorageAssumption DEF ConfigType
  <2>2. FirstRun(t, config) = NextFireTime(config, now)
    BY <1>3 DEF FirstRun
  <2> QED BY <2>1, <2>2, NextFireTimeType
<1>4. CASE TypeOf[t] = "webhook"
  BY <1>4 DEF FirstRun
<1> QED BY <1>1, <1>2, <1>3, <1>4

\* What clients ask for, and what breaks it off, keeps the types.
LEMMA ClientStepType ==
    ASSUME TypeInv, NEW r \in Requests, ClientStep(r)
    PROVE  TypeInv'
<1> USE DEF TypeInv
<1>0. r \in Contexts
  BY DEF Contexts
<1>1. CASE Create(r) /\ UNCHANGED <<eventVars, engineVars, hook, server>>
  <2>1. PICK t \in Fresh(triggers), config \in Configs :
           /\ Accepted(t, config)
           /\ CreateTrigger(r, t, config, FirstRun(t, config))
    BY <1>1 DEF Create
  <2>2. t \in TriggerIds
    BY FreshId DEF StorageOK
  <2>3. FirstRun(t, config) \in Nat \cup {Null}
    BY <2>1, <2>2, FirstRunType DEF StorageOK
  <2>4. SchedulesOK' /\ triggers' \in [TriggerIds -> TriggerRow]
    BY <2>1, <2>2, <2>3, CreateTriggerOK DEF StorageOK
  <2>5. RequestsOK' /\ cancelled' \subseteq Contexts
    BY <1>1, RequestChange DEF Create, StorageOK, Done
  <2> QED BY <1>1, <2>4, <2>5, FrameType DEF Create, StorageOK
<1>2. CASE Delete(r) /\ UNCHANGED <<eventVars, engineVars, hook, server>>
  <2>1. /\ SchedulesOK'
        /\ triggers' \in [TriggerIds -> TriggerRow]
        /\ eventLogs' \in [EventIds -> EventRow]
    BY <1>2, DeleteTriggerOK DEF Delete, StorageOK
  <2>2. RequestsOK' /\ cancelled' \subseteq Contexts
    BY <1>2, RequestChange DEF Delete, StorageOK, Done
  <2> QED BY <1>2, <2>1, <2>2, FrameType DEF Delete, StorageOK
<1>3. CASE BeginUpdate(r) /\ UNCHANGED <<eventVars, engineVars, hook, server>>
  <2>1. PICK t \in TriggerIds, status \in {Null, "active", "inactive"},
             config \in Configs \cup {Null} :
           /\ config # Null => Accepted(t, config)
           /\ req' = [req EXCEPT ![r] =
                [pc |-> "write", trigger |-> t, status |-> status, config |-> config,
                 fireAt |-> IF config = Null THEN Null ELSE FirstRun(t, config)]]
    <3>1. {Null} \cup (IF "status" \in Ops THEN {"active", "inactive"} ELSE {})
             \subseteq {Null, "active", "inactive"}
      OBVIOUS
    <3>2. {Null} \cup (IF "config" \in Ops THEN Configs ELSE {}) \subseteq Configs \cup {Null}
      OBVIOUS
    <3> QED BY <1>3, <3>1, <3>2 DEF BeginUpdate
  <2>2. (IF config = Null THEN Null ELSE FirstRun(t, config)) \in Nat \cup {Null}
    BY <2>1, FirstRunType DEF StorageOK
  <2>3. RequestsOK'
    BY <2>1, <2>2 DEF RequestsOK, RequestTypeOK, RequestType
  <2> QED BY <1>3, <2>3, FrameType DEF BeginUpdate
<1>4. CASE Disconnect(r) /\ UNCHANGED <<eventVars, engineVars, hook, server>>
  BY <1>0, <1>4, FrameType DEF Disconnect, StorageOK, SchedulesOK
<1> QED BY <1>1, <1>2, <1>3, <1>4 DEF ClientStep

\* The steps of an update keep the types.
LEMMA UpdateStepType ==
    ASSUME TypeInv, NEW r \in Requests, UpdateStep(r)
    PROVE  TypeInv'
<1> USE DEF TypeInv
<1>0. /\ req[r] \in RequestType
      /\ req[r].pc \notin Done => req[r].trigger \in TriggerIds
  BY DEF RequestsOK, RequestTypeOK
<1>1. CASE WriteTrigger(r) /\ UNCHANGED <<eventVars, engineVars, hook, server>>
  <2>1. PICK result \in {"ok", "notfound", "error"} :
           UpdateTrigger(r, req[r].trigger, req[r].status, req[r].config, result)
    BY <1>1 DEF WriteTrigger
  <2>2. req[r].trigger \in TriggerIds
    BY <1>0, <1>1 DEF WriteTrigger, Done
  <2>3. triggers' \in [TriggerIds -> TriggerRow]
    <3> DEFINE t == req[r].trigger
               row == [status |-> IF req[r].status = Null THEN triggers[t].status
                                                          ELSE req[r].status,
                       config |-> IF req[r].config = Null THEN triggers[t].config
                                                          ELSE req[r].config]
    <3>1. row \in TriggerRow
      BY <1>0, <2>2 DEF StorageOK, TriggerRow, RequestType
    <3>2. triggers' = [triggers EXCEPT ![t] = row] \/ UNCHANGED triggers
      BY <2>1 DEF UpdateTrigger
    <3> QED BY <3>1, <3>2 DEF StorageOK
  <2>4. RequestsOK' /\ cancelled' \subseteq Contexts
    BY <1>1, RequestChange DEF WriteTrigger, StorageOK, Done
  <2> QED BY <1>1, <2>3, <2>4, FrameType DEF WriteTrigger, StorageOK, SchedulesOK
<1>2. CASE WriteSchedule(r) /\ UNCHANGED <<eventVars, engineVars, hook, server>>
  <2>1. req[r].trigger \in TriggerIds /\ req[r].fireAt \in Nat \cup {Null}
    BY <1>0, <1>2 DEF WriteSchedule, Done, RequestType
  <2>2. SchedulesOK'
    BY <1>2, <2>1, UpsertTriggerScheduleOK DEF WriteSchedule, StorageOK
  <2>3. RequestsOK' /\ cancelled' \subseteq Contexts
    BY <1>2, RequestChange DEF WriteSchedule, StorageOK, Done
  <2> QED BY <1>2, <2>2, <2>3, FrameType DEF WriteSchedule, StorageOK
<1>3. CASE Respond(r) /\ UNCHANGED <<eventVars, engineVars, hook, server>>
  <2>1. RequestsOK' /\ cancelled' \subseteq Contexts
    BY <1>3, RequestChange DEF Respond, StorageOK, Done
  <2> QED BY <1>3, <2>1, FrameType DEF Respond, StorageOK, SchedulesOK
<1> QED BY <1>1, <1>2, <1>3 DEF UpdateStep

\* The steps of the webhook handler keep the types.
LEMMA WebhookStepType ==
    ASSUME TypeInv, NEW h \in Hooks, WebhookStep(h)
    PROVE  TypeInv'
<1> USE DEF TypeInv
<1>0. /\ h \in Callers /\ h \in Contexts
      /\ hook \in [Hooks -> HookType]
      /\ call[h] \in CallType
      /\ call[h].pc = "ok" => call[h].event \in EventIds
  BY DEF Callers, Contexts, HookTypeOK, CallsOK, EventTypeOK
<1>1. CASE ReceiveWebhook(h) /\ UNCHANGED <<engineVars, req, server>>
  <2>1. PICK t \in TriggerIds :
           /\ hook' = [hook EXCEPT ![h] = [NoHook EXCEPT !.pc = "firing", !.trigger = t]]
           /\ FireTrigger(h, t, Null)
    BY <1>1 DEF ReceiveWebhook
  <2>2. HookTypeOK'
    BY <1>0, <2>1 DEF HookTypeOK, HookType, NoHook
  <2>3. CallsOK'
    BY <1>0, <1>1, <2>1, CallerType DEF ReceiveWebhook
  <2> QED BY <1>1, <2>2, <2>3, FrameType DEF ReceiveWebhook
<1>2. CASE Reply(h) /\ UNCHANGED <<engineVars, req, server>>
  <2> DEFINE outcome == IF call[h].pc = "ok" THEN "accepted" ELSE "failed"
             answer == IF call[h].pc = "ok" THEN call[h].event ELSE Null
  <2>0. outcome \in Replies /\ answer \in EventIds \cup {Null}
    BY <1>0 DEF Replies
  <2> HIDE DEF outcome, answer
  <2>1. HookTypeOK'
    <3>1. hook' = [hook EXCEPT ![h].pc = outcome, ![h].event = answer]
      BY <1>2 DEF Reply, outcome, answer
    <3>2. hook' \in [Hooks -> HookType]
      BY <1>0, <2>0, <3>1 DEF HookType
    <3> QED BY <3>2 DEF HookTypeOK
  <2>2. CallsOK'
    BY <1>0, <1>2, CallerType DEF Reply
  <2> QED BY <1>2, <2>1, <2>2, FrameType DEF Reply, StorageOK, SchedulesOK
<1>3. CASE HangUp(h) /\ UNCHANGED <<engineVars, req, server>>
  BY <1>0, <1>3, FrameType DEF HangUp, StorageOK, SchedulesOK
<1> QED BY <1>1, <1>2, <1>3 DEF WebhookStep

\* The life of the API process keeps the types.
LEMMA ServerStepType ==
    ASSUME TypeInv, ServerStep
    PROVE  TypeInv'
<1> USE DEF TypeInv
<1>1. CASE Exit /\ UNCHANGED engineVars
  <2>1. RequestsOK'
    <3>1. NoRequest \in RequestType /\ NoRequest.pc = "idle"
      BY DEF NoRequest, RequestType, Done
    <3> QED BY <1>1, <3>1 DEF Exit, RequestsOK, RequestTypeOK, Done
  <2>2. HookTypeOK'
    <3>1. NoHook \in HookType
      BY DEF NoHook, HookType
    <3> QED BY <1>1, <3>1 DEF Exit, HookTypeOK
  <2>3. CallsOK'
    <3>1. NoCall \in CallType /\ NoCall.pc = "none"
      BY DEF NoCall, CallType
    <3> QED BY <1>1, <3>1 DEF Exit, CallsOK, EventTypeOK
  <2>4. StorageOK'
    BY <1>1 DEF Exit, StorageOK, SchedulesOK
  <2>5. ServerTypeOK'
    BY <1>1 DEF Exit, ServerTypeOK
  <2> QED BY <1>1, <2>1, <2>2, <2>3, <2>4, <2>5, FrameType
<1>2. CASE (BeginShutdown \/ StartServer) /\ UNCHANGED engineVars
  <2>1. ServerTypeOK'
    BY <1>2 DEF BeginShutdown, StartServer, ServerTypeOK
  <2> QED BY <1>2, <2>1, FrameType DEF BeginShutdown, StartServer
<1> QED BY <1>1, <1>2 DEF ServerStep, EndShutdown, Kill

\* The initial state is well-typed.
LEMMA InitType == Init => TypeInv
BY StorageAssumption DEF Init, StorageInit, EventInit, EngineInit, RequestInit, HookInit,
   TypeInv, StorageOK, SchedulesOK, TriggerRow, ScheduleRow, EventRow, CallsOK,
   EventTypeOK, CallType, NoCall, EngineOK, EngineTypeOK, RequestsOK, RequestTypeOK,
   RequestType, NoRequest, Done, HookTypeOK, HookType, NoHook, ServerInit, ServerTypeOK

\* Every step keeps the types.
LEMMA NextType == TypeInv /\ [Next]_vars => TypeInv'
<1> SUFFICES ASSUME TypeInv, [Next]_vars PROVE TypeInv'
  OBVIOUS
<1>1. CASE ClockStep
  <2>1. now' \in 0..MaxTime
    BY <1>1, StorageAssumption DEF ClockStep, Tick, TypeInv, StorageOK
  <2> QED
    BY <1>1, <2>1, FrameType DEF ClockStep, Tick, TypeInv, StorageOK, SchedulesOK, apiVars
<1>2. CASE UNCHANGED vars
  BY <1>2, FrameType DEF vars, TypeInv
<1> QED
  BY <1>1, <1>2, EventStepType, EngineStepType, EngineFaultType, ClientStepType,
     UpdateStepType, WebhookStepType, ServerStepType DEF Next

\* Type correctness: every variable of the platform keeps its type, for any
\* number of schedulers, requests and rows and any set of faults.
THEOREM TypeCorrect == Spec => []TypeOK
<1>1. TypeInv => TypeOK
  BY DEF TypeInv, TypeOK, StorageOK, StorageTypeOK, SchedulesOK, CallsOK, EngineOK,
         RequestsOK
<1> QED BY <1>1, InitType, NextType, PTL DEF Spec
============================================================================
