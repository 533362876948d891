------------------------------ MODULE CronProofs ------------------------------
(***************************************************************************)
(* One scheduler and reliable storage: a schedule is given up only after   *)
(* as many logged failures as there are tries, no interleaving with updates*)
(* ends the chain of runs of a cron trigger otherwise, and while nothing   *)
(* fails nothing ends it and every schedule fires once.                    *)
(***************************************************************************)
EXTENDS SingleProofs, WellFoundedInduction

\* A set of instants that is not empty has a first one.
LEMMA LeastInstant ==
    ASSUME NEW S \in SUBSET Nat, S # {}
    PROVE  \E u \in S : \A v \in S : u <= v
<1>1. \E u \in S : \A v \in S : <<v, u>> \notin OpToRel(<, Nat)
  BY NatLessThanWellFounded, WFMin
<1>2. PICK u \in S : \A v \in S : <<v, u>> \notin OpToRel(<, Nat)
  BY <1>1
<1>3. ASSUME NEW v \in S PROVE u <= v
  <2>1. u \in Nat /\ v \in Nat
    OBVIOUS
  <2>2. ~(v < u)
    BY <1>2, <2>1 DEF OpToRel
  <2> QED BY <2>1, <2>2
<1> QED BY <1>3

\* There is a next time exactly when the config matches a later instant.
LEMMA NextFireTimeExists ==
    ASSUME NEW config \in ConfigType, NEW from \in Nat
    PROVE  NextFireTime(config, from) # Null <=> \E u \in config : u > from
<1>1. config \subseteq Nat
  BY StorageAssumption DEF ConfigType
<1> DEFINE later == {u \in config : u > from}
           least == {u \in later : \A v \in later : u <= v}
<1>2. ASSUME NEW u \in config, u > from PROVE NextFireTime(config, from) # Null
  <2>1. later \in SUBSET Nat /\ later # {}
    BY <1>1, <1>2
  <2> HIDE DEF later
  <2>2. least # {}
    BY <2>1, LeastInstant
  <2>3. NextFireTime(config, from) = CHOOSE v \in least : TRUE
    BY <2>2 DEF NextFireTime, later
  <2>4. NextFireTime(config, from) \in Nat
    BY <2>1, <2>2, <2>3
  <2> QED BY <2>4, StorageAssumption
<1> QED BY <1>2, NextFireTimeType

\* A config that does not match any more never will.
LEMMA NextFireTimeStops ==
    ASSUME NEW config \in ConfigType, NEW from \in Nat, NEW to \in Nat, from <= to,
           NextFireTime(config, to) # Null
    PROVE  NextFireTime(config, from) # Null
<1>1. config \subseteq Nat
  BY StorageAssumption DEF ConfigType
<1>2. PICK u \in config : u > to
  BY NextFireTimeExists
<1>3. u > from
  BY <1>1, <1>2
<1> QED BY <1>3, NextFireTimeExists

----------------------------------------------------------------------------
(* The rows and their triggers.                                            *)

\* A trigger that has been created exists until it is deleted, for good.
TriggersLast ==
    \A t \in TriggerIds :
        /\ triggers[t].status # "unused" => triggers'[t].status # "unused"
        /\ triggers[t].status = "deleted" => triggers'[t].status = "deleted"

\* A row that exists after a step existed before, and so does its trigger if it did.
RowLasts(s) ==
    /\ schedules'[s].trigger = schedules[s].trigger
    /\ schedules'[s].status = "unused" <=> schedules[s].status = "unused"
    /\ ScheduleExists(s)' => /\ ScheduleExists(s)
                             /\ TriggerExists(schedules[s].trigger) =>
                                   TriggerExists(schedules[s].trigger)'

\* Or it is a new one of a trigger that exists.
RowComes(s) == \E t \in TriggerIds : schedules'[s].trigger = t /\ TriggerExists(t)'

\* What any step of the engine does to the two tables.
LEMMA EngineTables ==
    ASSUME TypeInv, TypeInv', UnusedInv, NEW p \in Schedulers, EngineStep(p)
    PROVE  TriggersLast /\ \A s \in ScheduleIds : RowLasts(s) \/ RowComes(s)
<1>0. /\ triggers \in [TriggerIds -> TriggerRow] /\ triggers' \in [TriggerIds -> TriggerRow]
      /\ schedules \in [ScheduleIds -> ScheduleRow]
      /\ pc[p] # "ready" => item[p] \in SnapshotType
      /\ \A s \in ScheduleIds : schedules[s].status # "unused" =>
            schedules[s].trigger \in TriggerIds
  BY RowFacts DEF TypeInv, StorageOK, SchedulesOK
<1>1. KeepsTriggers
  BY EngineKeeps
<1>2. TriggersLast
  BY <1>0, <1>1 DEF KeepsTriggers, TriggersLast, TriggerExists, TriggerRow
<1>3. CASE UNCHANGED schedules
  BY <1>0, <1>1, <1>2, <1>3 DEF KeepsTriggers, RowLasts, ScheduleExists
<1>4. ASSUME NEW x, NEW to \in {"pending", "processing", "completed", "cancelled"}, NEW n,
             Moved(x, to, n)
      PROVE  \A s \in ScheduleIds : RowLasts(s)
  BY <1>0, <1>1, <1>4 DEF Moved, KeepsTriggers, RowLasts, ScheduleExists
<1>5. CASE Plans(p) /\ ~UNCHANGED schedules
  <2>1. PICK s \in ScheduleIds, at \in Nat :
           /\ TriggerExists(item[p].trigger)
           /\ schedules' = [schedules EXCEPT ![s] = NewSchedule(item[p].trigger, at)]
    BY <1>5 DEF Plans
  <2>2. item[p].trigger \in TriggerIds
    BY <1>0, <1>5 DEF Plans, SnapshotType
  <2>3. schedules'[s].trigger = item[p].trigger
    BY <1>0, <2>1 DEF NewSchedule
  <2>4. RowComes(s)
    BY <1>1, <2>1, <2>2, <2>3 DEF RowComes, KeepsTriggers
  <2>5. \A r \in ScheduleIds \ {s} : RowLasts(r)
    BY <1>0, <1>1, <2>1 DEF RowLasts, KeepsTriggers, ScheduleExists
  <2> QED BY <1>2, <2>4, <2>5
<1> QED BY <1>2, <1>3, <1>4, <1>5, EngineEffect DEF Polls, Marks, Settles

\* What any step of a client does to them.
LEMMA ClientLasts ==
    ASSUME TypeInv, UnusedInv, NEW r \in Requests, ClientStep(r) \/ UpdateStep(r)
    PROVE  TriggersLast /\ \A s \in ScheduleIds : RowLasts(s) \/ RowComes(s)
<1>0. /\ triggers \in [TriggerIds -> TriggerRow]
      /\ schedules \in [ScheduleIds -> ScheduleRow]
      /\ req \in [Requests -> RequestType]
      /\ \A s \in ScheduleIds : schedules[s].status # "unused" =>
            schedules[s].trigger \in TriggerIds
      /\ req[r].pc \notin Done => req[r].trigger \in TriggerIds
  BY RowFacts DEF TypeInv, StorageOK, SchedulesOK, RequestsOK, RequestTypeOK
<1>1. ASSUME NEW s \in ScheduleIds, schedules'[s] = schedules[s],
             TriggerExists(schedules[s].trigger) => TriggerExists(schedules[s].trigger)'
      PROVE  RowLasts(s)
  BY <1>1 DEF RowLasts, ScheduleExists
<1>2. CASE UNCHANGED <<triggers, schedules>>
  BY <1>1, <1>2 DEF TriggersLast, TriggerExists
<1>3. CASE Create(r)
  <2>1. PICK t \in Fresh(triggers), config \in Configs :
           CreateTrigger(r, t, config, FirstRun(t, config))
    BY <1>3 DEF Create
  <2>2. t \in TriggerIds /\ triggers[t].status = "unused"
    BY <1>0, FreshId
  <2>3. triggers' = [triggers EXCEPT ![t] = [status |-> "active", config |-> config]]
    BY <2>1 DEF CreateTrigger
  <2>4. /\ triggers'[t].status = "active"
        /\ \A u \in TriggerIds \ {t} : triggers'[u] = triggers[u]
    BY <1>0, <2>2, <2>3
  <2>5. TriggersLast /\ \A u \in TriggerIds : TriggerExists(u) => TriggerExists(u)'
    BY <2>2, <2>4 DEF TriggersLast, TriggerExists
  <2>6. \A s \in ScheduleIds : schedules'[s] = schedules[s] => RowLasts(s)
    BY <1>0, <2>5 DEF RowLasts, ScheduleExists
  <2>7. \A s \in ScheduleIds : schedules'[s] = schedules[s] \/ schedules'[s].trigger = t
    BY <1>0, <2>1 DEF CreateTrigger, NewSchedule
  <2>8. \A s \in ScheduleIds : schedules'[s].trigger = t => RowComes(s)
    BY <2>2, <2>4 DEF RowComes, TriggerExists
  <2> QED BY <2>5, <2>6, <2>7, <2>8
<1>4. CASE Delete(r)
  <2>1. PICK t \in TriggerIds : DeleteTrigger(r, t)
    BY <1>4 DEF Delete
  <2>2. /\ triggers'[t].status = "deleted"
        /\ \A u \in TriggerIds \ {t} : triggers'[u] = triggers[u]
    BY <1>0, <2>1 DEF DeleteTrigger, TriggerRow
  <2>3. TriggersLast
    BY <2>2 DEF TriggersLast
  <2>4. ASSUME NEW s \in ScheduleIds PROVE RowLasts(s)
    <3>1. CASE schedules[s].trigger = t
      <4>1. schedules'[s] = [schedules[s] EXCEPT !.status = "deleted"]
        BY <2>1, <3>1 DEF DeleteTrigger, SchedulesOf
      <4>2. schedules'[s].status = "deleted" /\ schedules'[s].trigger = schedules[s].trigger
        BY <1>0, <4>1 DEF ScheduleRow
      <4>3. schedules[s].status # "unused"
        BY <3>1, StorageAssumption DEF UnusedInv
      <4> QED BY <4>2, <4>3 DEF RowLasts, ScheduleExists
    <3>2. CASE schedules[s].trigger # t
      <4>1. schedules'[s] = schedules[s]
        BY <2>1, <3>2 DEF DeleteTrigger, SchedulesOf
      <4> QED BY <1>0, <2>2, <3>2, <4>1 DEF RowLasts, ScheduleExists, TriggerExists
    <3> QED BY <3>1, <3>2
  <2> QED BY <2>3, <2>4
<1>5. CASE WriteTrigger(r)
  <2>1. UNCHANGED schedules /\ req[r].trigger \in TriggerIds
    BY <1>0, <1>5 DEF WriteTrigger, Done
  <2> DEFINE t == req[r].trigger
             status == IF req[r].status = Null THEN triggers[t].status ELSE req[r].status
  <2>2. TriggerExists(t) => status \in {"active", "inactive"}
    BY <1>0 DEF RequestType, TriggerExists
  <2>3. \/ UNCHANGED triggers
        \/ /\ TriggerExists(t)
           /\ \E config : triggers' = [triggers EXCEPT ![t] = [status |-> status, config |-> config]]
    BY <1>5 DEF WriteTrigger, UpdateTrigger
  <2> HIDE DEF status, t
  <2>4. CASE UNCHANGED triggers
    BY <1>0, <2>1, <2>4 DEF TriggersLast, TriggerExists, RowLasts, ScheduleExists
  <2>5. ASSUME TriggerExists(t), NEW config,
               triggers' = [triggers EXCEPT ![t] = [status |-> status, config |-> config]]
        PROVE  TriggersLast /\ \A u \in TriggerIds : TriggerExists(u) => TriggerExists(u)'
    <3>1. triggers'[t].status = status /\ \A u \in TriggerIds \ {t} : triggers'[u] = triggers[u]
      BY <1>0, <2>1, <2>5 DEF t
    <3> QED BY <2>2, <2>5, <3>1 DEF TriggersLast, TriggerExists
  <2>6. CASE TriggersLast /\ \A u \in TriggerIds : TriggerExists(u) => TriggerExists(u)'
    BY <1>0, <2>1, <2>6 DEF RowLasts, ScheduleExists
  <2> QED BY <2>3, <2>4, <2>5, <2>6
<1>6. CASE WriteSchedule(r)
  <2>1. UNCHANGED triggers /\ req[r].trigger \in TriggerIds
    BY <1>0, <1>6 DEF WriteSchedule, Done
  <2>2. TriggersLast /\ \A u \in TriggerIds : TriggerExists(u) => TriggerExists(u)'
    BY <2>1 DEF TriggersLast, TriggerExists
  <2> DEFINE t == req[r].trigger
  <2>3. ASSUME TriggerExists(t), NEW new \in Fresh(schedules), NEW at,
               schedules' = [s \in ScheduleIds |->
                   IF s = new THEN NewSchedule(t, at)
                   ELSE IF s \in SchedulesOf(t) /\ IsLive(s)
                        THEN [schedules[s] EXCEPT !.status = "cancelled"]
                        ELSE schedules[s]]
        PROVE  \A s \in ScheduleIds : RowLasts(s) \/ RowComes(s)
    <3> SUFFICES ASSUME NEW s \in ScheduleIds PROVE RowLasts(s) \/ RowComes(s)
      OBVIOUS
    <3>1. CASE s = new
      BY <2>1, <2>2, <2>3, <3>1 DEF RowComes, NewSchedule
    <3>2. CASE s # new /\ s \in SchedulesOf(t) /\ IsLive(s)
      <4>1. schedules'[s] = [schedules[s] EXCEPT !.status = "cancelled"]
        BY <2>3, <3>2
      <4>2. schedules'[s].status = "cancelled" /\ schedules'[s].trigger = schedules[s].trigger
        BY <1>0, <4>1 DEF ScheduleRow
      <4> QED BY <1>0, <2>2, <3>2, <4>2 DEF RowLasts, ScheduleExists, IsLive
    <3>3. CASE s # new /\ ~(s \in SchedulesOf(t) /\ IsLive(s))
      <4>1. schedules'[s] = schedules[s]
        BY <2>3, <3>3
      <4> QED BY <1>0, <2>2, <4>1 DEF RowLasts, ScheduleExists
    <3> QED BY <3>1, <3>2, <3>3
  <2>4. CASE UNCHANGED schedules
    BY <1>0, <2>2, <2>4 DEF RowLasts, ScheduleExists
  <2> QED BY <1>6, <2>2, <2>3, <2>4 DEF WriteSchedule, UpsertTriggerSchedule
<1> QED BY <1>2, <1>3, <1>4, <1>5, <1>6
    DEF ClientStep, UpdateStep, BeginUpdate, Disconnect, Respond, storageVars

\* The same of every step.
LEMMA TablesLast ==
    ASSUME TypeInv, TypeInv', UnusedInv, [Next]_vars
    PROVE  TriggersLast /\ \A s \in ScheduleIds : RowLasts(s) \/ RowComes(s)
<1>1. CASE UNCHANGED <<triggers, schedules>>
  BY <1>1 DEF TriggersLast, RowLasts, ScheduleExists, TriggerExists
<1>2. ASSUME NEW c \in Callers, EventStep(c) PROVE UNCHANGED <<triggers, schedules>>
  BY <1>2 DEF EventStep, LogEvent, PublishAcked, PublishFailed, MarkFailed, storageVars
<1>3. ASSUME NEW p \in Schedulers, EngineFault(p) PROVE UNCHANGED <<triggers, schedules>>
  BY <1>3 DEF EngineFault, Shutdown, Restart, Crash
<1>4. ASSUME NEW h \in Hooks, WebhookStep(h) PROVE UNCHANGED <<triggers, schedules>>
  BY <1>4 DEF WebhookStep, ReceiveWebhook, Reply, HangUp, storageVars
<1>5. CASE ServerStep
  BY <1>1, <1>5 DEF ServerStep, BeginShutdown, EndShutdown, Kill, StartServer, Exit, storageVars
<1>6. CASE ClockStep \/ UNCHANGED vars
  BY <1>1, <1>6 DEF ClockStep, Tick, vars, storageVars
<1> QED BY <1>1, <1>2, <1>3, <1>4, <1>5, <1>6, EngineTables, ClientLasts DEF Next

\* A row is of a trigger that was created, and goes with it.
OwnedRows ==
    \A s \in ScheduleIds :
        /\ schedules[s].status # "unused" => triggers[schedules[s].trigger].status # "unused"
        /\ ScheduleExists(s) => TriggerExists(schedules[s].trigger)

\* Tables and rows.
LEMMA NextOwnedRows ==
    ASSUME TypeInv, TypeInv', UnusedInv, OwnedRows, [Next]_vars
    PROVE  OwnedRows'
<1>0. \A s \in ScheduleIds : schedules[s].status # "unused" => schedules[s].trigger \in TriggerIds
  BY DEF TypeInv, StorageOK, SchedulesOK
<1>1. TriggersLast /\ \A s \in ScheduleIds : RowLasts(s) \/ RowComes(s)
  BY TablesLast
<1>2. ASSUME NEW s \in ScheduleIds, RowLasts(s)
      PROVE  /\ schedules'[s].status # "unused" =>
                   triggers'[schedules'[s].trigger].status # "unused"
             /\ ScheduleExists(s)' => TriggerExists(schedules[s].trigger)'
  BY <1>0, <1>1, <1>2 DEF OwnedRows, RowLasts, TriggersLast
<1>3. ASSUME NEW s \in ScheduleIds, RowComes(s)
      PROVE  /\ triggers'[schedules'[s].trigger].status # "unused"
             /\ TriggerExists(schedules[s].trigger)'
  BY <1>3 DEF RowComes, TriggerExists
<1> QED BY <1>1, <1>2, <1>3 DEF OwnedRows

----------------------------------------------------------------------------
(* The tries.                                                              *)

\* As many publishes of the schedule as the engine allows have failed, and the log says so.
Tried(s) == Cardinality(FailuresFor(s)) >= MaxRetries

\* The call under way has the event it may still turn into a failure; one that has failed
\* has left one failure more than its schedule has attempts.  One that failed because the
\* trigger is gone leaves none.
TriedCall(p) ==
    /\ call[p].trigger = item[p].trigger
    /\ call[p].pc \in {"publish", "markfailed"} =>
          /\ eventLogs[call[p].event].status = "success"
          /\ eventLogs[call[p].event].schedule = item[p].schedule
    /\ call[p].pc = "failed" /\ TriggerExists(item[p].trigger) =>
          item[p].attempts + 1 <= Cardinality(FailuresFor(item[p].schedule))

\* An attempt is counted only after the log shows its failure.
TriedInv ==
    /\ OwnedRows
    /\ \A s \in ScheduleIds : schedules[s].attempts <= Cardinality(FailuresFor(s))
    /\ \A p \in Schedulers : pc[p] = "firing" => TriedCall(p)

\* Types that the lemmas below share.
LEMMA CronFacts ==
    ASSUME AttemptsInv
    PROVE  /\ triggers \in [TriggerIds -> TriggerRow]
           /\ schedules \in [ScheduleIds -> ScheduleRow]
           /\ now \in Nat
           /\ TypeInv /\ RowsInv /\ UnusedInv /\ CountInv
           /\ \A p \in Schedulers :
                 /\ pc[p] \in {"ready", "firing", "finish"}
                 /\ pc[p] # "ready" => item[p] \in SnapshotType
                 /\ batch[p] \subseteq SnapshotType
                 /\ Held(p) \subseteq SnapshotType
           /\ Null \notin TriggerIds
BY RowFacts, CallFacts, StorageAssumption
   DEF AttemptsInv, OneSchedulerInv, TypeInv, StorageOK, Held

\* The failures of a schedule are events of it, so there are MaxRetries at most.
LEMMA FailuresFinite ==
    ASSUME CountInv, NEW s \in ScheduleIds
    PROVE  /\ IsFiniteSet(FailuresFor(s)) /\ Cardinality(FailuresFor(s)) \in Nat
           /\ Cardinality(FailuresFor(s)) <= MaxRetries
           /\ Tried(s) => Cardinality(FailuresFor(s)) = MaxRetries
<1>1. IsFiniteSet(EventsFor(s)) /\ Cardinality(EventsFor(s)) <= MaxRetries
  BY DEF CountInv
<1>2. FailuresFor(s) \subseteq EventsFor(s)
  BY DEF FailuresFor
<1>3. /\ IsFiniteSet(FailuresFor(s)) /\ Cardinality(FailuresFor(s)) \in Nat
      /\ Cardinality(EventsFor(s)) \in Nat
      /\ Cardinality(FailuresFor(s)) <= Cardinality(EventsFor(s))
  BY <1>1, <1>2, FS_Subset, FS_CardinalityType
<1> QED BY <1>1, <1>3, EngineAssumption DEF Tried

\* More failures are a larger number of them.
LEMMA FailuresCounted ==
    ASSUME CountInv, CountInv', NEW s \in ScheduleIds, FailuresFor(s) \subseteq FailuresFor(s)'
    PROVE  /\ Cardinality(FailuresFor(s)) <= Cardinality(FailuresFor(s)')
           /\ Cardinality(FailuresFor(s)') \in Nat
           /\ Tried(s) => Tried(s)'
<1>1. IsFiniteSet(EventsFor(s)') /\ FailuresFor(s)' \subseteq EventsFor(s)'
  BY DEF CountInv, FailuresFor
<1>2. /\ IsFiniteSet(FailuresFor(s)') /\ Cardinality(FailuresFor(s)') \in Nat
      /\ Cardinality(FailuresFor(s)) <= Cardinality(FailuresFor(s)')
  BY <1>1, FS_Subset, FS_CardinalityType
<1> QED BY <1>2, FailuresFinite, EngineAssumption DEF Tried

\* The same events are failures after every step but those of a call.
LEMMA QuietFailures ==
    ASSUME QuietStep, NEW s
    PROVE  FailuresFor(s)' = FailuresFor(s)
BY DEF QuietStep, EventsFor, FailuresFor

\* The steps of a call: a logged failure stays one, and the correction of the log adds one.
LEMMA EventStepTried ==
    ASSUME OnlyKafkaFails, AttemptsInv, AttemptsInv', cancelled = {}, TriedInv,
           NEW c \in Callers, EventStep(c)
    PROVE  /\ \A s \in ScheduleIds : FailuresFor(s) \subseteq FailuresFor(s)'
           /\ \A p \in Schedulers : pc'[p] = "firing" => TriedCall(p)'
<1>0. /\ eventLogs \in [EventIds -> EventRow] /\ call \in [Callers -> CallType]
      /\ CallsInv /\ FiringInv /\ IdleInv /\ CountInv /\ CountInv' /\ RowsInv
      /\ Schedulers \subseteq Callers
      /\ \A d \in Callers : call[d].pc \in {"publish", "markfailed"} => call[d].event \in EventIds
      /\ \A p \in Schedulers : pc[p] = "firing" => item[p] \in SnapshotType
  BY CronFacts, CallFacts DEF AttemptsInv, DeliveryInv, TypeInv, StorageOK, CallsOK
<1>1. /\ UNCHANGED <<pc, item, triggers>>
      /\ \A d \in Callers \ {c} : call'[d] = call[d]
  BY <1>0 DEF EventStep, LogEvent, PublishAcked, PublishFailed, MarkFailed, engineVars,
              storageVars
<1>2. ASSUME \A s \in ScheduleIds : FailuresFor(s) \subseteq FailuresFor(s)',
             NEW p \in Schedulers, pc[p] = "firing", call'[p] = call[p],
             call[p].pc \in {"publish", "markfailed"} =>
                 eventLogs'[call[p].event] = eventLogs[call[p].event]
      PROVE  TriedCall(p)'
  <2> PICK s \in ScheduleIds : s = item[p].schedule
    BY <1>0, <1>2 DEF SnapshotType
  <2>1. /\ Cardinality(FailuresFor(s)) <= Cardinality(FailuresFor(s)')
        /\ Cardinality(FailuresFor(s)') \in Nat /\ Cardinality(FailuresFor(s)) \in Nat
    BY <1>0, <1>2, FailuresCounted, FailuresFinite
  <2>2. item'[p].schedule = s /\ item'[p].attempts = item[p].attempts /\ item[p].attempts \in Nat
    BY <1>0, <1>1, <1>2 DEF SnapshotType
  <2>3. TriggerExists(item[p].trigger)' <=> TriggerExists(item[p].trigger)
    BY <1>1 DEF TriggerExists
  <2>4. TriedCall(p)
    BY <1>2 DEF TriedInv
  <2> HIDE DEF FailuresFor
  <2>5. call[p].pc = "failed" /\ TriggerExists(item[p].trigger) =>
            item[p].attempts + 1 <= Cardinality(FailuresFor(s)')
    BY <2>1, <2>2, <2>4 DEF TriedCall
  <2>6. call'[p].pc = "failed" /\ TriggerExists(item[p].trigger)' =>
            item'[p].attempts + 1 <= Cardinality(FailuresFor(item[p].schedule)')
    BY <1>2, <2>2, <2>3, <2>5
  <2>7. FailuresFor(item[p].schedule)' = FailuresFor(s)'
    BY <2>2
  <2> QED BY <1>1, <1>2, <2>4, <2>6, <2>7 DEF TriedCall
<1>3. CASE LogEvent(c)
  <2>1. PICK e \in Fresh(eventLogs), ok \in BOOLEAN :
           /\ CreateEventLog(c, e, call[c].trigger, call[c].schedule, ok)
           /\ call' = IF ok THEN [call EXCEPT ![c].pc = "publish", ![c].event = e]
                            ELSE [call EXCEPT ![c].pc = "failed"]
    BY <1>3 DEF LogEvent
  <2>2. e \in EventIds /\ eventLogs[e].status = "unused"
    BY <1>0, <2>1, FreshId
  <2>3. ~Refused(c, ok) /\ ~Runs(c, FALSE)
    BY DEF Refused, Runs, OnlyKafkaFails
  <2>4. /\ ~ok => ~TriggerExists(call[c].trigger) /\ UNCHANGED eventLogs
        /\ ok => eventLogs' = [eventLogs EXCEPT ![e] =
                     [status |-> "success", trigger |-> call[c].trigger,
                      schedule |-> call[c].schedule]]
    BY <2>1, <2>3 DEF CreateEventLog
  <2>5. /\ \A f \in EventIds \ {e} : eventLogs'[f] = eventLogs[f]
        /\ ok => eventLogs'[e].status = "success" /\ eventLogs'[e].schedule = call[c].schedule
    BY <1>0, <2>2, <2>4
  <2>6. \A s \in ScheduleIds : FailuresFor(s) \subseteq FailuresFor(s)'
    BY <2>2, <2>5 DEF FailuresFor, EventsFor
  <2>7. \A d \in Callers : call[d].pc \in {"publish", "markfailed"} => call[d].event # e
    BY <1>0, <2>2 DEF CallsInv
  <2>8. ASSUME c \in Schedulers, pc[c] = "firing" PROVE TriedCall(c)'
    <3>1. /\ call'[c].trigger = call[c].trigger
          /\ call'[c].pc = IF ok THEN "publish" ELSE "failed"
          /\ ok => call'[c].event = e
      BY <1>0, <2>1 DEF CallType
    <3>2. call[c].trigger = item[c].trigger /\ call[c].schedule = item[c].schedule
      BY <1>0, <2>8 DEF TriedInv, TriedCall, FiringInv
    <3>3. ~ok => ~(TriggerExists(item[c].trigger)')
      BY <1>1, <2>4, <3>2 DEF TriggerExists
    <3> QED BY <1>1, <2>5, <3>1, <3>2, <3>3 DEF TriedCall
  <2> QED BY <1>0, <1>1, <1>2, <2>5, <2>6, <2>7, <2>8
<1>4. CASE PublishAcked(c) \/ PublishFailed(c)
  <2>1. UNCHANGED eventLogs /\ call[c].pc = "publish"
    BY <1>4 DEF PublishAcked, PublishFailed, storageVars
  <2>2. \A s \in ScheduleIds : FailuresFor(s) \subseteq FailuresFor(s)'
    BY <2>1 DEF FailuresFor, EventsFor
  <2>3. ASSUME c \in Schedulers, pc[c] = "firing" PROVE TriedCall(c)'
    <3>1. /\ call'[c].trigger = call[c].trigger /\ call'[c].event = call[c].event
          /\ call'[c].pc \in {"ok", "markfailed"}
      BY <1>0, <1>4 DEF PublishAcked, PublishFailed, CallType
    <3> QED BY <1>1, <2>1, <2>3, <3>1 DEF TriedInv, TriedCall
  <2> QED BY <1>0, <1>1, <1>2, <2>1, <2>2, <2>3
<1>5. CASE MarkFailed(c)
  <2> DEFINE e == call[c].event
  <2>1. /\ call[c].pc = "markfailed" /\ e \in EventIds /\ eventLogs[e].status # "unused"
        /\ call' = [call EXCEPT ![c].pc = "failed"]
    BY <1>0, <1>5 DEF MarkFailed, CallsInv
  <2>2. eventLogs' = [eventLogs EXCEPT ![e].status = "failure"]
    BY <1>5 DEF MarkFailed, UpdateEventLogStatus, Refused, OnlyKafkaFails
  <2>3. /\ \A f \in EventIds \ {e} : eventLogs'[f] = eventLogs[f]
        /\ eventLogs'[e].status = "failure" /\ eventLogs'[e].schedule = eventLogs[e].schedule
    BY <1>0, <2>1, <2>2 DEF EventRow
  <2>4. \A s \in ScheduleIds : FailuresFor(s) \subseteq FailuresFor(s)'
    BY <2>1, <2>3 DEF FailuresFor, EventsFor
  <2>5. \A d \in Callers \ {c} : call[d].pc \in {"publish", "markfailed"} => call[d].event # e
    BY <1>0, <2>1 DEF CallsInv
  <2>6. ASSUME c \in Schedulers, pc[c] = "firing" PROVE TriedCall(c)'
    <3> PICK s \in ScheduleIds : s = item[c].schedule
      BY <1>0, <2>6 DEF SnapshotType
    <3>1. /\ call'[c].trigger = call[c].trigger /\ call'[c].pc = "failed"
      BY <1>0, <2>1 DEF CallType
    <3>2. /\ call[c].trigger = item[c].trigger
          /\ eventLogs[e].status = "success" /\ eventLogs[e].schedule = s
      BY <2>1, <2>6 DEF TriedInv, TriedCall
    <3>3. e \notin FailuresFor(s) /\ FailuresFor(s)' = FailuresFor(s) \cup {e}
      BY <2>1, <2>3, <3>2 DEF FailuresFor, EventsFor
    <3>4. /\ Cardinality(FailuresFor(s)') = Cardinality(FailuresFor(s)) + 1
          /\ Cardinality(FailuresFor(s)) \in Nat
      BY <1>0, <3>3, FailuresFinite, FS_AddElement
    <3>5. /\ schedules[s].attempts <= Cardinality(FailuresFor(s))
          /\ schedules[s].attempts = item[c].attempts
          /\ item[c].attempts \in Nat
      BY <1>0, <2>6 DEF TriedInv, RowsInv, Held, SnapshotType
    <3>6. item[c].attempts + 1 <= Cardinality(FailuresFor(s)')
      BY <3>4, <3>5
    <3>7. item'[c] = item[c] /\ FailuresFor(item[c].schedule)' = FailuresFor(s)'
      BY <1>1
    <3> QED BY <3>1, <3>2, <3>6, <3>7 DEF TriedCall
  <2> QED BY <1>0, <1>1, <1>2, <2>3, <2>4, <2>5, <2>6
<1> QED BY <1>3, <1>4, <1>5 DEF EventStep

\* A failed call that is settled has been counted, and the last one makes MaxRetries.
LEMMA SettledTried ==
    ASSUME AttemptsInv, TriedInv, NEW p \in Schedulers, pc[p] = "firing", call[p].pc = "failed",
           NEW x \in ScheduleIds, x = item[p].schedule, ScheduleExists(x)
    PROVE  /\ item[p].attempts + 1 <= Cardinality(FailuresFor(x))
           /\ schedules[x].attempts = item[p].attempts
           /\ item[p].attempts + 1 >= MaxRetries => Cardinality(FailuresFor(x)) = MaxRetries
<1>0. /\ item[p] \in Held(p) /\ item[p].attempts \in Nat /\ RowsInv /\ CountInv
      /\ MaxRetries \in Nat
  BY CronFacts, EngineAssumption DEF Held, SnapshotType
<1>1. schedules[x].trigger = item[p].trigger /\ schedules[x].attempts = item[p].attempts
  BY <1>0 DEF RowsInv
<1>2. TriggerExists(item[p].trigger)
  BY <1>1 DEF TriedInv, OwnedRows
<1>3. item[p].attempts + 1 <= Cardinality(FailuresFor(x))
  BY <1>2 DEF TriedInv, TriedCall
<1>4. Cardinality(FailuresFor(x)) \in Nat /\ (Tried(x) => Cardinality(FailuresFor(x)) = MaxRetries)
  BY <1>0, FailuresFinite
<1>5. item[p].attempts + 1 >= MaxRetries => Tried(x)
  BY <1>0, <1>3, <1>4 DEF Tried
<1> QED BY <1>1, <1>3, <1>4, <1>5

\* The engine begins a call for the row it fires, or waits for it.
LEMMA EngineFires ==
    ASSUME TypeInv, NEW p \in Schedulers, EngineStep(p), NEW q \in Schedulers, pc'[q] = "firing"
    PROVE  \/ pc[q] = "firing" /\ item'[q] = item[q] /\ call'[q] = call[q]
           \/ call'[q].trigger = item'[q].trigger /\ call'[q].pc = "log"
<1>0. /\ call \in [Callers -> CallType] /\ Schedulers \subseteq Callers
      /\ pc \in [Schedulers -> {"ready", "firing", "finish"}]
      /\ item \in [Schedulers -> SnapshotType \cup {Null}]
  BY CallFacts
<1>1. CASE q # p
  BY <1>0, <1>1 DEF EngineStep, Poll, MarkProcessing, RetryLater, CancelAfterMaxRetries, Complete,
           DeactivateOneTime, ScheduleNextRun, NextRow, FireTrigger, Return, eventVars
<1>2. CASE q = p /\ MarkProcessing(p)
  <2>1. PICK row \in batch[p], ok \in BOOLEAN :
           IF ok THEN /\ pc' = [pc EXCEPT ![p] = "firing"]
                      /\ item' = [item EXCEPT ![p] = row]
                      /\ FireTrigger(p, row.trigger, row.schedule)
                 ELSE UNCHANGED <<pc, item, call>>
    BY <1>2 DEF MarkProcessing
  <2>2. CASE ok
    <3>1. item'[p] = row /\ call'[p].trigger = row.trigger /\ call'[p].pc = "log"
      BY <1>0, <2>1, <2>2 DEF FireTrigger, NoCall
    <3> QED BY <1>2, <3>1
  <2> QED BY <1>2, <2>1, <2>2
<1>3. CASE Poll(p)
  BY <1>3 DEF Poll, eventVars
<1>4. CASE q = p /\ ~MarkProcessing(p) /\ ~Poll(p)
  BY <1>0, <1>4 DEF EngineStep, RetryLater, CancelAfterMaxRetries, Complete,
                    DeactivateOneTime, ScheduleNextRun, NextRow
<1> QED BY <1>1, <1>2, <1>3, <1>4

\* No step of another part touches the engine's calls.
LEMMA OthersCall ==
    ASSUME TypeInv, OnlyKafkaFails, cancelled = {}, [Next]_vars,
           \A c \in Callers : ~EventStep(c), \A p \in Schedulers : ~EngineStep(p)
    PROVE  UNCHANGED <<pc, item>> /\ \A p \in Schedulers : call'[p] = call[p]
<1>0. /\ call \in [Callers -> CallType] /\ Schedulers \subseteq Callers
      /\ Schedulers \cap Hooks = {}
  BY CallFacts
<1>1. ~(\E p \in Schedulers : EngineFault(p))
  BY <1>0 DEF EngineFault, Shutdown, Restart, Crash, OnlyKafkaFails
<1>2. ASSUME NEW r \in Requests, ClientStep(r) \/ UpdateStep(r) PROVE UNCHANGED <<pc, item, call>>
  BY <1>2 DEF ClientStep, UpdateStep, eventVars, engineVars
<1>3. ASSUME NEW h \in Hooks, WebhookStep(h)
      PROVE  UNCHANGED <<pc, item>> /\ \A p \in Schedulers : call'[p] = call[p]
  <2>1. UNCHANGED <<pc, item>>
    BY <1>3 DEF WebhookStep, engineVars
  <2>2. \A c \in Callers \ {h} : call'[c] = call[c]
    BY <1>0, <1>3 DEF WebhookStep, ReceiveWebhook, Reply, HangUp, FireTrigger, Return, eventVars
  <2> QED BY <1>0, <2>1, <2>2
<1>4. CASE ServerStep
  BY <1>0, <1>4 DEF ServerStep, BeginShutdown, EndShutdown, Kill, StartServer, Exit, eventVars,
                    engineVars
<1>5. CASE ClockStep \/ UNCHANGED vars
  BY <1>5 DEF ClockStep, vars, eventVars, engineVars
<1> QED BY <1>1, <1>2, <1>3, <1>4, <1>5 DEF Next

\* Every step keeps it: attempts are counted by the engine alone, for a call that failed.
LEMMA NextTried ==
    ASSUME OnlyKafkaFails, AttemptsInv, AttemptsInv', cancelled = {}, TriedInv, [Next]_vars
    PROVE  /\ TriedInv'
           /\ \A s \in ScheduleIds : FailuresFor(s) \subseteq FailuresFor(s)'
<1>0. /\ TypeInv /\ TypeInv' /\ UnusedInv /\ RowsInv /\ CountInv /\ CountInv' /\ DeliveryInv
      /\ schedules \in [ScheduleIds -> ScheduleRow]
      /\ \A p \in Schedulers : pc[p] # "ready" => item[p] \in SnapshotType
  BY CronFacts DEF AttemptsInv, OneSchedulerInv
<1>1. OwnedRows' /\ TriggersLast
  BY <1>0, NextOwnedRows, TablesLast DEF TriedInv
<1>2. ASSUME \A c \in Callers : ~EventStep(c)
      PROVE  \A s : FailuresFor(s)' = FailuresFor(s)
  BY <1>0, <1>2, OthersQuiet, QuietFailures
<1>3. \A s \in ScheduleIds : FailuresFor(s) \subseteq FailuresFor(s)'
  BY <1>2, EventStepTried
<1>4. \A s \in ScheduleIds : /\ Cardinality(FailuresFor(s)) <= Cardinality(FailuresFor(s)')
                            /\ Cardinality(FailuresFor(s)) \in Nat
                            /\ Cardinality(FailuresFor(s)') \in Nat
  BY <1>0, <1>3, FailuresCounted, FailuresFinite
<1>5. ASSUME NEW s \in ScheduleIds
      PROVE  schedules'[s].attempts <= Cardinality(FailuresFor(s)')
  <2>0. schedules[s].attempts \in Nat /\ schedules[s].attempts <= Cardinality(FailuresFor(s))
    BY <1>0 DEF ScheduleRow, TriedInv
  <2>1. CASE schedules'[s].attempts \in {0, schedules[s].attempts}
    BY <1>4, <2>0, <2>1
  <2>2. ASSUME NEW p \in Schedulers, pc[p] = "firing", call[p].pc = "failed",
               Moved(item[p].schedule, "pending", 1), s = item[p].schedule
        PROVE  schedules'[s].attempts <= Cardinality(FailuresFor(s)')
    <3>1. /\ item[p].attempts + 1 <= Cardinality(FailuresFor(s))
          /\ schedules'[s].attempts = item[p].attempts + 1
      BY <2>2, SettledTried DEF Moved
    <3>2. item[p].attempts \in Nat
      BY <1>0, <2>2 DEF SnapshotType
    <3> QED BY <1>4, <3>1, <3>2
  <2>3. ASSUME NEW p \in Schedulers, EngineStep(p)
        PROVE  \/ schedules'[s].attempts \in {0, schedules[s].attempts}
               \/ /\ pc[p] = "firing" /\ call[p].pc = "failed"
                  /\ Moved(item[p].schedule, "pending", 1) /\ s = item[p].schedule
    <3>1. ASSUME NEW x, NEW to, Moved(x, to, 0) PROVE schedules'[s].attempts = schedules[s].attempts
      BY <2>0, <3>1 DEF Moved
    <3>2. CASE Polls(p) \/ Marks(p)
      BY <3>1, <3>2 DEF Polls, Marks
    <3>3. CASE Settles(p)
      BY <3>1, <3>3 DEF Settles, Moved
    <3>4. CASE Plans(p)
      BY <1>0, <3>4 DEF Plans, NewSchedule
    <3> QED BY <1>0, <2>3, <3>2, <3>3, <3>4, EngineEffect
  <2>4. ~(\E p \in Schedulers : Crash(p))
    BY DEF Crash, OnlyKafkaFails
  <2>5. CASE Aside
    BY <2>1, <2>5 DEF Aside
  <2> QED BY <1>0, <2>1, <2>2, <2>3, <2>4, <2>5, StepEffect
<1>6. ASSUME NEW p \in Schedulers, pc[p] = "firing", item'[p] = item[p], call'[p] = call[p],
             \A s : FailuresFor(s)' = FailuresFor(s), QuietStep
      PROVE  TriedCall(p)'
  <2>1. /\ item[p] \in Held(p) /\ item[p].trigger \in TriggerIds
        /\ item[p].schedule \in ScheduleIds
    BY <1>0, <1>6 DEF Held, SnapshotType
  <2>2. triggers[item[p].trigger].status # "unused"
    BY <1>0, <2>1 DEF RowsInv, TriedInv, OwnedRows
  <2>3. TriggerExists(item[p].trigger)' => TriggerExists(item[p].trigger)
    <3>1. triggers[item[p].trigger].status \in {"unused", "active", "inactive", "deleted"}
      BY <1>0, <2>1, CronFacts DEF TriggerRow
    <3> QED BY <1>1, <1>6, <2>1, <2>2, <3>1 DEF TriggersLast, TriggerExists
  <2>4. TriedCall(p)
    BY <1>6 DEF TriedInv
  <2>5. FailuresFor(item[p].schedule)' = FailuresFor(item[p].schedule)
    BY <1>6
  <2>6. call[p].pc \in {"publish", "markfailed"} =>
            /\ eventLogs'[call[p].event].status = eventLogs[call[p].event].status
            /\ eventLogs'[call[p].event].schedule = eventLogs[call[p].event].schedule
    BY <1>0, <1>6, CallFacts DEF QuietStep, TypeInv, CallsOK
  <2> QED BY <1>6, <2>3, <2>4, <2>5, <2>6 DEF TriedCall
<1>7. ASSUME NEW p \in Schedulers, pc'[p] = "firing" PROVE TriedCall(p)'
  <2>1. CASE \E c \in Callers : EventStep(c)
    BY <1>7, <2>1, EventStepTried
  <2>2. CASE \A c \in Callers : ~EventStep(c)
    <3>1. QuietStep /\ \A s : FailuresFor(s)' = FailuresFor(s)
      BY <1>0, <1>2, <2>2, OthersQuiet
    <3>2. CASE \E q \in Schedulers : EngineStep(q)
      BY <1>0, <1>6, <1>7, <3>1, <3>2, EngineFires DEF TriedCall
    <3>3. CASE \A q \in Schedulers : ~EngineStep(q)
      BY <1>0, <1>6, <1>7, <2>2, <3>1, <3>3, OthersCall
    <3> QED BY <3>2, <3>3
  <2> QED BY <2>1, <2>2
<1> QED BY <1>1, <1>3, <1>5, <1>7 DEF TriedInv

\* Nothing has been tried before the first step.
LEMMA InitTried == Init => TriedInv
<1> SUFFICES ASSUME Init PROVE TriedInv
  OBVIOUS
<1>1. OwnedRows
  BY DEF Init, StorageInit, OwnedRows, ScheduleExists
<1>2. ASSUME NEW s \in ScheduleIds PROVE schedules[s].attempts <= Cardinality(FailuresFor(s))
  <2>1. schedules[s].attempts = 0 /\ FailuresFor(s) = {}
    BY DEF Init, StorageInit, FailuresFor, EventsFor
  <2> QED BY <2>1, FS_EmptySet
<1>3. \A p \in Schedulers : pc[p] # "firing"
  BY DEF Init, EngineInit
<1> QED BY <1>1, <1>2, <1>3 DEF TriedInv

\* What has been given up stays so until its row is changed.
KeepsTries == \A s \in ScheduleIds : GivenUp(s) /\ schedules'[s] = schedules[s] => GivenUp(s)'

\* That follows as no step removes a failure.
LEMMA TriesKept ==
    ASSUME CountInv, CountInv',
           \A s \in ScheduleIds : FailuresFor(s) \subseteq FailuresFor(s)'
    PROVE  KeepsTries
<1> SUFFICES ASSUME NEW s \in ScheduleIds, GivenUp(s), schedules'[s] = schedules[s]
             PROVE  GivenUp(s)'
  BY DEF KeepsTries
<1>1. Tried(s)
  BY EngineAssumption DEF Tried, GivenUp
<1>2. Tried(s)' /\ Cardinality(FailuresFor(s)') \in Nat
  BY <1>1, FailuresCounted
<1>3. Cardinality(FailuresFor(s)') <= MaxRetries
  <2>1. IsFiniteSet(EventsFor(s)') /\ Cardinality(EventsFor(s)') <= MaxRetries
    BY DEF CountInv
  <2>2. FailuresFor(s)' \subseteq EventsFor(s)'
    BY DEF FailuresFor
  <2>3. /\ Cardinality(EventsFor(s)') \in Nat
        /\ Cardinality(FailuresFor(s)') <= Cardinality(EventsFor(s)')
    BY <2>1, <2>2, FS_Subset, FS_CardinalityType
  <2> QED BY <1>2, <2>1, <2>3, EngineAssumption
<1> QED BY <1>2, <1>3, EngineAssumption DEF Tried, GivenUp

\* What the three invariants say together.
RetriesInv == AttemptsInv /\ OutageInv /\ TriedInv

\* Every step keeps them.
LEMMA NextRetries ==
    OneScheduler /\ OnlyKafkaFails /\ RetriesInv /\ [Next]_vars => RetriesInv' /\ KeepsTries
<1> SUFFICES ASSUME OneScheduler, OnlyKafkaFails, RetriesInv, [Next]_vars
             PROVE  RetriesInv' /\ KeepsTries
  OBVIOUS
<1>1. AttemptsInv /\ AttemptsInv' /\ OutageInv' /\ TriedInv /\ cancelled = {}
  BY NextAttempts, NextOutage DEF RetriesInv, OutageInv
<1>2. TriedInv' /\ \A s \in ScheduleIds : FailuresFor(s) \subseteq FailuresFor(s)'
  BY <1>1, NextTried
<1> QED BY <1>1, <1>2, TriesKept DEF RetriesInv, AttemptsInv

\* Nothing is given up early: whatever Kafka does, a schedule is cancelled only after as
\* many polls have fired it as the engine allows, and the log shows each of those failures.
THEOREM CancelledAfterAllTries ==
    ASSUME OneScheduler, OnlyKafkaFails, NoConfigUpdates
    PROVE  Spec => []CancelledWasTried
<1> DEFINE Inv == RetriesInv /\ RequestsInv /\ CancelledWasTried
<1>1. Init => Inv
  <2>1. Init => CancelledWasTried /\ RequestsInv
    BY DEF Init, StorageInit, RequestInit, NoRequest, CancelledWasTried, RequestsInv
  <2> QED BY <2>1, InitAttempts, InitOutage, InitTried DEF RetriesInv
<1>2. Inv /\ [Next]_vars => Inv'
  <2> SUFFICES ASSUME Inv, [Next]_vars PROVE Inv'
    OBVIOUS
  <2>1. RetriesInv' /\ KeepsTries
    BY NextRetries
  <2>2. /\ AttemptsInv /\ TriedInv /\ TypeInv /\ FiringInv /\ CountInv
        /\ schedules \in [ScheduleIds -> ScheduleRow]
        /\ \A p \in Schedulers : pc[p] # "ready" => item[p] \in SnapshotType
    BY CronFacts DEF RetriesInv, AttemptsInv, DeliveryInv
  <2>3. RequestsInv'
    BY <2>2, NextRequests
  <2>4. ASSUME NEW s \in ScheduleIds, schedules'[s].status = "cancelled" PROVE GivenUp(s)'
    <3>1. CASE schedules'[s] = schedules[s]
      BY <2>1, <2>4, <3>1 DEF KeepsTries, CancelledWasTried
    <3>2. CASE Creates \/ Deletes \/ UNCHANGED schedules
      <4>1. schedules'[s] = schedules[s]
        BY <2>2, <2>4, <3>2 DEF Creates, Deletes, NewSchedule, ScheduleRow
      <4> QED BY <3>1, <4>1
    <3>3. ASSUME NEW p \in Schedulers, EngineStep(p), schedules'[s] # schedules[s]
          PROVE  GivenUp(s)'
      <4>1. /\ pc[p] = "firing" /\ call[p].pc = "failed" /\ s = item[p].schedule
            /\ item[p].attempts + 1 >= MaxRetries /\ ScheduleExists(s)
        BY <2>2, <2>4, <3>3, EngineEffect DEF Polls, Marks, Settles, Plans, Moved, NewSchedule
      <4>2. Cardinality(FailuresFor(s)) = MaxRetries
        BY <2>2, <4>1, SettledTried
      <4>3. FailuresFor(s)' = FailuresFor(s)
        BY <2>2, <3>3, EngineStepQuiet, QuietFailures
      <4> QED BY <2>4, <4>2, <4>3 DEF GivenUp
    <3>4. ~(\E p \in Schedulers : Crash(p))
      BY DEF Crash, OnlyKafkaFails
    <3> QED BY <2>2, <3>1, <3>2, <3>3, <3>4, StepKinds
  <2> QED BY <2>1, <2>3, <2>4 DEF CancelledWasTried
<1>3. Inv => CancelledWasTried
  OBVIOUS
<1> QED BY <1>1, <1>2, <1>3, PTL DEF Spec

----------------------------------------------------------------------------
(* The chain.                                                              *)

\* The trigger has a next time.
Recurs(t) ==
    /\ TypeOf[t] = "cron_scheduled"
    /\ TriggerExists(t)
    /\ NextFireTime(triggers[t].config, now) # Null

\* No scheduler has read the row and goes on to settle it.
Free(s) == \A p \in Schedulers : \A row \in Held(p) : row.schedule # s

\* What the chain of a trigger hangs on: a run that is live, or one given up for good.
HasRun(t) == \E s \in SchedulesOf(t) : IsLive(s) \/ (GivenUp(s) /\ Free(s))

\* An update is about to insert a run, or the engine.
Inserting(t) ==
    \E r \in Requests : /\ req[r].pc = "schedule" /\ req[r].trigger = t
                        /\ req[r].fireAt # Null
Planning(t) ==
    \E p \in Schedulers : /\ pc[p] = "finish" /\ item[p].trigger = t
                          /\ item[p].config = triggers[t].config

\* A trigger that recurs has a run, or is about to get one.
ChainInv == \A t \in TriggerIds : Recurs(t) => HasRun(t) \/ Inserting(t) \/ Planning(t)

\* A scheduler that works from an old config is not the one to go on with the chain: the
\* update that changed the config has inserted a run that is in no batch, or will.
StaleInv ==
    \A p \in Schedulers : \A row \in Held(p) :
        Recurs(row.trigger) /\ row.config # triggers[row.trigger].config =>
            \/ Inserting(row.trigger)
            \/ \E s \in SchedulesOf(row.trigger) : schedules[s].status = "pending" /\ Free(s)

\* An update without a first run writes a config that does not match any more.
FirstRunInv ==
    \A r \in Requests :
        /\ req[r].pc \in {"write", "schedule"} /\ req[r].config # Null
        /\ TypeOf[req[r].trigger] = "cron_scheduled"
        /\ req[r].fireAt = Null
        => NextFireTime(req[r].config, now) = Null

\* The inductive invariant.
CronInv == RetriesInv /\ FirstRunInv /\ ChainInv /\ StaleInv

\* The triggers stay what they are, but for active and inactive.
KeepsConfigs ==
    \A t \in TriggerIds : /\ triggers'[t].config = triggers[t].config
                          /\ TriggerExists(t)' <=> TriggerExists(t)

\* A run that is neither changed nor read is there after the step.
LEMMA HasRunStays ==
    ASSUME NEW t, HasRun(t), KeepsTries,
           \A p \in Schedulers : Held(p)' \subseteq Held(p),
           \A s \in SchedulesOf(t) : IsLive(s) \/ schedules[s].status = "cancelled" =>
               schedules'[s] = schedules[s]
    PROVE  HasRun(t)'
<1>1. PICK s \in SchedulesOf(t) : IsLive(s) \/ (GivenUp(s) /\ Free(s))
  BY DEF HasRun
<1>2. schedules'[s] = schedules[s]
  BY <1>1 DEF GivenUp
<1>3. s \in SchedulesOf(t)' /\ (IsLive(s)' \/ (GivenUp(s) /\ Free(s))')
  BY <1>1, <1>2 DEF SchedulesOf, IsLive, KeepsTries, Free
<1> QED BY <1>3 DEF HasRun

\* What the steps of the engine do when the database answers: nothing is completed
\* without going on to the next run, and the next run is inserted if there is one.
LEMMA EngineReliable ==
    ASSUME OnlyKafkaFails, AttemptsInv, cancelled = {}, NEW p \in Schedulers, EngineStep(p)
    PROVE  /\ UNCHANGED <<now, req>> /\ KeepsConfigs
           /\ call[p].pc = "ok" /\ pc[p] = "firing" /\ pc'[p] = "ready" => UNCHANGED schedules
           /\ pc[p] = "finish" /\ Recurs(item[p].trigger)
              /\ NextFireTime(item[p].config, now) # Null =>
                 \E s \in ScheduleIds, at \in Nat :
                    /\ schedules[s].status = "unused"
                    /\ schedules' = [schedules EXCEPT ![s] = NewSchedule(item[p].trigger, at)]
<1>0. /\ triggers \in [TriggerIds -> TriggerRow] /\ schedules \in [ScheduleIds -> ScheduleRow]
      /\ now \in Nat
      /\ pc[p] # "ready" => item[p] \in SnapshotType
      /\ pc \in [Schedulers -> {"ready", "firing", "finish"}]
  BY CronFacts, CallFacts
<1>1. ~Refused(p, FALSE) /\ \A ok \in BOOLEAN : Runs(p, ok) => ok
  BY DEF Refused, Runs, OnlyKafkaFails
<1>2. UNCHANGED <<now, req>>
  BY DEF EngineStep, Poll, MarkProcessing, RetryLater, CancelAfterMaxRetries, Complete,
         DeactivateOneTime, ScheduleNextRun, storageVars, apiVars
<1>3. KeepsConfigs
  <2>1. CASE UNCHANGED triggers
    BY <2>1 DEF KeepsConfigs, TriggerExists
  <2>2. CASE DeactivateOneTime(p)
    <3>1. \/ UNCHANGED triggers
          \/ /\ TriggerExists(item[p].trigger)
             /\ triggers' = [triggers EXCEPT ![item[p].trigger].status = "inactive"]
      BY <2>2 DEF DeactivateOneTime, DeactivateTrigger
    <3>2. PICK t : \/ UNCHANGED triggers
                   \/ /\ TriggerExists(t)
                      /\ triggers' = [triggers EXCEPT ![t].status = "inactive"]
      BY <3>1
    <3> QED BY <1>0, <2>1, <3>2 DEF KeepsConfigs, TriggerExists, TriggerRow
  <2> QED BY <2>1, <2>2
      DEF EngineStep, Poll, MarkProcessing, RetryLater, CancelAfterMaxRetries, Complete,
          ScheduleNextRun, storageVars
<1>4. ASSUME call[p].pc = "ok", pc[p] = "firing", pc'[p] = "ready" PROVE UNCHANGED schedules
  <2>1. Complete(p)
    BY <1>4 DEF EngineStep, Poll, MarkProcessing, RetryLater, CancelAfterMaxRetries,
                FireFailed, DeactivateOneTime, ScheduleNextRun
  <2>2. PICK ok \in BOOLEAN :
           /\ UpdateScheduleStatus(p, item[p].schedule, "completed", ok)
           /\ ok => pc' = [pc EXCEPT ![p] = "finish"]
    BY <2>1 DEF Complete
  <2>3. ~ok
    BY <1>0, <1>4, <2>2
  <2> QED BY <1>1, <2>2, <2>3 DEF UpdateScheduleStatus
<1>5. ASSUME pc[p] = "finish", Recurs(item[p].trigger), NextFireTime(item[p].config, now) # Null
      PROVE  \E s \in ScheduleIds, at \in Nat :
                /\ schedules[s].status = "unused"
                /\ schedules' = [schedules EXCEPT ![s] = NewSchedule(item[p].trigger, at)]
  <2>1. ScheduleNextRun(p)
    BY <1>5 DEF EngineStep, Poll, MarkProcessing, RetryLater, CancelAfterMaxRetries, Complete,
                FireFailed, DeactivateOneTime, Recurs
  <2> DEFINE at == NextFireTime(item[p].config, now)
  <2>2. PICK s \in Fresh(schedules) :
           schedules' = [schedules EXCEPT ![s] = NewSchedule(item[p].trigger, at)]
    BY <1>1, <1>5, <2>1 DEF ScheduleNextRun, CreateNextSchedule, Recurs
  <2>3. s \in ScheduleIds /\ schedules[s].status = "unused"
    BY <1>0, FreshId
  <2>4. at \in Nat
    <3>1. item[p].config \in ConfigType
      BY <1>0, <1>5 DEF SnapshotType, ConfigType
    <3> QED BY <1>0, <1>5, <3>1, NextFireTimeType
  <2> QED BY <2>2, <2>3, <2>4
<1> QED BY <1>2, <1>3, <1>4, <1>5
\* The one scheduler plans the next run from the config it has read, if that is still the
\* trigger's; otherwise the update that changed it has left a run.
LEMMA EngineChain ==
    ASSUME OneScheduler, OnlyKafkaFails, AttemptsInv, AttemptsInv', TriedInv, KeepsTries,
           cancelled = {}, ChainInv, StaleInv, NEW p \in Schedulers, EngineStep(p)
    PROVE  ChainInv' /\ StaleInv'
<1>0. /\ triggers \in [TriggerIds -> TriggerRow] /\ schedules \in [ScheduleIds -> ScheduleRow]
      /\ now \in Nat /\ TypeInv /\ RowsInv /\ UnusedInv /\ CountInv
      /\ Null \notin TriggerIds
      /\ \A row \in Held(p) : /\ row \in SnapshotType
                              /\ row.schedule \in ScheduleIds /\ row.trigger \in TriggerIds
                              /\ schedules[row.schedule].trigger = row.trigger
      /\ pc[p] # "ready" => item[p].trigger \in TriggerIds
      /\ batch[p] \subseteq Held(p)
      /\ pc[p] = "firing" => item[p] \in Held(p)
      /\ \A q \in Schedulers : q = p
  BY CronFacts DEF RowsInv, SnapshotType, OneScheduler, Held
<1>1. /\ UNCHANGED <<now, req>> /\ KeepsConfigs
      /\ Polls(p) \/ Marks(p) \/ Settles(p) \/ Plans(p)
  BY <1>0, EngineReliable, EngineEffect
<1>2. \A t \in TriggerIds : /\ Recurs(t)' => Recurs(t)
                            /\ triggers'[t].config = triggers[t].config
                            /\ Inserting(t) => Inserting(t)'
  BY <1>1 DEF KeepsConfigs, Recurs, Inserting
<1>3. ASSUME \A t \in TriggerIds : Recurs(t) /\ (HasRun(t) \/ Planning(t)) =>
                 HasRun(t)' \/ Inserting(t)' \/ Planning(t)'
      PROVE  ChainInv'
  BY <1>2, <1>3 DEF ChainInv
<1>4. ASSUME Held(p)' \subseteq Held(p),
             \A s \in ScheduleIds : schedules[s].status = "pending" /\ Free(s) =>
                 schedules'[s] = schedules[s]
      PROVE  StaleInv'
  <2> SUFFICES ASSUME NEW row \in Held(p),
                      Recurs(row.trigger)', row.config # triggers'[row.trigger].config
               PROVE  \/ Inserting(row.trigger)'
                      \/ \E s \in SchedulesOf(row.trigger)' :
                            schedules'[s].status = "pending" /\ Free(s)'
    BY <1>0, <1>4 DEF StaleInv
  <2>1. Recurs(row.trigger) /\ row.config # triggers[row.trigger].config
    BY <1>0, <1>2
  <2>2. CASE Inserting(row.trigger)
    BY <1>0, <1>2, <2>2
  <2>3. ASSUME NEW s \in SchedulesOf(row.trigger), schedules[s].status = "pending", Free(s)
        PROVE  s \in SchedulesOf(row.trigger)' /\ schedules'[s].status = "pending" /\ Free(s)'
    BY <1>0, <1>4, <2>3 DEF SchedulesOf, Free
  <2> QED BY <2>1, <2>2, <2>3 DEF StaleInv
<1>5. CASE Polls(p)
  <2>1. PICK rows \in SUBSET DueRows : batch'[p] = {Snapshot(s) : s \in rows}
    BY <1>5 DEF Polls
  <2>2. /\ UNCHANGED <<schedules, pc, item>> /\ pc[p] = "ready"
        /\ Held(p)' = {Snapshot(s) : s \in rows}
    BY <1>5, <2>1 DEF Polls, Held
  <2>3. \A s \in rows : schedules[s].status = "pending"
    BY DEF DueRows
  <2>4. ASSUME NEW t, HasRun(t) PROVE HasRun(t)'
    <3>1. PICK s \in SchedulesOf(t) : IsLive(s) \/ (GivenUp(s) /\ Free(s))
      BY <2>4 DEF HasRun
    <3>2. GivenUp(s) => Free(s)'
      BY <1>0, <2>2, <2>3 DEF Free, Snapshot, GivenUp
    <3>3. s \in SchedulesOf(t)' /\ (IsLive(s)' \/ (GivenUp(s) /\ Free(s))')
      BY <2>2, <3>1, <3>2 DEF SchedulesOf, IsLive, KeepsTries
    <3> QED BY <3>3 DEF HasRun
  <2>5. StaleInv'
    <3>1. ASSUME NEW row \in Held(p)' PROVE row.config = triggers'[row.trigger].config
      <4>1. PICK s \in rows : row = Snapshot(s)
        BY <2>2, <3>1
      <4>2. s \in ScheduleIds /\ schedules[s].trigger \in TriggerIds
        BY <1>0, <2>3 DEF DueRows, TypeInv, StorageOK, SchedulesOK
      <4> QED BY <1>2, <4>1, <4>2 DEF Snapshot
    <3> QED BY <1>0, <3>1 DEF StaleInv
  <2> QED BY <1>0, <1>3, <2>2, <2>4, <2>5 DEF Planning
<1>6. CASE Marks(p)
  <2>1. PICK row \in batch[p] :
           /\ batch'[p] = batch[p] \ {row}
           /\ \/ Moved(row.schedule, "processing", 0) /\ pc'[p] = "firing" /\ item'[p] = row
              \/ /\ UNCHANGED schedules \/ Moved(row.schedule, "processing", 0)
                 /\ pc'[p] = pc[p]
    BY <1>6 DEF Marks
  <2>2. row \in Held(p) /\ pc[p] = "ready" /\ Held(p)' \subseteq Held(p)
    BY <1>0, <1>6, <2>1 DEF Marks, Held
  <2>3. ASSUME NEW s \in ScheduleIds, s # row.schedule PROVE schedules'[s] = schedules[s]
    BY <2>1, <2>3 DEF Moved
  <2>4. StaleInv'
    BY <1>4, <2>2, <2>3 DEF Free
  <2>5. ASSUME NEW t \in TriggerIds, HasRun(t) PROVE HasRun(t)'
    <3>1. PICK s \in SchedulesOf(t) : IsLive(s) \/ (GivenUp(s) /\ Free(s))
      BY <2>5 DEF HasRun
    <3>2. CASE schedules'[s] = schedules[s]
      BY <1>0, <2>2, <3>1, <3>2 DEF HasRun, SchedulesOf, IsLive, KeepsTries, Free
    <3>3. CASE s = row.schedule /\ Moved(s, "processing", 0)
      BY <3>1, <3>3 DEF Moved, HasRun, SchedulesOf, IsLive
    <3> QED BY <2>1, <2>3, <3>1, <3>2, <3>3 DEF SchedulesOf
  <2> QED BY <1>0, <1>3, <2>2, <2>4, <2>5 DEF Planning
<1>7. CASE Settles(p)
  <2>0. pc[p] = "firing" /\ item[p] \in Held(p)
    BY <1>0, <1>7 DEF Settles
  <2> PICK x \in ScheduleIds, u \in TriggerIds : x = item[p].schedule /\ u = item[p].trigger
    BY <1>0, <2>0
  <2>1. /\ pc[p] = "firing" /\ item[p] \in Held(p)
        /\ pc'[p] \in {"ready", "finish"} /\ Held(p)' = batch[p]
        /\ schedules[x].trigger = u
        /\ schedules[x].attempts = item[p].attempts /\ item[p].attempts \in Nat
        /\ \A row \in batch[p] : row.schedule # x
    BY <1>0, <1>7, <2>0 DEF Settles, Held, RowsInv, SnapshotType
  <2>2. CASE UNCHANGED schedules /\ pc'[p] = "ready"
    <3>1. StaleInv'
      BY <1>0, <1>4, <2>1, <2>2
    <3>2. \A t \in TriggerIds : HasRun(t) => HasRun(t)'
      BY <1>0, <2>1, <2>2, HasRunStays DEF SchedulesOf
    <3> QED BY <1>0, <1>3, <2>1, <3>1, <3>2 DEF Planning
  <2>3. ASSUME NEW to, NEW n, Moved(x, to, n) PROVE StaleInv'
    <3>1. \A s \in ScheduleIds : Free(s) => schedules'[s] = schedules[s]
      BY <2>1, <2>3 DEF Moved, Free
    <3> QED BY <1>0, <1>4, <2>1, <3>1
  <2>4. ASSUME NEW to, NEW n, Moved(x, to, n), NEW t \in TriggerIds,
               HasRun(t), ~(HasRun(t)')
        PROVE  t = u /\ IsLive(x)
    <3>1. PICK s \in SchedulesOf(t) : IsLive(s) \/ (GivenUp(s) /\ Free(s))
      BY <2>4 DEF HasRun
    <3>2. CASE s # x
      <4>1. schedules'[s] = schedules[s]
        BY <2>4, <3>2 DEF Moved, SchedulesOf
      <4> QED BY <1>0, <2>1, <2>4, <3>1, <4>1
              DEF HasRun, SchedulesOf, IsLive, KeepsTries, Free
    <3>3. CASE s = x
      BY <2>1, <3>1, <3>3 DEF SchedulesOf, Free
    <3> QED BY <3>2, <3>3
  <2>5. CASE Moved(x, "pending", 1) /\ pc'[p] = "ready"
    <3>1. x \in SchedulesOf(u)' /\ IsLive(x)'
      BY <2>1, <2>5 DEF Moved, SchedulesOf, IsLive
    <3>2. \A t \in TriggerIds : HasRun(t) => HasRun(t)'
      BY <2>4, <2>5, <3>1 DEF HasRun
    <3> QED BY <1>0, <1>3, <2>1, <2>3, <2>5, <3>2 DEF Planning
  <2>6. CASE /\ Moved(x, "cancelled", 0) /\ pc'[p] = "ready"
             /\ call[p].pc = "failed" /\ item[p].attempts + 1 >= MaxRetries
    <3>1. GivenUp(x)'
      <4>1. Cardinality(FailuresFor(x)) = MaxRetries
        BY <1>0, <2>1, <2>6, SettledTried DEF Moved
      <4>2. FailuresFor(x)' = FailuresFor(x)
        BY <1>0, EngineStepQuiet, QuietFailures DEF AttemptsInv, DeliveryInv
      <4> QED BY <2>6, <4>1, <4>2 DEF Moved, GivenUp
    <3>3. x \in SchedulesOf(u)' /\ GivenUp(x)' /\ Free(x)'
      BY <1>0, <2>1, <2>6, <3>1 DEF Moved, SchedulesOf, Free
    <3>4. \A t \in TriggerIds : HasRun(t) => HasRun(t)'
      BY <2>4, <2>6, <3>3 DEF HasRun
    <3> QED BY <1>0, <1>3, <2>1, <2>3, <2>6, <3>4 DEF Planning
  <2>7. CASE Moved(x, "completed", 0) /\ pc'[p] = "finish" /\ item'[p] = item[p]
    <3>1. ASSUME NEW t \in TriggerIds, Recurs(t), HasRun(t)
          PROVE  HasRun(t)' \/ Inserting(t)' \/ Planning(t)'
      <4>1. CASE HasRun(t)'
        BY <4>1
      <4>2. CASE t = u /\ item[p].config = triggers[t].config
        BY <1>2, <2>7, <4>2 DEF Planning
      <4>3. CASE t = u /\ item[p].config # triggers[t].config
        <5>1. \/ Inserting(t)
              \/ \E s \in SchedulesOf(t) : schedules[s].status = "pending" /\ Free(s)
          BY <2>1, <3>1, <4>3 DEF StaleInv
        <5>2. ASSUME NEW s \in SchedulesOf(t), schedules[s].status = "pending", Free(s)
              PROVE  HasRun(t)'
          <6>1. s # x /\ s \in ScheduleIds
            BY <2>1, <5>2 DEF Free, SchedulesOf
          <6>2. schedules'[s] = schedules[s]
            BY <2>7, <6>1 DEF Moved
          <6> QED BY <5>2, <6>2 DEF HasRun, SchedulesOf, IsLive
        <5> QED BY <1>2, <5>1, <5>2
      <4> QED BY <2>4, <2>7, <3>1, <4>1, <4>2, <4>3
    <3> QED BY <1>0, <1>3, <2>1, <2>3, <2>7, <3>1 DEF Planning
  <2>8. call[p].pc = "ok" /\ pc'[p] = "ready" => UNCHANGED schedules
    BY <2>1, EngineReliable
  <2> QED BY <1>7, <2>2, <2>5, <2>6, <2>7, <2>8 DEF Settles
<1>8. CASE Plans(p)
  <2>1. pc[p] = "finish" /\ pc'[p] = "ready" /\ Held(p)' = Held(p)
    BY <1>8 DEF Plans, Held
  <2>2. \A s \in ScheduleIds : schedules[s].status # "unused" => schedules'[s] = schedules[s]
    BY <1>0, <1>8 DEF Plans
  <2>3. StaleInv'
    BY <1>4, <2>1, <2>2
  <2>4. ASSUME NEW t \in TriggerIds, HasRun(t) PROVE HasRun(t)'
    BY <1>0, <2>1, <2>2, <2>4, HasRunStays DEF SchedulesOf, IsLive
  <2>5. ASSUME NEW t \in TriggerIds, Recurs(t), Planning(t) PROVE HasRun(t)'
    <3>1. item[p].trigger = t /\ item[p].config = triggers[t].config
      BY <1>0, <2>5 DEF Planning
    <3>2. PICK s \in ScheduleIds, at \in Nat :
             schedules' = [schedules EXCEPT ![s] = NewSchedule(t, at)]
      BY <2>1, <2>5, <3>1, EngineReliable DEF Recurs
    <3>3. schedules'[s].trigger = t /\ schedules'[s].status = "pending"
      BY <1>0, <3>2 DEF NewSchedule
    <3> QED BY <3>3 DEF HasRun, SchedulesOf, IsLive
  <2> QED BY <1>3, <2>3, <2>4, <2>5
<1> QED BY <1>1, <1>5, <1>6, <1>7, <1>8
----------------------------------------------------------------------------
(* The other steps, trigger by trigger.                                    *)

\* ChainInv and StaleInv for one trigger.
ChainOf(t) == Recurs(t) => HasRun(t) \/ Inserting(t) \/ Planning(t)

StaleOf(t) ==
    \A p \in Schedulers : \A row \in Held(p) :
        row.trigger = t /\ Recurs(t) /\ row.config # triggers[t].config =>
            \/ Inserting(t)
            \/ \E s \in SchedulesOf(t) : schedules[s].status = "pending" /\ Free(s)

\* The two invariants say the same of each trigger.
LEMMA ChainByTrigger ==
    ASSUME TypeInv
    PROVE  (\A t \in TriggerIds : ChainOf(t) /\ StaleOf(t)) <=> ChainInv /\ StaleInv
<1>1. \A p \in Schedulers : \A row \in Held(p) : row.trigger \in TriggerIds
  BY RowFacts, CallFacts DEF Held, SnapshotType
<1> QED BY <1>1 DEF ChainInv, StaleInv, ChainOf, StaleOf

\* Nobody has read a row that is not there yet.
LEMMA UnusedFree ==
    ASSUME RowsInv, NEW s \in ScheduleIds, schedules[s].status = "unused"
    PROVE  Free(s)
BY DEF RowsInv, Free

\* A step that leaves the trigger's config and its rows alone.
LEMMA ChainStays ==
    ASSUME NEW t, ChainOf(t), StaleOf(t), KeepsTries, UNCHANGED <<pc, batch, item>>,
           Recurs(t)' => Recurs(t) /\ triggers'[t].config = triggers[t].config,
           \A s \in SchedulesOf(t) : IsLive(s) \/ schedules[s].status = "cancelled" =>
               schedules'[s] = schedules[s],
           Inserting(t) => Inserting(t)'
    PROVE  ChainOf(t)' /\ StaleOf(t)'
<1>1. \A p \in Schedulers : Held(p)' = Held(p)
  BY DEF Held
<1>2. ASSUME Recurs(t)' PROVE HasRun(t)' \/ Inserting(t)' \/ Planning(t)'
  <2>1. HasRun(t) \/ Inserting(t) \/ Planning(t)
    BY <1>2 DEF ChainOf
  <2>2. HasRun(t) => HasRun(t)'
    BY <1>1, HasRunStays
  <2>3. Planning(t) => Planning(t)'
    BY <1>2 DEF Planning
  <2> QED BY <2>1, <2>2, <2>3
<1>3. ASSUME NEW p \in Schedulers, NEW row \in Held(p), row.trigger = t,
             Recurs(t)', row.config # triggers'[t].config
      PROVE  \/ Inserting(t)'
             \/ \E s \in SchedulesOf(t)' : schedules'[s].status = "pending" /\ Free(s)'
  <2>1. \/ Inserting(t)
        \/ \E s \in SchedulesOf(t) : schedules[s].status = "pending" /\ Free(s)
    BY <1>3 DEF StaleOf
  <2>2. ASSUME NEW s \in SchedulesOf(t), schedules[s].status = "pending", Free(s)
        PROVE  s \in SchedulesOf(t)' /\ schedules'[s].status = "pending" /\ Free(s)'
    BY <1>1, <2>2 DEF SchedulesOf, IsLive, Free
  <2> QED BY <2>1, <2>2
<1> QED BY <1>1, <1>2, <1>3 DEF ChainOf, StaleOf

\* A step that inserts a run for it.
LEMMA ChainInserted ==
    ASSUME NEW t, NEW s \in ScheduleIds, Free(s), UNCHANGED <<pc, batch, item>>,
           schedules'[s].trigger = t, schedules'[s].status = "pending"
    PROVE  ChainOf(t)' /\ StaleOf(t)'
<1>1. s \in SchedulesOf(t)' /\ IsLive(s)' /\ Free(s)'
  BY DEF SchedulesOf, IsLive, Free, Held
<1> QED BY <1>1 DEF ChainOf, StaleOf, HasRun

\* A step after which it has no next time, or an update is about to insert a run for it.
LEMMA ChainExcused ==
    ASSUME NEW t, ~(Recurs(t)') \/ Inserting(t)'
    PROVE  ChainOf(t)' /\ StaleOf(t)'
BY DEF ChainOf, StaleOf

\* What holds of each trigger after a step that is not the engine's.
LEMMA ChainAfter ==
    ASSUME TypeInv, UNCHANGED <<pc, batch, item>>,
           \A t \in TriggerIds : ChainOf(t)' /\ StaleOf(t)'
    PROVE  ChainInv' /\ StaleInv'
<1>1. \A p \in Schedulers : \A row \in Held(p) : row.trigger \in TriggerIds
  BY RowFacts, CallFacts DEF Held, SnapshotType
<1> QED BY <1>1 DEF ChainInv, StaleInv, ChainOf, StaleOf, Held

\* The clock, the webhooks and a graceful shutdown of the API.
LEMMA OtherChain ==
    ASSUME AttemptsInv, FirstRunInv, ChainInv, StaleInv, KeepsTries, RequestsOK,
           UNCHANGED <<triggers, schedules, pc, batch, item, req>>,
           now' \in Nat, now <= now'
    PROVE  FirstRunInv' /\ ChainInv' /\ StaleInv'
<1>0. now \in Nat /\ TypeInv /\ triggers \in [TriggerIds -> TriggerRow]
  BY CronFacts
<1>1. \A config \in ConfigType :
         NextFireTime(config, now') # Null => NextFireTime(config, now) # Null
  BY <1>0, NextFireTimeStops
<1>2. FirstRunInv'
  <2>1. \A r \in Requests : req[r].config # Null => req[r].config \in ConfigType
    BY DEF RequestsOK, RequestTypeOK, RequestType, ConfigType
  <2> QED BY <1>1, <2>1 DEF FirstRunInv
<1>3. ASSUME NEW t \in TriggerIds PROVE ChainOf(t)' /\ StaleOf(t)'
  <2>1. triggers[t].config \in ConfigType
    BY <1>0 DEF TriggerRow, ConfigType
  <2>2. Recurs(t)' => Recurs(t)
    BY <1>1, <2>1 DEF Recurs, TriggerExists
  <2>3. Inserting(t)' <=> Inserting(t)
    BY DEF Inserting
  <2> QED BY <1>0, <2>2, <2>3, ChainByTrigger, ChainStays
<1> QED BY <1>0, <1>2, <1>3, ChainAfter
\* What clients do, and the statements of their requests.
LEMMA ClientChain ==
    ASSUME OnlyKafkaFails, AttemptsInv, cancelled = {}, FirstRunInv, ChainInv, StaleInv,
           KeepsTries, NEW r \in Requests, ClientStep(r) \/ UpdateStep(r)
    PROVE  FirstRunInv' /\ ChainInv' /\ StaleInv'
<1>0. /\ triggers \in [TriggerIds -> TriggerRow] /\ schedules \in [ScheduleIds -> ScheduleRow]
      /\ req \in [Requests -> RequestType]
      /\ now \in Nat /\ TypeInv /\ RowsInv /\ UnusedInv
      /\ Null \notin TriggerIds
      /\ req[r].pc \notin Done => req[r].trigger \in TriggerIds
  BY CronFacts DEF TypeInv, RequestsOK, RequestTypeOK
<1>1. UNCHANGED <<now, pc, batch, item>>
  BY DEF ClientStep, UpdateStep, Create, Delete, BeginUpdate, Disconnect, WriteTrigger,
         WriteSchedule, Respond, storageVars, engineVars
<1>2. /\ ~Refused(r, FALSE) /\ "disconnect" \notin Faults
      /\ \A ok \in BOOLEAN : ~Refused(r, ok) /\ (Runs(r, ok) => ok)
  BY DEF Refused, Runs, OnlyKafkaFails
<1>3. \A t \in TriggerIds : ChainOf(t) /\ StaleOf(t)
  BY <1>0, ChainByTrigger
<1>4. \A q \in Requests \ {r} : req'[q] = req[q]
  BY <1>0 DEF ClientStep, UpdateStep, Create, Delete, BeginUpdate, Disconnect, WriteTrigger,
              WriteSchedule, Respond, Finish, Continue
<1>5. ASSUME NEW t \in TriggerIds, req[r].pc # "schedule" \/ req[r].trigger # t, Inserting(t)
      PROVE  Inserting(t)'
  BY <1>4, <1>5 DEF Inserting
<1>6. ASSUME NEW to, to \notin {"write", "schedule"},
             req' = [req EXCEPT ![r] = [NoRequest EXCEPT !.pc = to]] \/ req' = [req EXCEPT ![r].pc = to]
      PROVE  FirstRunInv'
  <2>1. req'[r].pc \notin {"write", "schedule"}
    BY <1>0, <1>6 DEF NoRequest, RequestType
  <2> QED BY <1>1, <1>4, <2>1 DEF FirstRunInv
<1>6a. ASSUME NEW to \in Done, Finish(r, to) PROVE FirstRunInv'
  BY <1>6, <1>6a DEF Finish, Done
<1>7. CASE Create(r)
  <2>1. PICK t \in Fresh(triggers), config \in Configs :
           /\ Accepted(t, config)
           /\ CreateTrigger(r, t, config, FirstRun(t, config))
    BY <1>7 DEF Create
  <2>2. /\ t \in TriggerIds /\ triggers[t].status = "unused"
        /\ \A u \in TriggerIds \ {t} : triggers'[u] = triggers[u]
    BY <1>0, <2>1, FreshId DEF CreateTrigger
  <2>3. req[r].pc \in Done /\ FirstRunInv'
    BY <1>6a, <1>7 DEF Create, Done
  <2>4. \A s \in ScheduleIds : schedules[s].status # "unused" => schedules'[s] = schedules[s]
    BY <1>0, <2>1 DEF CreateTrigger, Fresh
  <2>5. ASSUME NEW u \in TriggerIds PROVE ChainOf(u)' /\ StaleOf(u)'
    <3>1. CASE u # t
      <4>1. Recurs(u)' => Recurs(u) /\ triggers'[u].config = triggers[u].config
        BY <1>1, <2>2, <3>1 DEF Recurs, TriggerExists
      <4> QED BY <1>1, <1>3, <1>5, <2>3, <2>4, <4>1, ChainStays DEF SchedulesOf, IsLive, Done
    <3>2. CASE u = t /\ TypeOf[t] = "cron_scheduled"
      <4>1. PICK s \in Fresh(schedules) :
               schedules' = [schedules EXCEPT ![s] = NewSchedule(t, FirstRun(t, config))]
        BY <2>1, <3>2 DEF CreateTrigger
      <4>2. s \in ScheduleIds /\ schedules[s].status = "unused"
        BY <1>0, FreshId
      <4>3. schedules'[s].trigger = t /\ schedules'[s].status = "pending"
        BY <1>0, <4>1, <4>2 DEF NewSchedule
      <4>4. Free(s)
        BY <1>0, <4>2, UnusedFree
      <4> QED BY <1>1, <3>2, <4>2, <4>3, <4>4, ChainInserted
    <3>3. CASE u = t /\ TypeOf[t] # "cron_scheduled"
      BY <3>3, ChainExcused DEF Recurs
    <3> QED BY <3>1, <3>2, <3>3
  <2> QED BY <1>0, <1>1, <2>3, <2>5, ChainAfter
<1>8. CASE Delete(r)
  <2>1. PICK t \in TriggerIds : DeleteTrigger(r, t)
    BY <1>8 DEF Delete
  <2>2. req[r].pc \in Done /\ FirstRunInv'
    BY <1>6a, <1>8 DEF Delete, Done
  <2>3. ASSUME NEW u \in TriggerIds PROVE ChainOf(u)' /\ StaleOf(u)'
    <3>1. CASE u = t
      <4>1. triggers'[t].status = "deleted"
        BY <1>0, <2>1 DEF DeleteTrigger, TriggerRow
      <4> QED BY <3>1, <4>1, ChainExcused DEF Recurs, TriggerExists
    <3>2. CASE u # t
      <4>1. triggers'[u] = triggers[u] /\ \A s \in SchedulesOf(u) : schedules'[s] = schedules[s]
        BY <1>0, <2>1, <3>2 DEF DeleteTrigger, SchedulesOf
      <4>2. Recurs(u)' => Recurs(u)
        BY <1>1, <4>1 DEF Recurs, TriggerExists
      <4> QED BY <1>1, <1>3, <1>5, <2>2, <4>1, <4>2, ChainStays DEF Done
    <3> QED BY <3>1, <3>2
  <2> QED BY <1>0, <1>1, <2>2, <2>3, ChainAfter
<1>9. ASSUME UNCHANGED <<triggers, schedules>>, req[r].pc # "schedule"
      PROVE  ChainInv' /\ StaleInv'
  <2>1. ASSUME NEW u \in TriggerIds PROVE ChainOf(u)' /\ StaleOf(u)'
    <3>1. Recurs(u)' => Recurs(u)
      BY <1>1, <1>9 DEF Recurs, TriggerExists
    <3> QED BY <1>1, <1>3, <1>5, <1>9, <3>1, ChainStays
  <2> QED BY <1>0, <1>1, <2>1, ChainAfter
<1>10. CASE BeginUpdate(r)
  <2> DEFINE configs == {Null} \cup IF "config" \in Ops THEN Configs ELSE {}
  <2>1. PICK t \in TriggerIds, status \in {Null, "active", "inactive"}, config \in configs :
           req' = [req EXCEPT ![r] =
              [pc |-> "write", trigger |-> t, status |-> status, config |-> config,
               fireAt |-> IF config = Null THEN Null ELSE FirstRun(t, config)]]
    BY <1>10 DEF BeginUpdate
  <2>2. /\ req'[r].config = config /\ req'[r].trigger = t
        /\ req'[r].fireAt = IF config = Null THEN Null ELSE FirstRun(t, config)
    BY <1>0, <2>1
  <2>3. TypeOf[t] = "cron_scheduled" => FirstRun(t, config) = NextFireTime(config, now)
    BY DEF FirstRun
  <2>4. FirstRunInv'
    BY <1>1, <1>4, <2>2, <2>3 DEF FirstRunInv
  <2> QED BY <1>9, <1>10, <2>4 DEF BeginUpdate, Done, storageVars
<1>11. CASE Respond(r)
  <2>1. FirstRunInv'
    BY <1>6a, <1>11 DEF Respond, Done
  <2> QED BY <1>9, <1>11, <2>1 DEF Respond
<1>12. CASE WriteTrigger(r)
  <2>0. req[r].pc = "write" /\ req[r].trigger \in TriggerIds /\ UNCHANGED schedules
    BY <1>0, <1>12 DEF WriteTrigger, Done
  <2> PICK t \in TriggerIds : t = req[r].trigger
    BY <2>0
  <2>1. PICK result \in {"ok", "notfound", "error"} :
           /\ UpdateTrigger(r, t, req[r].status, req[r].config, result)
           /\ IF result = "ok"
              THEN Continue(r, IF Reschedules(r) THEN "schedule" ELSE "respond")
              ELSE Finish(r, result)
    BY <1>12 DEF WriteTrigger
  <2>2. CASE result # "ok"
    <3>1. UNCHANGED triggers
      BY <1>2, <2>1, <2>2 DEF UpdateTrigger
    <3>2. FirstRunInv'
      BY <1>6, <2>1, <2>2 DEF Finish
    <3> QED BY <1>9, <2>0, <3>1, <3>2
  <2>3. CASE result = "ok"
    <3> DEFINE row == [status |-> IF req[r].status = Null THEN triggers[t].status
                                                          ELSE req[r].status,
                       config |-> IF req[r].config = Null THEN triggers[t].config
                                                          ELSE req[r].config]
    <3>1. TriggerExists(t) /\ triggers' = [triggers EXCEPT ![t] = row]
      BY <2>1, <2>3 DEF UpdateTrigger
    <3>2. /\ triggers'[t].config = IF req[r].config = Null THEN triggers[t].config
                                                           ELSE req[r].config
          /\ \A u \in TriggerIds \ {t} : triggers'[u] = triggers[u]
      BY <1>0, <3>1
    <3>3. req' = [req EXCEPT ![r].pc = IF Reschedules(r) THEN "schedule" ELSE "respond"]
      BY <2>1, <2>3 DEF Continue
    <3>4. /\ req'[r].pc = IF Reschedules(r) THEN "schedule" ELSE "respond"
          /\ req'[r].trigger = t /\ req'[r].config = req[r].config
          /\ req'[r].fireAt = req[r].fireAt
      BY <1>0, <3>3 DEF RequestType
    <3>5. FirstRunInv'
      BY <1>1, <1>4, <2>0, <3>4 DEF FirstRunInv
    <3>6. ASSUME NEW u \in TriggerIds PROVE ChainOf(u)' /\ StaleOf(u)'
      <4>1. CASE u # t \/ req[r].config = Null
        <5>1. triggers'[u].config = triggers[u].config /\ (TriggerExists(u)' => TriggerExists(u))
          BY <3>1, <3>2, <4>1 DEF TriggerExists
        <5> QED BY <1>1, <1>3, <1>5, <2>0, <5>1, ChainStays DEF Recurs
      <4>2. CASE u = t /\ req[r].config # Null
        <5>1. CASE req[r].fireAt = Null
          <6>1. Recurs(t)' => NextFireTime(req[r].config, now) = Null
            BY <2>0, <4>2, <5>1 DEF FirstRunInv, Recurs
          <6> QED BY <1>1, <3>2, <4>2, <6>1, ChainExcused DEF Recurs
        <5>2. CASE req[r].fireAt # Null
          <6>1. Recurs(t)' => Inserting(t)'
            BY <3>4, <4>2, <5>2 DEF Recurs, Reschedules, Inserting
          <6> QED BY <4>2, <6>1, ChainExcused
        <5> QED BY <5>1, <5>2
      <4> QED BY <4>1, <4>2
    <3> QED BY <1>0, <1>1, <3>5, <3>6, ChainAfter
  <2> QED BY <2>2, <2>3
<1>13. CASE WriteSchedule(r)
  <2>0. req[r].pc = "schedule" /\ req[r].trigger \in TriggerIds /\ UNCHANGED triggers
    BY <1>0, <1>13 DEF WriteSchedule, Done
  <2> PICK t \in TriggerIds : t = req[r].trigger
    BY <2>0
  <2>1. PICK ok \in BOOLEAN :
           /\ UpsertTriggerSchedule(r, t, req[r].fireAt, ok)
           /\ IF ok THEN Continue(r, "respond") ELSE Finish(r, "error")
    BY <1>13 DEF WriteSchedule
  <2>2. FirstRunInv'
    BY <1>6, <2>1 DEF Continue, Finish
  <2>3. \A u \in TriggerIds : Recurs(u)' <=> Recurs(u)
    BY <1>1, <2>0 DEF Recurs, TriggerExists
  <2>4. CASE ~ok
    <3>1. UNCHANGED schedules /\ (~TriggerExists(t) \/ req[r].fireAt = Null)
      BY <1>2, <2>1, <2>4 DEF UpsertTriggerSchedule
    <3>2. ASSUME NEW u \in TriggerIds PROVE ChainOf(u)' /\ StaleOf(u)'
      <4>1. CASE Recurs(u)
        <5>1. Inserting(u) => Inserting(u)'
          BY <1>4, <3>1, <4>1 DEF Inserting, Recurs
        <5> QED BY <1>1, <1>3, <2>0, <2>3, <3>1, <5>1, ChainStays
      <4>2. CASE ~Recurs(u)
        BY <2>3, <4>2, ChainExcused
      <4> QED BY <4>1, <4>2
    <3> QED BY <1>0, <1>1, <2>2, <3>2, ChainAfter
  <2>5. CASE ok
    <3>1. PICK s \in Fresh(schedules) :
             schedules' = [q \in ScheduleIds |->
                 IF q = s THEN NewSchedule(t, req[r].fireAt)
                 ELSE IF q \in SchedulesOf(t) /\ IsLive(q)
                      THEN [schedules[q] EXCEPT !.status = "cancelled"]
                      ELSE schedules[q]]
      BY <1>2, <2>1, <2>5 DEF UpsertTriggerSchedule
    <3>2. s \in ScheduleIds /\ schedules[s].status = "unused"
      BY <1>0, FreshId
    <3>3. ASSUME NEW u \in TriggerIds PROVE ChainOf(u)' /\ StaleOf(u)'
      <4>1. CASE u = t
        <5>1. schedules'[s].trigger = t /\ schedules'[s].status = "pending" /\ Free(s)
          BY <1>0, <3>1, <3>2, UnusedFree DEF NewSchedule
        <5> QED BY <1>1, <3>2, <4>1, <5>1, ChainInserted
      <4>2. CASE u # t
        <5>1. \A q \in SchedulesOf(u) : IsLive(q) \/ schedules[q].status = "cancelled" =>
                 schedules'[q] = schedules[q]
          BY <3>1, <3>2, <4>2 DEF SchedulesOf, IsLive
        <5> QED BY <1>1, <1>3, <1>5, <2>0, <2>3, <4>2, <5>1, ChainStays
      <4> QED BY <4>1, <4>2
    <3> QED BY <1>0, <1>1, <2>2, <3>3, ChainAfter
  <2> QED BY <2>4, <2>5
<1>14. ~Disconnect(r)
  BY <1>2 DEF Disconnect
<1> QED BY <1>7, <1>8, <1>10, <1>11, <1>12, <1>13, <1>14 DEF ClientStep, UpdateStep

\* Nothing is active before the first step.
LEMMA InitCron == Init => CronInv
<1>1. Init => FirstRunInv
  BY DEF Init, RequestInit, NoRequest, FirstRunInv
<1>2. Init => ChainInv /\ StaleInv
  BY DEF Init, StorageInit, EngineInit, ChainInv, StaleInv, Recurs, TriggerExists, Held
<1> QED BY <1>1, <1>2, InitAttempts, InitOutage, InitTried DEF CronInv, RetriesInv

\* Every step keeps the chain.
LEMMA NextCron == OneScheduler /\ OnlyKafkaFails /\ CronInv /\ [Next]_vars => CronInv'
<1> SUFFICES ASSUME OneScheduler, OnlyKafkaFails, CronInv, [Next]_vars PROVE CronInv'
  OBVIOUS
<1>1. /\ AttemptsInv /\ TriedInv /\ FirstRunInv /\ ChainInv /\ StaleInv /\ cancelled = {}
      /\ AttemptsInv' /\ RetriesInv' /\ KeepsTries
      /\ TypeInv /\ RequestsOK
  BY NextRetries, CronFacts DEF CronInv, RetriesInv, OutageInv, TypeInv
<1>2. now \in Nat /\ now' \in Nat
  BY <1>1, StorageAssumption DEF AttemptsInv, OneSchedulerInv, TypeInv, StorageOK
<1>3. CASE /\ UNCHANGED <<triggers, schedules, pc, batch, item, req>> /\ now <= now'
  BY <1>1, <1>2, <1>3, OtherChain DEF CronInv
<1>4. ASSUME NEW p \in Schedulers, EngineStep(p) PROVE CronInv'
  <2>1. UNCHANGED <<now, req>>
    BY <1>1, <1>4, EngineReliable
  <2>2. FirstRunInv'
    BY <1>1, <2>1 DEF FirstRunInv
  <2> QED BY <1>1, <1>4, <2>2, EngineChain DEF CronInv
<1>5. ASSUME NEW r \in Requests, ClientStep(r) \/ UpdateStep(r) PROVE CronInv'
  BY <1>1, <1>5, ClientChain DEF CronInv
<1>6. ~(\E p \in Schedulers : EngineFault(p))
  BY <1>1 DEF EngineFault, Shutdown, Restart, Crash, OnlyKafkaFails
<1>7. CASE ClockStep \/ UNCHANGED vars
  BY <1>2, <1>3, <1>7 DEF ClockStep, Tick, vars, storageVars, engineVars, apiVars
<1>8. CASE \E c \in Callers : EventStep(c)
  BY <1>2, <1>3, <1>8 DEF EventStep, LogEvent, PublishAcked, PublishFailed, MarkFailed,
                          storageVars, engineVars, apiVars
<1>9. CASE \E h \in Hooks : WebhookStep(h)
  <2>1. PICK h \in Hooks : WebhookStep(h)
    BY <1>9
  <2>2. UNCHANGED <<now, triggers, schedules, pc, batch, item, req>>
    BY <2>1 DEF WebhookStep, ReceiveWebhook, Reply, HangUp, storageVars, engineVars
  <2> QED BY <1>2, <1>3, <2>2
<1>10. CASE ServerStep
  <2>1. ~Kill
    BY DEF Kill, OnlyKafkaFails
  <2>2. req' = req
    <3>1. CASE EndShutdown
      <4>1. req \in [Requests -> RequestType]
        BY <1>1 DEF RequestsOK, RequestTypeOK
      <4> QED BY <3>1, <4>1 DEF EndShutdown, Exit, Drained
    <3> QED BY <1>10, <2>1, <3>1 DEF ServerStep, BeginShutdown, StartServer
  <2> QED BY <1>2, <1>3, <1>10, <2>1, <2>2
          DEF ServerStep, BeginShutdown, EndShutdown, StartServer, Exit, storageVars, engineVars
<1> QED BY <1>4, <1>5, <1>6, <1>7, <1>8, <1>9, <1>10 DEF Next

\* An active cron trigger has a run ahead of it, or is about to get one, or has one that
\* used up its retries: an engine that works from an old config, two updates at a time and a
\* config that never matches leave no other way for the chain to end.
THEOREM CronChainKept ==
    ASSUME OneScheduler, OnlyKafkaFails
    PROVE  Spec => []CronChainEndsOnlyAtRetryLimit
<1>1. CronInv => CronChainEndsOnlyAtRetryLimit
  BY DEF CronInv, ChainInv, CronChainEndsOnlyAtRetryLimit, Recurs, TriggerExists, HasRun,
         Inserting, Planning
<1> QED BY <1>1, InitCron, NextCron, PTL DEF Spec

----------------------------------------------------------------------------
(* When nothing fails: clients come and go, the API is restarted.          *)

\* No statement and no publish fails, and no process dies.
NothingFails == Faults \subseteq {"apishutdown"}

\* A call that fails fails because its trigger has been deleted.
CalmCalls ==
    \A p \in Schedulers : pc[p] = "firing" =>
        /\ call[p].pc # "markfailed"
        /\ call[p].pc = "failed" => triggers[item[p].trigger].status = "deleted"

\* No attempt is counted as failed, and there is one at most.
NoRetries == \A s \in ScheduleIds : schedules[s].attempts = 0
FiredOnce == \A s \in ScheduleIds : Cardinality(EventsFor(s)) <= 1

\* The inductive invariant.
CalmInv == CronInv /\ CalmCalls /\ NoRetries /\ FiredOnce

\* Without faults a call has one way to fail.
LEMMA NextCalmCalls ==
    ASSUME NothingFails, CronInv, TypeInv', CalmCalls, [Next]_vars
    PROVE  CalmCalls'
<1>0. /\ TypeInv /\ RowsInv /\ UnusedInv /\ IdleInv /\ cancelled = {} /\ TriedInv
      /\ OnlyKafkaFails
      /\ call \in [Callers -> CallType]
      /\ \A p \in Schedulers : pc[p] # "ready" => item[p] \in SnapshotType
      /\ triggers \in [TriggerIds -> TriggerRow]
  BY CronFacts, CallFacts
     DEF CronInv, RetriesInv, AttemptsInv, OutageInv, NothingFails, OnlyKafkaFails
<1>1. TriggersLast
  BY <1>0, TablesLast
<1>2. ASSUME NEW p \in Schedulers, pc[p] = "firing"
      PROVE  item[p].trigger \in TriggerIds /\ triggers[item[p].trigger].status # "unused"
  <2>1. /\ item[p] \in Held(p) /\ item[p].schedule \in ScheduleIds
        /\ item[p].trigger \in TriggerIds
    BY <1>0, <1>2 DEF Held, SnapshotType
  <2> QED BY <1>0, <2>1 DEF RowsInv, TriedInv, OwnedRows
<1>3. ASSUME NEW p \in Schedulers, pc[p] = "firing", item'[p] = item[p], call'[p] = call[p]
      PROVE  /\ call'[p].pc # "markfailed"
             /\ call'[p].pc = "failed" => triggers'[item'[p].trigger].status = "deleted"
  BY <1>1, <1>2, <1>3 DEF CalmCalls, TriggersLast
<1>4. ASSUME NEW c \in Callers, EventStep(c) PROVE CalmCalls'
  <2>1. UNCHANGED <<pc, item>> /\ \A d \in Callers \ {c} : call'[d] = call[d]
    BY <1>0, <1>4 DEF EventStep, LogEvent, PublishAcked, PublishFailed, MarkFailed, engineVars
  <2>2. ASSUME c \in Schedulers, pc[c] = "firing"
        PROVE  /\ call'[c].pc # "markfailed"
               /\ call'[c].pc = "failed" => triggers'[item[c].trigger].status = "deleted"
    <3>1. CASE LogEvent(c)
      <4>1. PICK e \in Fresh(eventLogs), ok \in BOOLEAN :
               /\ CreateEventLog(c, e, call[c].trigger, call[c].schedule, ok)
               /\ call' = IF ok THEN [call EXCEPT ![c].pc = "publish", ![c].event = e]
                                ELSE [call EXCEPT ![c].pc = "failed"]
        BY <3>1 DEF LogEvent
      <4>2. ~Refused(c, ok) /\ ~Runs(c, FALSE)
        BY <1>0 DEF Refused, Runs, NothingFails
      <4>3. ~ok => ~TriggerExists(item[c].trigger)
        BY <1>0, <2>2, <4>1, <4>2 DEF CreateEventLog, TriedInv, TriedCall
      <4>4. ~ok => triggers[item[c].trigger].status = "deleted"
        BY <1>0, <1>2, <2>2, <4>3 DEF TriggerExists, TriggerRow
      <4>5. ~ok => triggers'[item[c].trigger].status = "deleted"
        BY <1>1, <1>2, <2>2, <4>4 DEF TriggersLast
      <4>6. call'[c].pc = IF ok THEN "publish" ELSE "failed"
        BY <1>0, <4>1 DEF CallType
      <4> QED BY <4>5, <4>6
    <3>2. CASE PublishAcked(c)
      BY <1>0, <3>2 DEF PublishAcked, CallType
    <3>3. ~PublishFailed(c)
      BY <1>0 DEF PublishFailed, NothingFails
    <3>4. ~MarkFailed(c)
      BY <2>2 DEF MarkFailed, CalmCalls
    <3> QED BY <1>4, <3>1, <3>2, <3>3, <3>4 DEF EventStep
  <2>3. \A p \in Schedulers : p \in Callers
    BY DEF Callers
  <2> QED BY <1>3, <2>1, <2>2, <2>3 DEF CalmCalls
<1>5. ASSUME NEW p \in Schedulers, EngineStep(p) PROVE CalmCalls'
  BY <1>0, <1>3, <1>5, EngineFires DEF CalmCalls
<1>6. CASE (\A c \in Callers : ~EventStep(c)) /\ (\A p \in Schedulers : ~EngineStep(p))
  BY <1>0, <1>3, <1>6, OthersCall DEF CalmCalls
<1> QED BY <1>4, <1>5, <1>6

\* So the engine neither reverts a schedule nor gives one up.
LEMMA NextNoRetries ==
    ASSUME RetriesInv, CalmCalls, NoRetries, [Next]_vars
    PROVE  NoRetries'
<1>0. /\ TypeInv /\ RowsInv /\ UnusedInv /\ schedules \in [ScheduleIds -> ScheduleRow]
      /\ \A p \in Schedulers : pc[p] # "ready" => item[p] \in SnapshotType
      /\ OwnedRows
  BY CronFacts DEF RetriesInv, TriedInv
<1>1. CASE Aside
  BY <1>1 DEF Aside, NoRetries
<1>2. ASSUME NEW x, NEW to, Moved(x, to, 0) PROVE NoRetries'
  BY <1>2 DEF Moved, NoRetries
<1>3. ASSUME NEW p \in Schedulers, pc[p] = "firing", call[p].pc = "failed"
      PROVE  ~Moved(item[p].schedule, "pending", 1)
  <2>1. item[p] \in Held(p) /\ item[p].schedule \in ScheduleIds
    BY <1>0, <1>3 DEF Held, SnapshotType
  <2>2. schedules[item[p].schedule].trigger = item[p].trigger
    BY <1>0, <2>1 DEF RowsInv
  <2>3. ~TriggerExists(item[p].trigger)
    BY <1>3 DEF CalmCalls, TriggerExists
  <2> QED BY <1>0, <2>1, <2>2, <2>3 DEF OwnedRows, Moved
<1>4. CASE UNCHANGED schedules
  BY <1>4 DEF NoRetries
<1>5. ASSUME NEW p \in Schedulers, Plans(p) PROVE NoRetries'
  BY <1>0, <1>4, <1>5 DEF Plans, NewSchedule, NoRetries
<1>6. ASSUME NEW p \in Schedulers, EngineStep(p) PROVE NoRetries'
  <2>1. CASE Polls(p) \/ Marks(p)
    BY <1>2, <1>4, <2>1 DEF Polls, Marks
  <2>2. CASE Settles(p)
    BY <1>2, <1>3, <1>4, <2>2 DEF Settles
  <2> QED BY <1>0, <1>5, <1>6, <2>1, <2>2, EngineEffect
<1>7. \A p \in Schedulers : Crash(p) => UNCHANGED schedules
  BY DEF Crash
<1> QED BY <1>0, <1>1, <1>4, <1>6, <1>7, StepEffect

\* The one event of a schedule is that of the attempt under way.
LEMMA NextFiredOnce ==
    ASSUME AttemptsInv, AttemptsInv', NoRetries, FiredOnce, [Next]_vars
    PROVE  FiredOnce'
<1>0. /\ TypeInv /\ RowsInv /\ CallsInv /\ FiringInv /\ AcceptedInv /\ IdleInv /\ HookCallInv
      /\ pc \in [Schedulers -> {"ready", "firing", "finish"}]
      /\ \A p \in Schedulers : pc[p] # "ready" => item[p] \in SnapshotType
  BY CronFacts, CallFacts DEF AttemptsInv, DeliveryInv
<1>1. CASE QuietStep
  <2>1. \A s \in ScheduleIds : EventsFor(s)' = EventsFor(s)
    BY <1>1 DEF QuietStep, EventsFor
  <2> QED BY <2>1 DEF FiredOnce
<1>2. ASSUME NEW c \in Callers, EventStep(c), NEW s \in ScheduleIds
      PROVE  Cardinality(EventsFor(s)') <= 1
  <2>1. CASE EventsFor(s)' = EventsFor(s)
    BY <2>1 DEF FiredOnce
  <2>2. CASE call[c].pc = "log" /\ call[c].schedule = s
    <3>1. c \in Schedulers
      BY <2>2, StorageAssumption DEF HookCallInv, Callers, AttemptsInv
    <3>2. pc[c] = "firing" /\ item[c].schedule = s
      BY <1>0, <2>2, <3>1 DEF IdleInv, FiringInv
    <3>3. item[c] \in Held(c) /\ item[c].attempts = 0
      BY <1>0, <3>1, <3>2 DEF Held, RowsInv, NoRetries
    <3>4. UNCHANGED <<pc, batch, item>>
      BY <1>2 DEF EventStep, engineVars
    <3>5. item[c] \in Held(c)'
      BY <3>3, <3>4 DEF Held
    <3>6. Cardinality(EventsFor(s)') <= item[c].attempts + 1
      <4> DEFINE row == item[c]
      <4>1. PICK r : r = item[c]
        OBVIOUS
      <4>2. r \in Held(c)' /\ r.schedule = s
        BY <3>2, <3>5, <4>1
      <4>3. Cardinality(EventsFor(r.schedule)') <= r.attempts + 1
        BY <3>1, <4>2 DEF AttemptsInv, CountInv
      <4> QED BY <4>1, <4>2, <4>3
    <3> QED BY <3>3, <3>6
  <2> QED BY <1>0, <1>2, <2>1, <2>2, EventStepEvents
<1>3. ASSUME \E c \in Callers : EventStep(c) PROVE FiredOnce'
  BY <1>2, <1>3 DEF FiredOnce
<1> QED BY <1>1, <1>3, OthersQuiet DEF AttemptsInv

\* Nothing has been tried before the first step.
LEMMA InitCalm == Init => CalmInv
<1> SUFFICES ASSUME Init PROVE CalmInv
  OBVIOUS
<1>1. CronInv
  BY InitCron
<1>2. NoRetries
  BY DEF Init, StorageInit, NoRetries
<1>3. CalmCalls
  BY DEF Init, EngineInit, CalmCalls
<1>4. \A s \in ScheduleIds : EventsFor(s) = {}
  BY DEF Init, StorageInit, EventsFor
<1>5. FiredOnce
  BY <1>4, FS_EmptySet DEF FiredOnce
<1> QED BY <1>1, <1>2, <1>3, <1>5 DEF CalmInv

\* Every step keeps it.
LEMMA NextCalm == OneScheduler /\ NothingFails /\ CalmInv /\ [Next]_vars => CalmInv'
<1> SUFFICES ASSUME OneScheduler, NothingFails, CalmInv, [Next]_vars PROVE CalmInv'
  OBVIOUS
<1>1. OnlyKafkaFails
  BY DEF NothingFails, OnlyKafkaFails
<1>2. CronInv /\ CronInv'
  BY <1>1, NextCron DEF CalmInv
<1>3. RetriesInv /\ AttemptsInv /\ AttemptsInv' /\ TypeInv'
  BY <1>2 DEF CronInv, RetriesInv, AttemptsInv, OneSchedulerInv
<1> QED BY <1>2, <1>3, NextCalmCalls, NextNoRetries, NextFiredOnce DEF CalmInv

\* While nothing fails a schedule fires once at most, and so is published once at most,
\* whatever clients change, pause and delete in the middle.
THEOREM FiresOnce ==
    ASSUME OneScheduler, NothingFails
    PROVE  Spec => []FiredOnce
<1>1. CalmInv => FiredOnce
  BY DEF CalmInv
<1> QED BY <1>1, InitCalm, NextCalm, PTL DEF Spec

\* So nothing is given up.
LEMMA CalmKeepsOn ==
    ASSUME CalmInv, MaxRetries > 1, NEW s \in ScheduleIds
    PROVE  ~GivenUp(s)
<1>1. IsFiniteSet(EventsFor(s)) /\ Cardinality(EventsFor(s)) <= 1
  BY DEF CalmInv, CronInv, RetriesInv, AttemptsInv, CountInv, FiredOnce
<1>2. FailuresFor(s) \subseteq EventsFor(s)
  BY DEF FailuresFor
<1>3. /\ Cardinality(FailuresFor(s)) <= Cardinality(EventsFor(s))
      /\ Cardinality(FailuresFor(s)) \in Nat /\ Cardinality(EventsFor(s)) \in Nat
  BY <1>1, <1>2, FS_Subset, FS_CardinalityType
<1> QED BY <1>1, <1>3, EngineAssumption DEF GivenUp

\* A cron trigger that has a next time, paused or not, has a run ahead of it, once the
\* updates of it are over and the engine has planned what it fired.
CronGoesOn ==
    \A t \in TriggerIds :
        /\ Recurs(t)
        /\ \A r \in Requests : req[r].trigger # t
        /\ \A p \in Schedulers : pc[p] = "finish" => item[p].trigger # t
        => \E s \in SchedulesOf(t) : IsLive(s)

\* While nothing fails the chain of runs of a cron trigger never ends, whatever clients
\* change in the middle, if the engine retries at all (it does, four times).
THEOREM CronNeverEnds ==
    ASSUME OneScheduler, NothingFails, MaxRetries > 1
    PROVE  Spec => []CronGoesOn
<1>1. CalmInv => CronGoesOn
  <2> SUFFICES ASSUME CalmInv PROVE CronGoesOn
    OBVIOUS
  <2>1. ChainInv
    BY DEF CalmInv, CronInv
  <2>2. \A s \in ScheduleIds : ~GivenUp(s)
    BY CalmKeepsOn
  <2> QED BY <2>1, <2>2 DEF ChainInv, CronGoesOn, HasRun, SchedulesOf, Inserting, Planning
<1> QED BY <1>1, InitCalm, NextCalm, PTL DEF Spec

\* So Kafka is what CronSurvivesOutage fails for: when nothing fails, and no update is
\* between its two transactions, an active cron trigger never lacks a run ahead of it.
THEOREM CronSurvivesWhenNothingFails ==
    ASSUME OneScheduler, NothingFails, NoConfigUpdates, MaxRetries > 1
    PROVE  Spec => []CronSurvivesOutage
<1>1. CalmInv /\ SingleInv => CronSurvivesOutage
  <2> SUFFICES ASSUME CalmInv, SingleInv PROVE CronSurvivesOutage
    OBVIOUS
  <2>1. ChainInv /\ RequestsInv
    BY DEF CalmInv, CronInv, SingleInv
  <2>2. \A s \in ScheduleIds : ~GivenUp(s)
    BY CalmKeepsOn
  <2>3. \A t : ~Inserting(t)
    BY <2>1 DEF RequestsInv, Inserting
  <2> QED BY <2>1, <2>2, <2>3
          DEF ChainInv, CronSurvivesOutage, Recurs, TriggerExists, HasRun, SchedulesOf, Planning
<1> QED BY <1>1, InitCalm, NextCalm, InitSingle, NextSingle, PTL DEF Spec
=============================================================================
