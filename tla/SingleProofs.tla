---------------------------- MODULE SingleProofs ----------------------------
(***************************************************************************)
(* One scheduler process and no update of a config, whatever fails: a      *)
(* trigger has one run ahead of it, no occurrence is scheduled twice, and  *)
(* every schedule goes through the life of ScheduleLifecycle.              *)
(***************************************************************************)
EXTENDS SchedulerProofs

\* No client updates a config.
NoConfigUpdates == "config" \notin Ops

\* No request is about to replace a schedule.
RequestsInv == \A r \in Requests : req[r].config = Null /\ req[r].pc # "schedule"

\* What a row says of its trigger.
TablesInv ==
    \A s \in ScheduleIds :
        /\ schedules[s].status # "unused" => triggers[schedules[s].trigger].status # "unused"
        /\ IsLive(s) => TriggerExists(schedules[s].trigger)
        /\ schedules[s].status = "deleted" => ~TriggerExists(schedules[s].trigger)
        /\ schedules[s].status \in {"completed", "cancelled"} => schedules[s].fireAt <= now

\* One run ahead of a trigger.
OneLiveInv ==
    \A r, s \in ScheduleIds :
        IsLive(r) /\ IsLive(s) /\ schedules[r].trigger = schedules[s].trigger => r = s

\* The scheduler's rows are as it left them, unless their trigger has been deleted, and it
\* plans the next run of a trigger that has none.
ClaimInv ==
    \A p \in Schedulers :
        /\ \A row \in batch[p] : schedules[row.schedule].status \in {"pending", "deleted"}
        /\ pc[p] = "firing" => schedules[item[p].schedule].status \in {"processing", "deleted"}
        /\ pc[p] = "finish" =>
              /\ triggers[item[p].trigger].status # "unused"
              /\ \A s \in ScheduleIds : schedules[s].trigger = item[p].trigger => ~IsLive(s)

LiveInv == TablesInv /\ OneLiveInv /\ OneRowPerOccurrence /\ ClaimInv

----------------------------------------------------------------------------
(* What each step does to the two tables.                                  *)

\* No trigger comes or goes.
KeepsTriggers ==
    \A t \in TriggerIds : /\ triggers'[t].status = "unused" <=> triggers[t].status = "unused"
                          /\ TriggerExists(t)' <=> TriggerExists(t)

Creates ==
    \E t \in TriggerIds :
        /\ triggers[t].status = "unused"
        /\ triggers'[t].status = "active"
        /\ \A u \in TriggerIds \ {t} : triggers'[u] = triggers[u]
        /\ \/ UNCHANGED schedules
           \/ \E s \in ScheduleIds, at \in Nat :
                 /\ schedules[s].status = "unused"
                 /\ schedules' = [schedules EXCEPT ![s] = NewSchedule(t, at)]

Deletes ==
    \E t \in TriggerIds :
        /\ TriggerExists(t)
        /\ triggers'[t].status = "deleted"
        /\ \A u \in TriggerIds \ {t} : triggers'[u] = triggers[u]
        /\ schedules' = [s \in ScheduleIds |->
                            IF s \in SchedulesOf(t)
                            THEN [schedules[s] EXCEPT !.status = "deleted"]
                            ELSE schedules[s]]

\* The engine creates and deletes no trigger.
LEMMA EngineKeeps ==
    ASSUME TypeInv, NEW p \in Schedulers, EngineStep(p) \/ Crash(p)
    PROVE  KeepsTriggers
<1>0. triggers \in [TriggerIds -> TriggerRow]
  BY DEF TypeInv, StorageOK
<1>1. CASE UNCHANGED triggers
  BY <1>1 DEF KeepsTriggers, TriggerExists
<1>2. CASE DeactivateOneTime(p)
  <2>1. PICK t : \/ /\ TriggerExists(t)
                    /\ triggers' = [triggers EXCEPT ![t].status = "inactive"]
                 \/ UNCHANGED triggers
    BY <1>2 DEF DeactivateOneTime, DeactivateTrigger
  <2> QED BY <1>0, <2>1 DEF KeepsTriggers, TriggerExists, TriggerRow
<1> QED BY <1>1, <1>2
    DEF EngineStep, Crash, Poll, MarkProcessing, RetryLater, CancelAfterMaxRetries, Complete,
        ScheduleNextRun, storageVars

\* What clients do without updating a config.
LEMMA ClientTables ==
    ASSUME NoConfigUpdates, TypeInv, RequestsInv, NEW r \in Requests,
           ClientStep(r) \/ UpdateStep(r)
    PROVE  /\ UNCHANGED <<now, pc, batch, item>>
           /\ Creates \/ Deletes \/ (KeepsTriggers /\ UNCHANGED schedules)
           /\ RequestsInv'
<1>0. /\ triggers \in [TriggerIds -> TriggerRow] /\ schedules \in [ScheduleIds -> ScheduleRow]
      /\ req \in [Requests -> RequestType] /\ now \in 0..MaxTime
  BY RowFacts DEF TypeInv, StorageOK, RequestsOK, RequestTypeOK
<1>1. UNCHANGED <<now, pc, batch, item>>
  BY DEF ClientStep, UpdateStep, Create, Delete, BeginUpdate, Disconnect, WriteTrigger,
         WriteSchedule, Respond, storageVars, engineVars
<1>2. ASSUME NEW to, to # "schedule",
             \/ req' = [req EXCEPT ![r] = [NoRequest EXCEPT !.pc = to]]
             \/ req' = [req EXCEPT ![r].pc = to]
      PROVE  RequestsInv'
  <2>1. req'[r].config = Null /\ req'[r].pc = to
    BY <1>0, <1>2 DEF NoRequest, RequestType, RequestsInv
  <2>2. \A q \in Requests \ {r} : req'[q] = req[q]
    BY <1>0, <1>2
  <2> QED BY <1>2, <2>1, <2>2 DEF RequestsInv
<1>3. ASSUME UNCHANGED triggers PROVE KeepsTriggers
  BY <1>3 DEF KeepsTriggers, TriggerExists
<1>4. CASE Create(r)
  <2>1. PICK t \in Fresh(triggers), config \in Configs :
           /\ Accepted(t, config)
           /\ CreateTrigger(r, t, config, FirstRun(t, config))
    BY <1>4 DEF Create
  <2>2. t \in TriggerIds /\ triggers[t].status = "unused"
    BY <1>0, FreshId
  <2>3. triggers' = [triggers EXCEPT ![t] = [status |-> "active", config |-> config]]
    BY <2>1 DEF CreateTrigger
  <2>4. triggers'[t].status = "active" /\ \A u \in TriggerIds \ {t} : triggers'[u] = triggers[u]
    BY <1>0, <2>2, <2>3
  <2>5. \/ UNCHANGED schedules
        \/ /\ FirstRun(t, config) # Null
           /\ \E s \in Fresh(schedules) :
                 schedules' = [schedules EXCEPT ![s] = NewSchedule(t, FirstRun(t, config))]
    BY <2>1 DEF CreateTrigger
  <2>6. FirstRun(t, config) # Null => FirstRun(t, config) \in Nat
    BY <1>0, <2>1, <2>2, FirstRunType
  <2>7. \A s \in Fresh(schedules) : s \in ScheduleIds /\ schedules[s].status = "unused"
    BY <1>0, FreshId
  <2>8. Creates
    BY <2>2, <2>4, <2>5, <2>6, <2>7 DEF Creates
  <2>9. RequestsInv'
    BY <1>2, <1>4 DEF Create, Finish
  <2> QED BY <1>1, <2>8, <2>9
<1>5. CASE Delete(r)
  <2>1. PICK t \in TriggerIds : DeleteTrigger(r, t)
    BY <1>5 DEF Delete
  <2>2. /\ triggers'[t].status = "deleted"
        /\ \A u \in TriggerIds \ {t} : triggers'[u] = triggers[u]
    BY <1>0, <2>1 DEF DeleteTrigger, TriggerRow
  <2>3. Deletes
    BY <2>1, <2>2 DEF DeleteTrigger, Deletes
  <2>4. RequestsInv'
    BY <1>2, <1>5 DEF Delete, Finish
  <2> QED BY <1>1, <2>3, <2>4
<1>6. CASE BeginUpdate(r)
  <2>1. UNCHANGED <<triggers, schedules>>
    BY <1>6 DEF BeginUpdate, storageVars
  <2>2. PICK t, status :
           req' = [req EXCEPT ![r] = [pc |-> "write", trigger |-> t, status |-> status,
                                      config |-> Null, fireAt |-> Null]]
    BY <1>6 DEF BeginUpdate, NoConfigUpdates
  <2>3. RequestsInv'
    BY <1>0, <2>2 DEF RequestsInv
  <2> QED BY <1>1, <1>3, <2>1, <2>3 DEF KeepsTriggers
<1>7. CASE WriteTrigger(r)
  <2>1. PICK result \in {"ok", "notfound", "error"} :
           /\ UpdateTrigger(r, req[r].trigger, req[r].status, req[r].config, result)
           /\ IF result = "ok"
              THEN Continue(r, IF Reschedules(r) THEN "schedule" ELSE "respond")
              ELSE Finish(r, result)
    BY <1>7 DEF WriteTrigger
  <2>2. ~Reschedules(r)
    BY DEF Reschedules, RequestsInv
  <2>3. RequestsInv'
    BY <1>2, <2>1, <2>2 DEF Continue, Finish
  <2>4. KeepsTriggers
    <3> DEFINE t == req[r].trigger
               to == IF req[r].status = Null THEN triggers[t].status ELSE req[r].status
    <3>1. UNCHANGED triggers \/
          (TriggerExists(t) /\ \E config : triggers' = [triggers EXCEPT ![t] =
                                                    [status |-> to, config |-> config]])
      BY <2>1 DEF UpdateTrigger
    <3>2. TriggerExists(t) => to \in {"active", "inactive"}
      BY <1>0 DEF TriggerExists, RequestType
    <3> HIDE DEF to, t
    <3>3. ASSUME NEW config, TriggerExists(t),
                 triggers' = [triggers EXCEPT ![t] = [status |-> to, config |-> config]]
          PROVE  KeepsTriggers
      <4>1. \A u \in TriggerIds :
               triggers'[u].status = IF u = t THEN to ELSE triggers[u].status
        BY <1>0, <3>3
      <4> QED BY <3>2, <3>3, <4>1 DEF KeepsTriggers, TriggerExists
    <3> QED BY <1>3, <3>1, <3>3
  <2> QED BY <1>1, <1>7, <2>3, <2>4 DEF WriteTrigger
<1>8. CASE Respond(r)
  <2>1. RequestsInv'
    BY <1>2, <1>8 DEF Respond, Finish
  <2> QED BY <1>1, <1>3, <1>8, <2>1 DEF Respond, KeepsTriggers
<1>9. CASE Disconnect(r)
  BY <1>1, <1>3, <1>9 DEF Disconnect, RequestsInv, KeepsTriggers
<1>10. ~WriteSchedule(r)
  BY DEF WriteSchedule, RequestsInv
<1> QED BY <1>4, <1>5, <1>6, <1>7, <1>8, <1>9, <1>10 DEF ClientStep, UpdateStep

\* What is neither a step of the engine nor of a client leaves both tables alone.
LEMMA OtherTables ==
    ASSUME TypeInv, RequestsInv,
           \/ \E c \in Callers : EventStep(c)
           \/ \E p \in Schedulers : EngineFault(p) /\ ~Crash(p)
           \/ \E h \in Hooks : WebhookStep(h)
           \/ ServerStep \/ ClockStep \/ UNCHANGED vars
    PROVE  /\ UNCHANGED <<triggers, schedules, pc, batch, item>> /\ now <= now'
           /\ RequestsInv'
<1>0. now \in Nat
  BY RowFacts
<1>1. CASE ServerStep
  <2>1. RequestsInv'
    BY <1>1 DEF ServerStep, BeginShutdown, EndShutdown, Kill, StartServer, Exit, RequestsInv,
                NoRequest
  <2> QED BY <1>0, <1>1, <2>1 DEF ServerStep, BeginShutdown, EndShutdown, Kill, StartServer,
                                  Exit, storageVars, engineVars
<1>2. CASE ClockStep
  BY <1>0, <1>2 DEF ClockStep, Tick, engineVars, apiVars, RequestsInv
<1>3. CASE \E c \in Callers : EventStep(c)
  BY <1>0, <1>3 DEF EventStep, LogEvent, PublishAcked, PublishFailed, MarkFailed, storageVars,
                    engineVars, apiVars, RequestsInv
<1>4. CASE \E p \in Schedulers : EngineFault(p) /\ ~Crash(p)
  BY <1>0, <1>4 DEF EngineFault, Shutdown, Restart, engineVars, apiVars, RequestsInv
<1>5. ASSUME NEW h \in Hooks, WebhookStep(h)
      PROVE  /\ UNCHANGED <<triggers, schedules, pc, batch, item>> /\ now <= now'
             /\ RequestsInv'
  <2>1. UNCHANGED <<now, triggers, schedules, pc, batch, item, req>>
    BY <1>5 DEF WebhookStep, ReceiveWebhook, Reply, HangUp, storageVars, engineVars
  <2> QED BY <1>0, <2>1 DEF RequestsInv
<1>6. CASE UNCHANGED vars
  BY <1>0, <1>6 DEF vars, storageVars, engineVars, apiVars, RequestsInv
<1> QED BY <1>1, <1>2, <1>3, <1>4, <1>5, <1>6

\* The steps of Next, for a proof that treats the three kinds apart.
LEMMA StepKinds ==
    ASSUME NoConfigUpdates, TypeInv, RequestsInv, [Next]_vars
    PROVE  \/ \E p \in Schedulers : EngineStep(p) \/ Crash(p)
           \/ /\ UNCHANGED <<pc, batch, item>> /\ now <= now'
              /\ Creates \/ Deletes \/ (KeepsTriggers /\ UNCHANGED schedules)
<1>1. now \in Nat
  BY RowFacts
<1>2. UNCHANGED triggers => KeepsTriggers
  BY DEF KeepsTriggers, TriggerExists
<1> QED BY <1>1, <1>2, ClientTables, OtherTables DEF Next

\* No step lets a request replace a schedule.
LEMMA NextRequests == NoConfigUpdates /\ TypeInv /\ RequestsInv /\ [Next]_vars => RequestsInv'
<1> SUFFICES ASSUME NoConfigUpdates, TypeInv, RequestsInv, [Next]_vars PROVE RequestsInv'
  OBVIOUS
<1>1. ASSUME NEW p \in Schedulers, EngineStep(p) \/ Crash(p), UNCHANGED req PROVE RequestsInv'
  BY <1>1 DEF RequestsInv
<1>2. \A p \in Schedulers : EngineStep(p) \/ EngineFault(p) => UNCHANGED req
  BY DEF EngineStep, EngineFault, apiVars
<1> QED BY <1>1, <1>2, ClientTables, OtherTables DEF Next

----------------------------------------------------------------------------
(* The rows.                                                               *)

\* A trigger that is created has no row but the one it comes with, and one that is
\* deleted takes its rows along.
LEMMA AsideLive ==
    ASSUME TypeInv, UnusedInv, RowsInv, LiveInv, now' \in Nat,
           UNCHANGED <<pc, batch, item>>, now <= now',
           Creates \/ Deletes \/ (KeepsTriggers /\ UNCHANGED schedules)
    PROVE  LiveInv'
<1>0. /\ schedules \in [ScheduleIds -> ScheduleRow] /\ now \in Nat
      /\ \A s \in ScheduleIds : schedules[s].status # "unused" =>
            schedules[s].trigger \in TriggerIds
      /\ \A p \in Schedulers : \A row \in batch[p] :
            row.schedule \in ScheduleIds /\ schedules[row.schedule].status # "unused"
      /\ \A p \in Schedulers : pc[p] = "firing" =>
            item[p].schedule \in ScheduleIds /\ schedules[item[p].schedule].status # "unused"
      /\ \A p \in Schedulers : pc[p] # "ready" => item[p].trigger \in TriggerIds
      /\ Null \notin TriggerIds
  BY RowFacts, StorageAssumption
     DEF TypeInv, StorageOK, SchedulesOK, RowsInv, Held, SnapshotType
<1>1. CASE KeepsTriggers /\ UNCHANGED schedules
  <2>1. TablesInv'
    <3> SUFFICES ASSUME NEW s \in ScheduleIds
                 PROVE  /\ schedules[s].status # "unused" =>
                              triggers'[schedules[s].trigger].status # "unused"
                        /\ IsLive(s)' => TriggerExists(schedules[s].trigger)'
                        /\ schedules[s].status = "deleted" => ~TriggerExists(schedules[s].trigger)'
                        /\ schedules[s].status \in {"completed", "cancelled"} =>
                              schedules[s].fireAt <= now'
      BY <1>1 DEF TablesInv
    <3>1. schedules[s].fireAt \in Nat
      BY <1>0 DEF ScheduleRow
    <3> QED BY <1>0, <1>1, <3>1 DEF TablesInv, LiveInv, IsLive, KeepsTriggers
  <2>2. OneLiveInv' /\ OneRowPerOccurrence'
    BY <1>1 DEF LiveInv, OneLiveInv, OneRowPerOccurrence, IsLive
  <2>3. ClaimInv'
    BY <1>0, <1>1 DEF LiveInv, ClaimInv, KeepsTriggers, IsLive
  <2> QED BY <2>1, <2>2, <2>3 DEF LiveInv
<1>2. ASSUME NEW t \in TriggerIds,
             triggers[t].status = "unused", triggers'[t].status = "active",
             \A u \in TriggerIds \ {t} : triggers'[u] = triggers[u]
      PROVE  /\ \A s \in ScheduleIds : schedules[s].trigger # t
             /\ \A u \in TriggerIds : /\ triggers[u].status # "unused" => triggers'[u] = triggers[u]
                                      /\ triggers'[u].status = "unused" => u # t
  BY <1>0, <1>2 DEF LiveInv, TablesInv, UnusedInv
<1>3. ASSUME NEW t \in TriggerIds,
             triggers[t].status = "unused", triggers'[t].status = "active",
             \A u \in TriggerIds \ {t} : triggers'[u] = triggers[u],
             UNCHANGED schedules
      PROVE  LiveInv'
  <2>1. TablesInv'
    <3> SUFFICES ASSUME NEW s \in ScheduleIds
                 PROVE  /\ schedules[s].status # "unused" =>
                              triggers'[schedules[s].trigger].status # "unused"
                        /\ IsLive(s)' => TriggerExists(schedules[s].trigger)'
                        /\ schedules[s].status = "deleted" => ~TriggerExists(schedules[s].trigger)'
                        /\ schedules[s].status \in {"completed", "cancelled"} =>
                              schedules[s].fireAt <= now'
      BY <1>3 DEF TablesInv
    <3>1. schedules[s].fireAt \in Nat
      BY <1>0 DEF ScheduleRow
    <3>2. schedules[s].status # "unused" =>
             triggers'[schedules[s].trigger] = triggers[schedules[s].trigger]
      BY <1>0, <1>2, <1>3
    <3> QED BY <1>0, <1>3, <3>1, <3>2 DEF TablesInv, LiveInv, IsLive, TriggerExists
  <2>2. OneLiveInv' /\ OneRowPerOccurrence'
    BY <1>3 DEF LiveInv, OneLiveInv, OneRowPerOccurrence, IsLive
  <2>3. ClaimInv'
    BY <1>0, <1>2, <1>3 DEF LiveInv, ClaimInv, IsLive
  <2> QED BY <2>1, <2>2, <2>3 DEF LiveInv
<1>4. ASSUME NEW t \in TriggerIds,
             triggers[t].status = "unused", triggers'[t].status = "active",
             \A u \in TriggerIds \ {t} : triggers'[u] = triggers[u],
             NEW x \in ScheduleIds, NEW at \in Nat, schedules[x].status = "unused",
             schedules' = [schedules EXCEPT ![x] = NewSchedule(t, at)]
      PROVE  LiveInv'
  <2>1. /\ schedules'[x].trigger = t /\ schedules'[x].status = "pending"
        /\ \A s \in ScheduleIds \ {x} : schedules'[s] = schedules[s]
        /\ \A s \in ScheduleIds : schedules[s].trigger # t
    BY <1>0, <1>2, <1>4 DEF NewSchedule
  <2>2. TablesInv'
    <3> SUFFICES ASSUME NEW s \in ScheduleIds
                 PROVE  /\ schedules'[s].status # "unused" =>
                              triggers'[schedules'[s].trigger].status # "unused"
                        /\ IsLive(s)' => TriggerExists(schedules[s].trigger)'
                        /\ schedules'[s].status = "deleted" =>
                              ~TriggerExists(schedules[s].trigger)'
                        /\ schedules'[s].status \in {"completed", "cancelled"} =>
                              schedules'[s].fireAt <= now'
      BY DEF TablesInv
    <3>1. CASE s = x
      BY <1>4, <2>1, <3>1 DEF TriggerExists
    <3>2. CASE s # x
      <4>1. schedules'[s] = schedules[s] /\ schedules[s].fireAt \in Nat
        BY <1>0, <2>1, <3>2 DEF ScheduleRow
      <4>2. schedules[s].status # "unused" =>
               triggers'[schedules[s].trigger] = triggers[schedules[s].trigger]
        BY <1>0, <1>2, <1>4
      <4> QED BY <1>0, <4>1, <4>2 DEF TablesInv, LiveInv, IsLive, TriggerExists
    <3> QED BY <3>1, <3>2
  <2>3. OneLiveInv' /\ OneRowPerOccurrence'
    BY <2>1 DEF LiveInv, OneLiveInv, OneRowPerOccurrence, IsLive
  <2>4. ClaimInv'
    <3>1. \A p \in Schedulers : \A row \in batch[p] :
             schedules'[row.schedule] = schedules[row.schedule]
      BY <1>0, <1>4, <2>1
    <3>2. \A p \in Schedulers : pc[p] = "firing" =>
             schedules'[item[p].schedule] = schedules[item[p].schedule]
      BY <1>0, <1>4, <2>1
    <3>3. \A p \in Schedulers : pc[p] = "finish" =>
             /\ item[p].trigger # t /\ triggers'[item[p].trigger] = triggers[item[p].trigger]
             /\ \A s \in ScheduleIds : schedules'[s].trigger = item[p].trigger => ~IsLive(s)'
      BY <1>0, <1>4, <2>1 DEF LiveInv, ClaimInv, IsLive
    <3> QED BY <3>1, <3>2, <3>3 DEF LiveInv, ClaimInv
  <2> QED BY <2>2, <2>3, <2>4 DEF LiveInv
<1>5. CASE Deletes
  <2>1. PICK t \in TriggerIds :
           /\ TriggerExists(t) /\ triggers'[t].status = "deleted"
           /\ \A u \in TriggerIds \ {t} : triggers'[u] = triggers[u]
           /\ schedules' = [s \in ScheduleIds |-> IF s \in SchedulesOf(t)
                                THEN [schedules[s] EXCEPT !.status = "deleted"]
                                ELSE schedules[s]]
    BY <1>5 DEF Deletes
  <2>2. \A s \in ScheduleIds :
           /\ schedules'[s].trigger = schedules[s].trigger
           /\ schedules'[s].fireAt = schedules[s].fireAt
           /\ schedules'[s].status = IF schedules[s].trigger = t THEN "deleted"
                                                                 ELSE schedules[s].status
           /\ schedules[s].fireAt \in Nat
    BY <1>0, <2>1 DEF SchedulesOf, ScheduleRow
  <2>3. /\ \A u \in TriggerIds : triggers'[u].status = "unused" <=> triggers[u].status = "unused"
        /\ \A u \in TriggerIds \ {t} : TriggerExists(u)' <=> TriggerExists(u)
        /\ ~TriggerExists(t)'
    BY <2>1 DEF TriggerExists
  <2>4. TablesInv'
    <3> SUFFICES ASSUME NEW s \in ScheduleIds
                 PROVE  /\ schedules'[s].status # "unused" =>
                              triggers'[schedules'[s].trigger].status # "unused"
                        /\ IsLive(s)' => TriggerExists(schedules[s].trigger)'
                        /\ schedules'[s].status = "deleted" =>
                              ~TriggerExists(schedules[s].trigger)'
                        /\ schedules'[s].status \in {"completed", "cancelled"} =>
                              schedules'[s].fireAt <= now'
      BY DEF TablesInv
    <3>1. CASE schedules[s].trigger = t
      BY <2>1, <2>2, <2>3, <3>1 DEF IsLive
    <3>2. CASE schedules[s].trigger # t
      BY <1>0, <2>2, <2>3, <3>2 DEF LiveInv, TablesInv, IsLive
    <3> QED BY <3>1, <3>2
  <2>5. OneLiveInv' /\ OneRowPerOccurrence'
    BY <2>2 DEF LiveInv, OneLiveInv, OneRowPerOccurrence, IsLive
  <2>6. ClaimInv'
    BY <1>0, <2>2, <2>3 DEF LiveInv, ClaimInv, IsLive
  <2> QED BY <2>4, <2>5, <2>6 DEF LiveInv
<1> QED BY <1>1, <1>3, <1>4, <1>5 DEF Creates

\* A row that moves stays live, or has been due.
LEMMA MovedLive ==
    ASSUME TypeInv, TablesInv, OneLiveInv, OneRowPerOccurrence, KeepsTriggers, UNCHANGED now,
           NEW x \in ScheduleIds, NEW to, NEW n, Moved(x, to, n),
           \/ to \in {"pending", "processing"} /\ IsLive(x)
           \/ to \in {"completed", "cancelled"} /\ schedules[x].fireAt <= now
    PROVE  TablesInv' /\ OneLiveInv' /\ OneRowPerOccurrence'
<1>0. \A s \in ScheduleIds : schedules[s].status # "unused" => schedules[s].trigger \in TriggerIds
  BY DEF TypeInv, StorageOK, SchedulesOK
<1>1. /\ \A s \in ScheduleIds :
            /\ schedules'[s].trigger = schedules[s].trigger
            /\ schedules'[s].fireAt = schedules[s].fireAt
            /\ s # x => schedules'[s].status = schedules[s].status
      /\ schedules'[x].status = to /\ schedules[x].status \notin {"unused", "deleted"}
  BY DEF Moved, ScheduleExists
<1>2. TablesInv'
  <2> SUFFICES ASSUME NEW s \in ScheduleIds
               PROVE  /\ schedules'[s].status # "unused" =>
                            triggers'[schedules'[s].trigger].status # "unused"
                      /\ IsLive(s)' => TriggerExists(schedules[s].trigger)'
                      /\ schedules'[s].status = "deleted" =>
                            ~TriggerExists(schedules[s].trigger)'
                      /\ schedules'[s].status \in {"completed", "cancelled"} =>
                            schedules'[s].fireAt <= now'
    BY DEF TablesInv
  <2>1. CASE s = x
    BY <1>0, <1>1, <2>1 DEF TablesInv, IsLive, KeepsTriggers
  <2>2. CASE s # x
    BY <1>0, <1>1, <2>2 DEF TablesInv, IsLive, KeepsTriggers
  <2> QED BY <2>1, <2>2
<1>3. \A s \in ScheduleIds : IsLive(s)' => IsLive(s)
  BY <1>1 DEF IsLive
<1>4. OneLiveInv' /\ OneRowPerOccurrence'
  BY <1>1, <1>3 DEF OneLiveInv, OneRowPerOccurrence
<1> QED BY <1>2, <1>4

\* The one scheduler moves only the row it has, and plans the next run of a trigger when
\* the last one is over, for a later instant than every one before.
LEMMA EngineLive ==
    ASSUME OneScheduler, TypeInv, RowsInv, UnusedInv, LiveInv,
           NEW p \in Schedulers, EngineStep(p) \/ Crash(p)
    PROVE  LiveInv'
<1>0. /\ schedules \in [ScheduleIds -> ScheduleRow] /\ now \in Nat
      /\ batch \in [Schedulers -> SUBSET SnapshotType]
      /\ pc \in [Schedulers -> {"ready", "firing", "finish"}]
      /\ \A s \in ScheduleIds : schedules[s].status # "unused" =>
            schedules[s].trigger \in TriggerIds
      /\ \A row \in Held(p) :
            /\ row.schedule \in ScheduleIds /\ row.trigger \in TriggerIds
            /\ schedules[row.schedule].trigger = row.trigger
            /\ schedules[row.schedule].fireAt <= now
            /\ schedules[row.schedule].status # "unused"
      /\ \A row, other \in Held(p) : row.schedule = other.schedule => row = other
      /\ pc[p] # "ready" => item[p].trigger \in TriggerIds /\ item[p].schedule \in ScheduleIds
      /\ pc[p] = "firing" => item[p] \in Held(p) /\ item[p] \notin batch[p]
      /\ batch[p] \subseteq Held(p)
  BY RowFacts, CallFacts DEF TypeInv, StorageOK, SchedulesOK, Held, RowsInv, SnapshotType
<1>1. TablesInv /\ OneLiveInv /\ OneRowPerOccurrence /\ ClaimInv
  BY DEF LiveInv
<1>2. KeepsTriggers
  BY EngineKeeps
<1>3. ASSUME \A row \in batch'[p] : schedules'[row.schedule].status \in {"pending", "deleted"},
             pc'[p] = "firing" =>
                 schedules'[item'[p].schedule].status \in {"processing", "deleted"},
             pc'[p] = "finish" =>
                 /\ triggers'[item'[p].trigger].status # "unused"
                 /\ \A s \in ScheduleIds : schedules'[s].trigger = item'[p].trigger => ~IsLive(s)'
      PROVE  ClaimInv'
  BY <1>3 DEF ClaimInv, OneScheduler
<1>4. ASSUME UNCHANGED <<now, schedules>>
      PROVE  TablesInv' /\ OneLiveInv' /\ OneRowPerOccurrence'
  <2>1. TablesInv'
    BY <1>0, <1>1, <1>2, <1>4 DEF TablesInv, IsLive, KeepsTriggers
  <2>2. OneLiveInv' /\ OneRowPerOccurrence'
    BY <1>1, <1>4 DEF OneLiveInv, OneRowPerOccurrence, IsLive
  <2> QED BY <2>1, <2>2
<1>5. ASSUME NEW row \in Held(p), NEW n, UNCHANGED now,
             \/ Moved(row.schedule, "pending", n)
             \/ Moved(row.schedule, "processing", n)
             \/ Moved(row.schedule, "completed", n)
             \/ Moved(row.schedule, "cancelled", n)
      PROVE  /\ TablesInv' /\ OneLiveInv' /\ OneRowPerOccurrence'
             /\ IsLive(row.schedule)
             /\ \A other \in Held(p) \ {row} :
                   schedules'[other.schedule] = schedules[other.schedule]
  <2>1. schedules[row.schedule].status \in {"pending", "processing", "deleted"}
    BY <1>1 DEF ClaimInv, Held
  <2>2. IsLive(row.schedule)
    BY <1>5, <2>1 DEF Moved, ScheduleExists, IsLive
  <2>3. \A other \in Held(p) \ {row} : schedules'[other.schedule] = schedules[other.schedule]
    BY <1>0, <1>5 DEF Moved
  <2> QED BY <1>0, <1>1, <1>2, <1>5, <2>2, <2>3, MovedLive
<1>6. CASE UNCHANGED now /\ Polls(p)
  <2>1. PICK rows \in SUBSET DueRows : batch'[p] = {Snapshot(s) : s \in rows}
    BY <1>6 DEF Polls
  <2>2. \A s \in rows : Snapshot(s).schedule = s /\ schedules[s].status = "pending"
    BY DEF DueRows, Snapshot
  <2>3. UNCHANGED schedules /\ pc'[p] = "ready"
    BY <1>6 DEF Polls
  <2>4. ClaimInv'
    BY <1>3, <2>1, <2>2, <2>3
  <2> QED BY <1>4, <1>6, <2>3, <2>4 DEF LiveInv
<1>7. CASE UNCHANGED now /\ Marks(p)
  <2>1. PICK row \in batch[p] :
            /\ batch'[p] = batch[p] \ {row}
            /\ \/ /\ Moved(row.schedule, "processing", 0)
                  /\ pc'[p] = "firing" /\ item'[p] = row
               \/ /\ UNCHANGED schedules \/ Moved(row.schedule, "processing", 0)
                  /\ pc'[p] = "ready"
    BY <1>7 DEF Marks
  <2>2. row \in Held(p)
    BY <1>0
  <2>3. CASE Moved(row.schedule, "processing", 0)
    <3>1. /\ TablesInv' /\ OneLiveInv' /\ OneRowPerOccurrence'
          /\ \A other \in Held(p) \ {row} :
                schedules'[other.schedule] = schedules[other.schedule]
      BY <1>5, <1>7, <2>2, <2>3
    <3>2. schedules'[row.schedule].status = "processing"
      BY <2>3 DEF Moved
    <3>3. ClaimInv'
      BY <1>0, <1>1, <1>3, <2>1, <3>1, <3>2 DEF ClaimInv
    <3> QED BY <3>1, <3>3 DEF LiveInv
  <2>4. CASE UNCHANGED schedules /\ pc'[p] = "ready"
    <3>1. ClaimInv'
      BY <1>1, <1>3, <2>1, <2>4 DEF ClaimInv
    <3> QED BY <1>4, <1>7, <2>4, <3>1 DEF LiveInv
  <2> QED BY <2>1, <2>3, <2>4
<1>8. CASE UNCHANGED now /\ Settles(p)
  <2>1. /\ item[p] \in Held(p) /\ item[p] \notin batch[p] /\ batch'[p] = batch[p]
        /\ pc'[p] \in {"ready", "finish"}
    BY <1>0, <1>8 DEF Settles
  <2>2. CASE UNCHANGED schedules /\ pc'[p] = "ready"
    <3>1. ClaimInv'
      BY <1>1, <1>3, <2>1, <2>2 DEF ClaimInv
    <3> QED BY <1>4, <1>8, <2>2, <3>1 DEF LiveInv
  <2>3. ASSUME NEW to \in {"pending", "completed", "cancelled"}, NEW n \in {0, 1},
               Moved(item[p].schedule, to, n),
               \/ pc'[p] = "ready"
               \/ to = "completed" /\ pc'[p] = "finish" /\ item'[p] = item[p]
        PROVE  LiveInv'
    <3>1. /\ TablesInv' /\ OneLiveInv' /\ OneRowPerOccurrence'
          /\ IsLive(item[p].schedule)
          /\ \A other \in batch[p] : schedules'[other.schedule] = schedules[other.schedule]
      <4>1. \/ Moved(item[p].schedule, "pending", n)
            \/ Moved(item[p].schedule, "completed", n)
            \/ Moved(item[p].schedule, "cancelled", n)
        BY <2>3
      <4> QED BY <1>0, <1>5, <1>8, <2>1, <4>1
    <3>2. ASSUME pc'[p] = "finish"
          PROVE  /\ triggers'[item'[p].trigger].status # "unused"
                 /\ \A s \in ScheduleIds : schedules'[s].trigger = item'[p].trigger => ~IsLive(s)'
      <4>1. /\ to = "completed" /\ item'[p] = item[p]
            /\ schedules[item[p].schedule].trigger = item[p].trigger
            /\ item[p].schedule \in ScheduleIds /\ item[p].trigger \in TriggerIds
        BY <1>0, <2>1, <2>3, <3>2
      <4>2. triggers[item[p].trigger].status # "unused"
        BY <1>1, <3>1, <4>1 DEF TablesInv, IsLive
      <4>3. ASSUME NEW s \in ScheduleIds, schedules'[s].trigger = item[p].trigger, IsLive(s)'
            PROVE  FALSE
        <5>1. s # item[p].schedule
          BY <2>3, <4>1, <4>3 DEF Moved, IsLive
        <5>2. schedules'[s] = schedules[s]
          BY <2>3, <5>1 DEF Moved
        <5>3. IsLive(s) /\ schedules[s].trigger = item[p].trigger
          BY <4>3, <5>2 DEF IsLive
        <5> QED BY <1>1, <3>1, <4>1, <5>1, <5>3 DEF OneLiveInv
      <4> QED BY <1>2, <4>1, <4>2, <4>3 DEF KeepsTriggers
    <3>3. ClaimInv'
      BY <1>1, <1>3, <2>1, <3>1, <3>2 DEF ClaimInv
    <3> QED BY <3>1, <3>3 DEF LiveInv
  <2> QED BY <1>8, <2>2, <2>3 DEF Settles
<1>9. CASE UNCHANGED now /\ Plans(p)
  <2>1. pc'[p] = "ready" /\ batch'[p] = batch[p] /\ pc[p] = "finish"
    BY <1>9 DEF Plans
  <2>2. CASE UNCHANGED schedules
    <3>1. ClaimInv'
      BY <1>1, <1>3, <2>1, <2>2 DEF ClaimInv
    <3> QED BY <1>4, <1>9, <2>2, <3>1 DEF LiveInv
  <2>3. ASSUME NEW x \in ScheduleIds, NEW at \in Nat, at > now, schedules[x].status = "unused",
               TriggerExists(item[p].trigger),
               schedules' = [schedules EXCEPT ![x] = NewSchedule(item[p].trigger, at)]
        PROVE  LiveInv'
    <3> PICK t \in TriggerIds : t = item[p].trigger
      BY <1>0, <2>1
    <3>1. /\ schedules'[x].trigger = t /\ schedules'[x].status = "pending"
          /\ schedules'[x].fireAt = at
          /\ \A s \in ScheduleIds \ {x} : schedules'[s] = schedules[s]
      BY <1>0, <2>1, <2>3 DEF NewSchedule
    <3>2. \A s \in ScheduleIds : schedules[s].trigger = t =>
             /\ ~IsLive(s) /\ schedules[s].status # "unused" /\ schedules[s].fireAt <= now
      <4> SUFFICES ASSUME NEW s \in ScheduleIds, schedules[s].trigger = t
                   PROVE  ~IsLive(s) /\ schedules[s].status # "unused"
                                     /\ schedules[s].fireAt <= now
        OBVIOUS
      <4>1. ~IsLive(s) /\ schedules[s].status # "unused"
        BY <1>1, <2>1, <3>1, StorageAssumption DEF ClaimInv, UnusedInv
      <4>2. schedules[s].status \in {"completed", "cancelled"}
        BY <1>0, <1>1, <2>3, <4>1 DEF TablesInv, IsLive, ScheduleRow
      <4> QED BY <1>1, <4>1, <4>2 DEF TablesInv
    <3>3. TablesInv'
      <4> SUFFICES ASSUME NEW s \in ScheduleIds
                   PROVE  /\ schedules'[s].status # "unused" =>
                                triggers'[schedules'[s].trigger].status # "unused"
                          /\ IsLive(s)' => TriggerExists(schedules[s].trigger)'
                          /\ schedules'[s].status = "deleted" =>
                                ~TriggerExists(schedules[s].trigger)'
                          /\ schedules'[s].status \in {"completed", "cancelled"} =>
                                schedules'[s].fireAt <= now'
        BY DEF TablesInv
      <4>1. CASE s = x
        <5>1. TriggerExists(t) /\ TriggerExists(t)' /\ triggers'[t].status # "unused"
          BY <1>2, <2>3, <3>1 DEF KeepsTriggers, TriggerExists
        <5> QED BY <3>1, <4>1, <5>1 DEF TriggerExists
      <4>2. CASE s # x
        BY <1>0, <1>1, <1>2, <1>9, <3>1, <4>2 DEF TablesInv, IsLive, KeepsTriggers
      <4> QED BY <4>1, <4>2
    <3>4. OneLiveInv'
      BY <1>1, <3>1, <3>2 DEF OneLiveInv, IsLive
    <3>5. OneRowPerOccurrence'
      <4>1. \A s \in ScheduleIds : schedules[s].trigger = t => schedules[s].fireAt # at
        BY <1>0, <2>3, <3>2 DEF ScheduleRow
      <4> QED BY <1>1, <3>1, <4>1 DEF OneRowPerOccurrence
    <3>6. ClaimInv'
      <4>1. \A row \in batch[p] : schedules'[row.schedule] = schedules[row.schedule]
        BY <1>0, <2>3, <3>1
      <4> QED BY <1>1, <1>3, <2>1, <4>1 DEF ClaimInv
    <3> QED BY <3>3, <3>4, <3>5, <3>6 DEF LiveInv
  <2> QED BY <1>9, <2>2, <2>3 DEF Plans
<1>10. CASE Crash(p)
  <2>1. batch'[p] = {} /\ pc'[p] = "ready" /\ UNCHANGED <<now, schedules>>
    BY <1>0, <1>10 DEF Crash, NextRow
  <2>2. ClaimInv'
    BY <1>3, <2>1
  <2> QED BY <1>4, <2>1, <2>2 DEF LiveInv
<1> QED BY <1>6, <1>7, <1>8, <1>9, <1>10, EngineEffect

SingleInv == AttemptsInv /\ RequestsInv /\ LiveInv

\* Nothing is planned or requested before the first step.
LEMMA InitSingle == Init => SingleInv
<1> SUFFICES ASSUME Init PROVE SingleInv
  OBVIOUS
<1>1. AttemptsInv
  BY InitAttempts
<1>2. RequestsInv
  BY DEF Init, RequestInit, NoRequest, RequestsInv
<1>3. LiveInv
  BY DEF Init, StorageInit, EngineInit, LiveInv, TablesInv, OneLiveInv, OneRowPerOccurrence,
         ClaimInv, IsLive
<1> QED BY <1>1, <1>2, <1>3 DEF SingleInv

\* Every step keeps it.
LEMMA NextSingle ==
    OneScheduler /\ NoConfigUpdates /\ SingleInv /\ [Next]_vars => SingleInv'
<1> SUFFICES ASSUME OneScheduler, NoConfigUpdates, SingleInv, [Next]_vars PROVE SingleInv'
  OBVIOUS
<1>1. TypeInv /\ UnusedInv /\ RowsInv /\ RequestsInv /\ LiveInv
  BY DEF SingleInv, AttemptsInv, OneSchedulerInv
<1>2. AttemptsInv'
  BY NextAttempts DEF SingleInv
<1>3. RequestsInv'
  BY <1>1, NextRequests
<1>4. now' \in Nat
  BY <1>2, StorageAssumption DEF AttemptsInv, OneSchedulerInv, TypeInv, StorageOK
<1>5. LiveInv'
  BY <1>1, <1>4, StepKinds, AsideLive, EngineLive
<1> QED BY <1>2, <1>3, <1>5 DEF SingleInv

\* A trigger has at most one run ahead of it: the scheduler plans the next one when the
\* last has ended, whatever statement fails and wherever the process dies.
THEOREM OneRunAhead ==
    ASSUME OneScheduler, NoConfigUpdates
    PROVE  Spec => []OneLiveSchedule
<1>1. SingleInv => OneLiveSchedule
  <2> SUFFICES ASSUME OneLiveInv, NEW t \in TriggerIds
               PROVE  Cardinality({s \in SchedulesOf(t) : IsLive(s)}) <= 1
    BY DEF SingleInv, LiveInv, OneLiveSchedule
  <2> DEFINE live == {s \in SchedulesOf(t) : IsLive(s)}
  <2>1. \A r, s \in live : r = s
    BY DEF SchedulesOf, OneLiveInv
  <2>2. live = {} \/ \E s : live = {s}
    BY <2>1
  <2> HIDE DEF live
  <2>3. Cardinality(live) = 0 \/ Cardinality(live) = 1
    <3>1. CASE live = {}
      BY <3>1, FS_EmptySet
    <3>2. ASSUME NEW s, live = {s} PROVE Cardinality(live) = 1
      <4>1. Cardinality({s}) = 1
        BY FS_Singleton
      <4> QED BY <3>2, <4>1
    <3> QED BY <2>2, <3>1, <3>2
  <2>4. Cardinality(live) <= 1
    BY <2>3
  <2> QED BY <2>4 DEF live
<1> QED BY <1>1, InitSingle, NextSingle, PTL DEF Spec

\* No occurrence of a trigger is scheduled twice: the next run is computed from the time
\* after the firing, when everything that was planned has been due.
THEOREM OccurrencesScheduledOnce ==
    ASSUME OneScheduler, NoConfigUpdates
    PROVE  Spec => []OneRowPerOccurrence
<1>1. SingleInv => OneRowPerOccurrence
  BY DEF SingleInv, LiveInv
<1> QED BY <1>1, InitSingle, NextSingle, PTL DEF Spec

----------------------------------------------------------------------------
(* What updates alone can break.                                           *)

\* A cancelled schedule never fires, whatever fails, if no config is updated: only an
\* update withdraws a row that the scheduler may have in its batch.
THEOREM CancelledStays ==
    ASSUME OneScheduler, NoConfigUpdates
    PROVE  Spec => CancelledIsFinal
<1>1. SingleInv /\ [Next]_vars =>
          [\A s \in ScheduleIds : schedules[s].status = "cancelled" =>
              schedules'[s].status \in {"cancelled", "deleted"}]_vars
  <2> SUFFICES ASSUME SingleInv, [Next]_vars, NEW s \in ScheduleIds,
                      schedules[s].status = "cancelled"
               PROVE  schedules'[s].status \in {"cancelled", "deleted"}
    OBVIOUS
  <2>1. TypeInv /\ UnusedInv /\ ClaimInv
    BY DEF SingleInv, AttemptsInv, OneSchedulerInv, LiveInv
  <2>2. CASE Aside
    BY <2>2 DEF Aside, IsLive
  <2>3. ASSUME NEW x, NEW to, NEW n, Moved(x, to, n), schedules[x].status # "cancelled"
        PROVE  schedules'[s] = schedules[s]
    BY <2>3 DEF Moved
  <2>4. schedules \in [ScheduleIds -> ScheduleRow]
    BY <2>1, RowFacts
  <2>5. ASSUME NEW p \in Schedulers, EngineStep(p) \/ Crash(p)
        PROVE  schedules'[s] = schedules[s]
    <3>1. CASE UNCHANGED schedules
      BY <3>1
    <3>2. CASE Marks(p)
      BY <2>1, <2>3, <3>1, <3>2 DEF Marks, ClaimInv
    <3>3. CASE Settles(p)
      BY <2>1, <2>3, <3>1, <3>3 DEF Settles, ClaimInv
    <3>4. CASE Plans(p)
      <4>1. CASE UNCHANGED schedules
        BY <3>1, <4>1
      <4>2. PICK x, row : \/ UNCHANGED schedules
                          \/ /\ schedules[x].status = "unused"
                             /\ schedules' = [schedules EXCEPT ![x] = row]
        BY <3>4 DEF Plans
      <4> QED BY <2>4, <4>1, <4>2
    <3> QED BY <2>1, <2>5, <3>1, <3>2, <3>3, <3>4, EngineEffect DEF Polls, Crash
  <2> QED BY <2>1, <2>2, <2>5, StepEffect
<1> QED BY <1>1, InitSingle, NextSingle, PTL DEF Spec, CancelledIsFinal

\* Nor of a status.
NoPauses == "status" \notin Ops

\* No PUT has anything to change.
NoUpdatesInv == \A r \in Requests : req[r].pc \in Done

\* A trigger is paused by the engine only, when its one run is over.
ActiveInv ==
    \A t \in TriggerIds : triggers[t].status = "inactive" =>
        TypeOf[t] = "time_scheduled" /\ \A s \in SchedulesOf(t) : ~IsLive(s)

\* No request goes on to a second statement.
LEMMA NextNoUpdates ==
    ASSUME NoConfigUpdates, NoPauses, TypeInv, NoUpdatesInv, [Next]_vars
    PROVE  NoUpdatesInv'
<1>0. req \in [Requests -> RequestType]
  BY DEF TypeInv, RequestsOK, RequestTypeOK
<1>1. CASE UNCHANGED req
  BY <1>1 DEF NoUpdatesInv
<1>2. ASSUME NEW r \in Requests, ClientStep(r) \/ UpdateStep(r) PROVE NoUpdatesInv'
  <2>1. ~UpdateStep(r)
    BY DEF NoUpdatesInv, UpdateStep, WriteTrigger, WriteSchedule, Respond, Done
  <2>2. ~BeginUpdate(r)
    BY DEF BeginUpdate, NoConfigUpdates, NoPauses
  <2>3. CASE Finish(r, "ok")
    BY <1>0, <2>3 DEF Finish, NoUpdatesInv, Done
  <2> QED BY <1>1, <1>2, <2>1, <2>2, <2>3 DEF ClientStep, Create, Delete, Disconnect
<1>3. CASE ServerStep
  BY <1>3 DEF ServerStep, BeginShutdown, EndShutdown, Kill, StartServer, Exit, NoUpdatesInv,
              NoRequest, Done
<1>4. CASE ClockStep \/ (\E c \in Callers : EventStep(c)) \/ UNCHANGED vars
  BY <1>1, <1>4 DEF ClockStep, EventStep, apiVars, vars
<1>5. CASE \E p \in Schedulers : EngineStep(p) \/ EngineFault(p)
  BY <1>1, <1>5 DEF EngineStep, EngineFault, apiVars
<1>6. CASE \E h \in Hooks : WebhookStep(h)
  BY <1>1, <1>6 DEF WebhookStep
<1> QED BY <1>2, <1>3, <1>4, <1>5, <1>6 DEF Next

\* The engine gives no run to a trigger that is paused.
LEMMA EngineActive ==
    ASSUME SingleInv, ActiveInv, NEW p \in Schedulers, EngineStep(p)
    PROVE  ActiveInv'
<1>0. /\ TypeInv /\ ClaimInv
      /\ triggers \in [TriggerIds -> TriggerRow] /\ schedules \in [ScheduleIds -> ScheduleRow]
      /\ \A s \in ScheduleIds : schedules[s].status # "unused" =>
            schedules[s].trigger \in TriggerIds
  BY RowFacts DEF SingleInv, LiveInv, AttemptsInv, OneSchedulerInv, TypeInv, StorageOK,
                  SchedulesOK
<1>1. CASE DeactivateOneTime(p)
  <2>1. /\ pc[p] = "finish" /\ TypeOf[item[p].trigger] = "time_scheduled"
        /\ UNCHANGED schedules
    BY <1>1 DEF DeactivateOneTime
  <2>2. PICK t : /\ t = item[p].trigger
                 /\ \/ UNCHANGED triggers
                    \/ triggers' = [triggers EXCEPT ![t].status = "inactive"]
    BY <1>1 DEF DeactivateOneTime, DeactivateTrigger
  <2>3. TypeOf[t] = "time_scheduled" /\ \A s \in SchedulesOf(t) : ~IsLive(s)
    BY <1>0, <2>1, <2>2 DEF ClaimInv, SchedulesOf
  <2> QED BY <1>0, <2>1, <2>2, <2>3 DEF ActiveInv, SchedulesOf, IsLive
<1>2. CASE ~DeactivateOneTime(p)
  <2>1. UNCHANGED triggers
    BY <1>2 DEF EngineStep, Poll, MarkProcessing, RetryLater, CancelAfterMaxRetries, Complete,
                ScheduleNextRun, storageVars
  <2>2. CASE UNCHANGED schedules
    BY <2>1, <2>2 DEF ActiveInv, SchedulesOf, IsLive
  <2>3. ASSUME NEW x, NEW to, NEW n, Moved(x, to, n),
               schedules[x].status \in {"pending", "processing", "deleted"}
        PROVE  ActiveInv'
    <3>1. IsLive(x)
      BY <2>3 DEF Moved, ScheduleExists, IsLive
    <3>2. \A s \in ScheduleIds : IsLive(s)' => IsLive(s) /\ schedules'[s].trigger = schedules[s].trigger
      BY <2>3, <3>1 DEF Moved, IsLive
    <3> QED BY <2>1, <3>2 DEF ActiveInv, SchedulesOf
  <2>4. CASE Plans(p) /\ ~UNCHANGED schedules
    <3>1. TypeOf[item[p].trigger] = "cron_scheduled"
      BY <1>2, <2>4 DEF Plans, EngineStep, Poll, MarkProcessing, RetryLater,
                   CancelAfterMaxRetries, FireFailed, Complete, ScheduleNextRun
    <3>2. PICK s \in ScheduleIds, at \in Nat :
             schedules' = [schedules EXCEPT ![s] = NewSchedule(item[p].trigger, at)]
      BY <2>4 DEF Plans
    <3>3. schedules'[s].trigger = item[p].trigger
      BY <1>0, <3>2 DEF NewSchedule
    <3>4. \A r \in ScheduleIds \ {s} : schedules'[r] = schedules[r]
      BY <1>0, <3>2
    <3> QED BY <2>1, <3>1, <3>3, <3>4 DEF ActiveInv, SchedulesOf, IsLive
  <2>5. CASE Marks(p)
    BY <1>0, <2>2, <2>3, <2>5 DEF Marks, ClaimInv
  <2>6. CASE Settles(p)
    BY <1>0, <2>2, <2>3, <2>6 DEF Settles, ClaimInv
  <2> QED BY <1>0, <2>2, <2>4, <2>5, <2>6, EngineEffect DEF Polls
<1> QED BY <1>1, <1>2

\* What else changes a table creates a trigger or deletes one.
LEMMA NoUpdateKinds ==
    ASSUME NoConfigUpdates, NoPauses, SingleInv, NoUpdatesInv, [Next]_vars
    PROVE  \/ UNCHANGED <<triggers, schedules>> \/ Creates \/ Deletes
           \/ \E p \in Schedulers : EngineStep(p)
<1>0. /\ TypeInv /\ RequestsInv /\ triggers \in [TriggerIds -> TriggerRow]
  BY DEF SingleInv, AttemptsInv, OneSchedulerInv, TypeInv, StorageOK
<1>1. ASSUME NEW r \in Requests, ClientStep(r) \/ UpdateStep(r)
      PROVE  UNCHANGED <<triggers, schedules>> \/ Creates \/ Deletes
  <2>1. ~UpdateStep(r)
    BY DEF NoUpdatesInv, UpdateStep, WriteTrigger, WriteSchedule, Respond, Done
  <2>2. CASE Create(r)
    <3>1. \E t \in TriggerIds : triggers[t].status = "unused" /\ triggers'[t].status = "active"
      BY <1>0, <2>2, FreshId DEF Create, CreateTrigger
    <3> QED BY <1>0, <1>1, <3>1, ClientTables DEF KeepsTriggers
  <2>3. CASE Delete(r)
    <3>1. \E t \in TriggerIds : TriggerExists(t) /\ triggers'[t].status = "deleted"
      BY <1>0, <2>3 DEF Delete, DeleteTrigger, TriggerRow
    <3> QED BY <1>0, <1>1, <3>1, ClientTables DEF KeepsTriggers, TriggerExists
  <2> QED BY <1>1, <2>1, <2>2, <2>3 DEF ClientStep, BeginUpdate, Disconnect, storageVars
<1>2. \A p \in Schedulers : Crash(p) => UNCHANGED <<triggers, schedules>>
  BY DEF Crash
<1> QED BY <1>0, <1>1, <1>2, OtherTables DEF Next

\* Nobody else pauses one.
LEMMA NextActive ==
    ASSUME NoConfigUpdates, NoPauses, SingleInv, NoUpdatesInv, ActiveInv, [Next]_vars
    PROVE  ActiveInv'
<1>0. schedules \in [ScheduleIds -> ScheduleRow]
  BY RowFacts DEF SingleInv, AttemptsInv, OneSchedulerInv
<1>1. CASE UNCHANGED <<triggers, schedules>>
  BY <1>1 DEF ActiveInv, SchedulesOf, IsLive
<1>2. CASE Creates
  <2>1. PICK t \in TriggerIds :
           /\ triggers'[t].status = "active"
           /\ \A u \in TriggerIds \ {t} : triggers'[u] = triggers[u]
           /\ \/ UNCHANGED schedules
              \/ \E s \in ScheduleIds, at \in Nat :
                    schedules' = [schedules EXCEPT ![s] = NewSchedule(t, at)]
    BY <1>2 DEF Creates
  <2>2. \A s \in ScheduleIds : schedules'[s] = schedules[s] \/ schedules'[s].trigger = t
    BY <1>0, <2>1 DEF NewSchedule
  <2> QED BY <2>1, <2>2 DEF ActiveInv, SchedulesOf, IsLive
<1>3. CASE Deletes
  <2>1. PICK t \in TriggerIds :
           /\ triggers'[t].status = "deleted"
           /\ \A u \in TriggerIds \ {t} : triggers'[u] = triggers[u]
           /\ schedules' = [s \in ScheduleIds |->
                               IF s \in SchedulesOf(t)
                               THEN [schedules[s] EXCEPT !.status = "deleted"]
                               ELSE schedules[s]]
    BY <1>3 DEF Deletes
  <2>2. \A s \in ScheduleIds : schedules'[s] = schedules[s] \/ ~IsLive(s)'
    BY <1>0, <2>1 DEF IsLive, ScheduleRow
  <2> QED BY <2>1, <2>2 DEF ActiveInv, SchedulesOf, IsLive
<1> QED BY <1>1, <1>2, <1>3, EngineActive, NoUpdateKinds

\* While no client updates a trigger, the one-time triggers are deactivated by the engine
\* alone and nobody's firing starts on a paused trigger, whatever fails: the rows of a
\* batch are stale in no other way.
THEOREM PausedNeverFires ==
    ASSUME OneScheduler, NoConfigUpdates, NoPauses
    PROVE  Spec => PausedDoesNotFire
<1> DEFINE Inv == SingleInv /\ NoUpdatesInv /\ ActiveInv
<1>1. Init => Inv
  BY InitSingle DEF Init, StorageInit, RequestInit, NoRequest, NoUpdatesInv, ActiveInv, Done
<1>2. Inv /\ [Next]_vars => Inv'
  BY NextSingle, NextNoUpdates, NextActive DEF SingleInv, AttemptsInv, OneSchedulerInv
<1>3. Inv /\ [Next]_vars =>
          [\A p \in Schedulers : pc[p] = "ready" /\ pc'[p] = "firing" =>
              triggers[item'[p].trigger].status = "active"]_vars
  <2> SUFFICES ASSUME Inv, [Next]_vars, NEW p \in Schedulers, pc[p] = "ready", pc'[p] = "firing"
               PROVE  triggers[item'[p].trigger].status = "active"
    OBVIOUS
  <2>1. /\ TypeInv /\ UnusedInv /\ RowsInv /\ ClaimInv /\ TablesInv
        /\ pc \in [Schedulers -> {"ready", "firing", "finish"}]
        /\ \A row \in batch[p] : row.schedule \in ScheduleIds /\ row.trigger \in TriggerIds
    BY CallFacts, RowFacts DEF SingleInv, AttemptsInv, OneSchedulerInv, LiveInv, SnapshotType
  <2>2. EngineStep(p)
    <3>1. ~Aside
      BY DEF Aside
    <3>2. PICK q \in Schedulers : EngineStep(q) \/ Crash(q)
      BY <2>1, <3>1, StepEffect
    <3>3. q = p /\ ~Crash(q)
      BY <2>1, <3>2 DEF OneScheduler, Crash, NextRow
    <3> QED BY <3>2, <3>3
  <2>3. Marks(p)
    BY <2>1, <2>2, EngineEffect DEF Polls, Settles, Plans
  <2>4. PICK row \in batch[p] : Moved(row.schedule, "processing", 0) /\ item'[p] = row
    BY <2>3 DEF Marks
  <2>5. /\ schedules[row.schedule].status = "pending"
        /\ schedules[row.schedule].trigger = row.trigger
    BY <2>1, <2>4 DEF ClaimInv, Moved, ScheduleExists, RowsInv, Held
  <2>6. TriggerExists(row.trigger) /\ triggers[row.trigger].status # "inactive"
    BY <2>1, <2>5 DEF TablesInv, ActiveInv, IsLive, SchedulesOf
  <2> QED BY <2>4, <2>6 DEF TriggerExists
<1> HIDE DEF Inv
<1> QED BY <1>1, <1>2, <1>3, PTL DEF Spec, PausedDoesNotFire

\* Nor does the engine drop a run that is still pending: an update of run_at, while the
\* run before it fires, is the only way to get there.
THEOREM PendingRunKept ==
    ASSUME OneScheduler, NoConfigUpdates, NoPauses
    PROVE  Spec => PendingRunIsNotDropped
<1> DEFINE Inv == SingleInv /\ NoUpdatesInv /\ ActiveInv
<1>1. Init => Inv
  BY InitSingle DEF Init, StorageInit, RequestInit, NoRequest, NoUpdatesInv, ActiveInv, Done
<1>2. Inv /\ [Next]_vars => Inv'
  BY NextSingle, NextNoUpdates, NextActive DEF SingleInv, AttemptsInv, OneSchedulerInv
<1>3. Inv /\ [Next]_vars =>
          [\A t \in TriggerIds :
              /\ TypeOf[t] = "time_scheduled"
              /\ triggers[t].status = "active" /\ triggers'[t].status = "inactive"
              => \A s \in SchedulesOf(t) : schedules[s].status # "pending"]_vars
  <2> SUFFICES ASSUME Inv, [Next]_vars, NEW t \in TriggerIds,
                      triggers[t].status = "active", triggers'[t].status = "inactive",
                      NEW s \in SchedulesOf(t), schedules[s].status = "pending"
               PROVE  FALSE
    OBVIOUS
  <2>1. /\ ClaimInv /\ triggers \in [TriggerIds -> TriggerRow]
        /\ IsLive(s) /\ s \in ScheduleIds /\ schedules[s].trigger = t
    BY DEF SingleInv, AttemptsInv, OneSchedulerInv, TypeInv, StorageOK, LiveInv, IsLive,
           SchedulesOf
  <2>2. PICK p \in Schedulers : EngineStep(p)
    BY NoUpdateKinds DEF Creates, Deletes
  <2>3. DeactivateOneTime(p)
    BY <2>2 DEF EngineStep, Poll, MarkProcessing, RetryLater, CancelAfterMaxRetries, Complete,
                ScheduleNextRun, storageVars
  <2>4. PICK u : u = item[p].trigger /\ triggers' = [triggers EXCEPT ![u].status = "inactive"]
    BY <2>3 DEF DeactivateOneTime, DeactivateTrigger
  <2>5. u = t
    BY <2>1, <2>4
  <2> QED BY <2>1, <2>3, <2>4, <2>5 DEF DeactivateOneTime, ClaimInv
<1> HIDE DEF Inv
<1> QED BY <1>1, <1>2, <1>3, PTL DEF Spec, PendingRunIsNotDropped
=============================================================================
