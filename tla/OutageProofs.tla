---------------------------- MODULE OutageProofs ----------------------------
(***************************************************************************)
(* When Kafka fails and nothing else does, the log tells the truth and no  *)
(* schedule is left behind, for any number of schedulers and clients.  The *)
(* API may be shut down gracefully meanwhile.                              *)
(***************************************************************************)
EXTENDS DeliveryProofs

OnlyKafkaFails == Faults \subseteq {"kafka", "apishutdown"}

\* Who is not firing has no call under way.
IdleInv ==
    /\ \A p \in Schedulers : pc[p] # "firing" => call[p].pc = "none"
    /\ \A h \in Hooks : hook[h].pc # "firing" => call[h].pc = "none"

\* A schedule is "processing" only while some scheduler fires it: whoever stops firing
\* it moves it on, even if another one has it too.
ProcessingInv ==
    \A s \in ScheduleIds : schedules[s].status = "processing" =>
        \E p \in Schedulers : pc[p] = "firing" /\ item[p].schedule = s

OutageInv ==
    /\ DeliveryInv
    /\ cancelled = {}
    /\ IdleInv
    /\ ProcessingInv
    /\ LoggedSuccessWasPublished

\* A step that drops no call between its log entry and its end.
KeepsCalls ==
    \A c \in Callers : call[c].pc \in {"publish", "markfailed"} => call'[c] = call[c]

----------------------------------------------------------------------------
(* The calls.                                                              *)

\* The types that the steps below need.
LEMMA CallFacts ==
    ASSUME TypeInv
    PROVE  /\ call \in [Callers -> CallType]
           /\ pc \in [Schedulers -> {"ready", "firing", "finish"}]
           /\ item \in [Schedulers -> SnapshotType \cup {Null}]
           /\ hook \in [Hooks -> HookType]
           /\ Schedulers \subseteq Callers /\ Hooks \subseteq Callers
           /\ Schedulers \cap Hooks = {}
BY StorageAssumption
   DEF TypeInv, CallsOK, EventTypeOK, EngineOK, EngineTypeOK, HookTypeOK, Callers

\* An engine calls when it is idle, and takes the result of a call that is over.
LEMMA EngineStepIdle ==
    ASSUME TypeInv, IdleInv, NEW p \in Schedulers, EngineStep(p)
    PROVE  IdleInv' /\ KeepsCalls
<1>0. /\ call \in [Callers -> CallType]
      /\ pc \in [Schedulers -> {"ready", "firing", "finish"}]
      /\ p \in Callers /\ p \notin Hooks
      /\ Schedulers \subseteq Callers /\ Hooks \subseteq Callers
  BY CallFacts
<1>1. UNCHANGED hook
  BY DEF EngineStep, apiVars
<1>2. CASE UNCHANGED <<call, pc>>
  BY <1>1, <1>2 DEF IdleInv, KeepsCalls
<1>3. CASE \E t, s : FireTrigger(p, t, s) /\ pc[p] = "ready" /\ pc' = [pc EXCEPT ![p] = "firing"]
  <2>1. call[p].pc = "none"
    BY <1>3 DEF IdleInv
  <2>2. \A c \in Callers \ {p} : call'[c] = call[c]
    BY <1>0, <1>3 DEF FireTrigger
  <2>3. pc'[p] = "firing" /\ \A q \in Schedulers \ {p} : pc'[q] = pc[q]
    BY <1>0, <1>3
  <2> QED BY <1>0, <1>1, <2>1, <2>2, <2>3 DEF IdleInv, KeepsCalls
<1>4. CASE /\ Return(p) /\ call[p].pc \in {"ok", "failed"}
           /\ \E to : pc' = [pc EXCEPT ![p] = to]
  <2>1. call'[p].pc = "none" /\ \A c \in Callers \ {p} : call'[c] = call[c]
    BY <1>0, <1>4 DEF Return, NoCall
  <2>2. \A q \in Schedulers \ {p} : pc'[q] = pc[q]
    BY <1>0, <1>4
  <2> QED BY <1>0, <1>1, <1>4, <2>1, <2>2 DEF IdleInv, KeepsCalls
<1>5. CASE UNCHANGED call /\ pc[p] = "finish" /\ pc' = [pc EXCEPT ![p] = "ready"]
  BY <1>0, <1>1, <1>5 DEF IdleInv, KeepsCalls
<1>6. CASE MarkProcessing(p)
  BY <1>2, <1>3, <1>6 DEF MarkProcessing
<1>7. CASE RetryLater(p) \/ CancelAfterMaxRetries(p)
  BY <1>4, <1>7 DEF RetryLater, CancelAfterMaxRetries, FireFailed, NextRow
<1>8. CASE Complete(p)
  BY <1>4, <1>8 DEF Complete, NextRow
<1>9. CASE Poll(p) \/ DeactivateOneTime(p) \/ ScheduleNextRun(p)
  BY <1>2, <1>5, <1>9 DEF Poll, DeactivateOneTime, ScheduleNextRun, NextRow, eventVars
<1> QED BY <1>6, <1>7, <1>8, <1>9 DEF EngineStep

\* A handler calls once and answers when the call is over.
LEMMA WebhookStepIdle ==
    ASSUME TypeInv, IdleInv, NEW h \in Hooks, WebhookStep(h)
    PROVE  IdleInv' /\ KeepsCalls
<1>0. /\ call \in [Callers -> CallType]
      /\ hook \in [Hooks -> HookType]
      /\ h \in Callers /\ h \notin Schedulers
      /\ Schedulers \subseteq Callers /\ Hooks \subseteq Callers
  BY CallFacts
<1>1. UNCHANGED pc
  BY DEF WebhookStep, engineVars
<1>2. CASE ReceiveWebhook(h)
  <2>1. hook[h].pc # "firing" /\ call[h].pc = "none"
    BY <1>2 DEF ReceiveWebhook, IdleInv
  <2>2. \A c \in Callers \ {h} : call'[c] = call[c]
    BY <1>0, <1>2 DEF ReceiveWebhook, FireTrigger
  <2>3. hook'[h].pc = "firing" /\ \A g \in Hooks \ {h} : hook'[g] = hook[g]
    BY <1>0, <1>2 DEF ReceiveWebhook, NoHook
  <2> QED BY <1>0, <1>1, <2>1, <2>2, <2>3 DEF IdleInv, KeepsCalls
<1>3. CASE Reply(h)
  <2>1. /\ call[h].pc \in {"ok", "failed"} /\ call'[h].pc = "none"
        /\ \A c \in Callers \ {h} : call'[c] = call[c]
    BY <1>0, <1>3 DEF Reply, Return, NoCall
  <2>2. \A g \in Hooks \ {h} : hook'[g] = hook[g]
    BY <1>0, <1>3 DEF Reply
  <2> QED BY <1>0, <1>1, <2>1, <2>2 DEF IdleInv, KeepsCalls
<1>4. CASE HangUp(h)
  BY <1>1, <1>4 DEF HangUp, eventVars, IdleInv, KeepsCalls
<1> QED BY <1>2, <1>3, <1>4 DEF WebhookStep

\* The API process ends only when none of its handlers is calling.
LEMMA ServerStepIdle ==
    ASSUME OnlyKafkaFails, TypeInv, IdleInv, ServerStep
    PROVE  IdleInv' /\ KeepsCalls
<1>0. /\ call \in [Callers -> CallType]
      /\ hook \in [Hooks -> HookType]
      /\ Schedulers \subseteq Callers /\ Hooks \subseteq Callers
      /\ Schedulers \cap Hooks = {}
  BY CallFacts
<1>1. UNCHANGED pc
  BY DEF ServerStep, engineVars
<1>2. CASE EndShutdown
  <2>1. \A h \in Hooks : hook[h].pc # "firing" /\ call[h].pc = "none"
    BY <1>2 DEF EndShutdown, Drained, IdleInv
  <2>2. \A c \in Callers : call'[c] = IF c \in Hooks THEN NoCall ELSE call[c]
    BY <1>2 DEF EndShutdown, Exit
  <2>3. NoCall.pc = "none"
    BY DEF NoCall
  <2>4. KeepsCalls
    BY <2>1, <2>2 DEF KeepsCalls
  <2>5. IdleInv'
    BY <1>0, <1>1, <2>2, <2>3 DEF IdleInv
  <2> QED BY <2>4, <2>5
<1>3. ~Kill
  BY DEF Kill, OnlyKafkaFails
<1>4. CASE BeginShutdown \/ StartServer
  BY <1>1, <1>4 DEF BeginShutdown, StartServer, eventVars, IdleInv, KeepsCalls
<1> QED BY <1>2, <1>3, <1>4 DEF ServerStep

----------------------------------------------------------------------------
(* The log.                                                                *)

\* A step that writes no event's status keeps the log true.
LEMMA QuietStepLog ==
    ASSUME LoggedSuccessWasPublished, QuietStep, KeepsCalls
    PROVE  LoggedSuccessWasPublished'
<1>1. \A e : InFlight(e) => InFlight(e)'
  BY DEF InFlight, KeepsCalls
<1> QED BY <1>1 DEF LoggedSuccessWasPublished, QuietStep

\* FireTrigger logs a success only for a call in flight, and corrects it when the
\* publish fails: nothing can stop it from that.
LEMMA EventStepLog ==
    ASSUME OnlyKafkaFails, TypeInv, CallsInv, cancelled = {}, LoggedSuccessWasPublished,
           NEW c \in Callers, EventStep(c)
    PROVE  LoggedSuccessWasPublished'
<1>0. /\ call \in [Callers -> CallType]
      /\ eventLogs \in [EventIds -> EventRow]
      /\ call[c].pc \in {"publish", "markfailed"} => call[c].event \in EventIds
  BY DEF TypeInv, CallsOK, EventTypeOK, StorageOK
<1>1. ~Refused(c, FALSE) /\ "db" \notin Faults
  BY DEF OnlyKafkaFails, Refused
<1>2. \A d \in Callers \ {c} : call'[d] = call[d]
  BY <1>0 DEF EventStep, LogEvent, PublishAcked, PublishFailed, MarkFailed
<1>3. \A e : InFlight(e) /\ ~InFlight(e)' => call[c].pc \in {"publish", "markfailed"}
                                           /\ e = call[c].event
  BY <1>2 DEF InFlight
<1>4. CASE LogEvent(c)
  <2>1. PICK e \in Fresh(eventLogs), ok \in BOOLEAN :
           /\ CreateEventLog(c, e, call[c].trigger, call[c].schedule, ok)
           /\ call' = IF ok THEN [call EXCEPT ![c].pc = "publish", ![c].event = e]
                            ELSE [call EXCEPT ![c].pc = "failed"]
    BY <1>4 DEF LogEvent
  <2>2. e \in EventIds /\ UNCHANGED topic /\ call[c].pc = "log"
    BY <1>0, <1>4, <2>1, FreshId DEF LogEvent
  <2>3. \A f : InFlight(f) => InFlight(f)'
    BY <1>3, <2>2
  <2>4. CASE ok
    <3>1. call'[c].pc = "publish" /\ call'[c].event = e
      BY <1>0, <2>1, <2>4 DEF CallType
    <3>2. InFlight(e)'
      BY <3>1 DEF InFlight
    <3>3. \A f \in EventIds \ {e} : eventLogs'[f] = eventLogs[f]
      BY <1>0, <2>1 DEF CreateEventLog
    <3> QED BY <2>2, <2>3, <3>2, <3>3 DEF LoggedSuccessWasPublished
  <2>5. CASE ~ok
    <3>1. UNCHANGED eventLogs
      BY <1>1, <2>1, <2>5 DEF CreateEventLog, Runs
    <3> QED BY <2>2, <2>3, <3>1 DEF LoggedSuccessWasPublished
  <2> QED BY <2>4, <2>5
<1>5. CASE PublishAcked(c)
  <2>1. UNCHANGED eventLogs /\ topic' = topic \cup {call[c].event}
    BY <1>5 DEF PublishAcked, storageVars
  <2> QED BY <1>3, <2>1 DEF LoggedSuccessWasPublished
<1>6. CASE PublishFailed(c)
  <2>1. UNCHANGED eventLogs /\ topic \subseteq topic'
    BY <1>6 DEF PublishFailed, storageVars
  <2>2. call'[c].pc = "markfailed" /\ call'[c].event = call[c].event
    BY <1>0, <1>6 DEF PublishFailed, CallType
  <2>3. \A f : InFlight(f) => InFlight(f)'
    BY <1>2, <2>2 DEF InFlight
  <2> QED BY <2>1, <2>3 DEF LoggedSuccessWasPublished
<1>7. CASE MarkFailed(c)
  <2>1. UNCHANGED topic /\ eventLogs' = [eventLogs EXCEPT ![call[c].event].status = "failure"]
    BY <1>1, <1>7 DEF MarkFailed, UpdateEventLogStatus
  <2>2. call[c].event \in EventIds
    BY <1>0, <1>7 DEF MarkFailed
  <2>3. /\ eventLogs'[call[c].event].status = "failure"
        /\ \A f \in EventIds \ {call[c].event} : eventLogs'[f] = eventLogs[f]
    BY <1>0, <2>1, <2>2 DEF EventRow
  <2> QED BY <1>3, <2>1, <2>3 DEF LoggedSuccessWasPublished
<1> QED BY <1>4, <1>5, <1>6, <1>7 DEF EventStep

----------------------------------------------------------------------------
(* The schedules.                                                          *)

\* An engine that stops firing a schedule has seen it settled or gone.
LEMMA EngineStepProcessing ==
    ASSUME OnlyKafkaFails, TypeInv, cancelled = {}, ProcessingInv,
           NEW p \in Schedulers, EngineStep(p)
    PROVE  ProcessingInv'
<1>0. /\ pc \in [Schedulers -> {"ready", "firing", "finish"}]
      /\ item \in [Schedulers -> SnapshotType \cup {Null}]
      /\ schedules \in [ScheduleIds -> ScheduleRow]
  BY CallFacts DEF TypeInv, StorageOK, SchedulesOK
<1>1. ~Refused(p, FALSE) /\ "db" \notin Faults /\ \A ok : Runs(p, ok) => ok
  BY DEF OnlyKafkaFails, Refused, Runs
<1>2. ASSUME \A q \in Schedulers : pc[q] = "firing" => pc'[q] = "firing" /\ item'[q] = item[q],
             \A s \in ScheduleIds : schedules'[s].status = "processing" =>
                \/ schedules[s].status = "processing"
                \/ pc'[p] = "firing" /\ item'[p].schedule = s
      PROVE  ProcessingInv'
  BY <1>2 DEF ProcessingInv
<1> DEFINE x == item[p].schedule
           Stops == \A q \in Schedulers \ {p} : pc'[q] = pc[q] /\ item'[q] = item[q]
           Settles == \A s \in ScheduleIds : schedules'[s].status = "processing" =>
                          schedules[s].status = "processing" /\ s # x
<1>3. ASSUME Stops, Settles PROVE ProcessingInv'
  BY <1>3 DEF ProcessingInv
<1>12. NextRow(p) \/ (\E to : pc' = [pc EXCEPT ![p] = to] /\ UNCHANGED item) => Stops
  BY <1>0 DEF NextRow
<1>13. ASSUME NEW to \in {"pending", "cancelled", "completed"}, x \in ScheduleIds,
              \/ schedules'[x].status = to
              \/ schedules' = schedules /\ schedules[x].status # "processing",
              \A s \in ScheduleIds \ {x} : schedules'[s] = schedules[s]
       PROVE  Settles
  BY <1>13
<1>14. pc[p] = "firing" => x \in ScheduleIds
  BY DEF TypeInv, EngineOK, SnapshotType
<1> HIDE DEF x, Stops, Settles
<1>4. CASE MarkProcessing(p)
  <2>1. PICK row \in batch[p], ok \in BOOLEAN :
            /\ UpdateScheduleStatus(p, row.schedule, "processing", ok)
            /\ IF ok THEN /\ pc' = [pc EXCEPT ![p] = "firing"]
                          /\ item' = [item EXCEPT ![p] = row]
                     ELSE UNCHANGED <<pc, item>>
    BY <1>4 DEF MarkProcessing
  <2>2. pc[p] = "ready"
    BY <1>4 DEF MarkProcessing
  <2>3. CASE ok
    <3>1. /\ pc'[p] = "firing" /\ item'[p] = row
          /\ \A q \in Schedulers \ {p} : pc'[q] = pc[q] /\ item'[q] = item[q]
      BY <1>0, <2>1, <2>3
    <3>2. \A s \in ScheduleIds \ {row.schedule} : schedules'[s] = schedules[s]
      BY <1>0, <2>1 DEF UpdateScheduleStatus
    <3> QED BY <1>2, <2>2, <3>1, <3>2
  <2>4. CASE ~ok
    <3>1. UNCHANGED <<schedules, pc, item>>
      BY <1>1, <2>1, <2>4 DEF UpdateScheduleStatus
    <3> QED BY <3>1 DEF ProcessingInv
  <2> QED BY <2>3, <2>4
<1>5. CASE RetryLater(p)
  <2>1. pc[p] = "firing" /\ NextRow(p) /\ RevertScheduleToPending(p, x)
    BY <1>5 DEF RetryLater, FireFailed, x
  <2>2. \/ /\ schedules' = schedules /\ ~ScheduleExists(x)
        \/ schedules' = [schedules EXCEPT ![x].status = "pending", ![x].attempts = @ + 1]
    BY <1>1, <2>1 DEF RevertScheduleToPending
  <2>3. /\ \/ schedules'[x].status = "pending"
           \/ schedules' = schedules /\ schedules[x].status # "processing"
        /\ \A s \in ScheduleIds \ {x} : schedules'[s] = schedules[s]
    BY <1>0, <1>14, <2>1, <2>2 DEF ScheduleExists, ScheduleRow
  <2> QED BY <1>3, <1>12, <1>13, <1>14, <2>1, <2>3
<1>6. ASSUME NEW ok \in BOOLEAN, NEW to \in {"cancelled", "completed"}, pc[p] = "firing",
             UpdateScheduleStatus(p, x, to, ok)
      PROVE  Settles
  <2>1. \/ /\ schedules' = schedules
           /\ ~ScheduleExists(x) \/ schedules[x].status = to
        \/ schedules' = [schedules EXCEPT ![x].status = to]
    BY <1>1, <1>6 DEF UpdateScheduleStatus, Refused
  <2>2. /\ \/ schedules'[x].status = to
           \/ schedules' = schedules /\ schedules[x].status # "processing"
        /\ \A s \in ScheduleIds \ {x} : schedules'[s] = schedules[s]
    BY <1>0, <1>6, <1>14, <2>1 DEF ScheduleExists, ScheduleRow
  <2> QED BY <1>6, <1>13, <1>14, <2>2
<1>7. CASE CancelAfterMaxRetries(p)
  <2>1. /\ pc[p] = "firing" /\ NextRow(p)
        /\ \E ok \in BOOLEAN : UpdateScheduleStatus(p, x, "cancelled", ok)
    BY <1>7 DEF CancelAfterMaxRetries, FireFailed, x
  <2> QED BY <1>3, <1>6, <1>12, <2>1
<1>8. CASE Complete(p)
  <2>1. /\ pc[p] = "firing"
        /\ \E ok \in BOOLEAN : UpdateScheduleStatus(p, x, "completed", ok)
        /\ NextRow(p) \/ (\E to : pc' = [pc EXCEPT ![p] = to] /\ UNCHANGED item)
    BY <1>8 DEF Complete, x
  <2> QED BY <1>3, <1>6, <1>12, <2>1
<1>9. CASE ScheduleNextRun(p)
  <2>1. /\ pc[p] = "finish" /\ NextRow(p)
        /\ \/ schedules' = schedules
           \/ \E s \in Fresh(schedules) : \E at :
                 schedules' = [schedules EXCEPT ![s] = NewSchedule(item[p].trigger, at)]
    BY <1>9 DEF ScheduleNextRun, CreateNextSchedule
  <2>2. \A q \in Schedulers \ {p} : pc'[q] = pc[q] /\ item'[q] = item[q]
    BY <1>0, <2>1 DEF NextRow
  <2>3. \A s \in ScheduleIds : schedules'[s].status = "processing" =>
           schedules[s].status = "processing"
    BY <1>0, <2>1 DEF NewSchedule
  <2> QED BY <1>2, <2>1, <2>2, <2>3
<1>10. CASE DeactivateOneTime(p)
  <2>1. pc[p] = "finish" /\ NextRow(p) /\ UNCHANGED schedules
    BY <1>10 DEF DeactivateOneTime
  <2>2. \A q \in Schedulers \ {p} : pc'[q] = pc[q] /\ item'[q] = item[q]
    BY <1>0, <2>1 DEF NextRow
  <2> QED BY <1>2, <2>1, <2>2
<1>11. CASE Poll(p)
  BY <1>11 DEF Poll, storageVars, ProcessingInv
<1> QED BY <1>4, <1>5, <1>7, <1>8, <1>9, <1>10, <1>11 DEF EngineStep

\* No request marks a schedule "processing".
LEMMA ClientStepProcessing ==
    ASSUME TypeInv, ProcessingInv, NEW r \in Requests, ClientStep(r) \/ UpdateStep(r)
    PROVE  ProcessingInv'
<1>0. schedules \in [ScheduleIds -> ScheduleRow]
  BY DEF TypeInv, StorageOK, SchedulesOK
<1>1. UNCHANGED <<pc, item>>
  BY DEF ClientStep, UpdateStep, engineVars
<1>2. \A s \in ScheduleIds : schedules'[s].status = "processing" =>
         schedules[s].status = "processing"
  <2>1. CASE Delete(r)
    BY <1>0, <2>1 DEF Delete, DeleteTrigger, ScheduleRow
  <2>2. CASE Create(r)
    BY <1>0, <2>2 DEF Create, CreateTrigger, NewSchedule
  <2>3. CASE WriteSchedule(r)
    BY <1>0, <2>3 DEF WriteSchedule, UpsertTriggerSchedule, NewSchedule, ScheduleRow
  <2>4. CASE ~Delete(r) /\ ~Create(r) /\ ~WriteSchedule(r)
    BY <2>4 DEF ClientStep, UpdateStep, BeginUpdate, Disconnect,
       WriteTrigger, Respond, storageVars
  <2> QED BY <2>1, <2>2, <2>3, <2>4
<1> QED BY <1>1, <1>2 DEF ProcessingInv

----------------------------------------------------------------------------
\* Nothing is logged or processed before the first step.
LEMMA InitOutage == Init => OutageInv
<1>1. Init => cancelled = {}
  BY DEF Init, StorageInit
<1>2. Init => IdleInv
  BY DEF Init, EventInit, NoCall, IdleInv, Callers
<1>3. Init => ProcessingInv /\ LoggedSuccessWasPublished
  BY DEF Init, StorageInit, ProcessingInv, LoggedSuccessWasPublished
<1> QED BY <1>1, <1>2, <1>3, InitDelivery DEF OutageInv

\* Every step keeps it, in a world where only Kafka fails.
LEMMA NextOutage == OnlyKafkaFails /\ OutageInv /\ [Next]_vars => OutageInv'
<1> SUFFICES ASSUME OnlyKafkaFails, OutageInv, [Next]_vars PROVE OutageInv'
  OBVIOUS
<1>0. /\ DeliveryInv /\ DeliveryInv' /\ TypeInv /\ CallsInv /\ FiringInv /\ AcceptedInv
      /\ cancelled = {} /\ IdleInv /\ ProcessingInv /\ LoggedSuccessWasPublished
  BY NextDelivery DEF OutageInv, DeliveryInv
<1>1. ASSUME NEW c \in Callers, EventStep(c) PROVE OutageInv'
  <2>1. UNCHANGED <<cancelled, schedules, engineVars, hook>>
    BY <1>1 DEF EventStep, LogEvent, PublishAcked, PublishFailed, MarkFailed,
                storageVars, apiVars
  <2>2. call[c].pc # "none" /\ \A d \in Callers \ {c} : call'[d] = call[d]
    BY <1>0, <1>1, CallFacts
       DEF EventStep, LogEvent, PublishAcked, PublishFailed, MarkFailed
  <2>3. IdleInv'
    BY <1>0, <2>1, <2>2, CallFacts DEF IdleInv, engineVars
  <2>4. ProcessingInv'
    BY <1>0, <2>1 DEF ProcessingInv, engineVars
  <2> QED BY <1>0, <1>1, <2>1, <2>3, <2>4, EventStepLog DEF OutageInv
<1>2. ASSUME NEW p \in Schedulers, EngineStep(p) PROVE OutageInv'
  <2>1. UNCHANGED cancelled
    BY <1>2 DEF EngineStep, Poll, MarkProcessing, RetryLater, CancelAfterMaxRetries, Complete,
                DeactivateOneTime, ScheduleNextRun, storageVars
  <2> QED BY <1>0, <1>2, <2>1, EngineStepIdle, EngineStepQuiet, QuietStepLog,
             EngineStepProcessing DEF OutageInv
<1>3. ASSUME NEW p \in Schedulers, EngineFault(p) PROVE OutageInv'
  BY <1>0, <1>3 DEF EngineFault, Shutdown, Restart, Crash, OnlyKafkaFails
<1>4. ASSUME NEW r \in Requests, ClientStep(r) \/ UpdateStep(r) PROVE OutageInv'
  <2>1. cancelled' = {}
    BY <1>0, <1>4 DEF ClientStep, UpdateStep, Create, Delete, BeginUpdate, Disconnect, Finish,
       Continue, WriteTrigger, WriteSchedule, Respond, storageVars, OnlyKafkaFails
  <2>2. UNCHANGED <<call, pc, hook>>
    BY <1>4 DEF ClientStep, UpdateStep, eventVars, engineVars
  <2>3. IdleInv' /\ KeepsCalls
    BY <1>0, <2>2 DEF IdleInv, KeepsCalls
  <2> QED BY <1>0, <1>4, <2>1, <2>3, ClientStepQuiet, QuietStepLog, ClientStepProcessing
      DEF OutageInv
<1>5. ASSUME NEW h \in Hooks, WebhookStep(h) PROVE OutageInv'
  <2>1. cancelled' = {}
    BY <1>0, <1>5 DEF WebhookStep, ReceiveWebhook, Reply, HangUp, storageVars, OnlyKafkaFails
  <2>2. UNCHANGED <<pc, item>>
    BY <1>5 DEF WebhookStep, engineVars
  <2>3. QuietStep /\ UNCHANGED schedules
    BY <1>0, <1>5, WebhookStepQuiet
  <2>4. ProcessingInv'
    BY <1>0, <2>2, <2>3 DEF ProcessingInv
  <2> QED BY <1>0, <1>5, <2>1, <2>3, <2>4, WebhookStepIdle, QuietStepLog DEF OutageInv
<1>6. CASE ServerStep
  <2>1. cancelled' = {}
    BY <1>0, <1>6 DEF ServerStep, BeginShutdown, EndShutdown, Kill, StartServer, Exit,
                      storageVars
  <2>2. UNCHANGED <<pc, item>>
    BY <1>6 DEF ServerStep, engineVars
  <2>3. QuietStep /\ UNCHANGED schedules
    BY <1>0, <1>6, ServerStepQuiet
  <2>4. ProcessingInv'
    BY <1>0, <2>2, <2>3 DEF ProcessingInv
  <2> QED BY <1>0, <1>6, <2>1, <2>3, <2>4, ServerStepIdle, QuietStepLog DEF OutageInv
<1>7. CASE ClockStep \/ UNCHANGED vars
  <2>1. UNCHANGED <<schedules, eventLogs, cancelled, eventVars, engineVars, hook>>
    BY <1>7 DEF ClockStep, Tick, apiVars, vars, storageVars
  <2> QED BY <1>0, <2>1 DEF eventVars, engineVars, IdleInv, ProcessingInv, OutageInv,
                            LoggedSuccessWasPublished, InFlight
<1> QED BY <1>1, <1>2, <1>3, <1>4, <1>5, <1>6, <1>7 DEF Next

\* When only Kafka fails, an event the log shows as a success is in Kafka once its
\* call is over: for any number of schedulers and webhooks, and through a graceful
\* shutdown of the API.
THEOREM LoggedSuccessPublished ==
    ASSUME OnlyKafkaFails
    PROVE  Spec => []LoggedSuccessWasPublished
<1>1. OutageInv => LoggedSuccessWasPublished
  BY DEF OutageInv
<1>2. OutageInv /\ [Next]_vars => OutageInv'
  BY NextOutage
<1> QED BY <1>1, <1>2, InitOutage, PTL DEF Spec

\* When only Kafka fails, no schedule is left in "processing" once every scheduler is
\* between two batches, even where several of them fire the same one.
THEOREM FailedFiringReverted ==
    ASSUME OnlyKafkaFails
    PROVE  Spec => []FailedFiringIsReverted
<1>1. OutageInv => FailedFiringIsReverted
  BY DEF OutageInv, ProcessingInv, FailedFiringIsReverted
<1>2. OutageInv /\ [Next]_vars => OutageInv'
  BY NextOutage
<1> QED BY <1>1, <1>2, InitOutage, PTL DEF Spec
============================================================================
