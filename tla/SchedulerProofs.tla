--------------------------- MODULE SchedulerProofs ---------------------------
(***************************************************************************)
(* What holds when one scheduler process runs at a time, as it is deployed,*)
(* whatever fails and whatever clients do: a completed schedule stays      *)
(* completed, and no schedule is fired more than MaxRetries times.         *)
(***************************************************************************)
EXTENDS OutageProofs, FiniteSetTheorems

OneScheduler == \A p, q \in Schedulers : p = q

\* The rows a scheduler has read and goes on to settle.
Held(p) == batch[p] \cup IF pc[p] = "firing" THEN {item[p]} ELSE {}

\* They still say what the table says, but for the status; nobody else settles them.
RowsInv ==
    \A p \in Schedulers :
        /\ \A row \in Held(p) :
              /\ schedules[row.schedule].trigger = row.trigger
              /\ schedules[row.schedule].fireAt = row.fireAt
              /\ schedules[row.schedule].attempts = row.attempts
              /\ schedules[row.schedule].status \notin {"unused", "completed"}
              /\ row.fireAt <= now
        /\ \A row, other \in Held(p) : row.schedule = other.schedule => row = other
        /\ pc[p] = "firing" => /\ item[p] \notin batch[p]
                               /\ schedules[item[p].schedule].status # "pending"

\* A row that was never inserted belongs to no trigger.
UnusedInv ==
    \A s \in ScheduleIds : schedules[s].status = "unused" => schedules[s].trigger = Null

----------------------------------------------------------------------------
(* What each step does to the rows, stripped of how it comes about.        *)

\* The row x exists, gets the status given and n attempts more; no other row changes.
Moved(x, to, n) ==
    /\ ScheduleExists(x)
    /\ schedules'[x].trigger = schedules[x].trigger
    /\ schedules'[x].fireAt = schedules[x].fireAt
    /\ schedules'[x].attempts = schedules[x].attempts + n
    /\ schedules'[x].status = to
    /\ \A s \in ScheduleIds \ {x} : schedules'[s] = schedules[s]

Polls(p) ==
    /\ UNCHANGED <<schedules, pc, item, call>>
    /\ pc[p] = "ready"
    /\ \E rows \in SUBSET DueRows : batch'[p] = {Snapshot(s) : s \in rows}

Marks(p) ==
    /\ pc[p] = "ready"
    /\ \E row \in batch[p] :
          /\ batch'[p] = batch[p] \ {row}
          /\ \/ /\ Moved(row.schedule, "processing", 0)
                /\ pc'[p] = "firing" /\ item'[p] = row /\ call'[p].pc = "log"
             \/ /\ UNCHANGED schedules \/ Moved(row.schedule, "processing", 0)
                /\ UNCHANGED <<pc, call>>

Settles(p) ==
    /\ pc[p] = "firing" /\ UNCHANGED batch /\ call'[p].pc = "none"
    /\ \/ /\ call[p].pc = "failed" /\ pc'[p] = "ready"
          /\ UNCHANGED schedules
       \/ /\ call[p].pc = "failed" /\ item[p].attempts + 1 < MaxRetries /\ pc'[p] = "ready"
          /\ Moved(item[p].schedule, "pending", 1)
       \/ /\ call[p].pc = "failed" /\ item[p].attempts + 1 >= MaxRetries /\ pc'[p] = "ready"
          /\ Moved(item[p].schedule, "cancelled", 0)
       \/ /\ call[p].pc = "ok" /\ pc'[p] = "ready"
          /\ UNCHANGED schedules \/ Moved(item[p].schedule, "completed", 0)
       \/ /\ call[p].pc = "ok" /\ pc'[p] = "finish" /\ item'[p] = item[p]
          /\ Moved(item[p].schedule, "completed", 0)

Plans(p) ==
    /\ pc[p] = "finish" /\ pc'[p] = "ready" /\ UNCHANGED <<batch, call>>
    /\ \/ UNCHANGED schedules
       \/ /\ TriggerExists(item[p].trigger)
          /\ \E s \in ScheduleIds, at \in Nat :
                /\ at > now
                /\ schedules[s].status = "unused"
                /\ schedules' = [schedules EXCEPT ![s] = NewSchedule(item[p].trigger, at)]

\* Types that the lemmas below share.
LEMMA RowFacts ==
    ASSUME TypeInv
    PROVE  /\ schedules \in [ScheduleIds -> ScheduleRow]
           /\ batch \in [Schedulers -> SUBSET SnapshotType]
           /\ now \in Nat
           /\ \A p \in Schedulers : pc[p] # "ready" => item[p] \in SnapshotType
BY StorageAssumption DEF TypeInv, StorageOK, SchedulesOK, EngineOK, EngineTypeOK

\* An UPDATE of the status moves the row or leaves the table alone.
LEMMA StatusMoves ==
    ASSUME SchedulesOK, NEW c, NEW s \in ScheduleIds, NEW ok \in BOOLEAN,
           NEW to \in {"processing", "completed", "cancelled"},
           UpdateScheduleStatus(c, s, to, ok)
    PROVE  Moved(s, to, 0) \/ (~ok /\ UNCHANGED schedules)
<1>1. CASE ScheduleExists(s) /\ schedules' = [schedules EXCEPT ![s].status = to]
  <2>1. /\ schedules'[s].trigger = schedules[s].trigger
        /\ schedules'[s].fireAt = schedules[s].fireAt
        /\ schedules'[s].attempts = schedules[s].attempts
        /\ schedules'[s].status = to
        /\ \A r \in ScheduleIds \ {s} : schedules'[r] = schedules[r]
    BY <1>1 DEF SchedulesOK, ScheduleRow
  <2>2. schedules[s].attempts + 0 = schedules[s].attempts
    BY DEF SchedulesOK, ScheduleRow
  <2> QED BY <1>1, <2>1, <2>2 DEF Moved
<1> QED BY <1>1 DEF UpdateScheduleStatus, Refused

\* So does the revert, which counts the attempt.
LEMMA RevertMoves ==
    ASSUME SchedulesOK, NEW c, NEW s \in ScheduleIds, RevertScheduleToPending(c, s)
    PROVE  Moved(s, "pending", 1) \/ UNCHANGED schedules
<1>1. CASE /\ ScheduleExists(s)
           /\ schedules' = [schedules EXCEPT ![s].status = "pending", ![s].attempts = @ + 1]
  <2>1. /\ schedules'[s].trigger = schedules[s].trigger
        /\ schedules'[s].fireAt = schedules[s].fireAt
        /\ schedules'[s].attempts = schedules[s].attempts + 1
        /\ schedules'[s].status = "pending"
        /\ \A r \in ScheduleIds \ {s} : schedules'[r] = schedules[r]
    BY <1>1 DEF SchedulesOK, ScheduleRow
  <2> QED BY <1>1, <2>1 DEF Moved
<1> QED BY <1>1 DEF RevertScheduleToPending

\* The steps of the engine.
LEMMA EngineEffect ==
    ASSUME TypeInv, NEW p \in Schedulers, EngineStep(p)
    PROVE  /\ UNCHANGED now
           /\ Polls(p) \/ Marks(p) \/ Settles(p) \/ Plans(p)
<1>0. /\ SchedulesOK
      /\ batch \in [Schedulers -> SUBSET SnapshotType]
      /\ pc \in [Schedulers -> {"ready", "firing", "finish"}]
      /\ item \in [Schedulers -> SnapshotType \cup {Null}]
      /\ call \in [Callers -> CallType] /\ p \in Callers
      /\ now \in Nat
      /\ pc[p] # "ready" => /\ item[p].schedule \in ScheduleIds
                            /\ item[p].trigger \in TriggerIds
                            /\ item[p].attempts \in Nat
                            /\ item[p].config \in ConfigType
  BY CallFacts, RowFacts, ItemType DEF TypeInv, StorageOK, SnapshotType
<1>1. UNCHANGED now
  BY DEF EngineStep, Poll, MarkProcessing, RetryLater, CancelAfterMaxRetries, Complete,
         DeactivateOneTime, ScheduleNextRun, storageVars
<1>2. CASE Poll(p)
  <2>1. PICK rows \in GetDueSchedules(BatchLimit) : batch' = [batch EXCEPT ![p] = rows]
    BY <1>2 DEF Poll
  <2>2. \E chosen \in SUBSET DueRows : rows = {Snapshot(s) : s \in chosen}
    BY DEF GetDueSchedules
  <2>3. pc[p] = "ready" /\ UNCHANGED <<schedules, pc, item, call>>
    BY <1>2 DEF Poll, storageVars, eventVars
  <2>4. batch'[p] = rows
    BY <1>0, <2>1
  <2> QED BY <1>1, <2>2, <2>3, <2>4 DEF Polls
<1>3. CASE MarkProcessing(p)
  <2>1. PICK row \in batch[p], ok \in BOOLEAN :
           /\ UpdateScheduleStatus(p, row.schedule, "processing", ok)
           /\ batch' = [batch EXCEPT ![p] = @ \ {row}]
           /\ IF ok
              THEN /\ pc' = [pc EXCEPT ![p] = "firing"]
                   /\ item' = [item EXCEPT ![p] = row]
                   /\ FireTrigger(p, row.trigger, row.schedule)
              ELSE UNCHANGED <<pc, item, call>>
    BY <1>3 DEF MarkProcessing
  <2>2. pc[p] = "ready" /\ row.schedule \in ScheduleIds /\ batch'[p] = batch[p] \ {row}
    BY <1>0, <1>3, <2>1 DEF MarkProcessing, SnapshotType
  <2>3. Moved(row.schedule, "processing", 0) \/ (~ok /\ UNCHANGED schedules)
    BY <1>0, <2>1, <2>2, StatusMoves
  <2>4. CASE ok
    <3>1. pc'[p] = "firing" /\ item'[p] = row
      BY <1>0, <2>1, <2>4
    <3>2. call'[p] = [NoCall EXCEPT !.pc = "log", !.trigger = row.trigger,
                                    !.schedule = row.schedule]
      BY <1>0, <2>1, <2>4 DEF FireTrigger
    <3>3. call'[p].pc = "log"
      BY <3>2 DEF NoCall
    <3> QED BY <1>1, <2>2, <2>3, <2>4, <3>1, <3>3 DEF Marks
  <2>5. CASE ~ok
    BY <1>1, <2>1, <2>2, <2>3, <2>5 DEF Marks
  <2> QED BY <2>4, <2>5
<1>4. Return(p) => call'[p].pc = "none"
  BY <1>0 DEF Return, NoCall
<1>5. CASE RetryLater(p)
  <2>1. /\ pc[p] = "firing" /\ call[p].pc = "failed" /\ UNCHANGED batch /\ Return(p)
        /\ item[p].attempts + 1 < MaxRetries
        /\ RevertScheduleToPending(p, item[p].schedule)
    BY <1>5 DEF RetryLater, FireFailed, Attempts
  <2>2. pc'[p] = "ready"
    BY <1>0, <1>5 DEF RetryLater, NextRow
  <2>3. Moved(item[p].schedule, "pending", 1) \/ UNCHANGED schedules
    BY <1>0, <2>1, RevertMoves
  <2> QED BY <1>1, <1>4, <2>1, <2>2, <2>3 DEF Settles
<1>6. CASE CancelAfterMaxRetries(p)
  <2>1. /\ pc[p] = "firing" /\ call[p].pc = "failed" /\ UNCHANGED batch /\ Return(p)
        /\ item[p].attempts + 1 >= MaxRetries
        /\ \E ok \in BOOLEAN : UpdateScheduleStatus(p, item[p].schedule, "cancelled", ok)
    BY <1>6 DEF CancelAfterMaxRetries, FireFailed, Attempts
  <2>2. pc'[p] = "ready"
    BY <1>0, <1>6 DEF CancelAfterMaxRetries, NextRow
  <2>3. Moved(item[p].schedule, "cancelled", 0) \/ UNCHANGED schedules
    BY <1>0, <2>1, StatusMoves
  <2> QED BY <1>1, <1>4, <2>1, <2>2, <2>3 DEF Settles
<1>7. CASE Complete(p)
  <2>1. PICK ok \in BOOLEAN :
           /\ UpdateScheduleStatus(p, item[p].schedule, "completed", ok)
           /\ IF ok THEN pc' = [pc EXCEPT ![p] = "finish"] /\ UNCHANGED item
                    ELSE NextRow(p)
    BY <1>7 DEF Complete
  <2>2. pc[p] = "firing" /\ call[p].pc = "ok" /\ UNCHANGED batch /\ Return(p)
    BY <1>7 DEF Complete
  <2>3. Moved(item[p].schedule, "completed", 0) \/ (~ok /\ UNCHANGED schedules)
    BY <1>0, <2>1, <2>2, StatusMoves
  <2>4. (ok /\ pc'[p] = "finish" /\ item'[p] = item[p]) \/ (~ok /\ pc'[p] = "ready")
    BY <1>0, <2>1 DEF NextRow
  <2> QED BY <1>1, <1>4, <2>2, <2>3, <2>4 DEF Settles
<1>8. CASE DeactivateOneTime(p)
  <2>1. pc[p] = "finish" /\ UNCHANGED <<schedules, batch, call>>
    BY <1>8 DEF DeactivateOneTime, eventVars
  <2>2. pc'[p] = "ready"
    BY <1>0, <1>8 DEF DeactivateOneTime, NextRow
  <2> QED BY <1>1, <2>1, <2>2 DEF Plans
<1>9. CASE ScheduleNextRun(p)
  <2> DEFINE at == NextFireTime(item[p].config, now)
  <2>1. /\ pc[p] = "finish" /\ UNCHANGED <<batch, call>>
        /\ CreateNextSchedule(p, item[p].trigger, at)
    BY <1>9 DEF ScheduleNextRun, eventVars
  <2>2. pc'[p] = "ready"
    BY <1>0, <1>9 DEF ScheduleNextRun, NextRow
  <2>3. at # Null => at \in Nat /\ at > now
    BY <1>0, <2>1, NextFireTimeType
  <2> HIDE DEF at
  <2>4. \/ UNCHANGED schedules
        \/ /\ TriggerExists(item[p].trigger) /\ at # Null
           /\ \E s \in Fresh(schedules) :
                 schedules' = [schedules EXCEPT ![s] = NewSchedule(item[p].trigger, at)]
    BY <2>1 DEF CreateNextSchedule
  <2>5. \A s \in Fresh(schedules) : s \in ScheduleIds /\ schedules[s].status = "unused"
    BY <1>0, FreshId DEF SchedulesOK
  <2> QED BY <1>1, <2>1, <2>2, <2>3, <2>4, <2>5 DEF Plans
<1> QED BY <1>1, <1>2, <1>3, <1>5, <1>6, <1>7, <1>8, <1>9 DEF EngineStep

\* The rest of the system withdraws schedules and adds new ones.
Aside ==
    /\ UNCHANGED <<pc, batch, item>>
    /\ now' \in Nat /\ now <= now'
    /\ \A s \in ScheduleIds :
          \/ schedules'[s] = schedules[s]
          \/ schedules[s].status = "unused" /\ schedules'[s].status = "pending"
                                           /\ schedules'[s].attempts = 0
          \/ /\ schedules[s].status # "unused"
             /\ schedules'[s].trigger = schedules[s].trigger
             /\ schedules'[s].fireAt = schedules[s].fireAt
             /\ schedules'[s].attempts = schedules[s].attempts
             /\ \/ schedules'[s].status = "deleted"
                \/ schedules'[s].status = "cancelled" /\ IsLive(s)

\* What clients do to the rows.
LEMMA ClientEffect ==
    ASSUME TypeInv, UnusedInv, NEW r \in Requests, ClientStep(r) \/ UpdateStep(r)
    PROVE  Aside
<1>0. schedules \in [ScheduleIds -> ScheduleRow] /\ now \in Nat
  BY RowFacts
<1>1. UNCHANGED <<pc, batch, item, now>>
  BY DEF ClientStep, UpdateStep, Create, Delete, BeginUpdate, Disconnect, WriteTrigger,
         WriteSchedule, Respond, storageVars, engineVars
<1>2. CASE Delete(r)
  <2>1. PICK t \in TriggerIds :
            schedules' = [s \in ScheduleIds |-> IF s \in SchedulesOf(t)
                                               THEN [schedules[s] EXCEPT !.status = "deleted"]
                                               ELSE schedules[s]]
    BY <1>2 DEF Delete, DeleteTrigger
  <2>2. ASSUME NEW s \in ScheduleIds, schedules'[s] # schedules[s]
        PROVE  /\ schedules[s].status # "unused" /\ schedules'[s].status = "deleted"
               /\ schedules'[s].trigger = schedules[s].trigger
               /\ schedules'[s].fireAt = schedules[s].fireAt
               /\ schedules'[s].attempts = schedules[s].attempts
    <3>1. /\ schedules[s].trigger = t
          /\ schedules'[s] = [schedules[s] EXCEPT !.status = "deleted"]
      BY <2>1, <2>2 DEF SchedulesOf
    <3>2. schedules[s].status # "unused"
      BY <3>1, StorageAssumption DEF UnusedInv
    <3> QED BY <1>0, <3>1, <3>2 DEF ScheduleRow
  <2> QED BY <1>0, <1>1, <2>2 DEF Aside
<1>3. ASSUME NEW s \in Fresh(schedules), NEW t, NEW at,
             schedules' = [schedules EXCEPT ![s] = NewSchedule(t, at)]
      PROVE  Aside
  <2>1. s \in ScheduleIds /\ schedules[s].status = "unused"
    BY <1>0, FreshId
  <2>2. schedules'[s].status = "pending" /\ schedules'[s].attempts = 0
    BY <1>0, <1>3, <2>1 DEF NewSchedule
  <2>3. \A r1 \in ScheduleIds \ {s} : schedules'[r1] = schedules[r1]
    BY <1>0, <1>3
  <2> QED BY <1>0, <1>1, <2>1, <2>2, <2>3 DEF Aside
<1>4. CASE Create(r)
  <2>1. \/ UNCHANGED schedules
        \/ \E s \in Fresh(schedules) : \E t, at :
              schedules' = [schedules EXCEPT ![s] = NewSchedule(t, at)]
    BY <1>4 DEF Create, CreateTrigger
  <2> QED BY <1>0, <1>1, <1>3, <2>1 DEF Aside
<1>5. CASE WriteSchedule(r)
  <2>1. CASE UNCHANGED schedules
    BY <1>0, <1>1, <2>1 DEF Aside
  <2>2. ASSUME NEW s \in Fresh(schedules), NEW t, NEW at,
               schedules' = [r1 \in ScheduleIds |->
                   IF r1 = s THEN NewSchedule(t, at)
                   ELSE IF r1 \in SchedulesOf(t) /\ IsLive(r1)
                        THEN [schedules[r1] EXCEPT !.status = "cancelled"]
                        ELSE schedules[r1]]
        PROVE  Aside
    <3>1. s \in ScheduleIds /\ schedules[s].status = "unused"
      BY <1>0, FreshId
    <3>2. schedules'[s].status = "pending" /\ schedules'[s].attempts = 0
      BY <2>2, <3>1 DEF NewSchedule
    <3>3. ASSUME NEW r1 \in ScheduleIds \ {s}, schedules'[r1] # schedules[r1]
          PROVE  /\ IsLive(r1) /\ schedules'[r1].status = "cancelled"
                 /\ schedules'[r1].trigger = schedules[r1].trigger
                 /\ schedules'[r1].fireAt = schedules[r1].fireAt
                 /\ schedules'[r1].attempts = schedules[r1].attempts
      <4>1. IsLive(r1) /\ schedules'[r1] = [schedules[r1] EXCEPT !.status = "cancelled"]
        BY <2>2, <3>3
      <4> QED BY <1>0, <4>1 DEF ScheduleRow
    <3> QED BY <1>0, <1>1, <3>1, <3>2, <3>3 DEF Aside, IsLive
  <2> QED BY <1>5, <2>1, <2>2 DEF WriteSchedule, UpsertTriggerSchedule
<1>6. CASE UNCHANGED schedules
  BY <1>0, <1>1, <1>6 DEF Aside
<1> QED BY <1>2, <1>4, <1>5, <1>6 DEF ClientStep, UpdateStep, BeginUpdate, Disconnect,
            WriteTrigger, Respond, storageVars

\* Every step is one of the engine, a crash of it, or leaves its rows to it.
LEMMA StepEffect ==
    ASSUME TypeInv, UnusedInv, [Next]_vars
    PROVE  \/ \E p \in Schedulers : EngineStep(p) \/ Crash(p)
           \/ Aside
<1>0. now \in Nat
  BY RowFacts
<1>1. ASSUME UNCHANGED <<now, schedules, pc, batch, item>> PROVE Aside
  BY <1>0, <1>1 DEF Aside
<1>2. ASSUME NEW c \in Callers, EventStep(c) PROVE Aside
  <2>1. UNCHANGED <<now, schedules, pc, batch, item>>
    BY <1>2 DEF EventStep, LogEvent, PublishAcked, PublishFailed, MarkFailed,
                storageVars, engineVars, apiVars
  <2> QED BY <1>1, <2>1
<1>3. ASSUME NEW p \in Schedulers, EngineFault(p), ~Crash(p) PROVE Aside
  <2>1. UNCHANGED <<now, schedules, pc, batch, item>>
    BY <1>3 DEF EngineFault, Shutdown, Restart, engineVars, apiVars
  <2> QED BY <1>1, <2>1
<1>4. ASSUME NEW h \in Hooks, WebhookStep(h) PROVE Aside
  <2>1. UNCHANGED <<now, schedules, pc, batch, item>>
    BY <1>4 DEF WebhookStep, ReceiveWebhook, Reply, HangUp, storageVars, engineVars
  <2> QED BY <1>1, <2>1
<1>5. CASE ServerStep
  BY <1>1, <1>5 DEF ServerStep, BeginShutdown, EndShutdown, Kill, StartServer, Exit,
                    storageVars, engineVars
<1>6. CASE ClockStep
  BY <1>0, <1>6 DEF ClockStep, Tick, engineVars, Aside
<1>7. CASE UNCHANGED vars
  BY <1>1, <1>7 DEF vars, storageVars, engineVars
<1> QED BY <1>2, <1>3, <1>4, <1>5, <1>6, <1>7, ClientEffect DEF Next

----------------------------------------------------------------------------
(* The rows a scheduler holds.                                             *)

\* A step of another process.
LEMMA AsideRows ==
    ASSUME TypeInv, RowsInv, Aside
    PROVE  RowsInv'
<1>1. /\ now \in Nat
      /\ \A p \in Schedulers : \A row \in Held(p) : row.schedule \in ScheduleIds
                                                 /\ row.fireAt \in Nat
  BY RowFacts DEF Held, SnapshotType
<1>2. \A p \in Schedulers : Held(p)' = Held(p)
  BY DEF Aside, Held
<1> SUFFICES ASSUME NEW p \in Schedulers
             PROVE  /\ \A row \in Held(p) :
                          /\ schedules'[row.schedule].trigger = row.trigger
                          /\ schedules'[row.schedule].fireAt = row.fireAt
                          /\ schedules'[row.schedule].attempts = row.attempts
                          /\ schedules'[row.schedule].status \notin {"unused", "completed"}
                          /\ row.fireAt <= now'
                    /\ \A row, other \in Held(p) :
                          row.schedule = other.schedule => row = other
                    /\ pc'[p] = "firing" =>
                          /\ item'[p] \notin batch'[p]
                          /\ schedules'[item'[p].schedule].status # "pending"
  BY <1>2 DEF RowsInv
<1>3. ASSUME NEW row \in Held(p)
      PROVE  /\ schedules'[row.schedule].trigger = row.trigger
             /\ schedules'[row.schedule].fireAt = row.fireAt
             /\ schedules'[row.schedule].attempts = row.attempts
             /\ schedules'[row.schedule].status \notin {"unused", "completed"}
             /\ row.fireAt <= now'
  BY <1>1, <1>3 DEF RowsInv, Aside
<1>4. ASSUME pc'[p] = "firing"
      PROVE  /\ item'[p] \notin batch'[p]
             /\ schedules'[item'[p].schedule].status # "pending"
  <2>1. pc[p] = "firing" /\ item'[p] = item[p] /\ item[p] \in Held(p) /\ batch'[p] = batch[p]
    BY <1>4 DEF Aside, Held
  <2>2. /\ item[p].schedule \in ScheduleIds /\ item[p] \notin batch[p]
        /\ schedules[item[p].schedule].status \notin {"unused", "pending"}
    BY <1>1, <2>1 DEF RowsInv
  <2> QED BY <2>1, <2>2 DEF Aside
<1> QED BY <1>3, <1>4 DEF RowsInv

\* A step of the one scheduler: what it holds afterwards it has just read, or held before
\* and not touched.
LEMMA EngineRows ==
    ASSUME OneScheduler, TypeInv, RowsInv, NEW p \in Schedulers, EngineStep(p) \/ Crash(p)
    PROVE  RowsInv'
<1>0. /\ schedules \in [ScheduleIds -> ScheduleRow] /\ now \in Nat
      /\ batch \in [Schedulers -> SUBSET SnapshotType]
      /\ pc \in [Schedulers -> {"ready", "firing", "finish"}]
      /\ \A row \in Held(p) : row.schedule \in ScheduleIds /\ row.attempts \in Nat
  BY RowFacts, CallFacts DEF Held, SnapshotType
<1> DEFINE Good(row) == /\ schedules[row.schedule].trigger = row.trigger
                        /\ schedules[row.schedule].fireAt = row.fireAt
                        /\ schedules[row.schedule].attempts = row.attempts
                        /\ schedules[row.schedule].status \notin {"unused", "completed"}
                        /\ row.fireAt <= now
<1>1. /\ \A row \in Held(p) : Good(row)
      /\ \A row, other \in Held(p) : row.schedule = other.schedule => row = other
  BY DEF RowsInv
<1>2. ASSUME \A row \in Held(p)' : Good(row)',
             \A row, other \in Held(p)' : row.schedule = other.schedule => row = other,
             pc'[p] = "firing" => /\ item'[p] \notin batch'[p]
                                  /\ schedules'[item'[p].schedule].status # "pending"
      PROVE  RowsInv'
  BY <1>2 DEF RowsInv, OneScheduler
<1>3. ASSUME UNCHANGED now, Held(p)' \subseteq Held(p), pc'[p] # "firing",
             \A row \in Held(p)' : schedules'[row.schedule] = schedules[row.schedule]
      PROVE  RowsInv'
  BY <1>1, <1>2, <1>3
<1>4. CASE UNCHANGED now /\ Polls(p)
  <2>1. PICK rows \in SUBSET DueRows : batch'[p] = {Snapshot(s) : s \in rows}
    BY <1>4 DEF Polls
  <2>2. Held(p)' = {Snapshot(s) : s \in rows} /\ pc'[p] # "firing"
    BY <1>4, <2>1 DEF Polls, Held
  <2>3. \A s \in rows : /\ s \in ScheduleIds /\ Snapshot(s).schedule = s
                       /\ Snapshot(s).trigger = schedules[s].trigger
                       /\ Snapshot(s).fireAt = schedules[s].fireAt
                       /\ Snapshot(s).attempts = schedules[s].attempts
                       /\ schedules[s].fireAt <= now
                       /\ schedules[s].status = "pending"
    BY DEF DueRows, Snapshot
  <2>4. UNCHANGED <<schedules, now>>
    BY <1>4 DEF Polls
  <2> QED BY <1>2, <2>2, <2>3, <2>4
<1>5. CASE UNCHANGED now /\ Marks(p)
  <2>1. PICK row \in batch[p] :
            /\ batch'[p] = batch[p] \ {row}
            /\ \/ /\ Moved(row.schedule, "processing", 0)
                  /\ pc'[p] = "firing" /\ item'[p] = row /\ call'[p].pc = "log"
               \/ /\ UNCHANGED schedules \/ Moved(row.schedule, "processing", 0)
                  /\ UNCHANGED <<pc, call>>
    BY <1>5 DEF Marks
  <2>2. pc[p] = "ready" /\ Held(p) = batch[p]
    BY <1>5 DEF Marks, Held
  <2>3. \A other \in batch[p] \ {row} : other.schedule # row.schedule
    BY <1>1, <2>2
  <2>4. CASE UNCHANGED schedules \/ Moved(row.schedule, "processing", 0)
    <3>1. \A other \in batch[p] \ {row} : schedules'[other.schedule] = schedules[other.schedule]
      BY <1>0, <2>2, <2>3, <2>4 DEF Moved
    <3>2. CASE pc' = pc
      <4>1. Held(p)' = batch[p] \ {row} /\ pc'[p] # "firing"
        BY <2>1, <2>2, <3>2 DEF Held
      <4> QED BY <1>3, <1>5, <2>2, <3>1, <4>1
    <3>3. CASE Moved(row.schedule, "processing", 0) /\ pc'[p] = "firing" /\ item'[p] = row
      <4>1. Held(p)' = batch[p] /\ item'[p] \notin batch'[p]
        BY <2>1, <3>3 DEF Held
      <4>2. \A other \in batch[p] \ {row} : Good(other)'
        BY <1>1, <1>5, <2>2, <3>1
      <4>3. Good(row)' /\ schedules'[row.schedule].status = "processing"
        <5>1. row.attempts + 0 = row.attempts
          BY <1>0, <2>2
        <5> QED BY <1>1, <1>5, <2>2, <3>3, <5>1 DEF Moved
      <4> QED BY <1>1, <1>2, <2>2, <3>3, <4>1, <4>2, <4>3
    <3> QED BY <2>1, <3>2, <3>3
  <2> QED BY <2>1, <2>4
<1>6. CASE UNCHANGED now /\ Settles(p)
  <2>1. /\ pc'[p] # "firing" /\ Held(p)' = batch[p]
        /\ item[p] \in Held(p) /\ batch[p] \subseteq Held(p)
    BY <1>6 DEF Settles, Held
  <2>2. \A other \in batch[p] : other.schedule # item[p].schedule
    BY <1>1, <1>6, <2>1 DEF RowsInv, Settles
  <2>3. \A s \in ScheduleIds \ {item[p].schedule} : schedules'[s] = schedules[s]
    BY <1>6 DEF Settles, Moved
  <2> QED BY <1>0, <1>3, <1>6, <2>1, <2>2, <2>3
<1>7. CASE UNCHANGED now /\ Plans(p)
  <2>1. pc'[p] # "firing" /\ Held(p)' = batch[p] /\ batch[p] \subseteq Held(p)
    BY <1>7 DEF Plans, Held
  <2>2. \A s \in ScheduleIds : schedules[s].status # "unused" => schedules'[s] = schedules[s]
    BY <1>0, <1>7 DEF Plans
  <2> QED BY <1>0, <1>1, <1>3, <1>7, <2>1, <2>2
<1>8. CASE Crash(p)
  <2>1. batch'[p] = {} /\ pc'[p] = "ready" /\ UNCHANGED <<now, schedules>>
    BY <1>0, <1>8 DEF Crash, NextRow
  <2>2. Held(p)' = {}
    BY <2>1 DEF Held
  <2> QED BY <1>3, <2>1, <2>2
<1> QED BY <1>4, <1>5, <1>6, <1>7, <1>8, EngineEffect

\* A row that is in use stays in use.
LEMMA NextUnused == TypeInv /\ UnusedInv /\ [Next]_vars => UnusedInv'
<1> SUFFICES ASSUME TypeInv, UnusedInv, [Next]_vars PROVE UnusedInv'
  OBVIOUS
<1>0. schedules \in [ScheduleIds -> ScheduleRow]
  BY RowFacts
<1>1. CASE Aside
  BY <1>1 DEF Aside, UnusedInv
<1>2. ASSUME NEW p \in Schedulers, EngineStep(p) \/ Crash(p) PROVE UnusedInv'
  <2>1. CASE UNCHANGED schedules
    BY <2>1 DEF UnusedInv
  <2>2. ASSUME NEW x, NEW to \in {"pending", "processing", "completed", "cancelled"}, NEW n,
               Moved(x, to, n)
        PROVE  UnusedInv'
    BY <2>2 DEF Moved, UnusedInv
  <2>3. CASE Plans(p)
    BY <1>0, <2>3 DEF Plans, NewSchedule, UnusedInv
  <2> QED BY <1>2, <2>1, <2>2, <2>3, EngineEffect DEF Polls, Marks, Settles, Crash
<1> QED BY <1>1, <1>2, StepEffect

----------------------------------------------------------------------------
(* A completed schedule.                                                   *)

OneSchedulerInv == TypeInv /\ UnusedInv /\ RowsInv

\* No row is held before the first poll.
LEMMA InitOneScheduler == Init => OneSchedulerInv
<1>1. Init => UnusedInv
  BY DEF Init, StorageInit, UnusedInv
<1>2. Init => RowsInv
  BY DEF Init, EngineInit, RowsInv, Held
<1> QED BY <1>1, <1>2, InitType DEF OneSchedulerInv

\* Every step keeps what the one scheduler holds true.
LEMMA NextOneScheduler == OneScheduler /\ OneSchedulerInv /\ [Next]_vars => OneSchedulerInv'
BY StepEffect, AsideRows, EngineRows, NextUnused, NextType DEF OneSchedulerInv

\* A completed schedule never fires again: the one scheduler does not hold it any more,
\* and nobody else touches it, whatever fails.
THEOREM CompletedStays ==
    ASSUME OneScheduler
    PROVE  Spec => CompletedIsFinal
<1> DEFINE Final == \A s \in ScheduleIds : schedules[s].status = "completed" =>
                        schedules'[s].status \in {"completed", "deleted"}
<1>1. OneSchedulerInv /\ [Next]_vars => Final
  <2> SUFFICES ASSUME OneSchedulerInv, [Next]_vars,
                      NEW s \in ScheduleIds, schedules[s].status = "completed"
               PROVE  schedules'[s].status \in {"completed", "deleted"}
    OBVIOUS
  <2> USE DEF OneSchedulerInv
  <2>1. CASE Aside
    BY <2>1 DEF Aside, IsLive
  <2>2. ASSUME NEW p \in Schedulers, EngineStep(p) \/ Crash(p)
        PROVE  schedules'[s].status \in {"completed", "deleted"}
    <3>1. \A row \in Held(p) : row.schedule # s
      BY DEF RowsInv
    <3>2. CASE Polls(p) \/ Crash(p)
      BY <3>2 DEF Polls, Crash
    <3>3. CASE Marks(p)
      BY <3>1, <3>3 DEF Marks, Moved, Held
    <3>4. CASE Settles(p)
      BY <3>1, <3>4 DEF Settles, Moved, Held
    <3>5. CASE Plans(p)
      BY <3>5, RowFacts DEF Plans
    <3> QED BY <2>2, <3>2, <3>3, <3>4, <3>5, EngineEffect
  <2> QED BY <2>1, <2>2, StepEffect
<1>2. OneSchedulerInv /\ [Next]_vars => OneSchedulerInv'
  BY NextOneScheduler
<1>3. OneSchedulerInv /\ OneSchedulerInv' /\ [Next]_vars => [Final]_vars
  BY <1>1
<1> HIDE DEF Final
<1>4. Spec => [][Final]_vars
  BY <1>2, <1>3, InitOneScheduler, PTL DEF Spec
<1> QED BY <1>4 DEF Final, CompletedIsFinal

----------------------------------------------------------------------------
(* The number of firings.                                                  *)

\* Each firing logs one event at most, and is counted before the schedule is read again.
CountInv ==
    /\ \A s \in ScheduleIds :
          /\ IsFiniteSet(EventsFor(s))
          /\ Cardinality(EventsFor(s)) <= MaxRetries
          /\ schedules[s].status = "unused" => EventsFor(s) = {}
          /\ schedules[s].status = "pending" =>
                /\ Cardinality(EventsFor(s)) <= schedules[s].attempts
                /\ schedules[s].attempts < MaxRetries
    /\ \A p \in Schedulers : \A row \in Held(p) :
          /\ row.attempts < MaxRetries
          /\ row \in batch[p] \/ call[p].pc = "log" =>
                Cardinality(EventsFor(row.schedule)) <= row.attempts
          /\ Cardinality(EventsFor(row.schedule)) <= row.attempts + 1

\* Webhooks log no event for a schedule.
HookCallInv == \A h \in Hooks : call[h].schedule = Null

AttemptsInv == OneSchedulerInv /\ DeliveryInv /\ IdleInv /\ HookCallInv /\ CountInv

\* Who stops firing has no call left, under every fault.
LEMMA NextIdle == TypeInv /\ IdleInv /\ [Next]_vars => IdleInv'
<1> SUFFICES ASSUME TypeInv, IdleInv, [Next]_vars PROVE IdleInv'
  OBVIOUS
<1>0. /\ call \in [Callers -> CallType]
      /\ pc \in [Schedulers -> {"ready", "firing", "finish"}]
      /\ hook \in [Hooks -> HookType]
      /\ Schedulers \subseteq Callers /\ Hooks \subseteq Callers
      /\ Schedulers \cap Hooks = {}
  BY CallFacts
<1>1. CASE UNCHANGED <<call, pc, hook>>
  BY <1>1 DEF IdleInv
<1>2. ASSUME NEW c \in Callers, EventStep(c) PROVE IdleInv'
  <2>1. UNCHANGED <<pc, hook>>
    BY <1>2 DEF EventStep, engineVars, apiVars
  <2>2. call[c].pc # "none" /\ \A d \in Callers \ {c} : call'[d] = call[d]
    BY <1>0, <1>2 DEF EventStep, LogEvent, PublishAcked, PublishFailed, MarkFailed
  <2> QED BY <1>0, <2>1, <2>2 DEF IdleInv
<1>3. ASSUME NEW p \in Schedulers, EngineFault(p) PROVE IdleInv'
  <2>1. CASE Crash(p)
    <3>1. pc'[p] = "ready" /\ \A q \in Schedulers \ {p} : pc'[q] = pc[q]
      BY <1>0, <2>1 DEF Crash, NextRow
    <3>2. call'[p].pc = "none" /\ \A c \in Callers \ {p} : call'[c] = call[c]
      BY <1>0, <2>1 DEF Crash, Return, NoCall
    <3>3. UNCHANGED hook
      BY <1>3 DEF EngineFault, apiVars
    <3> QED BY <1>0, <3>1, <3>2, <3>3 DEF IdleInv
  <2>2. CASE ~Crash(p)
    <3>1. UNCHANGED <<call, pc, hook>>
      BY <1>3, <2>2 DEF EngineFault, Shutdown, Restart, eventVars, engineVars, apiVars
    <3> QED BY <1>1, <3>1
  <2> QED BY <2>1, <2>2
<1>4. CASE ServerStep
  <2>1. UNCHANGED pc
    BY <1>4 DEF ServerStep, engineVars
  <2>2. CASE Exit
    <3>1. /\ \A c \in Callers : call'[c] = IF c \in Hooks THEN NoCall ELSE call[c]
          /\ NoCall.pc = "none"
      BY <2>2 DEF Exit, NoCall
    <3> QED BY <1>0, <2>1, <3>1 DEF IdleInv
  <2>3. CASE UNCHANGED <<call, hook>>
    BY <1>1, <2>1, <2>3
  <2> QED BY <1>4, <2>2, <2>3
      DEF ServerStep, BeginShutdown, EndShutdown, Kill, StartServer, eventVars
<1>5. ASSUME NEW r \in Requests, ClientStep(r) \/ UpdateStep(r) PROVE IdleInv'
  BY <1>1, <1>5 DEF ClientStep, UpdateStep, eventVars, engineVars
<1>6. CASE ClockStep \/ UNCHANGED vars
  BY <1>1, <1>6 DEF ClockStep, eventVars, engineVars, apiVars, vars
<1> QED BY <1>2, <1>3, <1>4, <1>5, <1>6, EngineStepIdle, WebhookStepIdle DEF Next

\* No step gives a webhook a schedule.
LEMMA NextHookCall == TypeInv /\ HookCallInv /\ [Next]_vars => HookCallInv'
<1> SUFFICES ASSUME TypeInv, HookCallInv, [Next]_vars PROVE HookCallInv'
  OBVIOUS
<1>0. /\ call \in [Callers -> CallType] /\ CallsOK
      /\ Schedulers \subseteq Callers /\ Hooks \subseteq Callers
      /\ Schedulers \cap Hooks = {}
  BY CallFacts DEF TypeInv
<1>1. CASE UNCHANGED call
  BY <1>1 DEF HookCallInv
<1>2. ASSUME NEW c \in Callers, EventStep(c) PROVE HookCallInv'
  <2>1. \A d \in Callers : call'[d].schedule = call[d].schedule
    <3>1. CASE LogEvent(c)
      <4>1. \E e, ok : call' = IF ok THEN [call EXCEPT ![c].pc = "publish", ![c].event = e]
                               ELSE [call EXCEPT ![c].pc = "failed"]
        BY <3>1 DEF LogEvent
      <4> QED BY <1>0, <4>1 DEF CallType
    <3>2. CASE PublishAcked(c) \/ PublishFailed(c) \/ MarkFailed(c)
      BY <1>0, <3>2 DEF PublishAcked, PublishFailed, MarkFailed, CallType
    <3> QED BY <1>2, <3>1, <3>2 DEF EventStep
  <2> QED BY <1>0, <2>1 DEF HookCallInv
<1>3. ASSUME NEW p \in Schedulers, EngineStep(p) \/ EngineFault(p) PROVE HookCallInv'
  <2>1. UNCHANGED call \/ Return(p) \/ \E t, s : FireTrigger(p, t, s)
    BY <1>3 DEF EngineStep, EngineFault, Poll, MarkProcessing, RetryLater,
       CancelAfterMaxRetries, Complete, DeactivateOneTime, ScheduleNextRun, Shutdown, Restart,
       Crash, eventVars
  <2>2. \A h \in Hooks : call'[h] = call[h]
    BY <1>0, <2>1 DEF Return, FireTrigger
  <2> QED BY <2>2 DEF HookCallInv
<1>4. ASSUME NEW h \in Hooks, WebhookStep(h) PROVE HookCallInv'
  <2>1. CASE \E t : FireTrigger(h, t, Null)
    <3>1. PICK t : call' = [call EXCEPT ![h] = [NoCall EXCEPT !.pc = "log", !.trigger = t,
                                                            !.schedule = Null]]
      BY <2>1 DEF FireTrigger
    <3>2. call'[h].schedule = Null /\ \A g \in Hooks \ {h} : call'[g] = call[g]
      BY <1>0, <3>1 DEF NoCall
    <3> QED BY <3>2 DEF HookCallInv
  <2>2. CASE Return(h)
    BY <1>0, <2>2 DEF Return, NoCall, HookCallInv
  <2> QED BY <1>1, <1>4, <2>1, <2>2
      DEF WebhookStep, ReceiveWebhook, Reply, HangUp, eventVars
<1>5. CASE ServerStep
  <2>1. CASE Exit
    BY <1>0, <2>1 DEF Exit, NoCall, HookCallInv
  <2> QED BY <1>1, <1>5, <2>1
      DEF ServerStep, BeginShutdown, EndShutdown, Kill, StartServer, eventVars
<1>6. ASSUME NEW r \in Requests, ClientStep(r) \/ UpdateStep(r) PROVE HookCallInv'
  BY <1>1, <1>6 DEF ClientStep, UpdateStep, eventVars
<1>7. CASE ClockStep \/ UNCHANGED vars
  BY <1>1, <1>7 DEF ClockStep, eventVars, vars
<1> QED BY <1>2, <1>3, <1>4, <1>5, <1>6, <1>7 DEF Next

\* A step of FireTrigger adds one event to those of its schedule, or none.
LEMMA EventStepEvents ==
    ASSUME TypeInv, CallsInv, NEW c \in Callers, EventStep(c), NEW s \in ScheduleIds
    PROVE  \/ EventsFor(s)' = EventsFor(s)
           \/ /\ call[c].pc = "log" /\ call'[c].pc # "log" /\ call[c].schedule = s
              /\ \E e : EventsFor(s)' = EventsFor(s) \cup {e}
<1>0. /\ call \in [Callers -> CallType]
      /\ eventLogs \in [EventIds -> EventRow]
      /\ call[c].pc \in {"publish", "markfailed"} => call[c].event \in EventIds
  BY DEF TypeInv, CallsOK, EventTypeOK, StorageOK
<1>1. CASE LogEvent(c)
  <2>1. PICK e \in Fresh(eventLogs), ok \in BOOLEAN :
           /\ CreateEventLog(c, e, call[c].trigger, call[c].schedule, ok)
           /\ call' = IF ok THEN [call EXCEPT ![c].pc = "publish", ![c].event = e]
                            ELSE [call EXCEPT ![c].pc = "failed"]
    BY <1>1 DEF LogEvent
  <2>2. e \in EventIds /\ call[c].pc = "log" /\ call'[c].pc # "log"
    BY <1>0, <1>1, <2>1, FreshId DEF LogEvent, CallType
  <2>3. CASE eventLogs' = [eventLogs EXCEPT ![e] = [status |-> "success",
                                trigger |-> call[c].trigger, schedule |-> call[c].schedule]]
    <3>1. /\ eventLogs[e].status = "unused"
          /\ eventLogs'[e].status = "success" /\ eventLogs'[e].schedule = call[c].schedule
          /\ \A f \in EventIds \ {e} : eventLogs'[f] = eventLogs[f]
      BY <1>0, <2>1, <2>2, <2>3, FreshId
    <3>2. CASE call[c].schedule = s
      <4>1. EventsFor(s)' = EventsFor(s) \cup {e}
        BY <2>2, <3>1, <3>2 DEF EventsFor
      <4> QED BY <2>2, <3>2, <4>1
    <3>3. CASE call[c].schedule # s
      BY <2>2, <3>1, <3>3 DEF EventsFor
    <3> QED BY <3>2, <3>3
  <2>4. CASE UNCHANGED eventLogs
    BY <2>4 DEF EventsFor
  <2> QED BY <2>1, <2>3, <2>4 DEF CreateEventLog
<1>2. CASE PublishAcked(c) \/ PublishFailed(c)
  BY <1>2 DEF PublishAcked, PublishFailed, storageVars, EventsFor
<1>3. CASE MarkFailed(c)
  <2>1. call[c].event \in EventIds /\ eventLogs[call[c].event].status # "unused"
    BY <1>0, <1>3 DEF MarkFailed, CallsInv
  <2>2. \/ UNCHANGED eventLogs
        \/ /\ eventLogs'[call[c].event].status = "failure"
           /\ eventLogs'[call[c].event].schedule = eventLogs[call[c].event].schedule
           /\ \A f \in EventIds \ {call[c].event} : eventLogs'[f] = eventLogs[f]
    BY <1>0, <1>3, <2>1 DEF MarkFailed, UpdateEventLogStatus, EventRow
  <2>3. EventsFor(s)' = EventsFor(s)
    BY <2>1, <2>2 DEF EventsFor
  <2> QED BY <2>3
<1> QED BY <1>1, <1>2, <1>3 DEF EventStep

\* Nothing has fired before the first step.
LEMMA InitCount == Init => CountInv
<1> SUFFICES ASSUME Init PROVE CountInv
  OBVIOUS
<1>1. \A s \in ScheduleIds : EventsFor(s) = {} /\ schedules[s].status = "unused"
  BY DEF Init, StorageInit, EventsFor
<1>2. \A p \in Schedulers : Held(p) = {}
  BY DEF Init, EngineInit, Held
<1> QED BY <1>1, <1>2, FS_EmptySet, EngineAssumption DEF CountInv

\* A step of FireTrigger logs its one event, for the row being fired.
LEMMA EventStepCount ==
    ASSUME OneScheduler, OneSchedulerInv, DeliveryInv, IdleInv, HookCallInv, CountInv,
           NEW c \in Callers, EventStep(c)
    PROVE  CountInv'
<1>0. /\ call \in [Callers -> CallType]
      /\ \A p \in Schedulers : p \in Callers
      /\ \A p \in Schedulers : \A row \in Held(p) : row.schedule \in ScheduleIds
                                                 /\ row.attempts \in Nat
      /\ c \in Schedulers \/ c \in Hooks
      /\ MaxRetries \in Nat
  BY CallFacts, RowFacts, EngineAssumption DEF OneSchedulerInv, Held, SnapshotType, Callers
<1>1. /\ UNCHANGED <<schedules, pc, batch, item>>
      /\ \A p \in Schedulers : Held(p)' = Held(p)
  BY DEF EventStep, LogEvent, PublishAcked, PublishFailed, MarkFailed,
         storageVars, engineVars, Held
<1>2. \A p \in Schedulers : call'[p].pc = "log" => call[p].pc = "log"
  <2>1. \E to \in {"publish", "failed", "ok", "markfailed"} : \E e :
           \/ call' = [call EXCEPT ![c].pc = to]
           \/ call' = [call EXCEPT ![c].pc = to, ![c].event = e]
    BY DEF EventStep, LogEvent, PublishAcked, PublishFailed, MarkFailed
  <2> QED BY <1>0, <2>1 DEF CallType
<1>3. CASE \A s \in ScheduleIds : EventsFor(s)' = EventsFor(s)
  BY <1>0, <1>1, <1>2, <1>3 DEF CountInv
<1>4. ASSUME NEW s \in ScheduleIds, EventsFor(s)' # EventsFor(s) PROVE CountInv'
  <2>1. PICK e : /\ call[c].pc = "log" /\ call'[c].pc # "log" /\ call[c].schedule = s
                 /\ EventsFor(s)' = EventsFor(s) \cup {e}
    BY <1>4, EventStepEvents DEF DeliveryInv
  <2>2. \A r \in ScheduleIds \ {s} : EventsFor(r)' = EventsFor(r)
    BY <2>1, EventStepEvents DEF DeliveryInv
  <2>3. c \in Schedulers
    BY <1>0, <2>1, StorageAssumption DEF HookCallInv
  <2>4. /\ pc[c] = "firing" /\ item[c].schedule = s
        /\ item[c] \in Held(c) /\ item[c] \notin batch[c] /\ batch[c] \subseteq Held(c)
    BY <2>1, <2>3 DEF IdleInv, DeliveryInv, FiringInv, Held, OneSchedulerInv, RowsInv
  <2>5. /\ schedules[s].status # "pending" /\ schedules[s].status # "unused"
        /\ \A row \in Held(c) : row.schedule = s => row = item[c]
    BY <2>3, <2>4 DEF OneSchedulerInv, RowsInv
  <2>6. /\ IsFiniteSet(EventsFor(s))
        /\ Cardinality(EventsFor(s)) <= item[c].attempts
        /\ item[c].attempts < MaxRetries
    BY <2>1, <2>3, <2>4 DEF CountInv
  <2>7. /\ IsFiniteSet(EventsFor(s)')
        /\ Cardinality(EventsFor(s)') <= item[c].attempts + 1
        /\ Cardinality(EventsFor(s)') <= MaxRetries
    <3>1. Cardinality(EventsFor(s)) \in Nat
      BY <2>6, FS_CardinalityType
    <3>2. /\ IsFiniteSet(EventsFor(s) \cup {e})
          /\ \/ Cardinality(EventsFor(s) \cup {e}) = Cardinality(EventsFor(s))
             \/ Cardinality(EventsFor(s) \cup {e}) = Cardinality(EventsFor(s)) + 1
      BY <2>6, FS_AddElement
    <3>3. item[c].attempts \in Nat
      BY <1>0, <2>3, <2>4
    <3> QED BY <1>0, <2>1, <2>6, <3>1, <3>2, <3>3
  <2>8. ASSUME NEW r \in ScheduleIds
        PROVE  /\ IsFiniteSet(EventsFor(r)')
               /\ Cardinality(EventsFor(r)') <= MaxRetries
               /\ schedules[r].status = "unused" => EventsFor(r)' = {}
               /\ schedules[r].status = "pending" =>
                     /\ Cardinality(EventsFor(r)') <= schedules[r].attempts
                     /\ schedules[r].attempts < MaxRetries
    BY <2>2, <2>5, <2>7 DEF CountInv
  <2>9. ASSUME NEW row \in Held(c)
        PROVE  /\ row.attempts < MaxRetries
               /\ row \in batch[c] \/ call'[c].pc = "log" =>
                     Cardinality(EventsFor(row.schedule)') <= row.attempts
               /\ Cardinality(EventsFor(row.schedule)') <= row.attempts + 1
    <3>1. CASE row = item[c]
      BY <2>1, <2>4, <2>6, <2>7, <3>1
    <3>2. CASE row # item[c]
      <4>1. EventsFor(row.schedule)' = EventsFor(row.schedule)
        BY <1>0, <2>2, <2>3, <2>5, <3>2
      <4> QED BY <2>1, <2>3, <4>1 DEF CountInv
    <3> QED BY <3>1, <3>2
  <2>10. \A p \in Schedulers : p = c
    BY <2>3 DEF OneScheduler
  <2> QED BY <1>1, <2>8, <2>9, <2>10 DEF CountInv
<1> QED BY <1>3, <1>4

\* The scheduler reads a schedule only when its last firing is counted, counts a failure
\* when it reverts the schedule, and creates schedules that have never been fired.
LEMMA EngineCount ==
    ASSUME OneScheduler, OneSchedulerInv, CountInv,
           NEW p \in Schedulers, EngineStep(p) \/ Crash(p)
    PROVE  CountInv'
<1>0. /\ schedules \in [ScheduleIds -> ScheduleRow]
      /\ call \in [Callers -> CallType] /\ p \in Callers
      /\ batch \in [Schedulers -> SUBSET SnapshotType]
      /\ pc \in [Schedulers -> {"ready", "firing", "finish"}]
      /\ MaxRetries \in Nat \ {0}
      /\ \A row \in Held(p) : row.schedule \in ScheduleIds /\ row.attempts \in Nat
  BY RowFacts, CallFacts, EngineAssumption DEF OneSchedulerInv, Held, SnapshotType
<1> DEFINE Fired(s) == Cardinality(EventsFor(s))
           RowCount(row) == row.attempts < MaxRetries /\ Fired(row.schedule) <= row.attempts + 1
           Counted(s) == schedules[s].status = "pending" =>
                             Fired(s) <= schedules[s].attempts /\ schedules[s].attempts < MaxRetries
<1>1. /\ \A s \in ScheduleIds :
            /\ IsFiniteSet(EventsFor(s)) /\ Fired(s) <= MaxRetries
            /\ schedules[s].status = "unused" => EventsFor(s) = {}
            /\ Counted(s)
      /\ \A row \in Held(p) : RowCount(row)
      /\ \A row \in batch[p] : Fired(row.schedule) <= row.attempts
  BY DEF CountInv, Held
<1>2. eventLogs' = eventLogs
  BY DEF EngineStep, Crash, Poll, MarkProcessing, RetryLater, CancelAfterMaxRetries, Complete,
         DeactivateOneTime, ScheduleNextRun, storageVars
<1>3. \A s \in ScheduleIds : EventsFor(s)' = EventsFor(s)
  BY <1>2 DEF EventsFor
<1>4. ASSUME \A s \in ScheduleIds :
                /\ schedules'[s].status = "unused" => schedules[s].status = "unused"
                /\ schedules'[s].status = "pending" => /\ Fired(s) <= schedules'[s].attempts
                                                       /\ schedules'[s].attempts < MaxRetries,
             \A row \in Held(p)' :
                /\ row.schedule \in ScheduleIds
                /\ RowCount(row)
                /\ row \in batch'[p] \/ call'[p].pc = "log" => Fired(row.schedule) <= row.attempts
      PROVE  CountInv'
  BY <1>1, <1>3, <1>4 DEF CountInv, OneScheduler
<1>5. ASSUME \A s \in ScheduleIds :
                \/ schedules'[s] = schedules[s]
                \/ schedules'[s].status \in {"processing", "completed", "cancelled"}
      PROVE  \A s \in ScheduleIds :
                /\ schedules'[s].status = "unused" => schedules[s].status = "unused"
                /\ schedules'[s].status = "pending" => /\ Fired(s) <= schedules'[s].attempts
                                                       /\ schedules'[s].attempts < MaxRetries
  <2> SUFFICES ASSUME NEW s \in ScheduleIds
               PROVE  /\ schedules'[s].status = "unused" => schedules[s].status = "unused"
                      /\ schedules'[s].status = "pending" =>
                            /\ Fired(s) <= schedules'[s].attempts
                            /\ schedules'[s].attempts < MaxRetries
    OBVIOUS
  <2>1. Counted(s)
    BY <1>1
  <2>2. CASE schedules'[s] = schedules[s]
    BY <2>1, <2>2
  <2>3. CASE schedules'[s].status \in {"processing", "completed", "cancelled"}
    BY <2>3
  <2> QED BY <1>5, <2>2, <2>3
<1>6. CASE Polls(p)
  <2>1. PICK rows \in SUBSET DueRows : batch'[p] = {Snapshot(s) : s \in rows}
    BY <1>6 DEF Polls
  <2>2. Held(p)' = {Snapshot(s) : s \in rows} /\ schedules' = schedules
    BY <1>6, <2>1 DEF Polls, Held
  <2>3. \A s \in rows : /\ s \in ScheduleIds /\ Snapshot(s).schedule = s
                       /\ Snapshot(s).attempts = schedules[s].attempts
                       /\ schedules[s].status = "pending"
    BY DEF DueRows, Snapshot
  <2>4. ASSUME NEW s \in rows
        PROVE  RowCount(Snapshot(s)) /\ Fired(s) <= Snapshot(s).attempts
    <3>1. /\ IsFiniteSet(EventsFor(s)) /\ Fired(s) <= schedules[s].attempts
          /\ schedules[s].attempts < MaxRetries
      BY <1>1, <2>3
    <3>2. Fired(s) \in Nat
      BY <3>1, FS_CardinalityType
    <3>3. schedules[s].attempts \in Nat
      BY <1>0, <2>3 DEF ScheduleRow
    <3> HIDE DEF Fired
    <3> QED BY <2>3, <3>1, <3>2, <3>3
  <2> QED BY <1>1, <1>4, <1>5, <2>2, <2>3, <2>4
<1>7. CASE Marks(p)
  <2>1. PICK row \in batch[p] :
            /\ batch'[p] = batch[p] \ {row}
            /\ \/ pc'[p] = "firing" /\ item'[p] = row
               \/ pc'[p] = pc[p]
            /\ UNCHANGED schedules \/ Moved(row.schedule, "processing", 0)
    BY <1>7 DEF Marks
  <2>2. pc[p] = "ready" /\ Held(p) = batch[p] /\ Held(p)' \subseteq batch[p]
    BY <1>7, <2>1 DEF Marks, Held
  <2>3. \A s \in ScheduleIds : schedules'[s] = schedules[s] \/ schedules'[s].status = "processing"
    BY <2>1 DEF Moved
  <2> QED BY <1>0, <1>1, <1>4, <1>5, <2>2, <2>3
<1>8. CASE Settles(p)
  <2>1. /\ Held(p)' = batch[p] /\ batch'[p] = batch[p]
        /\ item[p] \in Held(p) /\ batch[p] \subseteq Held(p)
    BY <1>8 DEF Settles, Held
  <2>2. CASE Moved(item[p].schedule, "pending", 1) /\ item[p].attempts + 1 < MaxRetries
    <3>1. /\ schedules[item[p].schedule].attempts = item[p].attempts
          /\ item[p].schedule \in ScheduleIds
      BY <1>0, <2>1 DEF OneSchedulerInv, RowsInv
    <3>2. \A s \in ScheduleIds :
             /\ schedules'[s].status = "unused" => schedules[s].status = "unused"
             /\ schedules'[s].status = "pending" => /\ Fired(s) <= schedules'[s].attempts
                                                    /\ schedules'[s].attempts < MaxRetries
      <4>1. \A s \in ScheduleIds \ {item[p].schedule} : schedules'[s] = schedules[s] /\ Counted(s)
        BY <1>1, <2>2 DEF Moved
      <4>2. /\ schedules'[item[p].schedule].status = "pending"
            /\ schedules'[item[p].schedule].attempts = item[p].attempts + 1
            /\ RowCount(item[p])
        BY <1>1, <2>1, <2>2, <3>1 DEF Moved
      <4> HIDE DEF Fired
      <4> QED BY <2>2, <4>1, <4>2
    <3> QED BY <1>0, <1>1, <1>4, <2>1, <3>2
  <2>3. CASE \A s \in ScheduleIds : schedules'[s] = schedules[s]
                                 \/ schedules'[s].status \in {"completed", "cancelled"}
    BY <1>0, <1>1, <1>4, <1>5, <2>1, <2>3
  <2> QED BY <1>8, <2>2, <2>3 DEF Settles, Moved
<1>9. CASE Plans(p)
  <2>1. /\ Held(p)' = batch[p] /\ batch'[p] = batch[p] /\ batch[p] \subseteq Held(p)
    BY <1>9 DEF Plans, Held
  <2>2. CASE UNCHANGED schedules
    BY <1>0, <1>1, <1>4, <1>5, <2>1, <2>2
  <2>3. ASSUME NEW s \in ScheduleIds, NEW t, NEW at, schedules[s].status = "unused",
               schedules' = [schedules EXCEPT ![s] = NewSchedule(t, at)]
        PROVE  CountInv'
    <3>1. Fired(s) = 0
      <4>1. EventsFor(s) = {}
        BY <1>1, <2>3
      <4> QED BY <4>1, FS_EmptySet
    <3>2. schedules'[s].status = "pending" /\ schedules'[s].attempts = 0
      BY <1>0, <2>3 DEF NewSchedule
    <3>3. \A r \in ScheduleIds \ {s} : schedules'[r] = schedules[r]
      BY <1>0, <2>3
    <3>4. \A r \in ScheduleIds :
             /\ schedules'[r].status = "unused" => schedules[r].status = "unused"
             /\ schedules'[r].status = "pending" => /\ Fired(r) <= schedules'[r].attempts
                                                    /\ schedules'[r].attempts < MaxRetries
      <4>1. \A r \in ScheduleIds \ {s} : Counted(r)
        BY <1>1
      <4> HIDE DEF Fired
      <4> QED BY <1>0, <3>1, <3>2, <3>3, <4>1
    <3> QED BY <1>0, <1>1, <1>4, <2>1, <3>4
  <2> QED BY <1>9, <2>2, <2>3 DEF Plans
<1>10. CASE Crash(p)
  <2>1. batch'[p] = {} /\ pc'[p] = "ready" /\ UNCHANGED schedules
    BY <1>0, <1>10 DEF Crash, NextRow
  <2>2. Held(p)' = {}
    BY <2>1 DEF Held
  <2> QED BY <1>4, <1>5, <2>1, <2>2
<1> QED BY <1>6, <1>7, <1>8, <1>9, <1>10, EngineEffect DEF OneSchedulerInv

\* The other steps fire no schedule and add only new ones.
LEMMA AsideCount ==
    ASSUME TypeInv, CountInv, Aside, QuietStep,
           \A p \in Schedulers : call'[p] = call[p]
    PROVE  CountInv'
<1>1. \A s \in ScheduleIds : EventsFor(s)' = EventsFor(s)
  BY DEF QuietStep, EventsFor
<1>2. \A p \in Schedulers : Held(p)' = Held(p) /\ batch'[p] = batch[p]
  BY DEF Aside, Held
<1>3. \A p \in Schedulers : \A row \in Held(p) : row.schedule \in ScheduleIds
  BY RowFacts DEF Held, SnapshotType
<1>4. MaxRetries \in Nat \ {0}
  BY EngineAssumption
<1>5. ASSUME NEW s \in ScheduleIds
      PROVE  /\ schedules'[s].status = "unused" => EventsFor(s) = {}
             /\ schedules'[s].status = "pending" =>
                   /\ Cardinality(EventsFor(s)) <= schedules'[s].attempts
                   /\ schedules'[s].attempts < MaxRetries
  <2>1. CASE schedules'[s] = schedules[s]
    BY <2>1 DEF CountInv
  <2>2. CASE /\ schedules[s].status = "unused"
             /\ schedules'[s].status = "pending" /\ schedules'[s].attempts = 0
    BY <1>4, <2>2, FS_EmptySet DEF CountInv
  <2> QED BY <2>1, <2>2 DEF Aside
<1> QED BY <1>1, <1>2, <1>3, <1>5 DEF CountInv

\* Every step keeps the count.
LEMMA NextCount == OneScheduler /\ AttemptsInv /\ [Next]_vars => CountInv'
<1> SUFFICES ASSUME OneScheduler, AttemptsInv, [Next]_vars PROVE CountInv'
  OBVIOUS
<1> USE DEF AttemptsInv
<1>0. /\ TypeInv /\ UnusedInv /\ CallsInv /\ FiringInv /\ AcceptedInv
      /\ call \in [Callers -> CallType] /\ Schedulers \subseteq Callers
      /\ Schedulers \cap Hooks = {}
      /\ Hooks \subseteq Callers
  BY CallFacts DEF OneSchedulerInv, DeliveryInv
<1>1. CASE \E p \in Schedulers : EngineStep(p) \/ Crash(p)
  BY <1>1, EngineCount
<1>2. CASE \E c \in Callers : EventStep(c)
  BY <1>2, EventStepCount
<1>3. ASSUME Aside, QuietStep, \A p \in Schedulers : call'[p] = call[p] PROVE CountInv'
  BY <1>0, <1>3, AsideCount
<1>4. ASSUME Aside, NEW p \in Schedulers, EngineFault(p), ~Crash(p) PROVE CountInv'
  <2>1. UNCHANGED call
    BY <1>4 DEF EngineFault, Shutdown, Restart, eventVars
  <2> QED BY <1>0, <1>3, <1>4, <2>1, EngineFaultQuiet
<1>5. ASSUME Aside, NEW r \in Requests, ClientStep(r) \/ UpdateStep(r) PROVE CountInv'
  <2>1. UNCHANGED call
    BY <1>5 DEF ClientStep, UpdateStep, eventVars
  <2> QED BY <1>0, <1>3, <1>5, <2>1, ClientStepQuiet
<1>6. ASSUME Aside, NEW h \in Hooks, WebhookStep(h) PROVE CountInv'
  <2>1. \A p \in Schedulers : call'[p] = call[p]
    <3>1. h \in Callers /\ h \notin Schedulers
      BY <1>0
    <3>2. \E to : call' = [call EXCEPT ![h] = to] \/ UNCHANGED call
      BY <1>6 DEF WebhookStep, ReceiveWebhook, Reply, HangUp, FireTrigger, Return, eventVars
    <3> QED BY <1>0, <3>1, <3>2
  <2> QED BY <1>0, <1>3, <1>6, <2>1, WebhookStepQuiet
<1>7. CASE Aside /\ ServerStep
  <2>1. \A p \in Schedulers : call'[p] = call[p]
    <3>1. UNCHANGED call \/ Exit
      BY <1>7 DEF ServerStep, BeginShutdown, EndShutdown, Kill, StartServer, eventVars
    <3> QED BY <1>0, <3>1 DEF Exit
  <2> QED BY <1>0, <1>3, <1>7, <2>1, ServerStepQuiet
<1>8. CASE Aside /\ (ClockStep \/ UNCHANGED vars)
  <2>1. UNCHANGED <<call, topic, eventLogs>>
    BY <1>8 DEF ClockStep, Tick, eventVars, vars, storageVars
  <2> QED BY <1>3, <1>8, <2>1 DEF QuietStep
<1> QED BY <1>0, <1>1, <1>2, <1>4, <1>5, <1>6, <1>7, <1>8, StepEffect DEF Next

\* No call, row or event before the first step.
LEMMA InitAttempts == Init => AttemptsInv
<1>1. Init => IdleInv /\ HookCallInv
  BY CallFacts, InitType DEF Init, EventInit, EngineInit, IdleInv, HookCallInv, NoCall, Callers
<1> QED BY <1>1, InitOneScheduler, InitDelivery, InitCount DEF AttemptsInv

\* Every step keeps the whole of it.
LEMMA NextAttempts == OneScheduler /\ AttemptsInv /\ [Next]_vars => AttemptsInv'
BY NextOneScheduler, NextDelivery, NextIdle, NextHookCall, NextCount
   DEF AttemptsInv, OneSchedulerInv

\* No schedule is fired more than MaxRetries times: neither retries, nor crashes at any
\* point, nor failed updates of its row let the one scheduler lose count.
THEOREM AttemptsAreBounded ==
    ASSUME OneScheduler
    PROVE  Spec => []AttemptsBounded
<1>1. AttemptsInv => AttemptsBounded
  BY DEF AttemptsInv, CountInv, AttemptsBounded
<1> QED BY <1>1, InitAttempts, NextAttempts, PTL DEF Spec
============================================================================
