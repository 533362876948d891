-------------------------- MODULE LifecycleProofs --------------------------
(***************************************************************************)
(* The platform with one scheduler and no update of a config implements    *)
(* ScheduleLifecycle: every step is a step in the life of one schedule, or *)
(* the withdrawal of those of a trigger, or changes nothing of it.         *)
(***************************************************************************)
EXTENDS SingleProofs

\* Nothing has been counted for a row that was never inserted.
FreshInv == \A s \in ScheduleIds : schedules[s].status = "unused" => schedules[s].attempts = 0

\* What Kafka has was logged.
TopicInv == topic \subseteq {e \in EventIds : eventLogs[e].status # "unused"}

LifecycleInv == SingleInv /\ FreshInv /\ TopicInv

\* A row that is in use stays in use.
LEMMA NextFresh == TypeInv /\ UnusedInv /\ FreshInv /\ [Next]_vars => FreshInv'
<1> SUFFICES ASSUME TypeInv, UnusedInv, FreshInv, [Next]_vars PROVE FreshInv'
  OBVIOUS
<1>0. schedules \in [ScheduleIds -> ScheduleRow]
  BY RowFacts
<1>1. CASE Aside
  BY <1>1 DEF Aside, FreshInv
<1>2. ASSUME NEW p \in Schedulers, EngineStep(p) \/ Crash(p) PROVE FreshInv'
  <2>1. CASE UNCHANGED schedules
    BY <2>1 DEF FreshInv
  <2>2. ASSUME NEW x, NEW to \in {"pending", "processing", "completed", "cancelled"}, NEW n,
               Moved(x, to, n)
        PROVE  FreshInv'
    BY <2>2 DEF Moved, FreshInv
  <2>3. CASE Plans(p)
    BY <1>0, <2>3 DEF Plans, NewSchedule, FreshInv
  <2> QED BY <1>2, <2>1, <2>2, <2>3, EngineEffect DEF Polls, Marks, Settles, Crash
<1> QED BY <1>1, <1>2, StepEffect

\* What a step of FireTrigger does to the topic: nothing, or one logged event is stored,
\* and the schedule of no event in the topic changes.
LEMMA EventStepTopic ==
    ASSUME TypeInv, CallsInv, TopicInv, NEW c \in Callers, EventStep(c)
    PROVE  /\ UNCHANGED <<schedules, pc, batch, item>>
           /\ \A e \in EventIds : eventLogs[e].status # "unused" =>
                 /\ eventLogs'[e].status # "unused"
                 /\ eventLogs'[e].schedule = eventLogs[e].schedule
           /\ \/ topic' = topic
              \/ /\ call[c].pc = "publish" /\ call[c].event \in EventIds
                 /\ topic' = topic \cup {call[c].event}
                 /\ eventLogs[call[c].event].status # "unused"
                 /\ eventLogs[call[c].event].schedule = call[c].schedule
<1>0. /\ call \in [Callers -> CallType]
      /\ eventLogs \in [EventIds -> EventRow]
      /\ call[c].pc \in {"publish", "markfailed"} => call[c].event \in EventIds
  BY DEF TypeInv, CallsOK, EventTypeOK, StorageOK
<1>1. UNCHANGED <<schedules, pc, batch, item>>
  BY DEF EventStep, LogEvent, PublishAcked, PublishFailed, MarkFailed,
         storageVars, engineVars
<1>2. CASE LogEvent(c)
  <2>1. PICK e \in Fresh(eventLogs), ok \in BOOLEAN :
           CreateEventLog(c, e, call[c].trigger, call[c].schedule, ok)
    BY <1>2 DEF LogEvent
  <2>2. e \in EventIds /\ eventLogs[e].status = "unused"
    BY <1>0, FreshId
  <2>3. \A f \in EventIds \ {e} : eventLogs'[f] = eventLogs[f]
    BY <1>0, <2>1 DEF CreateEventLog
  <2>4. topic' = topic
    BY <1>2 DEF LogEvent
  <2> QED BY <1>1, <2>2, <2>3, <2>4
<1>3. CASE PublishAcked(c) \/ PublishFailed(c)
  <2>1. call[c].pc = "publish" /\ eventLogs' = eventLogs
    BY <1>3 DEF PublishAcked, PublishFailed, storageVars
  <2>2. topic' = topic \/ topic' = topic \cup {call[c].event}
    BY <1>3 DEF PublishAcked, PublishFailed
  <2>3. /\ eventLogs[call[c].event].status = "success"
        /\ eventLogs[call[c].event].schedule = call[c].schedule
    BY <2>1 DEF CallsInv
  <2> QED BY <1>0, <1>1, <2>1, <2>2, <2>3
<1>4. CASE MarkFailed(c)
  <2>1. topic' = topic /\ call[c].event \in EventIds
    BY <1>0, <1>4 DEF MarkFailed
  <2>2. \/ UNCHANGED eventLogs
        \/ eventLogs' = [eventLogs EXCEPT ![call[c].event].status = "failure"]
    BY <1>4 DEF MarkFailed, UpdateEventLogStatus
  <2>3. \A e \in EventIds : eventLogs[e].status # "unused" =>
           /\ eventLogs'[e].status # "unused"
           /\ eventLogs'[e].schedule = eventLogs[e].schedule
    BY <1>0, <2>1, <2>2 DEF EventRow
  <2> QED BY <1>1, <2>1, <2>3
<1> QED BY <1>2, <1>3, <1>4 DEF EventStep

\* Nothing that was logged is forgotten.
LEMMA NextTopic == DeliveryInv /\ TopicInv /\ [Next]_vars => TopicInv'
<1> SUFFICES ASSUME DeliveryInv, TopicInv, [Next]_vars PROVE TopicInv'
  OBVIOUS
<1>1. CASE QuietStep
  BY <1>1 DEF QuietStep, TopicInv
<1>2. ASSUME NEW c \in Callers, EventStep(c) PROVE TopicInv'
  BY <1>2, EventStepTopic DEF TopicInv, DeliveryInv
<1> QED BY <1>1, <1>2, OthersQuiet

\* The invariant of the refinement, from the first state on.
LEMMA InitLifecycle == Init => LifecycleInv
<1>1. Init => FreshInv /\ TopicInv
  BY DEF Init, StorageInit, EventInit, FreshInv, TopicInv
<1> QED BY <1>1, InitSingle DEF LifecycleInv

\* Every step keeps it.
LEMMA NextLifecycle ==
    OneScheduler /\ NoConfigUpdates /\ LifecycleInv /\ [Next]_vars => LifecycleInv'
BY NextSingle, NextFresh, NextTopic
   DEF LifecycleInv, SingleInv, AttemptsInv, OneSchedulerInv

----------------------------------------------------------------------------
(* The refinement mapping.                                                 *)

Phase == [s \in ScheduleIds |-> schedules[s].status]
Failures == [s \in ScheduleIds |-> schedules[s].attempts]
Delivered == [s \in ScheduleIds |-> \E e \in topic : eventLogs[e].schedule = s]

\* A step that publishes nothing delivers nothing.
LEMMA QuietDelivers ==
    ASSUME TopicInv, QuietStep
    PROVE  Delivered' = Delivered
<1>1. \A e \in topic : e \in EventIds
  BY DEF TopicInv
<1>2. \A s \in ScheduleIds : (\E e \in topic : eventLogs[e].schedule = s)' <=>
                             (\E e \in topic : eventLogs[e].schedule = s)
  BY <1>1 DEF QuietStep
<1> QED BY <1>2, Zenon DEF Delivered

\* A row that moves is a run that moves.
LEMMA MovedPhase ==
    ASSUME TypeInv, NEW x \in ScheduleIds, NEW to, NEW n, Moved(x, to, n)
    PROVE  /\ Phase' = [Phase EXCEPT ![x] = to]
           /\ Failures' = [Failures EXCEPT ![x] = @ + n]
<1>1. /\ \A s \in ScheduleIds : s # x => schedules'[s] = schedules[s]
      /\ schedules'[x].status = to /\ schedules'[x].attempts = schedules[x].attempts + n
  BY DEF Moved
<1>2. Phase' = [Phase EXCEPT ![x] = to]
  BY <1>1 DEF Phase
<1>3. Failures' = [Failures EXCEPT ![x] = @ + n]
  BY <1>1 DEF Failures
<1> QED BY <1>2, <1>3

\* So does a row that is inserted.
LEMMA InsertedPhase ==
    ASSUME TypeInv, FreshInv, NEW x \in ScheduleIds, schedules[x].status = "unused",
           NEW t, NEW at, schedules' = [schedules EXCEPT ![x] = NewSchedule(t, at)]
    PROVE  Phase' = [Phase EXCEPT ![x] = "pending"] /\ Failures' = Failures
<1>1. /\ \A s \in ScheduleIds : s # x => schedules'[s] = schedules[s]
      /\ schedules'[x].status = "pending" /\ schedules'[x].attempts = schedules[x].attempts
  <2>1. schedules'[x] = NewSchedule(t, at) /\ \A s \in ScheduleIds \ {x} : schedules'[s] = schedules[s]
    BY RowFacts
  <2>2. schedules'[x].status = "pending" /\ schedules'[x].attempts = 0
    BY <2>1 DEF NewSchedule
  <2>3. schedules[x].attempts = 0
    BY DEF FreshInv
  <2> QED BY <2>1, <2>2, <2>3
<1>2. Phase' = [Phase EXCEPT ![x] = "pending"]
  <2>1. \A s \in ScheduleIds : schedules'[s].status = IF s = x THEN "pending"
                                                             ELSE schedules[s].status
    BY <1>1
  <2> QED BY <2>1, Zenon DEF Phase
<1>3. Failures' = Failures
  BY <1>1 DEF Failures
<1> QED BY <1>2, <1>3

\* The steps of ScheduleLifecycle, in terms of the mapping.
LEMMA LifecycleSteps ==
    ASSUME NEW r \in ScheduleIds,
           \/ /\ Phase[r] = "unused" /\ Phase' = [Phase EXCEPT ![r] = "pending"]
              /\ UNCHANGED <<Failures, Delivered>>
           \/ /\ Phase[r] = "pending" /\ Phase' = [Phase EXCEPT ![r] = "processing"]
              /\ UNCHANGED <<Failures, Delivered>>
           \/ /\ Phase[r] \in {"processing", "deleted"}
              /\ Delivered' = [Delivered EXCEPT ![r] = TRUE]
              /\ UNCHANGED <<Phase, Failures>>
           \/ /\ Delivered[r]
              /\ Phase[r] = "processing" /\ Phase' = [Phase EXCEPT ![r] = "completed"]
              /\ UNCHANGED <<Failures, Delivered>>
           \/ /\ Failures[r] + 1 < MaxRetries
              /\ Phase[r] = "processing" /\ Phase' = [Phase EXCEPT ![r] = "pending"]
              /\ Failures' = [Failures EXCEPT ![r] = @ + 1]
              /\ UNCHANGED Delivered
           \/ /\ Failures[r] + 1 = MaxRetries
              /\ Phase[r] = "processing" /\ Phase' = [Phase EXCEPT ![r] = "cancelled"]
              /\ UNCHANGED <<Failures, Delivered>>
    PROVE  Lifecycle!Next
<1>1. Lifecycle!Plan(r) \/ Lifecycle!Claim(r) \/ Lifecycle!Deliver(r) \/ Lifecycle!Complete(r)
         \/ Lifecycle!PutBack(r) \/ Lifecycle!GiveUp(r)
  BY DEF Lifecycle!Plan, Lifecycle!Claim, Lifecycle!Deliver, Lifecycle!Complete,
         Lifecycle!PutBack, Lifecycle!GiveUp, Lifecycle!Move, Phase, Failures, Delivered
<1> QED BY <1>1 DEF Lifecycle!Next

\* A step of the one scheduler.
LEMMA EngineLifecycle ==
    ASSUME OneScheduler, LifecycleInv, NEW p \in Schedulers, EngineStep(p) \/ Crash(p)
    PROVE  Lifecycle!Next \/ UNCHANGED <<Phase, Failures, Delivered>>
<1> USE DEF LifecycleInv, SingleInv, AttemptsInv, OneSchedulerInv
<1>0. /\ \A row \in Held(p) : /\ row.schedule \in ScheduleIds
                              /\ schedules[row.schedule].attempts = row.attempts
                              /\ row.attempts \in Nat /\ row.attempts < MaxRetries
      /\ pc[p] = "firing" => item[p] \in Held(p) /\ call[p].schedule = item[p].schedule
      /\ batch[p] \subseteq Held(p)
      /\ MaxRetries \in Nat
      /\ \A s \in ScheduleIds : schedules[s].attempts \in Nat
  BY RowFacts, EngineAssumption
     DEF RowsInv, CountInv, Held, SnapshotType, DeliveryInv, FiringInv, ScheduleRow
<1>1. Delivered' = Delivered
  <2>1. Crash(p) => QuietStep
    BY CallerQuiet DEF Crash, QuietStep, Callers, TypeInv
  <2> QED BY <2>1, QuietDelivers, EngineStepQuiet DEF DeliveryInv
<1>2. CASE UNCHANGED schedules
  BY <1>1, <1>2 DEF Phase, Failures
<1>3. ASSUME NEW row \in Held(p), NEW to, Moved(row.schedule, to, 0)
      PROVE  /\ Phase' = [Phase EXCEPT ![row.schedule] = to]
             /\ Failures' = Failures
             /\ Phase[row.schedule] = schedules[row.schedule].status
             /\ schedules[row.schedule].status # "deleted"
  <2>1. /\ Phase' = [Phase EXCEPT ![row.schedule] = to]
        /\ Failures' = [Failures EXCEPT ![row.schedule] = @ + 0]
    BY <1>0, <1>3, MovedPhase
  <2>2. Failures' = Failures
    BY <1>0, <2>1 DEF Failures
  <2> QED BY <1>0, <1>3, <2>1, <2>2 DEF Moved, ScheduleExists, Phase
<1>4. CASE Polls(p) \/ Crash(p)
  BY <1>2, <1>4 DEF Polls, Crash
<1>5. CASE Marks(p)
  <2>1. CASE \E row \in batch[p] : Moved(row.schedule, "processing", 0)
    <3>1. PICK row \in batch[p] : Moved(row.schedule, "processing", 0)
      BY <2>1
    <3>2. /\ Phase[row.schedule] = "pending"
          /\ Phase' = [Phase EXCEPT ![row.schedule] = "processing"] /\ Failures' = Failures
          /\ row.schedule \in ScheduleIds
      BY <1>0, <1>3, <3>1 DEF LiveInv, ClaimInv
    <3> QED BY <1>1, <3>2, LifecycleSteps
  <2> QED BY <1>2, <1>5, <2>1 DEF Marks
<1>6. CASE Settles(p)
  <2> DEFINE x == item[p].schedule
  <2>0. /\ pc[p] = "firing" /\ x \in ScheduleIds /\ item[p] \in Held(p)
        /\ schedules[x].status \in {"processing", "deleted"}
    BY <1>0, <1>6 DEF Settles, LiveInv, ClaimInv
  <2>1. CASE Moved(x, "pending", 1) /\ item[p].attempts + 1 < MaxRetries
    <3>1. /\ Phase' = [Phase EXCEPT ![x] = "pending"]
          /\ Failures' = [Failures EXCEPT ![x] = @ + 1]
      BY <2>0, <2>1, MovedPhase
    <3>2. Failures[x] + 1 < MaxRetries /\ Phase[x] = "processing"
      BY <1>0, <2>0, <2>1 DEF Failures, Phase, Moved, ScheduleExists
    <3> HIDE DEF x
    <3> QED BY <1>1, <2>0, <3>1, <3>2, LifecycleSteps
  <2>2. CASE Moved(x, "cancelled", 0) /\ item[p].attempts + 1 >= MaxRetries
    <3>1. /\ Phase' = [Phase EXCEPT ![x] = "cancelled"] /\ Failures' = Failures
          /\ Phase[x] = "processing"
      BY <1>3, <2>0, <2>2
    <3>2. Failures[x] + 1 = MaxRetries
      BY <1>0, <2>0, <2>2 DEF Failures
    <3> HIDE DEF x
    <3> QED BY <1>1, <2>0, <3>1, <3>2, LifecycleSteps
  <2>3. CASE Moved(x, "completed", 0) /\ call[p].pc = "ok"
    <3>1. /\ Phase' = [Phase EXCEPT ![x] = "completed"] /\ Failures' = Failures
          /\ Phase[x] = "processing"
      BY <1>3, <2>0, <2>3
    <3>2. p \in Callers
      BY DEF Callers
    <3>3. call[p].event \in topic /\ eventLogs[call[p].event].schedule = x
      BY <1>0, <2>0, <2>3, <3>2 DEF DeliveryInv, CallsInv, Published
    <3>4. Delivered[x]
      BY <2>0, <3>3 DEF Delivered
    <3> HIDE DEF x
    <3> QED BY <1>1, <2>0, <3>1, <3>4, LifecycleSteps
  <2> QED BY <1>2, <1>6, <2>1, <2>2, <2>3 DEF Settles
<1>7. CASE Plans(p)
  <2>1. CASE \E s \in ScheduleIds, at \in Nat :
                /\ schedules[s].status = "unused"
                /\ schedules' = [schedules EXCEPT ![s] = NewSchedule(item[p].trigger, at)]
    <3>1. PICK s \in ScheduleIds :
             /\ schedules[s].status = "unused"
             /\ Phase' = [Phase EXCEPT ![s] = "pending"] /\ Failures' = Failures
      BY <2>1, InsertedPhase
    <3>2. Phase[s] = "unused"
      BY <3>1 DEF Phase
    <3> QED BY <1>1, <3>1, <3>2, LifecycleSteps
  <2> QED BY <1>2, <1>7, <2>1 DEF Plans
<1> QED BY <1>4, <1>5, <1>6, <1>7, EngineEffect

\* A step of FireTrigger delivers the schedule being fired, or a webhook's event.
LEMMA EventLifecycle ==
    ASSUME LifecycleInv, NEW c \in Callers, EventStep(c)
    PROVE  Lifecycle!Next \/ UNCHANGED <<Phase, Failures, Delivered>>
<1> USE DEF LifecycleInv, SingleInv, AttemptsInv, OneSchedulerInv
<1>0. topic \subseteq EventIds /\ c \in Schedulers \cup Hooks
  BY DEF TopicInv, Callers
<1>1. /\ UNCHANGED schedules
      /\ \A e \in topic : eventLogs'[e].schedule = eventLogs[e].schedule
      /\ \/ topic' = topic
         \/ /\ call[c].pc = "publish" /\ call[c].event \in EventIds
            /\ topic' = topic \cup {call[c].event}
            /\ eventLogs'[call[c].event].schedule = call[c].schedule
  BY EventStepTopic DEF TopicInv, DeliveryInv
<1>2. Phase' = Phase /\ Failures' = Failures
  BY <1>1 DEF Phase, Failures
<1>3. CASE topic' = topic
  <2>1. Delivered' = Delivered
    BY <1>1, <1>3 DEF Delivered
  <2> QED BY <1>2, <2>1
<1>4. CASE /\ call[c].pc = "publish" /\ topic' = topic \cup {call[c].event}
           /\ eventLogs'[call[c].event].schedule = call[c].schedule
  <2>1. \A s \in ScheduleIds : (\E e \in topic' : eventLogs'[e].schedule = s) <=>
                               (\/ \E e \in topic : eventLogs[e].schedule = s
                                \/ call[c].schedule = s)
    BY <1>1, <1>4
  <2>2. CASE c \in Hooks
    <3>1. call[c].schedule \notin ScheduleIds
      BY <2>2, StorageAssumption DEF HookCallInv
    <3>2. Delivered' = Delivered
      BY <2>1, <3>1 DEF Delivered
    <3> QED BY <1>2, <3>2
  <2>3. CASE c \in Schedulers
    <3> DEFINE x == call[c].schedule
    <3>1. pc[c] = "firing" /\ x = item[c].schedule /\ item[c] \in SnapshotType
      BY <1>4, <2>3, RowFacts DEF IdleInv, DeliveryInv, FiringInv
    <3>2. x \in ScheduleIds /\ Phase[x] \in {"processing", "deleted"}
      BY <2>3, <3>1 DEF LiveInv, ClaimInv, Phase, SnapshotType
    <3>3. Delivered' = [Delivered EXCEPT ![x] = TRUE]
      BY <2>1, <3>2 DEF Delivered
    <3> HIDE DEF x
    <3> QED BY <1>2, <3>2, <3>3, LifecycleSteps
  <2> QED BY <1>0, <2>2, <2>3
<1> QED BY <1>1, <1>3, <1>4

\* A step of anybody else plans the first run of a trigger, withdraws those of one, or
\* touches no schedule.
LEMMA AsideLifecycle ==
    ASSUME LifecycleInv, QuietStep,
           Creates \/ Deletes \/ UNCHANGED schedules
    PROVE  Lifecycle!Next \/ UNCHANGED <<Phase, Failures, Delivered>>
<1> USE DEF LifecycleInv, SingleInv, AttemptsInv, OneSchedulerInv
<1>1. Delivered' = Delivered
  BY QuietDelivers
<1>2. CASE UNCHANGED schedules
  BY <1>1, <1>2 DEF Phase, Failures
<1>3. CASE \E s \in ScheduleIds : \E t, at :
              /\ schedules[s].status = "unused"
              /\ schedules' = [schedules EXCEPT ![s] = NewSchedule(t, at)]
  <2>1. PICK s \in ScheduleIds :
           /\ schedules[s].status = "unused"
           /\ Phase' = [Phase EXCEPT ![s] = "pending"] /\ Failures' = Failures
    BY <1>3, InsertedPhase
  <2>2. Phase[s] = "unused"
    BY <2>1 DEF Phase
  <2> QED BY <1>1, <2>1, <2>2, LifecycleSteps
<1>4. CASE Deletes
  <2>1. PICK t \in TriggerIds :
           schedules' = [s \in ScheduleIds |-> IF s \in SchedulesOf(t)
                                THEN [schedules[s] EXCEPT !.status = "deleted"]
                                ELSE schedules[s]]
    BY <1>4 DEF Deletes
  <2> PICK runs \in SUBSET ScheduleIds : runs = SchedulesOf(t)
    BY DEF SchedulesOf
  <2>2. \A s \in ScheduleIds :
           /\ schedules'[s].attempts = schedules[s].attempts
           /\ schedules'[s].status = IF s \in runs THEN "deleted" ELSE schedules[s].status
    BY <2>1, RowFacts DEF ScheduleRow
  <2>3. \A s \in runs : schedules[s].status # "unused"
    BY StorageAssumption DEF SchedulesOf, UnusedInv
  <2>4. /\ Phase' = [s \in ScheduleIds |-> IF s \in runs THEN "deleted" ELSE Phase[s]]
        /\ \A s \in runs : Phase[s] # "unused"
    BY <2>2, <2>3 DEF Phase
  <2>5. Failures' = Failures
    BY <2>2 DEF Failures
  <2>6. Lifecycle!Withdraw(runs)
    <3>1. [s \in ScheduleIds |-> IF s \in runs THEN "deleted" ELSE Phase[s]]
             = [s \in ScheduleIds |-> IF s \in runs THEN "deleted" ELSE schedules[s].status]
      BY DEF Phase
    <3> QED BY <1>1, <2>4, <2>5, <3>1 DEF Lifecycle!Withdraw, Phase, Failures, Delivered
  <2> QED BY <2>6 DEF Lifecycle!Next
<1> QED BY <1>2, <1>3, <1>4 DEF Creates

\* With one scheduler and no update of a config, the schedules go through the life of
\* ScheduleLifecycle: no statement that fails or whose answer is lost, no crash, no
\* shutdown and no deletion at any point takes one off that path.
THEOREM LifecycleImplemented ==
    ASSUME OneScheduler, NoConfigUpdates
    PROVE  Spec => ImplementsLifecycle
<1>1. Init => Lifecycle!Init
  BY DEF Init, StorageInit, EventInit, Lifecycle!Init
<1>2. LifecycleInv /\ [Next]_vars => [Lifecycle!Next]_(Lifecycle!lifecycleVars)
  <2> SUFFICES ASSUME LifecycleInv, [Next]_vars
               PROVE  Lifecycle!Next \/ UNCHANGED <<Phase, Failures, Delivered>>
    BY DEF Lifecycle!lifecycleVars, Phase, Failures, Delivered
  <2>1. CASE \E c \in Callers : EventStep(c)
    BY <2>1, EventLifecycle
  <2>2. CASE \E p \in Schedulers : EngineStep(p) \/ Crash(p)
    BY <2>2, EngineLifecycle
  <2>3. CASE QuietStep /\ (Creates \/ Deletes \/ UNCHANGED schedules)
    BY <2>3, AsideLifecycle
  <2>4. DeliveryInv /\ TypeInv /\ RequestsInv
    BY DEF LifecycleInv, SingleInv, AttemptsInv, OneSchedulerInv
  <2> QED BY <2>1, <2>2, <2>3, <2>4, OthersQuiet, StepKinds
<1>3. LifecycleInv /\ [Next]_vars => LifecycleInv'
  BY NextLifecycle
<1> QED BY <1>1, <1>2, <1>3, InitLifecycle, PTL DEF Spec, ImplementsLifecycle, Lifecycle!Spec
============================================================================
