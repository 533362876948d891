--------------------------- MODULE DeliveryProofs ---------------------------
(***************************************************************************)
(* A completed schedule was published, and so was an accepted webhook, for *)
(* any number of schedulers and clients, whatever fails.                   *)
(***************************************************************************)
EXTENDS PlatformProofs

\* The event is in Kafka and logged as a success, and no call is left that could
\* still mark it a failure.
Published(e) == e \in topic /\ eventLogs[e].status = "success" /\ ~InFlight(e)

\* A call in flight has an event of its own, logged for what the caller fires;
\* a call that returned "ok" has a published one.
CallsInv ==
    /\ \A c \in Callers : call[c].pc = "publish" =>
          /\ eventLogs[call[c].event].status = "success"
          /\ eventLogs[call[c].event].schedule = call[c].schedule
    /\ \A c \in Callers : call[c].pc = "markfailed" =>
          eventLogs[call[c].event].status # "unused"
    /\ \A c \in Callers : call[c].pc = "ok" =>
          /\ Published(call[c].event)
          /\ eventLogs[call[c].event].schedule = call[c].schedule
    /\ \A c, d \in Callers :
          /\ c # d
          /\ call[c].pc \in {"publish", "markfailed"}
          /\ call[d].pc \in {"publish", "markfailed"}
          => call[c].event # call[d].event

\* An engine that is firing waits for the call it made for its row.
FiringInv ==
    \A p \in Schedulers : pc[p] = "firing" => call[p].schedule = item[p].schedule

CompletedInv ==
    \A s \in ScheduleIds : schedules[s].status = "completed" =>
        \E e \in EventIds : Published(e) /\ eventLogs[e].schedule = s

AcceptedInv == \A h \in Hooks : hook[h].pc = "accepted" => Published(hook[h].event)

DeliveryInv == TypeInv /\ CallsInv /\ FiringInv /\ CompletedInv /\ AcceptedInv

\* A published event stays published, for the same schedule.
PublishedStays ==
    \A e \in EventIds : Published(e) =>
        Published(e)' /\ eventLogs'[e].schedule = eventLogs[e].schedule

----------------------------------------------------------------------------
(* The calls and the events.                                               *)

\* A step that touches neither Kafka nor the status of an event, and moves no
\* call that is past its log entry.
QuietStep ==
    /\ UNCHANGED topic
    /\ \A e \in EventIds : /\ eventLogs'[e].status = eventLogs[e].status
                           /\ eventLogs'[e].schedule = eventLogs[e].schedule
    /\ \A c \in Callers : call'[c].pc \in {"publish", "markfailed", "ok"} =>
          call'[c] = call[c]

\* Such a step disturbs no call and no published event.
LEMMA QuietStepCalls ==
    ASSUME TypeInv, CallsInv, QuietStep
    PROVE  CallsInv' /\ PublishedStays
<1>1. \A c \in Callers : call[c].pc \in {"publish", "markfailed", "ok"} =>
         call[c].event \in EventIds
  BY DEF TypeInv, CallsOK
<1>2. \A e : InFlight(e)' => InFlight(e)
  BY DEF QuietStep, InFlight
<1>3. \A e \in EventIds : Published(e) => Published(e)'
  BY <1>2 DEF QuietStep, Published
<1>4. PublishedStays
  BY <1>3 DEF QuietStep, PublishedStays
<1>5. \A c \in Callers : call'[c].pc = "publish" =>
         /\ eventLogs'[call'[c].event].status = "success"
         /\ eventLogs'[call'[c].event].schedule = call'[c].schedule
  BY <1>1 DEF QuietStep, CallsInv
<1>6. \A c \in Callers : call'[c].pc = "markfailed" =>
         eventLogs'[call'[c].event].status # "unused"
  BY <1>1 DEF QuietStep, CallsInv
<1>7. \A c \in Callers : call'[c].pc = "ok" =>
         /\ Published(call[c].event)' /\ call'[c] = call[c]
         /\ eventLogs'[call'[c].event].schedule = call'[c].schedule
  <2> SUFFICES ASSUME NEW c \in Callers, call'[c].pc = "ok"
               PROVE  /\ Published(call[c].event)' /\ call'[c] = call[c]
                      /\ eventLogs'[call'[c].event].schedule = call'[c].schedule
    OBVIOUS
  <2>1. call'[c] = call[c] /\ call[c].event \in EventIds
    BY <1>1 DEF QuietStep
  <2>2. Published(call[c].event) /\ eventLogs[call[c].event].schedule = call[c].schedule
    BY <2>1 DEF CallsInv
  <2>3. eventLogs'[call[c].event].schedule = call[c].schedule
    BY <2>1, <2>2 DEF QuietStep
  <2>4. call'[c].event \in topic' /\ eventLogs'[call'[c].event].status = "success"
    BY <2>1, <2>2 DEF QuietStep, Published
  <2>5. ~InFlight(call[c].event)'
    BY <2>1, <2>2 DEF QuietStep, InFlight, Published
  <2> QED BY <2>1, <2>3, <2>4, <2>5 DEF Published
<1>8. \A c, d \in Callers :
         /\ c # d
         /\ call'[c].pc \in {"publish", "markfailed"}
         /\ call'[d].pc \in {"publish", "markfailed"}
         => call'[c].event # call'[d].event
  BY DEF QuietStep, CallsInv
<1> QED BY <1>4, <1>5, <1>6, <1>7, <1>8 DEF CallsInv, Published

\* The steps of FireTrigger: a log entry is new, an acknowledged event becomes a
\* published one, and only an event in flight is marked a failure.
LEMMA EventStepCalls ==
    ASSUME TypeInv, CallsInv, NEW c \in Callers, EventStep(c)
    PROVE  CallsInv' /\ PublishedStays
<1>0. /\ call \in [Callers -> CallType]
      /\ eventLogs \in [EventIds -> EventRow]
      /\ \A d \in Callers : call[d].pc \in {"publish", "markfailed", "ok"} =>
            call[d].event \in EventIds
  BY DEF TypeInv, CallsOK, EventTypeOK, StorageOK
<1>1. CASE LogEvent(c)
  <2>1. PICK e \in Fresh(eventLogs), ok \in BOOLEAN :
           /\ CreateEventLog(c, e, call[c].trigger, call[c].schedule, ok)
           /\ call' = IF ok THEN [call EXCEPT ![c].pc = "publish", ![c].event = e]
                            ELSE [call EXCEPT ![c].pc = "failed"]
    BY <1>1 DEF LogEvent
  <2>2. e \in EventIds /\ eventLogs[e].status = "unused"
    BY <1>0, FreshId
  <2>3. UNCHANGED topic /\ call[c].pc = "log"
    BY <1>1 DEF LogEvent
  <2>4. /\ \A f \in EventIds \ {e} : eventLogs'[f] = eventLogs[f]
        /\ ok => /\ eventLogs'[e].status = "success"
                 /\ eventLogs'[e].schedule = call[c].schedule
    BY <1>0, <2>1, <2>2 DEF CreateEventLog, Refused
  <2>5. /\ \A d \in Callers \ {c} : call'[d] = call[d]
        /\ call'[c].schedule = call[c].schedule
        /\ call'[c].pc \in {"publish", "failed"}
        /\ call'[c].pc = "publish" => ok /\ call'[c].event = e
    BY <1>0, <2>1 DEF CallType
  <2>6. \A d \in Callers : call[d].pc \in {"publish", "markfailed", "ok"} =>
           call[d].event # e
    BY <2>2 DEF CallsInv, Published
  <2>7. \A f \in EventIds \ {e} : InFlight(f)' => InFlight(f)
    BY <2>5 DEF InFlight
  <2>8. \A f \in EventIds : Published(f) =>
           f # e /\ Published(f)' /\ eventLogs'[f].schedule = eventLogs[f].schedule
    BY <2>2, <2>3, <2>4, <2>7 DEF Published
  <2>9. PublishedStays
    BY <2>8 DEF PublishedStays
  <2>10. /\ \A d \in Callers : call'[d].pc = "publish" =>
               /\ eventLogs'[call'[d].event].status = "success"
               /\ eventLogs'[call'[d].event].schedule = call'[d].schedule
         /\ \A d \in Callers : call'[d].pc = "markfailed" =>
               eventLogs'[call'[d].event].status # "unused"
    BY <1>0, <2>4, <2>5, <2>6 DEF CallsInv
  <2>11. \A d \in Callers : call'[d].pc = "ok" =>
            /\ Published(call[d].event)'
            /\ eventLogs'[call'[d].event].schedule = call'[d].schedule
    <3> SUFFICES ASSUME NEW d \in Callers, call'[d].pc = "ok"
                 PROVE  /\ Published(call[d].event)'
                        /\ eventLogs'[call'[d].event].schedule = call'[d].schedule
      OBVIOUS
    <3>1. call'[d] = call[d]
      BY <2>5
    <3>2. Published(call[d].event) /\ call[d].event \in EventIds \ {e}
      BY <1>0, <2>6, <3>1 DEF CallsInv
    <3>3. /\ call'[d].event \in topic'
          /\ eventLogs'[call'[d].event].status = "success"
          /\ ~InFlight(call[d].event)'
      BY <2>3, <2>4, <2>7, <3>1, <3>2 DEF Published
    <3>4. eventLogs'[call'[d].event].schedule = call'[d].schedule
      BY <2>8, <3>1, <3>2 DEF CallsInv
    <3> QED BY <3>3, <3>4 DEF Published
  <2>12. \A d, f \in Callers :
            /\ d # f
            /\ call'[d].pc \in {"publish", "markfailed"}
            /\ call'[f].pc \in {"publish", "markfailed"}
            => call'[d].event # call'[f].event
    BY <2>5, <2>6 DEF CallsInv
  <2> QED BY <2>9, <2>10, <2>11, <2>12 DEF CallsInv, Published
<1>2. CASE PublishAcked(c)
  <2> DEFINE e == call[c].event
  <2>1. /\ call[c].pc = "publish" /\ e \in EventIds
        /\ UNCHANGED eventLogs
        /\ topic' = topic \cup {e}
    BY <1>0, <1>2 DEF PublishAcked, storageVars
  <2>2. /\ \A d \in Callers \ {c} : call'[d] = call[d]
        /\ call'[c].schedule = call[c].schedule
        /\ call'[c].event = e /\ call'[c].pc = "ok"
    BY <1>0, <1>2 DEF PublishAcked, CallType
  <2>3. \A f : InFlight(f)' => InFlight(f)
    BY <2>2 DEF InFlight
  <2>4. PublishedStays
    BY <2>1, <2>3 DEF PublishedStays, Published
  <2>5. ~InFlight(call[c].event)'
    BY <2>1, <2>2 DEF InFlight, CallsInv
  <2>6. /\ Published(call[c].event)'
        /\ eventLogs'[call'[c].event].schedule = call'[c].schedule
    BY <2>1, <2>2, <2>5 DEF CallsInv, Published
  <2>7. \A d \in Callers \ {c} : call'[d].pc = "ok" =>
           /\ Published(call[d].event)'
           /\ eventLogs'[call'[d].event].schedule = call'[d].schedule
    <3> SUFFICES ASSUME NEW d \in Callers \ {c}, call'[d].pc = "ok"
                 PROVE  /\ Published(call[d].event)'
                        /\ eventLogs'[call'[d].event].schedule = call'[d].schedule
      OBVIOUS
    <3>1. call'[d] = call[d] /\ Published(call[d].event)
      BY <2>2 DEF CallsInv
    <3>2. ~InFlight(call[d].event)'
      BY <2>3, <3>1 DEF Published, InFlight
    <3> QED BY <2>1, <3>1, <3>2 DEF Published, CallsInv
  <2>8. /\ \A d \in Callers : call'[d].pc = "publish" =>
              /\ eventLogs'[call'[d].event].status = "success"
              /\ eventLogs'[call'[d].event].schedule = call'[d].schedule
        /\ \A d \in Callers : call'[d].pc = "markfailed" =>
              eventLogs'[call'[d].event].status # "unused"
        /\ \A d, f \in Callers :
              /\ d # f
              /\ call'[d].pc \in {"publish", "markfailed"}
              /\ call'[f].pc \in {"publish", "markfailed"}
              => call'[d].event # call'[f].event
    BY <2>1, <2>2 DEF CallsInv
  <2>9. \A d \in Callers : call'[d].pc = "ok" =>
           /\ Published(call[d].event)'
           /\ eventLogs'[call'[d].event].schedule = call'[d].schedule
    BY <2>6, <2>7
  <2> QED BY <2>4, <2>8, <2>9 DEF CallsInv, Published
<1>3. CASE PublishFailed(c)
  <2> DEFINE e == call[c].event
  <2>1. /\ call[c].pc = "publish" /\ e \in EventIds
        /\ UNCHANGED eventLogs
        /\ topic' = topic \/ topic' = topic \cup {e}
    BY <1>0, <1>3 DEF PublishFailed, storageVars
  <2>2. /\ \A d \in Callers \ {c} : call'[d] = call[d]
        /\ call'[c].schedule = call[c].schedule
        /\ call'[c].event = e /\ call'[c].pc = "markfailed"
    BY <1>0, <1>3 DEF PublishFailed, CallType
  <2>3. \A f : InFlight(f)' => InFlight(f)
    BY <2>1, <2>2 DEF InFlight
  <2>4. PublishedStays
    BY <2>1, <2>3 DEF PublishedStays, Published
  <2>5. \A d \in Callers : call'[d].pc = "ok" =>
           /\ Published(call[d].event)'
           /\ eventLogs'[call'[d].event].schedule = call'[d].schedule
    <3> SUFFICES ASSUME NEW d \in Callers, call'[d].pc = "ok"
                 PROVE  /\ Published(call[d].event)'
                        /\ eventLogs'[call'[d].event].schedule = call'[d].schedule
      OBVIOUS
    <3>1. call'[d] = call[d] /\ Published(call[d].event)
      BY <2>2 DEF CallsInv
    <3>2. ~InFlight(call[d].event)'
      BY <2>3, <3>1 DEF Published, InFlight
    <3> QED BY <2>1, <3>1, <3>2 DEF Published, CallsInv
  <2>6. /\ \A d \in Callers : call'[d].pc = "publish" =>
              /\ eventLogs'[call'[d].event].status = "success"
              /\ eventLogs'[call'[d].event].schedule = call'[d].schedule
        /\ \A d \in Callers : call'[d].pc = "markfailed" =>
              eventLogs'[call'[d].event].status # "unused"
        /\ \A d, f \in Callers :
              /\ d # f
              /\ call'[d].pc \in {"publish", "markfailed"}
              /\ call'[f].pc \in {"publish", "markfailed"}
              => call'[d].event # call'[f].event
    BY <2>1, <2>2 DEF CallsInv
  <2> QED BY <2>4, <2>5, <2>6 DEF CallsInv, Published
<1>4. CASE MarkFailed(c)
  <2> DEFINE e == call[c].event
  <2>1. /\ call[c].pc = "markfailed" /\ e \in EventIds /\ InFlight(e)
        /\ UNCHANGED topic
        /\ \A f \in EventIds \ {e} : eventLogs'[f] = eventLogs[f]
        /\ eventLogs'[e].schedule = eventLogs[e].schedule
        /\ eventLogs'[e].status = "failure" \/ UNCHANGED eventLogs
    BY <1>0, <1>4 DEF MarkFailed, UpdateEventLogStatus, InFlight, EventRow
  <2>2. /\ \A d \in Callers \ {c} : call'[d] = call[d]
        /\ call'[c].event = e /\ call'[c].pc = "failed"
    BY <1>0, <1>4 DEF MarkFailed, CallType
  <2>3. \A f : InFlight(f)' => InFlight(f)
    BY <2>2 DEF InFlight
  <2>4. PublishedStays
    BY <2>1, <2>3 DEF PublishedStays, Published
  <2>5. \A d \in Callers : call'[d].pc = "ok" =>
           /\ Published(call[d].event)'
           /\ eventLogs'[call'[d].event].schedule = call'[d].schedule
    <3> SUFFICES ASSUME NEW d \in Callers, call'[d].pc = "ok"
                 PROVE  /\ Published(call[d].event)'
                        /\ eventLogs'[call'[d].event].schedule = call'[d].schedule
      OBVIOUS
    <3>1. call'[d] = call[d] /\ Published(call[d].event) /\ call[d].event \in EventIds \ {e}
      BY <1>0, <2>1, <2>2 DEF CallsInv, Published
    <3>2. ~InFlight(call[d].event)'
      BY <2>3, <3>1 DEF Published, InFlight
    <3> QED BY <2>1, <3>1, <3>2 DEF Published, CallsInv
  <2>6. /\ \A d \in Callers : call'[d].pc = "publish" =>
              /\ eventLogs'[call'[d].event].status = "success"
              /\ eventLogs'[call'[d].event].schedule = call'[d].schedule
        /\ \A d \in Callers : call'[d].pc = "markfailed" =>
              eventLogs'[call'[d].event].status # "unused"
        /\ \A d, f \in Callers :
              /\ d # f
              /\ call'[d].pc \in {"publish", "markfailed"}
              /\ call'[f].pc \in {"publish", "markfailed"}
              => call'[d].event # call'[f].event
    BY <1>0, <2>1, <2>2 DEF CallsInv
  <2> QED BY <2>4, <2>5, <2>6 DEF CallsInv, Published
<1> QED BY <1>1, <1>2, <1>3, <1>4 DEF EventStep

\* Calling FireTrigger and taking its result move no call past its log entry, and
\* no call of another process.
LEMMA CallerQuiet ==
    ASSUME CallsOK, NEW c \in Callers,
           \/ UNCHANGED call
           \/ Return(c)
           \/ \E t, s : FireTrigger(c, t, s)
    PROVE  \A d \in Callers :
              /\ call'[d].pc \in {"publish", "markfailed", "ok"} => call'[d] = call[d]
              /\ d # c => call'[d] = call[d]
<1>0. call \in [Callers -> CallType]
  BY DEF CallsOK, EventTypeOK
<1>1. CASE Return(c)
  BY <1>0, <1>1 DEF Return, NoCall
<1>2. CASE \E t, s : FireTrigger(c, t, s)
  BY <1>0, <1>2 DEF FireTrigger, NoCall
<1> QED BY <1>1, <1>2

----------------------------------------------------------------------------
(* The engine.                                                             *)

\* An engine step is quiet, and leaves every engine that is firing waiting for
\* the call of its row.
LEMMA EngineStepQuiet ==
    ASSUME TypeInv, FiringInv, NEW p \in Schedulers, EngineStep(p)
    PROVE  QuietStep /\ FiringInv' /\ UNCHANGED hook
<1>0. /\ p \in Callers
      /\ Schedulers \subseteq Callers
      /\ CallsOK
      /\ pc \in [Schedulers -> {"ready", "firing", "finish"}]
      /\ item \in [Schedulers -> SnapshotType \cup {Null}]
      /\ call \in [Callers -> CallType]
  BY DEF Callers, TypeInv, EngineOK, EngineTypeOK, CallsOK, EventTypeOK
<1>1. /\ UNCHANGED <<topic, eventLogs, hook>>
      /\ \/ UNCHANGED call
         \/ Return(p)
         \/ \E t, s : FireTrigger(p, t, s)
  BY DEF EngineStep, Poll, MarkProcessing, RetryLater, CancelAfterMaxRetries, Complete,
         DeactivateOneTime, ScheduleNextRun, storageVars, eventVars, apiVars
<1>2. QuietStep
  BY <1>0, <1>1, CallerQuiet DEF QuietStep
<1>3. \A q \in Schedulers \ {p} :
         call'[q] = call[q] /\ pc'[q] = pc[q] /\ item'[q] = item[q]
  <2>1. \A q \in Schedulers \ {p} : call'[q] = call[q]
    BY <1>0, <1>1, CallerQuiet
  <2>2. \A q \in Schedulers \ {p} : pc'[q] = pc[q] /\ item'[q] = item[q]
    BY <1>0 DEF EngineStep, Poll, MarkProcessing, RetryLater, CancelAfterMaxRetries,
       Complete, DeactivateOneTime, ScheduleNextRun, NextRow
  <2> QED BY <2>1, <2>2
<1>4. pc'[p] = "firing" => call'[p].schedule = item'[p].schedule
  <2>1. CASE MarkProcessing(p)
    <3>1. PICK row \in batch[p], ok \in BOOLEAN :
             IF ok
             THEN /\ pc' = [pc EXCEPT ![p] = "firing"]
                  /\ item' = [item EXCEPT ![p] = row]
                  /\ FireTrigger(p, row.trigger, row.schedule)
             ELSE UNCHANGED <<pc, item, call>>
      BY <2>1 DEF MarkProcessing
    <3>2. CASE ok
      <4>1. item' = [item EXCEPT ![p] = row] /\ FireTrigger(p, row.trigger, row.schedule)
        BY <3>1, <3>2
      <4>2. call'[p].schedule = row.schedule
        BY <1>0, <4>1 DEF FireTrigger, NoCall
      <4> QED BY <1>0, <4>1, <4>2
    <3>3. CASE ~ok
      BY <3>1, <3>3, <2>1 DEF FiringInv, MarkProcessing
    <3> QED BY <3>2, <3>3
  <2>2. CASE Poll(p)
    BY <1>0, <2>2 DEF Poll, eventVars, FiringInv
  <2>3. CASE ~MarkProcessing(p) /\ ~Poll(p)
    BY <1>0, <2>3 DEF EngineStep, RetryLater, CancelAfterMaxRetries, Complete,
       DeactivateOneTime, ScheduleNextRun, NextRow
  <2> QED BY <2>1, <2>2, <2>3
<1> QED BY <1>1, <1>2, <1>3, <1>4 DEF FiringInv

\* An engine step completes a schedule only when an event for it is published.
LEMMA EngineStepCompletes ==
    ASSUME TypeInv, CallsInv, FiringInv, NEW p \in Schedulers, EngineStep(p),
           NEW s \in ScheduleIds, schedules'[s].status = "completed"
    PROVE  \/ schedules[s].status = "completed"
           \/ \E e \in EventIds : Published(e) /\ eventLogs[e].schedule = s
<1>0. /\ schedules \in [ScheduleIds -> ScheduleRow]
      /\ p \in Callers
  BY DEF TypeInv, StorageOK, SchedulesOK, Callers
<1>1. CASE Complete(p)
  <2>1. /\ pc[p] = "firing" /\ call[p].pc = "ok"
        /\ \A r \in ScheduleIds : r # item[p].schedule => schedules'[r] = schedules[r]
    BY <1>0, <1>1 DEF Complete, UpdateScheduleStatus
  <2>2. CASE s # item[p].schedule
    BY <2>1, <2>2
  <2>3. CASE s = item[p].schedule
    <3>1. call[p].event \in EventIds
      BY <1>0, <2>1 DEF TypeInv, CallsOK
    <3>2. Published(call[p].event) /\ eventLogs[call[p].event].schedule = s
      BY <1>0, <2>1, <2>3 DEF CallsInv, FiringInv
    <3> QED BY <3>1, <3>2
  <2> QED BY <2>2, <2>3
<1>2. CASE MarkProcessing(p)
  BY <1>0, <1>2 DEF MarkProcessing, UpdateScheduleStatus, ScheduleRow
<1>3. CASE RetryLater(p)
  BY <1>0, <1>3 DEF RetryLater, RevertScheduleToPending, ScheduleRow
<1>4. CASE CancelAfterMaxRetries(p)
  BY <1>0, <1>4 DEF CancelAfterMaxRetries, UpdateScheduleStatus, ScheduleRow
<1>5. CASE ScheduleNextRun(p)
  <2>1. \/ UNCHANGED schedules
        \/ \E r \in Fresh(schedules) : \E new :
              new.status = "pending" /\ schedules' = [schedules EXCEPT ![r] = new]
    BY <1>5 DEF ScheduleNextRun, CreateNextSchedule, NewSchedule
  <2> QED BY <1>0, <2>1
<1>6. CASE Poll(p) \/ DeactivateOneTime(p)
  BY <1>6 DEF Poll, DeactivateOneTime, storageVars
<1> QED BY <1>1, <1>2, <1>3, <1>4, <1>5, <1>6 DEF EngineStep

----------------------------------------------------------------------------
(* The other steps.                                                        *)

\* Faults of a scheduler are quiet and complete nothing.
LEMMA EngineFaultQuiet ==
    ASSUME TypeInv, FiringInv, NEW p \in Schedulers, EngineFault(p)
    PROVE  QuietStep /\ FiringInv' /\ UNCHANGED <<hook, schedules>>
<1>0. /\ p \in Callers
      /\ Schedulers \subseteq Callers
      /\ CallsOK
      /\ pc \in [Schedulers -> {"ready", "firing", "finish"}]
      /\ item \in [Schedulers -> SnapshotType \cup {Null}]
  BY DEF Callers, TypeInv, EngineOK, EngineTypeOK
<1>1. /\ UNCHANGED <<topic, eventLogs, hook, schedules>>
      /\ UNCHANGED call \/ Return(p)
  BY DEF EngineFault, Shutdown, Restart, Crash, eventVars, apiVars
<1>2. QuietStep
  BY <1>0, <1>1, CallerQuiet DEF QuietStep
<1>3. FiringInv'
  <2>1. CASE Crash(p)
    <3>1. \A q \in Schedulers \ {p} : call'[q] = call[q]
      BY <1>0, <1>1, CallerQuiet
    <3>2. /\ \A q \in Schedulers \ {p} : pc'[q] = pc[q] /\ item'[q] = item[q]
          /\ pc'[p] = "ready"
      BY <1>0, <2>1 DEF Crash, NextRow
    <3> QED BY <3>1, <3>2 DEF FiringInv
  <2>2. CASE ~Crash(p)
    BY <2>2 DEF EngineFault, Shutdown, Restart, eventVars, engineVars, FiringInv
  <2> QED BY <2>1, <2>2
<1> QED BY <1>1, <1>2, <1>3

\* What clients do to triggers is quiet and completes nothing.
LEMMA ClientStepQuiet ==
    ASSUME TypeInv, FiringInv, NEW r \in Requests, ClientStep(r) \/ UpdateStep(r)
    PROVE  /\ QuietStep /\ FiringInv' /\ UNCHANGED hook
           /\ \A s \in ScheduleIds : schedules'[s].status = "completed" =>
                 schedules[s].status = "completed"
<1>0. /\ schedules \in [ScheduleIds -> ScheduleRow]
      /\ eventLogs \in [EventIds -> EventRow]
  BY DEF TypeInv, StorageOK, SchedulesOK
<1>1. UNCHANGED <<eventVars, engineVars, hook>>
  BY DEF ClientStep, UpdateStep
<1>2. \A e \in EventIds : /\ eventLogs'[e].status = eventLogs[e].status
                          /\ eventLogs'[e].schedule = eventLogs[e].schedule
  <2>1. CASE Delete(r)
    BY <1>0, <2>1 DEF Delete, DeleteTrigger, EventRow
  <2>2. CASE ~Delete(r)
    BY <2>2 DEF ClientStep, UpdateStep, Create, BeginUpdate, Disconnect,
       WriteTrigger, WriteSchedule, Respond, storageVars
  <2> QED BY <2>1, <2>2
<1>3. QuietStep /\ FiringInv'
  BY <1>1, <1>2 DEF QuietStep, FiringInv, eventVars, engineVars
<1>4. \A s \in ScheduleIds : schedules'[s].status = "completed" =>
         schedules[s].status = "completed"
  <2>1. CASE Delete(r)
    BY <1>0, <2>1 DEF Delete, DeleteTrigger, ScheduleRow
  <2>2. CASE Create(r)
    BY <1>0, <2>2 DEF Create, CreateTrigger, NewSchedule
  <2>3. CASE WriteSchedule(r)
    BY <1>0, <2>3 DEF WriteSchedule, UpsertTriggerSchedule, NewSchedule, ScheduleRow
  <2>4. CASE ~Delete(r) /\ ~Create(r) /\ ~WriteSchedule(r)
    BY <2>4 DEF ClientStep, UpdateStep, BeginUpdate, Disconnect,
       WriteTrigger, Respond, storageVars
  <2> QED BY <2>1, <2>2, <2>3, <2>4
<1> QED BY <1>1, <1>3, <1>4

\* A webhook step is quiet, and accepts a request only with a published event.
LEMMA WebhookStepQuiet ==
    ASSUME TypeInv, CallsInv, FiringInv, AcceptedInv, NEW h \in Hooks, WebhookStep(h)
    PROVE  /\ QuietStep /\ FiringInv' /\ UNCHANGED schedules
           /\ \A g \in Hooks : hook'[g].pc = "accepted" => Published(hook'[g].event)
<1>0. /\ h \in Callers
      /\ Schedulers \subseteq Callers
      /\ h \notin Schedulers
      /\ CallsOK
      /\ hook \in [Hooks -> HookType]
  BY StorageAssumption DEF Callers, TypeInv, HookTypeOK
<1>1. /\ UNCHANGED <<topic, eventLogs, schedules, pc, item>>
      /\ \/ UNCHANGED call
         \/ Return(h)
         \/ \E t, s : FireTrigger(h, t, s)
  BY DEF WebhookStep, ReceiveWebhook, Reply, HangUp, storageVars, eventVars,
         engineVars
<1>2. QuietStep
  BY <1>0, <1>1, CallerQuiet DEF QuietStep
<1>3. FiringInv'
  BY <1>0, <1>1, CallerQuiet DEF FiringInv
<1>4. \A g \in Hooks : hook'[g].pc = "accepted" => Published(hook'[g].event)
  <2>1. CASE Reply(h)
    <3>1. \A g \in Hooks \ {h} : hook'[g] = hook[g]
      BY <1>0, <2>1 DEF Reply
    <3>2. hook'[h].pc = "accepted" => call[h].pc = "ok" /\ hook'[h].event = call[h].event
      BY <1>0, <2>1 DEF Reply, HookType
    <3>3. call[h].pc = "ok" => Published(call[h].event)
      BY <1>0 DEF CallsInv
    <3> QED BY <3>1, <3>2, <3>3 DEF AcceptedInv
  <2>2. CASE ReceiveWebhook(h)
    BY <1>0, <2>2 DEF ReceiveWebhook, NoHook, AcceptedInv
  <2>3. CASE HangUp(h)
    BY <2>3 DEF HangUp, AcceptedInv
  <2> QED BY <2>1, <2>2, <2>3 DEF WebhookStep
<1> QED BY <1>1, <1>2, <1>3, <1>4

\* The end of the API process drops the calls of its handlers and nothing else;
\* what was accepted stays so.
LEMMA ServerStepQuiet ==
    ASSUME TypeInv, FiringInv, AcceptedInv, ServerStep
    PROVE  /\ QuietStep /\ FiringInv' /\ UNCHANGED schedules
           /\ \A g \in Hooks : hook'[g].pc = "accepted" => Published(hook'[g].event)
<1>0. /\ Schedulers \subseteq Callers /\ Schedulers \cap Hooks = {}
      /\ call \in [Callers -> CallType]
      /\ hook \in [Hooks -> HookType]
  BY StorageAssumption DEF Callers, TypeInv, CallsOK, EventTypeOK, HookTypeOK
<1>1. CASE Exit /\ UNCHANGED engineVars
  <2>1. \A c \in Callers : call'[c] = IF c \in Hooks THEN NoCall ELSE call[c]
    BY <1>1 DEF Exit
  <2>2. QuietStep
    BY <1>1, <2>1 DEF Exit, QuietStep, NoCall
  <2>3. FiringInv'
    BY <1>0, <1>1, <2>1 DEF FiringInv, engineVars
  <2>4. \A g \in Hooks : hook'[g].pc = "accepted" => hook'[g] = hook[g]
    BY <1>0, <1>1 DEF Exit, NoHook
  <2> QED BY <1>1, <2>2, <2>3, <2>4 DEF Exit, AcceptedInv
<1>2. CASE (BeginShutdown \/ StartServer) /\ UNCHANGED engineVars
  BY <1>2 DEF BeginShutdown, StartServer, storageVars, eventVars, engineVars, QuietStep,
              FiringInv, AcceptedInv
<1> QED BY <1>1, <1>2 DEF ServerStep, EndShutdown, Kill

----------------------------------------------------------------------------
\* Only a step of FireTrigger writes events or the topic.
LEMMA OthersQuiet ==
    ASSUME DeliveryInv, [Next]_vars
    PROVE  QuietStep \/ \E c \in Callers : EventStep(c)
<1> USE DEF DeliveryInv
<1>1. CASE UNCHANGED <<call, topic, eventLogs>>
  BY <1>1 DEF QuietStep
<1>2. UNCHANGED vars \/ ClockStep => UNCHANGED <<call, topic, eventLogs>>
  BY DEF ClockStep, Tick, eventVars, vars, storageVars
<1> QED BY <1>1, <1>2, EngineStepQuiet, EngineFaultQuiet, ClientStepQuiet, WebhookStepQuiet,
           ServerStepQuiet DEF Next

\* Nothing is completed or accepted before the first step.
LEMMA InitDelivery == Init => DeliveryInv
<1>1. Init => CallsInv
  BY DEF Init, EventInit, NoCall, CallsInv
<1>2. Init => FiringInv
  BY DEF Init, EngineInit, FiringInv
<1>3. Init => CompletedInv
  BY DEF Init, StorageInit, CompletedInv
<1>4. Init => AcceptedInv
  BY DEF Init, HookInit, NoHook, AcceptedInv
<1> QED BY <1>1, <1>2, <1>3, <1>4, InitType DEF DeliveryInv

\* Every step keeps what has been published behind what is completed or accepted.
LEMMA NextDelivery == DeliveryInv /\ [Next]_vars => DeliveryInv'
<1> SUFFICES ASSUME DeliveryInv, [Next]_vars PROVE DeliveryInv'
  OBVIOUS
<1> USE DEF DeliveryInv
<1>0. TypeInv'
  BY NextType
<1>1. ASSUME PublishedStays,
             \A s \in ScheduleIds : schedules'[s].status = "completed" =>
                \/ schedules[s].status = "completed"
                \/ \E e \in EventIds : Published(e) /\ eventLogs[e].schedule = s
      PROVE  CompletedInv'
  <2>1. \A s \in ScheduleIds : schedules'[s].status = "completed" =>
           \E e \in EventIds : Published(e) /\ eventLogs[e].schedule = s
    BY <1>1 DEF CompletedInv
  <2>2. \A s \in ScheduleIds : schedules'[s].status = "completed" =>
           \E e \in EventIds : Published(e)' /\ eventLogs'[e].schedule = s
    BY <1>1, <2>1 DEF PublishedStays
  <2> QED BY <2>2 DEF CompletedInv
<1>2. ASSUME PublishedStays, UNCHANGED hook
      PROVE  AcceptedInv'
  <2>1. \A h \in Hooks : hook[h].pc = "accepted" => hook[h].event \in EventIds
    BY DEF AcceptedInv, Published, TypeInv, CallsOK, EventTypeOK
  <2> QED BY <1>2, <2>1 DEF PublishedStays, AcceptedInv
<1>3. ASSUME NEW c \in Callers, EventStep(c)
      PROVE  DeliveryInv'
  <2>1. CallsInv' /\ PublishedStays
    BY <1>3, EventStepCalls
  <2>2. UNCHANGED <<schedules, engineVars, hook>>
    BY <1>3 DEF EventStep, LogEvent, PublishAcked, PublishFailed, MarkFailed,
                storageVars, apiVars
  <2>3. FiringInv'
    <3>1. \A d \in Callers : call'[d].schedule = call[d].schedule
      <4>1. call \in [Callers -> CallType]
        BY DEF TypeInv, CallsOK, EventTypeOK
      <4>2. CASE LogEvent(c)
        <5>1. \E e, ok : call' = IF ok THEN [call EXCEPT ![c].pc = "publish", ![c].event = e]
                                 ELSE [call EXCEPT ![c].pc = "failed"]
          BY <4>2 DEF LogEvent
        <5> QED BY <4>1, <5>1 DEF CallType
      <4>3. CASE PublishAcked(c) \/ PublishFailed(c) \/ MarkFailed(c)
        BY <4>1, <4>3 DEF PublishAcked, PublishFailed, MarkFailed, CallType
      <4> QED BY <1>3, <4>2, <4>3 DEF EventStep
    <3> QED BY <2>2, <3>1 DEF FiringInv, engineVars, Callers
  <2>4. CompletedInv' /\ AcceptedInv'
    BY <1>1, <1>2, <2>1, <2>2
  <2> QED BY <1>0, <2>1, <2>3, <2>4
<1>4. ASSUME NEW p \in Schedulers, EngineStep(p)
      PROVE  DeliveryInv'
  <2>1. QuietStep /\ FiringInv' /\ UNCHANGED hook
    BY <1>4, EngineStepQuiet
  <2>2. CallsInv' /\ PublishedStays
    BY <2>1, QuietStepCalls
  <2>3. CompletedInv'
    BY <1>1, <1>4, <2>2, EngineStepCompletes
  <2>4. AcceptedInv'
    BY <1>2, <2>1, <2>2
  <2> QED BY <1>0, <2>1, <2>2, <2>3, <2>4
<1>5. ASSUME NEW p \in Schedulers, EngineFault(p)
      PROVE  DeliveryInv'
  <2>1. QuietStep /\ FiringInv' /\ UNCHANGED <<hook, schedules>>
    BY <1>5, EngineFaultQuiet
  <2>2. CallsInv' /\ PublishedStays
    BY <2>1, QuietStepCalls
  <2>3. CompletedInv' /\ AcceptedInv'
    BY <1>1, <1>2, <2>1, <2>2
  <2> QED BY <1>0, <2>1, <2>2, <2>3
<1>6. ASSUME NEW r \in Requests, ClientStep(r) \/ UpdateStep(r)
      PROVE  DeliveryInv'
  <2>1. /\ QuietStep /\ FiringInv' /\ UNCHANGED hook
        /\ \A s \in ScheduleIds : schedules'[s].status = "completed" =>
              schedules[s].status = "completed"
    BY <1>6, ClientStepQuiet
  <2>2. CallsInv' /\ PublishedStays
    BY <2>1, QuietStepCalls
  <2>3. CompletedInv' /\ AcceptedInv'
    BY <1>1, <1>2, <2>1, <2>2
  <2> QED BY <1>0, <2>1, <2>2, <2>3
<1>7. ASSUME (\E h \in Hooks : WebhookStep(h)) \/ ServerStep
      PROVE  DeliveryInv'
  <2>1. /\ QuietStep /\ FiringInv' /\ UNCHANGED schedules
        /\ \A g \in Hooks : hook'[g].pc = "accepted" => Published(hook'[g].event)
    BY <1>7, WebhookStepQuiet, ServerStepQuiet
  <2>2. CallsInv' /\ PublishedStays
    BY <2>1, QuietStepCalls
  <2>3. CompletedInv'
    BY <1>1, <2>1, <2>2
  <2>4. AcceptedInv'
    <3>1. \A g \in Hooks : hook'[g].pc = "accepted" => hook'[g].event \in EventIds
      BY <2>1 DEF Published, TypeInv, CallsOK, EventTypeOK
    <3>2. \A g \in Hooks : hook'[g].pc = "accepted" => Published(hook[g].event)'
      BY <2>1, <2>2, <3>1 DEF PublishedStays, Published, QuietStep, InFlight
    <3> QED BY <3>2 DEF AcceptedInv
  <2> QED BY <1>0, <2>1, <2>2, <2>3, <2>4
<1>8. CASE ClockStep \/ UNCHANGED vars
  <2>1. UNCHANGED <<schedules, eventLogs, eventVars, engineVars, hook>>
    BY <1>8 DEF ClockStep, Tick, apiVars, vars, storageVars
  <2>2. QuietStep /\ FiringInv'
    BY <2>1 DEF QuietStep, FiringInv, eventVars, engineVars
  <2>3. CallsInv' /\ PublishedStays
    BY <2>2, QuietStepCalls
  <2>4. CompletedInv' /\ AcceptedInv'
    BY <1>1, <1>2, <2>1, <2>3
  <2> QED BY <1>0, <2>2, <2>3, <2>4
<1> QED BY <1>3, <1>4, <1>5, <1>6, <1>7, <1>8 DEF Next

\* A schedule is "completed" only after Kafka has stored an event for it that is
\* logged as a success: for any number of schedulers, and under every fault.
THEOREM CompletedPublished == Spec => []CompletedWasPublished
<1>1. DeliveryInv => CompletedWasPublished
  BY DEF DeliveryInv, CompletedInv, Published, CompletedWasPublished, EventsFor
<1> QED BY <1>1, InitDelivery, NextDelivery, PTL DEF Spec

\* A webhook request answered 202 has its event in Kafka and in the log as a
\* success, and no later step takes that back.
THEOREM AcceptedPublished == Spec => []AcceptedWasPublished
<1>1. DeliveryInv => AcceptedWasPublished
  BY DEF DeliveryInv, AcceptedInv, Published, AcceptedWasPublished
<1> QED BY <1>1, InitDelivery, NextDelivery, PTL DEF Spec
============================================================================
