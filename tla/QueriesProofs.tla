---------------------------- MODULE QueriesProofs ----------------------------
(***************************************************************************)
(* Theorems about Queries, for every value of its constants.               *)
(***************************************************************************)
EXTENDS Queries, FiniteSetTheorems, TLAPS

\* The columns and calls that decide what is listed when.
HistoryOK ==
    /\ now \in 0..MaxTime
    /\ eventLogs \in [EventIds -> EventRow]
    /\ firing \in [Callers -> CallType]
    /\ firedAt \in [EventIds -> 0..MaxTime]
    /\ retention \in [EventIds -> {"active", "archived", "deleted"}]

\* A call under way began in the past, no longer ago than rows are archived, and
\* once its event is inserted the event stays used.
CallsAreShort ==
    \A c \in Callers :
        /\ firing[c].pc # "none" =>
              firing[c].began <= now /\ now <= firing[c].began + ArchiveAge
        /\ firing[c].pc = "publish" =>
              firing[c].event \in EventIds /\ eventLogs[firing[c].event].status # "unused"

\* A row is archived, or gone, only when it is old enough, and was inserted.
RetentionIsDue ==
    \A e \in EventIds :
        /\ eventLogs[e].status = "unused" => retention[e] = "active"
        /\ retention[e] = "archived" => firedAt[e] + ArchiveAge < now
        /\ retention[e] = "deleted" => firedAt[e] + DeleteAge < now

HistoryInv == HistoryOK /\ CallsAreShort /\ RetentionIsDue /\ ArchiveIsOlder

----------------------------------------------------------------------------
(* One lemma for each kind of step.                                        *)

\* The empty history.
LEMMA InitHistory == Init => HistoryInv
<1> SUFFICES ASSUME Init PROVE HistoryInv
  OBVIOUS
<1> USE DEF Init, StorageInit
<1>1. HistoryOK
  BY StorageAssumption DEF HistoryOK, EventRow, CallType, NoCall
<1>2. CallsAreShort
  BY DEF CallsAreShort, NoCall
<1>3. RetentionIsDue
  BY DEF RetentionIsDue
<1>4. ArchiveIsOlder
  BY DEF ArchiveIsOlder
<1> QED BY <1>1, <1>2, <1>3, <1>4 DEF HistoryInv

\* A step that leaves the events and their calls alone keeps it.
LEMMA FrameHistory ==
    ASSUME HistoryInv, UNCHANGED <<now, eventLogs, firing, firedAt, retention>>
    PROVE  HistoryInv'
BY DEF HistoryInv, HistoryOK, CallsAreShort, RetentionIsDue, ArchiveIsOlder, EventExists

\* Time goes on as far as the calls under way let it.
LEMMA ClockHistory ==
    ASSUME HistoryInv, ClockStep
    PROVE  HistoryInv'
<1>1. /\ now \in Nat /\ now' \in 0..MaxTime /\ now' = now + 1
      /\ UNCHANGED <<eventLogs, firing, firedAt, retention>>
  BY StorageAssumption DEF HistoryInv, HistoryOK, ClockStep, Tick, historyVars
<1>2. \A c \in Callers : firing[c].pc # "none" => now - firing[c].began < ArchiveAge
  BY DEF ClockStep
<1>3. \A c \in Callers : firing[c].began \in Nat
  BY StorageAssumption DEF HistoryInv, HistoryOK, CallType
<1>4. \A e \in EventIds : firedAt[e] \in Nat
  BY StorageAssumption DEF HistoryInv, HistoryOK
<1>5. HistoryOK'
  BY <1>1 DEF HistoryInv, HistoryOK
<1>6. CallsAreShort'
  BY <1>1, <1>2, <1>3, QueriesAssumption DEF HistoryInv, CallsAreShort
<1>7. RetentionIsDue'
  BY <1>1, <1>4, QueriesAssumption DEF HistoryInv, RetentionIsDue
<1>8. ArchiveIsOlder'
  BY <1>1 DEF HistoryInv, ArchiveIsOlder, EventExists
<1> QED BY <1>5, <1>6, <1>7, <1>8 DEF HistoryInv

\* A call starts now.
LEMMA FireHistory ==
    ASSUME HistoryInv, NEW c \in Callers, FireTrigger(c)
    PROVE  HistoryInv'
<1>1. PICK t \in TriggerIds :
          firing' = [firing EXCEPT ![c] =
                        [NoCall EXCEPT !.pc = "insert", !.trigger = t, !.began = now]]
  BY DEF FireTrigger
<1>2. UNCHANGED <<now, eventLogs, firedAt, retention>>
  BY DEF FireTrigger, storageVars
<1>3. now \in 0..MaxTime /\ firing \in [Callers -> CallType]
  BY DEF HistoryInv, HistoryOK
<1> DEFINE begun == [NoCall EXCEPT !.pc = "insert", !.trigger = t, !.began = now]
<1>4. begun \in CallType /\ begun.pc = "insert" /\ begun.began = now
  <2>1. NoCall \in CallType
    BY StorageAssumption DEF NoCall, CallType
  <2> QED BY <1>3, <2>1 DEF CallType
<1>5. firing' = [firing EXCEPT ![c] = begun]
  BY <1>1
<1> HIDE DEF begun
<1>6. HistoryOK'
  BY <1>2, <1>3, <1>4, <1>5 DEF HistoryInv, HistoryOK
<1>7. CallsAreShort'
  BY <1>2, <1>3, <1>4, <1>5, StorageAssumption, QueriesAssumption DEF HistoryInv, CallsAreShort
<1>8. RetentionIsDue' /\ ArchiveIsOlder'
  BY <1>2 DEF HistoryInv, RetentionIsDue, ArchiveIsOlder, EventExists
<1> QED BY <1>6, <1>7, <1>8 DEF HistoryInv

\* An event comes in on the young side of the archive: its call is too short for a
\* row as old as it to be archived.
LEMMA LogHistory ==
    ASSUME HistoryInv, NEW c \in Callers, LogEvent(c)
    PROVE  HistoryInv'
<1>1. PICK e \in Fresh(eventLogs), ok \in BOOLEAN :
          /\ CreateEventLog(c, e, firing[c].trigger, Null, ok)
          /\ firing' = [firing EXCEPT ![c] =
                IF ok THEN [@ EXCEPT !.pc = "publish", !.event = e] ELSE NoCall]
          /\ firedAt' = IF eventLogs' = eventLogs THEN firedAt
                        ELSE [firedAt EXCEPT ![e] = firing[c].began]
  BY DEF LogEvent
<1>2. UNCHANGED <<now, retention>> /\ firing[c].pc = "insert"
  BY DEF LogEvent
<1>3. HistoryOK /\ CallsAreShort /\ RetentionIsDue /\ ArchiveIsOlder
  BY DEF HistoryInv
<1>4. e \in EventIds /\ eventLogs[e].status = "unused" /\ retention[e] = "active"
  BY <1>3 DEF Fresh, HistoryOK, RetentionIsDue
<1> DEFINE row == [status |-> "success", trigger |-> firing[c].trigger, schedule |-> Null]
           began == firing[c].began
<1>5. /\ began \in 0..MaxTime /\ began <= now /\ now <= began + ArchiveAge
      /\ row \in EventRow
  BY <1>2, <1>3 DEF HistoryOK, CallType, EventRow, CallsAreShort
<1>6. CASE eventLogs' = [eventLogs EXCEPT ![e] = row]
  <2>1. eventLogs' # eventLogs
    BY <1>3, <1>4, <1>6 DEF HistoryOK
  <2>2. firedAt' = [firedAt EXCEPT ![e] = began]
    BY <1>1, <2>1
  <2> DEFINE after == IF ok THEN [firing[c] EXCEPT !.pc = "publish", !.event = e] ELSE NoCall
  <2>3. /\ after \in CallType
        /\ after.pc # "none" => after.began = began
        /\ after.pc = "publish" => after.event = e
    <3>1. firing[c] \in CallType
      BY <1>3 DEF HistoryOK
    <3>2. NoCall \in CallType
      BY StorageAssumption DEF NoCall, CallType
    <3> QED BY <1>4, <3>1, <3>2 DEF CallType, NoCall
  <2>4. firing' = [firing EXCEPT ![c] = after]
    BY <1>1
  <2> HIDE DEF after, began
  <2>5. HistoryOK'
    BY <1>2, <1>3, <1>4, <1>5, <1>6, <2>2, <2>3, <2>4 DEF HistoryOK
  <2>6. CallsAreShort'
    BY <1>2, <1>3, <1>4, <1>5, <1>6, <2>3, <2>4 DEF HistoryOK, CallsAreShort
  <2>7. RetentionIsDue'
    BY <1>2, <1>3, <1>4, <1>6, <2>2 DEF HistoryOK, RetentionIsDue
  <2>8. ASSUME NEW a \in EventIds, NEW f \in EventIds,
               EventExists(a)', retention'[a] = "archived",
               EventExists(f)', retention'[f] = "active"
        PROVE  firedAt'[a] < firedAt'[f]
    <3>1. a # e /\ firedAt'[a] = firedAt[a] /\ EventExists(a) /\ retention[a] = "archived"
      BY <1>2, <1>3, <1>4, <1>6, <2>2, <2>8 DEF HistoryOK, EventExists
    <3>2. CASE f = e
      BY <1>2, <1>3, <1>4, <1>5, <2>2, <3>1, <3>2, StorageAssumption, QueriesAssumption
      DEF HistoryOK, RetentionIsDue
    <3>3. CASE f # e
      BY <1>2, <1>3, <1>6, <2>2, <2>8, <3>1, <3>3
      DEF HistoryOK, ArchiveIsOlder, EventExists
    <3> QED BY <3>2, <3>3
  <2>9. ArchiveIsOlder'
    BY <2>8 DEF ArchiveIsOlder
  <2> QED BY <2>5, <2>6, <2>7, <2>9 DEF HistoryInv
<1>7. CASE eventLogs' = eventLogs
  <2>1. firedAt' = firedAt
    BY <1>1, <1>7
  <2>2. ~ok
    BY <1>1, <1>3, <1>4 , <1>7 DEF CreateEventLog, Runs, Refused, HistoryOK
  <2>3. firing' = [firing EXCEPT ![c] = NoCall] /\ NoCall \in CallType
    BY <1>1, <2>2, StorageAssumption DEF NoCall, CallType
  <2> QED BY <1>2, <1>3, <1>7, <2>1, <2>3
      DEF HistoryInv, HistoryOK, CallsAreShort, RetentionIsDue, ArchiveIsOlder,
          EventExists, NoCall
<1> QED BY <1>1, <1>6, <1>7 DEF CreateEventLog

\* A call that returns may turn its event into a failure.
LEMMA ReturnHistory ==
    ASSUME HistoryInv, NEW c \in Callers, Return(c)
    PROVE  HistoryInv'
<1> DEFINE e == firing[c].event
<1>1. /\ UNCHANGED <<now, firedAt, retention>>
      /\ firing' = [firing EXCEPT ![c] = NoCall]
      /\ firing[c].pc = "publish"
  BY DEF Return
<1>2. \/ eventLogs' = eventLogs
      \/ eventLogs' = [eventLogs EXCEPT ![e].status = "failure"]
  BY DEF Return, UpdateEventLogStatus
<1>3. HistoryOK /\ CallsAreShort /\ RetentionIsDue /\ ArchiveIsOlder
  BY DEF HistoryInv
<1>4. e \in EventIds /\ eventLogs[e].status # "unused"
  BY <1>1, <1>3 DEF CallsAreShort
<1>5. eventLogs' \in [EventIds -> EventRow]
  <2>1. [eventLogs[e] EXCEPT !.status = "failure"] \in EventRow
    BY <1>3, <1>4 DEF HistoryOK, EventRow
  <2> QED BY <1>2, <1>3, <1>4, <2>1 DEF HistoryOK
<1>6. \A f \in EventIds : eventLogs'[f].status = "unused" <=> eventLogs[f].status = "unused"
  <2>1. CASE eventLogs' = eventLogs
    BY <2>1
  <2>2. ASSUME eventLogs' = [eventLogs EXCEPT ![e].status = "failure"], NEW f \in EventIds
        PROVE  eventLogs'[f].status = "unused" <=> eventLogs[f].status = "unused"
    <3>1. f # e => eventLogs'[f] = eventLogs[f]
      BY <1>3, <2>2 DEF HistoryOK
    <3>2. eventLogs'[e].status = "failure"
      BY <1>3, <1>4, <2>2 DEF HistoryOK, EventRow
    <3> QED BY <1>4, <3>1, <3>2
  <2> QED BY <1>2, <2>1, <2>2
<1>7. NoCall \in CallType
  BY StorageAssumption DEF NoCall, CallType
<1>8. HistoryOK'
  BY <1>1, <1>3, <1>5, <1>7 DEF HistoryOK
<1>9. CallsAreShort'
  BY <1>1, <1>3, <1>6 DEF HistoryOK, CallsAreShort, NoCall
<1>10. RetentionIsDue' /\ ArchiveIsOlder'
  BY <1>1, <1>3, <1>6 DEF RetentionIsDue, ArchiveIsOlder, EventExists
<1> QED BY <1>8, <1>9, <1>10 DEF HistoryInv

\* A request keeps the events of the trigger it deletes.
LEMMA RequestHistory ==
    ASSUME HistoryInv, NEW r \in Requests, RequestStep(r)
    PROVE  HistoryInv'
<1>1. UNCHANGED <<now, firing, firedAt, retention>>
  BY DEF RequestStep, historyVars
<1>2. CASE UNCHANGED eventLogs
  BY <1>1, <1>2, FrameHistory
<1>3. ASSUME NEW t \in TriggerIds,
             eventLogs' = [e \in EventIds |->
                 IF eventLogs[e].trigger = t
                 THEN [eventLogs[e] EXCEPT !.trigger = Null] ELSE eventLogs[e]]
      PROVE  HistoryInv'
  <2>1. \A e \in EventIds : [eventLogs[e] EXCEPT !.trigger = Null] \in EventRow
    BY DEF HistoryInv, HistoryOK, EventRow
  <2>2. \A e \in EventIds : [eventLogs[e] EXCEPT !.trigger = Null].status = eventLogs[e].status
    BY DEF HistoryInv, HistoryOK, EventRow
  <2>3. /\ eventLogs' \in [EventIds -> EventRow]
        /\ \A e \in EventIds : eventLogs'[e].status = eventLogs[e].status
    BY <1>3, <2>1, <2>2 DEF HistoryInv, HistoryOK
  <2> HIDE <1>3
  <2> QED BY <1>1, <2>3
      DEF HistoryInv, HistoryOK, CallsAreShort, RetentionIsDue, ArchiveIsOlder, EventExists
<1> QED BY <1>2, <1>3 DEF RequestStep, DeleteTrigger, historyVars, CreateTrigger, UpdateTrigger

\* Both MySQL events take all the rows of an age, so the archive stays the older part.
LEMMA RetentionHistory ==
    ASSUME HistoryInv, ArchiveOldEvents \/ DeleteOldEvents
    PROVE  HistoryInv'
<1>1. UNCHANGED <<now, eventLogs, firing, firedAt>>
  BY DEF ArchiveOldEvents, DeleteOldEvents, storageVars
<1>2. HistoryOK /\ CallsAreShort /\ RetentionIsDue /\ ArchiveIsOlder
  BY DEF HistoryInv
<1>3. now \in Nat /\ \A e \in EventIds : firedAt[e] \in Nat
  BY <1>2, StorageAssumption DEF HistoryOK
<1>4. CallsAreShort'
  BY <1>1, <1>2 DEF CallsAreShort
<1>5. CASE ArchiveOldEvents
  <2>1. /\ HistoryOK' /\ RetentionIsDue'
    BY <1>1, <1>2, <1>3, <1>5
    DEF HistoryOK, RetentionIsDue, ArchiveOldEvents, OlderThan, EventExists
  <2>2. ASSUME NEW e \in EventIds, NEW f \in EventIds,
               EventExists(e)', retention'[e] = "archived",
               EventExists(f)', retention'[f] = "active"
        PROVE  firedAt'[e] < firedAt'[f]
    <3>1. firedAt[e] + ArchiveAge < now
      BY <1>1, <2>1, <2>2 DEF RetentionIsDue
    <3>2. EventExists(f) /\ ~(firedAt[f] + ArchiveAge < now)
      BY <1>1, <1>2, <1>5, <2>2 DEF HistoryOK, ArchiveOldEvents, OlderThan, EventExists
    <3> QED BY <1>1, <1>3, <3>1, <3>2, QueriesAssumption
  <2> QED BY <1>2, <1>4, <2>1, <2>2 DEF HistoryInv, ArchiveIsOlder
<1>6. CASE DeleteOldEvents
  BY <1>1, <1>2, <1>3, <1>4, <1>6
  DEF HistoryInv, HistoryOK, RetentionIsDue, ArchiveIsOlder, DeleteOldEvents, OlderThan,
      EventExists
<1> QED BY <1>5, <1>6

----------------------------------------------------------------------------

\* Every step keeps the history.
LEMMA NextHistory == HistoryInv /\ [Next]_vars => HistoryInv'
<1> SUFFICES ASSUME HistoryInv, [Next]_vars PROVE HistoryInv'
  OBVIOUS
<1>1. CASE ClockStep
  BY <1>1, ClockHistory
<1>2. ASSUME NEW c \in Callers, FireTrigger(c) \/ FiringStep(c)
      PROVE  HistoryInv'
  BY <1>2, FireHistory, LogHistory, ReturnHistory DEF FiringStep
<1>3. ASSUME NEW r \in Requests, RequestStep(r)
      PROVE  HistoryInv'
  BY <1>3, RequestHistory
<1>4. CASE ArchiveOldEvents \/ DeleteOldEvents
  BY <1>4, RetentionHistory
<1>5. CASE CountRows \/ ListRows
  BY <1>5, FrameHistory DEF CountRows, ListRows, storageVars, historyVars
<1>6. CASE UNCHANGED vars
  BY <1>6, FrameHistory DEF vars, storageVars, historyVars
<1> QED BY <1>1, <1>2, <1>3, <1>4, <1>5, <1>6 DEF Next, Write

\* Whatever fails, an event is found by its id for DeleteAge after it fired and
\* listed as active for ArchiveAge, even once its trigger is deleted.
THEOREM HistoryKept == Spec => []HistoryIsKept
<1>1. HistoryInv => HistoryIsKept
  <2> SUFFICES ASSUME HistoryInv, NEW e \in EventIds, eventLogs[e].status # "unused"
               PROVE  /\ firedAt[e] + DeleteAge >= now => GetEventLog(e) # Null
                      /\ firedAt[e] + ArchiveAge >= now => GetEventLog(e).retention = "active"
    BY DEF HistoryIsKept
  <2>1. now \in Nat /\ firedAt[e] \in Nat
    BY StorageAssumption DEF HistoryInv, HistoryOK
  <2>2. /\ retention[e] \in {"active", "archived", "deleted"}
        /\ retention[e] = "archived" => firedAt[e] + ArchiveAge < now
        /\ retention[e] = "deleted" => firedAt[e] + DeleteAge < now
    BY DEF HistoryInv, HistoryOK, RetentionIsDue
  <2>3. firedAt[e] + DeleteAge >= now => EventExists(e)
    BY <2>1, <2>2, QueriesAssumption DEF EventExists
  <2>4. firedAt[e] + ArchiveAge >= now => EventExists(e) /\ retention[e] = "active"
    BY <2>1, <2>2, QueriesAssumption DEF EventExists
  <2>5. EventExists(e) => GetEventLog(e) \in EventType
    BY <2>2 DEF HistoryInv, HistoryOK, EventRow, GetEventLog, EventExists, EventType
  <2>6. EventExists(e) => GetEventLog(e).retention = retention[e]
    BY DEF GetEventLog
  <2> QED BY <2>3, <2>4, <2>5, <2>6, QueriesAssumption
<1> QED BY <1>1, InitHistory, NextHistory, PTL DEF Spec

\* Whatever fails and however late the MySQL events run, the archive is the older part
\* of the log.
THEOREM ArchiveOlder == Spec => []ArchiveIsOlder
<1>1. HistoryInv => ArchiveIsOlder
  BY DEF HistoryInv
<1> QED BY <1>1, InitHistory, NextHistory, PTL DEF Spec

\* Both services round up: the last of total_pages is the one that holds the last row.
LEMMA TotalPagesRoundsUp ==
    ASSUME NEW q, NEW total \in Nat
    PROVE  /\ TotalPages(q, total) \in Nat
           /\ total <= TotalPages(q, total) * PageSize
           /\ total > (TotalPages(q, total) - 1) * PageSize
<1> DEFINE n == PageSize
<1>1. n \in Nat /\ n > 0
  BY QueriesAssumption
<1>2. CASE q.table = "events"
  <2> DEFINE d == total \div n
             r == total % n
  <2>1. d \in Nat /\ r \in 0..(n - 1) /\ total = n * d + r
    BY <1>1
  <2>2. (d + 1) * n = n * d + n /\ d * n = n * d /\ (d - 1) * n = n * d - n
    BY <1>1, <2>1
  <2>3. TotalPages(q, total) = d + IF r # 0 THEN 1 ELSE 0
    BY <1>2 DEF TotalPages
  <2> HIDE DEF d, r
  <2>4. CASE r # 0
    <3>1. TotalPages(q, total) = d + 1 /\ (d + 1) - 1 = d
      BY <2>1, <2>3, <2>4
    <3> QED BY <1>1, <2>1, <2>2, <2>4, <3>1
  <2>5. CASE r = 0
    <3>1. TotalPages(q, total) = d
      BY <2>1, <2>3, <2>5
    <3> QED BY <1>1, <2>1, <2>2, <2>5, <3>1
  <2> QED BY <2>4, <2>5
<1>3. CASE q.table # "events" /\ total > 0
  <2> DEFINE m == total + n - 1
             d == m \div n
             r == m % n
  <2>1. m \in Nat
    BY <1>1, <1>3
  <2>2. d \in Nat /\ r \in 0..(n - 1) /\ m = n * d + r
    BY <1>1, <2>1
  <2>3. d * n = n * d /\ (d - 1) * n = n * d - n
    BY <1>1, <2>2
  <2>4. TotalPages(q, total) = d
    BY <1>3 DEF TotalPages
  <2>5. m = total + n - 1
    OBVIOUS
  <2> HIDE DEF d, r, m
  <2> QED BY <1>1, <2>2, <2>3, <2>4, <2>5
<1>4. CASE q.table # "events" /\ total = 0
  <2>1. TotalPages(q, total) = 0
    BY <1>4 DEF TotalPages
  <2> QED BY <1>1, <1>4, <2>1
<1> QED BY <1>2, <1>3, <1>4

----------------------------------------------------------------------------
(* A walk through a list.                                                  *)

\* The rows of the list that come before id on every page.
Ahead(q, id) == {r \in Rows(q) : SortKey(q)[r] > SortKey(q)[id]}

CreatedOK ==
    /\ createdAt \in [TriggerIds -> 0..MaxTime]
    /\ triggers \in [TriggerIds -> TriggerRow]

\* What a client has yet to see lies behind the pages it has read; the total it was
\* given covers the list.
WalkOK ==
    LET q == walk.list IN
    /\ walk \in WalkType /\ walk.page > 0
    /\ walk.pc \in {"count", "list"} =>
          /\ q \in Lists
          /\ walk.missing \subseteq Rows(q)
          /\ \A id \in walk.missing : Alone(q, id) =>
                Cardinality(Ahead(q, id)) >= (walk.page - 1) * PageSize
    /\ walk.pc = "list" /\ walk.until = "total pages" => Cardinality(Rows(q)) <= walk.total
    /\ walk.pc = "done" => \A id \in walk.missing : ~Alone(q, id)

WalkInv == HistoryInv /\ CreatedOK /\ WalkOK

\* A list is a finite set of ids with a time each.
LEMMA ListsAreFinite ==
    ASSUME HistoryOK, CreatedOK, NEW q \in Lists
    PROVE  /\ IsFiniteSet(Rows(q)) /\ Cardinality(Rows(q)) \in Nat
           /\ Rows(q) \subseteq EventIds \cup TriggerIds
           /\ \A r \in Rows(q) : SortKey(q)[r] \in Nat
<1>1. CASE q.table = "events"
  <2>1. Rows(q) \in SUBSET EventIds
    BY <1>1 DEF Rows, EventsIn
  <2>2. IsFiniteSet(Rows(q))
    BY <2>1, QueriesAssumption, FS_Subset
  <2>3. \A r \in Rows(q) : SortKey(q)[r] \in Nat
    BY <1>1, <2>1, StorageAssumption DEF SortKey, HistoryOK
  <2> QED BY <2>1, <2>2, <2>3, FS_CardinalityType
<1>2. CASE q.table # "events"
  <2>1. Rows(q) \in SUBSET TriggerIds
    BY <1>2 DEF Rows, TriggersIn
  <2>2. IsFiniteSet(Rows(q))
    BY <2>1, QueriesAssumption, FS_Subset
  <2>3. \A r \in Rows(q) : SortKey(q)[r] \in Nat
    BY <1>2, <2>1, StorageAssumption DEF SortKey, CreatedOK
  <2> QED BY <2>1, <2>2, <2>3, FS_CardinalityType
<1> QED BY <1>1, <1>2

\* Whatever order the ties come in, a row without one is among the first n exactly
\* when fewer than n rows are ahead of it.
LEMMA TopRows ==
    ASSUME NEW rows, IsFiniteSet(rows), NEW at, \A r \in rows : at[r] \in Nat,
           NEW n \in Nat, NEW top \in NewestFirst(rows, at, n),
           NEW id \in rows, \A other \in rows \ {id} : at[other] # at[id]
    PROVE  /\ id \in top => Cardinality({r \in rows : at[r] > at[id]}) < n
           /\ id \notin top => /\ Cardinality({r \in rows : at[r] > at[id]}) >= n
                             /\ n < Cardinality(rows) /\ Cardinality(top) = n
<1> DEFINE ahead == {r \in rows : at[r] > at[id]}
<1>1. /\ top \in SUBSET rows
      /\ Cardinality(top) = IF n < Cardinality(rows) THEN n ELSE Cardinality(rows)
      /\ \A r \in top, s \in rows \ top : at[r] >= at[s]
  BY DEF NewestFirst
<1>2. IsFiniteSet(top) /\ Cardinality(top) \in Nat /\ Cardinality(rows) \in Nat
  BY <1>1, FS_Subset, FS_CardinalityType
<1>3. Cardinality(top) <= n
  BY <1>1, <1>2
<1>4. IsFiniteSet(ahead) /\ Cardinality(ahead) \in Nat
  <2>1. ahead \in SUBSET rows
    OBVIOUS
  <2> QED BY <2>1, FS_Subset, FS_CardinalityType
<1>5. ASSUME id \in top PROVE Cardinality(ahead) < n
  <2>1. ahead \in SUBSET (top \ {id})
    BY <1>1, <1>5
  <2>2. IsFiniteSet(top \ {id}) /\ Cardinality(top \ {id}) = Cardinality(top) - 1
    BY <1>2, <1>5, FS_RemoveElement
  <2>3. Cardinality(ahead) <= Cardinality(top \ {id})
    BY <2>1, <2>2, FS_Subset
  <2> QED BY <1>2, <1>3, <1>4, <2>2, <2>3
<1>6. ASSUME id \notin top
      PROVE  Cardinality(ahead) >= n /\ n < Cardinality(rows) /\ Cardinality(top) = n
  <2>1. top \in SUBSET ahead
    BY <1>1, <1>6
  <2>2. Cardinality(top) # Cardinality(rows)
    BY <1>1, <1>6, FS_Subset
  <2>3. n < Cardinality(rows) /\ Cardinality(top) = n
    BY <1>1, <2>2
  <2>4. Cardinality(top) <= Cardinality(ahead)
    BY <1>4, <2>1, FS_Subset
  <2> QED BY <2>3, <2>4
<1> QED BY <1>5, <1>6

\* The SELECT of page after page reads on where the last one ended.
LEMMA PageRows ==
    ASSUME HistoryOK, CreatedOK, NEW q \in Lists, NEW page \in Nat \ {0},
           NEW rows \in Pages(q, page), NEW id \in Rows(q) \ rows, Alone(q, id),
           Cardinality(Ahead(q, id)) >= (page - 1) * PageSize
    PROVE  /\ Cardinality(Ahead(q, id)) >= page * PageSize
           /\ page * PageSize < Cardinality(Rows(q))
           /\ Cardinality(rows) = PageSize
<1> DEFINE m == (page - 1) * PageSize
           n == page * PageSize
<1>1. /\ PageSize \in Nat /\ m \in Nat /\ n \in Nat /\ n = m + PageSize
  BY QueriesAssumption
<1>2. PICK t1 \in NewestFirst(Rows(q), SortKey(q), m),
           t2 \in NewestFirst(Rows(q), SortKey(q), n) :
              t1 \subseteq t2 /\ rows = t2 \ t1
  BY DEF Pages
<1> HIDE DEF m, n
<1>3. /\ IsFiniteSet(Rows(q)) /\ Cardinality(Rows(q)) \in Nat
      /\ \A r \in Rows(q) : SortKey(q)[r] \in Nat
  BY ListsAreFinite
<1>4. \A other \in Rows(q) \ {id} : SortKey(q)[other] # SortKey(q)[id]
  BY DEF Alone
<1>5. /\ Cardinality(Ahead(q, id)) >= m
      /\ Ahead(q, id) \in SUBSET Rows(q)
  BY DEF Ahead, m
<1>6. Cardinality(Ahead(q, id)) \in Nat
  BY <1>3, <1>5, FS_Subset, FS_CardinalityType
<1>7. id \notin t1 /\ Cardinality(t1) = m
  BY <1>1, <1>3, <1>4, <1>5, <1>6, TopRows DEF Ahead
<1>8. id \notin t2
  BY <1>2, <1>7
<1>9. /\ Cardinality(Ahead(q, id)) >= n
      /\ n < Cardinality(Rows(q)) /\ Cardinality(t2) = n
  BY <1>1, <1>3, <1>4, <1>8, TopRows DEF Ahead
<1>10. Cardinality(rows) = PageSize
  <2>1. IsFiniteSet(t2)
    BY <1>3, FS_Subset DEF NewestFirst
  <2>2. Cardinality(t2 \ t1) = Cardinality(t2) - Cardinality(t2 \cap t1)
    BY <2>1, FS_Difference
  <2>3. t2 \cap t1 = t1
    BY <1>2
  <2>4. Cardinality(t2 \ t1) = n - m
    BY <1>7, <1>9, <2>2, <2>3
  <2>5. rows = t2 \ t1
    BY <1>2
  <2> HIDE <1>2
  <2>6. n - m = PageSize
    BY <1>1
  <2> QED BY <2>4, <2>5, <2>6
<1> QED BY <1>9, <1>10 DEF n

\* What a page does to the record of the walk.
LEMMA WalkChange ==
    ASSUME walk \in WalkType, NEW rows, NEW page \in Nat, NEW pc \in {"list", "count", "done"},
           \/ walk' = [walk EXCEPT !.missing = @ \ rows, !.total = 0, !.page = page, !.pc = pc]
           \/ walk.pc = pc /\ walk' = [walk EXCEPT !.missing = @ \ rows, !.total = 0, !.page = page]
    PROVE  /\ walk' \in WalkType /\ walk'.page = page /\ walk'.pc = pc
           /\ walk'.list = walk.list /\ walk'.missing = walk.missing \ rows
           /\ walk'.until = walk.until
<1> DEFINE S == EventIds \cup TriggerIds
<1>1. walk.missing \ rows \in SUBSET S /\ 0 \in Nat
  BY DEF WalkType
<1> QED BY <1>1 DEF WalkType

\* A page that is not the last moves the walk on; after the last one nothing is missing.
LEMMA ListWalk ==
    ASSUME WalkInv, ListRows
    PROVE  WalkOK'
<1> DEFINE q == walk.list
<1>1. HistoryOK /\ CreatedOK /\ WalkOK /\ walk \in WalkType /\ walk.page > 0
  BY DEF WalkInv, HistoryInv, WalkOK
<1>2. PICK rows :
          LET short == Cardinality(rows) < PageSize
              last  == walk.page >= TotalPages(q, walk.total)
              then  == [walk EXCEPT !.missing = @ \ rows, !.total = 0]
          IN  /\ rows \in Pages(q, walk.page)
              /\ walk' = CASE walk.until = "short page" /\ ~short -> [then EXCEPT !.page = @ + 1]
                        [] walk.until = "total pages" /\ ~last ->
                              [then EXCEPT !.page = @ + 1, !.pc = "count"]
                        [] OTHER -> [then EXCEPT !.page = 1, !.pc = "done"]
  BY DEF ListRows
<1>3. walk.pc = "list" /\ UNCHANGED <<storageVars, historyVars>>
  BY DEF ListRows
<1>11. walk.page \in Nat
  BY <1>1 DEF WalkType
<1>12. walk.total \in Nat
  BY <1>1 DEF WalkType
<1>13. walk.until = "short page" \/ walk.until = "total pages"
  BY <1>1 DEF WalkType
<1>4. /\ q \in Lists /\ walk.missing \subseteq Rows(q)
      /\ \A id \in walk.missing : Alone(q, id) =>
            Cardinality(Ahead(q, id)) >= (walk.page - 1) * PageSize
      /\ walk.until = "total pages" => Cardinality(Rows(q)) <= walk.total
  BY <1>1, <1>3 DEF WalkOK
<1>5. \A id \in walk.missing \ rows : Alone(q, id) =>
          /\ Cardinality(Ahead(q, id)) >= walk.page * PageSize
          /\ walk.page * PageSize < Cardinality(Rows(q))
          /\ Cardinality(rows) = PageSize
  <2>1. walk.page \in Nat \ {0}
    BY <1>1, <1>11
  <2>2. rows \in Pages(q, walk.page)
    BY <1>2
  <2> HIDE DEF q
  <2> QED BY <1>1, <1>4, <2>1, <2>2, PageRows
<1>6. \A l : Rows(l)' = Rows(l) /\ SortKey(l)' = SortKey(l)
  BY <1>3 DEF storageVars, historyVars, Rows, SortKey, EventsIn, TriggersIn, EventExists,
              TriggerExists
<1>7. \A l, id : Alone(l, id)' = Alone(l, id) /\ Ahead(l, id)' = Ahead(l, id)
  BY <1>6 DEF Alone, Ahead
<1>8. CASE /\ walk.until = "short page" /\ ~(Cardinality(rows) < PageSize)
           /\ walk' = [walk EXCEPT !.missing = @ \ rows, !.total = 0, !.page = @ + 1]
  <2>0. walk.page + 1 \in Nat
    BY <1>11
  <2>1. /\ walk' \in WalkType /\ walk'.page = walk.page + 1 /\ walk'.pc = "list"
        /\ walk'.list = q /\ walk'.missing = walk.missing \ rows
        /\ walk'.until = "short page"
    BY <1>1, <1>3, <1>8, <2>0, WalkChange
  <2>2. walk'.page - 1 = walk.page /\ walk'.page > 0
    <3>1. walk'.page = walk.page + 1
      BY <2>1
    <3> QED BY <1>11, <3>1
  <2> QED BY <1>4, <1>5, <1>6, <1>7, <2>1, <2>2 DEF WalkOK
<1>9. CASE /\ walk.until = "total pages"
           /\ walk' = [walk EXCEPT !.missing = @ \ rows, !.total = 0, !.page = @ + 1,
                                   !.pc = "count"]
  <2>0. walk.page + 1 \in Nat
    BY <1>11
  <2>1. /\ walk' \in WalkType /\ walk'.page = walk.page + 1 /\ walk'.pc = "count"
        /\ walk'.list = q /\ walk'.missing = walk.missing \ rows
    BY <1>1, <1>9, <2>0, WalkChange
  <2>2. walk'.page - 1 = walk.page /\ walk'.page > 0
    <3>1. walk'.page = walk.page + 1
      BY <2>1
    <3> QED BY <1>11, <3>1
  <2> QED BY <1>4, <1>5, <1>6, <1>7, <2>1, <2>2 DEF WalkOK
<1>10. CASE /\ \/ walk.until = "short page" /\ Cardinality(rows) < PageSize
               \/ walk.until = "total pages" /\ walk.page >= TotalPages(q, walk.total)
            /\ walk' = [walk EXCEPT !.missing = @ \ rows, !.total = 0, !.page = 1,
                                    !.pc = "done"]
  <2>1. /\ walk' \in WalkType /\ walk'.page = 1 /\ walk'.pc = "done"
        /\ walk'.list = q /\ walk'.missing = walk.missing \ rows
    BY <1>1, <1>10, WalkChange
  <2>2. ASSUME NEW id \in walk.missing \ rows, Alone(q, id)
        PROVE  FALSE
    <3>1. CASE walk.until = "short page"
      <4>1. PageSize \in Nat
        BY QueriesAssumption
      <4>2. Cardinality(rows) = PageSize
        BY <1>5, <2>2
      <4>3. Cardinality(rows) < PageSize
        BY <1>10, <3>1
      <4> QED BY <4>1, <4>2, <4>3
    <3>2. CASE walk.until = "total pages"
      <4> DEFINE all == TotalPages(q, walk.total)
      <4>1. all \in Nat /\ walk.total <= all * PageSize
        BY <1>12, TotalPagesRoundsUp
      <4>2. walk.page >= all
        BY <1>10, <3>2
      <4> HIDE DEF all
      <4>3. all * PageSize <= walk.page * PageSize
        <5> DEFINE page == walk.page
        <5>1. page \in Nat /\ page >= all /\ all \in Nat /\ PageSize \in Nat
          BY <1>11, <4>1, <4>2, QueriesAssumption
        <5> HIDE DEF page
        <5>2. all * PageSize <= page * PageSize
          BY <5>1
        <5> QED BY <5>2 DEF page
      <4>4. walk.page * PageSize \in Nat /\ all * PageSize \in Nat
        BY <1>11, <4>1, QueriesAssumption
      <4>5. Cardinality(Rows(q)) \in Nat
        BY <1>1, <1>4, ListsAreFinite
      <4>6. walk.page * PageSize < Cardinality(Rows(q)) /\ Cardinality(Rows(q)) <= walk.total
        BY <1>4, <1>5, <2>2, <3>2
      <4> QED BY <1>12, <4>1, <4>3, <4>4, <4>5, <4>6
    <3> QED BY <1>13, <3>1, <3>2
  <2> QED BY <1>7, <2>1, <2>2 DEF WalkOK
<1> QED
  <2>1. CASE walk.until = "short page" /\ ~(Cardinality(rows) < PageSize)
    BY <1>2, <1>8, <2>1
  <2>2. CASE walk.until = "total pages" /\ ~(walk.page >= TotalPages(q, walk.total))
    BY <1>2, <1>9, <2>2
  <2>3. CASE \/ walk.until = "short page" /\ Cardinality(rows) < PageSize
             \/ walk.until = "total pages" /\ walk.page >= TotalPages(q, walk.total)
    BY <1>2, <1>10, <2>3
  <2> QED BY <1>13, <2>1, <2>2, <2>3

\* A walk begins, or asks for the total again.
LEMMA CountWalk ==
    ASSUME WalkInv, CountRows
    PROVE  WalkOK'
<1>1. HistoryOK /\ CreatedOK /\ WalkOK /\ walk \in WalkType /\ walk.page > 0
  BY DEF WalkInv, HistoryInv, WalkOK
<1>2. UNCHANGED <<storageVars, historyVars>>
  BY DEF CountRows
<1>3. \A l : Rows(l)' = Rows(l) /\ SortKey(l)' = SortKey(l)
  BY <1>2 DEF storageVars, historyVars, Rows, SortKey, EventsIn, TriggersIn, EventExists,
              TriggerExists
<1>4. \A l, id : Alone(l, id)' = Alone(l, id) /\ Ahead(l, id)' = Ahead(l, id)
  BY <1>3 DEF Alone, Ahead
<1>5. ASSUME NEW q, q \in Lists,
             \/ walk' = [NoWalk EXCEPT !.pc = "list", !.list = q, !.missing = Rows(q)]
             \/ walk' = [NoWalk EXCEPT !.pc = "list", !.list = q, !.missing = Rows(q),
                                       !.until = "total pages",
                                       !.total = Cardinality(Rows(q))]
      PROVE  WalkOK'
  <2>1. Cardinality(Rows(q)) \in Nat /\ Rows(q) \in SUBSET (EventIds \cup TriggerIds)
    BY <1>1, <1>5, ListsAreFinite
  <2>2. /\ walk' \in WalkType /\ walk'.list = q /\ walk'.pc = "list" /\ walk'.page = 1
        /\ walk'.missing = Rows(q)
        /\ walk'.until = "total pages" => walk'.total = Cardinality(Rows(q))
    <3>1. /\ NoWalk \in WalkType /\ NoWalk.until = "short page" /\ NoWalk.page = 1
      BY DEF NoWalk, WalkType
    <3>2. CASE walk' = [NoWalk EXCEPT !.pc = "list", !.list = q, !.missing = Rows(q)]
      BY <1>5, <2>1, <3>1, <3>2 DEF WalkType
    <3>3. CASE walk' = [NoWalk EXCEPT !.pc = "list", !.list = q, !.missing = Rows(q),
                                     !.until = "total pages",
                                     !.total = Cardinality(Rows(q))]
      BY <1>5, <2>1, <3>1, <3>3 DEF WalkType
    <3> QED BY <1>5, <3>2, <3>3
  <2>3. \A id : Cardinality(Ahead(q, id)) >= (1 - 1) * PageSize
    <3>1. ASSUME NEW id PROVE Cardinality(Ahead(q, id)) \in Nat
      <4>1. IsFiniteSet(Rows(q)) /\ Ahead(q, id) \in SUBSET Rows(q)
        BY <1>1, <1>5, ListsAreFinite DEF Ahead
      <4> QED BY <4>1, FS_Subset, FS_CardinalityType
    <3>2. (1 - 1) * PageSize = 0
      BY QueriesAssumption
    <3> QED BY <3>1, <3>2
  <2>4. walk'.page = 1 /\ walk'.page > 0
    <3>1. walk'.page = 1
      BY <2>2
    <3> QED BY <3>1
  <2>5. /\ walk'.list \in Lists /\ walk'.missing \subseteq Rows(walk.list)'
        /\ \A id \in walk'.missing :
              Cardinality(Ahead(walk.list, id)') >= (walk'.page - 1) * PageSize
    BY <1>3, <1>4, <1>5, <2>2, <2>3
  <2>6. walk'.until = "total pages" => Cardinality(Rows(walk.list)') <= walk'.total
    <3>1. Rows(walk.list)' = Rows(q)
      BY <1>3, <2>2
    <3>2. walk'.until = "total pages" => walk'.total = Cardinality(Rows(q))
      BY <2>2
    <3> DEFINE count == Cardinality(Rows(q))
    <3>3. count \in Nat
      BY <2>1
    <3>4. Cardinality(Rows(walk.list)') = count
      BY <3>1
    <3>5. walk'.until = "total pages" => walk'.total = count
      BY <3>2
    <3> HIDE DEF count
    <3>6. count <= count
      BY <3>3
    <3> QED BY <3>4, <3>5, <3>6
  <2> QED BY <2>2, <2>4, <2>5, <2>6 DEF WalkOK
<1>6. CASE walk.pc = "count" /\ walk' = [walk EXCEPT !.pc = "list",
                                                   !.total = Cardinality(Rows(walk.list))]
  <2>1. walk.list \in Lists /\ Cardinality(Rows(walk.list)) \in Nat
    BY <1>1, <1>6, ListsAreFinite DEF WalkOK
  <2>2. /\ walk' \in WalkType /\ walk'.list = walk.list /\ walk'.pc = "list"
        /\ walk'.page = walk.page /\ walk'.missing = walk.missing
        /\ walk'.total = Cardinality(Rows(walk.list))
    BY <1>1, <1>6, <2>1 DEF WalkType
  <2>3. walk'.page > 0 /\ walk'.page - 1 = walk.page - 1
    BY <1>1, <2>2
  <2>4. /\ walk'.missing \subseteq Rows(walk.list)'
        /\ \A id \in walk'.missing : Alone(walk.list, id)' =>
              Cardinality(Ahead(walk.list, id)') >= (walk'.page - 1) * PageSize
    BY <1>1, <1>3, <1>4, <1>6, <2>2, <2>3 DEF WalkOK
  <2>5. Cardinality(Rows(walk.list)') <= walk'.total
    BY <1>3, <2>1, <2>2
  <2> QED BY <2>1, <2>2, <2>3, <2>4, <2>5 DEF WalkOK
<1> QED BY <1>5, <1>6 DEF CountRows

\* Nobody walks.
LEMMA NoWalkFacts ==
    /\ NoWalk \in WalkType /\ NoWalk.page = 1 /\ NoWalk.page > 0 /\ NoWalk.pc = "idle"
<1>1. NoWalk \in WalkType
  BY DEF NoWalk, WalkType
<1>2. NoWalk.page = 1
  BY DEF NoWalk
<1>3. NoWalk.page > 0
  BY <1>2
<1>4. NoWalk.pc = "idle"
  BY DEF NoWalk
<1> QED BY <1>1, <1>2, <1>3, <1>4

\* What writes do to the order of a list: nothing, while a row is in it.
LEMMA WriteKeepsOrder ==
    ASSUME HistoryOK, CreatedOK, Write
    PROVE  /\ CreatedOK'
           /\ \A q \in Lists : \A r \in Rows(q) \cap Rows(q)' : SortKey(q)'[r] = SortKey(q)[r]
<1>1. CASE UNCHANGED <<triggers, firedAt, createdAt>>
  BY <1>1 DEF CreatedOK, SortKey
<1>2. ASSUME NEW c \in Callers, LogEvent(c)
      PROVE  /\ CreatedOK'
             /\ \A q \in Lists : \A r \in Rows(q) : SortKey(q)'[r] = SortKey(q)[r]
  <2>1. UNCHANGED <<triggers, createdAt>>
    BY <1>2 DEF LogEvent
  <2>2. PICK e \in Fresh(eventLogs) :
            firedAt' = firedAt \/ firedAt' = [firedAt EXCEPT ![e] = firing[c].began]
    BY <1>2 DEF LogEvent
  <2>3. eventLogs[e].status = "unused"
    BY DEF Fresh
  <2>4. \A r \in EventIds : EventExists(r) => firedAt'[r] = firedAt[r]
    BY <2>2, <2>3 DEF EventExists, HistoryOK
  <2> QED BY <2>1, <2>4 DEF CreatedOK, Rows, EventsIn, SortKey
<1>3. ASSUME NEW c \in Requests, RequestStep(c)
      PROVE  /\ CreatedOK'
             /\ \A q \in Lists : \A r \in Rows(q) \cap Rows(q)' : SortKey(q)'[r] = SortKey(q)[r]
  <2>1. firedAt' = firedAt
    BY <1>3 DEF RequestStep, historyVars
  <2> DEFINE Kept == \A t \in TriggerIds :
                        TriggerExists(t) /\ TriggerExists(t)' => createdAt'[t] = createdAt[t]
  <2>2. CreatedOK' /\ Kept
    <3>1. ASSUME NEW t \in Fresh(triggers),
                 triggers' = [triggers EXCEPT ![t] = [status |-> "active", config |-> {}]],
                 createdAt' = [createdAt EXCEPT ![t] = now]
          PROVE  CreatedOK' /\ Kept
      <4>1. [status |-> "active", config |-> {}] \in TriggerRow
        BY DEF TriggerRow
      <4>2. triggers[t].status = "unused"
        BY DEF Fresh
      <4> QED BY <3>1, <4>1, <4>2 DEF CreatedOK, HistoryOK, TriggerExists
    <3>2. ASSUME NEW t \in TriggerIds, NEW status \in {"active", "inactive"},
                 UpdateTrigger(c, t, status, Null, "ok"), createdAt' = createdAt
          PROVE  CreatedOK' /\ Kept
      <4>1. CASE UNCHANGED triggers
        BY <3>2, <4>1 DEF CreatedOK
      <4> DEFINE row == [status |-> IF status = Null THEN triggers[t].status ELSE status,
                         config |-> IF Null = Null THEN triggers[t].config ELSE Null]
      <4>2. CASE triggers' = [triggers EXCEPT ![t] = row]
        <5>1. status # Null /\ triggers[t] \in TriggerRow
          BY StorageAssumption DEF CreatedOK
        <5>2. row \in TriggerRow
          BY <5>1 DEF TriggerRow
        <5> HIDE DEF row
        <5> QED BY <3>2, <4>2, <5>2 DEF CreatedOK
      <4> QED BY <3>2, <4>1, <4>2 DEF UpdateTrigger
    <3>3. ASSUME NEW t \in TriggerIds, createdAt' = [createdAt EXCEPT ![t] = 0],
                 triggers' = [triggers EXCEPT ![t].status = "deleted"]
          PROVE  CreatedOK' /\ Kept
      <4>1. triggers[t] \in TriggerRow /\ 0 \in 0..MaxTime
        BY StorageAssumption DEF CreatedOK
      <4>2. [triggers[t] EXCEPT !.status = "deleted"] \in TriggerRow
        BY <4>1 DEF TriggerRow
      <4>3. triggers'[t].status = "deleted"
        BY <3>3, <4>1 DEF CreatedOK, TriggerRow
      <4> QED BY <3>3, <4>1, <4>2, <4>3 DEF CreatedOK, TriggerExists
    <3> QED BY <1>3, <3>1, <3>2, <3>3
        DEF RequestStep, CreateTrigger, DeleteTrigger, historyVars
  <2> QED BY <2>1, <2>2 DEF Rows, TriggersIn, SortKey
<1> QED BY <1>1, <1>2, <1>3
    DEF Write, ClockStep, Tick, FireTrigger, FiringStep, Return, ArchiveOldEvents,
        DeleteOldEvents, storageVars, historyVars

\* Arithmetic for a leaf about the fields of a walk.
LEMMA AtMost ==
    ASSUME NEW a \in Nat, NEW b \in Nat, NEW c \in Nat, a <= b, b <= c
    PROVE  a <= c
OBVIOUS

\* A walk that goes on over a write: nothing left ahead of a row that stays, so what is
\* ahead of a row without ties still is.
LEMMA ObservedWalk ==
    ASSUME WalkInv, Write, Observed, HistoryOK', CreatedOK'
    PROVE  WalkOK'
<1>1. HistoryOK /\ CreatedOK /\ WalkOK /\ walk \in WalkType /\ walk.page > 0
  BY DEF WalkInv, HistoryInv, WalkOK
<1>2. CASE walk' = NoWalk
  <2> QED BY <1>2, NoWalkFacts DEF WalkOK
<1>3. ASSUME NEW q, q = walk.list, walk.pc \in {"count", "list"}, ~Shifts(q),
             ~(walk.until = "total pages" /\ Grows(q)),
             walk' = [walk EXCEPT !.missing = @ \cap Rows(q)']
      PROVE  WalkOK'
  <2>1. /\ q \in Lists /\ walk.missing \subseteq Rows(q)
        /\ \A id \in walk.missing : Alone(q, id) =>
              Cardinality(Ahead(q, id)) >= (walk.page - 1) * PageSize
        /\ walk.pc = "list" /\ walk.until = "total pages" => Cardinality(Rows(q)) <= walk.total
    BY <1>1, <1>3 DEF WalkOK
  <2>2. /\ walk' \in WalkType /\ walk'.list = q /\ walk'.pc = walk.pc
        /\ walk'.page = walk.page /\ walk'.missing = walk.missing \cap Rows(q)'
        /\ walk'.total = walk.total /\ walk'.until = walk.until
    BY <1>1, <1>3 DEF WalkType
  <2>3. \A r \in Rows(q) \cap Rows(q)' : SortKey(q)'[r] = SortKey(q)[r]
    BY <1>1, <2>1, WriteKeepsOrder
  <2>4. \A r \in Rows(q), id \in Rows(q) \cap Rows(q)' :
            SortKey(q)[r] >= SortKey(q)[id] => r \in Rows(q)'
    BY <1>3 DEF Shifts
  <2>5. \A r \in Rows(q) : SortKey(q)[r] \in Nat
    BY <1>1, <2>1, ListsAreFinite
  <2>6. ASSUME NEW id \in walk.missing \cap Rows(q)', Alone(q, id)'
        PROVE  Cardinality(Ahead(q, id)') >= (walk.page - 1) * PageSize
    <3>1. id \in Rows(q) \cap Rows(q)'
      BY <2>1, <2>6
    <3>2. Alone(q, id)
      <4>1. ASSUME NEW other \in Rows(q) \ {id}, SortKey(q)[other] = SortKey(q)[id]
            PROVE  FALSE
        <5>1. other \in Rows(q)'
          BY <2>4, <2>5, <3>1, <4>1
        <5> QED BY <2>3, <2>6, <3>1, <4>1, <5>1 DEF Alone
      <4> QED BY <4>1 DEF Alone
    <3>3. Ahead(q, id) \subseteq Ahead(q, id)'
      <4>1. ASSUME NEW r \in Rows(q), SortKey(q)[r] > SortKey(q)[id]
            PROVE  r \in Rows(q)' /\ SortKey(q)'[r] > SortKey(q)'[id]
        BY <2>3, <2>4, <2>5, <3>1, <4>1
      <4> QED BY <4>1 DEF Ahead
    <3>4. IsFiniteSet(Ahead(q, id)')
      <4>1. IsFiniteSet(Rows(q)')
        BY QueriesAssumption, FS_Subset DEF Rows, EventsIn, TriggersIn
      <4>2. Ahead(q, id)' \in SUBSET Rows(q)'
        BY DEF Ahead
      <4> QED BY <4>1, <4>2, FS_Subset
    <3>5. Cardinality(Ahead(q, id)) <= Cardinality(Ahead(q, id)')
      BY <3>3, <3>4, FS_Subset
    <3>6. Cardinality(Ahead(q, id)) >= (walk.page - 1) * PageSize
      BY <2>1, <2>6, <3>2
    <3>7. Cardinality(Ahead(q, id)) \in Nat /\ Cardinality(Ahead(q, id)') \in Nat
      BY <3>3, <3>4, FS_Subset, FS_CardinalityType
    <3> DEFINE before == Cardinality(Ahead(q, id))
               after  == Cardinality(Ahead(q, id)')
               read   == (walk.page - 1) * PageSize
    <3>8. read \in Int
      <4>1. walk.page \in Nat
        BY <1>1 DEF WalkType
      <4>2. PageSize \in Nat
        BY QueriesAssumption
      <4> QED BY <4>1, <4>2
    <3>9. before \in Int /\ after \in Int /\ before <= after /\ before >= read
      BY <3>5, <3>6, <3>7
    <3> HIDE DEF before, after, read
    <3>10. after >= read
      BY <3>8, <3>9
    <3> QED BY <3>10 DEF after, read
  <2>7. Rows(walk.list)' = Rows(q)' /\ \A id : Ahead(walk.list, id)' = Ahead(q, id)'
                                  /\ Alone(walk.list, id)' = Alone(q, id)'
    <3>1. walk'.list = q
      BY <2>2
    <3> QED BY <3>1 DEF Rows, Ahead, Alone, SortKey, EventsIn, TriggersIn
  <2>8. walk'.page > 0 /\ walk'.page - 1 = walk.page - 1
    BY <1>1, <2>2
  <2>9. /\ walk'.list \in Lists /\ walk'.missing \subseteq Rows(walk.list)'
        /\ \A id \in walk'.missing : Alone(walk.list, id)' =>
              Cardinality(Ahead(walk.list, id)') >= (walk'.page - 1) * PageSize
    BY <2>1, <2>2, <2>6, <2>7, <2>8
  <2>10. walk'.pc = "list" /\ walk'.until = "total pages" =>
            Cardinality(Rows(walk.list)') <= walk'.total
    <3> SUFFICES ASSUME walk'.pc = "list", walk'.until = "total pages"
                 PROVE  Cardinality(Rows(walk.list)') <= walk'.total
      OBVIOUS
    <3>1. walk.pc = "list" /\ walk.until = "total pages"
      BY <2>2
    <3>2. Rows(q)' \subseteq Rows(q)
      BY <1>3, <3>1 DEF Grows
    <3>3. IsFiniteSet(Rows(q))
      BY <1>1, <2>1, ListsAreFinite
    <3>4. /\ Cardinality(Rows(q)') <= Cardinality(Rows(q))
          /\ Cardinality(Rows(q)') \in Nat /\ Cardinality(Rows(q)) \in Nat
      BY <3>2, <3>3, FS_Subset, FS_CardinalityType
    <3>5. Cardinality(Rows(q)) <= walk.total /\ walk.total \in Nat
      BY <1>1, <2>1, <3>1 DEF WalkType
    <3>6. Cardinality(Rows(q)') <= walk.total
      BY <3>4, <3>5, AtMost, Zenon
    <3> QED BY <2>2, <2>7, <3>6
  <2> QED BY <1>3, <2>2, <2>8, <2>9, <2>10 DEF WalkOK
<1>4. CASE walk.pc \in {"count", "list"}
  <2>1. PICK q \in {walk.list} :
            walk' = IF Shifts(q) \/ (walk.until = "total pages" /\ Grows(q)) THEN NoWalk
                    ELSE [walk EXCEPT !.missing = @ \cap Rows(q)']
    BY <1>4 DEF Observed
  <2> QED BY <1>2, <1>3, <1>4, <2>1
<1> QED BY <1>2, <1>4 DEF Observed

----------------------------------------------------------------------------
(* What a finished walk has seen.                                          *)

\* Nothing is listed and nobody walks.
LEMMA InitWalk == Init => WalkInv
<1> SUFFICES ASSUME Init PROVE WalkInv
  OBVIOUS
<1>1. HistoryInv
  BY InitHistory
<1>2. CreatedOK
  BY StorageAssumption DEF Init, StorageInit, CreatedOK, TriggerRow
<1>3. WalkOK
  BY NoWalkFacts DEF Init, WalkOK
<1> QED BY <1>1, <1>2, <1>3 DEF WalkInv

\* One step of each kind.
LEMMA NextWalk == WalkInv /\ [Next]_vars => WalkInv'
<1> SUFFICES ASSUME WalkInv, [Next]_vars PROVE WalkInv'
  OBVIOUS
<1>1. HistoryInv'
  BY NextHistory DEF WalkInv
<1>2. HistoryOK /\ CreatedOK /\ HistoryOK'
  BY <1>1 DEF WalkInv, HistoryInv
<1>3. CASE Write /\ Observed
  <2>1. CreatedOK'
    BY <1>2, <1>3, WriteKeepsOrder
  <2>2. WalkOK'
    BY <1>2, <1>3, <2>1, ObservedWalk
  <2> QED BY <1>1, <2>1, <2>2 DEF WalkInv
<1>4. CASE CountRows \/ ListRows
  <2>1. UNCHANGED <<storageVars, historyVars>>
    BY <1>4 DEF CountRows, ListRows
  <2>2. CreatedOK'
    BY <1>2, <2>1 DEF CreatedOK, storageVars, historyVars
  <2>3. WalkOK'
    BY <1>4, CountWalk, ListWalk
  <2> QED BY <1>1, <2>2, <2>3 DEF WalkInv
<1>5. CASE UNCHANGED vars
  <2>1. CreatedOK'
    BY <1>2, <1>5 DEF CreatedOK, vars, storageVars, historyVars
  <2>2. \A l : Rows(l)' = Rows(l) /\ SortKey(l)' = SortKey(l)
    BY <1>5 DEF vars, storageVars, historyVars, Rows, SortKey, EventsIn, TriggersIn,
                EventExists, TriggerExists
  <2>3. \A l, id : Alone(l, id)' = Alone(l, id) /\ Ahead(l, id)' = Ahead(l, id)
    BY <2>2 DEF Alone, Ahead
  <2>4. walk' = walk /\ WalkOK
    BY <1>5 DEF vars, WalkInv
  <2>5. WalkOK'
    BY <2>2, <2>3, <2>4 DEF WalkOK
  <2> QED BY <1>1, <2>1, <2>5 DEF WalkInv
<1> QED BY <1>3, <1>4, <1>5 DEF Next

\* Whatever is written meanwhile, a client that pages until a page is short has seen
\* every row that was in the list all along and has a sort key of its own, if the list
\* did not shift.
THEOREM WalkComplete == Spec => []WalkIsComplete
<1>1. WalkInv => WalkIsComplete
  BY DEF WalkInv, WalkOK, WalkIsComplete
<1> QED BY <1>1, InitWalk, NextWalk, PTL DEF Spec

\* So has one that stops at total_pages, if nothing came in either: the two ways of
\* rounding up never lose the last page.
THEOREM TotalPagesSuffice == Spec => []TotalPagesAreEnough
<1>1. WalkInv => TotalPagesAreEnough
  BY DEF WalkInv, WalkOK, TotalPagesAreEnough
<1> QED BY <1>1, InitWalk, NextWalk, PTL DEF Spec

----------------------------------------------------------------------------
(* What a list loses.                                                      *)

\* The rows that leave an event list in one step are older than those that stay.
LosesTheOldest(q) ==
    \A gone \in EventsIn(q) \ EventsIn(q)', stays \in EventsIn(q) \cap EventsIn(q)' :
        firedAt[gone] < firedAt[stays]

\* The two MySQL events draw a line by age, through every list.
LEMMA RetentionTakesOldest ==
    ASSUME HistoryOK, ArchiveOldEvents \/ DeleteOldEvents, NEW q \in Lists, q.table = "events"
    PROVE  LosesTheOldest(q)
<1>1. UNCHANGED <<now, eventLogs, firedAt>>
  BY DEF ArchiveOldEvents, DeleteOldEvents, storageVars
<1>2. now \in Nat /\ \A e \in EventIds : firedAt[e] \in Nat
  BY StorageAssumption DEF HistoryOK
<1>3. q.retention \in {"active", "archived"}
  BY QueriesAssumption DEF ListType
<1> SUFFICES ASSUME NEW gone \in EventsIn(q), gone \notin EventsIn(q)',
                    NEW stays \in EventsIn(q), stays \in EventsIn(q)'
             PROVE  firedAt[gone] < firedAt[stays]
  BY DEF LosesTheOldest
<1>4. /\ gone \in EventIds /\ EventExists(gone) /\ retention[gone] = q.retention
      /\ stays \in EventIds /\ EventExists(stays) /\ retention[stays] = q.retention
      /\ EventExists(stays)' /\ retention'[stays] = q.retention
  BY DEF EventsIn
<1>5. ~(EventExists(gone)' /\ retention'[gone] = retention[gone])
  BY <1>1 DEF EventsIn
<1>6. ASSUME NEW age \in Nat, gone \in OlderThan(age), stays \notin OlderThan(age)
      PROVE  firedAt[gone] < firedAt[stays]
  BY <1>2, <1>4, <1>6 DEF OlderThan
<1>7. CASE ArchiveOldEvents
  <2>1. gone \in OlderThan(ArchiveAge) /\ retention[gone] # "archived"
    BY <1>1, <1>4, <1>5, <1>7 DEF ArchiveOldEvents, EventExists
  <2>2. stays \notin OlderThan(ArchiveAge)
    BY <1>3, <1>4, <1>7, <2>1 DEF ArchiveOldEvents
  <2> QED BY <1>6, <2>1, <2>2, QueriesAssumption
<1>8. CASE DeleteOldEvents
  <2>1. gone \in OlderThan(DeleteAge)
    BY <1>1, <1>4, <1>5, <1>8 DEF DeleteOldEvents, EventExists
  <2>2. stays \notin OlderThan(DeleteAge)
    BY <1>4, <1>8 DEF DeleteOldEvents, EventExists
  <2> QED BY <1>6, <2>1, <2>2, QueriesAssumption
<1> QED BY <1>7, <1>8

\* The INSERT of an event takes none away.
LEMMA LogTakesNone ==
    ASSUME HistoryOK, NEW c \in Callers, LogEvent(c), NEW q
    PROVE  EventsIn(q) \subseteq EventsIn(q)'
<1>1. PICK e \in Fresh(eventLogs), ok \in BOOLEAN : CreateEventLog(c, e, firing[c].trigger, Null, ok)
  BY DEF LogEvent
<1>2. e \in EventIds /\ eventLogs[e].status = "unused" /\ retention' = retention
  BY DEF Fresh, HistoryOK, LogEvent
<1> SUFFICES ASSUME NEW f \in EventsIn(q) PROVE f \in EventsIn(q)'
  OBVIOUS
<1>3. f \in EventIds /\ EventExists(f) /\ f # e
  BY <1>2 DEF EventsIn, EventExists
<1>4. eventLogs'[f] = eventLogs[f]
  BY <1>1, <1>2, <1>3 DEF CreateEventLog, HistoryOK
<1> QED BY <1>2, <1>3, <1>4 DEF EventsIn, EventExists

\* An event whose publish fails leaves the successes and no other list.
LEMMA ReturnTakesNone ==
    ASSUME HistoryOK, CallsAreShort, NEW c \in Callers, Return(c), NEW q, q.status # "success"
    PROVE  EventsIn(q) \subseteq EventsIn(q)'
<1> DEFINE e == firing[c].event
<1>1. e \in EventIds /\ retention' = retention
  BY DEF Return, CallsAreShort
<1>2. \/ eventLogs' = eventLogs
      \/ eventLogs' = [eventLogs EXCEPT ![e].status = "failure"]
  BY DEF Return, UpdateEventLogStatus
<1> SUFFICES ASSUME NEW f \in EventsIn(q) PROVE f \in EventsIn(q)'
  OBVIOUS
<1>3. /\ f \in EventIds /\ EventExists(f) /\ eventLogs[f] \in EventRow
      /\ q.status \in {Null, eventLogs[f].status} /\ q.trigger \in {Null, eventLogs[f].trigger}
      /\ retention[f] = q.retention
  BY DEF EventsIn, HistoryOK
<1>4. CASE eventLogs'[f] = eventLogs[f]
  BY <1>1, <1>3, <1>4 DEF EventsIn, EventExists
<1>5. CASE eventLogs'[f] = [eventLogs[f] EXCEPT !.status = "failure"]
  <2>1. /\ eventLogs'[f].status = "failure" /\ eventLogs'[f].trigger = eventLogs[f].trigger
        /\ eventLogs[f].status \in {"success", "failure"}
    BY <1>3, <1>5 DEF EventRow, EventExists
  <2> QED BY <1>1, <1>3, <2>1 DEF EventsIn, EventExists
<1> QED BY <1>1, <1>2, <1>3, <1>4, <1>5 DEF HistoryOK

\* The deletion of a trigger empties the list of its events and spares every other one.
LEMMA DeleteTakesAll ==
    ASSUME HistoryOK, NEW r, NEW t \in TriggerIds, DeleteTrigger(r, t), retention' = retention,
           NEW q
    PROVE  EventsIn(q)' = {} \/ EventsIn(q) \subseteq EventsIn(q)'
<1>1. eventLogs' = [e \in EventIds |->
          IF eventLogs[e].trigger = t THEN [eventLogs[e] EXCEPT !.trigger = Null] ELSE eventLogs[e]]
  BY DEF DeleteTrigger
<1>2. \A e \in EventIds :
          /\ eventLogs'[e].status = eventLogs[e].status
          /\ eventLogs'[e].trigger = IF eventLogs[e].trigger = t THEN Null ELSE eventLogs[e].trigger
  BY <1>1 DEF HistoryOK, EventRow
<1>3. CASE q.trigger = t
  BY <1>2, <1>3, StorageAssumption DEF EventsIn
<1>4. CASE q.trigger # t
  BY <1>2, <1>4 DEF EventsIn, EventExists
<1> QED BY <1>3, <1>4

\* No event list shifts: a client that pages through one, other than the successes,
\* misses no row by the rows that leave it, whichever they are: those too old, those of
\* a deleted trigger, or none.
THEOREM EventListsStay == Spec => EventListsDoNotShift
<1>1. ASSUME HistoryInv, [Next]_vars, NEW q \in Lists, q.table = "events", q.status # "success"
      PROVE  LosesTheOldest(q)
  <2>1. HistoryOK /\ CallsAreShort
    BY <1>1 DEF HistoryInv
  <2>2. CASE UNCHANGED <<eventLogs, retention>>
    BY <2>2 DEF LosesTheOldest, EventsIn, EventExists
  <2>3. ASSUME NEW c \in Callers, LogEvent(c) \/ Return(c) PROVE LosesTheOldest(q)
    BY <1>1, <2>1, <2>3, LogTakesNone, ReturnTakesNone DEF LosesTheOldest
  <2>4. ASSUME NEW r \in Requests, RequestStep(r) PROVE LosesTheOldest(q)
    <3>1. ASSUME NEW t \in TriggerIds, DeleteTrigger(r, t) PROVE LosesTheOldest(q)
      <4>1. retention' = retention
        BY <2>4 DEF RequestStep, historyVars
      <4> QED BY <2>1, <3>1, <4>1, DeleteTakesAll DEF LosesTheOldest
    <3> QED BY <2>2, <2>4, <3>1 DEF RequestStep, CreateTrigger, UpdateTrigger, historyVars
  <2>5. CASE ArchiveOldEvents \/ DeleteOldEvents
    BY <1>1, <2>1, <2>5, RetentionTakesOldest
  <2> QED BY <1>1, <2>2, <2>3, <2>4, <2>5
      DEF Next, Write, ClockStep, Tick, FireTrigger, FiringStep, CountRows, ListRows, vars,
          storageVars, historyVars
<1>2. HistoryInv /\ [Next]_vars =>
          [\A q \in Lists : q.table = "events" /\ q.status # "success" => ~Shifts(q)]_vars
  <2> SUFFICES ASSUME HistoryInv, [Next]_vars, NEW q \in Lists,
                      q.table = "events", q.status # "success"
               PROVE  ~Shifts(q)
    OBVIOUS
  <2>1. LosesTheOldest(q)
    BY <1>1
  <2>2. \A e \in EventIds : firedAt[e] \in Nat
    BY StorageAssumption DEF HistoryInv, HistoryOK
  <2>3. EventsIn(q) \subseteq EventIds
    BY DEF EventsIn
  <2> QED BY <2>1, <2>2, <2>3 DEF Shifts, Rows, SortKey, LosesTheOldest
<1> QED BY <1>2, InitHistory, NextHistory, PTL DEF Spec, EventListsDoNotShift

----------------------------------------------------------------------------
(* Types.                                                                  *)

\* The part of the tables that no list shows.
RestOK ==
    /\ schedules \in [ScheduleIds -> ScheduleRow]
    /\ cancelled \subseteq Contexts

\* A deleted trigger takes its schedules along; nothing else here touches one.
LEMMA NextRest == RestOK /\ [Next]_vars => RestOK'
<1> SUFFICES ASSUME RestOK, [Next]_vars PROVE RestOK'
  OBVIOUS
<1> USE DEF storageVars, historyVars
<1>1. CASE UNCHANGED <<schedules, cancelled>>
  BY <1>1 DEF RestOK
<1>2. ASSUME NEW r \in Requests, RequestStep(r) PROVE RestOK'
  <2>1. ASSUME NEW t \in TriggerIds, DeleteTrigger(r, t), UNCHANGED cancelled
        PROVE  RestOK'
    <3>1. \A s \in ScheduleIds : [schedules[s] EXCEPT !.status = "deleted"] \in ScheduleRow
      BY DEF RestOK, ScheduleRow
    <3> QED BY <2>1, <3>1 DEF RestOK, DeleteTrigger
  <2>2. CASE UNCHANGED <<schedules, cancelled>>
    BY <1>1, <2>2
  <2> QED BY <1>2, <2>1, <2>2 DEF RequestStep, CreateTrigger
<1> QED BY <1>1, <1>2
    DEF Next, Write, ClockStep, Tick, FireTrigger, FiringStep, LogEvent, Return,
        ArchiveOldEvents, DeleteOldEvents, CountRows, ListRows, vars

\* Tables, calls and walks keep their types, and every fired_at and created_at is an
\* instant of the clock, whatever fails.
THEOREM TypeCorrect == Spec => []TypeOK
<1>1. Init => RestOK
  BY DEF Init, StorageInit, RestOK, ScheduleRow
<1>2. WalkInv /\ RestOK => TypeOK
  BY DEF WalkInv, HistoryInv, HistoryOK, CreatedOK, WalkOK, RestOK, TypeOK, StorageTypeOK
<1> QED BY <1>1, <1>2, InitWalk, NextWalk, NextRest, PTL DEF Spec
============================================================================
