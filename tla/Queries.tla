------------------------------- MODULE Queries -------------------------------
(***************************************************************************)
(* The history that clients read: the list and lookup queries of the API   *)
(* (GET /events, /events/{id}, /triggers), the two MySQL events that age   *)
(* event_logs, and a client that pages through a list while triggers fire, *)
(* come and go, and rows grow old.                                         *)
(*                                                                         *)
(* The writers are the statements of FireTrigger, whoever calls it, and of *)
(* the management API that change what is listed.                          *)
(***************************************************************************)
EXTENDS Storage

CONSTANTS
    ArchiveAge, \* 2 hours
    DeleteAge,  \* 48 hours
    PageSize,   \* the limit of the queries, once defaulted and capped
    Lists       \* the lists that clients page through

ListType ==
    [table : {"events"}, retention : {"active", "archived"},
     status : {Null, "success", "failure"}, trigger : {Null} \cup TriggerIds]
    \cup [table : {"triggers"}, status : {Null, "active", "inactive"}]

\* The columns of an event that a property looks at.
EventType == [status : {"success", "failure"}, trigger : TriggerIds \cup {Null},
              retention : {"active", "archived"}]

ASSUME QueriesAssumption ==
    /\ ArchiveAge \in Nat \ {0}
    /\ DeleteAge \in Nat /\ DeleteAge > ArchiveAge
    /\ PageSize \in Nat \ {0}
    /\ Lists \subseteq ListType
    /\ Null \notin EventType
    /\ IsFiniteSet(EventIds) /\ IsFiniteSet(TriggerIds)

VARIABLES
    firing,    \* the FireTrigger calls under way: before the INSERT, or after it
    firedAt,   \* event_logs.fired_at
    retention, \* event_logs.retention_status; "deleted" stands for a row that is gone
    createdAt, \* triggers.created_at
    walk       \* the client that pages through a list

historyVars == <<firing, firedAt, retention, createdAt>>
vars == <<storageVars, historyVars, walk>>

\* A walk goes from page to page, by one COUNT and one SELECT each.  missing is what
\* it is owed: the rows that have been in the list all along and on no page yet.
WalkType == [pc      : {"idle", "count", "list", "done"},
             list    : Lists \cup {Null},
             until   : {"short page", "total pages"},
             page    : Nat,
             total   : Nat,
             missing : SUBSET (EventIds \cup TriggerIds)]

NoWalk == [pc |-> "idle", list |-> Null, until |-> "short page", page |-> 1,
           total |-> 0, missing |-> {}]

\* A call knows when it began, which becomes the fired_at of its event.
Callers == Schedulers \cup Hooks
CallType == [pc : {"none", "insert", "publish"}, trigger : TriggerIds \cup {Null},
             event : EventIds \cup {Null}, began : 0..MaxTime]
NoCall == [pc |-> "none", trigger |-> Null, event |-> Null, began |-> 0]

Init ==
    /\ StorageInit
    /\ firing = [c \in Callers |-> NoCall]
    /\ firedAt = [e \in EventIds |-> 0]
    /\ retention = [e \in EventIds |-> "active"]
    /\ createdAt = [t \in TriggerIds |-> 0]
    /\ walk = NoWalk

EventExists(e) == eventLogs[e].status # "unused" /\ retention[e] # "deleted"

----------------------------------------------------------------------------
(* The queries.                                                            *)

\* SELECT ... WHERE id = ?
GetEventLog(e) ==
    IF EventExists(e)
    THEN [status |-> eventLogs[e].status, trigger |-> eventLogs[e].trigger,
          retention |-> retention[e]]
    ELSE Null

\* The WHERE clause of ListEventLogs.  (The one on source selects a fixed part of
\* the rows, as does the one on the type of the triggers.)
EventsIn(q) == {e \in EventIds : /\ EventExists(e)
                                 /\ retention[e] = q.retention
                                 /\ q.trigger \in {Null, eventLogs[e].trigger}
                                 /\ q.status \in {Null, eventLogs[e].status}}

\* The WHERE clause of ListTriggers.
TriggersIn(q) == {t \in TriggerIds : /\ TriggerExists(t)
                                     /\ q.status \in {Null, triggers[t].status}}

Rows(q) == IF q.table = "events" THEN EventsIn(q) ELSE TriggersIn(q)
SortKey(q) == IF q.table = "events" THEN firedAt ELSE createdAt

\* Mutant: ORDER BY ... ASC.
OldestFirst(rows, at, n) ==
    {top \in SUBSET rows : /\ Cardinality(top) = IF n < Cardinality(rows)
                                                  THEN n ELSE Cardinality(rows)
                           /\ \A r \in top, s \in rows \ top : at[r] <= at[s]}

\* What the first n rows in ORDER BY ... DESC may be: rows of the same second come
\* in any order, and in another one the next time.
NewestFirst(rows, at, n) ==
    {top \in SUBSET rows : /\ Cardinality(top) = IF n < Cardinality(rows)
                                                  THEN n ELSE Cardinality(rows)
                           /\ \A r \in top, s \in rows \ top : at[r] >= at[s]}

\* LIMIT PageSize OFFSET (page - 1) * PageSize.
Pages(q, page) ==
    {tops[2] \ tops[1] : tops \in
        {pair \in NewestFirst(Rows(q), SortKey(q), (page - 1) * PageSize)
                  \X NewestFirst(Rows(q), SortKey(q), page * PageSize) :
            pair[1] \subseteq pair[2]}}

\* Mutant: off by one.
PagesAfterFirst(q, total) == IF total > 0 THEN (total - 1) \div PageSize ELSE 0

\* total_pages, which the two services compute in two ways.
TotalPages(q, total) ==
    IF q.table = "events"
    THEN total \div PageSize + IF total % PageSize # 0 THEN 1 ELSE 0
    ELSE IF total > 0 THEN (total + PageSize - 1) \div PageSize ELSE 0

----------------------------------------------------------------------------
(* A client's walk.                                                        *)

\* The COUNT of a request; a client that goes on until a page is short need not
\* look at it.
CountRows ==
    /\ \/ /\ walk.pc \in {"idle", "done"}
          /\ \E q \in Lists :
                \/ walk' = [NoWalk EXCEPT !.pc = "list", !.list = q, !.missing = Rows(q)]
                \/ walk' = [NoWalk EXCEPT !.pc = "list", !.list = q, !.missing = Rows(q),
                                          !.until = "total pages", !.total = Cardinality(Rows(q))]
       \/ /\ walk.pc = "count"
          /\ walk' = [walk EXCEPT !.pc = "list", !.total = Cardinality(Rows(walk.list))]
    /\ UNCHANGED <<storageVars, historyVars>>

\* Its SELECT.  The client asks for the next page, unless this one was short or
\* was the last of total_pages.
ListRows ==
    /\ walk.pc = "list"
    /\ \E rows \in Pages(walk.list, walk.page) :
          LET short == Cardinality(rows) < PageSize
              last  == walk.page >= TotalPages(walk.list, walk.total)
              then  == [walk EXCEPT !.missing = @ \ rows, !.total = 0]
          IN  walk' = CASE walk.until = "short page" /\ ~short -> [then EXCEPT !.page = @ + 1]
                        [] walk.until = "total pages" /\ ~last ->
                              [then EXCEPT !.page = @ + 1, !.pc = "count"]
                        [] OTHER -> [then EXCEPT !.page = 1, !.pc = "done"]
    /\ UNCHANGED <<storageVars, historyVars>>

\* The list loses a row ahead of, or level with, one that stays: the rows behind
\* move up, past a client that is between two pages.
Shifts(q) ==
    LET before == Rows(q)
        after  == Rows(q)'
    IN  \E gone \in before \ after, stays \in before \cap after :
            SortKey(q)[gone] >= SortKey(q)[stays]

Grows(q) == ~(Rows(q)' \subseteq Rows(q))

\* What any other step means for the walk under way.  One that is over is forgotten,
\* and so is one that need not be complete any more.
Observed ==
    \/ /\ walk.pc \in {"idle", "done"}
       /\ walk' = NoWalk
    \/ /\ walk.pc \in {"count", "list"}
       /\ \E q \in {walk.list} :
             walk' = IF Shifts(q) \/ (walk.until = "total pages" /\ Grows(q)) THEN NoWalk
                     ELSE [walk EXCEPT !.missing = @ \cap Rows(q)']

----------------------------------------------------------------------------
(* The writers.                                                            *)

\* Bound: no call lasts as long as ArchiveAge (a publish takes ten seconds at most).
ClockStep ==
    /\ \A c \in Callers : firing[c].pc # "none" => now - firing[c].began < ArchiveAge
    /\ Tick
    /\ UNCHANGED historyVars

\* Bound: an event id is left for this call and for every call before its INSERT.
IdLeft == Cardinality({e \in EventIds : eventLogs[e].status = "unused"})
              > Cardinality({c \in Callers : firing[c].pc = "insert"})

\* A webhook or the engine fires an active trigger.
FireTrigger(c) ==
    /\ firing[c].pc = "none" /\ IdLeft
    /\ \E t \in TriggerIds :
          /\ triggers[t].status = "active"
          /\ firing' = [firing EXCEPT ![c] = [NoCall EXCEPT !.pc = "insert", !.trigger = t,
                                                           !.began = now]]
    /\ UNCHANGED <<storageVars, firedAt, retention, createdAt>>

\* The INSERT, with the fired_at taken before.
LogEvent(c) ==
    /\ firing[c].pc = "insert"
    /\ \E e \in Fresh(eventLogs), ok \in BOOLEAN :
          /\ CreateEventLog(c, e, firing[c].trigger, Null, ok)
          /\ firing' = [firing EXCEPT ![c] =
                IF ok THEN [@ EXCEPT !.pc = "publish", !.event = e] ELSE NoCall]
          /\ firedAt' = IF eventLogs' = eventLogs THEN firedAt
                        ELSE [firedAt EXCEPT ![e] = firing[c].began]
    /\ UNCHANGED <<now, triggers, schedules, cancelled, retention, createdAt>>

\* The publish succeeds, or fails and the event is marked a failure.
Return(c) ==
    /\ firing[c].pc = "publish"
    /\ \/ UNCHANGED eventLogs
       \/ "kafka" \in Faults /\ UpdateEventLogStatus(c, firing[c].event, "failure")
    /\ firing' = [firing EXCEPT ![c] = NoCall]
    /\ UNCHANGED <<now, triggers, schedules, cancelled, firedAt, retention, createdAt>>

FiringStep(c) == LogEvent(c) \/ Return(c)

\* POST, PUT of a status, DELETE: the statement of each.  created_at is set by MySQL.
RequestStep(r) ==
    \/ \E t \in Fresh(triggers) :
          /\ TypeOf[t] = "webhook" /\ CreateTrigger(r, t, {}, Null)
          /\ createdAt' = [createdAt EXCEPT ![t] = now]
          /\ UNCHANGED <<now, eventLogs, cancelled, firing, firedAt, retention>>
    \/ \E t \in TriggerIds, status \in {"active", "inactive"} :
          /\ status # triggers[t].status /\ UpdateTrigger(r, t, status, Null, "ok")
          /\ UNCHANGED <<now, schedules, eventLogs, cancelled, historyVars>>
    \/ \E t \in TriggerIds :
          /\ DeleteTrigger(r, t)
          /\ createdAt' = [createdAt EXCEPT ![t] = 0]
          /\ UNCHANGED <<now, cancelled, firing, firedAt, retention>>

\* Mutant: <= for <.
NotYounger(age) == {e \in EventIds : EventExists(e) /\ firedAt[e] + age <= now}

\* Rows of more than the age given.
OlderThan(age) == {e \in EventIds : EventExists(e) /\ firedAt[e] + age < now}

\* Mutant: one row at a time, any of them.
ArchiveOneEvent ==
    /\ \E e \in OlderThan(ArchiveAge) :
          /\ retention[e] = "active"
          /\ retention' = [retention EXCEPT ![e] = "archived"]
    /\ UNCHANGED <<storageVars, firing, firedAt, createdAt>>

\* archive_old_events, every five minutes.
ArchiveOldEvents ==
    /\ \E e \in OlderThan(ArchiveAge) : retention[e] = "active"
    /\ retention' = [e \in EventIds |->
          IF e \in OlderThan(ArchiveAge) THEN "archived" ELSE retention[e]]
    /\ UNCHANGED <<storageVars, firing, firedAt, createdAt>>

\* Mutant: the age of the archive.
DeleteArchivedAge ==
    /\ OlderThan(ArchiveAge) # {}
    /\ retention' = [e \in EventIds |->
          IF e \in OlderThan(ArchiveAge) THEN "deleted" ELSE retention[e]]
    /\ UNCHANGED <<storageVars, firing, firedAt, createdAt>>

\* delete_old_events, every ten minutes: archived or not.
DeleteOldEvents ==
    /\ OlderThan(DeleteAge) # {}
    /\ retention' = [e \in EventIds |->
          IF e \in OlderThan(DeleteAge) THEN "deleted" ELSE retention[e]]
    /\ UNCHANGED <<storageVars, firing, firedAt, createdAt>>

Write ==
    \/ ClockStep
    \/ \E c \in Callers  : FireTrigger(c) \/ FiringStep(c)
    \/ \E r \in Requests : RequestStep(r)
    \/ ArchiveOldEvents
    \/ DeleteOldEvents

Next ==
    \/ Write /\ Observed
    \/ CountRows
    \/ ListRows

Spec == Init /\ [][Next]_vars

----------------------------------------------------------------------------
(* Properties.                                                             *)

TypeOK ==
    /\ StorageTypeOK
    /\ firing \in [Callers -> CallType]
    /\ firedAt \in [EventIds -> 0..MaxTime]
    /\ retention \in [EventIds -> {"active", "archived", "deleted"}]
    /\ createdAt \in [TriggerIds -> 0..MaxTime]
    /\ walk \in WalkType

\* No other row of the list has the same sort key.
Alone(q, id) == \A other \in Rows(q) \ {id} : SortKey(q)[other] # SortKey(q)[id]

\* A client that asks for page after page until one is short has seen every row that
\* was in the list all along, whatever came in meanwhile, if no row left it ahead of
\* one that stayed and ties do not move the row.
WalkIsComplete ==
    walk.pc = "done" /\ walk.until = "short page" =>
        \A id \in walk.missing : ~Alone(walk.list, id)

\* So has a client that trusts total_pages, if no row came in either (one that comes
\* in between the COUNT and the SELECT makes it miss another).
TotalPagesAreEnough ==
    walk.pc = "done" /\ walk.until = "total pages" =>
        \A id \in walk.missing : ~Alone(walk.list, id)

\* An event list does not shift: retention takes the oldest rows, and the deletion of a
\* trigger all it had.  (A list of successes loses the events whose publish fails.)
EventListsDoNotShift ==
    [][\A q \in Lists : q.table = "events" /\ q.status # "success" => ~Shifts(q)]_vars

\* An event is found by its id until it is 48 hours old, and listed as active until it
\* is two hours old, whatever becomes of its trigger.
HistoryIsKept ==
    \A e \in EventIds : eventLogs[e].status # "unused" =>
        /\ firedAt[e] + DeleteAge >= now => GetEventLog(e) # Null
        /\ firedAt[e] + ArchiveAge >= now => GetEventLog(e).retention = "active"

\* The archive is the older part of the log: no event is archived ahead of an older
\* one, and none comes in behind the archive.
ArchiveIsOlder ==
    \A e, f \in EventIds :
        /\ EventExists(e) /\ retention[e] = "archived"
        /\ EventExists(f) /\ retention[f] = "active"
        => firedAt[e] < firedAt[f]
============================================================================
