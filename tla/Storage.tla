------------------------------ MODULE Storage ------------------------------
(***************************************************************************)
(* internal/storage: the three MySQL tables and the statements the Go      *)
(* client runs on them.  A statement, or a transaction, is one atomic      *)
(* step.  An operator below named after a Go method says how the tables    *)
(* may change when a process calls it under its context c, and what the    *)
(* caller is told; it constrains only the tables it writes.                *)
(*                                                                         *)
(* A table is a function from the ids (uuids, never used twice) to rows;   *)
(* a row not inserted yet is "unused", a deleted one keeps its content as  *)
(* history under the status "deleted".                                     *)
(***************************************************************************)
EXTENDS Integers, FiniteSets

CONSTANTS
    TriggerIds, ScheduleIds, EventIds, \* the uuids that may be drawn
    TypeOf,     \* the type of the trigger an id is drawn for
    Configs,    \* configs: the instants a run_at or a cron expression matches
    MaxTime,    \* bound: the clock stops here
    Schedulers, \* scheduler processes
    Requests,   \* management requests of the API in flight at a time
    Hooks,      \* webhook requests in flight at a time
    Faults,     \* what the environment may do
    Null        \* SQL NULL, and "none" in a process's locals

TriggerTypes == {"webhook", "time_scheduled", "cron_scheduled"}
FaultKinds == {"db", "kafka",            \* a statement or a publish fails
               "crash", "shutdown",      \* of a scheduler
               "apicrash", "apishutdown", \* of the API process
               "disconnect"}             \* of a client

Contexts == Schedulers \cup Requests \cup Hooks

ASSUME StorageAssumption ==
    /\ TypeOf \in [TriggerIds -> TriggerTypes]
    /\ Configs \subseteq SUBSET Nat
    /\ \A u \in Configs : IsFiniteSet(u)
    /\ MaxTime \in Nat
    /\ Schedulers \cap Requests = {}
    /\ Schedulers \cap Hooks = {}
    /\ Requests \cap Hooks = {}
    /\ Faults \subseteq FaultKinds
    /\ Null \notin TriggerIds
    /\ Null \notin ScheduleIds
    /\ Null \notin EventIds
    /\ Null \notin Configs
    /\ Null \notin Nat
    /\ Null \notin {"active", "inactive"}

VARIABLES
    now,       \* NOW() and time.Now(): one clock, without skew
    triggers,  \* table triggers
    schedules, \* table trigger_schedules
    eventLogs, \* table event_logs
    cancelled  \* the contexts that have been cancelled

storageVars == <<now, triggers, schedules, eventLogs, cancelled>>

TriggerRow == [status : {"unused", "active", "inactive", "deleted"},
               config : Configs \cup {{}}]

ScheduleRow == [trigger  : TriggerIds \cup {Null},
                fireAt   : Nat,
                status   : {"unused", "pending", "processing", "completed",
                            "cancelled", "deleted"},
                attempts : Nat]

\* schedule is history (the table has no such column): what the event is for.
EventRow == [status   : {"unused", "success", "failure"},
             trigger  : TriggerIds \cup {Null},
             schedule : ScheduleIds \cup {Null}]

StorageTypeOK ==
    /\ now \in 0..MaxTime
    /\ triggers \in [TriggerIds -> TriggerRow]
    /\ schedules \in [ScheduleIds -> ScheduleRow]
    /\ eventLogs \in [EventIds -> EventRow]
    /\ cancelled \subseteq Contexts

StorageInit ==
    /\ now = 0
    /\ triggers = [t \in TriggerIds |-> [status |-> "unused", config |-> {}]]
    /\ schedules = [s \in ScheduleIds |-> [trigger |-> Null, fireAt |-> 0,
                                           status |-> "unused", attempts |-> 0]]
    /\ eventLogs = [e \in EventIds |-> [status |-> "unused", trigger |-> Null,
                                        schedule |-> Null]]
    /\ cancelled = {}

TriggerExists(t) == triggers[t].status \in {"active", "inactive"}
ScheduleExists(s) == schedules[s].status \notin {"unused", "deleted"}
IsLive(s) == schedules[s].status \in {"pending", "processing"}
SchedulesOf(t) == {s \in ScheduleIds : schedules[s].trigger = t}

\* uuid.New(): an id not used before.  Which one makes no difference; the set
\* is empty when the bounded supply has run out.
Fresh(table) ==
    LET unused == {id \in DOMAIN table : table[id].status = "unused"}
    IN  IF unused = {} THEN {} ELSE {CHOOSE id \in unused : TRUE}

----------------------------------------------------------------------------
(* What may happen to a statement sent under the context c.                *)

\* It runs; the caller misses the answer when the connection breaks.
Runs(c, ok) == c \notin cancelled /\ (ok \/ "db" \in Faults)

\* It does not run and the caller gets an error: database/sql refuses a
\* cancelled context, and the connection may break before the server has it.
Refused(c, ok) == ~ok /\ (c \in cancelled \/ "db" \in Faults)

----------------------------------------------------------------------------
(* Time.                                                                   *)

Tick == /\ now < MaxTime
        /\ now' = now + 1
        /\ UNCHANGED <<triggers, schedules, eventLogs, cancelled>>

\* Mutant: `from' itself counts as the next time.
NextFireTimeNotAfter(config, from) ==
    LET later == {u \in config : u >= from}
        least == {u \in later : \A v \in later : u <= v}
    IN  IF least = {} THEN Null ELSE CHOOSE u \in least : TRUE

\* CalculateNextFireTime: the first matching instant strictly after `from', or
\* Null, the zero time cron.Schedule.Next returns when there is none.
NextFireTime(config, from) ==
    LET later == {u \in config : u > from}
        least == {u \in later : \A v \in later : u <= v}
    IN  IF least = {} THEN Null ELSE CHOOSE u \in least : TRUE

----------------------------------------------------------------------------
(* Statements on trigger_schedules.                                        *)

NewSchedule(t, at) == [trigger |-> t, fireAt |-> at, status |-> "pending",
                       attempts |-> 0]

DueRows == {s \in ScheduleIds : /\ schedules[s].fireAt <= now
                                /\ schedules[s].status = "pending"
                                /\ triggers[schedules[s].trigger].status = "active"}

\* ScheduleWithTrigger: the columns the engine goes on to use.
Snapshot(s) == [schedule |-> s,
                trigger  |-> schedules[s].trigger,
                fireAt   |-> schedules[s].fireAt,
                attempts |-> schedules[s].attempts,
                config   |-> triggers[schedules[s].trigger].config]

\* The result sets ORDER BY fire_at LIMIT may return: rows due at the same
\* instant come in any order.
GetDueSchedules(limit) ==
    {{Snapshot(s) : s \in rows} : rows \in
        {chosen \in SUBSET DueRows :
            /\ Cardinality(chosen) <= limit
            /\ chosen # DueRows => Cardinality(chosen) = limit
            /\ \A s \in chosen, r \in DueRows \ chosen :
                    schedules[s].fireAt <= schedules[r].fireAt}}

\* Mutant: the result of the statement is not checked.
UpdateScheduleStatusUnchecked(c, s, status, ok) ==
    \/ /\ Runs(c, ok) /\ ScheduleExists(s)
       /\ schedules' = [schedules EXCEPT ![s].status = status]
    \/ /\ Refused(c, FALSE) \/ ~ScheduleExists(s)
       /\ UNCHANGED schedules

\* Unconditional on the old status.  A row found but not changed (same status,
\* and updated_at within the same second) is reported as "schedule not found".
UpdateScheduleStatus(c, s, status, ok) ==
    \/ /\ Runs(c, ok) /\ ScheduleExists(s)
       /\ schedules' = [schedules EXCEPT ![s].status = status]
    \/ /\ \/ Refused(c, ok)
          \/ ~ok /\ (~ScheduleExists(s) \/ schedules[s].status = status)
       /\ UNCHANGED schedules

\* Mutant: the attempt is not counted.
RevertScheduleToPendingUncounted(c, s) ==
    \/ /\ Runs(c, TRUE) /\ ScheduleExists(s)
       /\ schedules' = [schedules EXCEPT ![s].status = "pending"]
    \/ /\ Refused(c, FALSE) \/ ~ScheduleExists(s)
       /\ UNCHANGED schedules

RevertScheduleToPending(c, s) ==
    \/ /\ Runs(c, TRUE) /\ ScheduleExists(s)
       /\ schedules' = [schedules EXCEPT ![s].status = "pending",
                                         ![s].attempts = @ + 1]
    \/ /\ Refused(c, FALSE) \/ ~ScheduleExists(s)
       /\ UNCHANGED schedules

\* Mutant: the zero time is stored.
CreateNextScheduleAtZero(c, t, at) ==
    \/ /\ Runs(c, TRUE) /\ TriggerExists(t)
       /\ \E s \in Fresh(schedules) :
             schedules' = [schedules EXCEPT ![s] = NewSchedule(t, at)]
    \/ /\ Refused(c, FALSE) \/ ~TriggerExists(t)
       /\ UNCHANGED schedules

\* Refused also for the zero time, which MySQL does not store in fire_at, and
\* by the foreign key when the trigger is gone.  The engine ignores the result.
CreateNextSchedule(c, t, at) ==
    \/ /\ Runs(c, TRUE) /\ TriggerExists(t) /\ at # Null
       /\ \E s \in Fresh(schedules) :
             schedules' = [schedules EXCEPT ![s] = NewSchedule(t, at)]
    \/ /\ Refused(c, FALSE) \/ ~TriggerExists(t) \/ at = Null
       /\ UNCHANGED schedules

\* Mutant: no transaction; what is cancelled stays so when the insert is refused.
UpsertTriggerScheduleInTwo(c, t, at, ok) ==
    LET withdrawn == [r \in ScheduleIds |->
                          IF r \in SchedulesOf(t) /\ IsLive(r)
                          THEN [schedules[r] EXCEPT !.status = "cancelled"]
                          ELSE schedules[r]]
    IN  \/ /\ Runs(c, ok) /\ TriggerExists(t) /\ at # Null
           /\ \E s \in Fresh(schedules) :
                 schedules' = [withdrawn EXCEPT ![s] = NewSchedule(t, at)]
        \/ /\ Refused(c, ok) \/ (~ok /\ (~TriggerExists(t) \/ at = Null))
           /\ schedules' = withdrawn

\* Mutant: without the condition on the status.
UpsertTriggerScheduleOfAll(c, t, at, ok) ==
    \/ /\ Runs(c, ok) /\ TriggerExists(t) /\ at # Null
       /\ \E s \in Fresh(schedules) :
             schedules' = [r \in ScheduleIds |->
                 IF r = s THEN NewSchedule(t, at)
                 ELSE IF r \in SchedulesOf(t)
                      THEN [schedules[r] EXCEPT !.status = "cancelled"]
                      ELSE schedules[r]]
    \/ /\ Refused(c, ok) \/ (~ok /\ (~TriggerExists(t) \/ at = Null))
       /\ UNCHANGED schedules

\* One transaction: the live schedules are cancelled and the new one inserted.
UpsertTriggerSchedule(c, t, at, ok) ==
    \/ /\ Runs(c, ok) /\ TriggerExists(t) /\ at # Null
       /\ \E s \in Fresh(schedules) :
             schedules' = [r \in ScheduleIds |->
                 IF r = s THEN NewSchedule(t, at)
                 ELSE IF r \in SchedulesOf(t) /\ IsLive(r)
                      THEN [schedules[r] EXCEPT !.status = "cancelled"]
                      ELSE schedules[r]]
    \/ /\ Refused(c, ok) \/ (~ok /\ (~TriggerExists(t) \/ at = Null))
       /\ UNCHANGED schedules

----------------------------------------------------------------------------
(* Statements on triggers.                                                 *)

\* One transaction; at is Null for a webhook, and for a cron without a next
\* time, whose schedule (and so the transaction) is refused.
CreateTrigger(c, t, config, at) ==
    /\ Runs(c, TRUE)
    /\ triggers' = [triggers EXCEPT ![t] = [status |-> "active", config |-> config]]
    /\ IF TypeOf[t] = "webhook"
       THEN UNCHANGED schedules
       ELSE /\ at # Null
            /\ \E s \in Fresh(schedules) :
                  schedules' = [schedules EXCEPT ![s] = NewSchedule(t, at)]

\* UPDATE of the columns that were sent.  result is what the caller is told:
\* a row found but not changed counts as "notfound".
UpdateTrigger(c, t, status, config, result) ==
    LET row == [status |-> IF status = Null THEN triggers[t].status ELSE status,
                config |-> IF config = Null THEN triggers[t].config ELSE config]
    IN  \/ /\ TriggerExists(t)
           /\ result \in {"ok", "error"} /\ Runs(c, result = "ok")
           /\ triggers' = [triggers EXCEPT ![t] = row]
        \/ /\ \/ result = "error" /\ Refused(c, FALSE)
              \/ /\ result = "notfound" /\ c \notin cancelled
                 /\ ~TriggerExists(t) \/ row = triggers[t]
           /\ UNCHANGED triggers

DeactivateTrigger(c, t) ==
    \/ /\ Runs(c, TRUE) /\ TriggerExists(t)
       /\ triggers' = [triggers EXCEPT ![t].status = "inactive"]
    \/ /\ Refused(c, FALSE) \/ ~TriggerExists(t)
       /\ UNCHANGED triggers

\* The foreign keys delete the schedules and clear event_logs.trigger_id.
DeleteTrigger(c, t) ==
    /\ Runs(c, TRUE) /\ TriggerExists(t)
    /\ triggers' = [triggers EXCEPT ![t].status = "deleted"]
    /\ schedules' = [s \in ScheduleIds |->
                        IF s \in SchedulesOf(t)
                        THEN [schedules[s] EXCEPT !.status = "deleted"]
                        ELSE schedules[s]]
    /\ eventLogs' = [e \in EventIds |->
                        IF eventLogs[e].trigger = t
                        THEN [eventLogs[e] EXCEPT !.trigger = Null]
                        ELSE eventLogs[e]]

----------------------------------------------------------------------------
(* Statements on event_logs.                                               *)

\* The foreign key refuses an event of a trigger that is gone.
CreateEventLog(c, e, t, s, ok) ==
    \/ /\ Runs(c, ok) /\ TriggerExists(t)
       /\ eventLogs' = [eventLogs EXCEPT ![e] =
                            [status |-> "success", trigger |-> t, schedule |-> s]]
    \/ /\ Refused(c, ok) \/ (~ok /\ ~TriggerExists(t))
       /\ UNCHANGED eventLogs

UpdateEventLogStatus(c, e, status) ==
    \/ /\ Runs(c, TRUE)
       /\ eventLogs' = [eventLogs EXCEPT ![e].status = status]
    \/ /\ Refused(c, FALSE)
       /\ UNCHANGED eventLogs
============================================================================
