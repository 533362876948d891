------------------------------- MODULE Engine -------------------------------
(***************************************************************************)
(* internal/scheduler.Engine: the polling loop of a scheduler process p.   *)
(* The engine acts on the batch of rows it read, not on the tables: between*)
(* the poll and the steps for a row anything may happen to that row.       *)
(***************************************************************************)
EXTENDS EventService

CONSTANTS
    MaxRetries, \* maxRetries, 5 in the code
    BatchLimit  \* the limit of a poll, 100 in the code

ASSUME EngineAssumption ==
    /\ MaxRetries \in Nat \ {0}
    /\ BatchLimit \in Nat \ {0}

VARIABLES
    pc,    \* "ready": between two rows; "firing": in FireTrigger;
           \* "finish": before the step the trigger's type calls for
    batch, \* the rows of the poll still to be processed
    item   \* the row being processed

engineVars == <<pc, batch, item>>

SnapshotType == [schedule : ScheduleIds, trigger : TriggerIds, fireAt : Nat,
                 attempts : Nat, config : Configs \cup {{}}]

EngineTypeOK ==
    /\ pc \in [Schedulers -> {"ready", "firing", "finish"}]
    /\ batch \in [Schedulers -> SUBSET SnapshotType]
    /\ item \in [Schedulers -> SnapshotType \cup {Null}]

EngineInit ==
    /\ pc = [p \in Schedulers |-> "ready"]
    /\ batch = [p \in Schedulers |-> {}]
    /\ item = [p \in Schedulers |-> Null]

\* processSchedule returns; the loop goes on with the next row of the batch.
NextRow(p) ==
    /\ pc' = [pc EXCEPT ![p] = "ready"]
    /\ item' = [item EXCEPT ![p] = Null]

----------------------------------------------------------------------------
\* A tick of the loop.  A failed query changes nothing.
Poll(p) ==
    /\ pc[p] = "ready" /\ batch[p] = {}
    /\ p \notin cancelled
    /\ \E rows \in GetDueSchedules(BatchLimit) :
          rows # {} /\ batch' = [batch EXCEPT ![p] = rows]
    /\ UNCHANGED <<storageVars, eventVars, pc, item>>

\* The oldest row of the batch is marked; on an error it is skipped.
MarkProcessing(p) ==
    /\ pc[p] = "ready"
    /\ \E row \in batch[p], ok \in BOOLEAN :
          /\ \A r \in batch[p] : row.fireAt <= r.fireAt
          /\ UpdateScheduleStatus(p, row.schedule, "processing", ok)
          /\ batch' = [batch EXCEPT ![p] = @ \ {row}]
          /\ IF ok
             THEN /\ pc' = [pc EXCEPT ![p] = "firing"]
                  /\ item' = [item EXCEPT ![p] = row]
                  /\ FireTrigger(p, row.trigger, row.schedule)
             ELSE UNCHANGED <<pc, item, call>>
    /\ UNCHANGED <<now, triggers, eventLogs, cancelled, topic>>

\* Mutant: the attempt count is taken for the number of the attempt, and incremented again.
AttemptsAhead(p) == item[p].attempts + 2

\* currentAttempts, from the attempt count the poll read.
Attempts(p) == item[p].attempts + 1

FireFailed(p) == pc[p] = "firing" /\ call[p].pc = "failed"

\* Mutant: one retry more.
RetryOnceMore(p) ==
    /\ FireFailed(p) /\ Attempts(p) <= MaxRetries
    /\ RevertScheduleToPending(p, item[p].schedule)
    /\ Return(p) /\ NextRow(p)
    /\ UNCHANGED <<now, triggers, eventLogs, cancelled, topic, batch>>

\* Mutant: the failed schedule is not put back.
RetryForgotten(p) ==
    /\ FireFailed(p) /\ Attempts(p) < MaxRetries
    /\ Return(p) /\ NextRow(p)
    /\ UNCHANGED <<storageVars, topic, batch>>

\* Mutant: no return after the schedule is put back.
RetryAndFinish(p) ==
    /\ FireFailed(p) /\ Attempts(p) < MaxRetries
    /\ RevertScheduleToPending(p, item[p].schedule)
    /\ pc' = [pc EXCEPT ![p] = "finish"] /\ Return(p)
    /\ UNCHANGED <<now, triggers, eventLogs, cancelled, topic, batch, item>>

RetryLater(p) ==
    /\ FireFailed(p) /\ Attempts(p) < MaxRetries
    /\ RevertScheduleToPending(p, item[p].schedule)
    /\ Return(p) /\ NextRow(p)
    /\ UNCHANGED <<now, triggers, eventLogs, cancelled, topic, batch>>

\* Mutant: the schedule is not given up in the table.
GiveUpSilently(p) ==
    /\ FireFailed(p) /\ Attempts(p) >= MaxRetries
    /\ Return(p) /\ NextRow(p)
    /\ UNCHANGED <<storageVars, topic, batch>>

\* No next schedule is created on this path.
CancelAfterMaxRetries(p) ==
    /\ FireFailed(p) /\ Attempts(p) >= MaxRetries
    /\ \E ok \in BOOLEAN :
          UpdateScheduleStatus(p, item[p].schedule, "cancelled", ok)
    /\ Return(p) /\ NextRow(p)
    /\ UNCHANGED <<now, triggers, eventLogs, cancelled, topic, batch>>

Complete(p) ==
    /\ pc[p] = "firing" /\ call[p].pc = "ok"
    /\ \E ok \in BOOLEAN :
          /\ UpdateScheduleStatus(p, item[p].schedule, "completed", ok)
          /\ IF ok THEN pc' = [pc EXCEPT ![p] = "finish"] /\ UNCHANGED item
                   ELSE NextRow(p)
    /\ Return(p)
    /\ UNCHANGED <<now, triggers, eventLogs, cancelled, topic, batch>>

DeactivateOneTime(p) ==
    /\ pc[p] = "finish" /\ TypeOf[item[p].trigger] = "time_scheduled"
    /\ DeactivateTrigger(p, item[p].trigger)
    /\ NextRow(p)
    /\ UNCHANGED <<now, schedules, eventLogs, cancelled, eventVars, batch>>

\* createNextSchedule, with the config the poll read.  The status the poll read
\* is always "active", so the test on it in the code never fails.
ScheduleNextRun(p) ==
    /\ pc[p] = "finish" /\ TypeOf[item[p].trigger] = "cron_scheduled"
    /\ CreateNextSchedule(p, item[p].trigger, NextFireTime(item[p].config, now))
    /\ NextRow(p)
    /\ UNCHANGED <<now, triggers, eventLogs, cancelled, eventVars, batch>>

----------------------------------------------------------------------------
\* SIGTERM cancels the context of Run.  Everything under way goes on, with a
\* context no statement and no publish accepts, until the loop sees it.
Shutdown(p) ==
    /\ "shutdown" \in Faults
    /\ p \notin cancelled
    /\ cancelled' = cancelled \cup {p}
    /\ UNCHANGED <<now, triggers, schedules, eventLogs, eventVars, engineVars>>

\* Run has returned, and the process is started again.
Restart(p) ==
    /\ p \in cancelled
    /\ pc[p] = "ready" /\ batch[p] = {}
    /\ cancelled' = cancelled \ {p}
    /\ UNCHANGED <<now, triggers, schedules, eventLogs, eventVars, engineVars>>

\* The process dies at any point and is started again.
Crash(p) ==
    /\ "crash" \in Faults
    /\ cancelled' = cancelled \ {p}
    /\ Return(p)
    /\ NextRow(p)
    /\ batch' = [batch EXCEPT ![p] = {}]
    /\ UNCHANGED <<now, triggers, schedules, eventLogs, topic>>
============================================================================
