--------------------------- MODULE TriggerService ---------------------------
(***************************************************************************)
(* internal/triggers.Service, the management API.  POST and DELETE come    *)
(* down to one transaction; PUT is a read, an UPDATE of the trigger and a  *)
(* transaction on its schedules, each on its own.                          *)
(***************************************************************************)
EXTENDS Storage

CONSTANTS
    Ops,  \* what the clients ask for: "create", "delete", and the fields of
          \* a PUT, "status" and "config"
    Grace \* how far in the past run_at may be: a minute

ASSUME TriggerServiceAssumption ==
    /\ Ops \subseteq {"create", "delete", "status", "config"}
    /\ Grace \in Nat

VARIABLE req \* the management request in slot r, or the outcome of the last one

Done == {"idle", "ok", "notfound", "error"}

RequestType == [pc      : Done \cup {"write", "schedule", "respond"},
                trigger : TriggerIds \cup {Null},
                status  : {Null, "active", "inactive"},
                config  : Configs \cup {Null},
                fireAt  : Nat \cup {Null}]

NoRequest == [pc |-> "idle", trigger |-> Null, status |-> Null, config |-> Null,
              fireAt |-> Null]

RequestTypeOK == req \in [Requests -> RequestType]

RequestInit == req = [r \in Requests |-> NoRequest]

\* The request goes on, or it ends, with its context.
Continue(r, pc) == req' = [req EXCEPT ![r].pc = pc] /\ UNCHANGED cancelled
Finish(r, outcome) ==
    /\ req' = [req EXCEPT ![r] = [NoRequest EXCEPT !.pc = outcome]]
    /\ cancelled' = cancelled \ {r}

\* prepareTimeSchedule, prepareCronSchedule and normalizeWebhookConfig accept the
\* config: a single run_at that is not past, a cron expression (which never
\* matches just once), anything ...
Accepted(t, config) ==
    CASE TypeOf[t] = "time_scheduled" -> \E at \in config : config = {at} /\ at + Grace >= now
      [] TypeOf[t] = "cron_scheduled" -> \A at \in config : config # {at}
      [] TypeOf[t] = "webhook"        -> TRUE

\* ... and compute the first run; Null if there is none.
FirstRun(t, config) ==
    CASE TypeOf[t] = "time_scheduled" -> CHOOSE at \in config : TRUE
      [] TypeOf[t] = "cron_scheduled" -> NextFireTime(config, now)
      [] TypeOf[t] = "webhook"        -> Null

----------------------------------------------------------------------------
Create(r) ==
    /\ "create" \in Ops
    /\ req[r].pc \in Done
    /\ \E t \in Fresh(triggers), config \in Configs :
          /\ Accepted(t, config)
          /\ CreateTrigger(r, t, config, FirstRun(t, config))
    /\ Finish(r, "ok")
    /\ UNCHANGED <<now, eventLogs>>

Delete(r) ==
    /\ "delete" \in Ops
    /\ req[r].pc \in Done
    /\ \E t \in TriggerIds : DeleteTrigger(r, t)
    /\ Finish(r, "ok")
    /\ UNCHANGED now

\* PUT: the trigger is read for its type, the request validated and, for a new
\* config, the first run computed.
BeginUpdate(r) ==
    /\ req[r].pc \in Done
    /\ \E t \in TriggerIds,
          status \in {Null} \cup IF "status" \in Ops THEN {"active", "inactive"} ELSE {},
          config \in {Null} \cup IF "config" \in Ops THEN Configs ELSE {} :
          /\ TriggerExists(t)
          /\ status # Null \/ config # Null
          /\ config # Null => Accepted(t, config)
          /\ req' = [req EXCEPT ![r] =
                [pc |-> "write", trigger |-> t, status |-> status, config |-> config,
                 fireAt |-> IF config = Null THEN Null ELSE FirstRun(t, config)]]
    /\ UNCHANGED storageVars

\* A new config of a trigger that is not a webhook comes with a schedule.
Reschedules(r) == req[r].config # Null /\ TypeOf[req[r].trigger] # "webhook"

WriteTrigger(r) ==
    /\ req[r].pc = "write"
    /\ \E result \in {"ok", "notfound", "error"} :
          /\ UpdateTrigger(r, req[r].trigger, req[r].status, req[r].config, result)
          /\ IF result = "ok"
             THEN Continue(r, IF Reschedules(r) THEN "schedule" ELSE "respond")
             ELSE Finish(r, result)
    /\ UNCHANGED <<now, schedules, eventLogs>>

WriteSchedule(r) ==
    /\ req[r].pc = "schedule"
    /\ \E ok \in BOOLEAN :
          /\ UpsertTriggerSchedule(r, req[r].trigger, req[r].fireAt, ok)
          /\ IF ok THEN Continue(r, "respond") ELSE Finish(r, "error")
    /\ UNCHANGED <<now, triggers, eventLogs>>

\* The trigger is read again for the response.
Respond(r) ==
    /\ req[r].pc = "respond"
    /\ \/ Refused(r, FALSE) /\ Finish(r, "error")
       \/ /\ r \notin cancelled
          /\ Finish(r, IF TriggerExists(req[r].trigger) THEN "ok" ELSE "notfound")
    /\ UNCHANGED <<now, triggers, schedules, eventLogs>>

\* The client goes away in the middle of a PUT.
Disconnect(r) ==
    /\ "disconnect" \in Faults
    /\ req[r].pc \notin Done
    /\ r \notin cancelled
    /\ cancelled' = cancelled \cup {r}
    /\ UNCHANGED <<now, triggers, schedules, eventLogs, req>>
============================================================================
