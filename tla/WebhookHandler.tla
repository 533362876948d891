--------------------------- MODULE WebhookHandler ---------------------------
(***************************************************************************)
(* internal/api/handlers.ReceiveWebhook: a webhook request h reads the     *)
(* trigger, checks it, and fires it from what it read.                     *)
(***************************************************************************)
EXTENDS EventService

VARIABLE hook \* the webhook request in slot h: [pc, trigger] and the response

Replies == {"accepted", "failed"} \* 202 with an event id, 500

HookType == [pc      : {"idle", "firing"} \cup Replies,
             trigger : TriggerIds \cup {Null},
             event   : EventIds \cup {Null}]

NoHook == [pc |-> "idle", trigger |-> Null, event |-> Null]

HookTypeOK == hook \in [Hooks -> HookType]

HookInit == hook = [h \in Hooks |-> NoHook]

\* Bound: an event id is left for this request and for every call before its INSERT.
IdLeft == Cardinality({e \in EventIds : eventLogs[e].status = "unused"})
              > Cardinality({c \in Callers : call[c].pc = "log"})

\* Only an active webhook trigger is fired; the refusals (404, and 400 for the
\* type, the status and the schema) change nothing.
ReceiveWebhook(h) ==
    /\ hook[h].pc # "firing"
    /\ IdLeft
    /\ \E t \in TriggerIds :
          /\ triggers[t].status = "active" /\ TypeOf[t] = "webhook"
          /\ hook' = [hook EXCEPT ![h] = [NoHook EXCEPT !.pc = "firing", !.trigger = t]]
          /\ FireTrigger(h, t, Null)
    /\ UNCHANGED <<storageVars, topic>>

\* Mutant: the error of FireTrigger is not looked at.
ReplyAccepted(h) ==
    /\ hook[h].pc = "firing"
    /\ call[h].pc \in {"ok", "failed"}
    /\ hook' = [hook EXCEPT ![h].pc = "accepted", ![h].event = call[h].event]
    /\ Return(h)
    /\ cancelled' = cancelled \ {h}
    /\ UNCHANGED <<now, triggers, schedules, eventLogs, topic>>

Reply(h) ==
    /\ hook[h].pc = "firing"
    /\ call[h].pc \in {"ok", "failed"}
    /\ hook' = [hook EXCEPT
          ![h].pc = IF call[h].pc = "ok" THEN "accepted" ELSE "failed",
          ![h].event = IF call[h].pc = "ok" THEN call[h].event ELSE Null]
    /\ Return(h)
    /\ cancelled' = cancelled \ {h}
    /\ UNCHANGED <<now, triggers, schedules, eventLogs, topic>>

\* The client goes away before the response.
HangUp(h) ==
    /\ "disconnect" \in Faults
    /\ hook[h].pc = "firing"
    /\ h \notin cancelled
    /\ cancelled' = cancelled \cup {h}
    /\ UNCHANGED <<now, triggers, schedules, eventLogs, eventVars, hook>>
============================================================================
