---------------------------- MODULE EventService ----------------------------
(***************************************************************************)
(* internal/events.Service.FireTrigger and the Kafka publisher under it.   *)
(* The scheduler engine and the webhook handler call it; a call has three  *)
(* steps at most, between which every other process may run.               *)
(***************************************************************************)
EXTENDS Storage

VARIABLES
    call, \* the FireTrigger call each caller has under way, or its result
    topic \* the event ids of the messages Kafka has stored

eventVars == <<call, topic>>

Callers == Schedulers \cup Hooks

CallType == [pc       : {"none", "log", "publish", "markfailed", "ok", "failed"},
             trigger  : TriggerIds \cup {Null},
             schedule : ScheduleIds \cup {Null},
             event    : EventIds \cup {Null}]

NoCall == [pc |-> "none", trigger |-> Null, schedule |-> Null, event |-> Null]

EventTypeOK ==
    /\ call \in [Callers -> CallType]
    /\ topic \subseteq EventIds

EventInit ==
    /\ call = [c \in Callers |-> NoCall]
    /\ topic = {}

\* The caller's side: call FireTrigger, and take what it returned.
FireTrigger(c, t, s) ==
    call' = [call EXCEPT ![c] = [NoCall EXCEPT !.pc = "log", !.trigger = t,
                                               !.schedule = s]]
Return(c) == call' = [call EXCEPT ![c] = NoCall]

----------------------------------------------------------------------------
\* The event log is written as a success before anything is published.
LogEvent(c) ==
    /\ call[c].pc = "log"
    /\ \E e \in Fresh(eventLogs), ok \in BOOLEAN :
          /\ CreateEventLog(c, e, call[c].trigger, call[c].schedule, ok)
          /\ call' = IF ok THEN [call EXCEPT ![c].pc = "publish", ![c].event = e]
                           ELSE [call EXCEPT ![c].pc = "failed"]
    /\ UNCHANGED <<now, triggers, schedules, cancelled, topic>>

\* Kafka acknowledged the message (acks=all).
PublishAcked(c) ==
    /\ call[c].pc = "publish"
    /\ c \notin cancelled
    /\ topic' = topic \cup {call[c].event}
    /\ call' = [call EXCEPT ![c].pc = "ok"]
    /\ UNCHANGED storageVars

\* WriteMessages failed: no broker answered within the 10 seconds and three
\* attempts, or the context is cancelled.  The message may be stored all the same.
PublishFailed(c) ==
    /\ call[c].pc = "publish"
    /\ c \in cancelled \/ "kafka" \in Faults
    /\ topic' \in {topic, topic \cup {call[c].event}}
    /\ call' = [call EXCEPT ![c].pc = "markfailed"]
    /\ UNCHANGED storageVars

\* Mutant: FireTrigger swallows the error of the publish.
MarkFailedSwallowed(c) ==
    /\ call[c].pc = "markfailed"
    /\ UpdateEventLogStatus(c, call[c].event, "failure")
    /\ call' = [call EXCEPT ![c].pc = "ok"]
    /\ UNCHANGED <<now, triggers, schedules, cancelled, topic>>

\* Mutant: the log entry is not corrected.
MarkFailedForgotten(c) ==
    /\ call[c].pc = "markfailed"
    /\ call' = [call EXCEPT ![c].pc = "failed"]
    /\ UNCHANGED <<storageVars, topic>>

\* Under the same context; an error of this statement is only logged.
MarkFailed(c) ==
    /\ call[c].pc = "markfailed"
    /\ UpdateEventLogStatus(c, call[c].event, "failure")
    /\ call' = [call EXCEPT ![c].pc = "failed"]
    /\ UNCHANGED <<now, triggers, schedules, cancelled, topic>>
============================================================================
