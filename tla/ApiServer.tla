------------------------------ MODULE ApiServer ------------------------------
(***************************************************************************)
(* internal/api.Server: the life of the API process around the requests it *)
(* serves.  A graceful shutdown closes the listener and waits for the      *)
(* requests under way, whose contexts stay alive; the database and the     *)
(* publisher are closed after that.                                        *)
(***************************************************************************)
EXTENDS TriggerService, WebhookHandler

VARIABLE server \* "up"; "draining" inside Shutdown; "stopped"

ServerTypeOK == server \in {"up", "draining", "stopped"}

ServerInit == server = "up"

\* No handler is running.
Drained ==
    /\ \A r \in Requests : req[r].pc \in Done
    /\ \A h \in Hooks : hook[h].pc # "firing"

\* The process ends: what its handlers were doing stays half done, and nobody is
\* answered.
Exit ==
    /\ server' = "stopped"
    /\ req' = [r \in Requests |-> IF req[r].pc \in Done THEN req[r] ELSE NoRequest]
    /\ hook' = [h \in Hooks |-> IF hook[h].pc = "firing" THEN NoHook ELSE hook[h]]
    /\ call' = [c \in Callers |-> IF c \in Hooks THEN NoCall ELSE call[c]]
    /\ cancelled' = cancelled \ (Requests \cup Hooks)
    /\ UNCHANGED <<now, triggers, schedules, eventLogs, topic>>

----------------------------------------------------------------------------
\* SIGTERM: from here on no request is accepted.
BeginShutdown ==
    /\ "apishutdown" \in Faults
    /\ server = "up"
    /\ server' = "draining"
    /\ UNCHANGED <<storageVars, eventVars, req, hook>>

\* Mutant: Close in the place of Shutdown.
CloseAtOnce == server = "draining" /\ Exit

\* Shutdown returns once the last handler has.
EndShutdown == server = "draining" /\ Drained /\ Exit

\* The process dies; or a handler that waits for the database is still running
\* after the 30 seconds of the shutdown, and main exits all the same.
Kill ==
    /\ \/ "apicrash" \in Faults /\ server # "stopped"
       \/ "db" \in Faults /\ server = "draining" /\ ~Drained
    /\ Exit

StartServer ==
    /\ server = "stopped"
    /\ server' = "up"
    /\ UNCHANGED <<storageVars, eventVars, req, hook>>
============================================================================
