------------------------- MODULE ScheduleLifecycle -------------------------
(***************************************************************************)
(* The life of a scheduled run as the engine means it, with no tables,     *)
(* processes, events or faults: a run is claimed, delivered to Kafka and   *)
(* completed, in that order; after a failure it is put back until it has   *)
(* used up its retries, and then given up.  A settled run stays settled.   *)
(***************************************************************************)
EXTENDS Naturals

CONSTANTS RunIds, MaxRetries

VARIABLES
    phase,    \* where each run is
    failures, \* how many of its firings have been put back
    delivered \* an event for it is in Kafka

lifecycleVars == <<phase, failures, delivered>>

Init ==
    /\ phase = [r \in RunIds |-> "unused"]
    /\ failures = [r \in RunIds |-> 0]
    /\ delivered = [r \in RunIds |-> FALSE]

Move(r, from, to) == phase[r] = from /\ phase' = [phase EXCEPT ![r] = to]

Plan(r)  == Move(r, "unused", "pending") /\ UNCHANGED <<failures, delivered>>
Claim(r) == Move(r, "pending", "processing") /\ UNCHANGED <<failures, delivered>>

\* A run withdrawn while it is being fired may still be delivered.
Deliver(r) ==
    /\ phase[r] \in {"processing", "deleted"}
    /\ delivered' = [delivered EXCEPT ![r] = TRUE]
    /\ UNCHANGED <<phase, failures>>

Complete(r) ==
    /\ delivered[r]
    /\ Move(r, "processing", "completed")
    /\ UNCHANGED <<failures, delivered>>

PutBack(r) ==
    /\ failures[r] + 1 < MaxRetries
    /\ Move(r, "processing", "pending")
    /\ failures' = [failures EXCEPT ![r] = @ + 1]
    /\ UNCHANGED delivered

GiveUp(r) ==
    /\ failures[r] + 1 = MaxRetries
    /\ Move(r, "processing", "cancelled")
    /\ UNCHANGED <<failures, delivered>>

\* Deleting a trigger deletes all of its runs.
Withdraw(runs) ==
    /\ \A r \in runs : phase[r] # "unused"
    /\ phase' = [r \in RunIds |-> IF r \in runs THEN "deleted" ELSE phase[r]]
    /\ UNCHANGED <<failures, delivered>>

Next ==
    \/ \E r \in RunIds : \/ Plan(r) \/ Claim(r) \/ Deliver(r)
                       \/ Complete(r) \/ PutBack(r) \/ GiveUp(r)
    \/ \E runs \in SUBSET RunIds : Withdraw(runs)

Spec == Init /\ [][Next]_lifecycleVars
============================================================================
