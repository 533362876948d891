------------------------------ MODULE MCQueries ------------------------------
(***************************************************************************)
(* Values for the constants of Queries: the lists with and without the     *)
(* filters that rows come and go by.                                       *)
(***************************************************************************)
EXTENDS Queries

TwoWebhooks == [t1 |-> "webhook", t2 |-> "webhook"]
OneConfig == {{}}

EventList(kept, outcome, of) ==
    [table |-> "events", retention |-> kept, status |-> outcome, trigger |-> of]
TriggerList(state) == [table |-> "triggers", status |-> state]

EveryList == {EventList("active", Null, "t1"), EventList("archived", "failure", Null),
              TriggerList("active")}
============================================================================
