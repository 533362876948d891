----------------------------- MODULE MCPlatform -----------------------------
(***************************************************************************)
(* Values for the constants of Platform.  A config that contains the       *)
(* instant past MaxTime goes on matching after the clock has stopped; the  *)
(* empty one is a cron expression that never matches (30 February).        *)
(***************************************************************************)
EXTENDS Platform

OneCron == [t1 |-> "cron_scheduled"]
CronAndTime == [t1 |-> "cron_scheduled", t2 |-> "time_scheduled"]
OneTime == [t1 |-> "time_scheduled"]
OneWebhook == [t1 |-> "webhook"]

Every == {1, 2, 3}
OneCronConfig == {Every}
CronOrNever == {Every, {}}
EarlyOrLate == {{1}, {2}}
RunAtOrCron == {{1}, Every}
============================================================================
