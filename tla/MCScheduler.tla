----------------------------- MODULE MCScheduler -----------------------------
(* Two schedules, one that matches every minute and one that matches once.  *)
EXTENDS Scheduler

CONSTANTS often, once

MCMatches == [s \in Schedules |-> IF s = often THEN 1 .. 3 ELSE {2}]
=============================================================================
