---------------------------- MODULE MCScheduler ----------------------------
(* Small instances of Scheduler for TLC.                                   *)
EXTENDS Scheduler

\* Every cron expression of the instance has an occurrence at each even instant:
\* at the next odd one its slot is late by more than the grace of the instance.
MCNextSlot(c, t) == 2 * (t \div 2 + 1)
=============================================================================
