-------------------------- MODULE MCSchedulerThreads --------------------------
(* SchedulerThreads as TLC checks it.                                      *)
EXTENDS SchedulerThreads

\* app.py waits for the car first, then for the arm.
PrecheckOrder == <<"s31", "p4">>
=============================================================================
