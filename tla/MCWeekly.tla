------------------------------- MODULE MCWeekly -------------------------------
(* Model values and bounds for model checking WeeklyPipeline with TLC.     *)
EXTENDS WeeklyPipeline
=============================================================================
