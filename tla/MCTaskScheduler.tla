-------------------------- MODULE MCTaskScheduler --------------------------
(* TLC instances of TaskScheduler.                                         *)
EXTENDS TaskScheduler

=============================================================================
