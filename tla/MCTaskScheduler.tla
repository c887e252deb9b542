---------------------------- MODULE MCTaskScheduler ----------------------------
(***************************************************************************)
(* Three descriptors and two event triggers, one loop inside another.      *)
(***************************************************************************)
EXTENDS TaskScheduler
=============================================================================
