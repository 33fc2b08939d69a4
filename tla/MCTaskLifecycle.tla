-------------------------- MODULE MCTaskLifecycle --------------------------
(* A small instance of TaskLifecycleProperties for TLC.                     *)
EXTENDS TaskLifecycleProperties
=============================================================================
