------------------------------- MODULE MCTimer -------------------------------
(* Three timers, each one-shot or periodic.                                  *)
EXTENDS Timer
=============================================================================
