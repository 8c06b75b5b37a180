----------------------------- MODULE MCDispatch -----------------------------
(* Two dispatchers of the loop's own thread and one of another thread.       *)
EXTENDS Dispatch, TLC

CONSTANTS d1, d2, d3, e1, e2

MCDEvent == (d1 :> e1) @@ (d2 :> e2) @@ (d3 :> Nil)
MCAddTimeout == (d1 :> {FALSE}) @@ (d2 :> {TRUE}) @@ (d3 :> BOOLEAN)
=============================================================================
