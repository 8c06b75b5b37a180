------------------------------- MODULE MCFifo -------------------------------
(* One consumer, nodes queued by another thread and by interrupts.          *)
EXTENDS Fifo, TLC

CONSTANTS t1, t2, x0, x1, x2, x3

MCPriority == [t \in Thread |-> IF t = Idle THEN -128 ELSE IF t = t1 THEN 1 ELSE 0]
MCBit == 0..1
MCTimer == (Main :> x0) @@ (Idle :> x3) @@ (t1 :> x1) @@ (t2 :> x2)
=============================================================================
