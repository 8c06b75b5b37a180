------------------------------ MODULE MCEvent ------------------------------
(* Events set, reset and waited for by threads and interrupts.              *)
EXTENDS Event, TLC

CONSTANTS t1, t2, x0, x1, x2, x3

MCPriority == [t \in Thread |-> IF t = Idle THEN -128 ELSE IF t = t1 THEN 1 ELSE 0]
MCBit == 0..1
MCTimer == [t \in Thread |-> IF t = Main THEN x0 ELSE IF t = Idle THEN x3
                             ELSE IF t = t1 THEN x1 ELSE x2]
=============================================================================
