------------------------------ MODULE MCMutex ------------------------------
(* A mutex shared by threads of three priorities, with Idle below them.     *)
EXTENDS Mutex, TLC

CONSTANTS t1, t2

MCPriority == [t \in Thread |-> IF t = Idle THEN -128 ELSE IF t = t1 THEN 2 ELSE IF t = t2 THEN 1 ELSE 0]
MCBit == 0..1
=============================================================================
