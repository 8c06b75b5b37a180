----------------------------- MODULE MCThreads -----------------------------
(* Two threads of one priority above the idle thread, with fewer mask bits  *)
(* than wait handles.                                                       *)
EXTENDS Threads, TLC

CONSTANTS t1

MCPriority == [t \in Thread |-> IF t = Idle THEN -128 ELSE 0]
MCBit == 0..1

HandleSymmetry == Permutations(Handle)
=============================================================================
