------------------------------- MODULE MCTcp -------------------------------
(* A writes and B reads; one segment is in flight in each direction.         *)
EXTENDS Tcp

MCMaxBytes == [e \in End |-> IF e = "A" THEN 2 ELSE 0]
MCInFlight == [e \in End |-> 1]
=============================================================================
