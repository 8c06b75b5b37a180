-------------------------------- MODULE Lock --------------------------------
(* What exos_mutex_lock, _try and _unlock promise their callers: recursive   *)
(* locks that one thread holds at a time and that only the holder releases.  *)
EXTENDS Naturals

CONSTANTS Thread, Mutex

VARIABLE hold   \* thread -> mutex -> how often it holds it

Init == hold = [t \in Thread |-> [m \in Mutex |-> 0]]

Acquire(t, m) ==
  /\ \A u \in Thread \ {t} : hold[u][m] = 0
  /\ hold' = [hold EXCEPT ![t][m] = @ + 1]

Release(t, m) ==
  /\ hold[t][m] > 0
  /\ hold' = [hold EXCEPT ![t][m] = @ - 1]

Next == \E t \in Thread, m \in Mutex : Acquire(t, m) \/ Release(t, m)

Spec == Init /\ [][Next]_hold
=============================================================================
