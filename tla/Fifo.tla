-------------------------------- MODULE Fifo --------------------------------
(***************************************************************************)
(* The queue of kernel/fifo.c: a list of nodes and an event that tells a   *)
(* waiting thread of them, over the events of module Event.  Message ports *)
(* (kernel/port.c) send and receive through it.                            *)
(***************************************************************************)
EXTENDS Event

CONSTANTS FifoEvent,  \* fifo->Event
          Node,       \* the nodes that can be queued
          Consumer,   \* the threads that wait for nodes and take them
          Timeout     \* the timeouts they give: TRUE for one that is not 0

ASSUME FifoAssumption ==
  /\ FifoEvent \in Event
  /\ Consumer \subseteq Thread
  /\ Timeout \subseteq BOOLEAN

VARIABLES Items,      \* the list fifo->Items
          nothing     \* the exos_fifo_wait that found the list empty: thread, timed

fifoVars == <<vars, Items, nothing>>

FifoTypeOK ==
  /\ EventTypeOK
  /\ Items \in Seq(Node)
  /\ nothing \subseteq Thread \X BOOLEAN

FifoInit ==
  /\ EventInit
  /\ Items = <<>>
  /\ nothing = {}

----------------------------------------------------------------------------
\* _queue, by a thread or an interrupt handler: one section, with the
\* exos_event_set in it.
_queue(node) ==
  /\ node \notin Range(Items)
  /\ Items' = list_add_tail(Items, node)
  /\ SetEvent(FifoEvent)
  /\ UNCHANGED <<TState, pc, want, timed, done, nothing>>

exos_fifo_queue(node) == At("user") /\ _queue(node)

\* Faulty variants: the event is never reset; it is reset with nodes left.
_dequeue_no_reset ==
  /\ Items' = IF Items = <<>> THEN Items ELSE Tail(Items)
  /\ UNCHANGED <<kernelVars, EState>>
_dequeue_resets ==
  /\ Items' = IF Items = <<>> THEN Items ELSE Tail(Items)
  /\ EState' = [EState EXCEPT ![FifoEvent] = FALSE]
  /\ exos_thread_resume_all(FifoEvent)

\* _dequeue: the first node, if any.  When none is left the event is reset,
\* which resumes whoever waits for it.
_dequeue ==
  /\ Items' = IF Items = <<>> THEN Items ELSE Tail(Items)
  /\ IF Items' = <<>>
     THEN /\ EState' = [EState EXCEPT ![FifoEvent] = FALSE]
          /\ exos_thread_resume_all(FifoEvent)
     ELSE UNCHANGED <<kernelVars, EState>>

\* exos_fifo_dequeue, without waiting.  The fifo has an event: without one
\* nobody can wait for it.  Consumer are the threads that take from it.
exos_fifo_dequeue ==
  /\ At("user")
  /\ running \in Consumer
  /\ _dequeue
  /\ UNCHANGED <<TState, pc, want, timed, done, nothing>>

\* exos_fifo_wait: exos_event_wait, and then the node is taken.
exos_fifo_wait(timeout) ==
  /\ running \in Consumer
  /\ exos_event_wait(FifoEvent, timeout)
  /\ UNCHANGED <<Items, nothing>>

FifoTake ==
  /\ At("return")
  /\ IF done[running]
     THEN /\ _dequeue
          /\ nothing' = IF Items = <<>> THEN nothing \cup {<<running, timed[running]>>} ELSE nothing
     ELSE UNCHANGED <<kernelVars, EState, Items, nothing>>
  /\ BackToUser

----------------------------------------------------------------------------
FifoNext ==
  \/ \E node \in Node : _queue(node) \/ exos_fifo_queue(node)
  \/ exos_fifo_dequeue
  \/ \E timeout \in Timeout : exos_fifo_wait(timeout)
  \/ FifoTake
  \/ /\ \/ Waiting
        \/ \E x \in TimerSet : Expire(x)
        \/ \E t \in Thread : Create(t)
        \/ Kernel
     /\ UNCHANGED <<Items, nothing>>

FifoSpec == FifoInit /\ [][FifoNext]_fifoVars

\* The CPU does not stop inside a call or a section, interrupts leave it time
\* for the running thread, and the consumer is started and comes back for more.
FifoFairness ==
  /\ SF_fifoVars(Waiting /\ UNCHANGED <<Items, nothing>>)
  /\ SF_fifoVars(FifoTake)
  /\ WF_fifoVars(Kernel /\ UNCHANGED <<Items, nothing>>)
  /\ \A t \in Consumer : WF_fifoVars(Create(t) /\ UNCHANGED <<Items, nothing>>)
  /\ \A timeout \in Timeout : SF_fifoVars(exos_fifo_wait(timeout))

FifoLiveSpec == FifoSpec /\ FifoFairness

----------------------------------------------------------------------------
(* Properties *)

\* The event says whether there are nodes, so a consumer does not sleep in
\* exos_fifo_wait while a node is queued, and one that waits without a timeout
\* always has a node to return.
NothingStranded ==
  /\ FifoTypeOK
  /\ Outside =>
       /\ EState[FifoEvent] => Items # <<>>
       /\ Items # <<>> => \A t \in Consumer : ~ (State[t] = "WAIT" /\ want[t] = FifoEvent)
  /\ \A t \in Consumer : <<t, FALSE>> \notin nothing

\* exos_fifo_wait has a node when its event wait answered "true": it panics,
\* in a debug build, otherwise.
NeverEmptyHanded == nothing = {}

\* Every node that is queued is taken.
EveryNodeTaken == \A node \in Node : node \in Range(Items) ~> node \notin Range(Items)
=============================================================================
