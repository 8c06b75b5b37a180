-------------------------------- MODULE Tcp --------------------------------
(***************************************************************************)
(* One TCP connection between two hosts that both run the TCP of           *)
(* kernel/driver/net (tcp.c, tcp_service.c, tcp_io.c), over a network that *)
(* loses, repeats and reorders segments.  "A" connects, "B" listens and    *)
(* accepts; the application of each end writes, reads and closes.          *)
(*                                                                         *)
(* The handlers of the network threads hold io->Mutex and run above the    *)
(* applications: each is one step.  _write takes no lock: its test of the  *)
(* State with the copy to SndBuffer, its read of SndFlags and its store    *)
(* are three.  Time is left out: _service may handle an open entry at any  *)
(* time.  The bytes of a stream are numbered from 1; SYN has sequence 0.   *)
(* Whether a segment is in flight is a fact about its content, so a        *)
(* repeated segment is one that stays in flight when it is delivered.      *)
(***************************************************************************)
EXTENDS Naturals, Sequences, FiniteSetsExt

CONSTANTS MaxBytes,  \* bound: end -> the bytes its application writes
          RcvSize,   \* the bytes RcvBuffer holds, RcvBuffer.Size - 1
          InFlight,  \* bound: end -> the segments in flight towards it
          MaxPending \* TCP_MAX_PENDING_CONNECTIONS

ASSUME TcpAssumption ==
  /\ MaxBytes \in [{"A", "B"} -> Nat] /\ InFlight \in [{"A", "B"} -> Nat \ {0}]
  /\ RcvSize \in Nat \ {0} /\ MaxPending \in Nat \ {0}

End == {"A", "B"}
Peer(e) == IF e = "A" THEN "B" ELSE "A"

\* Where ServiceRetry stops counting: neither _handle in this state nor in one
\* that takes the count over from it tells more apart.
RetryCap(state) ==
  CASE state \in {"CLOSED", "CLOSING"} -> 0
    [] state \in {"SYN_SENT", "CLOSE_WAIT", "LAST_ACK"} -> 3
    [] OTHER -> 1

VARIABLES io,      \* end -> its TCP_IO_ENTRY
          app,     \* end -> what its application is doing
          loaded,  \* end -> the SndFlags that _write has read
          pending, \* the connections queued at the listener of B
          net      \* the segments in flight

tcpVars == <<io, app, loaded, pending, net>>

TCP_STATE == {"CLOSED", "SYN_SENT", "SYN_RECEIVED", "ESTABLISHED", "CLOSE_WAIT",
              "LAST_ACK", "FIN_WAIT_1", "FIN_WAIT_2", "CLOSING", "TIME_WAIT"}
Phase == {"idle", "opening", "open", "wrote", "storing", "failed", "ended", "closing", "done"}

\* written: the bytes ever copied to SndBuffer; gone: those discarded from it;
\* got: the bytes ever copied to RcvBuffer; unread: those still in it.
TcpTypeOK ==
  /\ \A e \in End :
       /\ io[e].State \in TCP_STATE
       /\ io[e].SndFlags \subseteq {"SYN", "ACK", "PSH", "FIN"}
       /\ io[e].ServiceRetry \in 0..3
       /\ io[e].gone <= io[e].written /\ io[e].written <= MaxBytes[e]
       /\ io[e].unread \in 0..RcvSize
       /\ Cardinality({s \in net : s.to = e}) <= InFlight[e]
  /\ app \in [End -> Phase]
  /\ pending \in 0..MaxPending

\* net_tcp_io_create at both ends; B has called net_tcp_listen.
TcpInit ==
  /\ io = [e \in End |->
       [State |-> "CLOSED", RcvNext |-> 0, SndSeq |-> 0, SndFlags |-> {}, ServiceRetry |-> 0,
        OutputEvent |-> FALSE, CloseEvent |-> FALSE, linked |-> FALSE,
        written |-> 0, gone |-> 0, got |-> <<>>, unread |-> 0]]
  /\ app = [e \in End |-> "idle"]
  /\ loaded = [e \in End |-> {}]
  /\ pending = 0
  /\ net = {}

\* net_tcp_service: the service thread handles the entry anew.
net_tcp_service(c) == [c EXCEPT !.ServiceRetry = 0]

\* _bind: the entry is put on _entries.
_bind(c, state) == [c EXCEPT !.State = state, !.linked = TRUE, !.CloseEvent = FALSE]

----------------------------------------------------------------------------
(* The applications *)

\* net_tcp_connect up to its wait for OutputEvent.
net_tcp_connect ==
  /\ app["A"] = "idle"
  /\ io' = [io EXCEPT !["A"] = net_tcp_service(
              _bind([@ EXCEPT !.RcvNext = 0, !.SndSeq = 0, !.SndFlags = {"SYN"}], "SYN_SENT"))]
  /\ app' = [app EXCEPT !["A"] = "opening"]
  /\ UNCHANGED <<loaded, pending, net>>

\* _accept and net_tcp_accept up to its wait: every SYN has sequence 0.
net_tcp_accept ==
  /\ app["B"] = "idle"
  /\ pending > 0
  /\ pending' = pending - 1
  /\ io' = [io EXCEPT !["B"] = net_tcp_service(
              _bind([@ EXCEPT !.RcvNext = 1, !.SndSeq = 0, !.SndFlags = {"SYN", "ACK"}], "SYN_RECEIVED"))]
  /\ app' = [app EXCEPT !["B"] = "opening"]
  /\ UNCHANGED <<loaded, net>>

\* OutputEvent is set: connect looks at the State, accept does not.  A failed
\* connect drops its buffers and sets CloseEvent.
Opened(e) ==
  /\ app[e] = "opening"
  /\ io[e].OutputEvent
  /\ LET done == e = "B" \/ io[e].State = "ESTABLISHED"
     IN  /\ app' = [app EXCEPT ![e] = IF done THEN "open" ELSE "failed"]
         /\ io' = [io EXCEPT ![e] = IF done THEN [@ EXCEPT !.OutputEvent = FALSE]
                ELSE [@ EXCEPT !.OutputEvent = FALSE, !.CloseEvent = TRUE,
                               !.gone = io[e].written, !.unread = 0]]
  /\ UNCHANGED <<loaded, pending, net>>

\* _write: a byte goes to SndBuffer if the State allows it ...
_write(e) ==
  /\ app[e] = "open"
  /\ io[e].written < MaxBytes[e]
  /\ io' = [io EXCEPT ![e].written = IF io[e].State = "ESTABLISHED" THEN @ + 1 ELSE @]
  /\ app' = [app EXCEPT ![e] = "wrote"]
  /\ UNCHANGED <<loaded, pending, net>>

\* ... SndFlags is read ...
LoadFlags(e) ==
  /\ app[e] = "wrote"
  /\ loaded' = [loaded EXCEPT ![e] = io[e].SndFlags]
  /\ app' = [app EXCEPT ![e] = "storing"]
  /\ UNCHANGED <<io, pending, net>>

\* ... and stored with PSH, and the service thread is told.
StoreFlags(e) ==
  /\ app[e] = "storing"
  /\ io' = [io EXCEPT ![e] = net_tcp_service([@ EXCEPT !.SndFlags = loaded[e] \cup {"PSH"}])]
  /\ app' = [app EXCEPT ![e] = "open"]
  /\ loaded' = [loaded EXCEPT ![e] = {}]
  /\ UNCHANGED <<pending, net>>

\* _read takes what RcvBuffer holds.  No window update follows.
_read(e) ==
  /\ app[e] = "open"
  /\ io[e].unread > 0
  /\ io' = [io EXCEPT ![e].unread = 0]
  /\ UNCHANGED <<app, loaded, pending, net>>

\* net_tcp_close until it gives back io->Mutex.  LAST_ACK and FIN_WAIT_1 take
\* over what ServiceRetry has counted: before net_tcp_close calls
\* net_tcp_service the service thread may close them at once, the FIN unsent.
net_tcp_close(e) ==
  /\ app[e] \in {"open", "failed"}
  /\ app' = [app EXCEPT ![e] = IF io[e].State = "CLOSED" THEN "closing" ELSE "ended"]
  /\ LET c == io[e]
         Fin(state) == [c EXCEPT !.SndFlags = {"FIN", "ACK"}, !.State = state]
     IN  io' = [io EXCEPT ![e] =
           CASE c.State = "CLOSE_WAIT" -> Fin("LAST_ACK")
             [] c.State \in {"SYN_RECEIVED", "ESTABLISHED"} -> Fin("FIN_WAIT_1")
             [] OTHER -> c]
  /\ UNCHANGED <<loaded, pending, net>>

\* It calls net_tcp_service after the unlock, and waits for CloseEvent.
CloseTold(e) ==
  /\ app[e] = "ended"
  /\ io' = [io EXCEPT ![e] = net_tcp_service(@)]
  /\ app' = [app EXCEPT ![e] = "closing"]
  /\ UNCHANGED <<loaded, pending, net>>

\* CloseEvent is set: net_tcp_close returns.
CloseReturns(e) ==
  /\ app[e] = "closing"
  /\ io[e].CloseEvent
  /\ app' = [app EXCEPT ![e] = "done"]
  /\ UNCHANGED <<io, loaded, pending, net>>

----------------------------------------------------------------------------
(* The service thread *)

\* _send: every segment carries all of SndBuffer, at SndSeq.  SndBuffer holds
\* no more than the payload of a frame, and a connection fewer bytes than
\* sequence numbers: neither the cut of a longer payload nor the wrap of the
\* numbers is modelled.
Segment(e, c) ==
  [to |-> Peer(e), seq |-> c.SndSeq, flags |-> c.SndFlags,
   ack |-> IF "ACK" \in c.SndFlags THEN c.RcvNext ELSE 0,
   data |-> [i \in 1..(c.written - c.gone) |-> c.gone + i]]

\* A segment that finds no room in flight is lost.
Sent(s) == IF Cardinality({x \in net : x.to = s.to}) < InFlight[s.to] THEN net \cup {s} ELSE net

\* The states in which ServiceRetry is looked at.
Limited == {"SYN_SENT", "LAST_ACK", "FIN_WAIT_1", "FIN_WAIT_2", "TIME_WAIT"}

\* Faulty variant: LAST_ACK sends its FIN for ever.
RetryLimit_none(state) == CASE state = "SYN_SENT" -> 3 [] state = "LAST_ACK" -> 4 [] OTHER -> 1

\* How often a limited state is handled before it is closed.
RetryLimit(state) == IF state \in {"SYN_SENT", "LAST_ACK"} THEN 3 ELSE 1

\* The state _handle leaves an entry in.
StateAfter(c) ==
  IF /\ c.State \in Limited
     /\ \/ c.ServiceRetry >= RetryLimit(c.State)
        \/ c.State = "TIME_WAIT" /\ "ACK" \notin c.SndFlags
  THEN "CLOSED" ELSE c.State

\* _handle.  FIN_WAIT_1 and FIN_WAIT_2 fall through to the default case, which
\* only changes ServiceWait.
_handle(c) ==
  LET state == StateAfter(c)
      push == c.State = "ESTABLISHED" /\ "PSH" \in c.SndFlags
  IN  [c EXCEPT !.State = state,
                !.SndFlags = IF push THEN @ \cup {"ACK"} ELSE @,
                !.OutputEvent = @ \/ c.State = "CLOSE_WAIT",
                !.ServiceRetry = IF @ < RetryCap(state) THEN @ + 1 ELSE RetryCap(state)]

\* _service at one entry: it handles an open one, and takes a closed one off
\* the list and wakes whoever waits for it.
_service(e) ==
  /\ io[e].linked
  /\ \E c \in {IF io[e].State = "CLOSED" THEN io[e] ELSE _handle(io[e])} :
         IF c.State = "CLOSED"
         THEN /\ io' = [io EXCEPT ![e] = [c EXCEPT !.linked = FALSE, !.OutputEvent = TRUE, !.CloseEvent = TRUE]]
              /\ UNCHANGED net
         ELSE /\ io' = [io EXCEPT ![e] = c]
              /\ net' = IF c.SndFlags # {} THEN Sent(Segment(e, c)) ELSE net
  /\ UNCHANGED <<app, loaded, pending>>

----------------------------------------------------------------------------
(* The input thread *)

Has(s, flag) == flag \in s.flags

\* How much of SndBuffer the segment lets go.
Acked(c, s) == IF Has(s, "ACK") /\ s.ack > c.SndSeq THEN Min({s.ack - c.SndSeq, c.written - c.gone}) ELSE 0

\* Faulty variant: an ACK ends the retransmission, whatever is left to send.
EmptyAfter_any(c, s) == Has(s, "ACK") /\ s.ack > c.SndSeq

\* The ACK is of all that SndBuffer holds.
EmptyAfter(c, s) == Has(s, "ACK") /\ s.ack > c.SndSeq /\ c.gone + Acked(c, s) = c.written

\* What a segment that is next in order does to an established connection.
InOrder(c, s) ==
  LET taken == Min({Len(s.data), RcvSize - c.unread})
      fin == Has(s, "FIN")
      answer == s.data # <<>> \/ fin
      new == [c EXCEPT
        !.SndSeq = @ + Acked(c, s), !.gone = @ + Acked(c, s),
        !.got = @ \o SubSeq(s.data, 1, taken), !.unread = @ + taken,
        !.RcvNext = @ + taken + (IF fin THEN 1 ELSE 0),
        !.SndFlags = (@ \ (IF EmptyAfter(c, s) THEN {"PSH", "ACK"} ELSE {"ACK"}))
                       \cup (IF answer THEN {"ACK"} ELSE {}),
        !.State = IF fin THEN "CLOSE_WAIT" ELSE @]
  IN  IF answer THEN net_tcp_service(new) ELSE new

\* Faulty variant: the sequence number is not looked at.
_handle_input_any(c, s) == InOrder(c, s)

\* _handle_input: any other segment is ignored, its ACK included.  Its branch
\* for RST is left out: this TCP sends none, at either end.
_handle_input(c, s) == IF s.seq = c.RcvNext THEN InOrder(c, s) ELSE c

\* The other states in which net_tcp_input looks at a segment.
SynSent(c, s) ==
  IF Has(s, "SYN") /\ Has(s, "ACK") /\ s.ack = c.SndSeq + 1
  THEN net_tcp_service([c EXCEPT !.RcvNext = s.seq + 1, !.SndSeq = @ + 1, !.SndFlags = {"ACK"},
                                 !.State = "ESTABLISHED", !.OutputEvent = TRUE])
  ELSE c

SynReceived(c, s) ==
  IF ~Has(s, "SYN") /\ Has(s, "ACK") /\ s.seq = c.RcvNext
  THEN [c EXCEPT !.SndSeq = s.ack, !.SndFlags = {}, !.State = "ESTABLISHED", !.OutputEvent = TRUE]
  ELSE c

\* Any ACK counts as the one of the FIN; what data comes with it is dropped.
FinWait1(c, s) ==
  IF s.seq # c.RcvNext THEN c ELSE
    LET acked == CASE ~Has(s, "ACK") -> c
                   [] Has(s, "ACK") /\ Has(s, "FIN") ->
                        [c EXCEPT !.SndSeq = s.ack, !.RcvNext = @ + 1, !.SndFlags = {"ACK"}, !.State = "CLOSING"]
                   [] OTHER -> [c EXCEPT !.SndSeq = s.ack, !.SndFlags = {}, !.State = "FIN_WAIT_2"]
    IN  net_tcp_service([acked EXCEPT !.RcvNext = @ + Len(s.data)])

FinWait2(c, s) ==
  IF s.seq # c.RcvNext THEN c ELSE
    LET fin == IF Has(s, "FIN")
               THEN [c EXCEPT !.RcvNext = @ + 1, !.SndFlags = {"ACK"}, !.State = "TIME_WAIT"] ELSE c
    IN  net_tcp_service([fin EXCEPT !.RcvNext = @ + Len(s.data)])

LastAcked(c, s, state) ==
  IF Has(s, "ACK") /\ s.seq = c.RcvNext
  THEN net_tcp_service([c EXCEPT !.SndSeq = s.ack, !.State = state]) ELSE c

Received(c, s) ==
  CASE c.State = "SYN_SENT" -> SynSent(c, s)
    [] c.State = "SYN_RECEIVED" -> SynReceived(c, s)
    [] c.State = "ESTABLISHED" -> _handle_input(c, s)
    [] c.State = "FIN_WAIT_1" -> FinWait1(c, s)
    [] c.State = "FIN_WAIT_2" -> FinWait2(c, s)
    [] c.State = "CLOSING" -> LastAcked(c, s, "TIME_WAIT")
    [] c.State = "LAST_ACK" -> LastAcked(c, s, "CLOSED")
    [] OTHER -> c

\* net_tcp_input: the entry bound to the peer takes the segment, and without
\* one the listener of B, which queues a connection for a SYN.
net_tcp_input(s) ==
  /\ io' = IF io[s.to].linked THEN [io EXCEPT ![s.to] = Received(@, s)] ELSE io
  /\ pending' = IF s.to = "B" /\ ~io["B"].linked /\ Has(s, "SYN") /\ ~Has(s, "ACK") /\ pending < MaxPending
                THEN pending + 1 ELSE pending
  /\ UNCHANGED <<app, loaded>>

----------------------------------------------------------------------------
(* The network *)

Deliver(e) == \E s \in net : s.to = e /\ net_tcp_input(s) /\ net' = net \ {s}
Repeat(s) == net_tcp_input(s) /\ UNCHANGED net
Lose(s) == net' = net \ {s} /\ UNCHANGED <<io, app, loaded, pending>>

Application(e) ==
  \/ Opened(e)
  \/ _write(e)
  \/ LoadFlags(e)
  \/ StoreFlags(e)
  \/ _read(e)
  \/ net_tcp_close(e)
  \/ CloseTold(e)
  \/ CloseReturns(e)

TcpNext ==
  \/ net_tcp_connect
  \/ net_tcp_accept
  \/ \E e \in End : Application(e) \/ _service(e) \/ Deliver(e)
  \/ \E s \in net : Repeat(s) \/ Lose(s)

TcpSpec == TcpInit /\ [][TcpNext]_tcpVars

\* The threads run; what is sent again and again arrives; an application ends
\* what it has begun, and reads.
Proceed(e) == Opened(e) \/ LoadFlags(e) \/ StoreFlags(e) \/ _read(e) \/ CloseTold(e) \/ CloseReturns(e)
TcpFairness ==
  \A e \in End : WF_tcpVars(_service(e)) /\ SF_tcpVars(Deliver(e)) /\ WF_tcpVars(Proceed(e))

TcpLiveSpec == TcpSpec /\ TcpFairness

----------------------------------------------------------------------------
(* Properties *)

\* What an application reads is what the other one wrote, in order and without
\* gaps or repeats, whatever the network does: _handle_input and _send agree
\* on which byte a sequence number means.
StreamInOrder ==
  /\ TcpTypeOK
  /\ \A e \in End : io[e].got = [i \in 1..Len(io[e].got) |-> i] /\ Len(io[e].got) <= io[Peer(e)].written

\* When only one application writes, every byte it was told is written reaches
\* the other end or the connection ends: retransmission outlasts every loss.
BytesArrive ==
  \A e \in {x \in End : MaxBytes[x] > 0} :
    io[e].State = "ESTABLISHED"
    ~> \/ Len(io[Peer(e)].got) = io[e].written
       \/ io[e].State # "ESTABLISHED" \/ io[Peer(e)].State # "ESTABLISHED"
       \/ io[Peer(e)].written > 0

\* Once both applications close, every net_tcp_close returns, unless an end is
\* left in CLOSING: the retry limits of _handle end all other closing states.
CloseEnds ==
  (\A e \in End : app[e] \in {"ended", "closing", "done"})
  ~> (\A e \in End : app[e] = "done") \/ \E e \in End : io[e].State = "CLOSING"
=============================================================================
