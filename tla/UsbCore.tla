------------------------------ MODULE UsbCore ------------------------------
(***************************************************************************)
(* The host side of the STM32F4 USB controller, support/stm32f4:           *)
(* usb_fs_host_core.c and the transfers of usb_fs_host_drv.c.  A started   *)
(* pipe has an endpoint of the pool _ep_array, an endpoint has a channel   *)
(* of the controller for each direction it uses, and a channel carries one *)
(* request (URB) at a time.  Requests end in the channel interrupt, or     *)
(* when their pipe is stopped.                                             *)
(*                                                                         *)
(* An interrupt handler is one step.  The end of a request is announced    *)
(* with exos_event_reset, which wakes who waits on the URB and leaves no   *)
(* trace for who does not wait yet.  panic is the assertion that failed;   *)
(* nothing runs after it.                                                  *)
(***************************************************************************)
EXTENDS Integers, FiniteSets, Sequences

CONSTANTS NUM_CHANNELS, NUM_ENDPOINTS, nullptr

ASSUME UsbAssumption ==
  /\ NUM_CHANNELS \in Nat \ {0} /\ NUM_ENDPOINTS \in Nat \ {0}
  /\ nullptr \notin (0..NUM_CHANNELS) \cup (0..NUM_ENDPOINTS)

Channel == 0..NUM_CHANNELS - 1
Ep == 1..NUM_ENDPOINTS
Pipe == {"control", "input"}

\* Who owns a request: the context thread and the client thread have one for
\* control transfers on their stacks, a HID function has one for its input.
Urb == {"context", "client", "input"}

VARIABLES ch,               \* channel -> _ch2ep, Period # 0, Request, the hardware's state
          ep,               \* endpoint -> Tx, Rx, Status
          free,             \* the FreeItems of _ep_pool, first in front
          _root_control_ep,
          Endpoint,         \* pipe -> Endpoint
          Status,           \* URB -> Status
          waiting,          \* the URBs on whose event somebody waits
          woken,            \* those whose waiter has been resumed
          PENA,             \* the port is enabled (HPRT)
          panic

coreVars == <<ch, ep, free, _root_control_ep, Endpoint, Status, waiting, woken>>

NoChannel == [ep |-> nullptr, Period |-> FALSE, Request |-> nullptr, hc |-> "off"]

CoreInit ==
  /\ ch = [c \in Channel |-> NoChannel]
  /\ ep = [e \in Ep |-> [Tx |-> nullptr, Rx |-> nullptr, Status |-> "IDLE"]]
  /\ free = [i \in Ep |-> i]
  /\ _root_control_ep = nullptr
  /\ Endpoint = [p \in Pipe |-> nullptr]
  /\ Status = [u \in Urb |-> "EMPTY"]
  /\ waiting = {}
  /\ woken = {}
  /\ PENA = FALSE
  /\ panic = ""

Alive == panic = ""

----------------------------------------------------------------------------
(* Pipes *)

\* What is left in the pool when its first item is taken, or one is returned.
pool_allocate == Tail(free)
pool_free(e) == <<e>> \o free

\* The channels _alloc_channel finds, lowest first.
FreeChannels == {c \in Channel : ch[c].ep = nullptr}
Lowest(S) == CHOOSE c \in S : \A d \in S : c <= d

\* _alloc_channel for each side the pipe uses; the order is Tx, Rx.
Opened(e, tx, rx, periodic) ==
  /\ ch' = [c \in Channel |->
       IF c \in {tx, rx} THEN [NoChannel EXCEPT !.ep = e, !.Period = periodic] ELSE ch[c]]
  /\ ep' = [ep EXCEPT ![e] = [Tx |-> tx, Rx |-> rx, Status |-> "IDLE"]]
  /\ free' = pool_allocate

\* usb_fs_host_start_pipe succeeds: the control endpoint is shared by every
\* control pipe and is started once, any other pipe needs its own.
CanStart(p) ==
  \/ p = "control" /\ _root_control_ep # nullptr
  \/ free # <<>> /\ Cardinality(FreeChannels) >= (IF p = "control" THEN 2 ELSE 1)

\* Its effect; what was allocated before a channel was missing is given back.
usb_fs_host_start_pipe(p) ==
  LET c == Lowest(FreeChannels)
      d == Lowest(FreeChannels \ {c})
  IN  /\ IF ~CanStart(p) THEN
           /\ Endpoint' = IF free = <<>> THEN Endpoint ELSE [Endpoint EXCEPT ![p] = nullptr]
           /\ UNCHANGED <<ch, ep, free, _root_control_ep>>
         ELSE IF p = "control" /\ _root_control_ep # nullptr THEN
           /\ Endpoint' = [Endpoint EXCEPT ![p] = _root_control_ep]
           /\ UNCHANGED <<ch, ep, free, _root_control_ep>>
         ELSE
           /\ Endpoint' = [Endpoint EXCEPT ![p] = Head(free)]
           /\ IF p = "control"
              THEN Opened(Head(free), c, d, FALSE) /\ _root_control_ep' = Head(free)
              ELSE Opened(Head(free), nullptr, c, TRUE) /\ UNCHANGED _root_control_ep
      /\ UNCHANGED <<waiting, woken>>

----------------------------------------------------------------------------
(* Transfers *)

\* usb_fs_host_update_control_pipe addresses both channels.
ControlOpen(e) == ep[e].Tx # nullptr /\ ep[e].Rx # nullptr

\* usb_fs_host_begin_xfer, once it has its channel: the request is put on it
\* and the channel is enabled.
Issue(u, on) ==
  /\ ep' = [ep EXCEPT ![on.ep].Status = "BUSY"]
  /\ ch' = [ch EXCEPT ![on.ch].Request = u, ![on.ch].hc = "on"]

\* Faulty variant: an endpoint that is being stopped counts as idle.
Ending_busy(c) ==
  IF ch[c].ep # nullptr /\ ep[ch[c].ep].Status = "BUSY" THEN ch[c].Request ELSE nullptr

\* The request _xfer_complete ends: none when the endpoint is idle.
Ending(c) ==
  IF ch[c].ep # nullptr /\ ep[ch[c].ep].Status # "IDLE" THEN ch[c].Request ELSE nullptr

\* The request gets its Status, and exos_event_reset(&urb->Event) resumes the
\* thread that waits for it, if one does.
Announce(u, status) ==
  IF u = nullptr THEN UNCHANGED <<Status, waiting, woken>>
  ELSE /\ Status' = [Status EXCEPT ![u] = status]
       /\ waiting' = waiting \ {u}
       /\ woken' = woken \cup (waiting \cap {u})

\* Faulty variant: the endpoint keeps its reference to the closed channel.
Unlinked_keeps(e, c) == ep[e]

\* _free_channel: what becomes of the endpoint of a closed channel.
Unlinked(e, c) ==
  IF ep[e].Rx = c THEN [ep[e] EXCEPT !.Rx = nullptr]
  ELSE IF ep[e].Tx = c THEN [ep[e] EXCEPT !.Tx = nullptr] ELSE ep[e]

\* The end of _xfer_complete, with _free_channel after it if the channel is to
\* be closed.  hc is the state the hardware is left in.
Settle(c, u, close, hc) ==
  LET e == ch[c].ep IN
  /\ ch' = [ch EXCEPT ![c].Request = IF u = nullptr THEN @ ELSE nullptr,
                      ![c].ep = IF close THEN nullptr ELSE @, ![c].hc = hc]
  /\ ep' = IF e = nullptr THEN ep
           ELSE [ep EXCEPT ![e] = [(IF close THEN Unlinked(e, c) ELSE @) EXCEPT !.Status = "IDLE"]]

_xfer_complete(c, status, close) ==
  Announce(Ending(c), status) /\ Settle(c, Ending(c), close, "off")

\* _disable_channel without waiting: an enabled port halts the channel and
\* says so later, otherwise the channel is closed at once.
_disable_channel(c) ==
  IF PENA THEN ch' = [ch EXCEPT ![c].hc = "halt"] /\ UNCHANGED <<ep, Status, waiting, woken, panic>>
  ELSE IF ch[c].ep = nullptr THEN panic' = "_free_channel" /\ UNCHANGED <<ch, ep, Status, waiting, woken>>
  ELSE _xfer_complete(c, "FAILED", TRUE) /\ UNCHANGED panic

\* A halted channel goes on with its transfer, unless its pipe is stopped.
Halted(c) ==
  LET status == IF ch[c].ep = nullptr THEN "IDLE" ELSE ep[ch[c].ep].Status IN
  IF status = "STOPPING" THEN _xfer_complete(c, "FAILED", TRUE)
  ELSE /\ ch' = [ch EXCEPT ![c].hc = IF status = "BUSY" THEN "on" ELSE "off"]
       /\ UNCHANGED <<ep, Status, waiting, woken>>

\* __usb_otg_hcint_irq_handler for one channel: the transfer is complete or
\* stalled; a NAK or an error disables the channel (a NAK on a non-periodic
\* input enables it again, which changes nothing); the channel has halted.
\* A data toggle or babble error, which are enabled and have no branch, and
\* packets left over at the end of a transfer stop the system.
\* A disconnected device may leave an enabled channel silent for ever.
hcint(c) ==
  /\ Alive
  /\ \/ /\ ch[c].hc = "on" /\ PENA
        /\ \E status \in {"DONE", "FAILED"} : _xfer_complete(c, status, FALSE)
        /\ UNCHANGED panic
     \/ /\ ch[c].hc = "on" /\ PENA
        /\ panic' = "hcint" /\ UNCHANGED <<ch, ep, Status, waiting, woken>>
     \/ ch[c].hc = "on" /\ _disable_channel(c)
     \/ ch[c].hc = "halt" /\ Halted(c) /\ UNCHANGED panic
  /\ UNCHANGED <<free, _root_control_ep, Endpoint, PENA>>

----------------------------------------------------------------------------
(* Properties *)

\* The two ends of the link between endpoints and channels agree, however
\* interrupts, errors and stopped pipes close channels: _ch2ep names the one
\* endpoint whose Tx or Rx the channel is, and an endpoint in the pool, which
\* the next pipe gets, has no channel left.
ChannelsAgree ==
  /\ \A c \in Channel, e \in Ep : ch[c].ep = e <=> c \in {ep[e].Tx, ep[e].Rx}
  /\ \A e \in Ep : ep[e].Tx # nullptr => ep[e].Tx # ep[e].Rx
  /\ \A i \in DOMAIN free :
       /\ ep[free[i]].Tx = nullptr /\ ep[free[i]].Rx = nullptr
       /\ \A j \in DOMAIN free : free[i] = free[j] => i = j
=============================================================================
