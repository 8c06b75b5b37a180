----------------------------- MODULE UsbDevice -----------------------------
(***************************************************************************)
(* The USB device stack: the service thread of kernel/driver/usb/device.c, *)
(* the endpoints and interrupts of support/stm32f4/usb_fs_device.c, and a  *)
(* serial function, support/usb/device/ftdi.c, with its client.            *)
(*                                                                         *)
(* The service thread runs the dispatchers of _context one at a time: the  *)
(* setup handler, which blocks while the host takes an answer, and those   *)
(* of the function.  The host and the OTG core are external.               *)
(* Interrupts preempt threads: a thread moves only when none is pending.   *)
(* The build is the DEBUG one: assertions stop the system.  Lengths are    *)
(* scaled: MaxPacket stands for 64 bytes.                                  *)
(***************************************************************************)
EXTENDS Integers, Sequences, FiniteSetsExt

CONSTANTS Requested,  \* the requests of the host: tuples, the kind comes first
          MaxPacket,  \* bytes in a full packet
          MaxResets,  \* bound: bus resets before the device is configured
          MaxStarts,  \* bound: calls of usb_device_start
          MaxOpens,   \* bound: how often the host opens the serial port
          MaxOutput   \* bytes the output buffer of the port holds

\* Of the vendor requests, a reset and DTR change state; "read" stands for the
\* three that ask for data, <<"read", w>> for w bytes of it.  The others are
\* answered and have no effect.
Vendor == {<<"reset">>, <<"dtr", TRUE>>, <<"dtr", FALSE>>}
VendorIn == {"read"} \X (Nat \ {0})

\* <<"get", n, w>>: a descriptor of n bytes, of which the host asks for w.
ASSUME UsbDeviceAssumption ==
  /\ MaxPacket \in Nat \ {0, 1} /\ {MaxResets, MaxStarts, MaxOpens, MaxOutput} \subseteq Nat
  /\ Requested \subseteq Vendor \cup VendorIn \cup {<<"address">>, <<"configure">>, <<"unconfigure">>, <<"missing">>}
                 \cup ({"get"} \X (Nat \ {0}) \X (Nat \ {0}))

VARIABLES place,       \* where the service thread is
          service,     \* _started, _exit_event, exit_flag and _error_flag
          Dispatchers, \* those on the list of _context
          expired,     \* the timer of the transmit dispatcher has expired
          _setup_io,   \* Status, whether _setup_event is set, and _setup_data
          _setup,      \* the request in hand, or <<>>
          _control,    \* _control_event and the Status of _control_in
          in0, in2,    \* the in endpoints 0 and 2
          rxf,         \* the entries of the receive FIFO
          stack,       \* _address and _configuration; the address in DCFG: sets of bits
          iface,       \* Status of the interface
          ftdi,        \* the serial function
          host,        \* the host
          starts, resets, opens, \* what the bounds count
          halted       \* the assertion that failed, or "no"

serviceVars == <<place, service, Dispatchers, expired>>
controlVars == <<_setup_io, _setup, _control>>
endpointVars == <<in0, in2, rxf>>
functionVars == <<stack, iface, ftdi>>
hostVars == <<host, starts, resets, opens>>
usbdVars == <<serviceVars, controlVars, endpointVars, functionVars, hostVars, halted>>

\* An in endpoint: _ep_in_io is set; Length and Done of the buffer;
\* _in_ep_rem_length, _in_ep_last_packet; and of the core: whether the
\* transmit FIFO is to be filled, holds the packet, or the endpoint stalls,
\* the interrupts of the endpoint, and its bit of DAINTMSK, which lets them in.
IdleIn == [iob |-> FALSE, Length |-> 0, Done |-> 0, rem |-> 0, last |-> 0, fifo |-> "off", int |-> {}, on |-> FALSE]

\* given counts the addresses given since the last reset.
HostAway == [phase |-> "away", ask |-> <<>>, got |-> 0, given |-> 0, configured |-> FALSE]

DeviceInit ==
  /\ place = "off" /\ service = [started |-> FALSE, exit |-> FALSE, exit_flag |-> FALSE, error |-> FALSE]
  /\ Dispatchers = {} /\ expired = FALSE
  /\ _setup_io = [Status |-> "UNKNOWN", event |-> FALSE, data |-> <<>>]
  /\ _setup = <<>>
  /\ _control = [event |-> FALSE, in |-> "UNKNOWN"]
  /\ in0 = IdleIn /\ in2 = IdleIn /\ rxf = <<>>
  /\ stack = [_address |-> {}, _configuration |-> FALSE, DAD |-> {}]
  /\ iface = "STOPPED"
  /\ ftdi = [listed |-> FALSE, Ready |-> FALSE, Entry |-> FALSE, Output |-> 0, TxSize |-> 0,
             Tx |-> "UNKNOWN", TxEvent |-> FALSE, Rx |-> "UNKNOWN", RxEvent |-> FALSE]
  /\ host = HostAway /\ starts = 0 /\ resets = 0 /\ opens = 0
  /\ halted = "no"

DeviceTypeOK ==
  /\ place \in {"off", "top", "dispatch", "request", "wait in", "cancel", "leave", "stopping"}
  /\ service \in [started : BOOLEAN, exit : BOOLEAN, exit_flag : BOOLEAN, error : BOOLEAN]
  /\ Dispatchers \subseteq {"exit", "setup", "rx", "tx"}
  /\ _setup_io.Status \in {"UNKNOWN", "OUT_WAIT", "DONE"} /\ _setup \in Requested \cup {<<>>}
  /\ _control.in \in {"UNKNOWN", "IN_WAIT", "IN_COMPLETE", "DONE"}
  /\ \A e \in {in0, in2} : e.Done <= e.Length /\ e.fifo \in {"off", "fill", "ready", "stall"}
  /\ iface \in {"STOPPED", "STARTED", "STOPPING"}
  /\ ftdi.Output \in 0..MaxOutput /\ ftdi.TxSize \in 0..MaxPacket

----------------------------------------------------------------------------
(* In endpoints *)

Pending == rxf # <<>> \/ \E e \in {in0, in2} : e.on /\ (e.int # {} \/ e.fifo = "fill")

\* Threads run when no interrupt is pending.
Runs == halted = "no" /\ ~Pending
ThreadAt(p) == Runs /\ place = p

Stops(assertion) ==
  /\ halted' = assertion
  /\ UNCHANGED <<serviceVars, controlVars, endpointVars, functionVars, hostVars>>

\* What _prepare_in_ep asserts of endpoint 0: less than 128 bytes at once.
Fits(length) == length < 2 * MaxPacket

\* _prepare_in_ep: whole packets first; what is left over, or nothing, last.
_prepare_in_ep(e) ==
  LET left == e.Length - e.Done
      n == IF left < MaxPacket THEN left ELSE MaxPacket
  IN  [e EXCEPT !.rem = n, !.last = n, !.fifo = IF n = 0 THEN "ready" ELSE "fill"]

\* hal_usbd_prepare_in_ep gives the endpoint a buffer and lets its interrupts
\* in, which those of endpoint 0 are since the bus reset; Asked is its Status.
hal_usbd_prepare_in_ep(e, length) ==
  _prepare_in_ep([e EXCEPT !.iob = TRUE, !.Length = length, !.Done = 0, !.on = TRUE])
Asked(length) == IF length = 0 THEN "IN_COMPLETE" ELSE "IN_WAIT"

\* Disabling an endpoint; the driver takes it that the interrupt always comes.
_disable_in_ep(e) == [e EXCEPT !.fifo = "off", !.int = @ \cup {"EPDISD"}]
hal_usbd_stall_in_ep(e) == [_disable_in_ep(e) EXCEPT !.fifo = "stall"]

\* Buffers for a setup packet and for packets at endpoint 2.
hal_usbd_prepare_setup_ep(io) == [io EXCEPT !.Status = "OUT_WAIT", !.data = <<>>]
hal_usbd_prepare_out_ep(f) == [f EXCEPT !.Rx = "OUT_WAIT"]

\* _write_fifo: the transmit FIFO has room for two packets.
_write_fifo(e) == [e EXCEPT !.Done = @ + e.rem, !.rem = 0, !.fifo = "ready"]

TxFifo0 ==
  /\ halted = "no" /\ rxf = <<>> /\ in0.on /\ in0.fifo = "fill"
  /\ IF ~in0.iob \/ _control.in = "DONE" THEN Stops("tx fifo 0")
     ELSE /\ in0' = _write_fifo(in0)
          /\ _control' = [_control EXCEPT !.in = "IN_COMPLETE"]
          /\ UNCHANGED <<serviceVars, _setup_io, _setup, in2, rxf, functionVars, hostVars, halted>>

\* Faulty variant: the answer ends with its first packet.
Continues_never(e) == FALSE

\* A full packet is followed by another one, which may be empty: _control_in
\* has USB_IOF_SHORT_PACKET_END.
Continues(e) == e.last = MaxPacket

\* Transfer complete.
Complete0 ==
  /\ halted = "no" /\ rxf = <<>> /\ in0.on /\ in0.fifo # "fill" /\ "XFRC" \in in0.int
  /\ IF ~in0.iob THEN Stops("complete 0")
     ELSE IF Continues(in0)
          THEN /\ in0' = _prepare_in_ep([in0 EXCEPT !.int = @ \ {"XFRC"}])
               /\ _control' = [_control EXCEPT !.in = Asked(in0.Length - in0.Done)]
               /\ UNCHANGED <<serviceVars, _setup_io, _setup, in2, rxf, functionVars, hostVars, halted>>
     ELSE IF _control.in # "IN_COMPLETE" \/ in0.Done # in0.Length THEN Stops("complete 0")
     ELSE /\ in0' = [IdleIn EXCEPT !.int = in0.int \ {"XFRC"}, !.on = in0.on]
          /\ _control' = [_control EXCEPT !.in = "DONE", !.event = TRUE]
          /\ UNCHANGED <<serviceVars, _setup_io, _setup, in2, rxf, functionVars, hostVars, halted>>

\* Endpoint disabled: the answer is cancelled, which ends it.
Disabled0 ==
  /\ halted = "no" /\ rxf = <<>> /\ in0.on /\ in0.fifo # "fill" /\ in0.int = {"EPDISD"}
  /\ IF in0.iob /\ _control.in = "DONE" THEN Stops("disabled 0")
     ELSE /\ in0' = [IdleIn EXCEPT !.fifo = IF in0.iob THEN "off" ELSE in0.fifo, !.on = in0.on]
          /\ _control' = IF in0.iob THEN [_control EXCEPT !.in = "DONE", !.event = TRUE] ELSE _control
          /\ UNCHANGED <<serviceVars, _setup_io, _setup, in2, rxf, functionVars, hostVars, halted>>

TxFifo2 ==
  /\ halted = "no" /\ rxf = <<>> /\ in2.on /\ in2.fifo = "fill"
  /\ IF ~in2.iob \/ ftdi.Tx = "DONE" THEN Stops("tx fifo 2")
     ELSE /\ in2' = _write_fifo(in2)
          /\ ftdi' = [ftdi EXCEPT !.Tx = "IN_COMPLETE"]
          /\ UNCHANGED <<serviceVars, controlVars, in0, rxf, stack, iface, hostVars, halted>>

\* The serial function sends at most one packet at a time, and marks a buffer
\* it has given up with UNKNOWN.
Complete2 ==
  /\ halted = "no" /\ rxf = <<>> /\ in2.on /\ in2.fifo # "fill" /\ "XFRC" \in in2.int
  /\ IF \/ ~in2.iob \/ ftdi.Tx \notin {"IN_COMPLETE", "UNKNOWN"}
        \/ ftdi.Tx = "IN_COMPLETE" /\ in2.Done # in2.Length
     THEN Stops("complete 2")
     ELSE /\ in2' = [IdleIn EXCEPT !.int = in2.int \ {"XFRC"}, !.on = in2.on]
          /\ ftdi' = IF ftdi.Tx = "UNKNOWN" THEN ftdi
                     ELSE [ftdi EXCEPT !.Tx = "DONE", !.TxEvent = TRUE]
          /\ UNCHANGED <<serviceVars, controlVars, in0, rxf, stack, iface, hostVars, halted>>

\* Nothing cancels an answer at another endpoint: an assertion says so.
Disabled2 ==
  /\ halted = "no" /\ rxf = <<>> /\ in2.on /\ in2.fifo # "fill" /\ in2.int = {"EPDISD"}
  /\ Stops("disabled 2")

----------------------------------------------------------------------------
(* The receive FIFO *)

\* _handle_rxf.  An entry is a setup packet; an empty packet at endpoint 0;
\* the end of the transfer there, for which no buffer waits; or a packet at
\* endpoint 2.  The host sends a setup packet only when the last one has been
\* read, see HostSetup; one that came before would be written after it.
SetupIn ==
  /\ _setup_io' = IF _setup_io.Status = "OUT_WAIT"
                  THEN [Status |-> "DONE", event |-> TRUE, data |-> host.ask] ELSE _setup_io
  /\ UNCHANGED <<_control, in0, ftdi, halted>>

\* Faulty variant: the answer is not cancelled.
OutPacket_ignored == UNCHANGED <<_setup_io, _control, in0, ftdi, halted>>

\* An empty packet cancels the answer at endpoint 0.
OutPacket ==
  /\ in0' = IF in0.iob THEN _disable_in_ep(in0) ELSE in0
  /\ UNCHANGED <<_setup_io, _control, ftdi, halted>>

Out2Done ==
  /\ ftdi' = IF ftdi.Rx = "OUT_WAIT" THEN [ftdi EXCEPT !.Rx = "DONE", !.RxEvent = TRUE] ELSE ftdi
  /\ halted' = IF ftdi.Rx # "OUT_WAIT" THEN "out 2" ELSE halted
  /\ UNCHANGED <<_setup_io, _control, in0>>

_handle_rxf ==
  /\ halted = "no" /\ rxf # <<>>
  /\ rxf' = Tail(rxf)
  /\ CASE Head(rxf) = "setup" -> SetupIn
       [] Head(rxf) = "out" -> OutPacket
       [] Head(rxf) = "done" -> UNCHANGED <<_setup_io, _control, in0, ftdi, halted>>
       [] Head(rxf) = "out 2" -> Out2Done
  /\ UNCHANGED <<serviceVars, _setup, in2, stack, iface, hostVars>>

----------------------------------------------------------------------------
(* The service thread *)

\* exos_dispatch removes a dispatcher whose event is set, which consumes the
\* event, and calls it.  Which of several comes first is left open here.
Called(d) == ThreadAt("dispatch") /\ d \in Dispatchers

\* The core is reset and the endpoints have no buffers.
hal_usbd_initialize ==
  /\ in0' = IdleIn /\ in2' = IdleIn /\ rxf' = <<>>
  /\ stack' = [stack EXCEPT !.DAD = {}]
  /\ host' = HostAway

usb_device_start ==
  /\ ThreadAt("off") /\ ~service.started /\ starts < MaxStarts
  /\ place' = "top" /\ starts' = starts + 1
  /\ service' = [started |-> TRUE, exit |-> FALSE, exit_flag |-> FALSE, error |-> FALSE]
  /\ Dispatchers' = {"exit"} /\ expired' = FALSE
  /\ _setup_io' = [Status |-> "UNKNOWN", event |-> FALSE, data |-> <<>>]
  /\ _control' = [event |-> FALSE, in |-> "UNKNOWN"]
  /\ hal_usbd_initialize
  /\ UNCHANGED <<_setup, iface, ftdi, resets, opens, halted>>

\* usb_device_stop sets _exit_event and joins the thread.
usb_device_stop ==
  /\ Runs /\ service.started /\ ~service.exit /\ ~service.exit_flag
  /\ service' = [service EXCEPT !.exit = TRUE]
  /\ UNCHANGED <<place, Dispatchers, expired, controlVars, endpointVars, functionVars, hostVars, halted>>

Joined ==
  /\ ThreadAt("off") /\ service.started
  /\ service' = [service EXCEPT !.started = FALSE]
  /\ UNCHANGED <<place, Dispatchers, expired, controlVars, endpointVars, functionVars, hostVars, halted>>

\* The host sees the device.
hal_usbd_connect == host' = IF host.phase = "away" THEN [host EXCEPT !.phase = "attached"] ELSE host

Connect ==
  /\ ThreadAt("top")
  /\ place' = "dispatch"
  /\ service' = [service EXCEPT !.error = FALSE]
  /\ Dispatchers' = Dispatchers \cup {"setup"}
  /\ stack' = [stack EXCEPT !._address = {}, !._configuration = FALSE]
  /\ _setup_io' = hal_usbd_prepare_setup_ep(_setup_io)
  /\ hal_usbd_connect
  /\ UNCHANGED <<expired, _setup, _control, endpointVars, iface, ftdi, starts, resets, opens, halted>>

_exit_handler ==
  /\ Called("exit") /\ service.exit
  /\ place' = "leave" /\ Dispatchers' = Dispatchers \ {"exit"}
  /\ service' = [service EXCEPT !.exit = FALSE, !.exit_flag = TRUE]
  /\ UNCHANGED <<expired, controlVars, endpointVars, functionVars, hostVars, halted>>

\* The client may run before the function is stopped, see _stop.
_stop_configuration == iface' = "STOPPING" /\ place' = "stopping"

\* The loop is left: the setup dispatcher goes, and the configuration stops.
Leave ==
  /\ ThreadAt("leave")
  /\ Dispatchers' = Dispatchers \ {"setup"}
  /\ IF stack._configuration /\ iface = "STARTED" THEN _stop_configuration
     ELSE UNCHANGED iface /\ place' = IF service.exit_flag THEN "off" ELSE "top"
  /\ UNCHANGED <<service, expired, controlVars, endpointVars, stack, ftdi, hostVars, halted>>

\* Faulty variant: the transmit dispatcher stays.
_stop_keeps_tx ==
  /\ ThreadAt("stopping")
  /\ ftdi' = [ftdi EXCEPT !.Entry = FALSE, !.Ready = FALSE, !.listed = FALSE]
  /\ Dispatchers' = Dispatchers \ {"rx"}
  /\ iface' = "STOPPED"
  /\ stack' = [stack EXCEPT !._configuration = FALSE]
  /\ place' = IF service.exit_flag THEN "off" ELSE "top"
  /\ UNCHANGED <<service, expired, controlVars, endpointVars, hostVars, halted>>

_stop ==
  /\ ThreadAt("stopping")
  /\ IF ~ftdi.listed THEN Stops("stop")
     ELSE /\ ftdi' = [ftdi EXCEPT !.Entry = FALSE, !.Ready = FALSE, !.listed = FALSE]
          /\ Dispatchers' = Dispatchers \ {"rx", "tx"}
          /\ expired' = FALSE
          /\ iface' = "STOPPED"
          /\ stack' = [stack EXCEPT !._configuration = FALSE]
          /\ place' = IF service.exit_flag THEN "off" ELSE "top"
          /\ UNCHANGED <<service, controlVars, endpointVars, hostVars, halted>>

----------------------------------------------------------------------------
(* The setup handler *)

\* Requests that bring data from the host are left out: the serial function
\* has none.
_setup_handler ==
  /\ Called("setup") /\ _setup_io.event
  /\ IF _setup_io.Status = "DONE"
     THEN /\ _setup' = _setup_io.data
          /\ _setup_io' = hal_usbd_prepare_setup_ep([_setup_io EXCEPT !.event = FALSE])
          /\ place' = "request"
          /\ Dispatchers' = Dispatchers \ {"setup"}
     ELSE /\ _setup_io' = [_setup_io EXCEPT !.event = FALSE]
          /\ Dispatchers' = Dispatchers \cup {"setup"}
          /\ UNCHANGED <<_setup, place>>
  /\ UNCHANGED <<service, expired, _control, endpointVars, functionVars, hostVars, halted>>

\* The handler ends by adding its dispatcher again.
WaitedIn ==
  /\ ThreadAt("wait in") /\ _control.event
  /\ _control' = [_control EXCEPT !.event = FALSE]
  /\ service' = [service EXCEPT !.error = _control.in # "DONE"]
  /\ place' = IF _control.in = "DONE" THEN "dispatch" ELSE "leave"
  /\ Dispatchers' = Dispatchers \cup {"setup"}
  /\ UNCHANGED <<expired, _setup_io, _setup, endpointVars, functionVars, hostVars, halted>>

\* hal_usbd_prepare_in_ep at endpoint 0.  The handler waits for the end of
\* each answer: EndedTransferIsOver says that it never finds the endpoint in
\* use, which it would have to disable first.
AnswerWith(length) ==
  /\ place' = "wait in" /\ _setup' = <<>>
  /\ in0' = hal_usbd_prepare_in_ep(in0, length)
  /\ _control' = [_control EXCEPT !.in = Asked(length)]

\* A request that is refused stalls the endpoint, and the handler ends.
Refuse(e) ==
  /\ place' = "dispatch" /\ Dispatchers' = Dispatchers \cup {"setup"}
  /\ in0' = e /\ _setup' = <<>>
  /\ UNCHANGED _control

Handles(kind) == ThreadAt("request") /\ Head(_setup) = kind

\* An answer with data, and its refusal.
DataIn(length) ==
  IF ~Fits(length) THEN Stops("length")
  ELSE /\ AnswerWith(length)
       /\ UNCHANGED <<service, Dispatchers, expired, _setup_io, in2, rxf, functionVars, hostVars, halted>>

StallIn ==
  /\ Refuse(hal_usbd_stall_in_ep(in0))
  /\ UNCHANGED <<service, expired, _setup_io, in2, rxf, functionVars, hostVars, halted>>

GetDescriptor == Handles("get") /\ DataIn(Min({_setup[2], _setup[3]}))

\* usb_device_config_get_descriptor finds none.
GetMissing == Handles("missing") /\ StallIn

\* The host gives another address each time.
Address(n) == {<<resets, n>>}

\* The address is ored into the register before the host has the answer.
hal_usbd_set_address_early(address) ==
  stack' = [stack EXCEPT !._address = address, !.DAD = @ \cup address]

SetAddress ==
  /\ Handles("address")
  /\ hal_usbd_set_address_early(Address(host.given + 1))
  /\ AnswerWith(0)
  /\ UNCHANGED <<service, Dispatchers, expired, _setup_io, in2, rxf, iface, ftdi, hostVars, halted>>

\* _start puts the interface on the list of instances and waits for data.
_start ==
  /\ ftdi' = [hal_usbd_prepare_out_ep(ftdi) EXCEPT !.listed = TRUE, !.Tx = "UNKNOWN"]
  /\ Dispatchers' = Dispatchers \cup {"rx"}

\* _set_configuration starts the interface.  No configuration has the value 0.
SetConfiguration ==
  /\ Handles("configure")
  /\ IF ftdi.listed THEN Stops("start")
     ELSE /\ _start
          /\ iface' = "STARTED"
          /\ stack' = [stack EXCEPT !._configuration = TRUE]
          /\ AnswerWith(0)
          /\ UNCHANGED <<service, expired, _setup_io, in2, rxf, hostVars, halted>>

SetNoConfiguration ==
  /\ Handles("unconfigure")
  /\ AnswerWith(0)
  /\ UNCHANGED <<service, Dispatchers, expired, _setup_io, in2, rxf, functionVars, hostVars, halted>>

\* A reset adds the transmit dispatcher; DTR says whether the host has the
\* port open.
ftdi_vendor_request ==
  /\ Dispatchers' = IF _setup = <<"reset">> THEN Dispatchers \cup {"tx"} ELSE Dispatchers
  /\ expired' = (expired /\ _setup # <<"reset">>)
  /\ ftdi' = IF Head(_setup) = "dtr" THEN [ftdi EXCEPT !.Ready = _setup[2]] ELSE ftdi

Serves == stack._configuration /\ ftdi.listed

VendorRequest ==
  /\ ThreadAt("request") /\ _setup \in Vendor
  /\ IF Serves
     THEN AnswerWith(0) /\ ftdi_vendor_request
     ELSE Refuse(in0) /\ UNCHANGED <<expired, ftdi>>
  /\ UNCHANGED <<service, _setup_io, in2, rxf, stack, iface, hostVars, halted>>

\* The answer has the length the host asks for.
VendorRead == Handles("read") /\ IF Serves THEN DataIn(_setup[2]) ELSE StallIn

----------------------------------------------------------------------------
(* The serial function *)

\* The latency timer of the transmit dispatcher, see Timer and Dispatch.
Expire ==
  /\ Runs /\ ~expired /\ "tx" \in Dispatchers
  /\ expired' = TRUE
  /\ UNCHANGED <<place, service, Dispatchers, controlVars, endpointVars, functionVars, hostVars, halted>>

\* The packet in hand has not been taken: wait on, or give it up.
_tx_wait ==
  /\ ftdi' = [ftdi EXCEPT !.TxEvent = FALSE, !.Tx = IF ftdi.Ready THEN @ ELSE "UNKNOWN",
                          !.TxSize = IF ftdi.Ready THEN @ ELSE 0]
  /\ Dispatchers' = IF ftdi.Ready THEN Dispatchers \cup {"tx"} ELSE Dispatchers \ {"tx"}
  /\ UNCHANGED <<place, in2, halted>>

\* A packet carries the modem status, here one byte, and is sent when it is
\* full or late.  An endpoint still in use is disabled first, and waited for:
\* the wait ends in vain when a bus reset has masked its interrupt.
_tx_fill ==
  LET fit == (MaxPacket - 1) - ftdi.TxSize
      done == Min({ftdi.Output, fit})
      size == ftdi.TxSize + done
      sends == done = fit \/ ~ftdi.TxEvent
  IN  /\ ftdi' = [ftdi EXCEPT !.TxEvent = FALSE, !.Output = @ - done,
                              !.TxSize = IF sends THEN 0 ELSE size,
                              !.Tx = IF sends /\ ~in2.iob THEN "IN_WAIT" ELSE @]
      /\ in2' = CASE sends /\ ~in2.iob -> hal_usbd_prepare_in_ep(in2, 1 + size)
                  [] sends /\ in2.iob -> _disable_in_ep(in2)
                  [] OTHER -> in2
      /\ place' = IF sends /\ in2.iob THEN "cancel" ELSE place
      /\ halted' = IF sends /\ in2.iob /\ ~in2.on THEN "cancel" ELSE halted
      /\ Dispatchers' = Dispatchers \cup {"tx"}

_tx_dispatch ==
  /\ Called("tx") /\ (ftdi.TxEvent \/ expired)
  /\ expired' = FALSE
  /\ IF ftdi.Tx \in {"IN_WAIT", "IN_COMPLETE"} THEN _tx_wait ELSE _tx_fill
  /\ UNCHANGED <<service, controlVars, in0, rxf, stack, iface, hostVars>>

\* What arrived goes to the input buffer, and the endpoint waits again.  An
\* event left over from before a restart finds nothing: the dispatcher goes.
_rx_dispatch ==
  /\ Called("rx") /\ ftdi.RxEvent
  /\ IF ftdi.Rx = "DONE"
     THEN /\ ftdi' = [hal_usbd_prepare_out_ep(ftdi) EXCEPT !.RxEvent = FALSE]
          /\ UNCHANGED Dispatchers
     ELSE /\ ftdi' = [ftdi EXCEPT !.RxEvent = FALSE]
          /\ Dispatchers' = Dispatchers \ {"rx"}
  /\ UNCHANGED <<place, service, expired, controlVars, endpointVars, stack, iface, hostVars, halted>>

\* The client: a port opens only on an interface that has started and is ready.
_open ==
  /\ Runs /\ ~ftdi.Entry /\ iface = "STARTED" /\ ftdi.Ready
  /\ ftdi' = [ftdi EXCEPT !.Entry = TRUE, !.Output = 0]
  /\ UNCHANGED <<serviceVars, controlVars, endpointVars, stack, iface, hostVars, halted>>

_close ==
  /\ Runs /\ ftdi.Entry
  /\ ftdi' = [ftdi EXCEPT !.Entry = FALSE]
  /\ UNCHANGED <<serviceVars, controlVars, endpointVars, stack, iface, hostVars, halted>>

_write ==
  /\ Runs /\ ftdi.Entry /\ ftdi.Ready /\ ftdi.Output < MaxOutput
  /\ ftdi' = [ftdi EXCEPT !.Output = @ + 1]
  /\ UNCHANGED <<serviceVars, controlVars, endpointVars, stack, iface, hostVars, halted>>

----------------------------------------------------------------------------
(* The host *)

\* Within a transfer the host does not wait for interrupts, but the core has
\* one packet in its receive FIFO at a time.
HostSees(p) == halted = "no" /\ rxf = <<>> /\ host.phase = p
Ended == [host EXCEPT !.phase = "idle", !.ask = <<>>, !.got = 0]
HostLeaves == UNCHANGED <<serviceVars, controlVars, functionVars, starts, halted>>

\* The two interrupts of a bus reset, USBRST and ENUMDNE, let in those of
\* endpoint 0 alone, and turn its core side off.
_reset == in0' = [in0 EXCEPT !.fifo = "off", !.on = TRUE] /\ in2' = [in2 EXCEPT !.on = FALSE]

\* Faulty variant: the address stays.
BusReset_keeps_address ==
  /\ Runs /\ host.phase \in {"attached", "idle"}
  /\ resets < MaxResets
  /\ resets' = resets + 1
  /\ host' = [HostAway EXCEPT !.phase = "idle"]
  /\ _reset
  /\ UNCHANGED <<serviceVars, controlVars, rxf, functionVars, starts, opens, halted>>

\* A bus reset, between two transfers.  The interrupts also clear the address;
\* the service thread is not told.
BusReset ==
  /\ Runs /\ host.phase \in {"attached", "idle"}
  /\ resets < MaxResets
  /\ resets' = resets + 1
  /\ host' = [HostAway EXCEPT !.phase = "idle"]
  /\ stack' = [stack EXCEPT !.DAD = {}]
  /\ _reset
  /\ UNCHANGED <<serviceVars, controlVars, rxf, iface, ftdi, starts, opens, halted>>

\* The address the host uses: the last one it has given.
HostAddress == IF host.given = 0 THEN {} ELSE Address(host.given)

\* A transfer begins with a setup packet, which clears a stall.  Endpoint 0
\* takes one as soon as the last one has been read, when the core answers to
\* the address; the host may give an address more than once.
HostSetup ==
  /\ Runs /\ host.phase = "idle" /\ ~_setup_io.event /\ stack.DAD = HostAddress
  /\ \E r \in Requested :
       /\ r = <<"address">> => ~host.configured
       /\ r = <<"configure">> => host.given > 0 /\ ~host.configured
       /\ r = <<"unconfigure">> => host.configured
       /\ r = <<"reset">> => host.configured /\ opens < MaxOpens
       /\ r = <<"dtr", TRUE>> => host.configured
       /\ opens' = IF r = <<"reset">> THEN opens + 1 ELSE opens
       /\ host' = [host EXCEPT !.ask = r, !.got = 0,
                               !.phase = CASE r[1] \in {"get", "missing", "read"} -> "data in"
                                           [] OTHER -> "status in"]
  /\ rxf' = <<"setup">>
  /\ in0' = [in0 EXCEPT !.fifo = IF @ = "stall" THEN "off" ELSE @]
  /\ UNCHANGED <<in2, resets>> /\ HostLeaves

\* A packet of the answer.  A short one, or the last byte asked for, ends it.
HostIn ==
  /\ HostSees("data in") /\ in0.fifo = "ready"
  /\ in0' = [in0 EXCEPT !.fifo = "off", !.int = @ \cup {"XFRC"}]
  /\ LET got == host.got + in0.last
     IN  host' = [host EXCEPT !.got = got,
                              !.phase = IF in0.last < MaxPacket \/ got >= host.ask[Len(host.ask)] THEN "status out" ELSE @]
  /\ UNCHANGED <<in2, rxf, resets, opens>> /\ HostLeaves

\* The empty packet that acknowledges the answer, and the end of the transfer.
HostStatusOut ==
  /\ HostSees("status out")
  /\ rxf' = <<"out", "done">>
  /\ host' = Ended
  /\ UNCHANGED <<in0, in2, resets, opens>> /\ HostLeaves

HostStatusIn ==
  /\ HostSees("status in") /\ in0.fifo = "ready"
  /\ in0' = [in0 EXCEPT !.fifo = "off", !.int = @ \cup {"XFRC"}]
  /\ host' = [Ended EXCEPT !.given = IF host.ask = <<"address">> THEN @ + 1 ELSE @,
                           !.configured = (@ \/ host.ask = <<"configure">>) /\ host.ask # <<"unconfigure">>]
  /\ UNCHANGED <<in2, rxf, resets, opens>> /\ HostLeaves

\* The endpoint stalls; or no answer comes, and the host gives up: the
\* request was refused, or the service has gone.
HostFails ==
  /\ Runs /\ host.phase \in {"data in", "status in", "status out"}
  /\ \/ host.phase = "data in" /\ in0.fifo = "stall"
     \/ in0.fifo = "off" /\ ~_setup_io.event /\ place = "dispatch"
     \/ place = "off"
  /\ host' = Ended
  /\ UNCHANGED <<endpointVars, resets, opens>> /\ HostLeaves

HostIn2 ==
  /\ halted = "no" /\ host.configured /\ in2.fifo = "ready"
  /\ in2' = [in2 EXCEPT !.fifo = "off", !.int = @ \cup {"XFRC"}]
  /\ UNCHANGED <<in0, rxf, host, resets, opens>> /\ HostLeaves

HostOut2 ==
  /\ halted = "no" /\ rxf = <<>> /\ host.configured /\ ftdi.Rx = "OUT_WAIT"
  /\ rxf' = <<"out 2">>
  /\ UNCHANGED <<in0, in2, host, resets, opens>> /\ HostLeaves

----------------------------------------------------------------------------
(* Specification *)

Interrupts == _handle_rxf \/ TxFifo0 \/ Complete0 \/ Disabled0 \/ TxFifo2 \/ Complete2 \/ Disabled2
Requests == GetDescriptor \/ GetMissing \/ SetAddress \/ SetConfiguration \/ SetNoConfiguration
              \/ VendorRequest \/ VendorRead
Service == Connect \/ _exit_handler \/ _setup_handler \/ Requests \/ WaitedIn \/ Leave \/ _stop
Function == _tx_dispatch \/ _rx_dispatch \/ Expire
Application == usb_device_start \/ usb_device_stop \/ Joined \/ _open \/ _close \/ _write
Host == BusReset \/ HostSetup \/ HostIn \/ HostStatusOut \/ HostStatusIn \/ HostFails \/ HostIn2 \/ HostOut2

DeviceNext == Interrupts \/ Service \/ Function \/ Application \/ Host

DeviceSpec == DeviceInit /\ [][DeviceNext]_usbdVars

----------------------------------------------------------------------------
(* Properties *)

\* The setup handler is done with a transfer when the host is.  Once the host
\* has ended one and the interrupts are handled, endpoint 0 has no buffer
\* left and the thread is not left waiting; and while it waits for events,
\* the next setup packet is one of them.  A request finds endpoint 0 free: the
\* branch of hal_usbd_prepare_in_ep for one in use is not taken.  An answer of
\* whole packets is followed by an empty one that the host need not fetch:
\* only the status packet ends it, by disabling the endpoint.
EndedTransferIsOver ==
  /\ DeviceTypeOK
  /\ halted = "no" /\ ~Pending /\ host.phase = "idle" =>
       ~in0.iob /\ (place = "wait in" => _control.event)
  /\ place = "dispatch" => "setup" \in Dispatchers
  /\ halted = "no" /\ place = "request" => ~in0.iob

\* The assertions of driver and function hold: interrupts come when a buffer
\* is there, in the Status they ask for, with all of it sent.  Four can fail.
\* _start finds the interface on its list when the host configures the device
\* again, after a reset or not: the comment at the line says so.  A host that
\* opens the port again with a packet it never fetched makes the driver
\* disable endpoint 2, which its interrupt handler does not allow; or, when a
\* bus reset has masked that interrupt, the driver waits for it in vain.  And
\* an answer of 128 bytes or more, a descriptor of that length or a read of
\* the EEPROM, does not fit endpoint 0.
OnlyFourAssertionsFail == halted \in {"no", "start", "disabled 2", "cancel", "length"}

\* hal_usbd_set_address_early ors the address into the register before the
\* host has the answer, and only a bus reset clears it.  The core answers to
\* the address the host gave it when it has given one since the last reset; a
\* second one is mixed with the first, and the host has lost the device.
AddressAgrees ==
  host.phase = "idle" => /\ stack.DAD = UNION {Address(n) : n \in 1..host.given}
                         /\ host.given <= 1 <=> stack.DAD = HostAddress

\* What _stop leaves behind: an interface that has stopped has no open port,
\* is not ready, is off the list of instances and has no dispatcher, also
\* when the client opens the port while the interface stops.
StoppedIsClosed ==
  iface = "STOPPED" => ~ftdi.Entry /\ ~ftdi.Ready /\ ~ftdi.listed /\ Dispatchers \cap {"rx", "tx"} = {}
=============================================================================
