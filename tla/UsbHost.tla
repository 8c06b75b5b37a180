------------------------------ MODULE UsbHost ------------------------------
(***************************************************************************)
(* The USB host above UsbCore: the root port (_port_callback and the port  *)
(* interrupts of usb_fs_host_core.c), the device on it with its control    *)
(* requests and enumeration (kernel/driver/usb/host.c, enumerate.c,        *)
(* _create_device of usb_fs_host_drv.c), and a HID function of the device  *)
(* (support/usb/driver/hid.c).                                             *)
(*                                                                         *)
(* Two threads run: the context thread, in which the dispatchers of the    *)
(* root port and of the HID function call back, and a client of the HID    *)
(* function, which sends reports over the control pipe.  Both, and the     *)
(* interrupts, interleave at every call that blocks and around the end of  *)
(* a request.  The build is the DEBUG one: assertions stop the system.     *)
(* The device has one configuration with one interface, and hid.c is the   *)
(* one driver: the loops of the enumeration run once.                      *)
(***************************************************************************)
EXTENDS UsbCore

CONSTANT MaxPlugs    \* bound: how often a device is plugged in

Thread == {"context", "client"}

VARIABLES port,        \* _port_state, PCSTS, RootHubEvent, and the dispatcher's timeout
          role,        \* the role state of usb_otg_fs.c
          plugs,       \* how often a device was plugged in
          DeviceState, \* State of the root device, "NONE" before it is created
          func,        \* the HID function
          Control,     \* the owner of ControlMutex
          Mutex,       \* the owner of _mutex
          pc,          \* thread -> where it is
          todo,        \* the request of the enumeration
          stages,      \* thread -> the stages of its control request that are left
          local,       \* thread -> its local variables ep and ch
          stopping     \* the pipe being stopped

deviceVars == <<DeviceState, func>>
threadVars == <<Control, Mutex, pc, todo, stages, local, stopping>>
portVars == <<port, role, plugs>>
usbVars == <<coreVars, PENA, panic, deviceVars, threadVars, portVars>>

\* func: Handler is set; the function is in the list Functions; its client
\* was started; ExitFlag; where its dispatcher is: not added, added with
\* nothing to wait for, added with no wait handle yet, or with one.
UsbInit ==
  /\ CoreInit
  /\ port = [state |-> "POWERED", connected |-> FALSE, event |-> FALSE, timed |-> FALSE]
  /\ role = "HOST" /\ plugs = 0
  /\ DeviceState = "NONE"
  /\ func = [Handler |-> FALSE, listed |-> FALSE, client |-> FALSE, Exit |-> FALSE, disp |-> "none"]
  /\ Control = nullptr /\ Mutex = nullptr
  /\ pc = [t \in Thread |-> "idle"]
  /\ todo = 0
  /\ stages = [t \in Thread |-> <<>>]
  /\ local = [t \in Thread |-> [ep |-> nullptr, ch |-> nullptr]]
  /\ stopping = nullptr

At(t, place) == Alive /\ pc[t] = place
Goto(t, place) == pc' = [pc EXCEPT ![t] = place]

\* An assertion fails, or kernel_panic is called.
Fails(assertion) ==
  /\ panic' = assertion
  /\ UNCHANGED <<coreVars, PENA, deviceVars, threadVars, portVars>>

----------------------------------------------------------------------------
(* Control requests *)

\* usb_host_ctrl_setup is called: the stages follow each other while they succeed.
Call(t, list) ==
  /\ stages' = [stages EXCEPT ![t] = list]
  /\ Goto(t, "control")

LockControl(t) ==
  /\ At(t, "control") /\ Control = nullptr
  /\ Control' = t
  /\ Goto(t, "mutex")
  /\ UNCHANGED <<coreVars, PENA, panic, deviceVars, portVars, Mutex, todo, stages, local, stopping>>

\* _ctrl_setup_read and _write; _mutex is recursive and _create_device has it.
LockMutex(t) ==
  /\ At(t, "mutex") /\ Mutex \in {nullptr, t}
  /\ Mutex' = t
  /\ Status' = [Status EXCEPT ![t] = "EMPTY"]
  /\ Goto(t, "begin")
  /\ UNCHANGED <<ch, ep, free, _root_control_ep, Endpoint, waiting, woken, PENA, panic,
                 deviceVars, portVars, Control, todo, stages, local, stopping>>

\* _do_control_xfer up to the channel it finds.
_do_control_xfer(t) ==
  LET e == Endpoint["control"]
      stage == Head(stages[t])
      c == IF stage = "Rx" THEN ep[e].Rx ELSE ep[e].Tx
  IN  /\ At(t, "begin")
      /\ IF e = nullptr THEN Fails("_do_control_xfer")
         ELSE IF stage = "setup" /\ ~ControlOpen(e) THEN Fails("_update_channel")
         ELSE IF c = nullptr THEN Fails("usb_fs_host_begin_xfer")
         ELSE /\ Status' = [Status EXCEPT ![t] = "ISSUED"]
              /\ local' = [local EXCEPT ![t] = [ep |-> e, ch |-> c]]
              /\ Goto(t, "issue")
              /\ UNCHANGED <<ch, ep, free, _root_control_ep, Endpoint, waiting, woken, PENA, panic,
                             deviceVars, portVars, Control, Mutex, todo, stages, stopping>>

\* The request is put on the channel, which may be closed by now: _write_fifo
\* asserts that an output channel is not.
IssueControl(t) ==
  /\ At(t, "issue")
  /\ IF Head(stages[t]) # "Rx" /\ ch[local[t].ch].ep = nullptr THEN Fails("_write_fifo")
     ELSE /\ Issue(t, local[t])
          /\ Goto(t, "enter")
          /\ UNCHANGED <<free, _root_control_ep, Endpoint, Status, waiting, woken, PENA, panic,
                         deviceVars, portVars, Control, Mutex, todo, stages, local, stopping>>

\* exos_event_wait: what was announced before is not noticed any more.
EnterWait(t) ==
  /\ At(t, "enter")
  /\ waiting' = waiting \cup {t}
  /\ Goto(t, "wait")
  /\ UNCHANGED <<ch, ep, free, _root_control_ep, Endpoint, Status, woken, PENA, panic,
                 deviceVars, portVars, Control, Mutex, todo, stages, local, stopping>>

\* The DEBUG build waits 3 seconds, says so and waits again.
WaitAgain(t) ==
  /\ At(t, "wait") /\ t \in waiting
  /\ waiting' = waiting \ {t}
  /\ Goto(t, "enter")
  /\ UNCHANGED <<ch, ep, free, _root_control_ep, Endpoint, Status, woken, PENA, panic,
                 deviceVars, portVars, Control, Mutex, todo, stages, local, stopping>>

\* The thread was resumed.  Before the data of a write to a low-speed device
\* it waits for a frame to start: it may stay where it begins the next stage
\* for any time, as any thread may.  After the last stage, or a failed one, it gives
\* back the mutexes; the context thread keeps _mutex for _create_device.
Resumed(t) ==
  /\ At(t, "wait") /\ t \in woken
  /\ IF ep[local[t].ep].Status # "IDLE" THEN Fails("ep->Status == STM32_EP_STA_IDLE")
     ELSE /\ woken' = woken \ {t}
          /\ IF Status[t] = "DONE" /\ Len(stages[t]) > 1
             THEN /\ stages' = [stages EXCEPT ![t] = Tail(@)]
                  /\ Goto(t, "begin")
                  /\ UNCHANGED <<Control, Mutex, local>>
             ELSE /\ stages' = [stages EXCEPT ![t] = <<>>]
                  /\ local' = [local EXCEPT ![t] = [ep |-> nullptr, ch |-> nullptr]]
                  /\ Control' = nullptr
                  /\ Mutex' = IF t = "client" THEN nullptr ELSE Mutex
                  /\ Goto(t, IF t = "client" THEN "idle"
                             ELSE IF Status[t] = "DONE" THEN "next" ELSE "failed")
          /\ UNCHANGED <<ch, ep, free, _root_control_ep, Endpoint, Status, waiting, PENA, panic,
                         deviceVars, portVars, todo, stopping>>

\* usb_hid_set_report of the client; the device may be detached after the test.
usb_hid_set_report ==
  /\ At("client", "idle")
  /\ func.client /\ DeviceState = "ATTACHED"
  /\ Call("client", <<"setup", "Tx", "Rx">>)
  /\ UNCHANGED <<coreVars, PENA, panic, deviceVars, portVars, Control, Mutex, todo, local, stopping>>

----------------------------------------------------------------------------
(* Enumeration *)

Request == <<"descriptor8", "address", "descriptor", "configuration9", "configuration",
             "set configuration", "report descriptor">>
Ask(n) ==
  /\ todo' = n
  /\ Call("context", IF Request[n] \in {"address", "set configuration"}
                     THEN <<"setup", "Rx">> ELSE <<"setup", "Rx", "Tx">>)

\* usb_host_create_root_device, 200 ms after the port is ready: the device is
\* filled in, its ControlMutex made anew.
usb_host_create_root_device ==
  /\ At("context", "attach")
  /\ DeviceState' = "CREATED"
  /\ func' = [func EXCEPT !.listed = FALSE]
  /\ Endpoint' = [Endpoint EXCEPT !["control"] = nullptr]
  /\ Control' = nullptr
  /\ Goto("context", "create")
  /\ UNCHANGED <<ch, ep, free, _root_control_ep, Status, waiting, woken, PENA, panic,
                 portVars, Mutex, todo, stages, local, stopping>>

\* _create_device starts the control pipe and asks for the descriptor.
_create_device ==
  /\ At("context", "create") /\ Mutex = nullptr
  /\ usb_fs_host_start_pipe("control")
  /\ IF CanStart("control")
     THEN DeviceState' = "ATTACHED" /\ Mutex' = "context" /\ Ask(1)
     ELSE Goto("context", "idle") /\ UNCHANGED <<DeviceState, Mutex, todo, stages>>
  /\ UNCHANGED <<Status, PENA, panic, func, portVars, Control, local, stopping>>

\* _create_device is over: _mutex is given back.
Created(state, f) ==
  /\ DeviceState' = state /\ func' = f
  /\ Mutex' = nullptr /\ todo' = 0
  /\ Goto("context", "idle")
  /\ UNCHANGED <<stages, local, stopping>>

\* The next request.  After the configuration descriptor _enum_interfaces
\* looks for a driver: _check_interface of hid.c has one instance, which is in
\* use as long as its Handler is set.
Proceed ==
  /\ At("context", "next")
  /\ UNCHANGED <<ch, ep, free, _root_control_ep, Status, waiting, woken, PENA, panic, portVars, Control>>
  /\ \/ /\ Request[todo] \notin {"configuration", "report descriptor"}
        /\ Ask(todo + 1)
        /\ UNCHANGED <<Endpoint, deviceVars, Mutex, local, stopping>>
     \/ /\ Request[todo] = "configuration" /\ ~func.Handler
        /\ func' = [func EXCEPT !.Handler = TRUE, !.Exit = FALSE]
        /\ Endpoint' = [Endpoint EXCEPT !["input"] = nullptr]
        /\ Ask(todo + 1)
        /\ UNCHANGED <<DeviceState, Mutex, local, stopping>>
     \/ Request[todo] = "configuration" /\ Created("DETACHED", func) /\ UNCHANGED Endpoint
     \/ /\ Request[todo] = "report descriptor"
        /\ Goto("context", "start")
        /\ UNCHANGED <<Endpoint, deviceVars, Mutex, todo, stages, local, stopping>>

\* A request failed: the device is detached.  Two requests are different: a
\* failed SET_ADDRESS panics, and a HID function whose report descriptor
\* cannot be read is added all the same, without its pipe.
Failed ==
  /\ At("context", "failed")
  /\ IF Request[todo] = "address" THEN Fails("usb_host_set_address")
     ELSE /\ IF Request[todo] = "report descriptor"
             THEN Created("ATTACHED", [func EXCEPT !.listed = TRUE])
             ELSE Created("DETACHED", func)
          /\ UNCHANGED <<coreVars, PENA, panic, portVars, Control>>

\* The driver's Start: it takes the function, and its client may run at once,
\* or it does not, and the function is added without its pipe.
DriverStart ==
  /\ At("context", "start")
  /\ \/ /\ func' = [func EXCEPT !.client = TRUE]
        /\ Goto("context", "startpipe")
        /\ UNCHANGED <<DeviceState, Mutex, todo, stages, local, stopping>>
     \/ Created("ATTACHED", [func EXCEPT !.Handler = FALSE, !.listed = TRUE])
  /\ UNCHANGED <<coreVars, PENA, panic, portVars, Control>>

\* usb_host_start_pipe of the input pipe, which takes ControlMutex, and the end
\* of _start and of the enumeration: the dispatcher is to be called at once.
StartInput ==
  /\ At("context", "startpipe") /\ Control = nullptr
  /\ IF ~CanStart("input") THEN Fails("usb_host_start_pipe")
     ELSE /\ usb_fs_host_start_pipe("input")
          /\ Status' = [Status EXCEPT !["input"] = "EMPTY"]
          /\ Created("ATTACHED", [func EXCEPT !.listed = TRUE, !.disp = "now"])
          /\ UNCHANGED <<PENA, panic, portVars, Control>>

----------------------------------------------------------------------------
(* The dispatchers of the context thread *)

\* exos_event_set(&_hc->RootHubEvent): the wait handle of the port's
\* dispatcher is done, or the event stays set until it has one.
NotifyPort(p) ==
  IF "port" \in waiting
  THEN port' = p /\ waiting' = waiting \ {"port"} /\ woken' = woken \cup {"port"}
  ELSE port' = [p EXCEPT !.event = TRUE] /\ UNCHANGED <<waiting, woken>>

\* exos_dispatch gives the event of a dispatcher that was added its handle,
\* which it keeps until it is called or removed.
AddHandle(d) ==
  /\ At("context", "idle")
  /\ IF d = "input" THEN func.disp = "added" /\ func' = [func EXCEPT !.disp = "armed"]
     ELSE /\ role # "DEVICE" /\ ~port.event /\ "port" \notin waiting \cup woken
          /\ UNCHANGED func
  /\ waiting' = waiting \cup {d}
  /\ UNCHANGED <<ch, ep, free, _root_control_ep, Endpoint, Status, woken, PENA, panic,
                 DeviceState, threadVars, portVars>>

\* _dispatch of hid.c: the input that ended is reported, and the next one is
\* begun, unless it failed or the function is being stopped.
HidDispatch ==
  LET exit == func.Exit \/ Status["input"] = "FAILED"
      c == ep[Endpoint["input"]].Rx
  IN  /\ At("context", "idle") /\ (func.disp = "now" \/ "input" \in woken)
      /\ IF ~exit /\ c = nullptr THEN Fails("usb_fs_host_begin_xfer")
         ELSE /\ func' = [func EXCEPT !.Exit = exit, !.disp = IF exit THEN "none" ELSE "added"]
              /\ woken' = woken \ {"input"}
              /\ IF exit THEN UNCHANGED <<ch, ep, Status>>
                 ELSE Issue("input", [ep |-> Endpoint["input"], ch |-> c]) /\ Status' = [Status EXCEPT !["input"] = "ISSUED"]
              /\ UNCHANGED <<free, _root_control_ep, Endpoint, waiting, PENA, panic,
                             DeviceState, threadVars, portVars>>

\* _port_callback is called for its event or its timeout, in state s.
PortCallback(s, p) ==
  /\ At("context", "idle") /\ port.state = s
  /\ \/ "port" \in woken /\ port' = p
     \/ port.event /\ "port" \notin waiting \cup woken /\ port' = [p EXCEPT !.event = FALSE]
     \/ port.timed /\ "port" \notin woken /\ port' = p
  /\ waiting' = waiting \ {"port"} /\ woken' = woken \ {"port"}
  /\ UNCHANGED <<ch, ep, free, _root_control_ep, Endpoint, Status, PENA, deviceVars,
                 plugs, Control, Mutex, todo, stages, local, stopping>>

\* The callback is over, or goes on after a sleep.
Then(place) == Goto("context", place) /\ UNCHANGED <<panic, role>>

\* Every callback reads the port once, on entry.  With a role switch under way
\* and no device the port is disabled and usb_device_start takes over:
\* the assertion that it did is taken to hold, the device service is not here.
PortPowered ==
  \/ port.connected /\ PortCallback("POWERED", [port EXCEPT !.timed = FALSE]) /\ Then("debounce")
  \/ /\ ~port.connected /\ role = "HOST"
     /\ PortCallback("POWERED", [port EXCEPT !.timed = FALSE]) /\ Then("idle")
  \/ /\ ~port.connected /\ role = "HOST_CLOSING"
     /\ PortCallback("POWERED", [port EXCEPT !.timed = FALSE, !.state = "DISABLED"])
     /\ role' = "DEVICE" /\ UNCHANGED <<pc, panic>>

\* 50 ms later the reset begins, whatever has happened to the port.
PortDebounced ==
  /\ At("context", "debounce")
  /\ port' = [port EXCEPT !.state = "RESET", !.timed = TRUE]
  /\ Goto("context", "idle")
  /\ UNCHANGED <<coreVars, PENA, panic, role, plugs, deviceVars, Control, Mutex, todo, stages,
                 local, stopping>>

PortReset ==
  /\ PortCallback("RESET", [port EXCEPT !.timed = ~port.connected,
                              !.state = IF port.connected THEN "RESET_DONE" ELSE "POWERED"])
  /\ Then("idle")

PortResetDone ==
  /\ PortCallback("RESET_DONE", [port EXCEPT !.timed = ~PENA, !.state = IF PENA THEN "READY" ELSE "POWERED"])
  /\ Then(IF PENA THEN "attach" ELSE "idle")

PortError ==
  PortCallback("ERROR", [port EXCEPT !.timed = TRUE, !.state = "READY"]) /\ Then("idle")

\* The device is to be removed: usb_host_destroy_device, and then the control
\* pipe is stopped.
PortReady ==
  /\ PortCallback("READY", [port EXCEPT !.timed = FALSE])
  /\ UNCHANGED role
  /\ IF PENA THEN panic' = "HPORT_READY" /\ UNCHANGED pc
     ELSE IF DeviceState = "NONE" THEN panic' = "usb_host_destroy_device" /\ UNCHANGED pc
     ELSE Goto("context", IF DeviceState = "CREATED" THEN "root" ELSE "detach") /\ UNCHANGED panic

----------------------------------------------------------------------------
(* Removal of the device *)

_destroy_device ==
  /\ At("context", "detach") /\ Mutex = nullptr
  /\ DeviceState' = "DETACHED"
  /\ Goto("context", IF func.listed THEN "stop" ELSE "root")
  /\ UNCHANGED <<coreVars, PENA, panic, func, portVars, Control, Mutex, todo, stages, local, stopping>>

\* usb_fs_host_stop_pipe of the control pipe, and by way of _stop of hid.c and
\* usb_host_stop_pipe, with ControlMutex, of the input pipe.
usb_fs_host_stop_pipe(p) ==
  /\ At("context", IF p = "control" THEN "root" ELSE "stop")
  /\ p = "input" => Control = nullptr
  /\ IF Endpoint[p] = nullptr THEN Fails("usb_fs_host_stop_pipe")
     ELSE /\ ep' = [ep EXCEPT ![Endpoint[p]].Status = "STOPPING"]
          /\ stopping' = p
          /\ IF p = "control" THEN UNCHANGED <<func, Control>>
             ELSE func' = [func EXCEPT !.Exit = TRUE] /\ Control' = "context"
          /\ Goto("context", "Tx")
          /\ UNCHANGED <<ch, free, _root_control_ep, Endpoint, Status, waiting, woken, PENA, panic,
                         DeviceState, portVars, Mutex, todo, stages, local>>

\* Faulty variant: an endpoint that has two channels closes the first only.
Cancel_first(side, close, next) ==
  LET c == ep[Endpoint[stopping]][side] IN
  /\ At("context", side)
  /\ IF c = nullptr \/ (side = "Rx" /\ stopping = "control")
     THEN Goto("context", next) /\ UNCHANGED <<Status, waiting, woken>>
     ELSE Goto("context", close) /\ Announce(Ending(c), "FAILED")
  /\ local' = [local EXCEPT !["context"].ch = c]
  /\ UNCHANGED <<ch, ep, free, _root_control_ep, Endpoint, PENA, panic,
                 deviceVars, portVars, Control, Mutex, todo, stages, stopping>>

\* _disable_channel on a disabled port, as the port is when a device is
\* removed: the waiting thread may run before the rest of _xfer_complete.
Cancel(side, close, next) ==
  LET c == ep[Endpoint[stopping]][side] IN
  /\ At("context", side)
  /\ IF c = nullptr THEN Goto("context", next) /\ UNCHANGED <<Status, waiting, woken>>
     ELSE Goto("context", close) /\ Announce(Ending(c), "FAILED")
  /\ local' = [local EXCEPT !["context"].ch = c]
  /\ UNCHANGED <<ch, ep, free, _root_control_ep, Endpoint, PENA, panic,
                 deviceVars, portVars, Control, Mutex, todo, stages, stopping>>

Cancelled(close, next) ==
  LET c == local["context"].ch IN
  /\ At("context", close)
  /\ IF ch[c].ep = nullptr THEN Fails("_free_channel")
     ELSE /\ Settle(c, Ending(c), TRUE, "off")
          /\ local' = [local EXCEPT !["context"].ch = nullptr]
          /\ Goto("context", next)
          /\ UNCHANGED <<free, _root_control_ep, Endpoint, Status, waiting, woken, PENA, panic,
                         deviceVars, portVars, Control, Mutex, todo, stages, stopping>>

\* The endpoint goes back to the pool; the control pipe is the last.
StopDone ==
  LET e == Endpoint[stopping] IN
  /\ At("context", "pool")
  /\ IF e \in {free[i] : i \in DOMAIN free} THEN Fails("pool_free")
     ELSE
     /\ ep' = [ep EXCEPT ![e].Status = "IDLE"]
     /\ free' = pool_free(e)
     /\ IF stopping = "input"
        THEN /\ Goto("context", "stopped") /\ Control' = nullptr
             /\ UNCHANGED <<role, port>>
        ELSE /\ Goto("context", "idle")
             /\ role' = IF role = "HOST" THEN role ELSE "DEVICE"
             /\ port' = [port EXCEPT !.state = IF role = "HOST" THEN "POWERED" ELSE "DISABLED"]
             /\ UNCHANGED Control
     /\ stopping' = nullptr
     /\ UNCHANGED <<ch, _root_control_ep, Endpoint, Status, waiting, woken, PENA, panic,
                    deviceVars, plugs, Mutex, todo, stages, local>>

\* The rest of _stop of hid.c: dispatcher and client are done with.
HidStopped ==
  /\ At("context", "stopped")
  /\ IF ~func.Handler THEN func' = func /\ UNCHANGED <<waiting, woken>>
     ELSE /\ func' = [func EXCEPT !.Handler = FALSE, !.client = FALSE, !.disp = "none"]
          /\ waiting' = waiting \ {"input"} /\ woken' = woken \ {"input"}
  /\ Goto("context", "root")
  /\ UNCHANGED <<ch, ep, free, _root_control_ep, Endpoint, Status, PENA, panic, DeviceState,
                 portVars, Control, Mutex, todo, stages, local, stopping>>

----------------------------------------------------------------------------
(* The world: the plug, the port, the user who asks for a role switch *)

Elsewhere == /\ Alive /\ role # "DEVICE"
             /\ UNCHANGED <<ch, ep, free, _root_control_ep, Endpoint, Status, panic,
                            deviceVars, threadVars>>

\* PCDET
Plug ==
  /\ Elsewhere /\ ~port.connected /\ plugs < MaxPlugs
  /\ plugs' = plugs + 1
  /\ NotifyPort([port EXCEPT !.connected = TRUE])
  /\ UNCHANGED <<role, PENA>>

\* DISCINT, with PENCHNG when the port was enabled
Unplug ==
  /\ Elsewhere /\ port.connected
  /\ PENA' = FALSE
  /\ NotifyPort([port EXCEPT !.connected = FALSE, !.state = "ERROR"])
  /\ UNCHANGED <<role, plugs>>

\* PENCHNG: the port is enabled after its reset, or disabled by an error.
EnableChange ==
  /\ Elsewhere /\ port.connected
  /\ PENA \/ port.state = "RESET_DONE"
  /\ PENA' = ~PENA
  /\ NotifyPort(port)
  /\ UNCHANGED <<role, plugs>>

usb_fs_request_role_switch ==
  /\ Elsewhere /\ role = "HOST" /\ port.state \in {"READY", "POWERED"}
  /\ role' = "HOST_CLOSING"
  /\ IF port.state = "POWERED" THEN NotifyPort(port) ELSE UNCHANGED <<port, waiting, woken>>
  /\ UNCHANGED <<plugs, PENA>>

\* _otg_callback, when device mode is over: no channel may be in use.
_host_reset ==
  /\ At("context", "idle") /\ role = "DEVICE"
  /\ IF FreeChannels # Channel THEN Fails("_host_reset")
     ELSE /\ free' = [i \in Ep |-> i]
          /\ _root_control_ep' = nullptr
          /\ role' = "HOST"
          /\ port' = [state |-> "POWERED", connected |-> FALSE, event |-> port.event, timed |-> FALSE]
          /\ UNCHANGED <<ch, ep, Endpoint, Status, waiting, woken, PENA, panic, plugs,
                         deviceVars, threadVars>>

HostNext ==
  \/ \E t \in Thread : \/ LockControl(t) \/ LockMutex(t) \/ _do_control_xfer(t)
                       \/ IssueControl(t) \/ EnterWait(t) \/ WaitAgain(t) \/ Resumed(t)
  \/ usb_hid_set_report
  \/ usb_host_create_root_device \/ _create_device \/ Proceed \/ Failed \/ DriverStart \/ StartInput
  \/ HidDispatch \/ \E d \in {"port", "input"} : AddHandle(d)
  \/ PortPowered \/ PortDebounced \/ PortReset \/ PortResetDone \/ PortError \/ PortReady
  \/ _destroy_device \/ \E p \in Pipe : usb_fs_host_stop_pipe(p)
  \/ Cancel("Tx", "close Tx", "Rx") \/ Cancelled("close Tx", "Rx")
  \/ Cancel("Rx", "close Rx", "pool") \/ Cancelled("close Rx", "pool")
  \/ StopDone \/ HidStopped
  \/ Plug \/ Unplug \/ EnableChange \/ usb_fs_request_role_switch \/ _host_reset
  \/ \E c \in Channel : hcint(c) /\ UNCHANGED <<deviceVars, threadVars, portVars>>

UsbSpec == UsbInit /\ [][HostNext]_usbVars

----------------------------------------------------------------------------
(* Properties *)

\* When the input pipe of a HID function has been stopped its request is not
\* outstanding any more, whether the device answered, the channel failed, or
\* the stop cancelled it ("all pending urbs should have ended with error by
\* now", hid.c).
PendingEnded ==
  pc["context"] = "stopped" /\ func.Handler => Status["input"] # "ISSUED"

\* Whenever the host may be started again after it gave the controller to the
\* device role, every channel is free ("ensure that we are not re-initializing
\* in a wrong state", _host_reset).
ReinitClean == role = "DEVICE" => FreeChannels = Channel

\* A control request finds both channels of the control endpoint open: what
\* _update_channel asserts (ASSERT(ch != nullptr)).
ControlChannelsOpen == panic # "_update_channel"
=============================================================================
