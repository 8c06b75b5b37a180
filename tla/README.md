# A TLA+ model of ExOS

ExOS is a small real-time kernel for microcontrollers (`src/exos/kernel`), with
drivers, a POSIX layer and libraries above it. This directory holds TLA+ modules
for its core and for the drivers with the most concurrency, the configurations that model-check them with TLC, and theorems
whose proofs TLAPS checks. `PROJECT.json` lists the parts, runs, theorems,
hazards, and for every definition the lines of code it models.

## The system

| Part | State | Operations | What is hard about it |
|---|---|---|---|
| Threads (`thread.c`) | ready list, wait handles, mask bits, Pending and Joining lists | create, exit, join, add/dispose handle, resume, wait | a resume between adding a handle and waiting; bits that leak; a switch in the middle of a section |
| Mutexes (`mutex.c`) | owner, count, waiters | lock, try, unlock | barging, recursion, a list that is emptied on every lock |
| Events (`event.c`) | state, waiters | set, reset, wait | a timer racing an event; handles on the stack |
| FIFOs, ports (`fifo.c`, `port.c`) | list, event | queue, dequeue, wait | event and list must agree |
| Timers (`timer.c`) | sorted list of times left | create, dispose, tick | the tick changes the list it walks |
| Dispatcher (`dispatch.c`) | list of dispatchers, handles, timers | add, remove, dispatch | one wait for many, lock released before it |
| I/O buffers (`iobuffer.c`, `io.c`) | ring, two indexes, two events | write, read, discard, peek | two sides and no lock |
| Memory (`memory.c`) | blocks with boundary tags, free lists | add_region, alloc, free | tags and lists agree after any history |
| Packet ring (`net/support/packet_buffer.c`) | words, two indexes | push, pop | packets of several words, no lock |
| TCP (`net/tcp*.c`) | connection state, sequence numbers, buffers | connect, accept, write, read, close, input, service | lost and repeated segments; `_write` takes no lock |
| USB host (`stm32f4/usb_fs_host_*.c`, `usb/host.c`, `enumerate.c`, `hid.c`) | endpoints, channels, requests, port, device | start and stop pipes, transfers, enumeration, role switch | unplugging at any moment; failing transfers; two threads and two interrupts |
| USB device (`stm32f4/usb_fs_device.c`, `usb/device.c`, `usb/device/ftdi.c`) | endpoints, request in hand, dispatchers, serial port | start, stop, bus reset, requests, data in and out, open, close, write | interrupts that come together; a host that need not fetch what it is offered; resets nobody is told of |
| Thread pool, POSIX, trees, calendar | | | above the kernel, or pure functions |
| Other network, other USB functions, serial drivers | | | not modelled |

How they interact: everything that blocks does so with a wait handle of the
thread kernel. A handle is put on a list by a condition function
(`___mutex_cond`, `___event_cond`, `___join_cond`), an operation resumes the
handles of a list, and `exos_thread_wait` sleeps until one of a set of handles is
done. Timers and FIFOs signal through events; dispatcher and I/O wait for events
and timers together.

What runs concurrently: threads are switched strictly by priority, first-in
first-out among equals, without time slices. A *kernel section* (`__kernel_do`) is
not interrupted, and a switch it asks for is taken when it ends. Between any two
sections of the running thread an interrupt can set an event, expire a timer or
resume a handle, and a thread of higher priority can run.

## Modules

| Module | Models |
|---|---|
| `List` | the list operations, as operators on sequences |
| `Threads` | thread kernel: one action per kernel section |
| `Mutex` | callers of `mutex.c` over `Threads` |
| `Lock` | what a recursive mutex promises (abstract) |
| `Event` | callers of `event.c` over `Threads`, with timers that expire at any moment |
| `Fifo` | `fifo.c` over `Event` |
| `Timer` | the timer list and the tick handler |
| `Dispatch` | the event loop |
| `Memory` | the allocator |
| `IoBuffer` | the ring and the read and write loops of `io.c` |
| `PacketBuffer` | the packet ring |
| `Tcp` | a connection between two ends that run this TCP, over a lossy network |
| `UsbCore` | host controller: endpoints, channels, requests, channel interrupts |
| `UsbHost` | over `UsbCore`: root port, enumeration, a HID function and its client, role switch |
| `UsbDevice` | device controller, the service thread with its requests, a serial (FTDI) function and its client |
| `ListProofs`, `ThreadsProofs`, `MutexProofs`, `EventProofs`, `TimerUsbProofs`, `DispatchProofs`, `StorageProofs`, `TcpProofs` | theorems |
| `MC*` | instances for TLC |

Names follow the source: `exos_thread_wait` is the action of that function,
`___resume_all` became `ResumeFirst` and `ResumeAllEnd`. Fields of a struct are
functions (`State[t]`, `HState[h]`, `MaskUsed[t]`). Definitions called *faulty
variant* are not part of the model: each is a plausible mistake in the definition
that follows it, and the property named in `PROJECT.json` fails with it.

**Threads.** A section and the switch at its end are one step, as nothing can come
between. `___resume_all` can resume many handles; its loop is a sequence of steps
during which nothing else runs (`draining`). `Mutex` and `Event` extend `Threads`,
add the place `pc[t]` each thread is at in its call, and state their own next-state
relation. Every step of theirs is a step of `Threads` (the property `Spec` of
their runs), so what is proved of `Threads` holds in them.

**Timer, Dispatch, Memory, IoBuffer, PacketBuffer** stand alone. `Dispatch` uses
what `Threads` and `Event` show: setting an event makes its waiting handles done.
Memory works on addresses with block sizes in small units; its loops run under a
mutex, so an operation is one step. In `IoBuffer` and `PacketBuffer` each access
to a shared index is a step of its own. `MCStorage` puts the three that keep data
in one run: a behaviour is one of one of them (`part`) and the others stand still.

**Tcp.** Both ends run the code of the repository. Handlers of the network thread
and of the service thread hold the mutex of the entry and are one step each;
`_write` takes no lock and is three. A segment in flight stays there when it is
delivered if the network repeats it. Bytes are numbered, so that order, gaps and
repeats show. Time is left out: the service thread may find a retry due whenever it
runs, and counts retries as the code does, up to what its limits tell apart
(`RetryCap`). `net_tcp_close` resets the count only after it has released the mutex,
a step of its own. Left out: RST, which this TCP never sends, a send buffer larger
than a segment, and the wrap of sequence numbers.

**UsbCore, UsbHost.** A pipe that is started has an endpoint, an endpoint has a
channel per direction it uses, a channel carries one request. `UsbHost` has the
context thread, in which the callbacks run, a client thread that sends reports
over the control pipe, and the interrupts. Threads interleave at every call that
blocks and at the end of a request. The build is the debug one: `panic` names the
assertion that failed, and nothing runs after it. A request that waits is looked at
again every 3 seconds, as in that build (`WaitAgain`). The device has one
configuration with one interface, for which `hid.c` is the one driver.

**UsbDevice.** The service thread runs dispatchers: for setup packets, for the end of
the service, and for the two directions of the serial function. Which of those that
are ready comes first is the subject of `Dispatch` and left open here. Interrupts
come before threads, in the order of `__usb_otg_device_irq_handler` and
`_ep_in_handler`; `in0` and `in2` hold, per endpoint, the buffer, what of it is
sent, the interrupts raised, and whether the core lets them in: a bus reset masks
those of endpoint 2 until its next packet. A packet is two units long, the modem status of a
serial packet one. The host is external: it sends one request after another, may
fetch what is offered or not, may give the device a second address, may open and
close the port at any time, and resets the bus between transfers; it begins none
while an interrupt is pending. As the
comments of the driver say, disabling an endpoint always raises the interrupt.
`halted` names the assertion that failed. A controller is host or device, and
`MCUsb` checks both roles in one run (`part`, as in `MCStorage`).

## Runs

| Run | Checks | Bounds |
|---|---|---|
| `threads` | scheduling by priority and in turn, no lost wakeup, handles and bits in step, ends leave nothing behind | 3 threads, two of one priority; 3 handles; 1 object; 2 bits |
| `mutex` | mutual exclusion, no waiter at a free mutex, implements `Lock`, uses `Threads` correctly, the highest priority gets its mutex | 4 threads of 4 priorities, 1 mutex, depth 2 |
| `event` | no sleep on a set event, answers of timed waits, nothing left on the stack, timed waits end | 3 threads, an auto-reset and a manual event |
| `fifo` | event and list agree; every node is taken | 4 threads, 3 nodes |
| `fifo_timeout` | fails: see below | |
| `timer` | sorted, never early, late by at most one tick per periodic timer, every timer fires | 3 timers, times up to 3 |
| `dispatch` | nothing dangles, the loop sleeps on all of its own, whoever is ready is served | 3 dispatchers, one of another thread |
| `dispatch_timeout` | fails: see below | |
| `storage` | blocks tile, tags agree, free neighbours are joined; bytes in order, every byte is read; packets whole | two regions and two request sizes; a ring of 3 bytes and calls of up to 3; a ring of 5 words and packets of up to 3 |
| `tcp` | the stream in order, every byte arrives, closing ends | 2 bytes into a buffer of 1, one segment in flight each way, one pending connection |
| `usb` | as host: channels and endpoints in step, a stopped pipe has no request outstanding, a restart finds nothing in use; as device: a transfer the host has ended is over, all assertions but four hold, the address is the host's as long as it gives one per reset, nothing is left of a stopped interface | host: 3 channels, 2 endpoints, the device plugged in twice; device: 2 starts, 2 bus resets, the port opened twice, but not all three; answers of a full packet, of a full and a short one, and of two full ones, which do not fit; 1 unit of output |
| `usb_reconnect` | fails: see below | |

The bounds are the least at which the interesting cases occur: a thread above two
equals (preemption and turns); two waiters at one list; one handle more than there
are bits; a periodic and two one-shot timers due in the same tick; rings that wrap;
blocks that can be joined on both sides; a stream larger than the window; channels
and endpoints that run out when one leaks; a second device after the first; an
answer that ends with an empty packet, a second address after a reset and without
one, a port opened again with a packet unread, before and after a reset.

Three runs fail as intended, and show where the code does not do what a line of the
repository says:

- `fifo_timeout`: `exos_event_wait` answers true when its timer expires between
  its creation and the adding of its handle (`event.c:77-79`); `exos_fifo_wait`
  takes that for a queued node and, in a debug build, panics (`fifo.c:61`).
- `dispatch_timeout`: in the same gap `exos_dispatch` (`dispatch.c:146-148`) is left
  without its timeout, on which `iap2.c:986` relies.
- `usb_reconnect`: `usb_fs_host_start_pipe` reuses `_root_control_ep` because its
  channels are "already open" (`usb_fs_host_core.c:428`); removing the device has
  freed them, and the first request to the next device fails the assertion at
  line 344.

Other results to know of:

- Mutexes: equal or lower priorities can starve; an owner is lent no priority, so a
  thread in between can hold up even the highest.
- I/O buffers: the wakeup of a reader can be lost and only the timeout repairs it
  (`EveryByteRead` needs it).
- Dispatcher: one whose handle is done can starve when another is ready in every
  first scan (hence the premise of `EveryoneServed`).
- TCP: a segment that is not next is ignored with its ACK (`tcp.c:148`), so two ends
  that both write can repeat for ever what the other ignores (`BytesArrive` is for
  one writer); the state CLOSING has no retry limit (`CloseEnds` leaves it out); a
  FIN with data larger than the room is taken without the data (`tcp.c:178`);
  `net_tcp_close` releases the mutex before it resets the retry count
  (`tcp_service.c:231`), so the service thread may end the entry by an old count
  without ever sending the FIN.
- USB: assertions that a debug build can reach are panics of the model: a request
  issued after the device is gone (`host.c:269`), an endpoint found busy by a
  client that is woken too early (`usb_fs_host_core.c:542`), a HID function stopped
  that never started (`hid.c:345`), a disconnect before a device exists
  (`usb_fs_host_core.c:938`). The end of a transfer that comes before the wait for
  it goes unnoticed (line 538), a channel interrupt the handler does not expect, as a
  data toggle error is, panics (line 881), and enumeration and a client take two mutexes in
  opposite orders (`usb_fs_host_drv.c:123`).
- USB device: four assertions can fail (`OnlyFourAssertionsFail`). A host that
  configures the device again, after a reset or without one, meets `ftdi.c:340`, where
  a comment says "BUG: here fails when re-connected". A host that closes the port
  without fetching the last packet and opens it again makes the driver disable
  endpoint 2, which `_ep_in_handler` does not allow (`usb_fs_device.c:688`); if a bus
  reset came in between, the interrupt is masked and the wait for it fails instead
  (line 404). An answer of 128 bytes or more, a long descriptor or a long read of the
  EEPROM, does not fit endpoint 0 (line 381). A second address without a reset is
  ored into the first, and the device answers to neither (`AddressAgrees`). The
  setup handler waits for the host without a timeout (`device.c:240`): the model's
  host ends every transfer it begins.

## Fairness

Fairness is assumed only where the code schedules: the running thread goes on with
its call; a section in progress ends; a timer that runs expires (the tick interrupt
comes); a loop thread calls `exos_dispatch` again; a reader reads again; a consumer
waits again. In `Tcp` the service thread handles every entry again and again (weak
fairness), a segment sent again and again arrives (strong fairness: without it no
retry helps), and an application goes on with the call it is in. Nothing is assumed
of users that set, queue, lock or write. `TopLocks` further assumes that whoever
takes a mutex gives it back. Fairness of the steps of a call is for
whichever thread runs, and strong where an interrupt can disable and enable the
step again by a switch: the tick and the running thread are never held up for
good.

## Proofs

`ThreadsProofs` proves, for any number of threads, handles, objects and bits and
any priorities, the type invariant and the safety properties of `Threads`, and two
action properties. The assumptions are `ThreadAssumption` (the main and the idle
thread are two, and the idle thread has the least priority), `BitAssumption` (bit
positions are natural numbers; there may be any number) and `ObjectAssumption`
(threads, objects and `Nil` differ). What the assertions of `thread.c` ask of callers
is in the guards of `Next`: the idle thread makes no calls, a wait mask is not empty, and a thread has disposed of
its handles before it ends.

The inductive invariant is `IInv`: types; `SchedInv` (the ready list is distinct,
ordered and holds the READY threads, and the running thread is its head outside a
section); `PlaceInv` (a handle is where its state says); `MaskExact` (the bits of a
thread are those of its live handles); `NoLostWakeup`; `EndedIsClean`. None of the
safety properties is inductive alone: that no wakeup is lost needs handles in
place, that needs masks that are exact, and the end of a thread needs all three.
The proof has a lemma per action; `ListProofs` supplies what insertion and removal
keep (distinctness, order, the order of the others).

`MutexProofs` proves, for any number of threads, mutexes and bits, any priorities and
any depth of recursion (`MutexAssumption`: the objects are the mutexes and the list
of the tick; each thread has a handle on its stack), that the callers of `mutex.c`
take only steps the thread kernel allows (`MutexSpec => Spec`), mutual exclusion, that
nobody is left waiting at a free mutex, and that the mutexes implement `Lock`. The
first is not a matter of reading the definitions: `___mutex_cond` empties the list
of a mutex it finds free, which no operation of the kernel does, so it is a step of
the kernel only because the list is empty then, and that in turn rests on what the
kernel keeps. `MInv` therefore joins `IInv` with `CallInv` (a thread at a place of its
call has the handle that place says, on the list it waits for), `HoldInv` (owner and
count against what callers acquired) and `FreeInv` (no waiter at a free mutex, except
while unlock wakes them). A lemma per conjunct shows it is kept, with a step per
action; each step of a caller is then a step of `Threads`, so `IInv` is kept by the
theorem about `Threads`, and a step or a stutter of `Lock`.

`EventProofs` proves of the callers of `event.c`, for any number of threads, events and
bits (`EventAssumption`: the objects are the events and the timers' events; each thread has
a handle, a timer and the timer's handle on its stack), that nobody sleeps on a set event,
that a false answer is the timer's, that a finished wait leaves nothing of its stack on a
list, and that all their steps are steps of `Threads`. The last is again part of the
induction: `exos_event_create` of the timer's event empties a list, which is harmless only
because no handle can be on it. `EInv` joins `IInv` with `ThreadInv`, which says place by
place of `exos_event_wait` which of the two handles and whether the timer is in use, what
the wait mask is and what can have woken the thread; `ListInv` (a handle is on the list of
the event its owner wants, or of its owner's timer); and `SetWakesAll`.
The module goes on to the queue of `fifo.c` (`NoNodeStranded`): with one consumer and an
event that is not auto-reset, as in its run (`OneConsumer`), nobody sleeps over a node and an
untimed wait has one to return. `FifoInv` adds to `EInv` that the event is set exactly while
nodes are queued, and that a list of waiters being resumed has a node for its waiter.

`TimerUsbProofs` proves of timers, for any number of them and any times
(`TimerAssumption`), that none fires early (an action property) and that a timer is behind
by at most one tick per start of a periodic timer. Reloads can happen without end, so counting them proves
nothing; `LateInv` keeps that the ticks a timer has missed and the number of periodic
timers *ahead of it* stay together within the starts. A reload that makes the walk skip a
timer takes one of those ahead and puts it behind. `OrderInv` says which part of the list has
been counted down in the middle of a walk.

`DispatchProofs` proves, for any number of dispatchers and events, that nothing dangles
and that the loop sleeps on all of its own (`DispatchAssumption`; `DistinctAssumption`: an
event, a handle and a timer are different objects). `DInv` says which handles are in use
(`UsedOnly`, `StackClean`), where the two `FOREACH` can be (`CursorListed`), that the first
has given handles to every dispatcher it has passed (`ScanArmed`), and that whoever the loop
waits for is armed (`WaitsForAll`), which must survive every `add` and `remove` of others
while the lock is released.

`StorageProofs` proves, for any regions, sizes of headers, footers, nodes and requests
(`MemoryAssumption`: regions do not overlap and hold at least one block, a node fits in
the least size handed out, and no request is empty), that blocks tile every region and
free neighbours are joined. `MemoryInv` has one predicate, `Tiling`, of blocks and tags of a
region: each boundary is reached from the block in front of it, so that the footer
`exos_mem_free` finds there is that block's and nobody's data. What a call changes lies
between two boundaries; three lemmas (a block used whole, split, merged) say what then
tiles. Old tags left inside free blocks are in the model, and never read. The same module
proves of the ring buffer, for any size and any length of calls (`SizeAssumption`), that
the bytes are in order: `RingInv` speaks of the middle of each loop, where a byte has been
copied and its index not yet advanced.

`TcpProofs` proves, for any number of bytes, buffer size, number of segments in flight and
of pending connections (`TcpAssumption`), that the stream is in order. `TcpInv` ties three
parties together: `Own` (an entry, its application and the flags `_write` has read),
`OfPeer` (what an entry implies of the other end) and `Says` (what a segment implies of its
sender *as long as its receiver may still take data*). Without that proviso it is false:
an end that is closing sends again with numbers the other no longer expects.

`TimerUsbProofs` also proves of the USB host, for any number of channels and endpoints
(`UsbAssumption`) and of plugs, that channels and endpoints agree (`ChannelsAgree`). The
property is inductive but for one step: the endpoint a stopped pipe gives back to the pool
must have no channel. `UsbInv` adds `StopInv`, which says how far `usb_fs_host_stop_pipe` has
come: which sides of the endpoint are closed, and that the channel the thread has read is
still the one of that side or has been closed since by the channel interrupt, which may come
between any two of its steps.

All inductive invariants were checked with TLC on the instances of the runs before they
were proved.

What is only model-checked, and why:

- liveness, and everything under fairness: out of the prover's reach;
- `PacketsWhole`: which words of the ring are one packet's is defined by walking the
  packets before it, so its invariant needs an induction over data;
- of USB everything but `ChannelsAgree`: the other invariants speak of many places of
  several callers at once and have not been worked out.

## Not modelled

Some details are merged or left out because no property tells them apart, each with a
comment at the definition: `exos_thread_sleep` takes its handle and its timer in one
step (`Mutex`); the two sections of `exos_event_set` are one (`Dispatch`); a FIFO always
has an event (`Fifo`); addresses are those of a 32-bit machine, where a free node is no
larger than the alignment (`Memory`); drivers return no error (`IoBuffer`); before the
data of a write to a low-speed device, `usb_fs_host_drv.c` waits for a frame to start,
which is any delay of that thread (`UsbHost`).

Register frames and chip code; links inside lists; strings, names and device
lookup; of the network everything but TCP and the packet ring (header formats, and
tables under one mutex); of USB hubs, the packets of a host transfer, and on the device side requests with
data from the host, class, interface and endpoint requests and functions other than
the serial one, and the build in which a stopped device becomes a host
(`USB_HOST_ROLE_USES_DEVICE_SERVICE`);
libraries; programs. Only the tick interface that the machines implement
(`EXOS_OLD_TICK_API`, one tick at a time) is modelled. `PROJECT.json` gives the reason
for each part. More than half of the sources are tables of registers, fonts,
containers and example programs, with no state a property could be about.

## Plan

1. Ports over `Fifo` (auto-reset event), `exos_thread_join` with its assertions, the
   thread pool and `pthread_join`.
2. The tick and uptime counters with reduced width; the calendar against a
   reference definition; trees.
3. Serial drivers over `IoBuffer`; USB hubs; device requests with data; ARP table; iAP2
   links; CANopen.
4. Proofs: `ReinitClean` and `PendingEnded` of the USB host, then the device.
5. Abstract specifications: a queue for `Fifo`, a byte stream for `IoBuffer` and
   `Tcp`, a set of deadlines for `Timer`.
