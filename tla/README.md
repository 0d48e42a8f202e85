# Velora: a TLA+ model of the server

Velora is a TCP server with one thread: an edge-triggered epoll loop, a manager
of connections, and per connection a read ring, an incremental packet parser, a
protocol handler and a write ring. This directory models it in TLA+, checks
the models with TLC on small instances and proves, with TLAPS, the invariants
that matter for all sizes. Paths below are relative to the repository's
`src/`.

## Inventory

| Part | Source | State | Operations | Modelled by |
|---|---|---|---|---|
| Ring buffer | `conn/ring_buffer.c` | `data, capacity, count, read_pos, write_pos, state` | init, grow, reserve, push, pop, peek, peek_n, contiguous_read/write, consume, commit | `RingOps`, `RingBuffer`, abstractly `ByteQueue` |
| Receive into a ring | `net/socket_utils.c` | a ring | `vr_socket_recv_ring_buf` (one or two regions) | `RingOps`, `RingBuffer` |
| Queueing a response | `event_loop/reactor.c` | a ring | `reactor_enqueue_response` (contiguous or wrapped) | `RingOps`, `RingBuffer`; as a queue in `Connection` |
| Packet codec | `protocol/packet.c` | none | serialize, deserialize, encode and decode of two-byte fields | `Packet`, byte by byte; `ParserOps`, in units of four bytes |
| Parser | `protocol/parser.c` | `state, current_header` | `vr_parser_poll` | `ParserOps` |
| Protocol handler | `protocol/protocol.c` | `proto_state, active_streams, streams_bitmap` | `vr_protocol_handle_packet` | `ProtocolOps`, `Protocol` |
| Data path of a connection | `event_loop/reactor.c` | all of `vr_connection_t`, epoll interest | drain_writes, drain_reads, process_packets, handle_client_event, close | `Connection`, abstractly `Session` |
| Connection manager | `conn/conn.c`, `shared/utilities.c` | `slots, count, capacity`, each `slot` | init and its failure, create, destroy, shutdown loop, manager destroy | `ConnManager` |
| Event loop, listener, signals | `event_loop/reactor.c`, `net/tcp_server.c`, `main.c` | batch of events, `running_status`, descriptors, epoll registrations | bootstrap, wait, dispatch, accept loop, close, shutdown, signal handler | `Reactor`, composed with `ConnManager` |
| Logging, errors | `core/` | a log file | formatting | only its effect on `errno`, in `Connection` (`SendErrnoLost`) |
| eBPF exercises | `../ebpf-learning/` | a map shared by all processors | `count_execve` | `ExecCounter` |

The hazards found while reading the code are listed in `PROJECT.json`, each at
the line where it bites.

## Modules

`...Ops` modules hold pure operators, one per C function, that map a struct to
the struct the function leaves behind. The state machines on top of them call
them in every order. A proof therefore needs one lemma per C function, and a
function used in two places (the ring inside the data path) is defined once.

* `RingOps` / `RingBuffer` / `ByteQueue`. The variable `buf` is the C struct;
  each action is one call, with `ret` the result and `out` the bytes it hands
  out. Memory nobody wrote holds `Uninit`. Allocation is an input: `avail` is
  the largest block malloc grants during the call, so each of a call's
  allocations may be the one that fails. `reserve()`'s loop is written as the
  capacity at which it stops, which is easier to reason about; `ReserveIsLoop`
  compares it with the loop, turn by turn (`ReserveLoop`). The capacities it
  can stop at are the least set with the initial size that growing stays in
  (`Capacities`). `ByteQueue` is what the
  rest of the server relies on: a bounded FIFO queue. `Contents(buf)` maps one
  to the other. The positions are reduced modulo `PosRange`, their 16 bits.
* `ProtocolOps` / `Protocol`. The bitmap is the set of `<<word, bit>>` pairs
  that are set; counter and stream identifiers are taken modulo 2^8
  (`UInt8Range`), so the wrap of the counter is in the model. `strayClose`
  records that a STREAM_CLOSE named a stream that was not open.
* `ParserOps`. `vr_parser_poll` as a function of the parser, the unread units,
  and whether the payload's malloc succeeds. A unit is four bytes: a header is
  two units on the wire and three in memory (see Findings).
* `Connection`. The client, the socket, epoll and the server's thread. Each
  system call of the server is one step (`pc` is the loop it is in), so the
  client acts between any two calls. Rings are queues with a capacity,
  justified by `Fifo`; capacities are computed by the operators of `RingOps`.
  The kernel is external and modelled from how it is used: a connection is on
  the ready list (`ready`) after a wake-up it is interested in or after
  EPOLL_CTL_MOD found it ready; epoll_wait takes it off. EPOLLOUT needs a
  third of the send buffer free; a full socket wakes the server only when it
  was polled or written to while full (`nospace`). `HandlerCrashes` is the
  unchecked calloc of a response, `SendErrnoLost` the log that changes errno
  between send() and the test of it. `reliable`, settled at the start, says
  whether malloc and the log never fail in a behaviour: `DeferredPacketsResume`,
  `LostOnlyWhenFull` and `ClosedForCause` promise something only then, the
  other safety properties in both cases.
* `Session`. What a connection promises its client, without rings, parser,
  kernel and events: the next packet, its effect on the protocol state and its
  response are one step; the client receives the units of the responses in
  order; the session may end between two packets. A response may be lost as a
  whole, but never the effect of its packet. `Connection` implements it
  (`ServesSession`) with its own variables as the mapping.
* `ConnManager`. `slots` and `slot` are the array and the connections'
  fields; `live` is what malloc has handed out, so freed addresses come back.
* `Reactor`. The thread from `main()` to its return, one step per system call
  or manager operation (`pc`), with the kernel's descriptors (a new one is the
  lowest that is free), epoll's registrations and ready list, the listener's
  backlog and the clients. A batch of events is a set of pointers with event
  masks, so the order of the events in it is arbitrary. The manager's variables
  are those of `ConnManager`, whose actions are used through INSTANCE. What an
  event does inside a connection is reduced to its outcome: a reason to close,
  or input read to EAGAIN or only in part (`drained`), with the write ring
  empty or not in the end (`answer`), which disarms or arms EPOLLOUT;
  `Connection` has the detail. Reads stop early in `reactor_drain_reads` when
  malloc fails for the first ring or for a larger one, and when the ring is
  full at its maximum; the edge is then used up with input left in the socket.
  `leftover` remembers the clients this happened to, until they act again or
  an event reads all. A signal is a step that may come at any time. `MayFail`
  says whether calls fail that the model gives no cause to fail, `Large` which
  clients may send more than a read ring holds.
* `Packet`. The eight bytes of a header, the codec and the validation.
  `Abstract` gives the units of `ParserOps` their meaning in bytes.
* `ExecCounter`. The increments of the shared map as loads and stores of
  several processors.
* `*_proofs`, one for each component, and `DataLemmas`, the facts about
  naturals and sequences which several of them use. The proofs.

Operators whose comment starts with "Mutant:" are deliberate mistakes. Each
replaces the definition that follows it to show that a property notices.

## Runs

| Run | Shows | Bounds |
|---|---|---|
| `ring` | struct consistency, whole responses, error paths that keep the bytes, FIFO refinement | capacities 2, 4, 5 (a doubling and a clamped one), spans up to 2, two byte values (data independence needs two), padding 1 |
| `protocol` | counter against bitmap, fresh and lowest stream, exhaustion | 3 words of 2 bits: several words, full words, a counter that wraps at 6 |
| `connection` | nothing stranded, cut, reordered or duplicated, with and without failures of malloc and of the log; the session refinement | `reliable` both; malloc may grant 0, 3, 6; capacities 3, 6; 3-unit responses, so that two fill a ring and more are sent; the kernel holds more (8) than the read ring; send buffer 4 |
| `connection_live` | every packet handled, every response delivered, peers noticed | capacities 2, 4: every response fills the write ring |
| `manager` | exact slots, complete shutdown | 4 connections, capacity 1 doubled twice |
| `reactor` | live batches, exact interest list, no leaked descriptor, no forgotten client, no edge lost but where reads stop early, the manager's specification | 3 clients for 2 addresses and 2 descriptors, so that both are reused and the descriptors run out; batches of 2; every call may fail, so the reads of any event may stop early; the manager's array grows once |
| `reactor_live` | backlog served, departures noticed, signals honoured | 2 clients and descriptors for both; one event per batch: every choice of epoll_wait can pass somebody over; one client may fill its read ring at every event |
| `packet` | the codec is its own inverse; `ParserOps` agrees with the bytes | the real widths; a PING header in which the bytes 1-2, 3-4, 5-6 or 7-8 take all values (every two-byte field and every validated byte) |
| `exec_counter` | no call counted twice, exact without overlap | 3 processors, 3 processes, a map for 2, 3 calls each |

The runs of `Connection`, `ConnManager`, `Reactor`, `Packet` and `ExecCounter`
do not check deadlock: an idle or closed connection, a server that has shut
down, a header that was looked at and processes that have made all their calls
stop. `reactor` uses the symmetry of clients and addresses; the temporal
properties are checked without it, but for `ManagerUsed`, which is an
initial condition and an action property, both symmetric.

Scripts are finite, so is what the client sends; each hazard needs at most one
overflow of each buffer, which the scripts reach (the mutants show it).

Fairness: the server's thread keeps running (`WF_vars(Server)`: there is one
thread and no step of it blocks other than epoll_wait), and the client sends
what it has and reads what it is sent. Nothing forces a shutdown or reset.
For `Reactor` also `SF_vars(Reports(f))`: the ready list is a queue, so a
descriptor that comes back on it each time the thread waits is reported some
time. Weak fairness would not do, since the thread is not always waiting.
Nothing makes a client or a signal act, and nothing makes reads go on to
EAGAIN: a client that may fill its ring can keep the loop busy for ever
without being read to the end. `GoneIsNoticed` says that the other one does
not suffer, and excuses a departed client only for what happened to itself: an
event since it left stopped reading early, or an error of the accept loop left
it in the backlog.
`connection_live` uses packets that are all answered and fit into the read
ring, because that is when the code makes progress: see the second finding.

## Findings

* `connection_header`: `sizeof(vr_packet_header_t)` is 12, since the enum is
  four bytes wide, and the parser waits for and consumes that many bytes;
  `README.md:108` and the tests' clients use 8. A documented CONNECT is not
  answered. Responses likewise carry four bytes nobody wrote.
* `connection_drain`: at a full read ring of maximal size the read loop stops
  before EAGAIN and nothing re-arms the edge unless a response was queued
  (`README.md:100`). A packet that does not fit as a whole never completes if
  it was received before the drain.
* `protocol_closed`: closing a stream that is not open can close the protocol
  state with a stream left (`README.md:246`).

Disagreements met while modelling for which there is no run:

* CLOSED goes back to INIT on the next packet (`protocol.c:114`); the state
  diagram (`README.md:230`) has no such edge.
* In the debug build, which `make` builds by default, `vr_socket_send` logs
  EAGAIN and flushes the log before its caller tests errno; a flush that fails
  costs the client its connection (`SendErrnoLost`; `README.md:101`).
* `reactor_shutdown` frees connections without closing their sockets
  (`README.md:375`); the process ends next.
* A type of 0 passes the validation (`parser.c:50`, `README.md:161`).
* A failing reserve may have grown the ring (`ring_buffer.c:224`). The queued
  bytes are kept, which `ErrorKeepsContents` checks.

## Proofs

Every safety property that a passing run checks is proved for every value of the
constants; three need a condition on them, named below. The proofs use the named assumptions only:
`SizeAssumption` (0 < initial <= maximal <= range of the positions) and
`SpanAssumption`, `StreamAssumption` (words times bits is the range of the
counter), `ManagerAssumption`, `HeaderAssumption`, `ConnectionAssumption`,
`ScriptsAssumption` (a script is a sequence of packets, good or bad),
`ReactorAssumption`, `PacketAssumption` and `CounterAssumption`. TLC evaluates
each of them on the instances.

* `RingBuffer_proofs`:
  - `TypeCorrect`, `RingCorrect`, `NeverTornCorrect`, `RecvRoomCorrect`. The
    inductive invariant is type correctness with `RingConsistent`: `write_pos`
    is `read_pos + count`, less the capacity if that is past the end. Neither
    half is inductive alone: the position an operation computes is in range
    only if the count is right, and conversely. One lemma per function shows
    that it maps consistent rings to consistent rings. The sum is stated
    without `%`, which the provers handle badly; the lemma `Wrap` connects the
    two forms.
  - `FifoCorrect`, `EnqueueCorrect`, `ErrorCorrect`. A second lemma per
    function says what it does to `Contents`: nothing, also when the ring is
    moved to a larger array (`RelocateContents`); drop the oldest; or add bytes
    at the end. The last is the predicate `Adds`, which speaks of places in the
    array and composes (`AddsTwice`): a wrapped response is two additions. Under
    the invariant every call is then a step of `ByteQueue` or leaves the queue
    alone (`StepOfQueue`).
  - `ReserveCorrect`: the loop of `reserve()` ends, for every request and every
    outcome of its allocations, with the struct of the closed form. The
    capacities form a chain, each the next after growing (`CapacityGrows`,
    `NextCapacity`), so the least one that stops the loop is reached by single
    turns; moving the ring to one array and then to a larger one is moving it to
    the larger one (`RelocateTwice`), so no turn but the last shows. Two
    inductions are done by least counterexamples: the recursive function that
    counts turns exists (`TurnsExist`), and after each turn the ring is the old
    one enlarged (`AfterTurns`). The invariant it needs beside `RingInv` is that
    the capacity is one of `Capacities` (`CapacityInv`).
* `Protocol_proofs`: `TypeCorrect`, `CountCorrect`, `OpenCorrect`. The
  invariant for the counter is conditional on `~strayClose`: without it counter
  and bitmap do diverge. `OpenCorrect` needs no invariant but the types: the
  first free pair of word and bit exists (`FirstPair`) and has the lowest
  number (`EarlierIsLower`, by division with remainder).
* `ConnManager_proofs`: `TypeCorrect`, `SlotsCorrect`. The invariant says
  that array and slot fields are inverse functions, both directions; the swap
  needs the one to preserve the other.
* `Connection_proofs`:
  - `UnsentCorrect`. `Armed` strengthens the property from a sleeping to any
    waiting connection, with the ready list as the alternative to a full
    socket; it needs no assumption on allocation.
  - `ResponsesCorrect`. `Delivered` says that over some set of units the
    responses are what the client has, what the kernel holds and a rest, and
    that the rest is the write ring while the connection is open and not
    reset. The rest has to be quantified: after a reset or a close it is what
    was lost, which no variable holds. One lemma per kind of step moves units
    from one part to the next; concatenation is regrouped in `Associative`.
  - `LostCorrect` and `DeferredCorrect` (the second if the ring can hold a
    response): where malloc does not fail, `reserve()` stops only with room
    or at the maximum (`ReservedFits`, from `LeastElement`), and the parser,
    having found nothing, finds nothing again (`PollAgain`).
  - `ClosedCorrect`, by cases on the steps that close.
  - `ConnectionTypeCorrect`. The invariant has a part for each direction
    (`Inbound`, `Outbound`) with the units in the queues, one for the bitmap and
    one for the control; the rings hold no more than their capacity because
    `reserve()` returns one of `Capacities`.
  - `FramingCorrect`, for a client whose headers have the length the parser
    takes (`ClientHeader = HeaderSize`; with the documented length it is false,
    see Findings). `Framing` says that the packets handled are the first of the
    script, and that their units, the header the parser holds and everything
    from the read ring to the client's unsent units are the units of the script.
    The step is `PollFramed`: what stands at the front is the next packet of the
    script, so the parser takes exactly its header and then exactly its payload,
    whatever has arrived behind them. The units of a script are a recursive
    concatenation; that the recursive function exists and unfolds is proved from
    a least counterexample (`UnrolledExists`, with `LeastElement`), since
    induction theorems cannot be applied.
  - `SessionCorrect`, under the same condition: the data path implements
    `Session`. `Framing` says which packet the parser emits, so that the one
    step that calls the handler is the session's `Handle` with the next packet
    of the script (`HandleServes`); `Delivered` says that what the client reads
    from the kernel continues what it has (`ReceiveServes`); every other step
    ends the session or leaves it alone (`StepOfSession`).
* `Packet_proofs`: `RoundTripCorrect`, `UnitsCorrect`, for all eight-byte
  headers and any width of a byte. Both rest on the uniqueness of quotient and
  remainder (`DivModUnique`). `UnitsCorrect` is what allows the proofs about
  connections to speak of units.
* `ExecCounter_proofs`: `OvercountCorrect`, `CountedCorrect`. A counter, and
  each value a processor has loaded, is at most the calls made less the calls
  on their way (`Below`): a processor that stores a stale value still adds only
  its own call. For a process whose calls never overlapped, `Alone` says
  exactly where its one call is and what is missing from the counter.
* `Reactor_proofs`: `TypeCorrect`, `BatchCorrect`,
  `InterestCorrect`, `DescriptorsCorrect`, `ClientsCorrect`, `EventsCorrect`,
  `BacklogCorrect`, and `Refinement`, by which the loop implements the specification of the
  manager, so that `SlotsCorrect` carries over (`SlotsInLoop`). The inductive
  invariant `IInv` joins these properties, generalised from a sleeping thread
  to every phase (an edge is on the ready list or in the batch, or was dropped
  by reads that stopped early), with what the
  thread holds in which phase (`Phase`) and who is at the other end of a
  socket (`Sockets`): that a batch has no dead pointer needs epoll's
  registrations to be exact, which needs the descriptors to be owned once.
  `ClientsCorrect` adds `Kept`, the direction `Sockets` leaves open: a client
  that is connected is somewhere, and a socket with a client has a holder.
  That a new descriptor has no client yet follows from its being free, which
  is why `Kept` needs the ownership in `IInv`.
  `EventsCorrect` is not that every input is reported: the code drops an edge
  when reads stop early. It says that there is no other way to lose one, that
  the next thing the client does makes up for it, and that a connection with
  responses to send is not affected, since arming EPOLLOUT polls.

The conditions: `FramingCorrect` and `SessionCorrect` are about clients whose
headers have the length the parser takes, `DeferredCorrect` about rings that
can hold a response.

Only model-checked: the liveness properties, since fairness is outside the
prover's reach.

## Not modelled

* The NULL checks of parameters no caller passes as NULL, and
  `vr_socket_send_all`, which nothing calls.
* What the log says and where it goes; a signal that interrupts the writing
  of it.
* The data path and the event loop are joined by abstraction, not in one state
  space: `Reactor` knows the outcomes of a client's event, `Connection` one
  connection and its edges. Which outcome an event has depends in `Reactor` on
  `Large` and `MayFail` and not on the amount of input, so a drain may stop
  early there more often than the sizes of the rings allow; the sizes are in
  `Connection`, where `connection_drain` shows the case of a full ring.
* A full send buffer in `Reactor`: a descriptor with EPOLLOUT armed is reported
  as writable, and an event that leaves the write ring non-empty arms it again.
  A write that blocks is `Connection`'s `SendWouldBlock`.
* Packets dropped because FIN is read in the same drain: the code closes
  first, and no document promises more. That what was handled is a prefix of
  what was sent is part of `PacketsIntact`.
* `ebpf-learning/xdp/xdp.bpf.c`, which traces headers, keeps no state and
  passes every packet; and `ebpf-learning/xdp/vmlinux.h`, 150,000 lines of
  type declarations generated from a kernel, which make up nearly all lines of
  the repository and contain no behaviour.
