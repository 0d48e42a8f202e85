------------------------------ MODULE Reactor ------------------------------
(***************************************************************************)
(* The event loop (src/src/event_loop/reactor.c) from start-up to          *)
(* shutdown, with the listener (src/src/net/tcp_server.c), the signal      *)
(* handler (src/src/main.c) and the connection manager, against a kernel   *)
(* that hands out descriptors and edge-triggered events, and clients.      *)
(*                                                                         *)
(* What happens inside one connection is Connection's matter: here a       *)
(* client's event finds input to read, all of it or, when the read ring    *)
(* cannot take more, a part; a reason to close; or nothing; and it may     *)
(* leave responses to be sent, which keep EPOLLOUT armed.                  *)
(***************************************************************************)
EXTENDS Integers, FiniteSets

CONSTANTS
  Client,         \* the clients; each connects once
  Conn,           \* addresses of connections
  Listener,       \* the address of the listener's connection
  Null,
  MaxConns,       \* VR_MAX_CONNECTIONS
  FirstCapacity,  \* 16 in vr_connection_create()
  NFds,           \* RLIMIT_NOFILE: descriptors are 0 .. NFds - 1
  Inherited,      \* descriptors open when main() starts
  MaxEvents,      \* VR_REACTOR_MAX_EVENTS
  Large,          \* the clients that may send more than a read ring holds
  MayFail         \* whether system calls and malloc() fail without a cause
                  \* in the model

Fds == 0 .. NFds - 1
NoFd == -1

\* vr_result_t: tcp_server.c compares a descriptor with it.
VR_ERROR == 1

ASSUME ReactorAssumption ==
  /\ Listener \notin Conn /\ Null \notin Conn \cup {Listener}
  /\ Null \notin Client
  /\ MaxConns \in Nat /\ FirstCapacity \in Nat \ {0}
  /\ NFds \in Nat /\ Inherited \subseteq Fds
  /\ MaxEvents \in Nat \ {0}
  /\ Large \subseteq Client
  /\ MayFail \in BOOLEAN

VARIABLES
  pc,              \* where the thread is
  running_status,
  epoll_fd,        \* reactor->epoll_fd
  listen_fd,
  new_fd,          \* new_net_conn.fd of the accept loop, until it has
  new_conn,        \* ... its connection
  batch,           \* reactor->events from index i on
  slots, count, capacity, slot, live,  \* the manager: see ConnManager
  fd,              \* net_conn.fd of the connection at an address
  open,            \* kernel: descriptors in use
  registered,      \* kernel: the pointer epoll holds for a descriptor
  armed,           \* kernel: descriptors whose interest has EPOLLOUT
  ready,           \* kernel: descriptors on the ready list
  backlog,         \* kernel: clients waiting to be accepted
  sock,            \* kernel: the client at the other end of a descriptor
  client,          \* what a client has done that nobody has read yet
  leftover,        \* history: clients whose last event stopped reading before
                   \* EAGAIN, and that have done nothing since
  missed,          \* history: a signal came between test and epoll_wait()
  broke            \* history: the last accept loop ended at an error

loopVars == <<pc, running_status>>
fdVars == <<epoll_fd, listen_fd, new_fd, new_conn>>
managerVars == <<slots, count, capacity, slot, live>>
epollVars == <<registered, armed, ready>>
netVars == <<backlog, sock, client, leftover>>
history == <<missed, broke>>
vars == <<loopVars, fdVars, batch, managerVars, fd, open, epollVars, netVars,
          history>>

\* The loop is over, or never began.
Ended == {"returned", "failed"}
Ending == Ended \cup {"shutdown"}

\* The manager is the component ConnManager, which runs until the loop ends.
Manager == INSTANCE ConnManager WITH running <- pc \notin Ending

-----------------------------------------------------------------------------
(* Kernel *)

\* A new descriptor is the lowest that is free.
Lowest(f) == f \in Fds \ open /\ \A g \in Fds \ open : f <= g
Exhausted == Fds \subseteq open

\* What a registered descriptor is ready for.
PollMask(f) ==
  IF registered[f] = Listener
  THEN {e \in {"IN"} : backlog # {}}
  ELSE {e \in {"IN"} : client[sock[f]] \in {"data", "bad", "gone"}}
         \cup {e \in {"OUT"} : f \in armed}

\* The descriptors epoll_wait() can report.
Reported == {f \in ready : PollMask(f) # {}}

\* The last reference to a socket: epoll forgets it and the client sees it.
close(f) ==
  /\ open' = open \ {f}
  /\ registered' = [registered EXCEPT ![f] = Null]
  /\ armed' = armed \ {f}
  /\ ready' = ready \ {f}
  /\ sock' = [sock EXCEPT ![f] = Null]
  /\ client' = [client EXCEPT ![sock[f]] = "closed"]
  /\ leftover' = leftover \ {sock[f]}

\* Closing the epoll descriptor ends every registration.
close_epoll == registered' = [f \in Fds |-> Null] /\ armed' = {} /\ ready' = {}

-----------------------------------------------------------------------------
(* Clients.  Bound: they stop when the loop is over and nobody looks.      *)

\* A new connection is an edge for the listener.
ClientConnect(c) ==
  /\ client[c] = "away" /\ listen_fd # NoFd /\ pc \notin Ending
  /\ client' = [client EXCEPT ![c] = "idle"]
  /\ backlog' = backlog \cup {c}
  /\ ready' = ready \cup {f \in {listen_fd} : registered[f] # Null}
  /\ UNCHANGED <<loopVars, fdVars, batch, managerVars, fd, open, registered,
                 armed, sock, leftover, history>>

\* Input, more of it or its end is an edge for the client's connection.
ClientActs(c, act) ==
  /\ pc \notin Ending
  /\ \/ client[c] \in {"idle", "data"} /\ act \in {"data", "bad", "gone"}
     \/ client[c] = "bad" /\ act \in {"bad", "gone"}
  /\ client' = [client EXCEPT ![c] = act]
  /\ leftover' = leftover \ {c}
  /\ ready' = ready \cup {f \in Fds : sock[f] = c /\ registered[f] # Null}
  /\ UNCHANGED <<loopVars, fdVars, batch, managerVars, fd, open, registered,
                 armed, backlog, sock, history>>

-----------------------------------------------------------------------------
(* Start-up: reactor_bootstrap_listener() *)

vr_reactor_create ==
  /\ pc = "start"
  /\ \E f \in Fds : /\ Lowest(f)
                    /\ epoll_fd' = f
                    /\ open' = open \cup {f}
  /\ pc' = "server"
  /\ UNCHANGED <<running_status, listen_fd, new_fd, new_conn, batch,
                 managerVars, fd, epollVars, netVars, history>>

ReactorCreateFails ==
  /\ pc = "start" /\ (MayFail \/ Exhausted)
  /\ pc' = "failed"
  /\ UNCHANGED <<running_status, fdVars, batch, managerVars, fd, open,
                 epollVars, netVars, history>>

\* socket(), setsockopt(), bind() and listen().
vr_tcp_server_create ==
  /\ pc = "server"
  /\ \E f \in Fds : /\ Lowest(f) /\ f # VR_ERROR
                    /\ listen_fd' = f
                    /\ open' = open \cup {f}
  /\ pc' = "listener"
  /\ UNCHANGED <<running_status, epoll_fd, new_fd, new_conn, batch,
                 managerVars, fd, epollVars, netVars, history>>

\* A socket that a later call fails on is closed, and a socket() that
\* failed is noticed by the next call.  A socket whose number is VR_ERROR
\* is taken for a failure and stays open.
TcpServerFails ==
  /\ pc = "server" /\ (MayFail \/ Exhausted \/ Lowest(VR_ERROR))
  /\ \E kept \in SUBSET {f \in {VR_ERROR} : Lowest(f)} :
       open' = (open \ {epoll_fd}) \cup kept
  /\ epoll_fd' = NoFd
  /\ pc' = "failed"
  /\ UNCHANGED <<running_status, listen_fd, new_fd, new_conn, batch,
                 managerVars, fd, epollVars, netVars, history>>

\* EPOLL_CTL_ADD polls: clients may have come since listen().
reactor_bootstrap_listener ==
  /\ pc = "listener"
  /\ registered' = [registered EXCEPT ![listen_fd] = Listener]
  /\ ready' = ready \cup {f \in {listen_fd} : backlog # {}}
  /\ pc' = "test"
  /\ UNCHANGED <<running_status, fdVars, batch, managerVars, fd, open, armed,
                 netVars, history>>

\* fcntl(), malloc() or epoll_ctl() fails; backed-up clients are refused.
BootstrapFails ==
  /\ pc = "listener" /\ MayFail
  /\ open' = open \ {listen_fd, epoll_fd}
  /\ listen_fd' = NoFd /\ epoll_fd' = NoFd
  /\ backlog' = {}
  /\ pc' = "failed"
  /\ UNCHANGED <<running_status, new_fd, new_conn, batch, managerVars, fd,
                 epollVars, sock, client, leftover, history>>

-----------------------------------------------------------------------------
(* vr_reactor_loop() *)

LoopTest ==
  /\ pc = "test"
  /\ pc' = IF running_status = "RUNNING" THEN "call" ELSE "shutdown"
  /\ UNCHANGED <<running_status, fdVars, batch, managerVars, fd, open,
                 epollVars, netVars, history>>

\* The thread enters epoll_wait().
EnterWait ==
  /\ pc = "call"
  /\ pc' = "asleep"
  /\ UNCHANGED <<running_status, fdVars, batch, managerVars, fd, open,
                 epollVars, netVars, history>>

\* epoll_wait() takes what it reports off the ready list; what has become
\* unready is dropped.
vr_reactor_wait(report) ==
  /\ pc = "asleep"
  /\ report # {} /\ report \subseteq Reported
  /\ Cardinality(report) <= MaxEvents
  /\ report = Reported \/ Cardinality(report) = MaxEvents
  /\ batch' = {[ptr |-> registered[f], events |-> PollMask(f)] : f \in report}
  /\ ready' = Reported \ report
  /\ pc' = "batch"
  /\ UNCHANGED <<running_status, fdVars, managerVars, fd, open, registered,
                 armed, netVars, history>>

\* EINTR without a request: the process was stopped and continued.
WaitFails ==
  /\ pc = "asleep" /\ MayFail /\ Reported = {}
  /\ pc' = "shutdown"
  /\ UNCHANGED <<running_status, fdVars, batch, managerVars, fd, open,
                 epollVars, netVars, history>>

\* Mutant: EINTR is retried without a look at running_status.
interrupted_retries ==
  /\ pc \notin Ended
  /\ running_status' = "SHUTDOWN_REQUESTED"
  /\ UNCHANGED <<pc, fdVars, batch, managerVars, fd, open, epollVars, netVars,
                 history>>

\* The signal handler runs at any time; the signal ends an epoll_wait()
\* that has nothing to report with EINTR, which ends the loop.
handle_shutdown ==
  /\ pc \notin Ended
  /\ running_status' = "SHUTDOWN_REQUESTED"
  /\ pc' = IF pc = "asleep" /\ Reported = {} THEN "shutdown" ELSE pc
  /\ missed' = (missed \/ pc = "call")
  /\ UNCHANGED <<fdVars, batch, managerVars, fd, open, epollVars, netVars,
                 broke>>

BatchDone ==
  /\ pc = "batch" /\ batch = {}
  /\ pc' = "test"
  /\ UNCHANGED <<running_status, fdVars, batch, managerVars, fd, open,
                 epollVars, netVars, history>>

-----------------------------------------------------------------------------
(* reactor_handle_listener_event() *)

HandleListener ==
  /\ pc = "batch"
  /\ \E e \in batch : e.ptr = Listener /\ batch' = batch \ {e}
  /\ pc' = "accept"
  /\ UNCHANGED <<running_status, fdVars, managerVars, fd, open, epollVars,
                 netVars, history>>

\* accept() looks for a descriptor before it looks for a client.
vr_tcp_accept(c) ==
  /\ pc = "accept" /\ c \in backlog
  /\ \E f \in Fds : /\ Lowest(f)
                    /\ new_fd' = f
                    /\ open' = open \cup {f}
                    /\ sock' = [sock EXCEPT ![f] = c]
  /\ backlog' = backlog \ {c}
  /\ pc' = "create"
  /\ UNCHANGED <<running_status, epoll_fd, listen_fd, new_conn, batch,
                 managerVars, fd, epollVars, client, leftover, history>>

AcceptEmpty ==
  /\ pc = "accept" /\ backlog = {} /\ ~Exhausted
  /\ pc' = "batch" /\ broke' = FALSE
  /\ UNCHANGED <<running_status, fdVars, batch, managerVars, fd, open,
                 epollVars, netVars, missed>>

\* EMFILE, or an error that may cost a waiting client its place: the loop
\* ends.
AcceptFails(dropped) ==
  /\ pc = "accept"
  /\ \/ Exhausted /\ dropped = {}
     \/ MayFail /\ dropped \subseteq backlog /\ Cardinality(dropped) <= 1
  /\ backlog' = backlog \ dropped
  /\ client' = [c \in Client |-> IF c \in dropped THEN "closed" ELSE client[c]]
  /\ pc' = "batch" /\ broke' = TRUE
  /\ UNCHANGED <<running_status, fdVars, batch, managerVars, fd, open,
                 epollVars, sock, leftover, missed>>

vr_connection_create(p) ==
  /\ pc = "create" /\ pc' = "register"
  /\ Manager!vr_connection_create(p)
  /\ fd' = [fd EXCEPT ![p] = new_fd]
  /\ new_conn' = p /\ new_fd' = NoFd
  /\ UNCHANGED <<running_status, epoll_fd, listen_fd, batch, open, epollVars,
                 netVars, history>>

\* Mutant: the accepted socket is not closed.
create_fails_leaks ==
  /\ pc = "create" /\ pc' = "accept"
  /\ slots = Null \/ MayFail \/ live = Conn
  /\ new_fd' = NoFd
  /\ UNCHANGED <<running_status, epoll_fd, listen_fd, new_conn, batch,
                 managerVars, fd, open, epollVars, netVars, history>>

\* The manager has no array, or memory is short, maybe after the array grew.
ConnectionCreateFails ==
  /\ pc = "create" /\ pc' = "accept"
  /\ slots = Null \/ MayFail \/ live = Conn
  /\ close(new_fd)
  /\ new_fd' = NoFd
  /\ UNCHANGED <<running_status, epoll_fd, listen_fd, new_conn, batch,
                 managerVars, fd, backlog, history>>

ConnectionCreateFailsLate ==
  /\ pc = "create" /\ pc' = "accept" /\ MayFail
  /\ Manager!CreateFailsLate
  /\ close(new_fd)
  /\ new_fd' = NoFd
  /\ UNCHANGED <<running_status, epoll_fd, listen_fd, new_conn, batch, fd,
                 backlog, history>>

\* Mutant: one client is accepted per event.
add_ends_accept ==
  /\ pc = "register" /\ pc' = "batch"
  /\ LET f == fd[new_conn]
     IN  /\ registered' = [registered EXCEPT ![f] = new_conn]
         /\ ready' = ready \cup {g \in {f} : client[sock[g]] # "idle"}
  /\ new_conn' = Null
  /\ UNCHANGED <<running_status, epoll_fd, listen_fd, new_fd, batch,
                 managerVars, fd, open, armed, netVars, history>>

\* EPOLL_CTL_ADD polls: the client may have acted since accept().
vr_reactor_add ==
  /\ pc = "register" /\ pc' = "accept"
  /\ LET f == fd[new_conn]
     IN  /\ registered' = [registered EXCEPT ![f] = new_conn]
         /\ ready' = ready \cup {g \in {f} : client[sock[g]] # "idle"}
  /\ new_conn' = Null
  /\ UNCHANGED <<running_status, epoll_fd, listen_fd, new_fd, batch,
                 managerVars, fd, open, armed, netVars, history>>

\* Mutant: the connection stays with the manager.
register_fails_keeps ==
  /\ pc = "register" /\ pc' = "accept" /\ MayFail
  /\ close(fd[new_conn])
  /\ new_conn' = Null
  /\ UNCHANGED <<running_status, epoll_fd, listen_fd, new_fd, batch,
                 managerVars, fd, backlog, history>>

\* Mutant: the connection is freed behind the manager's back.
register_fails_frees ==
  /\ pc = "register" /\ pc' = "accept" /\ MayFail
  /\ close(fd[new_conn])
  /\ live' = live \ {new_conn}
  /\ new_conn' = Null
  /\ UNCHANGED <<running_status, epoll_fd, listen_fd, new_fd, batch,
                 slots, count, capacity, slot, fd, backlog, history>>

\* fcntl() or epoll_ctl() fails.
RegisterFails ==
  /\ pc = "register" /\ pc' = "accept" /\ MayFail
  /\ close(fd[new_conn])
  /\ Manager!vr_connection_destroy(new_conn)
  /\ new_conn' = Null
  /\ UNCHANGED <<running_status, epoll_fd, listen_fd, new_fd, batch, fd,
                 backlog, history>>

-----------------------------------------------------------------------------
(* reactor_handle_client_event() *)

reactor_close_connection(p) ==
  /\ close(fd[p])
  /\ Manager!vr_connection_destroy(p)

\* Mutant: the event of a closed connection is handled again.
closing_keeps_event ==
  /\ pc = "batch"
  /\ \E e \in batch :
       /\ e.ptr # Listener
       /\ "IN" \in e.events /\ client[sock[fd[e.ptr]]] \in {"bad", "gone"}
       /\ reactor_close_connection(e.ptr)
  /\ UNCHANGED <<loopVars, fdVars, batch, fd, backlog, history>>

\* The end of the stream, an invalid packet, or one for whose payload there
\* is no memory.  With EPOLLOUT also a write to a peer that is gone, or an
\* invalid packet that waited in the read ring for room for responses.
HandleClosing ==
  /\ pc = "batch"
  /\ \E e \in batch :
       /\ e.ptr # Listener
       /\ LET input == client[sock[fd[e.ptr]]]
          IN  \/ "IN" \in e.events /\ input \in {"bad", "gone"}
              \/ "IN" \in e.events /\ input = "data" /\ MayFail
              \/ "OUT" \in e.events
       /\ batch' = batch \ {e}
       /\ reactor_close_connection(e.ptr)
  /\ UNCHANGED <<loopVars, fdVars, fd, backlog, history>>

\* Mutant: recv() is called once per event, as if events were level-triggered.
handle_reads_once(answer, drained) ==
  /\ pc = "batch"
  /\ \E e \in batch :
       LET f == fd[e.ptr]
           c == sock[f]
           reads == "IN" \in e.events
           writes == "OUT" \in e.events
       IN  /\ e.ptr # Listener
           /\ batch' = batch \ {e}
           /\ client' = IF reads /\ drained /\ client[c] = "data"
                        THEN [client EXCEPT ![c] = "idle"] ELSE client
           /\ armed' = (armed \ {f}) \cup {g \in {f} : answer}
           /\ ready' = ready \cup
                {g \in {f} : answer \/ (writes /\ client[c] # "idle")}
  /\ UNCHANGED <<loopVars, fdVars, managerVars, fd, open, registered, backlog,
                 sock, leftover, history>>

\* An event that does not close the connection: writes, then reads, then the
\* packets in the read ring, those of earlier events included.
\*   drained  the reads went on to EAGAIN; they do not when the ring is full
\*            at its largest or when there is no memory for it, and the rest
\*            of the input stays in the socket, its edge used up
\*   answer   the write ring is not empty in the end, so EPOLLOUT is armed
\* Writes that empty the ring disarm EPOLLOUT before the reads.  Either
\* EPOLL_CTL_MOD polls.  After the end of the stream, or an invalid packet
\* that no earlier one holds up, the connection is closed instead.
HandleClient(answer, drained) ==
  /\ pc = "batch"
  /\ \E e \in batch :
       LET f == fd[e.ptr]
           c == sock[f]
           reads == "IN" \in e.events
           writes == "OUT" \in e.events
       IN  /\ e.ptr # Listener
           /\ ~drained => reads /\ (c \in Large \/ MayFail)
           /\ reads /\ drained => client[c] # "gone"
           /\ reads /\ drained /\ client[c] = "bad" => answer \/ MayFail
           /\ batch' = batch \ {e}
           /\ client' = IF reads /\ drained
                        THEN [client EXCEPT ![c] = "idle"] ELSE client
           /\ leftover' = IF drained THEN leftover \ {x \in {c} : reads}
                                      ELSE leftover \cup {c}
           /\ armed' = (armed \ {f}) \cup {g \in {f} : answer}
           /\ ready' = ready \cup
                {g \in {f} : answer \/ (writes /\ client[c] # "idle")}
  /\ UNCHANGED <<loopVars, fdVars, managerVars, fd, open, registered, backlog,
                 sock, history>>

-----------------------------------------------------------------------------
(* reactor_shutdown() *)

\* One round of the loop: the connection goes, its descriptor stays.
ShutdownConnection ==
  /\ pc = "shutdown" /\ count > 0
  /\ Manager!vr_connection_destroy(slots[0])
  /\ UNCHANGED <<loopVars, fdVars, batch, fd, open, epollVars, netVars,
                 history>>

reactor_shutdown ==
  /\ pc = "shutdown" /\ count = 0
  /\ open' = open \ {listen_fd, epoll_fd}
  /\ close_epoll
  /\ listen_fd' = NoFd /\ epoll_fd' = NoFd
  /\ backlog' = {}
  /\ pc' = "returned"
  /\ UNCHANGED <<running_status, new_fd, new_conn, batch, managerVars, fd,
                 sock, client, leftover, history>>

-----------------------------------------------------------------------------
Init ==
  /\ pc = "start" /\ running_status = "RUNNING"
  /\ epoll_fd = NoFd /\ listen_fd = NoFd
  /\ new_fd = NoFd /\ new_conn = Null
  /\ batch = {}
  /\ Manager!vr_connection_manager_init(MaxConns)
  /\ slot = [p \in Conn |-> 0] /\ live = {}
  /\ fd = [p \in Conn |-> NoFd]
  /\ open = Inherited
  /\ registered = [f \in Fds |-> Null] /\ armed = {} /\ ready = {}
  /\ backlog = {} /\ sock = [f \in Fds |-> Null]
  /\ client = [c \in Client |-> "away"] /\ leftover = {}
  /\ missed = FALSE /\ broke = FALSE

Bootstrap ==
  \/ vr_reactor_create
  \/ ReactorCreateFails
  \/ vr_tcp_server_create
  \/ TcpServerFails
  \/ reactor_bootstrap_listener
  \/ BootstrapFails

Accept ==
  \/ HandleListener
  \/ \E c \in Client : vr_tcp_accept(c)
  \/ AcceptEmpty
  \/ \E dropped \in SUBSET backlog : AcceptFails(dropped)
  \/ \E p \in Conn : vr_connection_create(p)
  \/ ConnectionCreateFails
  \/ ConnectionCreateFailsLate
  \/ vr_reactor_add
  \/ RegisterFails

Server ==
  \/ Bootstrap
  \/ LoopTest
  \/ EnterWait
  \/ \E report \in SUBSET Reported : vr_reactor_wait(report)
  \/ BatchDone
  \/ Accept
  \/ HandleClosing
  \/ \E answer, drained \in BOOLEAN : HandleClient(answer, drained)
  \/ ShutdownConnection
  \/ reactor_shutdown

Environment ==
  \/ \E c \in Client : ClientConnect(c)
  \/ \E c \in Client, act \in {"data", "bad", "gone"} : ClientActs(c, act)
  \/ handle_shutdown
  \/ WaitFails

Next == Server \/ Environment

Spec == Init /\ [][Next]_vars

\* epoll_wait() reports the descriptor.
Reports(f) ==
  \E report \in SUBSET Reported : f \in report /\ vr_reactor_wait(report)

\* The thread keeps running, and the kernel's ready list is a queue: a
\* descriptor that stays on it is not passed over for ever.
FairSpec ==
  Spec /\ WF_vars(Server) /\ \A f \in Fds \ Inherited : SF_vars(Reports(f))

-----------------------------------------------------------------------------
(* Properties *)

Pointer == Conn \cup {Listener}

\* The state has its types.
TypeOK ==
  /\ pc \in {"start", "server", "listener", "test", "call", "asleep", "batch",
             "accept", "create", "register"} \cup Ending
  /\ running_status \in {"RUNNING", "SHUTDOWN_REQUESTED"}
  /\ epoll_fd \in Fds \cup {NoFd} /\ listen_fd \in Fds \cup {NoFd}
  /\ new_fd \in Fds \cup {NoFd} /\ new_conn \in Conn \cup {Null}
  /\ batch \subseteq [ptr : Pointer, events : SUBSET {"IN", "OUT"}]
  /\ Manager!TypeOK
  /\ fd \in [Conn -> Fds \cup {NoFd}]
  /\ open \subseteq Fds
  /\ registered \in [Fds -> Pointer \cup {Null}]
  /\ armed \subseteq Fds /\ ready \subseteq Fds
  /\ backlog \subseteq Client
  /\ sock \in [Fds -> Client \cup {Null}]
  /\ client \in [Client -> {"away", "idle", "data", "bad", "gone", "closed"}]
  /\ leftover \subseteq Client
  /\ missed \in BOOLEAN /\ broke \in BOOLEAN

\* The pointers left in a batch of events are allocated and registered, and
\* no two are the same: closing a connection, accepting others into its
\* memory and its descriptor, while the rest of the batch waits, never
\* leaves the loop with a pointer to freed or reused memory.
BatchIsLive ==
  /\ \A e \in batch : \/ e.ptr = Listener
                      \/ e.ptr \in live /\ registered[fd[e.ptr]] = e.ptr
  /\ \A d, e \in batch : d.ptr = e.ptr => d = e

\* While the loop runs, epoll watches exactly the connections that are
\* allocated, each under its own descriptor; only the one being set up is
\* not watched yet.
InterestExact ==
  pc \notin Ending =>
    /\ \A f \in Fds : registered[f] \in Conn =>
         registered[f] \in live /\ fd[registered[f]] = f
    /\ \A p \in live : p # new_conn => registered[fd[p]] = p

Held == {epoll_fd, listen_fd, new_fd} \ {NoFd}

\* Every open descriptor has one owner.
Owned ==
  /\ open = Inherited \cup Held \cup {fd[p] : p \in live}
  /\ Held \cap Inherited = {}
  /\ \A p \in live : fd[p] \notin Inherited \cup Held
  /\ \A p, q \in live : fd[p] = fd[q] => p = q
  /\ listen_fd # NoFd => listen_fd # epoll_fd
  /\ new_fd # NoFd => new_fd # epoll_fd /\ new_fd # listen_fd

\* No error path leaks a descriptor or closes one twice: the open ones are
\* those the process was started with, the loop's own and one for each
\* connection, all different; after a start that failed only the first are
\* left.  This needs standard output to be open: a listening socket with
\* the number VR_ERROR would be taken for an error.
DescriptorsOwned ==
  VR_ERROR \in Inherited /\ pc \notin {"shutdown", "returned"} =>
    Owned /\ (pc = "failed" => open = Inherited)

\* The descriptors through which the loop can still reach a client.
Reachable == {fd[p] : p \in live} \cup ({new_fd} \ {NoFd})

\* No client is forgotten and none is served twice: while the loop runs, a
\* client that has connected and was not closed either waits in the backlog
\* or is at the other end of exactly one descriptor, which is the accept
\* loop's or a connection's; and a client whose socket was closed is at none.
\* No error path between accept() and EPOLL_CTL_ADD breaks this.
ClientsAccounted ==
  pc \notin Ending =>
    \A c \in Client :
      LET ends == {f \in Fds : sock[f] = c}
      IN  IF client[c] \in {"idle", "data", "bad", "gone"}
          THEN \/ c \in backlog /\ ends = {}
               \/ c \notin backlog /\ \E f \in Reachable : ends = {f}
          ELSE c \notin backlog /\ ends = {}

\* No edge is lost but where the code drops one: when the thread sleeps,
\* every connection with input is on the ready list, also if the input came
\* between accept() and EPOLL_CTL_ADD, between the report of an event and its
\* handling, or after reads that stopped early.  The one exception is a
\* connection whose last event stopped reading before EAGAIN, with a client
\* that has sent nothing since and no response left to send: its EPOLL_CTL_MOD
\* would have polled.
NoEventLost ==
  pc = "asleep" =>
    \A p \in live :
      LET f == fd[p]
      IN  client[sock[f]] # "idle" =>
            \/ f \in ready
            \/ sock[f] \in leftover /\ f \notin armed

\* Clients wait in the backlog of a sleeping server only after an error
\* ended the accept loop.
BacklogWaitsOnlyAfterError ==
  pc = "asleep" /\ backlog # {} => listen_fd \in ready \/ broke

\* What the loop does to the connection manager are operations of the
\* manager in an order it allows.
ManagerUsed == Manager!Spec

\* A client that connects is accepted or refused, unless the loop ends or
\* the accept loop met an error.
BacklogServed ==
  \A c \in Client : c \in backlog ~> c \notin backlog \/ broke

\* A client that went away is noticed, however busy the others are, however
\* few events fit into a batch and however often a full ring stops the reads
\* of another client, unless the loop ends.  The exceptions are its own: an
\* error of the accept loop left it in the backlog, or an event since it went
\* stopped reading before the end of its stream.
GoneIsNoticed ==
  \A c \in Client :
    client[c] = "gone" ~> \/ client[c] = "closed"
                          \/ c \in leftover
                          \/ broke /\ c \in backlog
                          \/ pc \in Ended

\* A request to shut down ends the loop, except while it sleeps without
\* events because the signal came just before epoll_wait().
ShutdownHonoured ==
  running_status = "SHUTDOWN_REQUESTED"
    ~> pc \in Ended \/ (missed /\ pc = "asleep" /\ Reported = {})
=============================================================================
