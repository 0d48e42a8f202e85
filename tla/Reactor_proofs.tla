--------------------------- MODULE Reactor_proofs ---------------------------
(***************************************************************************)
(* The reactor, for any number of clients, connections, descriptors and    *)
(* events and any failures.  The inductive invariant says, beside the      *)
(* properties themselves, which variables are set in which phase, who is   *)
(* at the other end of a socket and where an edge is kept until it is      *)
(* handled.  The loop implements the connection manager's specification,   *)
(* so what is proved of the manager alone holds in it.                     *)
(***************************************************************************)
EXTENDS Reactor, TLAPS

-----------------------------------------------------------------------------
(* The inductive invariant *)

Starting == {"start", "server", "listener"}
Accepting == {"accept", "create", "register"}
Present == {"idle", "data", "bad", "gone"}

\* The types, but for the manager's.
Types ==
  /\ pc \in Starting \cup Accepting \cup Ending
            \cup {"test", "call", "asleep", "batch"}
  /\ running_status \in {"RUNNING", "SHUTDOWN_REQUESTED"}
  /\ epoll_fd \in Fds \cup {NoFd} /\ listen_fd \in Fds \cup {NoFd}
  /\ new_fd \in Fds \cup {NoFd} /\ new_conn \in Conn \cup {Null}
  /\ batch \subseteq [ptr : Pointer, events : SUBSET {"IN", "OUT"}]
  /\ live \subseteq Conn
  /\ fd \in [Conn -> Fds \cup {NoFd}]
  /\ open \subseteq Fds
  /\ registered \in [Fds -> Pointer \cup {Null}]
  /\ armed \subseteq Fds /\ ready \subseteq Fds
  /\ backlog \subseteq Client
  /\ sock \in [Fds -> Client \cup {Null}]
  /\ client \in [Client -> Present \cup {"away", "closed"}]
  /\ leftover \subseteq Client
  /\ missed \in BOOLEAN /\ broke \in BOOLEAN

\* What the thread holds in which phase.
Phase ==
  /\ new_fd # NoFd <=> pc = "create"
  /\ new_conn # Null <=> pc = "register"
  /\ batch # {} => pc \in Accepting \cup {"batch"}
  /\ epoll_fd = NoFd <=> pc \in {"start"} \cup Ended
  /\ listen_fd = NoFd <=> pc \in {"start", "server"} \cup Ended
  /\ pc \in Starting \cup {"failed"} =>
       live = {} /\ registered = [f \in Fds |-> Null]

\* InterestExact, with the listener, the connection being set up and the
\* ready list.
Watched ==
  pc \notin Ending =>
    /\ \A f \in Fds : registered[f] \in Conn =>
         registered[f] \in live /\ fd[registered[f]] = f
    /\ \A p \in live : p # new_conn => registered[fd[p]] = p
    /\ new_conn # Null => new_conn \in live /\ registered[fd[new_conn]] = Null
    /\ \A f \in Fds : registered[f] = Listener => f = listen_fd
    /\ pc \notin Starting => registered[listen_fd] = Listener
    /\ \A f \in ready : registered[f] # Null

\* DescriptorsOwned, without its assumption where the loop runs.
Closed ==
  /\ pc \notin Ending => Owned
  /\ pc = "failed" /\ VR_ERROR \in Inherited => open = Inherited

\* A client is at one socket or in the backlog.
Sockets ==
  /\ \A f \in Fds : sock[f] # Null =>
       sock[f] \notin backlog /\ client[sock[f]] \in Present
  /\ \A f, g \in Fds : sock[f] # Null /\ sock[f] = sock[g] => f = g
  /\ \A c \in backlog : client[c] \in Present
  /\ pc \notin Ending =>
       /\ \A p \in live : sock[fd[p]] # Null
       /\ new_fd # NoFd => sock[new_fd] # Null

\* The last event at a descriptor left input and no response.
Dropped(f) == sock[f] \in leftover /\ f \notin armed

\* NoEventLost for every phase: an edge is on the ready list or in the batch,
\* unless it was dropped.
Edges ==
  pc \notin Ending =>
    \A p \in live : p # new_conn /\ client[sock[fd[p]]] # "idle" =>
      \/ fd[p] \in ready \/ Dropped(fd[p])
      \/ \E e \in batch : e.ptr = p /\ "IN" \in e.events

\* BacklogWaitsOnlyAfterError for every phase.
Waiting ==
  backlog # {} =>
    \/ listen_fd \in ready \/ broke
    \/ \E e \in batch : e.ptr = Listener
    \/ pc \in Starting \cup Accepting \cup Ending

\* The inductive invariant.
IInv == Types /\ Phase /\ Watched /\ BatchIsLive /\ Closed /\ Sockets
          /\ Edges /\ Waiting

\* What the proofs use of the constants.
LEMMA Addresses ==
  /\ Listener \notin Conn /\ Null \notin Conn /\ Null # Listener
  /\ Null \notin Client
  /\ NoFd \notin Fds /\ Inherited \subseteq Fds
BY ReactorAssumption DEF NoFd, Fds

USE Addresses DEF loopVars, fdVars, managerVars, epollVars, netVars,
  history, Ended, Ending, Starting, Accepting, Present, Pointer

\* The owners of descriptors depend on nothing else.
LEMMA OwnedUnchanged ==
  ASSUME UNCHANGED <<open, epoll_fd, listen_fd, new_fd, live, fd>>
  PROVE  Owned' = Owned
<1>1. Held' = Held
  BY Zenon DEF Held
<1>2. {fd[p] : p \in live}' = {fd[p] : p \in live}
  BY Zenon
<1> QED BY <1>1, <1>2, Zenon DEF Owned

\* Where the connections and the new socket are while the loop runs.
LEMMA Located ==
  ASSUME IInv, pc \notin Ending
  PROVE  /\ \A p \in live :
              /\ p \in Conn /\ p # Null /\ p # Listener /\ fd[p] \in Fds
              /\ fd[p] # epoll_fd /\ fd[p] # listen_fd /\ fd[p] # new_fd
              /\ fd[p] \notin Inherited /\ sock[fd[p]] \in Client
              /\ sock[fd[p]] \notin backlog
              /\ client[sock[fd[p]]] \in Present
         /\ \A p, q \in live : fd[p] = fd[q] => p = q
         /\ \A p, q \in live : sock[fd[p]] = sock[fd[q]] => p = q
         /\ new_fd # NoFd =>
              /\ new_fd \in Fds /\ sock[new_fd] \in Client
              /\ sock[new_fd] \notin backlog
              /\ new_fd # epoll_fd /\ new_fd # listen_fd
              /\ new_fd \notin Inherited /\ new_fd \in open
              /\ \A p \in live : sock[fd[p]] # sock[new_fd]
<1>1. Owned /\ live \subseteq Conn
  BY Zenon DEF IInv, Closed, Types
<1>2. \A p \in live : fd[p] \in open
  BY <1>1, Zenon DEF Owned
<1>3. \A p \in live : fd[p] \in Fds /\ fd[p] \notin Inherited \cup Held
  BY <1>1, <1>2, Zenon DEF IInv, Types, Owned
<1>4. \A p \in live :
        fd[p] # epoll_fd /\ fd[p] # listen_fd /\ fd[p] # new_fd
  BY <1>3, Zenon DEF Held
<1>5. \A p \in live : sock[fd[p]] # Null
  BY Zenon DEF IInv, Sockets
<1>6. sock \in [Fds -> Client \cup {Null}]
  BY Zenon DEF IInv, Types
<1>7. \A p \in live : /\ sock[fd[p]] \in Client /\ sock[fd[p]] \notin backlog
                      /\ client[sock[fd[p]]] \in Present
  BY <1>3, <1>5, <1>6, Zenon DEF IInv, Sockets
<1>8. \A p, q \in live : fd[p] = fd[q] => p = q
  BY <1>1, Zenon DEF Owned
<1>9. \A f, g \in Fds : sock[f] # Null /\ sock[f] = sock[g] => f = g
  BY Zenon DEF IInv, Sockets
<1>10. \A p, q \in live : sock[fd[p]] = sock[fd[q]] => p = q
  BY <1>3, <1>5, <1>8, <1>9, Zenon
<1>11. ASSUME new_fd # NoFd
       PROVE  /\ new_fd \in Fds /\ sock[new_fd] \in Client
              /\ sock[new_fd] \notin backlog
              /\ new_fd # epoll_fd /\ new_fd # listen_fd
              /\ new_fd \notin Inherited /\ new_fd \in open
              /\ \A p \in live : sock[fd[p]] # sock[new_fd]
  <2>1. new_fd \in Fds
    BY <1>11, Zenon DEF IInv, Types
  <2>2. new_fd \in Held
    BY <1>11, Zenon DEF Held
  <2>3. /\ new_fd # epoll_fd /\ new_fd # listen_fd /\ new_fd \notin Inherited
        /\ new_fd \in open
    BY <1>1, <1>11, <2>2, Zenon DEF Owned
  <2>4. sock[new_fd] # Null /\ sock[new_fd] \notin backlog
    BY <1>11, <2>1, Zenon DEF IInv, Sockets
  <2> QED BY <1>3, <1>4, <1>6, <1>9, <2>1, <2>3, <2>4, Zenon
<1> QED BY <1>1, <1>3, <1>4, <1>7, <1>8, <1>10, <1>11, Zenon

-----------------------------------------------------------------------------
(* Start-up, clients, the loop, shutdown and epoll_wait() *)

\* IInv holds in the initial states.
LEMMA InitInv == Init => IInv
<1> SUFFICES ASSUME Init PROVE IInv
  BY Zenon
<1>1. Held = {} /\ live = {} /\ open = Inherited
  BY Zenon DEF Init, Held
<1>2. Types /\ Phase
  BY Zenon DEF Init, Types, Phase
<1>3. Closed
  BY <1>1, Zenon DEF Init, Closed, Owned
<1> QED
  BY <1>2, <1>3, Zenon
     DEF Init, IInv, Watched, BatchIsLive, Sockets, Edges, Waiting

\* epoll_create1() fails.
LEMMA ReactorCreateFailsInv == ASSUME IInv, ReactorCreateFails PROVE IInv'
<1>1. Held = {} /\ live = {}
  BY Zenon DEF IInv, Phase, Held, ReactorCreateFails
<1>2. open = Inherited
  BY <1>1, Zenon DEF IInv, Closed, Owned, ReactorCreateFails
<1> QED
  BY <1>1, <1>2, Zenon
     DEF IInv, Types, Phase, Watched, BatchIsLive, Closed, Sockets,
                    Edges, Waiting, ReactorCreateFails

\* The listening socket is not there: the epoll descriptor is given back.
LEMMA TcpServerFailsInv == ASSUME IInv, TcpServerFails PROVE IInv'
<1>1. Held = {epoll_fd} /\ live = {} /\ epoll_fd \notin Inherited
  BY Zenon DEF IInv, Phase, Closed, Owned, Held, TcpServerFails
<1>2. open = Inherited \cup {epoll_fd}
  BY <1>1, Zenon DEF IInv, Closed, Owned, TcpServerFails
<1>3. PICK kept \in SUBSET {f \in {VR_ERROR} : Lowest(f)} :
        open' = (open \ {epoll_fd}) \cup kept
  BY Zenon DEF TcpServerFails
<1>4. VR_ERROR \in Inherited => open' = Inherited
  BY <1>1, <1>2, <1>3, Zenon DEF Lowest
<1>5. open' \subseteq Fds
  BY <1>2, <1>3, Zenon DEF IInv, Types, Lowest
<1> QED
  BY <1>1, <1>4, <1>5, Zenon
     DEF IInv, Types, Phase, Watched, BatchIsLive, Closed,
                          Sockets, Edges, Waiting, TcpServerFails

\* Start-up gets a new descriptor for epoll or for the listener.
LEMMA BootstrapInv ==
  ASSUME IInv, vr_reactor_create \/ vr_tcp_server_create
  PROVE  IInv'
<1>1. PICK f \in Fds : /\ Lowest(f)
                       /\ open' = open \cup {f}
                       /\ \/ epoll_fd' = f /\ listen_fd' = listen_fd
                             /\ pc = "start" /\ pc' = "server"
                          \/ listen_fd' = f /\ epoll_fd' = epoll_fd
                             /\ pc = "server" /\ pc' = "listener"
  BY Zenon DEF vr_reactor_create, vr_tcp_server_create
<1>2. UNCHANGED <<running_status, new_fd, new_conn, batch, managerVars, fd,
                  epollVars, netVars, history>>
  BY Zenon DEF vr_reactor_create, vr_tcp_server_create
<1>3. f \notin open /\ f # NoFd
  BY <1>1, Zenon DEF Lowest
<1>4. live = {} /\ new_fd = NoFd /\ new_conn = Null
  BY <1>1, Zenon DEF IInv, Phase
<1>5. Types'
  BY <1>1, <1>2, Zenon DEF IInv, Types
<1>6. Phase'
  BY <1>1, <1>2, <1>3, Zenon DEF IInv, Phase
<1>7. Watched' /\ BatchIsLive'
  <2>1. \A g \in Fds : registered[g] = Null
    BY <1>1, Zenon DEF IInv, Phase
  <2>2. batch = {}
    BY <1>1, Zenon DEF IInv, Phase
  <2> QED BY <1>1, <1>2, <1>4, <2>1, <2>2, Zenon
             DEF IInv, Types, Watched, BatchIsLive
<1>8. Closed'
  <2>1. Owned
    BY <1>1, Zenon DEF IInv, Closed
  <2>2. Held' = Held \cup {f}
    BY <1>1, <1>2, <1>3, Zenon DEF IInv, Phase, Held
  <2>3. f \notin Inherited /\ f \notin Held
    BY <1>3, <2>1, Zenon DEF Owned
  <2>4. open' = Inherited \cup Held' \cup {fd'[p] : p \in live'}
    BY <1>1, <1>2, <1>4, <2>1, <2>2, Zenon DEF Owned
  <2>5. listen_fd' # NoFd => listen_fd' # epoll_fd'
    BY <1>1, <1>3, <2>3, Zenon DEF IInv, Phase, Held
  <2> QED BY <1>1, <1>2, <1>4, <2>1, <2>2, <2>3, <2>4, <2>5 DEF Closed, Owned
<1>9. Sockets' /\ Edges' /\ Waiting'
  BY <1>1, <1>2, <1>4, Zenon DEF IInv, Sockets, Edges, Waiting
<1> QED BY <1>5, <1>6, <1>7, <1>8, <1>9, Zenon DEF IInv

\* The listener is registered.
LEMMA BootstrapListenerInv ==
  ASSUME IInv, reactor_bootstrap_listener PROVE IInv'
<1>1. listen_fd \in Fds
  BY Zenon DEF IInv, Types, Phase, reactor_bootstrap_listener
<1>2. Types' /\ Phase'
  BY <1>1, Zenon DEF IInv, Types, Phase, reactor_bootstrap_listener
<1>3. Watched'
  BY <1>1 DEF IInv, Types, Phase, Watched, reactor_bootstrap_listener
<1> QED
  BY <1>1, <1>2, <1>3 DEF IInv, Phase, BatchIsLive, Closed, Owned, Held,
     Sockets, Edges, Waiting, reactor_bootstrap_listener

\* Start-up gives back both descriptors.
LEMMA BootstrapFailsInv == ASSUME IInv, BootstrapFails PROVE IInv'
<1>1. /\ pc = "listener" /\ pc' = "failed" /\ live = {} /\ new_fd = NoFd
      /\ new_conn = Null /\ batch = {} /\ epoll_fd' = NoFd /\ listen_fd' = NoFd
      /\ backlog' = {}
  BY Zenon DEF IInv, Phase, BootstrapFails
<1>2. Held = {epoll_fd, listen_fd}
  BY <1>1, Zenon DEF IInv, Phase, Held
<1>3. open = Inherited \cup {epoll_fd, listen_fd}
  BY <1>1, <1>2, Zenon DEF IInv, Closed, Owned
<1>4. epoll_fd \notin Inherited /\ listen_fd \notin Inherited
  BY <1>1, <1>2, Zenon DEF IInv, Closed, Owned
<1>5. open' = Inherited
  BY <1>3, <1>4, Zenon DEF BootstrapFails
<1>6. Types'
  BY <1>1, <1>5, Zenon DEF IInv, Types, BootstrapFails
<1>7. Phase'
  BY <1>1, Zenon DEF IInv, Phase, BootstrapFails
<1>8. Watched' /\ BatchIsLive' /\ Closed'
  BY <1>1, <1>5, Zenon DEF Watched, BatchIsLive, Closed, BootstrapFails
<1>9. Sockets' /\ Edges' /\ Waiting'
  BY <1>1, Zenon DEF IInv, Sockets, Edges, Waiting, BootstrapFails
<1> QED BY <1>6, <1>7, <1>8, <1>9, Zenon DEF IInv

\* A client connects.
LEMMA ConnectInv ==
  ASSUME IInv, NEW c \in Client, ClientConnect(c) PROVE IInv'
<1>1. listen_fd \in Fds
  BY Zenon DEF IInv, Types, ClientConnect
<1>2. Types' /\ Phase'
  BY <1>1, Zenon DEF IInv, Types, Phase, ClientConnect
<1>3. Watched' /\ BatchIsLive' /\ Closed'
  BY DEF IInv, Watched, BatchIsLive, Closed, Owned, Held, ClientConnect
<1>4. Sockets'
  BY DEF IInv, Types, Sockets, ClientConnect
<1>5. Edges'
  BY DEF IInv, Types, Sockets, Edges, Dropped, Closed, Owned, ClientConnect
<1>6. Waiting'
  BY <1>1, Zenon DEF IInv, Types, Watched, Waiting, ClientConnect
<1> QED BY <1>2, <1>3, <1>4, <1>5, <1>6, Zenon DEF IInv

\* A client sends or goes.
LEMMA ActsInv ==
  ASSUME IInv, NEW c \in Client, NEW act \in {"data", "bad", "gone"},
         ClientActs(c, act)
  PROVE  IInv'
<1>1. /\ client' = [client EXCEPT ![c] = act]
      /\ ready' = ready \cup {f \in Fds : sock[f] = c /\ registered[f] # Null}
      /\ leftover' = leftover \ {c}
      /\ pc \notin Ending
      /\ client[c] \in Present
  BY Zenon DEF ClientActs
<1>2. Types' /\ Phase'
  BY <1>1 DEF IInv, Types, Phase, ClientActs
<1>3. Watched' /\ BatchIsLive' /\ Closed' /\ Waiting'
  BY DEF IInv, Watched, BatchIsLive, Closed, Owned, Held, Waiting, ClientActs
<1>4. Sockets'
  BY <1>1 DEF IInv, Types, Sockets, ClientActs
<1>5. Edges'
  <2> SUFFICES ASSUME NEW p \in live, p # new_conn,
                      client'[sock[fd[p]]] # "idle"
               PROVE  \/ fd[p] \in ready' \/ Dropped(fd[p])'
                      \/ \E e \in batch : e.ptr = p /\ "IN" \in e.events
    BY Zenon DEF Edges, Dropped, ClientActs
  <2>1. /\ fd[p] \in Fds /\ sock[fd[p]] \in Client
        /\ registered[fd[p]] = p /\ p # Null
    BY <1>1 DEF IInv, Types, Closed, Owned, Sockets, Watched
  <2>2. CASE sock[fd[p]] = c
    BY <1>1, <2>1, <2>2, Zenon
  <2>3. CASE sock[fd[p]] # c
    <3>1. client[sock[fd[p]]] # "idle"
      BY <1>1, <2>1, <2>3, Zenon DEF IInv, Types
    <3>2. Dropped(fd[p]) => Dropped(fd[p])'
      BY <1>1, <2>3, Zenon DEF Dropped, ClientActs
    <3> QED BY <1>1, <3>1, <3>2, Zenon DEF IInv, Edges
  <2> QED BY <2>2, <2>3, Zenon
<1> QED BY <1>2, <1>3, <1>4, <1>5, Zenon DEF IInv

\* The steps of the loop that only move the thread.
LEMMA LoopInv ==
  ASSUME IInv,
         \/ LoopTest \/ EnterWait \/ WaitFails
         \/ handle_shutdown \/ BatchDone \/ HandleListener
  PROVE  IInv'
<1> USE DEF LoopTest, EnterWait, WaitFails, handle_shutdown, BatchDone,
            HandleListener
<1>1. UNCHANGED <<fdVars, live, fd, open, epollVars, netVars, broke>>
  BY Zenon
<1>2. \/ pc' = pc /\ batch' = batch
      \/ /\ pc \in {"test", "call", "asleep"} /\ batch' = batch
         /\ pc' \in {"call", "asleep", "shutdown"}
      \/ pc = "batch" /\ pc' = "test" /\ batch = {} /\ batch' = batch
      \/ /\ pc = "batch" /\ pc' = "accept" /\ batch' \subseteq batch
         /\ \A e \in batch : e.ptr # Listener => e \in batch'
  BY Zenon
<1>3. Types'
  <2>1. /\ running_status' \in {running_status, "SHUTDOWN_REQUESTED"}
        /\ missed' \in BOOLEAN
    BY Zenon DEF IInv, Types
  <2>2. /\ batch' \subseteq batch
        /\ pc' \in {pc, "test", "call", "asleep", "shutdown", "accept"}
    BY <1>2, Zenon
  <2> HIDE DEF LoopTest, EnterWait, WaitFails, handle_shutdown, BatchDone,
               HandleListener
  <2> QED BY <1>1, <2>1, <2>2 DEF IInv, Types
<1> HIDE DEF LoopTest, EnterWait, WaitFails, handle_shutdown, BatchDone,
             HandleListener
<1>4. Phase'
  BY <1>1, <1>2, Zenon DEF IInv, Phase
<1>5. Watched'
  BY <1>1, <1>2, Zenon DEF IInv, Watched
<1>6. BatchIsLive'
  BY <1>1, <1>2, Zenon DEF IInv, BatchIsLive
<1>7. Closed'
  BY <1>1, <1>2, OwnedUnchanged, Zenon DEF IInv, Closed
<1>8. Sockets'
  BY <1>1, <1>2, Zenon DEF IInv, Sockets
<1>9. Edges'
  <2>1. \A p \in live : p # Listener
    BY Zenon DEF IInv, Types
  <2>2. pc' \notin Ending => pc \notin Ending
    BY <1>2, Zenon
  <2>3. \A e \in batch : e.ptr \in live => e \in batch'
    BY <1>2, <2>1, Zenon
  <2> QED BY <1>1, <2>2, <2>3, Zenon DEF IInv, Edges, Dropped
<1>10. Waiting'
  BY <1>1, <1>2, Zenon DEF IInv, Phase, Waiting
<1> QED BY <1>3, <1>4, <1>5, <1>6, <1>7, <1>8, <1>9, <1>10, Zenon DEF IInv

\* Shutdown frees the connections and then ends the loop.
LEMMA ShutdownInv ==
  ASSUME IInv, ShutdownConnection \/ reactor_shutdown
  PROVE  IInv'
<1>1. /\ pc = "shutdown" /\ pc' \in {"shutdown", "returned"}
      /\ UNCHANGED <<running_status, new_fd, new_conn, batch, fd, sock, client,
                     history>>
      /\ live' \subseteq live /\ open' \subseteq open
      /\ backlog' \subseteq backlog /\ batch = {}
  BY Zenon DEF IInv, Phase, ShutdownConnection, reactor_shutdown,
         Manager!vr_connection_destroy
<1>2. Types'
  <2>1. CASE ShutdownConnection
    BY <1>1, <2>1, Zenon DEF IInv, Types, ShutdownConnection
  <2>2. CASE reactor_shutdown
    BY <1>1, <2>2, Zenon DEF IInv, Types, reactor_shutdown, close_epoll
  <2> QED BY <2>1, <2>2, Zenon
<1>3. Phase'
  BY <1>1, Zenon DEF IInv, Phase, ShutdownConnection, reactor_shutdown
<1>4. Watched' /\ BatchIsLive' /\ Closed' /\ Edges' /\ Waiting'
  BY <1>1, Zenon DEF Watched, BatchIsLive, Closed, Edges, Waiting
<1>5. Sockets'
  BY <1>1, Zenon DEF IInv, Sockets
<1> QED BY <1>2, <1>3, <1>4, <1>5, Zenon DEF IInv

\* epoll_wait() moves edges from the ready list into the batch.
LEMMA WaitInv ==
  ASSUME IInv, NEW report \in SUBSET Reported, vr_reactor_wait(report)
  PROVE  IInv'
<1>1. /\ batch' = {[ptr |-> registered[f], events |-> PollMask(f)] :
                       f \in report}
      /\ ready' = Reported \ report
      /\ report \subseteq ready /\ ready' \subseteq ready
      /\ pc = "asleep" /\ new_conn = Null
      /\ ready \subseteq Fds
  BY Zenon DEF IInv, Types, Phase, vr_reactor_wait, Reported
<1> DEFINE event(f) == [ptr |-> registered[f], events |-> PollMask(f)]
<1>2. /\ \A f \in ready : registered[f] \in Pointer
      /\ \A f \in report : event(f) \in batch'
  <2>1. \A f \in ready : registered[f] # Null /\ f \in Fds
    BY <1>1, Zenon DEF IInv, Watched
  <2>2. \A f \in ready : registered[f] \in Pointer
    BY <2>1, Zenon DEF IInv, Types
  <2> QED BY <1>1, <2>2, Zenon
<1>3. \A f \in ready : PollMask(f) \in SUBSET {"IN", "OUT"}
  BY Zenon DEF PollMask
<1>4. Types' /\ Phase'
  <2>1. \A f \in report :
          event(f) \in [ptr : Pointer, events : SUBSET {"IN", "OUT"}]
    BY <1>1, <1>2, <1>3, Zenon
  <2>2. batch' \subseteq [ptr : Pointer, events : SUBSET {"IN", "OUT"}]
    BY <1>1, <2>1, Zenon
  <2>3. Types'
    BY <1>1, <2>2, Zenon DEF IInv, Types, vr_reactor_wait
  <2>4. Phase'
    BY <1>1, Zenon DEF IInv, Phase, vr_reactor_wait
  <2> QED BY <2>3, <2>4, Zenon
<1>5. Watched' /\ Closed' /\ Sockets'
  <2>1. Watched'
    BY <1>1, Zenon DEF IInv, Watched, vr_reactor_wait
  <2>2. Closed'
    BY <1>1, OwnedUnchanged, Zenon DEF IInv, Closed, vr_reactor_wait
  <2>3. Sockets'
    BY <1>1, Zenon DEF IInv, Sockets, vr_reactor_wait
  <2> QED BY <2>1, <2>2, <2>3, Zenon
<1>6. BatchIsLive'
  <2>1. \A f \in report : \/ registered[f] = Listener
                          \/ registered[f] \in live /\ fd[registered[f]] = f
    BY <1>1, <1>2, Zenon DEF IInv, Watched
  <2>2. \A f, g \in report : registered[f] = registered[g] => f = g
    <3>1. \A f \in Fds : registered[f] = Listener => f = listen_fd
      BY <1>1, Zenon DEF IInv, Watched
    <3>2. Listener \notin live
      BY <1>1, Located, Zenon
    <3> QED BY <1>1, <2>1, <3>1, <3>2, Zenon
  <2>3. fd' = fd /\ live' = live /\ registered' = registered
    BY Zenon DEF vr_reactor_wait
  <2>4. \A e \in batch' : \E f \in report : e = event(f)
    BY <1>1, Zenon
  <2>5. \A d, e \in batch' : d.ptr = e.ptr => d = e
    BY <2>2, <2>4
  <2>6. \A e \in batch' : \/ e.ptr = Listener
                          \/ e.ptr \in live /\ registered[fd[e.ptr]] = e.ptr
    <3> TAKE e \in batch'
    <3>1. PICK f \in report : e = event(f)
      BY <2>4, Zenon
    <3>2. e.ptr = registered[f]
      BY <3>1, Zenon
    <3> QED BY <2>1, <3>2, Zenon
  <2> QED BY <2>3, <2>5, <2>6, Zenon DEF BatchIsLive
<1>7. Edges'
  <2> SUFFICES ASSUME NEW q \in live, client[sock[fd[q]]] # "idle",
                      ~Dropped(fd[q])
               PROVE  \/ fd[q] \in ready'
                      \/ \E e \in batch' : e.ptr = q /\ "IN" \in e.events
    BY Zenon DEF Edges, Dropped, vr_reactor_wait
  <2>1. fd[q] \in ready /\ registered[fd[q]] = q /\ q # Listener
    <3>1. batch = {} /\ q # new_conn /\ q # Listener
      BY <1>1, Located, Zenon DEF IInv, Phase
    <3> QED BY <1>1, <3>1, Zenon DEF IInv, Edges, Watched
  <2>2. "IN" \in PollMask(fd[q])
    BY <1>1, <2>1, Located, Zenon DEF PollMask
  <2>3. fd[q] \in Reported
    BY <2>1, <2>2, Zenon DEF Reported
  <2>4. event(fd[q]).ptr = q /\ "IN" \in event(fd[q]).events
    BY <2>1, <2>2, Zenon
  <2> QED BY <1>1, <1>2, <2>3, <2>4, Zenon
<1>8. Waiting'
  <2> SUFFICES ASSUME backlog # {}, listen_fd \notin ready', ~broke
               PROVE  \E e \in batch' : e.ptr = Listener
    BY Zenon DEF Waiting, vr_reactor_wait
  <2>1. listen_fd \in ready /\ registered[listen_fd] = Listener
    BY <1>1, Zenon DEF IInv, Types, Phase, Waiting, Watched
  <2>2. listen_fd \in Reported
    BY <2>1, Zenon DEF Reported, PollMask
  <2>3. event(listen_fd).ptr = Listener
    BY <2>1, Zenon
  <2> QED BY <1>1, <1>2, <2>2, <2>3, Zenon
<1> QED BY <1>4, <1>5, <1>6, <1>7, <1>8, Zenon DEF IInv

-----------------------------------------------------------------------------
(* The events of a batch, and the failures that close a socket like them *)

\* Closing a connection's descriptor and freeing it, as both callers do.
LEMMA CloseConnInv ==
  ASSUME IInv, NEW p \in live,
         pc \notin Ending, pc' \notin Ending \cup Starting,
         close(fd[p]), live' = live \ {p},
         new_conn' = (IF new_conn = p THEN Null ELSE new_conn),
         batch' = {e \in batch : e.ptr # p},
         UNCHANGED <<fd, epoll_fd, listen_fd, new_fd, backlog>>
  PROVE  Watched' /\ BatchIsLive' /\ Closed' /\ Sockets' /\ Edges'
<1> DEFINE f == fd[p]
           c == sock[f]
<1>1. /\ p \in Conn /\ f \in Fds /\ c \in Client /\ f # NoFd
      /\ f \notin Inherited \cup Held
      /\ \A q \in live : fd[q] \in Fds /\ (q # p => fd[q] # f)
      /\ pc \notin Starting
  BY Located, Zenon DEF IInv, Phase, Held
<1>2. /\ open' = open \ {f}
      /\ registered' = [registered EXCEPT ![f] = Null]
      /\ armed' = armed \ {f}
      /\ ready' = ready \ {f}
      /\ sock' = [sock EXCEPT ![f] = Null]
      /\ client' = [client EXCEPT ![c] = "closed"]
      /\ leftover' = leftover \ {c}
  BY Zenon DEF close
<1> HIDE DEF f, c
<1>3. Watched'
  <2>1. \A g \in Fds : registered'[g] \in Conn =>
          registered'[g] \in live' /\ fd'[registered'[g]] = g
    BY <1>1, <1>2, Zenon DEF IInv, Types, Watched, f
  <2>2. \A q \in live' : q # new_conn' => registered'[fd'[q]] = q
    BY <1>1, <1>2, Zenon DEF IInv, Types, Watched
  <2>3. new_conn' # Null =>
          new_conn' \in live' /\ registered'[fd'[new_conn']] = Null
    BY <1>1, <1>2, Zenon DEF IInv, Types, Watched
  <2>4. \A g \in Fds : registered'[g] = Listener => g = listen_fd'
    BY <1>1, <1>2, Zenon DEF IInv, Types, Watched
  <2>5. registered'[listen_fd'] = Listener
    BY <1>1, <1>2, Zenon DEF IInv, Types, Phase, Watched, Held
  <2>6. \A g \in ready' : registered'[g] # Null
    BY <1>1, <1>2, Zenon DEF IInv, Types, Watched
  <2> QED BY <2>1, <2>2, <2>3, <2>4, <2>5, <2>6, Zenon DEF Watched
<1>4. BatchIsLive'
  BY <1>1, <1>2, Zenon DEF IInv, Types, BatchIsLive
<1>5. Closed'
  <2>1. Owned
    BY Zenon DEF IInv, Closed
  <2>2. open' = Inherited \cup Held \cup {fd[q] : q \in live \ {p}}
    BY <1>1, <1>2, <2>1, Zenon DEF Owned, f
  <2>3. Held' = Held
    BY Zenon DEF Held
  <2> QED BY <2>1, <2>2, <2>3, Zenon DEF Closed, Owned
<1>6. Sockets'
  <2>1. \A g \in Fds : sock'[g] # Null => g # f /\ sock'[g] = sock[g]
    BY <1>1, <1>2, Zenon DEF IInv, Types
  <2>2. \A g \in Fds : sock'[g] # Null => sock[g] # c /\ sock[g] \in Client
    BY <1>1, <2>1 DEF IInv, Types, Sockets, c
  <2>3. \A d \in Client : d # c => client'[d] = client[d]
    BY <1>2, Zenon DEF IInv, Types
  <2>4. \A q \in live' : sock'[fd[q]] # Null
    BY <1>1, <1>2, Zenon DEF IInv, Types, Sockets
  <2>5. new_fd # NoFd => sock'[new_fd] # Null
    BY <1>1, <1>2 DEF IInv, Types, Sockets, Held
  <2>6. c \notin backlog /\ backlog \subseteq Client
    BY <1>1, Zenon DEF IInv, Types, Sockets, c
  <2> QED BY <2>1, <2>2, <2>3, <2>4, <2>5, <2>6 DEF IInv, Sockets
<1>7. Edges'
  <2> SUFFICES ASSUME NEW q \in live, q # p, q # new_conn',
                      client'[sock'[fd[q]]] # "idle"
               PROVE  \/ fd[q] \in ready' \/ Dropped(fd[q])'
                      \/ \E e \in batch' : e.ptr = q /\ "IN" \in e.events
    BY Zenon DEF Edges, Dropped
  <2>1. sock'[fd[q]] = sock[fd[q]] /\ sock[fd[q]] # c /\ sock[fd[q]] \in Client
    BY <1>1, <1>2, Located, Zenon DEF IInv, Types, c, f
  <2>2. client[sock[fd[q]]] # "idle" /\ q # new_conn
    BY <1>1, <1>2, <2>1, Zenon DEF IInv, Types
  <2>3. \/ fd[q] \in ready \/ Dropped(fd[q])
        \/ \E e \in batch : e.ptr = q /\ "IN" \in e.events
    BY <2>1, <2>2, Zenon DEF IInv, Edges
  <2>4. Dropped(fd[q]) => Dropped(fd[q])'
    BY <1>2, <2>1, SMT DEF Dropped
  <2> QED BY <1>1, <1>2, <2>3, <2>4, Zenon
<1> QED BY <1>3, <1>4, <1>5, <1>6, <1>7, Zenon

\* The new connection cannot be registered.
LEMMA RegisterFailsInv == ASSUME IInv, RegisterFails PROVE IInv'
<1>1. new_conn \in live /\ new_conn \in Conn /\ new_conn # Null
  BY Zenon DEF IInv, Types, Phase, Watched, RegisterFails
<1>2. live' = live \ {new_conn}
  BY Zenon DEF RegisterFails, Manager!vr_connection_destroy
<1>3. batch' = {e \in batch : e.ptr # new_conn}
  BY <1>1 DEF IInv, Types, Phase, Watched, BatchIsLive, RegisterFails
<1>4. Watched' /\ BatchIsLive' /\ Closed' /\ Sockets' /\ Edges'
  BY <1>1, <1>2, <1>3, CloseConnInv, Zenon DEF RegisterFails
<1>5. Types' /\ Phase' /\ Waiting'
  BY <1>1, <1>2, Zenon DEF IInv, Types, Phase, Waiting, RegisterFails, close
<1> QED BY <1>4, <1>5, Zenon DEF IInv

\* An event ends a connection.
LEMMA HandleClosingInv == ASSUME IInv, HandleClosing PROVE IInv'
<1>1. PICK e \in batch : /\ e.ptr # Listener
                         /\ batch' = batch \ {e}
                         /\ reactor_close_connection(e.ptr)
  BY Zenon DEF HandleClosing
<1> DEFINE p == e.ptr
<1>2. p \in live /\ p \in Conn /\ new_conn = Null /\ p # Null
  <2>1. p \in live
    BY <1>1, Zenon DEF IInv, BatchIsLive
  <2> QED BY <2>1, Located, Zenon DEF IInv, Phase, HandleClosing
<1>3. live' = live \ {p} /\ close(fd[p])
  BY <1>1, Zenon DEF reactor_close_connection, Manager!vr_connection_destroy
<1>4. batch' = {d \in batch : d.ptr # p}
  BY <1>1, Zenon DEF IInv, BatchIsLive
<1>5. /\ pc = "batch" /\ pc' = pc /\ new_conn' = new_conn
      /\ UNCHANGED <<fd, epoll_fd, listen_fd, new_fd, backlog>>
  BY Zenon DEF HandleClosing
<1>6. Watched' /\ BatchIsLive' /\ Closed' /\ Sockets' /\ Edges'
  <2> HIDE DEF p
  <2> QED BY <1>2, <1>3, <1>4, <1>5, CloseConnInv, Zenon
<1>7. fd[p] \in Fds /\ sock[fd[p]] \in Client /\ fd[p] # listen_fd
  BY <1>2, <1>5, Located, Zenon
<1>8. Types' /\ Phase'
  <2>1. Types'
    BY <1>3, <1>4, <1>5, <1>7, Zenon DEF IInv, Types, close, HandleClosing
  <2>2. Phase'
    BY <1>3, <1>4, <1>5, Zenon DEF IInv, Phase, close
  <2> QED BY <2>1, <2>2, Zenon
<1>9. Waiting'
  BY <1>1, <1>3, <1>4, <1>5, <1>7, Zenon
     DEF IInv, Waiting, close, HandleClosing
<1> QED BY <1>6, <1>8, <1>9, Zenon DEF IInv

\* Refusing a client whose socket has no connection yet, as both failures
\* of vr_connection_create() do.
LEMMA RefuseInv ==
  ASSUME IInv, pc = "create", pc' = "accept", close(new_fd), new_fd' = NoFd,
         UNCHANGED <<running_status, live, epoll_fd, listen_fd, new_conn,
                     batch, fd, backlog, history>>
  PROVE  IInv'
<1> DEFINE f == new_fd
           c == sock[f]
<1>1. /\ f \in Fds /\ c \in Client /\ f # NoFd /\ new_conn = Null
      /\ f \notin Inherited /\ f # epoll_fd /\ f # listen_fd
      /\ \A q \in live : fd[q] \in Fds /\ fd[q] # f
  <2>1. new_fd # NoFd /\ new_conn = Null
    BY Zenon DEF IInv, Phase
  <2> QED BY <2>1, Located, Zenon
<1>2. /\ open' = open \ {f}
      /\ registered' = [registered EXCEPT ![f] = Null]
      /\ armed' = armed \ {f}
      /\ ready' = ready \ {f}
      /\ sock' = [sock EXCEPT ![f] = Null]
      /\ client' = [client EXCEPT ![c] = "closed"]
      /\ leftover' = leftover \ {c}
  BY Zenon DEF close
<1>3. Held' = Held \ {f}
  BY <1>1, Zenon DEF Held
<1> HIDE DEF f, c
<1>4. Types' /\ Phase' /\ Waiting'
  BY <1>1, <1>2, Zenon DEF IInv, Types, Phase, Waiting
<1>5. Watched'
  <2>1. \A g \in Fds \ {f} : registered'[g] = registered[g]
    BY <1>2, Zenon DEF IInv, Types
  <2>2. registered'[f] = Null
    BY <1>1, <1>2, Zenon DEF IInv, Types
  <2>3. listen_fd \in Fds /\ ready \subseteq Fds
    BY Zenon DEF IInv, Types, Phase
  <2> QED BY <1>1, <1>2, <2>1, <2>2, <2>3 DEF IInv, Watched
<1>6. BatchIsLive'
  BY <1>1, <1>2, Zenon DEF IInv, Types, BatchIsLive
<1>7. Closed'
  <2>1. Owned
    BY Zenon DEF IInv, Closed
  <2>2. Held = Held' \cup {f}
    BY <1>1, <1>3, Zenon DEF Held, f
  <2>3. open' = Inherited \cup Held' \cup {fd[q] : q \in live}
    BY <1>1, <1>2, <1>3, <2>1, <2>2, Zenon DEF Owned
  <2> QED BY <1>3, <2>1, <2>3, Zenon DEF Closed, Owned
<1>8. Sockets'
  <2>1. \A g \in Fds : sock'[g] # Null => g # f /\ sock'[g] = sock[g]
    BY <1>1, <1>2, Zenon DEF IInv, Types
  <2>2. \A g \in Fds : sock'[g] # Null => sock[g] # c /\ sock[g] \in Client
    BY <1>1, <2>1 DEF IInv, Types, Sockets, c
  <2>3. \A d \in Client : d # c => client'[d] = client[d]
    BY <1>2, Zenon DEF IInv, Types
  <2>4. \A q \in live : sock'[fd[q]] # Null
    BY <1>1, <1>2, Zenon DEF IInv, Types, Sockets
  <2>5. c \notin backlog /\ backlog \subseteq Client
    BY <1>1, Zenon DEF IInv, Types, Sockets, c
  <2> QED BY <2>1, <2>2, <2>3, <2>4, <2>5 DEF IInv, Sockets
<1>9. Edges'
  <2> SUFFICES ASSUME NEW q \in live, client'[sock'[fd[q]]] # "idle"
               PROVE  \/ fd[q] \in ready' \/ Dropped(fd[q])'
                      \/ \E e \in batch : e.ptr = q /\ "IN" \in e.events
    BY Zenon DEF Edges, Dropped
  <2>1. /\ sock'[fd[q]] = sock[fd[q]] /\ sock[fd[q]] # c /\ q # new_conn
        /\ sock[fd[q]] \in Client
    BY <1>1, <1>2, Located, Zenon DEF IInv, Types, c, f
  <2>2. client[sock[fd[q]]] # "idle"
    BY <1>1, <1>2, <2>1, Zenon DEF IInv, Types
  <2>3. Dropped(fd[q]) => Dropped(fd[q])'
    BY <1>2, <2>1, SMT DEF Dropped
  <2> QED BY <1>1, <1>2, <2>1, <2>2, <2>3, Zenon DEF IInv, Edges
<1> QED BY <1>4, <1>5, <1>6, <1>7, <1>8, <1>9, Zenon DEF IInv

\* There is no connection for the client.
LEMMA CreateFailsInv ==
  ASSUME IInv, ConnectionCreateFails \/ ConnectionCreateFailsLate
  PROVE  IInv'
BY RefuseInv, Zenon
   DEF ConnectionCreateFails, ConnectionCreateFailsLate,
       Manager!CreateFailsLate

\* An event is handled.
LEMMA HandleClientInv ==
  ASSUME IInv, NEW answer \in BOOLEAN, NEW drained \in BOOLEAN,
         HandleClient(answer, drained)
  PROVE  IInv'
<1>1. PICK e \in batch :
        LET f == fd[e.ptr]
            c == sock[f]
            reads == "IN" \in e.events
        IN  /\ e.ptr # Listener
            /\ batch' = batch \ {e}
            /\ client' = IF reads /\ drained
                         THEN [client EXCEPT ![c] = "idle"] ELSE client
            /\ leftover' = IF drained THEN leftover \ {x \in {c} : reads}
                                       ELSE leftover \cup {c}
            /\ armed' = (armed \ {f}) \cup {g \in {f} : answer}
            /\ ready' = ready \cup
                 {g \in {f} : \/ answer
                              \/ "OUT" \in e.events /\ client[c] # "idle"}
  BY Zenon DEF HandleClient
<1> DEFINE p == e.ptr
           f == fd[p]
           c == sock[f]
<1>2. /\ p \in live /\ p \in Conn /\ new_conn = Null /\ pc = "batch"
      /\ f \in Fds /\ registered[f] = p /\ p # Null /\ c \in Client
      /\ c \notin backlog
  <2>1. pc = "batch" /\ new_conn = Null
    BY Zenon DEF IInv, Phase, HandleClient
  <2>2. p \in live /\ registered[f] = p
    BY <1>1, Zenon DEF IInv, BatchIsLive
  <2> QED BY <2>1, <2>2, Located, Zenon
<1>3. /\ batch' = batch \ {e}
      /\ ready \subseteq ready' /\ ready' \subseteq ready \cup {f}
      /\ answer => f \in ready'
      /\ armed' = (armed \ {f}) \cup {g \in {f} : answer}
      /\ client' = IF "IN" \in e.events /\ drained
                   THEN [client EXCEPT ![c] = "idle"] ELSE client
      /\ leftover' = IF drained THEN leftover \ {x \in {c} : "IN" \in e.events}
                                 ELSE leftover \cup {c}
  BY <1>1, Zenon
<1> HIDE DEF p, f, c
<1>4. Types' /\ Phase'
  <2>1. client' \in [Client -> Present \cup {"away", "closed"}]
    BY <1>2, <1>3, Zenon DEF IInv, Types
  <2>2. Types'
    <3>1. /\ ready' \subseteq Fds /\ armed' \subseteq Fds
          /\ batch' \subseteq batch
      BY <1>2, <1>3, Zenon DEF IInv, Types
    <3>2. leftover' \subseteq Client
      BY <1>2, <1>3, Zenon DEF IInv, Types
    <3>3. UNCHANGED <<loopVars, fdVars, live, fd, open, registered, backlog,
                      sock, history>>
      BY Zenon DEF HandleClient
    <3> HIDE DEF Present
    <3> QED BY <2>1, <3>1, <3>2, <3>3, Zenon DEF IInv, Types
  <2>3. Phase'
    BY <1>2, <1>3, Zenon DEF IInv, Phase, HandleClient
  <2> QED BY <2>2, <2>3, Zenon
<1>5. Watched' /\ BatchIsLive' /\ Closed'
  <2>1. Watched'
    BY <1>2, <1>3, Zenon DEF IInv, Watched, HandleClient
  <2>2. BatchIsLive'
    BY <1>3, Zenon DEF IInv, BatchIsLive, HandleClient
  <2>3. Closed'
    BY <1>2, OwnedUnchanged, Zenon DEF IInv, Closed, HandleClient
  <2> QED BY <2>1, <2>2, <2>3, Zenon
<1>6. Sockets'
  <2>1. \A d \in Client : client[d] \in Present => client'[d] \in Present
    BY <1>2, <1>3, Zenon DEF IInv, Types
  <2>2. UNCHANGED <<sock, backlog, live, fd, new_fd, pc>>
    BY Zenon DEF HandleClient
  <2>3. backlog \subseteq Client /\ sock \in [Fds -> Client \cup {Null}]
    BY Zenon DEF IInv, Types
  <2> QED BY <2>1, <2>2, <2>3, Zenon DEF IInv, Sockets
<1>7. Edges'
  <2> SUFFICES ASSUME NEW q \in live, client'[sock[fd[q]]] # "idle"
               PROVE  \/ fd[q] \in ready' \/ Dropped(fd[q])'
                      \/ \E d \in batch' : d.ptr = q /\ "IN" \in d.events
    BY Zenon DEF Edges, Dropped, HandleClient
  <2>1. sock[fd[q]] \in Client /\ client[sock[fd[q]]] # "idle"
    BY <1>2, <1>3, Located, Zenon DEF IInv, Types
  <2>2. \/ fd[q] \in ready \/ Dropped(fd[q])
        \/ \E d \in batch : d.ptr = q /\ "IN" \in d.events
    BY <1>2, <2>1, Located, Zenon DEF IInv, Edges
  <2>3. sock' = sock /\ fd' = fd
    BY Zenon DEF HandleClient
  <2>4. CASE q # p
    <3>1. fd[q] # f /\ sock[fd[q]] # c
      BY <1>2, <2>4, Located, Zenon DEF f, c
    <3>2. Dropped(fd[q]) => Dropped(fd[q])'
      BY <1>3, <2>3, <3>1, Zenon DEF Dropped
    <3> QED BY <1>3, <2>2, <2>4, <3>2, Zenon DEF p
  <2>5. CASE q = p
    <3>1. fd[q] = f /\ sock[f] = c
      BY <2>5, Zenon DEF f, c
    <3>2. ~("IN" \in e.events /\ drained)
      BY <1>2, <1>3, <3>1, Zenon DEF IInv, Types
    <3>3. ~answer => f \notin armed'
      BY <1>3, Zenon
    <3>4. CASE ~drained
      BY <1>3, <2>3, <3>1, <3>3, <3>4, Zenon DEF Dropped
    <3>5. CASE drained
      <4>1. leftover' = leftover
        BY <1>3, <3>2, <3>5, Zenon
      <4>2. \A d \in batch : d.ptr = q => d = e
        BY <2>5, Zenon DEF IInv, BatchIsLive, p
      <4> QED BY <1>3, <2>2, <2>3, <3>1, <3>2, <3>3, <3>5, <4>1, <4>2, Zenon
                 DEF Dropped
    <3> QED BY <3>4, <3>5, Zenon
  <2> QED BY <2>4, <2>5, Zenon
<1>8. Waiting'
  BY <1>1, <1>2, <1>3, Zenon DEF IInv, Waiting, HandleClient, p
<1> QED BY <1>4, <1>5, <1>6, <1>7, <1>8, Zenon DEF IInv

-----------------------------------------------------------------------------
(* The accept loop *)

\* A client leaves the backlog for a new descriptor.
LEMMA AcceptInv ==
  ASSUME IInv, NEW c \in Client, vr_tcp_accept(c) PROVE IInv'
<1>1. PICK f \in Fds : /\ Lowest(f)
                       /\ new_fd' = f
                       /\ open' = open \cup {f}
                       /\ sock' = [sock EXCEPT ![f] = c]
  BY Zenon DEF vr_tcp_accept
<1>2. f \notin open /\ f # NoFd /\ c # Null
  BY <1>1, Zenon DEF Lowest
<1>3. Types' /\ Phase'
  BY <1>1, <1>2, Zenon DEF IInv, Types, Phase, vr_tcp_accept
<1>4. Watched' /\ BatchIsLive' /\ Waiting'
  BY Zenon DEF IInv, Watched, BatchIsLive, Waiting, vr_tcp_accept
<1>5. \A p \in live : fd[p] # f /\ fd[p] \in Fds
  BY <1>2 DEF IInv, Types, Closed, Owned, vr_tcp_accept
<1>6. Closed'
  BY <1>1, <1>2 DEF IInv, Types, Phase, Closed, Owned, Held, vr_tcp_accept
<1>7. Sockets'
  <2>1. \A g \in Fds : sock'[g] # Null =>
          sock'[g] \notin backlog' /\ client'[sock'[g]] \in Present
    BY <1>1, <1>2, Zenon DEF IInv, Types, Sockets, vr_tcp_accept
  <2>2. \A g, h \in Fds : sock'[g] # Null /\ sock'[g] = sock'[h] => g = h
    BY <1>1, <1>2 DEF IInv, Types, Sockets, vr_tcp_accept
  <2>3. \A p \in live : sock'[fd[p]] # Null
    BY <1>1, <1>5, Zenon DEF IInv, Types, Sockets, vr_tcp_accept
  <2> QED BY <1>1, <1>2, <2>1, <2>2, <2>3
             DEF IInv, Types, Sockets, vr_tcp_accept
<1>8. Edges'
  <2>1. \A p \in live : sock'[fd[p]] = sock[fd[p]]
    BY <1>1, <1>5, Zenon DEF IInv, Types
  <2>2. /\ pc \notin Ending
        /\ UNCHANGED <<new_conn, batch, live, fd, armed, ready, client,
                       leftover>>
    BY Zenon DEF vr_tcp_accept
  <2> QED BY <2>1, <2>2, SMT DEF IInv, Edges, Dropped
<1> QED BY <1>3, <1>4, <1>6, <1>7, <1>8, Zenon DEF IInv

\* The accept loop ends with an empty backlog.
LEMMA AcceptEmptyInv == ASSUME IInv, AcceptEmpty PROVE IInv'
<1>1. Types' /\ Phase' /\ Waiting'
  BY Zenon DEF IInv, Types, Phase, Waiting, AcceptEmpty
<1>2. Watched' /\ BatchIsLive' /\ Closed'
  BY DEF IInv, Watched, BatchIsLive, Closed, Owned, Held, AcceptEmpty
<1>3. Sockets' /\ Edges'
  BY Zenon DEF IInv, Sockets, Edges, Dropped, AcceptEmpty
<1> QED BY <1>1, <1>2, <1>3, Zenon DEF IInv

\* accept() fails.
LEMMA AcceptFailsInv ==
  ASSUME IInv, NEW dropped \in SUBSET backlog, AcceptFails(dropped)
  PROVE  IInv'
<1>1. /\ pc = "accept" /\ pc' = "batch" /\ broke'
      /\ backlog' = backlog \ dropped
      /\ client' = [c \in Client |-> IF c \in dropped THEN "closed"
                                     ELSE client[c]]
      /\ UNCHANGED <<running_status, fdVars, batch, live, fd, open, epollVars,
                     sock, leftover, missed>>
  BY Zenon DEF AcceptFails
<1>2. Types'
  BY <1>1, Zenon DEF IInv, Types
<1>3. Phase' /\ Waiting'
  BY <1>1, Zenon DEF IInv, Phase, Waiting
<1>4. Watched' /\ BatchIsLive'
  BY <1>1, Zenon DEF IInv, Watched, BatchIsLive
<1>5. Closed'
  BY <1>1, OwnedUnchanged, Zenon DEF IInv, Closed
<1>6. \A f \in Fds : sock[f] # Null => client'[sock[f]] = client[sock[f]]
  BY <1>1, Zenon DEF IInv, Types, Sockets
<1>7. Sockets'
  BY <1>1, <1>6, Zenon DEF IInv, Types, Sockets
<1>8. Edges'
  <2>1. \A p \in live : client'[sock'[fd'[p]]] = client[sock[fd[p]]]
    BY <1>1, <1>6, Located, Zenon
  <2> QED BY <1>1, <2>1 DEF IInv, Edges, Dropped
<1> QED BY <1>2, <1>3, <1>4, <1>5, <1>7, <1>8, Zenon DEF IInv

\* A descriptor gets its connection.
LEMMA ConnCreateInv ==
  ASSUME IInv, NEW p \in Conn, vr_connection_create(p)
  PROVE  IInv'
<1>1. /\ p \notin live /\ live' = live \cup {p}
      /\ fd' = [fd EXCEPT ![p] = new_fd] /\ new_conn' = p /\ new_fd' = NoFd
      /\ pc = "create" /\ pc' = "register" /\ p # Null
  BY Zenon DEF vr_connection_create, Manager!vr_connection_create
<1>2. /\ new_fd \in Fds /\ new_conn = Null /\ sock[new_fd] # Null
      /\ new_fd # NoFd /\ new_fd # listen_fd /\ new_fd # epoll_fd
      /\ new_fd \notin Inherited /\ new_fd \in open
      /\ \A q \in live : fd[q] # new_fd /\ q # p /\ q # Null
  <2>1. new_fd # NoFd /\ new_conn = Null
    BY <1>1, Zenon DEF IInv, Phase
  <2> QED BY <1>1, <2>1, Located, Zenon
<1>3. /\ registered[new_fd] = Null
      /\ fd'[p] = new_fd /\ \A q \in live : fd'[q] = fd[q]
  <2>1. registered[new_fd] \in Conn \cup {Listener, Null}
    BY <1>2, Zenon DEF IInv, Types
  <2>2. registered[new_fd] \notin Conn /\ registered[new_fd] # Listener
    BY <1>1, <1>2, Zenon DEF IInv, Watched
  <2>3. fd'[p] = new_fd /\ \A q \in live : fd'[q] = fd[q]
    BY <1>1, <1>2, Zenon DEF IInv, Types
  <2> QED BY <2>1, <2>2, <2>3, Zenon
<1>4. UNCHANGED <<epoll_fd, listen_fd, batch, open, epollVars, netVars>>
  BY Zenon DEF vr_connection_create
<1>5. Types'
  BY <1>1, <1>2, Zenon DEF IInv, Types, vr_connection_create
<1>6. Phase'
  BY <1>1, <1>2, Zenon DEF IInv, Phase, vr_connection_create
<1>7. Watched'
  <2>1. \A f \in Fds : registered[f] \in Conn =>
          registered[f] \in live' /\ fd'[registered[f]] = f
    BY <1>1, <1>3, Zenon DEF IInv, Watched
  <2>2. \A q \in live' : q # new_conn' => registered[fd'[q]] = q
    BY <1>1, <1>2, <1>3 DEF IInv, Watched
  <2> QED BY <1>1, <1>2, <1>3, <1>4, <2>1, <2>2, Zenon DEF IInv, Watched
<1>8. BatchIsLive' /\ Waiting'
  BY <1>1, <1>3, <1>4, Zenon
     DEF IInv, BatchIsLive, Waiting, vr_connection_create
<1>9. Closed'
  <2>1. Held' = Held \ {new_fd} /\ Held = Held' \cup {new_fd}
    BY <1>1, <1>2, <1>4, Zenon DEF Held
  <2>2. {fd'[q] : q \in live'} = {fd[q] : q \in live} \cup {new_fd}
    BY <1>1, <1>3
  <2>3. Owned
    BY <1>1, Zenon DEF IInv, Closed
  <2>4. open' = Inherited \cup Held' \cup {fd'[q] : q \in live'}
    BY <1>4, <2>1, <2>2, <2>3, Zenon DEF Owned
  <2>5. \A q \in live' : fd'[q] \notin Inherited \cup Held'
    BY <1>1, <1>2, <1>3, <2>1, <2>3 DEF Owned
  <2>6. \A q, t \in live' : fd'[q] = fd'[t] => q = t
    BY <1>1, <1>2, <1>3, <2>3 DEF Owned
  <2> QED BY <1>1, <1>4, <2>1, <2>3, <2>4, <2>5, <2>6, Zenon DEF Closed, Owned
<1>10. Sockets'
  BY <1>1, <1>2, <1>3, <1>4, Zenon DEF IInv, Sockets
<1>11. Edges'
  <2>1. \A q \in live' : q # new_conn' => q \in live /\ fd'[q] = fd[q]
    BY <1>1, <1>3, Zenon
  <2> QED BY <1>1, <1>2, <1>4, <2>1 DEF IInv, Edges, Dropped
<1> QED BY <1>5, <1>6, <1>7, <1>8, <1>9, <1>10, <1>11, Zenon DEF IInv

\* The new connection is registered, with the edge it may have missed.
LEMMA AddInv == ASSUME IInv, vr_reactor_add PROVE IInv'
<1> DEFINE f == fd[new_conn]
<1>1. /\ new_conn \in live /\ f \in Fds /\ sock[f] \in Client
      /\ registered[f] = Null /\ new_conn # Listener
      /\ \A p \in live : p # new_conn => fd[p] # f /\ fd[p] \in Fds
      /\ f # listen_fd
  BY DEF IInv, Types, Phase, Watched, Closed, Owned, Held, Sockets,
         vr_reactor_add
<1>2. /\ registered' = [registered EXCEPT ![f] = new_conn]
      /\ ready' = ready \cup {g \in {f} : client[sock[g]] # "idle"}
      /\ new_conn' = Null
  BY Zenon DEF vr_reactor_add
<1> HIDE DEF f
<1>3. Types' /\ Phase'
  BY <1>1, <1>2 DEF IInv, Types, Phase, vr_reactor_add
<1>4. Watched'
  BY <1>1, <1>2 DEF IInv, Types, Phase, Watched, vr_reactor_add, f
<1>5. BatchIsLive'
  BY <1>1, <1>2 DEF IInv, Types, BatchIsLive, vr_reactor_add, f
<1>6. Closed' /\ Sockets' /\ Waiting'
  BY DEF IInv, Closed, Owned, Held, Sockets, Waiting, vr_reactor_add
<1>7. Edges'
  BY <1>1, <1>2, Zenon DEF IInv, Types, Edges, Dropped, vr_reactor_add, f
<1> QED BY <1>3, <1>4, <1>5, <1>6, <1>7, Zenon DEF IInv

\* The loop starts with a new manager.
LEMMA RefinesInit == Init => Manager!Init
BY Zenon DEF Init, Manager!Init, Manager!vr_connection_manager_init

\* A step of the loop is a step of the manager or leaves it alone.
LEMMA RefinesNext == IInv /\ [Next]_vars => [Manager!Next]_(Manager!vars)
<1> SUFFICES ASSUME IInv, [Next]_vars PROVE [Manager!Next]_(Manager!vars)
  BY Zenon
<1>1. CASE UNCHANGED vars
  BY <1>1, Zenon DEF vars, Manager!vars
<1>2. CASE Bootstrap
  BY <1>2, Zenon DEF Bootstrap, vr_reactor_create, ReactorCreateFails,
     vr_tcp_server_create, TcpServerFails, reactor_bootstrap_listener,
     BootstrapFails, Manager!Next, Manager!vars, Manager!Stop
<1>3. CASE Accept
  <2>1. ASSUME NEW p \in Conn, vr_connection_create(p)
        PROVE  Manager!Next
    BY <2>1, Zenon DEF vr_connection_create, Manager!Next
  <2>2. CASE ConnectionCreateFailsLate
    BY <2>2, Zenon DEF ConnectionCreateFailsLate, Manager!Next
  <2>3. CASE RegisterFails
    <3>1. new_conn \in live /\ new_conn \in Conn
      BY <2>3, Zenon DEF IInv, Types, Phase, Watched, RegisterFails
    <3>2. Manager!Close(new_conn)
      BY <2>3, <3>1, Zenon DEF RegisterFails, Manager!Close
    <3> QED BY <3>1, <3>2, Zenon DEF Manager!Next
  <2> QED BY <1>3, <2>1, <2>2, <2>3, Zenon
     DEF Accept, HandleListener, vr_tcp_accept, AcceptEmpty, AcceptFails,
         ConnectionCreateFails, vr_reactor_add, Manager!vars
<1>4. CASE HandleClosing
  <2>1. PICK e \in batch : e.ptr # Listener /\ reactor_close_connection(e.ptr)
    BY <1>4, Zenon DEF HandleClosing
  <2>2. e.ptr \in live /\ e.ptr \in Conn
    BY <2>1, Zenon DEF IInv, Types, BatchIsLive
  <2>3. Manager!Close(e.ptr)
    BY <1>4, <2>1, <2>2, Zenon
       DEF HandleClosing, reactor_close_connection, Manager!Close
  <2> QED BY <2>2, <2>3, Zenon DEF Manager!Next
<1>5. CASE LoopTest \/ EnterWait \/ BatchDone \/ WaitFails \/ handle_shutdown
  BY <1>5, Zenon
     DEF LoopTest, EnterWait, BatchDone, WaitFails, handle_shutdown,
              Manager!Next, Manager!vars, Manager!Stop
<1>6. CASE \/ \E report \in SUBSET Reported : vr_reactor_wait(report)
           \/ \E answer, drained \in BOOLEAN : HandleClient(answer, drained)
  BY <1>6, Zenon DEF vr_reactor_wait, HandleClient, Manager!vars
<1>7. CASE ShutdownConnection
  BY <1>7, Zenon DEF ShutdownConnection, Manager!Next, Manager!reactor_shutdown
<1>8. CASE reactor_shutdown
  BY <1>8, Zenon DEF reactor_shutdown, Manager!vars
<1>9. CASE \/ \E c \in Client : ClientConnect(c)
           \/ \E c \in Client, act \in {"data", "bad", "gone"} :
                ClientActs(c, act)
  BY <1>9, Zenon DEF ClientConnect, ClientActs, Manager!vars
<1> QED BY <1>1, <1>2, <1>3, <1>4, <1>5, <1>6, <1>7, <1>8, <1>9, Zenon
           DEF Next, Server, Environment

\* IInv is kept by every step.
LEMMA NextInv == IInv /\ [Next]_vars => IInv'
<1> SUFFICES ASSUME IInv, [Next]_vars PROVE IInv'
  BY Zenon
<1>1. CASE UNCHANGED vars
  <2> USE <1>1 DEF vars
  <2>1. Types' /\ Phase'
    BY Zenon DEF IInv, Types, Phase
  <2>2. Watched' /\ BatchIsLive'
    BY Zenon DEF IInv, Watched, BatchIsLive
  <2>3. Closed'
    BY OwnedUnchanged, Zenon DEF IInv, Closed
  <2>4. Sockets' /\ Edges' /\ Waiting'
    BY Zenon DEF IInv, Sockets, Edges, Dropped, Waiting
  <2> QED BY <2>1, <2>2, <2>3, <2>4, Zenon DEF IInv
<1>2. CASE Bootstrap
  BY <1>2, BootstrapInv, ReactorCreateFailsInv, TcpServerFailsInv,
     BootstrapListenerInv, BootstrapFailsInv, Zenon DEF Bootstrap
<1>3. CASE Accept
  BY <1>3, LoopInv, AcceptInv, AcceptEmptyInv, AcceptFailsInv, ConnCreateInv,
     CreateFailsInv, AddInv, RegisterFailsInv, Zenon DEF Accept
<1>4. CASE Server
  BY <1>2, <1>3, <1>4, LoopInv, WaitInv, HandleClosingInv, HandleClientInv,
     ShutdownInv, Zenon DEF Server
<1>5. CASE Environment
  BY <1>5, ConnectInv, ActsInv, LoopInv, Zenon DEF Environment
<1> QED BY <1>1, <1>4, <1>5, Zenon DEF Next

\* IInv holds throughout.
LEMMA Invariance == Spec => []IInv
BY InitInv, NextInv, PTL DEF Spec

-----------------------------------------------------------------------------
(* The clients *)

\* ClientsAccounted for one client and for one socket: a client that is
\* connected is in the backlog or at a socket, and a socket is the accept
\* loop's or a connection's.
Kept ==
  pc \notin Ending =>
    /\ \A c \in Client : client[c] \in Present =>
         c \in backlog \/ \E f \in Fds : sock[f] = c
    /\ \A f \in Fds : sock[f] # Null => f = new_fd \/ \E p \in live : fd[p] = f

\* Steps that neither move a socket nor bring a client.
LEMMA KeptUnmoved ==
  ASSUME Kept, pc' \notin Ending => pc \notin Ending,
         UNCHANGED <<backlog, sock, new_fd, live, fd>>,
         \A c \in Client : client'[c] \in Present => client[c] \in Present
  PROVE  Kept'
BY Zenon DEF Kept

\* A socket is closed, with its connection or before it has one.
LEMMA KeptClose ==
  ASSUME IInv, Kept, pc \notin Ending, NEW f \in Fds, sock[f] \in Client,
         close(f), UNCHANGED <<backlog, fd>>,
         \A g \in Fds \ {f} :
           /\ g = new_fd => g = new_fd'
           /\ \A p \in live : fd[p] = g => p \in live'
  PROVE  Kept'
<1>1. /\ sock' = [sock EXCEPT ![f] = Null]
      /\ client' = [client EXCEPT ![sock[f]] = "closed"]
  BY Zenon DEF close
<1>2. /\ sock \in [Fds -> Client \cup {Null}]
      /\ client \in [Client -> Present \cup {"away", "closed"}]
  BY Zenon DEF IInv, Types
<1>3. \A c \in Client : client'[c] \in Present =>
        c # sock[f] /\ client'[c] = client[c]
  BY <1>1, <1>2, Zenon
<1>4. \A g \in Fds : g # f => sock'[g] = sock[g]
  BY <1>1, <1>2, Zenon
<1>5. sock'[f] = Null
  BY <1>1, <1>2, Zenon
<1>6. ASSUME NEW c \in Client, client'[c] \in Present
      PROVE  c \in backlog' \/ \E g \in Fds : sock'[g] = c
  <2>1. c # sock[f] /\ client[c] \in Present
    BY <1>3, <1>6, Zenon
  <2>2. c \in backlog \/ \E g \in Fds : sock[g] = c
    BY <2>1, Zenon DEF Kept
  <2> QED BY <1>4, <2>1, <2>2, Zenon
<1>7. ASSUME NEW g \in Fds, sock'[g] # Null
      PROVE  g = new_fd' \/ \E p \in live' : fd'[p] = g
  <2>1. g # f /\ sock[g] # Null
    BY <1>4, <1>5, <1>7, Zenon
  <2>2. g = new_fd \/ \E p \in live : fd[p] = g
    BY <2>1, Zenon DEF Kept
  <2> QED BY <2>1, <2>2, Zenon
<1> QED BY <1>6, <1>7, Zenon DEF Kept

\* A connection is closed.
LEMMA KeptCloseConn ==
  ASSUME IInv, Kept, pc \notin Ending, NEW p \in live, close(fd[p]),
         live' = live \ {p}, UNCHANGED <<backlog, fd, new_fd>>
  PROVE  Kept'
<1>1. fd[p] \in Fds /\ sock[fd[p]] \in Client
  BY Located, Zenon
<1> QED BY <1>1, KeptClose, Zenon

\* accept() takes a client from the backlog to a socket nobody had.
LEMMA KeptAccept ==
  ASSUME IInv, Kept, NEW c \in Client, vr_tcp_accept(c)
  PROVE  Kept'
<1>1. PICK f \in Fds : Lowest(f) /\ new_fd' = f /\ sock' = [sock EXCEPT ![f] = c]
  BY Zenon DEF vr_tcp_accept
<1>2. /\ pc = "accept" /\ backlog' = backlog \ {c}
      /\ UNCHANGED <<client, live, fd>>
  BY Zenon DEF vr_tcp_accept
<1>3. /\ sock \in [Fds -> Client \cup {Null}] /\ live \subseteq Conn
  BY Zenon DEF IInv, Types
<1>4. new_fd = NoFd /\ Owned
  BY <1>2, Zenon DEF IInv, Phase, Closed
<1>5. \A p \in live : fd[p] # f
  BY <1>1, <1>4, Zenon DEF Owned, Lowest
<1>6. f # NoFd
  BY Zenon
<1>7. sock[f] = Null
  BY <1>2, <1>4, <1>5, <1>6, Zenon DEF Kept
<1>8. sock'[f] = c /\ \A g \in Fds : g # f => sock'[g] = sock[g]
  BY <1>1, <1>3, Zenon
<1>9. ASSUME NEW d \in Client, client[d] \in Present
      PROVE  d \in backlog' \/ \E g \in Fds : sock'[g] = d
  <2>1. CASE d = c
    BY <1>8, <2>1, Zenon
  <2>2. CASE d # c /\ d \in backlog
    BY <1>2, <2>2, Zenon
  <2>3. CASE d \notin backlog
    <3>1. PICK g \in Fds : sock[g] = d
      BY <1>2, <1>9, <2>3, Zenon DEF Kept
    <3>2. g # f
      BY <1>7, <3>1, Zenon
    <3> QED BY <1>8, <3>1, <3>2, Zenon
  <2> QED BY <2>1, <2>2, <2>3, Zenon
<1>10. ASSUME NEW g \in Fds, sock'[g] # Null
       PROVE  g = new_fd' \/ \E p \in live : fd[p] = g
  <2>1. CASE g = f
    BY <1>1, <2>1, Zenon
  <2>2. CASE g # f
    <3>1. sock[g] # Null /\ g # NoFd
      BY <1>8, <1>10, <2>2, Zenon
    <3> QED BY <1>2, <1>4, <3>1, Zenon DEF Kept
  <2> QED BY <2>1, <2>2, Zenon
<1> QED BY <1>2, <1>9, <1>10, Zenon DEF Kept

\* The steps of the accept loop.
LEMMA KeptAccepting ==
  ASSUME IInv, Kept, Accept
  PROVE  Kept'
<1>1. CASE HandleListener \/ AcceptEmpty \/ vr_reactor_add
  BY <1>1, KeptUnmoved, Zenon DEF HandleListener, AcceptEmpty, vr_reactor_add
<1>2. ASSUME NEW dropped \in SUBSET backlog, AcceptFails(dropped)
      PROVE  Kept'
  <2>1. /\ pc = "accept" /\ backlog' = backlog \ dropped
        /\ client' = [c \in Client |-> IF c \in dropped THEN "closed"
                                       ELSE client[c]]
        /\ UNCHANGED <<sock, new_fd, live, fd>>
    BY <1>2, Zenon DEF AcceptFails
  <2>2. \A c \in Client : client'[c] \in Present =>
          c \notin dropped /\ client[c] \in Present
    BY <2>1, Zenon
  <2> QED BY <2>1, <2>2, Zenon DEF Kept
<1>3. ASSUME NEW p \in Conn, vr_connection_create(p)
      PROVE  Kept'
  <2>1. /\ pc = "create" /\ p \notin live /\ live' = live \cup {p}
        /\ fd' = [fd EXCEPT ![p] = new_fd]
        /\ UNCHANGED netVars
    BY <1>3, Zenon DEF vr_connection_create, Manager!vr_connection_create
  <2>2. fd'[p] = new_fd /\ \A q \in live : fd'[q] = fd[q]
    BY <2>1, Zenon DEF IInv, Types
  <2> QED BY <2>1, <2>2, Zenon DEF Kept
<1>4. CASE ConnectionCreateFails \/ ConnectionCreateFailsLate
  <2>1. /\ pc = "create" /\ close(new_fd)
        /\ UNCHANGED <<backlog, fd, live>>
    BY <1>4, Zenon DEF ConnectionCreateFails, ConnectionCreateFailsLate,
                       Manager!CreateFailsLate
  <2>2. new_fd \in Fds /\ sock[new_fd] \in Client
    BY <2>1, Located, Zenon DEF IInv, Phase
  <2> QED BY <2>1, <2>2, KeptClose, Zenon
<1>5. CASE RegisterFails
  <2>1. /\ pc = "register" /\ close(fd[new_conn])
        /\ live' = live \ {new_conn} /\ UNCHANGED <<backlog, fd, new_fd>>
    BY <1>5, Zenon DEF RegisterFails, Manager!vr_connection_destroy
  <2>2. new_conn \in live
    BY <2>1, Zenon DEF IInv, Phase, Watched
  <2> QED BY <2>1, <2>2, KeptCloseConn, Zenon
<1> QED BY <1>1, <1>2, <1>3, <1>4, <1>5, KeptAccept, Zenon DEF Accept

\* The steps of the rest of the loop.
LEMMA KeptServing ==
  ASSUME IInv, Kept, Server, ~Accept
  PROVE  Kept'
<1>1. CASE Bootstrap
  BY <1>1, KeptUnmoved, Zenon
     DEF Bootstrap, vr_reactor_create, ReactorCreateFails,
         vr_tcp_server_create, TcpServerFails, reactor_bootstrap_listener,
         BootstrapFails, Kept
<1>2. CASE LoopTest \/ EnterWait \/ BatchDone
  BY <1>2, KeptUnmoved, Zenon DEF LoopTest, EnterWait, BatchDone
<1>3. ASSUME NEW report \in SUBSET Reported, vr_reactor_wait(report)
      PROVE  Kept'
  BY <1>3, KeptUnmoved, Zenon DEF vr_reactor_wait
<1>4. CASE HandleClosing
  <2>1. PICK e \in batch : e.ptr # Listener /\ reactor_close_connection(e.ptr)
    BY <1>4, Zenon DEF HandleClosing
  <2>2. PICK p \in live : p = e.ptr
    BY <2>1, Zenon DEF IInv, BatchIsLive
  <2>3. /\ pc = "batch" /\ close(fd[p]) /\ live' = live \ {p}
        /\ UNCHANGED <<backlog, fd, new_fd>>
    BY <1>4, <2>1, <2>2, Zenon
       DEF HandleClosing, reactor_close_connection,
           Manager!vr_connection_destroy
  <2> QED BY <2>3, KeptCloseConn, Zenon
<1>5. ASSUME NEW answer \in BOOLEAN, NEW drained \in BOOLEAN,
             HandleClient(answer, drained)
      PROVE  Kept'
  <2>1. PICK e \in batch :
          /\ e.ptr # Listener
          /\ client' = IF "IN" \in e.events /\ drained
                       THEN [client EXCEPT ![sock[fd[e.ptr]]] = "idle"]
                       ELSE client
    BY <1>5, Zenon DEF HandleClient
  <2>2. pc = "batch" /\ UNCHANGED <<pc, backlog, sock, new_fd, live, fd>>
    BY <1>5, Zenon DEF HandleClient
  <2>3. e.ptr \in live
    BY <2>1, Zenon DEF IInv, BatchIsLive
  <2>4. client[sock[fd[e.ptr]]] \in Present
    BY <2>2, <2>3, Located, Zenon
  <2>5. \A c \in Client : client'[c] \in Present => client[c] \in Present
    BY <2>1, <2>4, Zenon DEF IInv, Types
  <2> QED BY <2>2, <2>5, KeptUnmoved, Zenon
<1>6. CASE ShutdownConnection \/ reactor_shutdown
  BY <1>6, Zenon DEF Kept, ShutdownConnection, reactor_shutdown
<1> QED BY <1>1, <1>2, <1>3, <1>4, <1>5, <1>6, Zenon DEF Server

\* The steps of the clients and of the signal handler.
LEMMA KeptEnvironment ==
  ASSUME IInv, Kept, Environment
  PROVE  Kept'
<1>1. ASSUME NEW c \in Client, ClientConnect(c)
      PROVE  Kept'
  <2>1. /\ pc \notin Ending /\ client' = [client EXCEPT ![c] = "idle"]
        /\ backlog' = backlog \cup {c} /\ UNCHANGED <<sock, new_fd, live, fd>>
    BY <1>1, Zenon DEF ClientConnect
  <2>2. \A d \in Client : d # c => client'[d] = client[d]
    BY <2>1, Zenon DEF IInv, Types
  <2> QED BY <2>1, <2>2, Zenon DEF Kept
<1>2. ASSUME NEW c \in Client, NEW act \in {"data", "bad", "gone"},
             ClientActs(c, act)
      PROVE  Kept'
  <2>1. /\ client[c] \in Present /\ client' = [client EXCEPT ![c] = act]
        /\ UNCHANGED <<pc, backlog, sock, new_fd, live, fd>>
    BY <1>2, Zenon DEF ClientActs
  <2>2. \A d \in Client : client'[d] \in Present => client[d] \in Present
    BY <2>1, Zenon DEF IInv, Types
  <2> QED BY <2>1, <2>2, KeptUnmoved, Zenon
<1>3. CASE handle_shutdown \/ WaitFails
  BY <1>3, KeptUnmoved, Zenon DEF handle_shutdown, WaitFails
<1> QED BY <1>1, <1>2, <1>3, Zenon DEF Environment

-----------------------------------------------------------------------------
(* Theorems *)

\* What is proved of the manager, for the manager the loop uses.
MP == INSTANCE ConnManager_proofs WITH running <- pc \notin Ending

\* While a batch of events is handled, no pointer in it is to a connection
\* that was freed, or to one made since in the same memory.
THEOREM BatchCorrect == Spec => []BatchIsLive
<1>1. IInv => BatchIsLive
  BY Zenon DEF IInv
<1> QED BY <1>1, Invariance, PTL

\* epoll's interest list and the allocated connections agree.
THEOREM InterestCorrect == Spec => []InterestExact
<1>1. IInv => InterestExact
  BY Zenon DEF IInv, Watched, InterestExact
<1> QED BY <1>1, Invariance, PTL

\* No path through start-up, accept and close leaks or shares a descriptor.
THEOREM DescriptorsCorrect == Spec => []DescriptorsOwned
<1>1. IInv => DescriptorsOwned
  <2> SUFFICES ASSUME IInv, VR_ERROR \in Inherited, pc = "failed"
               PROVE  Owned /\ open = Inherited
    BY Zenon DEF IInv, Types, Closed, DescriptorsOwned
  <2>1. Held = {} /\ live = {} /\ open = Inherited
    BY Zenon DEF IInv, Phase, Closed, Held
  <2> QED BY <2>1, Zenon DEF Owned, IInv, Phase
<1> QED BY <1>1, Invariance, PTL

\* No client is forgotten or served twice, whatever fails between accept()
\* and the registration of its socket.
THEOREM ClientsCorrect == Spec => []ClientsAccounted
<1>1. Init => Kept
  BY Zenon DEF Init, Kept
<1>2. IInv /\ Kept /\ [Next]_vars => Kept'
  <2> SUFFICES ASSUME IInv, Kept, [Next]_vars PROVE Kept'
    BY Zenon
  <2>1. CASE UNCHANGED vars
    BY <2>1, KeptUnmoved, Zenon DEF vars
  <2> QED BY <2>1, KeptAccepting, KeptServing, KeptEnvironment, Zenon DEF Next
<1>3. IInv /\ Kept => ClientsAccounted
  <2> SUFFICES ASSUME IInv, Kept, pc \notin Ending, NEW c \in Client
               PROVE  LET ends == {f \in Fds : sock[f] = c}
                      IN  IF client[c] \in Present
                          THEN \/ c \in backlog /\ ends = {}
                               \/ /\ c \notin backlog
                                  /\ \E f \in Reachable : ends = {f}
                          ELSE c \notin backlog /\ ends = {}
    BY Zenon DEF ClientsAccounted
  <2> DEFINE ends == {f \in Fds : sock[f] = c}
  <2>1. \A f \in ends : f \in Fds /\ c \notin backlog /\ client[c] \in Present
    BY Zenon DEF IInv, Sockets
  <2>2. c \in backlog => client[c] \in Present
    BY Zenon DEF IInv, Sockets
  <2>3. ASSUME NEW f \in ends PROVE ends = {f} /\ f \in Reachable
    <3>1. \A g \in ends : g = f
      BY Zenon DEF IInv, Sockets
    <3>2. f = new_fd \/ \E p \in live : fd[p] = f
      BY Zenon DEF Kept
    <3>3. f \in Reachable
      BY <2>1, <3>2, Zenon DEF Reachable
    <3> QED BY <3>1, <3>3, Zenon
  <2>4. client[c] \in Present => c \in backlog \/ \E f \in ends : TRUE
    BY Zenon DEF Kept
  <2> HIDE DEF ends
  <2>5. \/ ends = {}
        \/ \E f \in ends : TRUE
    BY Zenon
  <2>6. IF client[c] \in Present
        THEN \/ c \in backlog /\ ends = {}
             \/ c \notin backlog /\ \E f \in Reachable : ends = {f}
        ELSE c \notin backlog /\ ends = {}
    BY <2>1, <2>2, <2>3, <2>4, <2>5, Zenon
  <2> QED BY <2>6, Zenon DEF ends
<1> QED BY <1>1, <1>2, <1>3, Invariance, PTL DEF Spec

\* A sleeping server has no connection with input whose edge is gone, other
\* than one whose last event stopped reading before EAGAIN, whose client has
\* done nothing since and which has no response to send.
THEOREM EventsCorrect == Spec => []NoEventLost
<1>1. IInv => NoEventLost
  BY Zenon DEF IInv, Types, Phase, Edges, Dropped, NoEventLost
<1> QED BY <1>1, Invariance, PTL

\* Nor clients in the backlog, but for errors of accept().
THEOREM BacklogCorrect == Spec => []BacklogWaitsOnlyAfterError
<1>1. IInv => BacklogWaitsOnlyAfterError
  BY Zenon DEF IInv, Phase, Waiting, BacklogWaitsOnlyAfterError
<1> QED BY <1>1, Invariance, PTL

\* The loop uses the manager as ConnManager says it is used, so that what
\* is proved of the manager holds within the loop.
THEOREM Refinement == Spec => ManagerUsed
BY RefinesInit, RefinesNext, Invariance, PTL
   DEF Spec, ManagerUsed, Manager!Spec

\* The manager's assumption on its constants follows from the loop's.
LEMMA ManagerAssumed == MP!ManagerAssumption
BY ReactorAssumption, Zenon DEF MP!ManagerAssumption

\* The manager of the loop and the one of the proofs are the same.
LEMMA SameManager == Manager!Spec => MP!Spec
<1>1. Manager!Init => MP!Init
  BY Zenon DEF Manager!Init, MP!Init, Manager!vr_connection_manager_init,
         MP!vr_connection_manager_init, Manager!Cells, MP!Cells
<1>2. ASSUME [Manager!Next]_(Manager!vars) PROVE [MP!Next]_(MP!vars)
  BY <1>2, Zenon DEF Manager!Next, MP!Next, Manager!vars, MP!vars,
     Manager!vr_connection_create, MP!vr_connection_create,
     Manager!CreateFailsLate, MP!CreateFailsLate, Manager!GrownTo, MP!GrownTo,
     Manager!vr_util_array_extend, MP!vr_util_array_extend,
     Manager!Close, MP!Close, Manager!Stop, MP!Stop,
     Manager!vr_connection_destroy, MP!vr_connection_destroy,
     Manager!reactor_shutdown, MP!reactor_shutdown,
     Manager!vr_connection_manager_destroy, MP!vr_connection_manager_destroy,
     Manager!Cells, MP!Cells
<1> QED BY <1>1, <1>2, PTL DEF Manager!Spec, MP!Spec

\* The manager's array and the connections' slots agree at every step of
\* the loop.
THEOREM SlotsInLoop == Spec => []Manager!SlotsExact
<1>1. MP!SlotsExact => Manager!SlotsExact
  BY Zenon DEF MP!SlotsExact, Manager!SlotsExact, MP!Cells, Manager!Cells
<1>2. MP!Spec => []MP!SlotsExact
  BY MP!SlotsCorrect, ManagerAssumed, PTL
<1> QED BY <1>1, <1>2, Refinement, SameManager, PTL DEF ManagerUsed

\* The state of the loop keeps its types.
THEOREM TypeCorrect == Spec => []TypeOK
<1>1. MP!TypeOK => Manager!TypeOK
  BY Zenon DEF MP!TypeOK, Manager!TypeOK, MP!Cells, Manager!Cells
<1>2. MP!Spec => []MP!TypeOK
  BY MP!TypeCorrect, ManagerAssumed, PTL
<1>3. IInv /\ Manager!TypeOK => TypeOK
  BY Zenon DEF IInv, Types, TypeOK
<1> QED
  BY <1>1, <1>2, <1>3, Invariance, Refinement, SameManager, PTL DEF ManagerUsed
=============================================================================
