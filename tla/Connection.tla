----------------------------- MODULE Connection ----------------------------
(***************************************************************************)
(* The data path of one connection: the reactor's handling of its events   *)
(* (src/src/event_loop/reactor.c) with the parser and the protocol         *)
(* handler, against a socket, edge-triggered epoll and a client.           *)
(*                                                                         *)
(* The server is one thread; each system call is a step of its own, so the *)
(* client and the kernel act between any two of them.  The two ring        *)
(* buffers are queues with a capacity (RingBuffer shows that they are).    *)
(***************************************************************************)
EXTENDS ParserOps, ProtocolOps, FiniteSets

CONSTANTS
  Scripts,       \* the sequences of packets a client may send
  ClientHeader,  \* units of a header as the client sends it
  RcvBuf,        \* bound: units the kernel holds for the server to read
  SndBuf,        \* bound: units the kernel holds for the client to read
  InitialSize,   \* VR_CONNECTION_BUFFER_INITIAL_SIZE, in units
  MaxSize,       \* VR_CONNECTION_BUFFER_MAX_SIZE, in units
  Avail,         \* how much malloc() may grant where it may fail
  Reliable       \* TRUE: nothing fails; FALSE: malloc() and the log may

ASSUME ConnectionAssumption ==
  /\ ClientHeader \in {2, HeaderSize}
  /\ InitialSize \in Nat \ {0} /\ MaxSize \in Nat /\ InitialSize <= MaxSize
  /\ RcvBuf \in Nat \ {0} /\ SndBuf \in Nat \ {0}
  /\ Avail \subseteq 0 .. MaxSize
  /\ Reliable \subseteq BOOLEAN

\* The packets of a client; "BAD" stands for what the parser does not accept.
ClientPackets == [type : PacketType \cup {"BAD"}, stream_id : StreamId,
                  payload_len : Nat]

ASSUME ScriptsAssumption == Scripts \subseteq Seq(ClientPackets)

VARIABLES
  reliable,  \* whether malloc() and the log never fail: settled at the start
  script,    \* the packets this client sends
  tosend,    \* client: units not yet sent
  got,       \* client: units received
  rx,        \* socket: units received and not yet read by the server
  tx,        \* socket: units sent and not yet read by the client
  peer,      \* socket: "open", "fin" (peer closed) or "rst" (peer reset)
  nospace,   \* socket: a send() found no room (SOCK_NOSPACE)
  interest,  \* epoll: the events asked for besides EPOLLET
  ready,     \* epoll: the connection is on the ready list
  pc,        \* server: the loop it is in
  events,    \* server: the event mask being handled
  open,      \* server: the connection exists
  rbuf,      \* conn->read_buf: capacity and contents
  wbuf,      \* conn->write_buf
  parser,    \* conn->parser
  proto,     \* conn->proto_state, active_streams, streams_bitmap
  handled,   \* history: packets passed to the protocol handler
  answers,   \* history: the units of the responses queued
  lost       \* history: responses dropped because they could not be queued

clientVars == <<reliable, script, tosend, got>>
sockVars == <<rx, tx, peer, nospace>>
connVars == <<rbuf, wbuf, parser, proto>>
history == <<handled, answers, lost>>
vars == <<clientVars, sockVars, interest, ready, pc, events, open, connVars,
          history>>

\* How a ring's capacity evolves; the rest of a ring is not looked at here.
Ring == INSTANCE RingOps WITH Byte <- {}, Uninit <- << >>,
                              PosRange <- MaxSize, HeaderPad <- 0

-----------------------------------------------------------------------------
(* Data *)

QueueZero == [capacity |-> 0, q |-> << >>]

\* What the capacity operators of RingOps look at.
View(b) == [capacity |-> b.capacity, count |-> Len(b.q)]

Concat(seqs) ==
  LET f[i \in 0 .. Len(seqs)] == IF i = 0 THEN << >> ELSE f[i - 1] \o seqs[i]
  IN  f[Len(seqs)]

Pad(n) == [i \in 1 .. n |-> <<"-">>]

\* A packet as the client sends it, with ClientHeader - 2 units more than
\* the documented header has.
ClientUnits(pkt) ==
  IF pkt.type = "BAD" THEN <<<<"X">>>> \o Pad(ClientHeader - 1)
  ELSE LET s == vr_packet_serialize(pkt)
       IN  SubSeq(s, 1, 2) \o Pad(ClientHeader - 2) \o Drop(s, 2)

\* A response as reactor_enqueue_response() commits it: the bytes written,
\* and the rest of sizeof(vr_packet_header_t), which nobody wrote.
ResponseUnits(response) ==
  vr_packet_serialize([type |-> response.type,
                       stream_id |-> response.stream_id, payload_len |-> 0])
    \o Pad(HeaderSize - 2)

Units(pkts) == Concat([i \in 1 .. Len(pkts) |-> ClientUnits(pkts[i])])

-----------------------------------------------------------------------------
(* Kernel: the socket as poll() sees it, and edge-triggered epoll *)

\* TCP reports EPOLLOUT only when a third of the send buffer is free.
Readable == rx # << >> \/ peer # "open"
Writable == 3 * Len(tx) <= 2 * SndBuf \/ peer = "rst"

\* Polling a socket that is not writable asks for a wake-up when it is.
Poll == nospace' = (nospace \/ ~Writable)

\* EPOLL_CTL_MOD stores the interest and polls the socket.
vr_reactor_modify(ev) ==
  /\ interest' = ev
  /\ ready' = (ready \/ Readable \/ ("OUT" \in ev /\ Writable))
  /\ Poll

\* A wake-up puts the connection on the ready list if it is asked for.
Wake(ev) == ready' = (ready \/ (open /\ ev \in interest))

-----------------------------------------------------------------------------
(* Client *)

ClientSend ==
  /\ peer = "open" /\ open
  /\ tosend # << >> /\ Len(rx) < RcvBuf
  /\ rx' = Append(rx, Head(tosend))
  /\ tosend' = Tail(tosend)
  /\ Wake("IN")
  /\ UNCHANGED <<reliable, script, got, tx, peer, nospace, interest, pc,
                 events, open, connVars, history>>

ClientReceive ==
  /\ tx # << >>
  /\ got' = Append(got, Head(tx))
  /\ tx' = Tail(tx) /\ UNCHANGED peer
  /\ IF nospace /\ Writable'
     THEN nospace' = FALSE /\ Wake("OUT")
     ELSE UNCHANGED <<nospace, ready>>
  /\ UNCHANGED <<reliable, script, tosend, rx, interest, pc, events, open,
                 connVars, history>>

\* The client closes its sending side, having sent everything.
ClientShutdown ==
  /\ open /\ peer = "open" /\ tosend = << >>
  /\ peer' = "fin"
  /\ Wake("IN")
  /\ UNCHANGED <<clientVars, rx, tx, nospace, interest, pc, events, open,
                 connVars, history>>

\* The client resets: what was sent to it is gone, what it sent is not.
ClientReset ==
  /\ open /\ peer # "rst"
  /\ peer' = "rst" /\ tx' = << >>
  /\ Wake("IN")
  /\ UNCHANGED <<clientVars, rx, nospace, interest, pc, events, open,
                 connVars, history>>

-----------------------------------------------------------------------------
(* Server *)

\* The loop that comes after drain_writes and drain_reads.
AfterWrites == IF "IN" \in events THEN "reads" ELSE "packets"

\* The socket is closed and the connection's memory freed.
ConnectionGone ==
  /\ open' = FALSE /\ ready' = FALSE /\ events' = {}
  /\ rbuf' = QueueZero /\ wbuf' = QueueZero
  /\ parser' = ParserZero /\ proto' = ProtoZero
  /\ UNCHANGED <<clientVars, sockVars, interest>>

reactor_close_connection == ConnectionGone /\ pc' = "wait"

\* epoll_wait() takes the connection off the ready list and reports what
\* the socket is ready for now.
vr_reactor_wait ==
  /\ pc = "wait" /\ open /\ ready
  /\ ready' = FALSE
  /\ LET mask == {e \in interest : \/ e = "IN" /\ Readable
                                   \/ e = "OUT" /\ Writable}
     IN  /\ events' = mask
         /\ pc' = IF mask = {} THEN "wait"
                  ELSE IF "OUT" \in mask THEN "writes" ELSE "reads"
  /\ Poll
  /\ UNCHANGED <<clientVars, rx, tx, peer, interest, open, connVars, history>>

\* Mutant: everything offered is consumed, not what was sent.
send_consumes_all(n) ==
  /\ pc = "writes" /\ wbuf.q # << >> /\ peer # "rst"
  /\ n <= Len(wbuf.q) /\ n <= SndBuf - Len(tx)
  /\ tx' = tx \o SubSeq(wbuf.q, 1, n)
  /\ wbuf' = [wbuf EXCEPT !.q = << >>]
  /\ UNCHANGED <<clientVars, rx, peer, nospace, interest, ready, pc, events,
                 open, rbuf, parser, proto, history>>

\* One round of the loop of reactor_drain_writes(): send() takes part of
\* the contiguous bytes, or says EAGAIN, or fails.
SendSome(n) ==
  /\ pc = "writes" /\ wbuf.q # << >> /\ peer # "rst"
  /\ n <= Len(wbuf.q) /\ n <= SndBuf - Len(tx)
  /\ tx' = tx \o SubSeq(wbuf.q, 1, n)
  /\ wbuf' = [wbuf EXCEPT !.q = Drop(@, n)]
  /\ UNCHANGED <<clientVars, rx, peer, nospace, interest, ready, pc, events,
                 open, rbuf, parser, proto, history>>

SendWouldBlock ==
  /\ pc = "writes" /\ wbuf.q # << >> /\ peer # "rst"
  /\ Len(tx) = SndBuf
  /\ nospace' = TRUE
  /\ pc' = AfterWrites
  /\ UNCHANGED <<clientVars, rx, tx, peer, interest, ready, events, open,
                 connVars, history>>

\* vr_socket_send() reports the EAGAIN to the log before its caller looks at
\* errno: a flush that fails leaves its own error there.
SendErrnoLost ==
  /\ pc = "writes" /\ wbuf.q # << >> /\ peer # "rst"
  /\ Len(tx) = SndBuf /\ ~reliable
  /\ reactor_close_connection
  /\ UNCHANGED history

SendFails ==
  /\ pc = "writes" /\ wbuf.q # << >> /\ peer = "rst"
  /\ reactor_close_connection
  /\ UNCHANGED history

WritesDone ==
  /\ pc = "writes" /\ wbuf.q = << >>
  /\ vr_reactor_modify({"IN"})
  /\ pc' = AfterWrites
  /\ UNCHANGED <<clientVars, rx, tx, peer, events, open, connVars, history>>

\* Mutant: the ring is allocated but never grown.
grow_never(avail) ==
  /\ pc = "reads" /\ Len(rbuf.q) = rbuf.capacity
  /\ IF rbuf.capacity = 0
     THEN rbuf' = [rbuf EXCEPT !.capacity = InitialSize] /\ pc' = pc
     ELSE pc' = "packets" /\ UNCHANGED rbuf
  /\ UNCHANGED <<clientVars, sockVars, interest, ready, events, open, wbuf,
                 parser, proto, history>>

\* One round of the loop of reactor_drain_reads().
GrowReadBuffer(avail) ==
  /\ pc = "reads" /\ Len(rbuf.q) = rbuf.capacity
  /\ IF Ring!grow_ok(View(rbuf), avail)
     THEN /\ rbuf' = [rbuf EXCEPT !.capacity =
                        IF @ = 0 THEN InitialSize ELSE Ring!GrownCapacity(@)]
          /\ pc' = pc
     ELSE pc' = "packets" /\ UNCHANGED rbuf
  /\ UNCHANGED <<clientVars, sockVars, interest, ready, events, open, wbuf,
                 parser, proto, history>>

\* Mutant: one unit more than there is room for.
recv_overruns ==
  /\ pc = "reads" /\ Len(rbuf.q) < rbuf.capacity /\ rx # << >>
  /\ LET room == rbuf.capacity - Len(rbuf.q) + 1
         n == IF Len(rx) < room THEN Len(rx) ELSE room
     IN  /\ rbuf' = [rbuf EXCEPT !.q = @ \o SubSeq(rx, 1, n)]
         /\ rx' = Drop(rx, n)
  /\ UNCHANGED <<clientVars, tx, peer, nospace, interest, ready, pc, events,
                 open, wbuf, parser, proto, history>>

RecvSome ==
  /\ pc = "reads" /\ Len(rbuf.q) < rbuf.capacity /\ rx # << >>
  /\ LET room == rbuf.capacity - Len(rbuf.q)
         n == IF Len(rx) < room THEN Len(rx) ELSE room
     IN  /\ rbuf' = [rbuf EXCEPT !.q = @ \o SubSeq(rx, 1, n)]
         /\ rx' = Drop(rx, n)
  /\ UNCHANGED <<clientVars, tx, peer, nospace, interest, ready, pc, events,
                 open, wbuf, parser, proto, history>>

\* Mutant: EAGAIN is not told from an error.
recv_block_closes ==
  /\ pc = "reads" /\ Len(rbuf.q) < rbuf.capacity
  /\ rx = << >> /\ peer = "open"
  /\ reactor_close_connection
  /\ UNCHANGED history

RecvWouldBlock ==
  /\ pc = "reads" /\ Len(rbuf.q) < rbuf.capacity
  /\ rx = << >> /\ peer = "open"
  /\ pc' = "packets"
  /\ UNCHANGED <<clientVars, sockVars, interest, ready, events, open,
                 connVars, history>>

\* Mutant: the end of the stream is taken for EAGAIN.
recv_end_ignored ==
  /\ pc = "reads" /\ Len(rbuf.q) < rbuf.capacity
  /\ rx = << >> /\ peer = "fin"
  /\ pc' = "packets"
  /\ UNCHANGED <<clientVars, sockVars, interest, ready, events, open,
                 connVars, history>>

\* recv() returns 0 after the peer's FIN.
RecvEnds ==
  /\ pc = "reads" /\ Len(rbuf.q) < rbuf.capacity
  /\ rx = << >> /\ peer = "fin"
  /\ reactor_close_connection
  /\ UNCHANGED history

\* recv() fails after a reset.
RecvFails ==
  /\ pc = "reads" /\ Len(rbuf.q) < rbuf.capacity
  /\ rx = << >> /\ peer = "rst"
  /\ reactor_close_connection
  /\ UNCHANGED history

\* Mutant: EPOLLOUT is not armed.
packets_done_unarmed(w) ==
  /\ pc' = "wait" /\ events' = {}
  /\ UNCHANGED <<interest, ready, nospace>>

\* What reactor_process_packets() does after its loop.
PacketsDone(w) ==
  /\ pc' = "wait" /\ events' = {}
  /\ IF w.q # << >> THEN vr_reactor_modify({"IN", "OUT"})
     ELSE UNCHANGED <<interest, ready, nospace>>

\* Mutant: reserve() allocates but never grows.
reserved_initial(b, n, avail) ==
  [b EXCEPT !.capacity = IF @ = 0 /\ InitialSize <= avail THEN InitialSize
                         ELSE @]

\* reactor_enqueue_response() on the queue: reserve(), then all or nothing.
reserved(b, n, avail) ==
  LET c == IF b.capacity # 0 THEN b.capacity
           ELSE IF InitialSize <= avail THEN InitialSize ELSE 0
      v == [capacity |-> c, count |-> Len(b.q)]
  IN  [b EXCEPT !.capacity = IF c = 0 THEN 0 ELSE Ring!ReserveCapacity(v, n, avail)]

enqueue(b, units, avail, staged) ==
  LET r == reserved(b, Len(units), avail)
      fits == r.capacity - Len(r.q) >= Len(units)
  IN  [queued |-> fits /\ staged,
       buf |-> IF fits /\ staged THEN [r EXCEPT !.q = @ \o units] ELSE r]

\* One round of the loop of reactor_process_packets().
ParseNothing ==
  LET p == vr_parser_poll(parser, rbuf.q, TRUE)
  IN  /\ pc = "packets" /\ p.result = "EMPTY"
      /\ parser' = p.parser
      /\ rbuf' = [rbuf EXCEPT !.q = p.q]
      /\ PacketsDone(wbuf)
      /\ UNCHANGED <<clientVars, rx, tx, peer, open, wbuf, proto, history>>

ParseFails(mem) ==
  /\ pc = "packets"
  /\ vr_parser_poll(parser, rbuf.q, mem).result = "ERROR"
  /\ reactor_close_connection
  /\ UNCHANGED history

\* Mutant: one packet per event, as if the loop were an `if'.
handle_one(mem, avail, staged) ==
  LET p == vr_parser_poll(parser, rbuf.q, mem)
      r == vr_protocol_handle_packet(proto, p.pkt)
      e == enqueue(wbuf, ResponseUnits(r.response), avail, staged)
      answered == r.response # NoResponse
  IN  /\ pc = "packets" /\ p.result = "SUCCESS"
      /\ parser' = p.parser
      /\ rbuf' = [rbuf EXCEPT !.q = p.q]
      /\ proto' = r.conn
      /\ handled' = Append(handled, p.pkt)
      /\ wbuf' = IF answered THEN e.buf ELSE wbuf
      /\ answers' = IF answered /\ e.queued THEN answers \o ResponseUnits(r.response)
                    ELSE answers
      /\ PacketsDone(wbuf')
      /\ UNCHANGED <<lost, clientVars, rx, tx, peer, open>>

\* Mutant: the handler's state is kept only with a response that is queued.
handle_rolls_back(mem, avail, staged) ==
  LET p == vr_parser_poll(parser, rbuf.q, mem)
      r == vr_protocol_handle_packet(proto, p.pkt)
      e == enqueue(wbuf, ResponseUnits(r.response), avail, staged)
  IN  /\ pc = "packets" /\ p.result = "SUCCESS"
      /\ parser' = p.parser
      /\ rbuf' = [rbuf EXCEPT !.q = p.q]
      /\ handled' = Append(handled, p.pkt)
      /\ IF r.response = NoResponse
         THEN /\ proto' = r.conn
              /\ UNCHANGED <<wbuf, answers, lost, pc, events, interest, ready,
                             nospace>>
         ELSE /\ wbuf' = e.buf
              /\ IF e.queued
                 THEN /\ proto' = r.conn
                      /\ answers' = answers \o ResponseUnits(r.response)
                      /\ UNCHANGED <<lost, pc, events, interest, ready, nospace>>
                 ELSE /\ lost' = Append(lost, r.response)
                      /\ PacketsDone(e.buf)
                      /\ UNCHANGED <<answers, proto>>
      /\ UNCHANGED <<clientVars, rx, tx, peer, open>>

HandlePacket(mem, avail, staged) ==
  LET p == vr_parser_poll(parser, rbuf.q, mem)
      r == vr_protocol_handle_packet(proto, p.pkt)
      e == enqueue(wbuf, ResponseUnits(r.response), avail, staged)
  IN  /\ pc = "packets" /\ p.result = "SUCCESS"
      /\ parser' = p.parser
      /\ rbuf' = [rbuf EXCEPT !.q = p.q]
      /\ proto' = r.conn
      /\ handled' = Append(handled, p.pkt)
      /\ IF r.response = NoResponse
         THEN UNCHANGED <<wbuf, answers, lost, pc, events, interest, ready,
                          nospace>>
         ELSE /\ wbuf' = e.buf
              /\ IF e.queued
                 THEN /\ answers' = answers \o ResponseUnits(r.response)
                      /\ UNCHANGED <<lost, pc, events, interest, ready, nospace>>
                 ELSE /\ lost' = Append(lost, r.response)
                      /\ PacketsDone(e.buf)
                      /\ UNCHANGED answers
      /\ UNCHANGED <<clientVars, rx, tx, peer, open>>

\* The handler does not look at what calloc() returned.
HandlerCrashes(mem) ==
  LET p == vr_parser_poll(parser, rbuf.q, mem)
  IN  /\ pc = "packets" /\ p.result = "SUCCESS"
      /\ allocates(proto, p.pkt)
      /\ ConnectionGone
      /\ pc' = "crashed"
      /\ UNCHANGED history

-----------------------------------------------------------------------------
Init ==
  /\ reliable \in Reliable
  /\ script \in Scripts
  /\ tosend = Units(script) /\ got = << >>
  /\ rx = << >> /\ tx = << >> /\ peer = "open" /\ nospace = FALSE
  /\ interest = {"IN"} /\ ready = FALSE
  /\ pc = "wait" /\ events = {} /\ open = TRUE
  /\ rbuf = QueueZero /\ wbuf = QueueZero
  /\ parser = ParserZero /\ proto = ProtoZero
  /\ handled = << >> /\ answers = << >> /\ lost = << >>

\* What malloc() grants a ring, and whether it succeeds for a payload, a
\* staging copy or a response.
Grants == IF reliable THEN {MaxSize} ELSE Avail
Mem == IF reliable THEN {TRUE} ELSE BOOLEAN

Server ==
  \/ vr_reactor_wait
  \/ \E n \in 1 .. SndBuf : SendSome(n)
  \/ SendWouldBlock
  \/ SendErrnoLost
  \/ SendFails
  \/ WritesDone
  \/ \E avail \in Grants : GrowReadBuffer(avail)
  \/ RecvSome
  \/ RecvWouldBlock
  \/ RecvEnds
  \/ RecvFails
  \/ ParseNothing
  \/ \E mem \in Mem : ParseFails(mem)
  \/ \E mem, staged \in Mem, avail \in Grants : HandlePacket(mem, avail, staged)
  \/ ~reliable /\ \E mem \in Mem : HandlerCrashes(mem)

Client ==
  \/ ClientSend
  \/ ClientReceive
  \/ ClientShutdown
  \/ ClientReset

Next == Server \/ Client

Spec == Init /\ [][Next]_vars

\* The server's thread keeps running, and the client sends what it has and
\* reads what it is sent; nothing makes it shut down or reset.
FairSpec == Spec /\ WF_vars(Server) /\ WF_vars(ClientSend)
                 /\ WF_vars(ClientReceive)

-----------------------------------------------------------------------------
(* Properties *)

Queue(b) == /\ b.capacity \in {0} \cup Ring!Capacities
            /\ Len(b.q) <= b.capacity

\* The connection's fields and the kernel's buffers have their types.
TypeOK ==
  /\ Len(rx) <= RcvBuf /\ Len(tx) <= SndBuf
  /\ peer \in {"open", "fin", "rst"}
  /\ nospace \in BOOLEAN /\ ready \in BOOLEAN /\ open \in BOOLEAN
  /\ interest \in {{"IN"}, {"IN", "OUT"}}
  /\ events \subseteq interest \cup {"OUT"}
  /\ pc \in {"wait", "writes", "reads", "packets", "crashed"}
  /\ Queue(rbuf) /\ Queue(wbuf)
  /\ parser.state \in {"HEADER_WAIT", "PAYLOAD_WAIT"}
  /\ proto.streams_bitmap \subseteq Word \X Bit

Begins(s, t) == Len(s) <= Len(t) /\ s = SubSeq(t, 1, Len(s))

Idle == pc = "wait" /\ open /\ ~ready

\* Unsent bytes never wait for an event that will not come: when the thread
\* sleeps on a connection whose write ring is not empty, EPOLLOUT is armed
\* and the socket is full and will wake it.  Depends on the re-arming after
\* reactor_process_packets() and on not disarming in reactor_drain_writes().
UnsentBytesAreArmed ==
  Idle /\ wbuf.q # << >> => "OUT" \in interest /\ nospace /\ ~Writable

\* Unless allocation fails, a packet that was received completely is only
\* left unhandled while there are unsent bytes, whose EPOLLOUT brings the
\* parser back to it.
DeferredPacketsResume ==
  reliable /\ Idle /\ vr_parser_poll(parser, rbuf.q, TRUE).result # "EMPTY"
    => wbuf.q # << >>

\* The responses queued so far are what the client received, what the
\* kernel holds and what the write ring holds, in order and complete,
\* whatever send() accepted at a time and wherever a response was lost.
\* However the connection ends, what the client got is a prefix of them.
ResponsesIntact ==
  /\ Begins(got, answers)
  /\ peer # "rst" => Begins(got \o tx, answers)
  /\ peer # "rst" /\ open => got \o tx \o wbuf.q = answers

\* Framing: the packets handled, the header the parser holds and the bytes
\* in the read ring, in the kernel and at the client are the client's
\* packets, in order, however they were cut up on the way.
PacketsIntact ==
  /\ Begins(handled, script)
  /\ open =>
       Units(handled)
         \o (IF parser.state = "PAYLOAD_WAIT"
             THEN SubSeq(ClientUnits(parser.header), 1, HeaderSize)
             ELSE << >>)
         \o rbuf.q \o rx \o tosend
         = Units(script)

\* README.md, "Runtime data path": a connection is closed for
\* "disconnect/error" or a "write error", and "EPOLLOUT -> drain writes
\* until EAGAIN": EAGAIN, a full buffer or a packet that is not complete
\* never costs a client its connection, only its leaving, a reset or a
\* packet that is not valid.  A failure of malloc() does, and one of the log:
\* vr_socket_send() writes to it between send() and the test of errno.
ClosedForCause ==
  [][open /\ ~open' =>
       \/ ~reliable \/ peer # "open"
       \/ vr_parser_poll(parser, rbuf.q, TRUE).result = "ERROR"]_vars

\* A response is dropped only when allocation failed or the write ring is
\* at its maximum with no room for it.
LostOnlyWhenFull ==
  [][lost' # lost => ~reliable \/ MaxSize - Len(wbuf.q) < HeaderSize]_vars

\* What the validation of the parser accepts.
WellFormed(pkt) == pkt.type # "BAD"

\* The session this connection gives its client.
Service == INSTANCE Session
             WITH Handler <- vr_protocol_handle_packet, Wire <- ResponseUnits,
                  Fresh <- ProtoZero, None <- NoResponse

\* The data path implements a session that handles the client's packets one
\* at a time: the rings, the parser, the cutting up of packets by recv() and
\* send(), the deferral of packets and the loss of a response never make the
\* handler skip or repeat a packet, see a state other than the one its
\* predecessor left, or answer anything else.
ServesSession == Service!SessionSpec

\* Every packet of a client that stays is handled.
EveryPacketHandled == <>(handled = script \/ peer # "open")

\* Every response that was queued reaches a client that stays.
EveryResponseDelivered ==
  []<>((wbuf.q = << >> /\ tx = << >>) \/ peer = "rst")

\* A peer that is gone is noticed and its connection torn down.
PeerGoneIsNoticed == peer # "open" ~> ~open

\* README.md, "Packet format": "Velora uses a fixed 8-byte header": the
\* packets of a client that sends such headers are handled.
DocumentedClientServed == ClientHeader = 2 => EveryPacketHandled

\* README.md, "Runtime data path": "EPOLLIN -> drain reads until EAGAIN":
\* when the thread sleeps, nothing is left to read.
ReadsDrained == Idle => rx = << >>
=============================================================================
