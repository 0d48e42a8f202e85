------------------------- MODULE Connection_proofs -------------------------
(***************************************************************************)
(* The data path of a connection, for every client, every size of the      *)
(* rings and of the socket's buffers, and every outcome of allocation.     *)
(***************************************************************************)
EXTENDS Connection, DataLemmas, TLAPS

-----------------------------------------------------------------------------
(* Unsent bytes *)

\* The inductive form of UnsentBytesAreArmed: between two events EPOLLOUT is
\* armed for unsent bytes, and if no event is pending the full socket will
\* give one.
Armed ==
  /\ "IN" \in interest
  /\ pc = "wait" /\ open /\ wbuf.q # << >> =>
       "OUT" \in interest /\ (ready \/ (nospace /\ ~Writable))

\* What reactor_process_packets() does at its end arms EPOLLOUT.
LEMMA PacketsDoneArms ==
  ASSUME Armed, PacketsDone(wbuf'), UNCHANGED <<tx, peer>>
  PROVE  Armed'
BY Zenon DEF Armed, PacketsDone, vr_reactor_modify, Poll, Writable

\* Closing leaves nothing to arm.
LEMMA CloseArms ==
  ASSUME Armed, ConnectionGone
  PROVE  Armed'
BY Zenon DEF Armed, ConnectionGone

\* The steps of the server's loops.
LEMMA ServerArms ==
  ASSUME Armed, Server
  PROVE  Armed'
<1>1. CASE vr_reactor_wait
  BY <1>1, Zenon DEF Armed, vr_reactor_wait, Poll, Writable, connVars
<1>2. ASSUME NEW n \in 1 .. SndBuf, SendSome(n) PROVE Armed'
  BY <1>2, Zenon DEF Armed, SendSome
<1>3. CASE SendWouldBlock
  BY <1>3, Zenon DEF Armed, SendWouldBlock, AfterWrites
<1>4. CASE SendErrnoLost \/ SendFails \/ RecvEnds \/ RecvFails
  BY <1>4, CloseArms, Zenon
     DEF SendErrnoLost, SendFails, RecvEnds, RecvFails, reactor_close_connection
<1>5. CASE WritesDone
  BY <1>5, Zenon DEF Armed, WritesDone, vr_reactor_modify, AfterWrites
<1>6. ASSUME NEW avail \in Grants, GrowReadBuffer(avail) PROVE Armed'
  BY <1>6, Zenon DEF Armed, GrowReadBuffer
<1>7. CASE RecvSome \/ RecvWouldBlock
  BY <1>7, Zenon DEF Armed, RecvSome, RecvWouldBlock
<1>8. CASE ParseNothing
  BY <1>8, PacketsDoneArms, Zenon DEF ParseNothing
<1>9. ASSUME NEW mem \in Mem, ParseFails(mem) \/ HandlerCrashes(mem)
      PROVE  Armed'
  BY <1>9, CloseArms, Zenon DEF ParseFails, HandlerCrashes, reactor_close_connection
<1>10. ASSUME NEW mem \in Mem, NEW staged \in Mem, NEW avail \in Grants,
              HandlePacket(mem, avail, staged)
       PROVE  Armed'
  <2> DEFINE r == vr_protocol_handle_packet(proto,
                    vr_parser_poll(parser, rbuf.q, mem).pkt)
             e == enqueue(wbuf, ResponseUnits(r.response), avail, staged)
  <2>1. /\ pc = "packets" /\ UNCHANGED <<tx, peer>>
        /\ \/ UNCHANGED <<pc, interest>>
           \/ wbuf' = e.buf /\ PacketsDone(e.buf)
    BY <1>10, Zenon DEF HandlePacket
  <2> HIDE DEF e, r
  <2> QED BY <2>1, PacketsDoneArms, Zenon DEF Armed
<1> QED
  BY <1>1, <1>2, <1>3, <1>4, <1>5, <1>6, <1>7, <1>8, <1>9, <1>10, Zenon DEF Server

\* The steps of the client.
LEMMA ClientArms ==
  ASSUME Armed, Client
  PROVE  Armed'
<1>1. CASE ClientSend
  BY <1>1, Zenon DEF Armed, ClientSend, Wake, Writable, connVars
<1>2. CASE ClientReceive
  BY <1>2, Zenon DEF Armed, ClientReceive, Wake, Writable, connVars
<1>3. CASE ClientShutdown
  BY <1>3, Zenon DEF Armed, ClientShutdown, Wake, connVars
<1>4. CASE ClientReset
  BY <1>4, Zenon DEF Armed, ClientReset, Wake, connVars
<1> QED BY <1>1, <1>2, <1>3, <1>4, Zenon DEF Client

\* When the thread sleeps on a connection with unsent bytes, EPOLLOUT is
\* armed and the full socket will give the event: for all sizes of the
\* buffers and whatever allocation does.
THEOREM UnsentCorrect == Spec => []UnsentBytesAreArmed
<1>1. Init => Armed
  BY DEF Init, Armed, QueueZero
<1>2. Armed /\ [Next]_vars => Armed'
  <2>1. Armed /\ UNCHANGED vars => Armed'
    BY DEF Armed, vars, connVars, sockVars, Writable
  <2> QED BY <2>1, ServerArms, ClientArms, Zenon DEF Next
<1>3. Armed => UnsentBytesAreArmed
  BY Zenon DEF Armed, UnsentBytesAreArmed, Idle
<1> QED BY <1>1, <1>2, <1>3, PTL DEF Spec

-----------------------------------------------------------------------------
(* Responses *)

\* The queues of units that a ring may be.
Queues(S) == [capacity : 0 .. MaxSize, q : Seq(S)]

\* The inductive form of ResponsesIntact, over some set of units: what the
\* client has, what the kernel holds and a rest, which is the write ring's
\* contents while the connection is open, make up the responses.
Whole(S, rest) ==
  /\ got \in Seq(S) /\ tx \in Seq(S) /\ rest \in Seq(S)
  /\ wbuf \in Queues(S)
  /\ answers = (got \o tx) \o rest
  /\ open /\ peer # "rst" => rest = wbuf.q

Delivered == \E S, rest : Whole(S, rest)

USE DEF Queues

\* A response is a sequence of units, as long as vr_packet_header_t.
LEMMA ResponseIsUnits ==
  ASSUME NEW response
  PROVE  /\ \E T : ResponseUnits(response) \in Seq(T)
         /\ Len(ResponseUnits(response)) = HeaderSize
<1> DEFINE a == <<"A", response.type>>
           b == <<"B", response.stream_id, 0>>
           T == {a, b, <<"D">>, <<"-">>}
           D == [i \in 1 .. 0 |-> <<"D">>]
<1>1. <<a, b>> \in Seq(T) /\ Len(<<a, b>>) = 2
  OBVIOUS
<1>2. D \in Seq(T) /\ Len(D) = 0
  <2>1. D \in [1 .. 0 -> T]
    BY Zenon
  <2> QED BY <2>1, SequenceOf
<1>3. /\ Pad(HeaderSize - 2) \in Seq(T)
      /\ Len(Pad(HeaderSize - 2)) = HeaderSize - 2
  <2>1. HeaderSize - 2 \in Nat
    BY HeaderAssumption
  <2>2. Pad(HeaderSize - 2) \in [1 .. HeaderSize - 2 -> T]
    BY Zenon DEF Pad
  <2> QED BY <2>1, <2>2, SequenceOf
<1>4. ResponseUnits(response) = (<<a, b>> \o D) \o Pad(HeaderSize - 2)
  BY Zenon DEF ResponseUnits, vr_packet_serialize
<1> HIDE DEF T, D, a, b
<1>5. <<a, b>> \o D \in Seq(T) /\ Len(<<a, b>> \o D) = 2
  BY <1>1, <1>2, ConcatFacts
<1>6. /\ ResponseUnits(response) \in Seq(T)
      /\ Len(ResponseUnits(response)) = HeaderSize
  BY <1>3, <1>4, <1>5, ConcatFacts, HeaderAssumption
<1> QED BY <1>6, Zenon

\* A step that moves no units.
LEMMA NothingMoves ==
  ASSUME Delivered, UNCHANGED <<got, tx, answers>>,
         \/ UNCHANGED <<peer, open, wbuf>>
         \/ wbuf' = QueueZero /\ ~open'
         \/ UNCHANGED <<wbuf, open>> /\ peer' = "fin" /\ peer # "rst"
  PROVE  Delivered'
<1>1. PICK S, rest : Whole(S, rest)
  BY Zenon DEF Delivered
<1>2. QueueZero \in Queues(S)
  BY EmptyFacts, ConnectionAssumption DEF QueueZero
<1>3. wbuf' \in Queues(S)
  BY <1>1, <1>2, Zenon DEF Whole
<1>4. open' /\ peer' # "rst" => rest = wbuf'.q
  BY <1>1, Zenon DEF Whole
<1>5. Whole(S, rest)'
  BY <1>1, <1>3, <1>4, Zenon DEF Whole
<1> QED BY <1>5, Zenon DEF Delivered

\* send() moves the front of the write ring to the kernel.
LEMMA SendDelivers ==
  ASSUME Delivered, NEW n \in 1 .. SndBuf, SendSome(n), open
  PROVE  Delivered'
<1>1. PICK S, rest : Whole(S, rest)
  BY Zenon DEF Delivered
<1>2. PICK w, front, back : /\ w = wbuf.q /\ front = SubSeq(w, 1, n)
                            /\ back = SubSeq(w, n + 1, Len(w))
  BY Zenon
<1>3. n \in Nat /\ n <= Len(w) /\ w \in Seq(S)
  BY <1>1, <1>2, ConnectionAssumption DEF SendSome, Whole
<1>4. front \in Seq(S) /\ back \in Seq(S) /\ w = front \o back
  BY <1>2, <1>3
<1>5. /\ wbuf' = [wbuf EXCEPT !.q = back] /\ tx' = tx \o front
      /\ UNCHANGED <<got, answers, peer, open>>
  BY <1>2, Zenon DEF SendSome, Drop, clientVars, history
<1>6. /\ wbuf' \in Queues(S)
      /\ wbuf'.q = back
  BY <1>1, <1>4, <1>5, Zenon DEF Whole
<1>7. /\ got \in Seq(S) /\ tx \in Seq(S)
      /\ answers = (got \o tx) \o (front \o back)
  BY <1>1, <1>2, <1>4, Zenon DEF Whole, SendSome
<1>8. tx \o front \in Seq(S)
  BY <1>4, <1>7
<1>9. answers = (got \o (tx \o front)) \o back
  <2>1. /\ got \in Seq(S) /\ tx \in Seq(S)
        /\ front \in Seq(S) /\ back \in Seq(S)
    BY <1>4, <1>7, Zenon
  <2>2. PICK sent : sent = got \o tx
    BY Zenon
  <2>3. sent \in Seq(S)
    BY <2>1, <2>2
  <2>4. Associates(sent, front, back) /\ Associates(got, tx, front)
    BY <2>1, <2>3, Associative, Zenon
  <2>5. /\ sent \o (front \o back) = (sent \o front) \o back
        /\ (got \o tx) \o front = got \o (tx \o front)
    BY <2>4, Zenon DEF Associates
  <2> QED BY <1>7, <2>2, <2>5, Zenon
<1>10. Whole(S, back)'
  BY <1>4, <1>5, <1>6, <1>7, <1>8, <1>9, Zenon DEF Whole
<1> QED BY <1>10, Zenon DEF Delivered

\* The client takes the oldest unit from the kernel.
LEMMA ReceiveDelivers ==
  ASSUME Delivered, ClientReceive
  PROVE  Delivered'
<1>1. PICK S, rest : Whole(S, rest)
  BY Zenon DEF Delivered
<1>2. PICK h, t : h = <<Head(tx)>> /\ t = Tail(tx)
  BY Zenon
<1>3. /\ tx # << >> /\ tx \in Seq(S) /\ got \in Seq(S) /\ rest \in Seq(S)
      /\ answers = (got \o tx) \o rest
  BY <1>1, Zenon DEF Whole, ClientReceive
<1>4. h \in Seq(S) /\ t \in Seq(S) /\ tx = h \o t
  BY <1>2, <1>3
<1>5. /\ got' = got \o h /\ tx' = t
      /\ UNCHANGED <<wbuf, answers, peer, open>>
  <2>1. got' = Append(got, Head(tx)) /\ Head(tx) \in S
    BY <1>3 DEF ClientReceive
  <2> QED BY <2>1, <1>2, <1>3 DEF ClientReceive, connVars, history
<1>6. got \o (h \o t) = (got \o h) \o t
  <2>1. Associates(got, h, t)
    BY <1>3, <1>4, Associative, Zenon
  <2> QED BY <2>1, Zenon DEF Associates
<1>7. got \o h \in Seq(S)
  BY <1>3, <1>4
<1>8. answers' = (got' \o tx') \o rest
  BY <1>3, <1>4, <1>5, <1>6, Zenon
<1>9. Whole(S, rest)'
  BY <1>1, <1>4, <1>5, <1>7, <1>8, Zenon DEF Whole
<1> QED BY <1>9, Zenon DEF Delivered

\* A reset takes what the kernel holds; it joins the rest.
LEMMA ResetDelivers ==
  ASSUME Delivered, ClientReset
  PROVE  Delivered'
<1>1. PICK S, rest : Whole(S, rest)
  BY Zenon DEF Delivered
<1>2. PICK r : r = tx \o rest
  BY Zenon
<1>3. /\ tx \in Seq(S) /\ got \in Seq(S) /\ rest \in Seq(S)
      /\ answers = (got \o tx) \o rest
  BY <1>1, Zenon DEF Whole
<1>4. /\ tx' = << >> /\ peer' = "rst"
      /\ UNCHANGED <<got, wbuf, answers, open>>
  BY Zenon DEF ClientReset, clientVars, connVars, history
<1>5. r \in Seq(S) /\ << >> \in Seq(S)
  BY <1>2, <1>3
<1>6. (got \o tx) \o rest = (got \o << >>) \o r
  <2>1. Associates(got, tx, rest)
    BY <1>3, Associative, Zenon
  <2>2. got \o << >> = got
    BY <1>3
  <2> QED BY <1>2, <2>1, <2>2, Zenon DEF Associates
<1>7. answers' = (got' \o tx') \o r
  BY <1>3, <1>4, <1>6, Zenon
<1>8. Whole(S, r)'
  BY <1>1, <1>4, <1>5, <1>7, Zenon DEF Whole
<1> QED BY <1>8, Zenon DEF Delivered

\* Growing ends at the largest capacity.
LEMMA LargestCapacity == MaxSize \in Ring!Capacities
<1> SUFFICES ASSUME NEW S \in SUBSET (InitialSize .. MaxSize),
                    Ring!ClosedUnderGrow(S)
             PROVE  MaxSize \in S
  BY ConnectionAssumption DEF Ring!Capacities
<1>1. S \in SUBSET (0 .. MaxSize) /\ S # {} /\ MaxSize \in Nat
  BY ConnectionAssumption DEF Ring!ClosedUnderGrow
<1>2. PICK c \in S : \A d \in S : d <= c
  BY <1>1, GreatestElement, Zenon
<1>3. c \in Nat /\ c # 0 /\ MaxSize \in Nat
  BY <1>2, ConnectionAssumption
<1>4. PICK g : g = Ring!GrownCapacity(c)
  BY Zenon
<1>5. g \in S /\ g <= c
  BY <1>2, <1>4, Zenon DEF Ring!ClosedUnderGrow
<1>6. g = MaxSize
  <2>1. g = IF c * 2 > MaxSize THEN MaxSize ELSE c * 2
    BY <1>4, Zenon DEF Ring!GrownCapacity
  <2>2. c * 2 \in Nat /\ c < c * 2
    BY <1>3, DoubleGrows, Zenon
  <2> QED BY <1>3, <1>5, <2>1, <2>2
<1> QED BY <1>5, <1>6, Zenon

\* What malloc() may grant.
Amount == 0 .. MaxSize

\* A ring r that was asked for n free units: the contents are those of b, and
\* there is room or the maximum was reached unless malloc() failed.
Extends(S, b, n, avail, r) ==
  /\ r \in Queues(S) /\ r.q = b.q
  /\ avail = MaxSize => r.capacity = MaxSize \/ r.capacity - Len(b.q) >= n

\* reserve() does that.
LEMMA ReservedFits ==
  ASSUME NEW S, NEW b \in Queues(S), NEW n \in Nat,
         NEW avail \in Amount
  PROVE  Extends(S, b, n, avail, reserved(b, n, avail))
<1> DEFINE c == IF b.capacity # 0 THEN b.capacity
                ELSE IF InitialSize <= avail THEN InitialSize ELSE 0
           v == [capacity |-> c, count |-> Len(b.q)]
           T == Ring!ReserveStops(v, n, avail)
           r == Ring!ReserveCapacity(v, n, avail)
<1>0. avail \in 0 .. MaxSize
  BY Zenon DEF Amount
<1>1. c \in 0 .. MaxSize /\ (avail = MaxSize => c # 0)
  BY <1>0, ConnectionAssumption
<1>2. reserved(b, n, avail) = [b EXCEPT !.capacity = IF c = 0 THEN 0 ELSE r]
  BY Zenon DEF reserved
<1>3. T \in SUBSET Nat /\ MaxSize \in T /\ T \subseteq 0 .. MaxSize
  BY <1>0, <1>1, ConnectionAssumption, LargestCapacity
     DEF Ring!ReserveStops, Ring!Capacities
<1>4. \E x \in T : \A y \in T : x <= y
  BY <1>3, LeastElement, Zenon
<1>5. r \in T
  BY <1>4, Zenon DEF Ring!ReserveCapacity
<1>6. r = MaxSize \/ r - Len(b.q) >= n \/ Ring!GrownCapacity(r) > avail
  BY <1>5, Zenon DEF Ring!ReserveStops
<1>7. Ring!GrownCapacity(r) <= MaxSize
  BY <1>3, <1>5, ConnectionAssumption DEF Ring!GrownCapacity
<1>8. r \in 0 .. MaxSize
  BY <1>3, <1>5, Zenon
<1>9. avail = MaxSize => r = MaxSize \/ r - Len(b.q) >= n
  BY <1>0, <1>6, <1>7, <1>8, ConnectionAssumption DEF Ring!GrownCapacity
<1> HIDE DEF c, r
<1> QED BY <1>1, <1>2, <1>8, <1>9, Zenon DEF Extends

\* A response is queued completely or not at all; if malloc() succeeds, only
\* for want of room.
AllOrNothing(S, b, units, avail, staged, e) ==
  /\ e.buf \in Queues(S)
  /\ e.queued => e.buf.q = b.q \o units
  /\ ~e.queued => e.buf.q = b.q
  /\ avail = MaxSize /\ staged = TRUE /\ ~e.queued
       => MaxSize - Len(b.q) < Len(units)

\* reactor_enqueue_response() does that.
LEMMA EnqueueAll ==
  ASSUME NEW S, NEW b \in Queues(S),
         NEW units \in Seq(S), NEW avail \in Amount, NEW staged
  PROVE  AllOrNothing(S, b, units, avail, staged,
                      enqueue(b, units, avail, staged))
<1>0. PICK e : e = enqueue(b, units, avail, staged)
  BY Zenon
<1>1. PICK n \in Nat : n = Len(units)
  OBVIOUS
<1> DEFINE r == reserved(b, n, avail)
           fits == r.capacity - Len(r.q) >= n
<1>2. /\ r \in Queues(S) /\ r.q = b.q
      /\ avail = MaxSize => r.capacity = MaxSize \/ r.capacity - Len(b.q) >= n
  <2>1. Extends(S, b, n, avail, r)
    BY ReservedFits, Zenon
  <2> QED BY <2>1, Zenon DEF Extends
<1>3. /\ e.queued = (fits /\ staged)
      /\ e.buf = IF fits /\ staged THEN [r EXCEPT !.q = @ \o units] ELSE r
  BY <1>0, <1>1, Zenon DEF enqueue
<1> HIDE DEF r
<1>4. b.q \o units \in Seq(S)
  OBVIOUS
<1>5. e.buf \in Queues(S)
  BY <1>2, <1>3, <1>4, Zenon
<1>6. (e.queued => e.buf.q = b.q \o units) /\ (~e.queued => e.buf.q = b.q)
  BY <1>2, <1>3, Zenon
<1>7. avail = MaxSize /\ staged = TRUE /\ ~e.queued
        => MaxSize - Len(b.q) < Len(units)
  <2>1. staged = TRUE /\ ~e.queued => ~fits
    BY <1>3, Zenon
  <2>2. avail = MaxSize /\ ~fits => MaxSize - Len(b.q) < Len(units)
    BY <1>1, <1>2, ConnectionAssumption
  <2> QED BY <2>1, <2>2, Zenon
<1> QED BY <1>0, <1>5, <1>6, <1>7, Zenon DEF AllOrNothing

\* Units of a larger set.
LEMMA Widen ==
  ASSUME NEW S, NEW T, NEW rest, Whole(S, rest)
  PROVE  Whole(S \cup T, rest)
<1>1. Seq(S) \subseteq Seq(S \cup T)
  BY SeqWidens, Zenon
<1> QED BY <1>1, Zenon DEF Whole

HIDE DEF Queues

\* A packet is handled: its response, if it is queued, comes last.
LEMMA HandleDelivers ==
  ASSUME Delivered, NEW mem, NEW staged, NEW avail \in Amount,
         HandlePacket(mem, avail, staged)
  PROVE  Delivered'
<1>1. PICK r : r = vr_protocol_handle_packet(proto,
                     vr_parser_poll(parser, rbuf.q, mem).pkt)
  BY Zenon
<1>2. PICK u : u = ResponseUnits(r.response)
  BY Zenon
<1>3. PICK e : e = enqueue(wbuf, u, avail, staged)
  BY Zenon
<1>4. PICK S0, rest : Whole(S0, rest)
  BY Zenon DEF Delivered
<1>5. PICK T : u \in Seq(T)
  BY <1>2, ResponseIsUnits, Zenon
<1>6. PICK S : S = S0 \cup T
  BY Zenon
<1>7. Whole(S, rest)
  BY <1>4, <1>6, Widen, Zenon
<1>8. u \in Seq(S)
  BY <1>5, <1>6, SeqWidens, Zenon
<1>9. wbuf \in Queues(S)
  BY <1>7, Zenon DEF Whole
<1>10. /\ e.buf \in Queues(S)
       /\ e.queued => e.buf.q = wbuf.q \o u
       /\ ~e.queued => e.buf.q = wbuf.q
  <2>1. AllOrNothing(S, wbuf, u, avail, staged, e)
    BY <1>3, <1>8, <1>9, EnqueueAll, Zenon
  <2> QED BY <2>1, Zenon DEF AllOrNothing
<1>11. /\ UNCHANGED <<got, tx, peer, open>>
       /\ \/ UNCHANGED <<wbuf, answers>>
          \/ wbuf' = e.buf /\ e.queued /\ answers' = answers \o u
          \/ wbuf' = e.buf /\ ~e.queued /\ answers' = answers
  BY <1>1, <1>2, <1>3, Zenon DEF HandlePacket, clientVars
<1>12. CASE UNCHANGED <<wbuf, answers>>
  BY <1>11, <1>12, NothingMoves, Zenon
<1>13. CASE wbuf' = e.buf /\ ~e.queued /\ answers' = answers
  <2>1. Whole(S, rest)'
    BY <1>7, <1>10, <1>11, <1>13, Zenon DEF Whole
  <2> QED BY <2>1, Zenon DEF Delivered
<1>14. CASE wbuf' = e.buf /\ e.queued /\ answers' = answers \o u
  <2>1. PICK all : all = rest \o u
    BY Zenon
  <2>2. PICK sent : sent = got \o tx
    BY Zenon
  <2>3. got \in Seq(S) /\ tx \in Seq(S) /\ rest \in Seq(S)
    BY <1>7, Zenon DEF Whole
  <2>4. sent \in Seq(S) /\ all \in Seq(S)
    BY <1>8, <2>1, <2>2, <2>3
  <2>5. (sent \o rest) \o u = sent \o all
    <3>1. Associates(sent, rest, u)
      BY <1>8, <2>3, <2>4, Associative, Zenon
    <3> QED BY <2>1, <3>1, Zenon DEF Associates
  <2>6. answers' = (got' \o tx') \o all
    BY <1>7, <1>11, <1>14, <2>2, <2>5, Zenon DEF Whole
  <2>7. open' /\ peer' # "rst" => all = wbuf'.q
    BY <1>7, <1>10, <1>11, <1>14, <2>1, Zenon DEF Whole
  <2>8. Whole(S, all)'
    BY <1>10, <1>11, <1>14, <2>3, <2>4, <2>6, <2>7, Zenon DEF Whole
  <2> QED BY <2>8, Zenon DEF Delivered
<1> QED BY <1>11, <1>12, <1>13, <1>14, Zenon

\* The thread is in reactor_drain_writes() only while the connection exists.
Serving == pc = "writes" => open

\* The steps of the server's loops.
LEMMA ServerDelivers ==
  ASSUME Delivered, Serving, Server
  PROVE  Delivered' /\ Serving'
<1>1. CASE vr_reactor_wait
  <2>1. open /\ UNCHANGED <<got, tx, answers, peer, open, wbuf>>
    BY <1>1, Zenon DEF vr_reactor_wait, clientVars, connVars, history
  <2> QED BY <2>1, NothingMoves, Zenon DEF Serving
<1>2. ASSUME NEW n \in 1 .. SndBuf, SendSome(n) PROVE Delivered' /\ Serving'
  <2>1. open /\ UNCHANGED open
    BY <1>2, Zenon DEF Serving, SendSome
  <2> QED BY <1>2, <2>1, SendDelivers, Zenon DEF Serving
<1>3. CASE SendWouldBlock \/ WritesDone \/ RecvSome \/ RecvWouldBlock
  <2>1. /\ UNCHANGED <<got, tx, answers, peer, open, wbuf>>
        /\ pc' \in {pc, "reads", "packets"}
    BY <1>3, Zenon DEF SendWouldBlock, WritesDone, RecvSome, RecvWouldBlock,
                AfterWrites, clientVars, sockVars, connVars, history
  <2> QED BY <2>1, NothingMoves, Zenon DEF Serving
<1>4. ASSUME ConnectionGone, UNCHANGED history, pc' \in {"wait", "crashed"}
      PROVE  Delivered' /\ Serving'
  <2>1. UNCHANGED <<got, tx, answers>> /\ wbuf' = QueueZero /\ ~open'
    BY <1>4, Zenon DEF ConnectionGone, clientVars, sockVars, history
  <2> QED BY <1>4, <2>1, NothingMoves, Zenon DEF Serving
<1>5. CASE SendErrnoLost \/ SendFails \/ RecvEnds \/ RecvFails
  BY <1>4, <1>5, Zenon
     DEF SendErrnoLost, SendFails, RecvEnds, RecvFails, reactor_close_connection
<1>6. ASSUME NEW avail \in Grants, GrowReadBuffer(avail)
      PROVE  Delivered' /\ Serving'
  <2>1. /\ UNCHANGED <<got, tx, answers, peer, open, wbuf>>
        /\ pc' \in {pc, "packets"}
    BY <1>6, Zenon DEF GrowReadBuffer, clientVars, sockVars, history
  <2> QED BY <2>1, NothingMoves, Zenon DEF Serving
<1>7. CASE ParseNothing
  <2>1. /\ UNCHANGED <<got, tx, answers, peer, open, wbuf>>
        /\ pc' = "wait"
    BY <1>7, Zenon DEF ParseNothing, PacketsDone, clientVars, history
  <2> QED BY <2>1, NothingMoves, Zenon DEF Serving
<1>8. ASSUME NEW mem \in Mem, ParseFails(mem) \/ HandlerCrashes(mem)
      PROVE  Delivered' /\ Serving'
  BY <1>4, <1>8, Zenon DEF ParseFails, HandlerCrashes, reactor_close_connection
<1>9. ASSUME NEW mem \in Mem, NEW staged \in Mem, NEW avail \in Grants,
             HandlePacket(mem, avail, staged)
      PROVE  Delivered' /\ Serving'
  <2>1. pc' \in {"packets", "wait"}
    BY <1>9, Zenon DEF HandlePacket, PacketsDone
  <2>2. avail \in Amount
    BY ConnectionAssumption DEF Grants, Amount
  <2> QED BY <1>9, <2>1, <2>2, HandleDelivers, Zenon DEF Serving
<1> QED BY <1>1, <1>2, <1>3, <1>5, <1>6, <1>7, <1>8, <1>9, Zenon DEF Server

\* The steps of the client.
LEMMA ClientDelivers ==
  ASSUME Delivered, Serving, Client
  PROVE  Delivered' /\ Serving'
<1>1. UNCHANGED <<pc, open>>
  BY Zenon DEF Client, ClientSend, ClientReceive, ClientShutdown, ClientReset
<1>2. CASE ClientSend
  <2>1. UNCHANGED <<got, tx, answers, peer, open, wbuf>>
    BY <1>2, Zenon DEF ClientSend, connVars, history
  <2> QED BY <1>1, <2>1, NothingMoves DEF Serving
<1>3. CASE ClientShutdown
  <2>1. /\ UNCHANGED <<got, tx, answers, open, wbuf>>
        /\ peer' = "fin" /\ peer # "rst"
    BY <1>3, Zenon DEF ClientShutdown, clientVars, connVars, history
  <2> QED BY <1>1, <2>1, NothingMoves DEF Serving
<1> QED
  BY <1>1, <1>2, <1>3, ReceiveDelivers, ResetDelivers, Zenon DEF Client, Serving

\* The inductive form is an invariant.
LEMMA DeliveredAlways == Spec => [](Delivered /\ Serving)
<1>1. Init => Delivered /\ Serving
  <2> SUFFICES ASSUME Init PROVE Delivered /\ Serving
    BY Zenon
  <2>1. QueueZero \in Queues({})
    BY ConnectionAssumption DEF QueueZero, Queues
  <2>2. Whole({}, << >>)
    BY <2>1 DEF Init, Whole, QueueZero
  <2> QED BY <2>2, Zenon DEF Delivered, Init, Serving
<1>2. Delivered /\ Serving /\ [Next]_vars => Delivered' /\ Serving'
  <2>1. ASSUME Delivered, Serving, UNCHANGED vars PROVE Delivered' /\ Serving'
    <3>1. UNCHANGED <<got, tx, answers, peer, open, wbuf, pc>>
      BY <2>1, Zenon DEF vars, clientVars, sockVars, connVars, history
    <3> QED BY <2>1, <3>1, NothingMoves, Zenon DEF Serving
  <2> QED BY <2>1, ServerDelivers, ClientDelivers, Zenon DEF Next
<1> QED BY <1>1, <1>2, PTL DEF Spec

\* A sequence begins every sequence that continues it.
LEMMA Continues ==
  ASSUME NEW S, NEW a \in Seq(S), NEW b \in Seq(S)
  PROVE  Begins(a, a \o b)
BY DEF Begins

\* What the client has received, the kernel holds and the write ring holds
\* are the responses, in order and complete, and whatever ends a connection
\* leaves the client a prefix of them: for every client, every size of the
\* rings and of the socket's buffers, and every outcome of allocation.
THEOREM ResponsesCorrect == Spec => []ResponsesIntact
<1>1. Delivered => ResponsesIntact
  <2> SUFFICES ASSUME Delivered PROVE ResponsesIntact
    BY Zenon
  <2>1. PICK S, rest : Whole(S, rest)
    BY Zenon DEF Delivered
  <2>2. PICK sent : sent = got \o tx
    BY Zenon
  <2>3. /\ got \in Seq(S) /\ tx \in Seq(S) /\ rest \in Seq(S)
        /\ answers = sent \o rest
    BY <2>1, <2>2, Zenon DEF Whole
  <2>4. sent \in Seq(S) /\ tx \o rest \in Seq(S)
    BY <2>2, <2>3
  <2>5. sent \o rest = got \o (tx \o rest)
    <3>1. Associates(got, tx, rest)
      BY <2>3, Associative, Zenon
    <3> QED BY <2>2, <3>1, Zenon DEF Associates
  <2>6. Begins(sent, answers) /\ Begins(got, answers)
    BY <2>3, <2>4, <2>5, Continues, Zenon
  <2>7. peer # "rst" /\ open => got \o tx \o wbuf.q = answers
    BY <2>1, <2>2, <2>3, Zenon DEF Whole
  <2> QED BY <2>2, <2>6, <2>7, Zenon DEF ResponsesIntact
<1> QED BY <1>1, DeliveredAlways, PTL

-----------------------------------------------------------------------------
(* Lost responses and deferred packets *)

\* A response that is dropped found the write ring full.
LEMMA LostFull ==
  ASSUME Delivered, reliable, NEW mem \in Mem, NEW staged \in Mem,
         NEW avail \in Grants, HandlePacket(mem, avail, staged)
  PROVE  \/ UNCHANGED <<lost, pc>>
         \/ wbuf'.q = wbuf.q /\ MaxSize - Len(wbuf.q) < HeaderSize
<1>1. PICK r : r = vr_protocol_handle_packet(proto,
                     vr_parser_poll(parser, rbuf.q, mem).pkt)
  BY Zenon
<1>2. PICK u : u = ResponseUnits(r.response)
  BY Zenon
<1>3. PICK e : e = enqueue(wbuf, u, avail, staged)
  BY Zenon
<1>4. PICK S0, rest : Whole(S0, rest)
  BY Zenon DEF Delivered
<1>5. PICK T : u \in Seq(T)
  BY <1>2, ResponseIsUnits, Zenon
<1>6. PICK S : S = S0 \cup T
  BY Zenon
<1>7. wbuf \in Queues(S)
  BY <1>4, <1>6, Widen, Zenon DEF Whole
<1>8. u \in Seq(S) /\ Len(u) = HeaderSize
  BY <1>2, <1>5, <1>6, SeqWidens, ResponseIsUnits, Zenon
<1>9. avail = MaxSize /\ staged = TRUE /\ avail \in Amount
  BY ConnectionAssumption DEF Mem, Grants, Amount
<1>10. AllOrNothing(S, wbuf, u, avail, staged, e)
  BY <1>3, <1>7, <1>8, <1>9, EnqueueAll, Zenon
<1>11. UNCHANGED <<lost, pc>> \/ (wbuf' = e.buf /\ ~e.queued)
  BY <1>1, <1>2, <1>3, Zenon DEF HandlePacket
<1> QED BY <1>8, <1>9, <1>10, <1>11, Zenon DEF AllOrNothing

\* Where malloc() does not fail, a response is dropped only when the write
\* ring is at its maximum with no room for it: for all sizes.
THEOREM LostCorrect == Spec => LostOnlyWhenFull
<1>1. Delivered /\ [Next]_vars =>
        (lost' # lost => ~reliable \/ MaxSize - Len(wbuf.q) < HeaderSize)
  <2> SUFFICES ASSUME Delivered, Next, lost' # lost, reliable
               PROVE  MaxSize - Len(wbuf.q) < HeaderSize
    BY Zenon DEF vars, history
  <2>1. \E mem, staged \in Mem, avail \in Grants : HandlePacket(mem, avail, staged)
    BY Zenon DEF Next, Server, Client, ClientSend, ClientReceive, ClientShutdown,
       ClientReset, vr_reactor_wait, SendSome, SendWouldBlock, SendErrnoLost,
       SendFails, WritesDone, GrowReadBuffer, RecvSome, RecvWouldBlock,
       RecvEnds, RecvFails, ParseNothing, ParseFails, HandlerCrashes, history
  <2> QED BY <2>1, LostFull, Zenon
<1> QED BY <1>1, DeliveredAlways, PTL DEF Spec, LostOnlyWhenFull

\* The inductive form of DeferredPacketsResume.
Deferred ==
  /\ DOMAIN rbuf = {"capacity", "q"}
  /\ reliable /\ pc = "wait" /\ open
       /\ vr_parser_poll(parser, rbuf.q, TRUE).result # "EMPTY" => wbuf.q # << >>

\* The parser finds nothing more when it has just found nothing.
LEMMA PollAgain ==
  ASSUME NEW p, NEW q, NEW r, r = vr_parser_poll(p, q, TRUE),
         r.result = "EMPTY"
  PROVE  vr_parser_poll(r.parser, r.q, TRUE).result = "EMPTY"
BY Zenon DEF vr_parser_poll, PollPayload, Polled, ParserZero

\* The steps of the server's loops.
LEMMA ServerDefers ==
  ASSUME HeaderSize <= MaxSize, Delivered, Deferred, Server
  PROVE  Deferred'
<1>0. UNCHANGED reliable
  BY Zenon DEF Server, vr_reactor_wait, SendSome, SendWouldBlock, SendErrnoLost,
     SendFails, WritesDone, GrowReadBuffer, RecvSome, RecvWouldBlock, RecvEnds,
     RecvFails, ParseNothing, ParseFails, HandlePacket, HandlerCrashes,
     reactor_close_connection, ConnectionGone, clientVars
<1>1. CASE vr_reactor_wait
  BY <1>0, <1>1, Zenon DEF Deferred, vr_reactor_wait, connVars
<1>2. ASSUME ConnectionGone PROVE Deferred'
  BY <1>2, Zenon DEF Deferred, ConnectionGone, QueueZero
<1>3. CASE SendErrnoLost \/ SendFails \/ RecvEnds \/ RecvFails
  BY <1>2, <1>3, Zenon
     DEF SendErrnoLost, SendFails, RecvEnds, RecvFails, reactor_close_connection
<1>4. ASSUME NEW mem \in Mem, ParseFails(mem) \/ HandlerCrashes(mem)
      PROVE  Deferred'
  BY <1>2, <1>4, Zenon DEF ParseFails, HandlerCrashes, reactor_close_connection
<1>5. ASSUME NEW n \in 1 .. SndBuf, SendSome(n) PROVE Deferred'
  BY <1>5, Zenon DEF Deferred, SendSome
<1>6. CASE SendWouldBlock \/ WritesDone \/ RecvWouldBlock
  <2>1. pc' # "wait" /\ UNCHANGED rbuf
    BY <1>6, Zenon DEF SendWouldBlock, WritesDone, RecvWouldBlock, AfterWrites, connVars
  <2> QED BY <2>1, Zenon DEF Deferred
<1>7. CASE RecvSome
  <2>1. pc' # "wait" /\ DOMAIN rbuf' = DOMAIN rbuf
    BY <1>7, Zenon DEF RecvSome
  <2> QED BY <2>1, Zenon DEF Deferred
<1>8. ASSUME NEW avail \in Grants, GrowReadBuffer(avail) PROVE Deferred'
  <2>1. pc' # "wait" /\ DOMAIN rbuf' = DOMAIN rbuf
    BY <1>8, Zenon DEF GrowReadBuffer
  <2> QED BY <2>1, Zenon DEF Deferred
<1>9. CASE ParseNothing
  <2>1. PICK p : p = vr_parser_poll(parser, rbuf.q, TRUE)
    BY Zenon
  <2>2. /\ p.result = "EMPTY" /\ parser' = p.parser
        /\ rbuf' = [rbuf EXCEPT !.q = p.q]
    BY <1>9, <2>1, Zenon DEF ParseNothing
  <2>3. rbuf'.q = p.q /\ DOMAIN rbuf' = DOMAIN rbuf
    BY <2>2, Zenon DEF Deferred
  <2>4. vr_parser_poll(p.parser, p.q, TRUE).result = "EMPTY"
    BY <2>1, <2>2, PollAgain, Zenon
  <2> QED BY <2>2, <2>3, <2>4, Zenon DEF Deferred
<1>10. ASSUME NEW mem \in Mem, NEW staged \in Mem, NEW avail \in Grants,
              HandlePacket(mem, avail, staged)
       PROVE  Deferred'
  <2>1. pc = "packets" /\ DOMAIN rbuf' = DOMAIN rbuf
    BY <1>10, Zenon DEF HandlePacket
  <2>2. \/ ~reliable' \/ UNCHANGED pc
        \/ wbuf'.q = wbuf.q /\ MaxSize - Len(wbuf.q) < HeaderSize
    BY <1>0, <1>10, LostFull, Zenon
  <2>3. MaxSize - Len(wbuf.q) < HeaderSize => wbuf.q # << >>
    BY ConnectionAssumption, HeaderAssumption
  <2> QED BY <2>1, <2>2, <2>3, Zenon DEF Deferred
<1> QED
  BY <1>1, <1>3, <1>4, <1>5, <1>6, <1>7, <1>8, <1>9, <1>10, Zenon DEF Server

\* Where malloc() does not fail and the write ring can hold a response, a
\* complete packet is left unhandled only while there are unsent bytes,
\* whose EPOLLOUT brings the parser back to it.
THEOREM DeferredCorrect ==
  ASSUME HeaderSize <= MaxSize
  PROVE  Spec => []DeferredPacketsResume
<1>1. Init => Deferred
  <2> SUFFICES ASSUME Init PROVE Deferred
    BY Zenon
  <2>1. vr_parser_poll(ParserZero, << >>, TRUE).result = "EMPTY"
    <3>1. ParserZero.state # "PAYLOAD_WAIT" /\ Len(<< >>) < HeaderSize
      BY HeaderAssumption DEF ParserZero
    <3>2. vr_parser_poll(ParserZero, << >>, TRUE)
            = Polled("EMPTY", ParserZero, << >>, NoHeader)
      BY <3>1, Zenon DEF vr_parser_poll
    <3>3. Polled("EMPTY", ParserZero, << >>, NoHeader).result = "EMPTY"
      BY Zenon DEF Polled
    <3> QED BY <3>2, <3>3, Zenon
  <2>2. parser = ParserZero /\ rbuf.q = << >> /\ DOMAIN rbuf = {"capacity", "q"}
    BY Zenon DEF Init, QueueZero
  <2> QED BY <2>1, <2>2, Zenon DEF Deferred
<1>2. Delivered /\ Deferred /\ [Next]_vars => Deferred'
  <2>1. UNCHANGED vars \/ Client => UNCHANGED <<reliable, pc, open, parser, rbuf, wbuf>>
    BY Zenon DEF vars, Client, ClientSend, ClientReceive, ClientShutdown, ClientReset,
           clientVars, connVars
  <2>2. Deferred /\ UNCHANGED <<reliable, pc, open, parser, rbuf, wbuf>> => Deferred'
    <3> SUFFICES ASSUME Deferred,
                        UNCHANGED <<reliable, pc, open, parser, rbuf, wbuf>>
                 PROVE  Deferred'
      BY Zenon
    <3>1. vr_parser_poll(parser', rbuf'.q, TRUE) = vr_parser_poll(parser, rbuf.q, TRUE)
      BY Zenon
    <3> QED BY <3>1, Zenon DEF Deferred
  <2> QED BY <2>1, <2>2, ServerDefers, Zenon DEF Next
<1>3. Deferred => DeferredPacketsResume
  BY Zenon DEF Deferred, DeferredPacketsResume, Idle
<1> QED BY <1>1, <1>2, <1>3, DeliveredAlways, PTL DEF Spec

-----------------------------------------------------------------------------
(* Closing *)

\* Where neither malloc() nor the log fails, a connection is closed only for
\* a client that left or reset, or a packet that is not valid.
THEOREM ClosedCorrect == Spec => ClosedForCause
<1> DEFINE Cause == \/ ~reliable \/ peer # "open"
                    \/ vr_parser_poll(parser, rbuf.q, TRUE).result = "ERROR"
<1>1. [Next]_vars => (open /\ ~open' => Cause)
  <2> SUFFICES ASSUME Next, open, ~open', reliable PROVE Cause
    BY Zenon DEF vars
  <2>1. Mem = {TRUE}
    BY Zenon DEF Mem
  <2>2. \/ SendFails \/ RecvEnds \/ RecvFails
        \/ \E mem \in Mem : ParseFails(mem)
    BY <2>1, Zenon
       DEF Next, Server, Client, ClientSend, ClientReceive, ClientShutdown,
       ClientReset, vr_reactor_wait, SendSome, SendWouldBlock, SendErrnoLost,
       WritesDone, GrowReadBuffer, RecvSome, RecvWouldBlock, ParseNothing,
       HandlePacket
  <2>3. SendFails \/ RecvEnds \/ RecvFails => peer # "open"
    BY Zenon DEF SendFails, RecvEnds, RecvFails
  <2>4. (\E mem \in Mem : ParseFails(mem))
          => vr_parser_poll(parser, rbuf.q, TRUE).result = "ERROR"
    BY <2>1, Zenon DEF ParseFails
  <2> QED BY <2>2, <2>3, <2>4, Zenon
<1> QED BY <1>1, PTL DEF Spec, ClosedForCause
-----------------------------------------------------------------------------
(* Concatenation *)

\* Concat gives the last value of its recursive function.
LEMMA ConcatUnrolled ==
  ASSUME NEW seqs, Len(seqs) \in Nat
  PROVE  \E g : Unrolled(seqs, Len(seqs), g) /\ Concat(seqs) = g[Len(seqs)]
<1> DEFINE g == CHOOSE g : Unrolled(seqs, Len(seqs), g)
<1>1. Unrolled(seqs, Len(seqs), g)
  BY UnrolledExists, Zenon
<1>2. Concat(seqs) = g[Len(seqs)]
  BY Zenon DEF Concat, Unrolled
<1> QED BY <1>1, <1>2, Zenon

-----------------------------------------------------------------------------
(* The units of packets *)

\* The units that the packets of a client are made of.
Unit == ({"A"} \X (PacketType \cup {"BAD"})) \cup ({"B"} \X StreamId \X Nat)
          \cup {<<"X">>, <<"D">>, <<"-">>}

\* What a unit that looks like the second one of a header holds.
LEMMA UnitFields ==
  ASSUME NEW u \in Unit, u[1] = "B"
  PROVE  u[3] \in Nat
BY DEF Unit

\* Units that nobody reads.
LEMMA PadUnits ==
  ASSUME NEW n \in Nat
  PROVE  Pad(n) \in Seq(Unit) /\ Len(Pad(n)) = n
<1>1. Pad(n) \in [1 .. n -> Unit]
  BY Zenon DEF Pad, Unit
<1> QED BY <1>1, SequenceOf, Zenon

\* Units followed by others.
Follows(a, b, c) ==
  /\ c \in Seq(Unit) /\ Len(c) = Len(a) + Len(b)
  /\ Len(a) >= 1 => c[1] = a[1]
  /\ Len(a) >= 2 => c[2] = a[2]

\* Concatenation puts them so.
LEMMA ConcatFollows ==
  ASSUME NEW a \in Seq(Unit), NEW b \in Seq(Unit)
  PROVE  Follows(a, b, a \o b)
<1>1. /\ a \o b \in Seq(Unit) /\ Len(a \o b) = Len(a) + Len(b)
      /\ \A i \in 1 .. Len(a) : (a \o b)[i] = a[i]
  BY ConcatFacts
<1>2. Len(a) \in Nat
  OBVIOUS
<1> QED BY <1>1, <1>2 DEF Follows

\* A packet on the wire: its header's two units first, its length the
\* header's and the payload's.
OnWire(pkt, u) ==
  /\ u \in Seq(Unit)
  /\ Len(u) = ClientHeader + (IF pkt.type = "BAD" THEN 0 ELSE pkt.payload_len)
  /\ pkt.type = "BAD" => u[1] = <<"X">>
  /\ pkt.type # "BAD" =>
       u[1] = <<"A", pkt.type>> /\ u[2] = <<"B", pkt.stream_id, pkt.payload_len>>

\* What a client sends is that.
LEMMA ClientUnitsOnWire ==
  ASSUME NEW pkt \in ClientPackets
  PROVE  OnWire(pkt, ClientUnits(pkt))
<1>0. ClientHeader \in Nat /\ ClientHeader >= 2
  BY ConnectionAssumption, HeaderAssumption
<1>1. CASE pkt.type = "BAD"
  <2>1. PICK x, p : x = <<<<"X">>>> /\ p = Pad(ClientHeader - 1)
    BY Zenon
  <2>2. x \in Seq(Unit) /\ Len(x) = 1 /\ x[1] = <<"X">>
    <3>1. <<"X">> \in Unit
      BY Zenon DEF Unit
    <3> QED BY <2>1, <3>1
  <2>3. p \in Seq(Unit) /\ Len(p) = ClientHeader - 1
    BY <1>0, <2>1, PadUnits
  <2>4. /\ x \o p \in Seq(Unit) /\ Len(x \o p) = ClientHeader
        /\ (x \o p)[1] = <<"X">>
    <3>1. Follows(x, p, x \o p)
      BY <2>2, <2>3, ConcatFollows, Zenon
    <3> QED BY <1>0, <2>2, <2>3, <3>1 DEF Follows
  <2>5. ClientUnits(pkt) = x \o p
    BY <1>1, <2>1, Zenon DEF ClientUnits
  <2> QED BY <1>0, <1>1, <2>4, <2>5 DEF OnWire
<1>2. CASE pkt.type # "BAD"
  <2>0. PICK n \in Nat : n = pkt.payload_len
    BY Zenon DEF ClientPackets
  <2>1. PICK a, b : a = <<"A", pkt.type>> /\ b = <<"B", pkt.stream_id, n>>
    BY Zenon
  <2>2. PICK h, d, p : /\ h = <<a, b>> /\ d = [i \in 1 .. n |-> <<"D">>]
                       /\ p = Pad(ClientHeader - 2)
    BY Zenon
  <2>3. a \in Unit /\ b \in Unit
    BY <2>0, <2>1, Zenon DEF ClientPackets, Unit
  <2>4. h \in Seq(Unit) /\ Len(h) = 2 /\ h[1] = a /\ h[2] = b
    BY <2>2, <2>3
  <2>5. d \in Seq(Unit) /\ Len(d) = n
    <3>1. d \in [1 .. n -> Unit]
      BY <2>2, Zenon DEF Unit
    <3> QED BY <3>1, SequenceOf, Zenon
  <2>6. PICK s : s = h \o d
    BY Zenon
  <2>7. /\ s \in Seq(Unit) /\ Len(s) = 2 + n /\ s[1] = a /\ s[2] = b
    <3>1. Follows(h, d, s)
      BY <2>4, <2>5, <2>6, ConcatFollows, Zenon
    <3> QED BY <2>4, <2>5, <3>1 DEF Follows
  <2>8. PICK f, e : f = SubSeq(s, 1, 2) /\ e = SubSeq(s, 3, Len(s))
    BY Zenon
  <2>9. /\ f \in Seq(Unit) /\ Len(f) = 2 /\ f[1] = a /\ f[2] = b
        /\ e \in Seq(Unit) /\ Len(e) = n
    BY <2>7, <2>8, SubSeqFacts
  <2>10. p \in Seq(Unit) /\ Len(p) = ClientHeader - 2
    BY <1>0, <2>2, PadUnits
  <2>11. PICK fp : fp = f \o p
    BY Zenon
  <2>12. /\ fp \in Seq(Unit) /\ Len(fp) = ClientHeader
         /\ fp[1] = a /\ fp[2] = b
    <3>1. Follows(f, p, fp)
      BY <2>9, <2>10, <2>11, ConcatFollows, Zenon
    <3> QED BY <1>0, <2>9, <2>10, <3>1 DEF Follows
  <2>13. /\ fp \o e \in Seq(Unit) /\ Len(fp \o e) = ClientHeader + n
         /\ (fp \o e)[1] = a /\ (fp \o e)[2] = b
    <3>1. Follows(fp, e, fp \o e)
      BY <2>9, <2>12, ConcatFollows, Zenon
    <3> QED BY <1>0, <2>9, <2>12, <3>1 DEF Follows
  <2>14. ClientUnits(pkt) = fp \o e
    <3>1. vr_packet_serialize(pkt) = s
      BY <2>0, <2>1, <2>2, <2>6, Zenon DEF vr_packet_serialize
    <3>2. Drop(s, 2) = e
      BY <2>8 DEF Drop
    <3> QED BY <1>2, <2>2, <2>8, <2>11, <3>1, <3>2, Zenon DEF ClientUnits
  <2> QED BY <1>2, <2>0, <2>1, <2>13, <2>14, Zenon DEF OnWire
<1> QED BY <1>1, <1>2, Zenon

\* The units of the first n packets of a script.
Sent(sc, n) == Units(SubSeq(sc, 1, n))

\* They are put together packet by packet.
LEMMA SentUnrolled ==
  ASSUME NEW sc \in Seq(ClientPackets), NEW n \in 0 .. Len(sc)
  PROVE  \E g : /\ Unrolled([i \in 1 .. n |-> ClientUnits(sc[i])], n, g)
               /\ Sent(sc, n) = g[n]
<1>1. PICK w : w = [i \in 1 .. n |-> ClientUnits(sc[i])]
  BY Zenon
<1>2. w \in Seq(Seq(Unit)) /\ Len(w) = n
  <2>1. \A i \in 1 .. n : ClientUnits(sc[i]) \in Seq(Unit)
    BY ClientUnitsOnWire DEF OnWire
  <2>2. w \in [1 .. n -> Seq(Unit)] /\ n \in Nat
    BY <1>1, <2>1
  <2> QED BY <2>2, SequenceOf, Zenon
<1>3. Sent(sc, n) = Concat(w)
  <2>1. PICK t : t = SubSeq(sc, 1, n)
    BY Zenon
  <2>2. Len(t) = n /\ \A i \in 1 .. n : t[i] = sc[i]
    BY <2>1, SubSeqFacts
  <2>3. [i \in 1 .. Len(t) |-> ClientUnits(t[i])] = w
    BY <1>1, <2>2, Zenon
  <2> QED BY <2>1, <2>3, Zenon DEF Sent, Units
<1>4. \E g : Unrolled(w, Len(w), g) /\ Concat(w) = g[Len(w)]
  BY <1>2, ConcatUnrolled
<1> QED BY <1>1, <1>2, <1>3, <1>4, Zenon

\* A packet more adds its units.
LEMMA SentStep ==
  ASSUME NEW sc \in Seq(ClientPackets), NEW n \in 0 .. Len(sc)
  PROVE  /\ Sent(sc, n) \in Seq(Unit)
         /\ n # Len(sc) => Sent(sc, n + 1) = Sent(sc, n) \o ClientUnits(sc[n + 1])
<1>1. PICK w : w = [i \in 1 .. n |-> ClientUnits(sc[i])]
  BY Zenon
<1>2. PICK g : Unrolled(w, n, g) /\ Sent(sc, n) = g[n]
  BY <1>1, SentUnrolled, Zenon
<1>3. \A i \in 1 .. n : w[i] \in Seq(Unit)
  BY <1>1, ClientUnitsOnWire DEF OnWire
<1>4. Sent(sc, n) \in Seq(Unit)
  BY <1>2, <1>3, UnrolledType, SMTT(30)
<1>5. ASSUME n # Len(sc)
      PROVE  Sent(sc, n + 1) = Sent(sc, n) \o ClientUnits(sc[n + 1])
  <2>1. PICK m \in 1 .. Len(sc) : m = n + 1
    BY <1>5
  <2>2. PICK v : v = [i \in 1 .. m |-> ClientUnits(sc[i])]
    BY Zenon
  <2>3. PICK h : Unrolled(v, m, h) /\ Sent(sc, m) = h[m]
    BY <2>2, SentUnrolled
  <2>4. h[m] = h[m - 1] \o v[m]
    <3>1. m \in 0 .. m /\ m # 0
      OBVIOUS
    <3> QED BY <2>3, <3>1, UnrolledAt, ZenonT(30)
  <2>5. SameUpTo(v, w, n)
    BY <1>1, <2>1, <2>2 DEF SameUpTo
  <2>6. h[n] = g[n]
    <3>1. m \in Nat /\ n \in 0 .. m
      BY <2>1
    <3>2. Unrolled(w, n, g) /\ Unrolled(v, m, h)
      BY <1>2, <2>3, Zenon
    <3> QED BY <2>5, <3>1, <3>2, UnrolledAgree
  <2>7. v[m] = ClientUnits(sc[m]) /\ m - 1 = n
    BY <2>1, <2>2
  <2> QED BY <1>2, <2>1, <2>3, <2>4, <2>6, <2>7, Zenon
<1> QED BY <1>4, <1>5, Zenon

\* What remains of the script's units after the first n packets.
LEMMA SentRest ==
  ASSUME NEW sc \in Seq(ClientPackets), NEW n \in 0 .. Len(sc)
  PROVE  \E t \in Seq(Unit) : Units(sc) = Sent(sc, n) \o t
<1>0. PICK l \in Nat : l = Len(sc)
  OBVIOUS
<1> DEFINE Rest(i) == \E t \in Seq(Unit) : Sent(sc, l) = Sent(sc, i) \o t
           bad == {k \in Nat : k <= l /\ ~Rest(l - k)}
<1>1. ASSUME bad # {} PROVE FALSE
  <2>1. PICK k \in bad : \A j \in bad : k <= j
    BY <1>1, LeastElement, Zenon
  <2>2. CASE k = 0
    <3>1. Sent(sc, l) \in Seq(Unit)
      BY <1>0, SentStep
    <3>2. Sent(sc, l) = Sent(sc, l) \o << >> /\ << >> \in Seq(Unit)
      BY <3>1
    <3>3. l - k = l
      BY <2>2
    <3> QED BY <2>1, <3>2, <3>3, Zenon
  <2>3. CASE k # 0
    <3>1. k - 1 \in Nat /\ k - 1 <= l /\ k - 1 \notin bad
      <4>1. k \in Nat /\ k <= l
        BY <2>1, Zenon
      <4> HIDE DEF bad
      <4> QED BY <2>1, <2>3, <4>1
    <3>2. PICK i \in 0 .. l : i = l - k
      BY <2>1
    <3>3. i # l /\ l - (k - 1) = i + 1
      BY <2>3, <3>2
    <3>4. Rest(i + 1)
      BY <3>1, <3>3, Zenon
    <3>5. PICK t \in Seq(Unit) : Sent(sc, l) = Sent(sc, i + 1) \o t
      BY <3>4, Zenon
    <3>6. PICK a, u : a = Sent(sc, i) /\ u = ClientUnits(sc[i + 1])
      BY Zenon
    <3>7. a \in Seq(Unit) /\ Sent(sc, i + 1) = a \o u
      BY <1>0, <3>3, <3>6, SentStep, Zenon
    <3>8. u \in Seq(Unit)
      <4>1. sc[i + 1] \in ClientPackets
        BY <1>0, <3>2, <3>3
      <4> QED BY <3>6, <4>1, ClientUnitsOnWire, Zenon DEF OnWire
    <3>9. Associates(a, u, t)
      BY <3>7, <3>8, Associative, Zenon
    <3>10. u \o t \in Seq(Unit)
      BY <3>8
    <3>11. Sent(sc, l) = Sent(sc, i) \o (u \o t)
      BY <3>5, <3>6, <3>7, <3>9, Zenon DEF Associates
    <3>12. Rest(i)
      BY <3>10, <3>11, Zenon
    <3> QED BY <2>1, <3>2, <3>12, Zenon
  <2> QED BY <2>2, <2>3, Zenon
<1>2. PICK k \in Nat : k = l - n /\ k <= l
  <2>1. l - n \in Nat /\ l - n <= l
    BY <1>0
  <2> QED BY <2>1, Zenon
<1>3. Rest(n)
  <2>1. l - k = n
    BY <1>0, <1>2
  <2> QED BY <1>1, <1>2, <2>1, Zenon
<1>4. Sent(sc, l) = Units(sc)
  BY <1>0, WholeSubSeq, Zenon DEF Sent
<1> QED BY <1>3, <1>4, Zenon

\* A queue is what is taken from its front and what Drop leaves.
LEMMA FrontAndRest ==
  ASSUME NEW S, NEW q \in Seq(S), NEW k \in Nat, k <= Len(q)
  PROVE  /\ SubSeq(q, 1, k) \in Seq(S) /\ Len(SubSeq(q, 1, k)) = k
         /\ Drop(q, k) \in Seq(S) /\ Len(Drop(q, k)) = Len(q) - k
         /\ q = SubSeq(q, 1, k) \o Drop(q, k)
<1>1. PICK l \in Nat : l = Len(q)
  OBVIOUS
<1>2. SubSeq(q, 1, k) \in Seq(S) /\ Len(SubSeq(q, 1, k)) = k
  BY SubSeqFacts
<1>3. SubSeq(q, k + 1, l) \in Seq(S) /\ Len(SubSeq(q, k + 1, l)) = l - k
  BY <1>1, SubSeqFacts
<1>4. q = SubSeq(q, 1, k) \o SubSeq(q, k + 1, l)
  <2>1. 1 \in 1 .. l + 1 /\ k \in 1 - 1 .. l /\ l \in k .. l
    BY <1>1
  <2>2. SubSeq(q, 1, k) \o SubSeq(q, k + 1, l) = SubSeq(q, 1, l)
    BY <1>1, <2>1, AdjacentSubSeqs, Zenon
  <2>3. SubSeq(q, 1, l) = q
    BY <1>1, WholeSubSeq, Zenon
  <2> QED BY <2>2, <2>3, Zenon
<1> QED BY <1>1, <1>2, <1>3, <1>4, Zenon DEF Drop

-----------------------------------------------------------------------------
(* Types *)

\* Growing leads from one capacity to another.
LEMMA CapacitiesGrow ==
  /\ Ring!Capacities \subseteq 1 .. MaxSize
  /\ InitialSize \in Ring!Capacities
  /\ \A c \in Ring!Capacities : /\ Ring!GrownCapacity(c) \in Ring!Capacities
                                /\ c <= Ring!GrownCapacity(c)
<1>1. Ring!Capacities \subseteq InitialSize .. MaxSize
  BY Zenon DEF Ring!Capacities
<1>2. Ring!Capacities \subseteq 1 .. MaxSize
  BY <1>1, ConnectionAssumption
<1>3. InitialSize \in Ring!Capacities
  BY ConnectionAssumption DEF Ring!Capacities, Ring!ClosedUnderGrow
<1>4. ASSUME NEW c \in Ring!Capacities
      PROVE  /\ Ring!GrownCapacity(c) \in Ring!Capacities
             /\ c <= Ring!GrownCapacity(c)
  <2>1. PICK g : g = Ring!GrownCapacity(c)
    BY Zenon
  <2>2. c \in InitialSize .. MaxSize
    BY <1>1, Zenon
  <2>3. g \in InitialSize .. MaxSize /\ c <= g
    BY <2>1, <2>2, ConnectionAssumption DEF Ring!GrownCapacity
  <2>4. ASSUME NEW S \in SUBSET (InitialSize .. MaxSize), Ring!ClosedUnderGrow(S)
        PROVE  g \in S
    <3>1. c \in S
      BY <2>4, Zenon DEF Ring!Capacities
    <3> QED BY <2>1, <2>4, <3>1, Zenon DEF Ring!ClosedUnderGrow
  <2>5. g \in Ring!Capacities
    BY <2>3, <2>4, Zenon DEF Ring!Capacities
  <2> QED BY <2>1, <2>3, <2>5, Zenon
<1> QED BY <1>2, <1>3, <1>4, Zenon

\* The capacity of a ring, and what it holds.
Holds(c, n) == c \in {0} \cup Ring!Capacities /\ n <= c

\* reserve() leads to one that holds what the ring held.
LEMMA ReservedHolds ==
  ASSUME NEW S, NEW b \in Queues(S), Holds(b.capacity, Len(b.q)),
         NEW n \in Nat, NEW avail \in Amount
  PROVE  Holds(reserved(b, n, avail).capacity, Len(b.q))
<1>1. PICK l \in Nat : l = Len(b.q)
  BY DEF Queues
<1> DEFINE c == IF b.capacity # 0 THEN b.capacity
                ELSE IF InitialSize <= avail THEN InitialSize ELSE 0
           v == [capacity |-> c, count |-> Len(b.q)]
           T == Ring!ReserveStops(v, n, avail)
           r == Ring!ReserveCapacity(v, n, avail)
<1>2. b.capacity \in Nat /\ l <= b.capacity
  BY <1>1 DEF Holds, Queues
<1>3. c \in {0} \cup Ring!Capacities /\ l <= c /\ c \in 0 .. MaxSize
  <2>1. c \in {0} \cup Ring!Capacities
    BY CapacitiesGrow, Zenon DEF Holds
  <2>2. l <= c
    BY <1>1, <1>2, ConnectionAssumption
  <2> HIDE DEF c
  <2> QED BY <2>1, <2>2, CapacitiesGrow, ConnectionAssumption
<1>4. reserved(b, n, avail).capacity = IF c = 0 THEN 0 ELSE r
  BY Zenon DEF reserved, Queues
<1>5. T \in SUBSET Nat /\ MaxSize \in T
  BY <1>3, ConnectionAssumption, LargestCapacity
     DEF Ring!ReserveStops, Ring!Capacities
<1>6. \E x \in T : \A y \in T : x <= y
  BY <1>5, LeastElement, Zenon
<1>7. r \in T
  BY <1>6, Zenon DEF Ring!ReserveCapacity
<1>8. r \in Ring!Capacities /\ r >= c
  BY <1>7, Zenon DEF Ring!ReserveStops
<1>9. r \in Nat
  BY <1>5, <1>7, Zenon
<1> HIDE DEF c, r
<1>10. Holds(IF c = 0 THEN 0 ELSE r, l)
  BY <1>1, <1>3, <1>8, <1>9 DEF Holds
<1> QED BY <1>1, <1>4, <1>10, Zenon

\* reactor_enqueue_response() does not overfill the ring.
LEMMA EnqueueHolds ==
  ASSUME NEW S, NEW b \in Queues(S), Holds(b.capacity, Len(b.q)),
         NEW units \in Seq(S), NEW avail \in Amount, NEW staged,
         NEW e, e = enqueue(b, units, avail, staged)
  PROVE  Holds(e.buf.capacity, Len(e.buf.q))
<1>1. PICK n \in Nat : n = Len(units)
  OBVIOUS
<1>2. PICK r : r = reserved(b, n, avail)
  BY Zenon
<1>3. r \in Queues(S) /\ r.q = b.q
  <2>1. Extends(S, b, n, avail, r)
    BY <1>2, ReservedFits, Zenon
  <2> QED BY <2>1, Zenon DEF Extends
<1>4. Holds(r.capacity, Len(r.q))
  BY <1>2, <1>3, ReservedHolds, Zenon
<1>5. PICK l \in Nat : l = Len(r.q)
  BY <1>3 DEF Queues
<1>6. Len(r.q \o units) = l + n
  BY <1>1, <1>3, <1>5, ConcatFacts, Zenon DEF Queues
<1>7. \/ e.buf = r
      \/ r.capacity - l >= n /\ e.buf = [r EXCEPT !.q = @ \o units]
  BY <1>1, <1>2, <1>5, Zenon DEF enqueue
<1>8. CASE e.buf = r
  BY <1>4, <1>8, Zenon
<1>9. CASE r.capacity - l >= n /\ e.buf = [r EXCEPT !.q = @ \o units]
  <2>1. e.buf.capacity = r.capacity /\ e.buf.q = r.q \o units
    BY <1>3, <1>9, Zenon DEF Queues
  <2>2. r.capacity \in Nat
    BY <1>3, ConnectionAssumption DEF Queues
  <2>3. l + n <= r.capacity
    BY <1>9, <2>2
  <2> QED BY <1>4, <1>6, <2>1, <2>3, Zenon DEF Holds
<1> QED BY <1>7, <1>8, <1>9, Zenon

\* The parser takes units from the front, and the length it then waits for is
\* a number.
LEMMA PollTyped ==
  ASSUME NEW par, NEW q \in Seq(Unit), NEW mem,
         par.state \in {"HEADER_WAIT", "PAYLOAD_WAIT"},
         par.state = "PAYLOAD_WAIT" => par.header.payload_len \in Nat,
         NEW r, r = vr_parser_poll(par, q, mem), r.result # "ERROR"
  PROVE  /\ r.q \in Seq(Unit) /\ Len(r.q) <= Len(q)
         /\ r.parser.state \in {"HEADER_WAIT", "PAYLOAD_WAIT"}
         /\ r.parser.state = "PAYLOAD_WAIT" => r.parser.header.payload_len \in Nat
<1> DEFINE Good(x, l) ==
             /\ x.q \in Seq(Unit) /\ Len(x.q) <= l
             /\ x.parser.state \in {"HEADER_WAIT", "PAYLOAD_WAIT"}
             /\ x.parser.state = "PAYLOAD_WAIT"
                  => x.parser.header.payload_len \in Nat
<1>1. ASSUME NEW h, NEW s \in Seq(Unit), h.payload_len \in Nat,
             NEW x, x = PollPayload(h, s, mem), x.result # "ERROR"
      PROVE  Good(x, Len(s))
  <2>1. PICK l \in Nat, n \in Nat : l = Len(s) /\ n = h.payload_len
    BY <1>1
  <2>2. CASE l < n
    <3>1. /\ x.q = s
          /\ x.parser = [state |-> "PAYLOAD_WAIT", header |-> h]
      BY <1>1, <2>1, <2>2, Zenon DEF PollPayload, Polled
    <3> QED BY <1>1, <2>1, <3>1
  <2>3. CASE ~(l < n)
    <3>1. x.q = Drop(s, n) /\ x.parser = ParserZero
      BY <1>1, <2>1, <2>3, Zenon DEF PollPayload, Polled
    <3>2. Drop(s, n) \in Seq(Unit) /\ Len(Drop(s, n)) = l - n
      BY <2>1, <2>3, FrontAndRest
    <3>3. Len(x.q) <= l
      BY <3>1, <3>2
    <3> QED BY <2>1, <3>1, <3>2, <3>3 DEF ParserZero
  <2> QED BY <2>2, <2>3, Zenon
<1>2. PICK l \in Nat : l = Len(q)
  OBVIOUS
<1>3. CASE par.state = "PAYLOAD_WAIT"
  <2>1. r = PollPayload(par.header, q, mem)
    BY <1>3, Zenon DEF vr_parser_poll
  <2> QED BY <1>1, <1>3, <2>1, Zenon
<1>4. CASE par.state # "PAYLOAD_WAIT" /\ l < HeaderSize
  <2>1. r.q = q /\ r.parser = par
    BY <1>2, <1>4, Zenon DEF vr_parser_poll, Polled
  <2> QED BY <1>2, <1>4, <2>1
<1>5. CASE par.state # "PAYLOAD_WAIT" /\ ~(l < HeaderSize)
  <2>1. validated(q)
    BY <1>2, <1>5, Zenon DEF vr_parser_poll, Polled
  <2>2. PICK h, d : h = vr_packet_header_deserialize(q) /\ d = Drop(q, HeaderSize)
    BY Zenon
  <2>3. r = PollPayload(h, d, mem)
    BY <1>2, <1>5, <2>1, <2>2, Zenon DEF vr_parser_poll
  <2>4. HeaderSize \in Nat /\ HeaderSize >= 2 /\ HeaderSize <= l
    BY <1>5, HeaderAssumption
  <2>5. d \in Seq(Unit) /\ Len(d) = l - HeaderSize
    BY <1>2, <2>2, <2>4, FrontAndRest, Zenon
  <2>6. h.payload_len \in Nat
    <3>1. q[2] \in Unit /\ q[2][1] = "B"
      BY <1>2, <2>1, <2>4 DEF validated
    <3>2. h.payload_len = q[2][3]
      BY <2>2, Zenon DEF vr_packet_header_deserialize
    <3> QED BY <3>1, <3>2, UnitFields, Zenon
  <2>7. Good(r, Len(d))
    BY <1>1, <2>3, <2>5, <2>6, Zenon
  <2>8. Len(r.q) <= l
    <3>1. Len(r.q) \in Nat /\ Len(r.q) <= Len(d)
      BY <2>7
    <3> QED BY <1>2, <2>4, <2>5, <3>1
  <2> QED BY <1>2, <2>7, <2>8, Zenon
<1> QED BY <1>2, <1>3, <1>4, <1>5, Zenon

\* The handler keeps to the bits there are.
LEMMA HandlerBitmap ==
  ASSUME NEW c, NEW pkt, c.streams_bitmap \subseteq Word \X Bit,
         DOMAIN c = {"proto_state", "active_streams", "streams_bitmap"},
         NEW d, d = vr_protocol_handle_packet(c, pkt).conn
  PROVE  /\ d.streams_bitmap \subseteq Word \X Bit
         /\ DOMAIN d = DOMAIN c
<1> DEFINE Good(x) == /\ x.streams_bitmap \subseteq Word \X Bit
                      /\ DOMAIN x = {"proto_state", "active_streams",
                                     "streams_bitmap"}
<1>1. CASE c.proto_state = "INIT"
  <2>1. <<0, 0>> \in Word \X Bit
    BY StreamAssumption DEF Word, Bit
  <2>2. \/ d = c
        \/ d = [proto_state |-> "ESTABLISHED", active_streams |-> 1,
                streams_bitmap |-> c.streams_bitmap \cup {<<0, 0>>}]
    BY <1>1, Zenon DEF vr_protocol_handle_packet, HandleInit, Reply, NoReply
  <2> QED BY <2>1, <2>2
<1>2. CASE c.proto_state \notin {"INIT", "ESTABLISHED"}
  <2>1. \E s : d = [c EXCEPT !.proto_state = s]
    BY <1>2, Zenon DEF vr_protocol_handle_packet, HandleConnecting, HandleOther, NoReply
  <2> QED BY <2>1, Zenon
<1>3. CASE c.proto_state = "ESTABLISHED"
  <2>0. d = HandleEstablished(c, pkt).conn
    BY <1>3, Zenon DEF vr_protocol_handle_packet
  <2>1. \/ d = c \/ d = StreamOpen(c, pkt).conn \/ d = StreamClose(c, pkt).conn
    BY <2>0, Zenon DEF HandleEstablished, Reply, NoReply
  <2>2. CASE d = StreamOpen(c, pkt).conn
    <3>1. CASE FreeBits(c) = {}
      BY <2>2, <3>1, Zenon DEF StreamOpen, Reply
    <3>2. CASE FreeBits(c) # {}
      <4>1. FreeBits(c) \in SUBSET (Nat \X Nat)
        BY StreamAssumption DEF FreeBits, Word, Bit
      <4>2. FirstFree(c) \in FreeBits(c)
        BY <3>2, <4>1, FirstPair, Zenon DEF FirstFree
      <4>3. PICK s : s = FirstFree(c) /\ s \in Word \X Bit
        BY <4>2, Zenon DEF FreeBits
      <4>4. \E n : d = [c EXCEPT !.streams_bitmap = @ \cup {s},
                                !.active_streams = n]
        BY <2>2, <3>2, <4>3, Zenon DEF StreamOpen, Reply
      <4> QED BY <4>3, <4>4
    <3> QED BY <3>1, <3>2, Zenon
  <2>3. CASE d = StreamClose(c, pkt).conn
    BY <2>3 DEF StreamClose, Reply, NoReply
  <2> QED BY <2>1, <2>2, <2>3, Zenon
<1> QED BY <1>1, <1>2, <1>3, Zenon

\* The inductive form of TypeOK, in parts.  The units between the client and
\* the read ring:
Inbound ==
  /\ rx \in Seq(Unit) /\ Len(rx) <= RcvBuf
  /\ tosend \in Seq(Unit)
  /\ rbuf \in Queues(Unit) /\ Holds(rbuf.capacity, Len(rbuf.q))
  /\ parser.state \in {"HEADER_WAIT", "PAYLOAD_WAIT"}
  /\ parser.state = "PAYLOAD_WAIT" => parser.header.payload_len \in Nat

\* those between the handler and the client, as far as Delivered does not say:
Outbound == Len(tx) <= SndBuf /\ Holds(wbuf.capacity, Len(wbuf.q))

\* the streams, and the reactor's and the kernel's state.
Bitmap ==
  /\ proto.streams_bitmap \subseteq Word \X Bit
  /\ DOMAIN proto = {"proto_state", "active_streams", "streams_bitmap"}

Control ==
  /\ peer \in {"open", "fin", "rst"}
  /\ nospace \in BOOLEAN /\ ready \in BOOLEAN /\ open \in BOOLEAN
  /\ interest \in {{"IN"}, {"IN", "OUT"}}
  /\ events \subseteq {"IN", "OUT"}
  /\ pc \in {"wait", "writes", "reads", "packets", "crashed"}

\* A step that changes the units on their way in is one of these.
LEMMA InboundSteps ==
  ASSUME [Next]_vars
  PROVE  \/ UNCHANGED <<rx, tosend, rbuf, parser>>
         \/ ConnectionGone
         \/ ClientSend \/ RecvSome \/ ParseNothing
         \/ \E avail \in Grants : GrowReadBuffer(avail)
         \/ \E mem, staged \in Mem, avail \in Grants :
              HandlePacket(mem, avail, staged)
BY Zenon DEF Next, Server, Client, ClientReceive, ClientShutdown, ClientReset,
   vr_reactor_wait, SendSome, SendWouldBlock, SendErrnoLost, SendFails,
   WritesDone, RecvWouldBlock, RecvEnds, RecvFails, ParseFails, HandlerCrashes,
   reactor_close_connection, vars, clientVars, sockVars, connVars

\* The steps of the units on their way in.
LEMMA InboundStep ==
  ASSUME Inbound, [Next]_vars
  PROVE  Inbound'
<1>0. QueueZero \in Queues(Unit) /\ Holds(QueueZero.capacity, Len(QueueZero.q))
  <2>1. << >> \in Seq(Unit) /\ Len(<< >>) = 0
    OBVIOUS
  <2> QED BY <2>1, ConnectionAssumption DEF QueueZero, Queues, Holds
<1>1. CASE UNCHANGED <<rx, tosend, rbuf, parser>>
  BY <1>1, Zenon DEF Inbound
<1>2. CASE ConnectionGone
  BY <1>0, <1>2, Zenon DEF Inbound, ConnectionGone, clientVars, sockVars, ParserZero
<1>3. CASE ClientSend
  <2>1. /\ Len(rx) < RcvBuf /\ tosend # << >> /\ UNCHANGED <<rbuf, parser>>
        /\ rx' = Append(rx, Head(tosend)) /\ tosend' = Tail(tosend)
    BY <1>3, Zenon DEF ClientSend, connVars
  <2>2. rx \in Seq(Unit) /\ tosend \in Seq(Unit)
    BY Zenon DEF Inbound
  <2>3. Head(tosend) \in Unit /\ Tail(tosend) \in Seq(Unit)
    BY <2>1, <2>2
  <2>4. rx' \in Seq(Unit) /\ Len(rx') = Len(rx) + 1
    BY <2>1, <2>2, <2>3
  <2>5. Len(rx') <= RcvBuf
    BY <2>1, <2>2, <2>4, ConnectionAssumption
  <2> QED BY <2>1, <2>3, <2>4, <2>5, Zenon DEF Inbound
<1>4. CASE RecvSome
  <2>0. PICK q, c, l, k : q = rbuf.q /\ c = rbuf.capacity /\ l = Len(q) /\ k = Len(rx)
    BY Zenon
  <2>1. /\ q \in Seq(Unit) /\ c \in Nat /\ l \in Nat /\ k \in Nat
        /\ rx \in Seq(Unit) /\ k <= RcvBuf
    BY <2>0 DEF Inbound, Queues
  <2>2. PICK n : n = IF k < c - l THEN k ELSE c - l
    BY Zenon
  <2>3. /\ l < c /\ UNCHANGED <<tosend, parser>>
        /\ rbuf' = [rbuf EXCEPT !.q = q \o SubSeq(rx, 1, n)]
        /\ rx' = Drop(rx, n)
    BY <1>4, <2>0, <2>2, Zenon DEF RecvSome, clientVars
  <2>4. n \in Nat /\ n <= k /\ l + n <= c
    BY <2>1, <2>2, <2>3
  <2>5. PICK f : f = SubSeq(rx, 1, n)
    BY Zenon
  <2>6. f \in Seq(Unit) /\ Len(f) = n /\ rx' \in Seq(Unit) /\ Len(rx') = k - n
    BY <2>0, <2>1, <2>3, <2>4, <2>5, FrontAndRest
  <2>7. q \o f \in Seq(Unit) /\ Len(q \o f) = l + n
    BY <2>0, <2>1, <2>6, ConcatFacts, Zenon
  <2>8. rbuf' \in Queues(Unit) /\ rbuf'.capacity = c /\ rbuf'.q = q \o f
    BY <2>0, <2>3, <2>5, <2>7, Zenon DEF Inbound, Queues
  <2>9. Holds(rbuf'.capacity, Len(rbuf'.q))
    BY <2>0, <2>4, <2>7, <2>8, Zenon DEF Inbound, Holds
  <2>10. Len(rx') <= RcvBuf
    BY <2>1, <2>4, <2>6, ConnectionAssumption
  <2> QED BY <2>3, <2>6, <2>8, <2>9, <2>10, Zenon DEF Inbound
<1>5. ASSUME NEW avail \in Grants, GrowReadBuffer(avail) PROVE Inbound'
  <2>0. PICK c : c = IF rbuf.capacity = 0 THEN InitialSize
                     ELSE Ring!GrownCapacity(rbuf.capacity)
    BY Zenon
  <2>1. /\ UNCHANGED <<rx, tosend, parser>>
        /\ UNCHANGED rbuf \/ rbuf' = [rbuf EXCEPT !.capacity = c]
    BY <1>5, <2>0, Zenon DEF GrowReadBuffer, clientVars, sockVars
  <2>2. c \in Ring!Capacities /\ rbuf.capacity <= c
    <3>1. rbuf.capacity \in {0} \cup Ring!Capacities
      BY Zenon DEF Inbound, Holds
    <3>2. CASE rbuf.capacity = 0
      BY <2>0, <3>2, CapacitiesGrow, ConnectionAssumption
    <3>3. CASE rbuf.capacity # 0
      BY <2>0, <3>1, <3>3, CapacitiesGrow, Zenon
    <3> QED BY <3>2, <3>3, Zenon
  <2>3. c \in 0 .. MaxSize
    BY <2>2, CapacitiesGrow
  <2>4. rbuf' \in Queues(Unit) /\ rbuf'.q = rbuf.q
    BY <2>1, <2>3, Zenon DEF Inbound, Queues
  <2>5. rbuf'.capacity = rbuf.capacity \/ rbuf'.capacity = c
    BY <2>1, Zenon DEF Inbound, Queues
  <2>6. Len(rbuf.q) \in Nat /\ rbuf.capacity \in Nat
    BY DEF Inbound, Queues
  <2>7. Holds(rbuf'.capacity, Len(rbuf'.q))
    BY <2>2, <2>3, <2>4, <2>5, <2>6 DEF Inbound, Holds
  <2> QED BY <2>1, <2>4, <2>7, Zenon DEF Inbound
<1>6. ASSUME NEW mem, NEW p, p = vr_parser_poll(parser, rbuf.q, mem),
             p.result # "ERROR", parser' = p.parser,
             rbuf' = [rbuf EXCEPT !.q = p.q], UNCHANGED <<rx, tosend>>
      PROVE  Inbound'
  <2>1. PICK q : q = rbuf.q
    BY Zenon
  <2>2. q \in Seq(Unit) /\ Len(q) \in Nat /\ rbuf.capacity \in Nat
    BY <2>1 DEF Inbound, Queues
  <2>3. /\ p.q \in Seq(Unit) /\ Len(p.q) <= Len(q)
        /\ p.parser.state \in {"HEADER_WAIT", "PAYLOAD_WAIT"}
        /\ p.parser.state = "PAYLOAD_WAIT" => p.parser.header.payload_len \in Nat
    BY <1>6, <2>1, <2>2, PollTyped DEF Inbound
  <2>4. rbuf' \in Queues(Unit) /\ rbuf'.q = p.q /\ rbuf'.capacity = rbuf.capacity
    BY <1>6, <2>3, Zenon DEF Inbound, Queues
  <2>5. Len(p.q) \in Nat
    BY <2>3
  <2>6. Holds(rbuf'.capacity, Len(rbuf'.q))
    BY <2>1, <2>2, <2>3, <2>4, <2>5 DEF Inbound, Holds
  <2> QED BY <1>6, <2>3, <2>4, <2>6, Zenon DEF Inbound
<1>7. CASE ParseNothing
  BY <1>6, <1>7, Zenon DEF ParseNothing, clientVars
<1>8. ASSUME NEW mem \in Mem, NEW staged \in Mem, NEW avail \in Grants,
             HandlePacket(mem, avail, staged)
      PROVE  Inbound'
  BY <1>6, <1>8, Zenon DEF HandlePacket, clientVars
<1> QED BY <1>1, <1>2, <1>3, <1>4, <1>5, <1>7, <1>8, InboundSteps, Zenon

\* A step that changes the units on their way out, or the streams, is one of
\* these.
LEMMA OutboundSteps ==
  ASSUME [Next]_vars
  PROVE  \/ UNCHANGED <<tx, wbuf, proto>>
         \/ ConnectionGone
         \/ ClientReceive \/ ClientReset
         \/ \E n \in 1 .. SndBuf : SendSome(n)
         \/ \E mem, staged \in Mem, avail \in Grants :
              HandlePacket(mem, avail, staged)
BY Zenon DEF Next, Server, Client, ClientSend, ClientShutdown, vr_reactor_wait,
   SendWouldBlock, SendErrnoLost, SendFails, WritesDone, GrowReadBuffer,
   RecvSome, RecvWouldBlock, RecvEnds, RecvFails, ParseNothing, ParseFails,
   HandlerCrashes, reactor_close_connection, vars, clientVars, sockVars, connVars

\* The steps of the units on their way out.
LEMMA OutboundStep ==
  ASSUME Delivered, Outbound, [Next]_vars
  PROVE  Outbound'
<1>0. PICK S0, rest : Whole(S0, rest)
  BY Zenon DEF Delivered
<1>1. /\ tx \in Seq(S0) /\ wbuf \in Queues(S0) /\ wbuf.q \in Seq(S0)
      /\ Len(tx) \in Nat /\ Len(wbuf.q) \in Nat /\ wbuf.capacity \in Nat
  BY <1>0, ConnectionAssumption DEF Whole, Queues
<1>2. CASE UNCHANGED <<tx, wbuf, proto>>
  BY <1>2, Zenon DEF Outbound
<1>3. CASE ConnectionGone
  BY <1>3 DEF Outbound, ConnectionGone, sockVars, QueueZero, Holds
<1>4. CASE ClientReceive
  <2>1. tx # << >> /\ tx' = Tail(tx) /\ UNCHANGED wbuf
    BY <1>4, Zenon DEF ClientReceive, connVars
  <2>2. Len(Tail(tx)) = Len(tx) - 1
    BY <1>1, <2>1
  <2> QED BY <1>1, <2>1, <2>2, ConnectionAssumption DEF Outbound
<1>5. CASE ClientReset
  <2>1. tx' = << >> /\ UNCHANGED wbuf
    BY <1>5, Zenon DEF ClientReset, connVars
  <2> QED BY <2>1, ConnectionAssumption DEF Outbound
<1>6. ASSUME NEW n \in 1 .. SndBuf, SendSome(n) PROVE Outbound'
  <2>1. PICK q, f : q = wbuf.q /\ f = SubSeq(q, 1, n)
    BY Zenon
  <2>2. /\ n \in Nat /\ n <= Len(q) /\ n <= SndBuf - Len(tx)
        /\ tx' = tx \o f /\ wbuf' = [wbuf EXCEPT !.q = Drop(q, n)]
    BY <1>6, <2>1 DEF SendSome
  <2>3. /\ f \in Seq(S0) /\ Len(f) = n
        /\ Drop(q, n) \in Seq(S0) /\ Len(Drop(q, n)) = Len(q) - n
    BY <1>1, <2>1, <2>2, FrontAndRest
  <2>4. Len(tx') = Len(tx) + n
    BY <1>1, <2>2, <2>3, ConcatFacts, Zenon
  <2>5. wbuf'.q = Drop(q, n) /\ wbuf'.capacity = wbuf.capacity
    BY <1>1, <2>2, Zenon DEF Queues
  <2>6. Len(tx') <= SndBuf
    BY <1>1, <2>2, <2>4, ConnectionAssumption
  <2>7. Len(wbuf'.q) <= wbuf'.capacity
    BY <1>1, <2>1, <2>2, <2>3, <2>5 DEF Outbound, Holds
  <2> QED BY <2>5, <2>6, <2>7, Zenon DEF Outbound, Holds
<1>7. ASSUME NEW mem \in Mem, NEW staged \in Mem, NEW avail \in Grants,
             HandlePacket(mem, avail, staged)
      PROVE  Outbound'
  <2>1. PICK r : r = vr_protocol_handle_packet(proto,
                       vr_parser_poll(parser, rbuf.q, mem).pkt)
    BY Zenon
  <2>2. PICK u : u = ResponseUnits(r.response)
    BY Zenon
  <2>3. PICK e : e = enqueue(wbuf, u, avail, staged)
    BY Zenon
  <2>4. UNCHANGED tx /\ (UNCHANGED wbuf \/ wbuf' = e.buf)
    BY <1>7, <2>1, <2>2, <2>3, Zenon DEF HandlePacket
  <2>5. PICK T : u \in Seq(T)
    BY <2>2, ResponseIsUnits, Zenon
  <2>6. PICK S : S = S0 \cup T
    BY Zenon
  <2>7. wbuf \in Queues(S)
    BY <1>0, <2>6, Widen, Zenon DEF Whole
  <2>8. u \in Seq(S)
    BY <2>5, <2>6, SeqWidens, Zenon
  <2>9. avail \in Amount
    BY ConnectionAssumption DEF Grants, Amount
  <2>10. Holds(e.buf.capacity, Len(e.buf.q))
    BY <2>3, <2>7, <2>8, <2>9, EnqueueHolds, Zenon DEF Outbound
  <2> QED BY <2>4, <2>10, Zenon DEF Outbound
<1> QED BY <1>2, <1>3, <1>4, <1>5, <1>6, <1>7, OutboundSteps, Zenon

\* The steps of the streams.
LEMMA BitmapStep ==
  ASSUME Bitmap, [Next]_vars
  PROVE  Bitmap'
<1>1. CASE UNCHANGED proto
  BY <1>1, Zenon DEF Bitmap
<1>2. CASE ConnectionGone
  BY <1>2, Zenon DEF Bitmap, ConnectionGone, ProtoZero
<1>3. ASSUME NEW mem \in Mem, NEW staged \in Mem, NEW avail \in Grants,
             HandlePacket(mem, avail, staged)
      PROVE  Bitmap'
  <2>1. PICK pkt : pkt = vr_parser_poll(parser, rbuf.q, mem).pkt
    BY Zenon
  <2>2. proto' = vr_protocol_handle_packet(proto, pkt).conn
    BY <1>3, <2>1, Zenon DEF HandlePacket
  <2> QED BY <2>2, HandlerBitmap, Zenon DEF Bitmap
<1>4. ClientReceive \/ ClientReset \/ (\E n \in 1 .. SndBuf : SendSome(n))
        => UNCHANGED proto
  BY Zenon DEF ClientReceive, ClientReset, SendSome, connVars
<1> QED BY <1>1, <1>2, <1>3, <1>4, OutboundSteps, Zenon

\* The steps of the reactor's and the kernel's state.
LEMMA ControlStep ==
  ASSUME Control, [Next]_vars
  PROVE  Control'
<1>1. ASSUME NEW w, PacketsDone(w), UNCHANGED <<peer, open>> PROVE Control'
  BY <1>1, Zenon DEF Control, PacketsDone, vr_reactor_modify, Poll, Readable, Writable
<1>2. ASSUME ConnectionGone, pc' \in {"wait", "crashed"} PROVE Control'
  BY <1>2, Zenon DEF Control, ConnectionGone, sockVars
<1>3. CASE vr_reactor_wait
  BY <1>3, Zenon DEF Control, vr_reactor_wait, Poll, Readable, Writable
<1>4. ASSUME NEW n \in 1 .. SndBuf, SendSome(n) PROVE Control'
  BY <1>4, Zenon DEF Control, SendSome
<1>5. CASE SendWouldBlock
  BY <1>5, Zenon DEF Control, SendWouldBlock, AfterWrites
<1>6. CASE SendErrnoLost \/ SendFails \/ RecvEnds \/ RecvFails
  BY <1>2, <1>6, Zenon
     DEF SendErrnoLost, SendFails, RecvEnds, RecvFails, reactor_close_connection
<1>7. CASE WritesDone
  BY <1>7, Zenon DEF Control, WritesDone, vr_reactor_modify, Poll, Readable, Writable,
     AfterWrites
<1>8. ASSUME NEW avail \in Grants, GrowReadBuffer(avail) PROVE Control'
  BY <1>8, Zenon DEF Control, GrowReadBuffer, sockVars
<1>9. CASE RecvSome \/ RecvWouldBlock
  BY <1>9, Zenon DEF Control, RecvSome, RecvWouldBlock, sockVars
<1>10. CASE ParseNothing
  BY <1>1, <1>10, Zenon DEF ParseNothing
<1>11. ASSUME NEW mem \in Mem, ParseFails(mem) \/ HandlerCrashes(mem)
       PROVE  Control'
  BY <1>2, <1>11, Zenon DEF ParseFails, HandlerCrashes, reactor_close_connection
<1>12. ASSUME NEW mem \in Mem, NEW staged \in Mem, NEW avail \in Grants,
              HandlePacket(mem, avail, staged)
       PROVE  Control'
  <2>1. /\ UNCHANGED <<peer, open>>
        /\ UNCHANGED <<pc, events, interest, ready, nospace>> \/ \E w : PacketsDone(w)
    BY <1>12, Zenon DEF HandlePacket
  <2> QED BY <1>1, <2>1, Zenon DEF Control
<1>13. CASE Client
  BY <1>13, Zenon DEF Control, Client, ClientSend, ClientReceive, ClientShutdown,
     ClientReset, Wake
<1>14. CASE UNCHANGED vars
  BY <1>14, Zenon DEF Control, vars, sockVars
<1> QED
  BY <1>3, <1>4, <1>5, <1>6, <1>7, <1>8, <1>9, <1>10, <1>11, <1>12, <1>13, <1>14, Zenon
     DEF Next, Server

\* The parts are invariants.
LEMMA TypesAlways == Spec => [](Inbound /\ Outbound /\ Bitmap /\ Control)
<1>1. Init => Inbound /\ Outbound /\ Bitmap /\ Control
  <2> SUFFICES ASSUME Init PROVE Inbound /\ Outbound /\ Bitmap /\ Control
    BY Zenon
  <2>1. << >> \in Seq(Unit) /\ Len(<< >>) = 0
    OBVIOUS
  <2>2. QueueZero \in Queues(Unit) /\ Holds(QueueZero.capacity, Len(QueueZero.q))
    BY <2>1, ConnectionAssumption DEF QueueZero, Queues, Holds
  <2>3. tosend \in Seq(Unit)
    <3>1. script \in Seq(ClientPackets) /\ tosend = Units(script)
      BY ScriptsAssumption, Zenon DEF Init
    <3>2. Units(script) = Sent(script, Len(script))
      BY <3>1, WholeSubSeq, Zenon DEF Sent
    <3>3. Len(script) \in 0 .. Len(script)
      BY <3>1
    <3> QED BY <3>1, <3>2, <3>3, SentStep, Zenon
  <2>4. Inbound
    BY <2>1, <2>2, <2>3, ConnectionAssumption DEF Init, Inbound, ParserZero
  <2>5. Outbound
    BY <2>1, <2>2, ConnectionAssumption DEF Init, Outbound
  <2>6. Bitmap /\ Control
    BY Zenon DEF Init, Bitmap, Control, ProtoZero
  <2> QED BY <2>4, <2>5, <2>6, Zenon
<1>2. /\ Inbound /\ Outbound /\ Bitmap /\ Control /\ Delivered /\ [Next]_vars
      => Inbound' /\ Outbound' /\ Bitmap' /\ Control'
  BY InboundStep, OutboundStep, BitmapStep, ControlStep, Zenon
<1> QED BY <1>1, <1>2, DeliveredAlways, PTL DEF Spec

\* The rings keep to capacities that growing from the initial one gives, and
\* never hold more than that; nor do the kernel's buffers; and the streams
\* stay within the bitmap: for every client and every size.
THEOREM ConnectionTypeCorrect == Spec => []TypeOK
<1>1. Inbound /\ Outbound /\ Bitmap /\ Control => TypeOK
  BY Zenon DEF Inbound, Outbound, Bitmap, Control, Holds, TypeOK, Queue
<1> QED BY <1>1, TypesAlways, PTL

-----------------------------------------------------------------------------
(* Framing *)

\* The units of the header that the parser has taken from the ring.
Held(par) == IF par.state = "PAYLOAD_WAIT"
             THEN SubSeq(ClientUnits(par.header), 1, HeaderSize) ELSE << >>

\* n packets of a script are handled; the parser's header, the ring's contents
\* q and what is still to come t are the rest of it.
Framed(sc, n, par, q, t) ==
  /\ n \in 0 .. Len(sc) /\ q \in Seq(Unit) /\ t \in Seq(Unit)
  /\ par.state = "PAYLOAD_WAIT" =>
       n # Len(sc) /\ par.header = sc[n + 1] /\ par.header.type # "BAD"
  /\ (Sent(sc, n) \o Held(par)) \o (q \o t) = Units(sc)

\* The rest of a script in which a packet is still to be handled.
LEMMA NextPacket ==
  ASSUME NEW sc \in Seq(ClientPackets), NEW n \in 0 .. Len(sc), n # Len(sc)
  PROVE  LET u == ClientUnits(sc[n + 1])
         IN  /\ sc[n + 1] \in ClientPackets /\ OnWire(sc[n + 1], u)
             /\ \E t \in Seq(Unit) : Units(sc) = Sent(sc, n) \o (u \o t)
<1>1. PICK u : u = ClientUnits(sc[n + 1])
  BY Zenon
<1>2. PICK a : a = Sent(sc, n)
  BY Zenon
<1>3. n + 1 \in 0 .. Len(sc) /\ sc[n + 1] \in ClientPackets
  OBVIOUS
<1>4. OnWire(sc[n + 1], u)
  BY <1>1, <1>3, ClientUnitsOnWire, Zenon
<1>5. a \in Seq(Unit) /\ Sent(sc, n + 1) = a \o u
  BY <1>1, <1>2, SentStep, Zenon
<1>6. PICK t \in Seq(Unit) : Units(sc) = Sent(sc, n + 1) \o t
  BY <1>3, SentRest, Zenon
<1>7. Associates(a, u, t)
  BY <1>4, <1>5, Associative, Zenon DEF OnWire
<1>8. Units(sc) = Sent(sc, n) \o (u \o t)
  BY <1>2, <1>5, <1>6, <1>7, Zenon DEF Associates
<1> QED BY <1>1, <1>3, <1>4, <1>8, Zenon

\* A header that is complete in the ring: it is the next packet's, and taking
\* it leaves the frame.
LEMMA HeaderTaken ==
  ASSUME ClientHeader = HeaderSize,
         NEW sc \in Seq(ClientPackets), NEW n, NEW par, NEW q, NEW t,
         Framed(sc, n, par, q, t), par.state # "PAYLOAD_WAIT",
         Len(q) >= HeaderSize, validated(q)
  PROVE  Framed(sc, n, [state |-> "PAYLOAD_WAIT",
                        header |-> vr_packet_header_deserialize(q)],
                Drop(q, HeaderSize), t)
<1>0. n \in 0 .. Len(sc) /\ q \in Seq(Unit) /\ t \in Seq(Unit)
  BY Zenon DEF Framed
<1>1. PICK a : a = Sent(sc, n)
  BY Zenon
<1>2. a \in Seq(Unit)
  BY <1>0, <1>1, SentStep, Zenon
<1>3. HeaderSize \in Nat /\ HeaderSize >= 2
  BY HeaderAssumption, Zenon
<1>4. a \o (q \o t) = Units(sc)
  <2>1. Held(par) = << >>
    BY Zenon DEF Held
  <2>2. a \o << >> = a
    BY <1>2
  <2> QED BY <1>1, <2>1, <2>2, Zenon DEF Framed
<1>5. q \o t \in Seq(Unit) /\ Len(q \o t) # 0
  BY <1>0, <1>3, ConcatFacts
<1>6. n # Len(sc)
  <2> SUFFICES ASSUME n = Len(sc) PROVE FALSE
    BY Zenon
  <2>1. Units(sc) = a
    BY <1>1, WholeSubSeq, Zenon DEF Sent
  <2>2. a = a \o << >> /\ << >> \in Seq(Unit)
    BY <1>2
  <2>3. q \o t = << >>
    BY <1>2, <1>4, <1>5, <2>1, <2>2, CancelFront
  <2> QED BY <1>5, <2>3, Zenon
<1>7. PICK pkt, u : pkt = sc[n + 1] /\ u = ClientUnits(pkt)
  BY Zenon
<1>8. PICK r \in Seq(Unit) : Units(sc) = a \o (u \o r)
  BY <1>0, <1>1, <1>6, <1>7, NextPacket, Zenon
<1>9. pkt \in ClientPackets /\ OnWire(pkt, u)
  BY <1>0, <1>6, <1>7, NextPacket, Zenon
<1>10. u \in Seq(Unit) /\ Len(u) >= HeaderSize
  BY <1>3, <1>9 DEF OnWire, ClientPackets
<1>11. q \o t = u \o r
  <2>1. u \o r \in Seq(Unit)
    BY <1>8, <1>10
  <2>2. a \o (q \o t) = a \o (u \o r)
    BY <1>4, <1>8, Zenon
  <2> QED BY <1>2, <1>5, <2>1, <2>2, CancelFront, Zenon
<1>12. /\ SubSeq(q, 1, HeaderSize) = SubSeq(u, 1, HeaderSize)
       /\ q[1] = u[1] /\ q[2] = u[2]
  <2>1. /\ SubSeq(q, 1, HeaderSize) = SubSeq(u, 1, HeaderSize)
        /\ \A i \in 1 .. HeaderSize : q[i] = u[i]
    BY <1>0, <1>3, <1>8, <1>10, <1>11, SameFront, ZenonT(30)
  <2> QED BY <1>3, <2>1
<1>13. pkt.type # "BAD"
  <2>1. q[1][1] = "A"
    BY Zenon DEF validated
  <2>2. pkt.type = "BAD" => q[1] = <<"X">>
    BY <1>9, <1>12, Zenon DEF OnWire
  <2> QED BY <2>1, <2>2
<1>14. vr_packet_header_deserialize(q) = pkt
  <2>1. /\ q[1] = <<"A", pkt.type>>
        /\ q[2] = <<"B", pkt.stream_id, pkt.payload_len>>
    BY <1>9, <1>12, <1>13, Zenon DEF OnWire
  <2>2. pkt = [type |-> pkt.type, stream_id |-> pkt.stream_id,
               payload_len |-> pkt.payload_len]
    BY <1>9, Zenon DEF ClientPackets
  <2> QED BY <2>1, <2>2 DEF vr_packet_header_deserialize
<1>15. PICK h, d : h = SubSeq(q, 1, HeaderSize) /\ d = Drop(q, HeaderSize)
  BY Zenon
<1>16. h \in Seq(Unit) /\ d \in Seq(Unit) /\ q = h \o d
  BY <1>0, <1>3, <1>15, FrontAndRest
<1>17. (a \o h) \o (d \o t) = Units(sc)
  <2>1. Associates(h, d, t)
    BY <1>0, <1>16, Associative, Zenon
  <2>2. d \o t \in Seq(Unit)
    BY <1>0, <1>16
  <2>3. Associates(a, h, d \o t)
    BY <1>2, <1>16, <2>2, Associative, Zenon
  <2> QED BY <1>4, <1>16, <2>1, <2>3, Zenon DEF Associates
<1>18. PICK p : p = [state |-> "PAYLOAD_WAIT",
                     header |-> vr_packet_header_deserialize(q)]
  BY Zenon
<1>19. p.state = "PAYLOAD_WAIT" /\ p.header = pkt /\ Held(p) = h
  BY <1>7, <1>12, <1>14, <1>15, <1>18, Zenon DEF Held
<1>20. Framed(sc, n, p, d, t)
  BY <1>0, <1>1, <1>6, <1>7, <1>13, <1>16, <1>17, <1>19, Zenon DEF Framed
<1> QED BY <1>15, <1>18, <1>20, Zenon

\* A payload that is complete in the ring: taking it ends the packet.
LEMMA PayloadTaken ==
  ASSUME ClientHeader = HeaderSize,
         NEW sc \in Seq(ClientPackets), NEW n, NEW par, NEW q, NEW t,
         Framed(sc, n, par, q, t), par.state = "PAYLOAD_WAIT",
         Len(q) >= par.header.payload_len
  PROVE  Framed(sc, n + 1, ParserZero, Drop(q, par.header.payload_len), t)
<1>0. /\ n \in 0 .. Len(sc) /\ q \in Seq(Unit) /\ t \in Seq(Unit)
      /\ n # Len(sc) /\ par.header = sc[n + 1] /\ par.header.type # "BAD"
  BY Zenon DEF Framed
<1>1. PICK a : a = Sent(sc, n)
  BY Zenon
<1>2. a \in Seq(Unit)
  BY <1>0, <1>1, SentStep, Zenon
<1>3. HeaderSize \in Nat /\ HeaderSize >= 2
  BY HeaderAssumption, Zenon
<1>4. PICK pkt, u : pkt = sc[n + 1] /\ u = ClientUnits(pkt)
  BY Zenon
<1>5. PICK r \in Seq(Unit) : Units(sc) = a \o (u \o r)
  BY <1>0, <1>1, <1>4, NextPacket, Zenon
<1>6. pkt \in ClientPackets /\ OnWire(pkt, u)
  BY <1>0, <1>4, NextPacket, Zenon
<1>7. PICK m \in Nat : m = pkt.payload_len
  BY <1>6, Zenon DEF ClientPackets
<1>8. u \in Seq(Unit) /\ Len(u) = HeaderSize + m
  BY <1>0, <1>4, <1>6, <1>7, Zenon DEF OnWire
<1>9. PICK h, y : h = SubSeq(u, 1, HeaderSize) /\ y = Drop(u, HeaderSize)
  BY Zenon
<1>10. h \in Seq(Unit) /\ y \in Seq(Unit) /\ Len(y) = m /\ u = h \o y
  <2>1. HeaderSize <= Len(u)
    BY <1>3, <1>8
  <2>2. /\ h \in Seq(Unit) /\ y \in Seq(Unit) /\ u = h \o y
        /\ Len(y) = Len(u) - HeaderSize
    BY <1>3, <1>8, <1>9, <2>1, FrontAndRest, ZenonT(30)
  <2> QED BY <1>3, <1>8, <2>2
<1>11. Held(par) = h
  BY <1>0, <1>4, <1>9, Zenon DEF Held
<1>12. PICK ah : ah = a \o h
  BY Zenon
<1>13. ah \in Seq(Unit) /\ ah \o (q \o t) = Units(sc)
  <2>1. ah \in Seq(Unit)
    BY <1>2, <1>10, <1>12
  <2>2. (Sent(sc, n) \o Held(par)) \o (q \o t) = Units(sc)
    BY Zenon DEF Framed
  <2> QED BY <1>1, <1>11, <1>12, <2>1, <2>2, Zenon
<1>14. Units(sc) = ah \o (y \o r)
  <2>1. Associates(h, y, r)
    BY <1>5, <1>10, Associative, Zenon
  <2>2. y \o r \in Seq(Unit)
    BY <1>5, <1>10
  <2>3. Associates(a, h, y \o r)
    BY <1>2, <1>10, <2>2, Associative, Zenon
  <2> QED BY <1>5, <1>10, <1>12, <2>1, <2>3, Zenon DEF Associates
<1>15. q \o t = y \o r
  <2>1. q \o t \in Seq(Unit) /\ y \o r \in Seq(Unit)
    BY <1>0, <1>5, <1>10
  <2>2. ah \o (q \o t) = ah \o (y \o r)
    BY <1>13, <1>14, Zenon
  <2> QED BY <1>13, <2>1, <2>2, CancelFront, Zenon
<1>16. Len(q) >= m
  BY <1>0, <1>4, <1>7, Zenon
<1>17. SubSeq(q, 1, m) = y
  <2>1. SubSeq(q, 1, m) = SubSeq(y, 1, m)
    <3>1. m <= Len(q) /\ m <= Len(y)
      BY <1>0, <1>10, <1>16
    <3>2. q \in Seq(Unit) /\ t \in Seq(Unit) /\ y \in Seq(Unit)
      BY <1>0, <1>10, Zenon
    <3> QED BY <1>5, <1>7, <1>15, <3>1, <3>2, SameFront, ZenonT(30)
  <2>2. SubSeq(y, 1, m) = y
    BY <1>10, WholeSubSeq, Zenon
  <2> QED BY <2>1, <2>2, Zenon
<1>18. PICK d : d = Drop(q, m)
  BY Zenon
<1>19. d \in Seq(Unit) /\ q = y \o d
  BY <1>0, <1>16, <1>17, <1>18, FrontAndRest, ZenonT(30)
<1>20. Sent(sc, n + 1) = a \o u
  BY <1>0, <1>1, <1>4, SentStep, Zenon
<1>21. (a \o u) \o (d \o t) = Units(sc)
  <2>1. Associates(y, d, t)
    BY <1>0, <1>10, <1>19, Associative, Zenon
  <2>2. d \o t \in Seq(Unit)
    BY <1>0, <1>19
  <2>3. Associates(ah, y, d \o t) /\ Associates(a, h, y)
    BY <1>2, <1>10, <1>13, <2>2, Associative, Zenon
  <2> QED BY <1>10, <1>12, <1>13, <1>19, <2>1, <2>3, Zenon DEF Associates
<1>22. (Sent(sc, n + 1) \o Held(ParserZero)) \o (d \o t) = Units(sc)
  <2>1. Held(ParserZero) = << >>
    BY Zenon DEF Held, ParserZero
  <2>2. a \o u \in Seq(Unit)
    BY <1>2, <1>8
  <2>3. (a \o u) \o << >> = a \o u
    BY <2>2
  <2> QED BY <1>20, <1>21, <2>1, <2>3, Zenon
<1>23. ParserZero.state # "PAYLOAD_WAIT" /\ n + 1 \in 0 .. Len(sc)
  BY <1>0 DEF ParserZero
<1>24. Framed(sc, n + 1, ParserZero, d, t)
  BY <1>0, <1>19, <1>22, <1>23, Zenon DEF Framed
<1> QED BY <1>0, <1>4, <1>7, <1>18, <1>24, Zenon

\* What PAYLOAD_WAIT does.
LEMMA PollPayloadFramed ==
  ASSUME ClientHeader = HeaderSize,
         NEW sc \in Seq(ClientPackets), NEW n, NEW header, NEW q, NEW t,
         Framed(sc, n, [state |-> "PAYLOAD_WAIT", header |-> header], q, t),
         NEW mem, NEW r, r = PollPayload(header, q, mem)
  PROVE  /\ r.result = "EMPTY" => Framed(sc, n, r.parser, r.q, t)
         /\ r.result = "SUCCESS" =>
              /\ Framed(sc, n + 1, r.parser, r.q, t)
              /\ n # Len(sc) /\ r.pkt = sc[n + 1] /\ r.pkt.type # "BAD"
<1>1. PICK par : par = [state |-> "PAYLOAD_WAIT", header |-> header]
  BY Zenon
<1>2. par.state = "PAYLOAD_WAIT" /\ par.header = header
  BY <1>1, Zenon
<1>3. /\ Framed(sc, n, par, q, t)
      /\ n # Len(sc) /\ header = sc[n + 1] /\ header.type # "BAD"
  BY <1>1, <1>2, Zenon DEF Framed
<1>4. CASE Len(q) < header.payload_len
  <2>1. r.result = "EMPTY" /\ r.parser = par /\ r.q = q
    BY <1>1, <1>4, Zenon DEF PollPayload, Polled
  <2> QED BY <1>3, <2>1, Zenon
<1>5. CASE ~(Len(q) < header.payload_len) /\ header.payload_len > 0 /\ ~mem
  <2>1. r.result = "ERROR"
    BY <1>5, Zenon DEF PollPayload, Polled
  <2> QED BY <2>1, Zenon
<1>6. CASE ~(Len(q) < header.payload_len) /\ ~(header.payload_len > 0 /\ ~mem)
  <2>1. /\ r.result = "SUCCESS" /\ r.parser = ParserZero
        /\ r.q = Drop(q, header.payload_len) /\ r.pkt = header
    BY <1>6, Zenon DEF PollPayload, Polled
  <2>2. Len(q) >= header.payload_len
    <3>1. Len(q) \in Nat /\ header.payload_len \in Nat
      <4>1. header \in ClientPackets
        BY <1>3, NextPacket, Zenon DEF Framed
      <4> QED BY <1>3, <4>1 DEF Framed, ClientPackets
    <3> QED BY <1>6, <3>1
  <2>3. Framed(sc, n + 1, ParserZero, Drop(q, header.payload_len), t)
    BY <1>2, <1>3, <2>2, PayloadTaken, Zenon
  <2> QED BY <1>3, <2>1, <2>3, Zenon
<1> QED BY <1>4, <1>5, <1>6, Zenon

\* The parser hands out the packets of the script, one after the other.
LEMMA PollFramed ==
  ASSUME ClientHeader = HeaderSize,
         NEW sc \in Seq(ClientPackets), NEW n, NEW par, NEW q, NEW t,
         Framed(sc, n, par, q, t),
         NEW mem, NEW r, r = vr_parser_poll(par, q, mem)
  PROVE  /\ r.result = "EMPTY" => Framed(sc, n, r.parser, r.q, t)
         /\ r.result = "SUCCESS" =>
              /\ Framed(sc, n + 1, r.parser, r.q, t)
              /\ n # Len(sc) /\ r.pkt = sc[n + 1] /\ r.pkt.type # "BAD"
<1>1. CASE par.state = "PAYLOAD_WAIT"
  <2>1. PICK p : p = [state |-> "PAYLOAD_WAIT", header |-> par.header]
    BY Zenon
  <2>2. p.state = par.state /\ p.header = par.header
    BY <1>1, <2>1, Zenon
  <2>3. Framed(sc, n, p, q, t)
    BY <2>2, Zenon DEF Framed, Held
  <2>4. r = PollPayload(par.header, q, mem)
    BY <1>1, Zenon DEF vr_parser_poll
  <2> QED BY <2>1, <2>3, <2>4, PollPayloadFramed
<1>2. CASE par.state # "PAYLOAD_WAIT" /\ Len(q) < HeaderSize
  <2>1. r.result = "EMPTY" /\ r.parser = par /\ r.q = q
    BY <1>2, Zenon DEF vr_parser_poll, Polled
  <2> QED BY <2>1, Zenon
<1>3. CASE par.state # "PAYLOAD_WAIT" /\ ~(Len(q) < HeaderSize) /\ ~validated(q)
  <2>1. r.result = "ERROR"
    BY <1>3, Zenon DEF vr_parser_poll, Polled
  <2> QED BY <2>1, Zenon
<1>4. CASE par.state # "PAYLOAD_WAIT" /\ ~(Len(q) < HeaderSize) /\ validated(q)
  <2>1. PICK h, d : h = vr_packet_header_deserialize(q) /\ d = Drop(q, HeaderSize)
    BY Zenon
  <2>2. Len(q) >= HeaderSize
    BY <1>4, HeaderAssumption DEF Framed
  <2>3. Framed(sc, n, [state |-> "PAYLOAD_WAIT", header |-> h], d, t)
    BY <1>4, <2>1, <2>2, HeaderTaken, Zenon
  <2>4. r = PollPayload(h, d, mem)
    BY <1>4, <2>1, Zenon DEF vr_parser_poll
  <2> QED BY <2>3, <2>4, PollPayloadFramed
<1> QED BY <1>1, <1>2, <1>3, <1>4, Zenon

\* The inductive form of PacketsIntact.
Framing ==
  /\ script \in Seq(ClientPackets)
  /\ Len(handled) \in 0 .. Len(script) /\ handled = SubSeq(script, 1, Len(handled))
  /\ pc \in {"writes", "reads", "packets"} => open
  /\ open => Framed(script, Len(handled), parser, rbuf.q, rx \o tosend)

\* A step that moves nothing, or that closes the connection.
LEMMA NothingFramed ==
  ASSUME Framing, UNCHANGED <<script, handled>>,
         UNCHANGED <<rx, tosend, rbuf, parser, open>> \/ ~open',
         pc' \in {"writes", "reads", "packets"} => open'
  PROVE  Framing'
<1>1. CASE ~open'
  BY <1>1, Zenon DEF Framing
<1>2. CASE UNCHANGED <<rx, tosend, rbuf, parser, open>>
  <2>1. /\ script' = script /\ handled' = handled /\ rx' = rx /\ tosend' = tosend
        /\ rbuf' = rbuf /\ parser' = parser /\ open' = open
    BY <1>2, Zenon
  <2>2. open => Framed(script', Len(handled'), parser', rbuf'.q, rx' \o tosend')
    BY <2>1, Zenon DEF Framing
  <2> QED BY <2>1, <2>2, Zenon DEF Framing
<1> QED BY <1>1, <1>2, Zenon

\* The client sends a unit.
LEMMA SendFramed ==
  ASSUME Inbound, Framing, ClientSend
  PROVE  Framing'
<1>1. /\ open /\ tosend # << >>
      /\ UNCHANGED <<script, handled, rbuf, parser, open, pc>>
      /\ rx' = Append(rx, Head(tosend)) /\ tosend' = Tail(tosend)
  BY Zenon DEF ClientSend, connVars, history
<1>2. rx \in Seq(Unit) /\ tosend \in Seq(Unit)
  BY Zenon DEF Inbound
<1>3. PICK h, t : h = <<Head(tosend)>> /\ t = Tail(tosend)
  BY Zenon
<1>4. h \in Seq(Unit) /\ t \in Seq(Unit) /\ tosend = h \o t
  BY <1>1, <1>2, <1>3
<1>5. rx' = rx \o h
  <2>1. Head(tosend) \in Unit
    BY <1>1, <1>2
  <2> QED BY <1>1, <1>2, <1>3, <2>1
<1>6. rx' \o tosend' = rx \o tosend
  <2>1. Associates(rx, h, t)
    BY <1>2, <1>4, Associative, Zenon
  <2> QED BY <1>1, <1>3, <1>4, <1>5, <2>1, Zenon DEF Associates
<1>7. Framed(script', Len(handled'), parser', rbuf'.q, rx' \o tosend')
  BY <1>1, <1>6, Zenon DEF Framing
<1> QED BY <1>1, <1>7, Zenon DEF Framing

\* recv() moves units to the read ring.
LEMMA RecvFramed ==
  ASSUME Inbound, Framing, RecvSome
  PROVE  Framing'
<1>0. PICK q, c, l, k : q = rbuf.q /\ c = rbuf.capacity /\ l = Len(q) /\ k = Len(rx)
  BY Zenon
<1>1. /\ q \in Seq(Unit) /\ c \in Nat /\ l \in Nat /\ k \in Nat
      /\ rx \in Seq(Unit) /\ tosend \in Seq(Unit)
  BY <1>0 DEF Inbound, Queues
<1>2. PICK n : n = IF k < c - l THEN k ELSE c - l
  BY Zenon
<1>3. /\ open /\ l < c /\ UNCHANGED <<script, handled, parser, open, pc, tosend>>
      /\ rbuf' = [rbuf EXCEPT !.q = q \o SubSeq(rx, 1, n)]
      /\ rx' = Drop(rx, n)
  BY <1>0, <1>2, Zenon DEF RecvSome, Framing, clientVars, history
<1>4. n \in Nat /\ n <= k
  BY <1>1, <1>2, <1>3
<1>5. PICK f, d : f = SubSeq(rx, 1, n) /\ d = Drop(rx, n)
  BY Zenon
<1>6. f \in Seq(Unit) /\ d \in Seq(Unit) /\ rx = f \o d
  <2>1. n <= Len(rx)
    BY <1>0, <1>4, Zenon
  <2>2. rx = SubSeq(rx, 1, n) \o Drop(rx, n)
    BY <1>1, <1>4, <2>1, FrontAndRest, Zenon
  <2>3. SubSeq(rx, 1, n) \in Seq(Unit) /\ Drop(rx, n) \in Seq(Unit)
    BY <1>1, <1>4, <2>1, FrontAndRest, Zenon
  <2> QED BY <1>5, <2>2, <2>3, Zenon
<1>7. rbuf'.q = q \o f
  BY <1>0, <1>3, <1>5, Zenon DEF Inbound, Queues
<1>8. q \o f \in Seq(Unit) /\ d \o tosend \in Seq(Unit)
  BY <1>1, <1>6
<1>9. (q \o f) \o (d \o tosend) = q \o (rx \o tosend)
  <2>1. Associates(q, f, d \o tosend) /\ Associates(f, d, tosend)
    BY <1>1, <1>6, <1>8, Associative, Zenon
  <2> QED BY <1>6, <2>1, Zenon DEF Associates
<1>10. Framed(script, Len(handled), parser, q, rx \o tosend)
  BY <1>0, <1>3, Zenon DEF Framing
<1>11. Framed(script, Len(handled), parser, q \o f, d \o tosend)
  BY <1>8, <1>9, <1>10, Zenon DEF Framed
<1>12. Framed(script', Len(handled'), parser', rbuf'.q, rx' \o tosend')
  BY <1>3, <1>5, <1>7, <1>11, Zenon
<1> QED BY <1>3, <1>12, Zenon DEF Framing

\* The parser is polled, and what it hands out is handled.
LEMMA PollFrames ==
  ASSUME ClientHeader = HeaderSize, Inbound, Framing, pc = "packets",
         NEW mem, NEW p, p = vr_parser_poll(parser, rbuf.q, mem),
         \/ p.result = "EMPTY" /\ UNCHANGED handled
         \/ p.result = "SUCCESS" /\ handled' = Append(handled, p.pkt),
         parser' = p.parser, rbuf' = [rbuf EXCEPT !.q = p.q],
         UNCHANGED <<script, rx, tosend, open>>
  PROVE  Framing'
<1>1. PICK n, t, q : n = Len(handled) /\ t = rx \o tosend /\ q = rbuf.q
  BY Zenon
<1>2. /\ open /\ script \in Seq(ClientPackets) /\ n \in 0 .. Len(script)
      /\ handled = SubSeq(script, 1, n) /\ Framed(script, n, parser, q, t)
  BY <1>1, Zenon DEF Framing
<1>3. rbuf'.q = p.q
  BY Zenon DEF Inbound, Queues
<1>4. /\ p.result = "EMPTY" => Framed(script, n, p.parser, p.q, t)
      /\ p.result = "SUCCESS" =>
           /\ Framed(script, n + 1, p.parser, p.q, t)
           /\ n # Len(script) /\ p.pkt = script[n + 1]
  BY <1>1, <1>2, PollFramed
<1>5. rx' \o tosend' = t
  BY <1>1, Zenon
<1>6. CASE p.result = "EMPTY" /\ UNCHANGED handled
  <2>1. Framed(script', Len(handled'), parser', rbuf'.q, rx' \o tosend')
    BY <1>1, <1>3, <1>4, <1>5, <1>6, Zenon
  <2> QED BY <1>2, <1>6, <2>1, Zenon DEF Framing
<1>7. CASE p.result = "SUCCESS" /\ handled' = Append(handled, p.pkt)
  <2>1. handled' = SubSeq(script, 1, n + 1) /\ Len(handled') = n + 1
    <3>1. n + 1 \in 1 .. Len(script)
      BY <1>2, <1>4, <1>7
    <3>2. PICK m, s : m = n + 1 /\ s = SubSeq(script, 1, m)
      BY Zenon
    <3>3. /\ s \in Seq(ClientPackets) /\ Len(s) = m
          /\ \A i \in 1 .. m : s[i] = script[i]
      BY <1>2, <3>1, <3>2, SubSeqFacts
    <3>4. /\ handled \in Seq(ClientPackets) /\ Len(handled) = n
          /\ \A i \in 1 .. n : handled[i] = script[i]
      BY <1>2, SubSeqFacts
    <3>5. p.pkt = script[m] /\ p.pkt \in ClientPackets
      BY <1>2, <1>4, <1>7, <3>1, <3>2
    <3>6. /\ handled' \in Seq(ClientPackets) /\ Len(handled') = m
          /\ \A i \in 1 .. n : handled'[i] = handled[i]
          /\ handled'[m] = p.pkt
      BY <1>7, <3>2, <3>4, <3>5, AppendFacts
    <3>7. \A i \in 1 .. m : handled'[i] = s[i]
      <4> TAKE i \in 1 .. m
      <4>1. n \in Nat /\ m \in 1 .. m /\ (i \in 1 .. n \/ i = m)
        BY <1>2, <3>1, <3>2
      <4>2. s[i] = script[i]
        BY <3>3, Zenon
      <4>3. CASE i = m
        BY <3>5, <3>6, <4>2, <4>3, Zenon
      <4>4. CASE i \in 1 .. n
        BY <3>4, <3>6, <4>2, <4>4, Zenon
      <4> QED BY <4>1, <4>3, <4>4, Zenon
    <3>8. handled' = s
      BY <3>3, <3>6, <3>7, SameSeq, Zenon
    <3> QED BY <3>2, <3>6, <3>8, Zenon
  <2>2. n + 1 \in 0 .. Len(script)
    BY <1>2, <1>4, <1>7
  <2>3. Framed(script', Len(handled'), parser', rbuf'.q, rx' \o tosend')
    BY <1>3, <1>4, <1>5, <1>7, <2>1, Zenon
  <2> QED BY <1>2, <2>1, <2>2, <2>3, Zenon DEF Framing
<1> QED BY <1>6, <1>7, Zenon

\* The steps of the server and of the client.
LEMMA FramingStep ==
  ASSUME ClientHeader = HeaderSize, Inbound, Framing, [Next]_vars
  PROVE  Framing'
<1>1. ASSUME ConnectionGone, UNCHANGED history, pc' \in {"wait", "crashed"}
      PROVE  Framing'
  <2>1. ~open' /\ UNCHANGED <<script, handled>>
    BY <1>1, Zenon DEF ConnectionGone, clientVars, history
  <2> QED BY <1>1, <2>1, NothingFramed, Zenon
<1>2. CASE SendErrnoLost \/ SendFails \/ RecvEnds \/ RecvFails
  BY <1>1, <1>2, Zenon
     DEF SendErrnoLost, SendFails, RecvEnds, RecvFails, reactor_close_connection
<1>3. ASSUME NEW mem \in Mem, ParseFails(mem) \/ HandlerCrashes(mem)
      PROVE  Framing'
  BY <1>1, <1>3, Zenon DEF ParseFails, HandlerCrashes, reactor_close_connection
<1>4. CASE vr_reactor_wait
  <2>1. open /\ UNCHANGED <<script, handled, rx, tosend, rbuf, parser, open>>
    BY <1>4, Zenon DEF vr_reactor_wait, clientVars, connVars, history
  <2> QED BY <2>1, NothingFramed, Zenon
<1>5. CASE \/ \E n \in 1 .. SndBuf : SendSome(n)
           \/ SendWouldBlock \/ WritesDone \/ RecvWouldBlock
  <2>1. /\ pc \in {"writes", "reads"}
        /\ UNCHANGED <<script, handled, rx, tosend, rbuf, parser, open>>
    BY <1>5, Zenon DEF SendSome, SendWouldBlock, WritesDone, RecvWouldBlock, clientVars,
       sockVars, connVars, history
  <2> QED BY <2>1, NothingFramed, Zenon DEF Framing
<1>6. ASSUME NEW avail \in Grants, GrowReadBuffer(avail) PROVE Framing'
  <2>1. /\ pc = "reads" /\ UNCHANGED <<script, handled, rx, tosend, parser, open>>
        /\ rbuf'.q = rbuf.q
    BY <1>6, Zenon DEF GrowReadBuffer, Inbound, Queues, clientVars, sockVars, history
  <2>2. open /\ Framed(script', Len(handled'), parser', rbuf'.q, rx' \o tosend')
    BY <2>1, Zenon DEF Framing
  <2> QED BY <2>1, <2>2, Zenon DEF Framing
<1>7. CASE ParseNothing
  <2>1. PICK p : p = vr_parser_poll(parser, rbuf.q, TRUE)
    BY Zenon
  <2>2. /\ pc = "packets" /\ p.result = "EMPTY" /\ parser' = p.parser
        /\ rbuf' = [rbuf EXCEPT !.q = p.q]
        /\ UNCHANGED <<handled, script, rx, tosend, open>>
    BY <1>7, <2>1, Zenon DEF ParseNothing, clientVars, history
  <2> QED BY <2>1, <2>2, PollFrames, Zenon
<1>8. ASSUME NEW mem \in Mem, NEW staged \in Mem, NEW avail \in Grants,
             HandlePacket(mem, avail, staged)
      PROVE  Framing'
  <2>1. PICK p : p = vr_parser_poll(parser, rbuf.q, mem)
    BY Zenon
  <2>2. /\ pc = "packets" /\ p.result = "SUCCESS" /\ parser' = p.parser
        /\ rbuf' = [rbuf EXCEPT !.q = p.q]
        /\ handled' = Append(handled, p.pkt)
        /\ UNCHANGED <<script, rx, tosend, open>>
    BY <1>8, <2>1, Zenon DEF HandlePacket, clientVars
  <2> QED BY <2>1, <2>2, PollFrames, Zenon
<1>9. CASE ClientReceive \/ ClientShutdown \/ ClientReset \/ UNCHANGED vars
  <2>1. UNCHANGED <<script, handled, rx, tosend, rbuf, parser, open, pc>>
    BY <1>9, Zenon DEF ClientReceive, ClientShutdown, ClientReset, vars, clientVars,
       sockVars, connVars, history
  <2> QED BY <2>1, NothingFramed, Zenon DEF Framing
<1> QED
  BY <1>2, <1>3, <1>4, <1>5, <1>6, <1>7, <1>8, <1>9, SendFramed, RecvFramed, Zenon
     DEF Next, Server, Client

\* The inductive form is an invariant.
LEMMA FramingAlways ==
  ASSUME ClientHeader = HeaderSize
  PROVE  Spec => []Framing
<1>1. Init => Framing
  <2> SUFFICES ASSUME Init PROVE Framing
    BY Zenon
  <2>1. /\ script \in Seq(ClientPackets) /\ tosend = Units(script)
        /\ handled = << >> /\ pc = "wait"
        /\ rx = << >> /\ rbuf.q = << >> /\ parser.state # "PAYLOAD_WAIT"
    BY ScriptsAssumption, Zenon DEF Init, QueueZero, ParserZero
  <2>2. handled = SubSeq(script, 1, 0) /\ Len(handled) = 0 /\ 0 \in 0 .. Len(script)
    BY <2>1
  <2>3. Sent(script, 0) = << >>
    <3>1. PICK g : /\ Unrolled([i \in 1 .. 0 |-> ClientUnits(script[i])], 0, g)
                   /\ Sent(script, 0) = g[0]
      BY <2>1, <2>2, SentUnrolled, Zenon
    <3> QED BY <3>1, UnrolledAt
  <2>4. tosend \in Seq(Unit) /\ << >> \in Seq(Unit)
    <3>1. Units(script) = Sent(script, Len(script))
      BY <2>1, WholeSubSeq, Zenon DEF Sent
    <3>2. Len(script) \in 0 .. Len(script)
      BY <2>1
    <3> QED BY <2>1, <3>1, <3>2, SentStep
  <2>5. rx \o tosend = tosend /\ rbuf.q \o tosend = tosend
    BY <2>1, <2>4
  <2>6. (Sent(script, 0) \o Held(parser)) \o tosend = Units(script)
    <3>1. Held(parser) = << >>
      BY <2>1, Zenon DEF Held
    <3>2. << >> \o << >> = << >>
      OBVIOUS
    <3> QED BY <2>1, <2>3, <2>4, <3>1, <3>2
  <2>7. Framed(script, Len(handled), parser, rbuf.q, rx \o tosend)
    BY <2>1, <2>2, <2>4, <2>5, <2>6, Zenon DEF Framed
  <2> QED BY <2>1, <2>2, <2>7, Zenon DEF Framing
<1>2. Inbound /\ Framing /\ [Next]_vars => Framing'
  BY FramingStep, Zenon
<1> QED BY <1>1, <1>2, TypesAlways, PTL DEF Spec

\* Where the client sends headers of the length that the parser takes, the
\* packets handled, the header the parser holds and the bytes in the read
\* ring, in the kernel and at the client are its packets, in order: for every
\* script, every size of the ring and of the socket's buffer, however the
\* bytes are cut up on the way and whatever allocation does.
THEOREM FramingCorrect ==
  ASSUME ClientHeader = HeaderSize
  PROVE  Spec => []PacketsIntact
<1>1. Inbound /\ Framing => PacketsIntact
  <2> SUFFICES ASSUME Inbound, Framing PROVE PacketsIntact
    BY Zenon
  <2>1. Begins(handled, script)
    BY DEF Framing, Begins
  <2>2. ASSUME open
        PROVE  Units(handled) \o Held(parser) \o rbuf.q \o rx \o tosend
                 = Units(script)
    <3>1. PICK a, h, q : a = Units(handled) /\ h = Held(parser) /\ q = rbuf.q
      BY Zenon
    <3>2. Framed(script, Len(handled), parser, q, rx \o tosend)
      BY <2>2, <3>1, Zenon DEF Framing
    <3>3. a = Sent(script, Len(handled)) /\ a \in Seq(Unit)
      BY <3>1, SentStep, Zenon DEF Framing, Sent
    <3>4. /\ q \in Seq(Unit) /\ rx \in Seq(Unit) /\ tosend \in Seq(Unit)
      BY <3>1, Zenon DEF Inbound, Queues
    <3>5. h \in Seq(Unit)
      <4>1. CASE parser.state # "PAYLOAD_WAIT"
        BY <3>1, <4>1 DEF Held
      <4>2. CASE parser.state = "PAYLOAD_WAIT"
        <5>1. parser.header \in ClientPackets
          BY <3>2, <4>2, NextPacket, Zenon DEF Framed, Framing
        <5>2. PICK u : u = ClientUnits(parser.header)
          BY Zenon
        <5>3. u \in Seq(Unit) /\ Len(u) >= HeaderSize
          BY <5>1, <5>2, ClientUnitsOnWire, HeaderAssumption
             DEF OnWire, ClientPackets
        <5> QED
          BY <3>1, <4>2, <5>2, <5>3, FrontAndRest, HeaderAssumption, Zenon DEF Held
      <4> QED BY <4>1, <4>2, Zenon
    <3>6. PICK ah : ah = a \o h
      BY Zenon
    <3>7. ah \in Seq(Unit)
      BY <3>3, <3>5, <3>6
    <3>8. ah \o (q \o (rx \o tosend)) = Units(script)
      BY <3>1, <3>2, <3>3, <3>6, Zenon DEF Framed
    <3>9. rx \o tosend \in Seq(Unit) /\ ah \o q \in Seq(Unit)
      BY <3>4, <3>7
    <3>10. Associates(ah, q, rx \o tosend) /\ Associates(ah \o q, rx, tosend)
      BY <3>4, <3>7, <3>9, Associative, Zenon
    <3> QED BY <3>1, <3>6, <3>8, <3>10, Zenon DEF Associates
  <2> QED BY <2>1, <2>2, Zenon DEF PacketsIntact, Held
<1> QED BY <1>1, TypesAlways, FramingAlways, PTL

-----------------------------------------------------------------------------
(* The session *)

\* The step of a session that the handling of a packet is.
LEMMA HandleServes ==
  ASSUME ClientHeader = HeaderSize, Inbound, Framing,
         NEW mem, NEW staged, NEW avail, HandlePacket(mem, avail, staged)
  PROVE  Service!Handle
<1>1. PICK p : p = vr_parser_poll(parser, rbuf.q, mem)
  BY Zenon
<1>2. PICK n : n = Len(handled)
  BY Zenon
<1>3. PICK r : r = vr_protocol_handle_packet(proto, p.pkt)
  BY Zenon
<1>4. /\ pc = "packets" /\ p.result = "SUCCESS"
      /\ handled' = Append(handled, p.pkt) /\ proto' = r.conn
      /\ \/ r.response = NoResponse /\ UNCHANGED <<answers, lost>>
         \/ /\ r.response # NoResponse
            /\ answers' = answers \o ResponseUnits(r.response) /\ UNCHANGED lost
         \/ /\ r.response # NoResponse
            /\ lost' = Append(lost, r.response) /\ UNCHANGED answers
      /\ UNCHANGED <<script, got, open>>
  BY <1>1, <1>3, Zenon DEF HandlePacket, clientVars
<1>5. /\ open /\ script \in Seq(ClientPackets) /\ n \in 0 .. Len(script)
      /\ Framed(script, n, parser, rbuf.q, rx \o tosend)
  BY <1>2, <1>4, Zenon DEF Framing
<1>6. n # Len(script) /\ p.pkt = script[n + 1] /\ p.pkt.type # "BAD"
  BY <1>1, <1>4, <1>5, PollFramed
<1>7. n < Len(script)
  BY <1>5, <1>6
<1> QED BY <1>2, <1>3, <1>4, <1>5, <1>6, <1>7, Zenon DEF Service!Handle, WellFormed

\* The step of a session that the client's receiving is.
LEMMA ReceiveServes ==
  ASSUME Delivered, ClientReceive
  PROVE  Service!Deliver
<1>1. PICK S, rest : Whole(S, rest)
  BY Zenon DEF Delivered
<1>2. /\ tx # << >> /\ got' = Append(got, Head(tx))
      /\ UNCHANGED <<script, handled, proto, answers, lost, open>>
  BY Zenon DEF ClientReceive, connVars, history
<1>3. /\ got \in Seq(S) /\ tx \in Seq(S) /\ rest \in Seq(S)
      /\ answers = (got \o tx) \o rest
  BY <1>1, Zenon DEF Whole
<1>4. PICK b : b = got \o tx
  BY Zenon
<1>5. PICK n, l, m : n = Len(got) /\ l = Len(tx) /\ m = Len(rest)
  BY Zenon
<1>6. /\ n \in Nat /\ l \in Nat /\ l # 0 /\ m \in Nat /\ Head(tx) = tx[1]
  BY <1>2, <1>3, <1>5
<1>7. /\ b \in Seq(S) /\ Len(b) = n + l /\ b[n + 1] = tx[1]
  BY <1>3, <1>4, <1>5, <1>6
<1>8. /\ Len(answers) = (n + l) + m /\ answers[n + 1] = b[n + 1]
  BY <1>3, <1>4, <1>5, <1>6, <1>7
<1>9. n < Len(answers)
  BY <1>6, <1>8
<1> QED BY <1>2, <1>5, <1>6, <1>7, <1>8, <1>9, Zenon DEF Service!Deliver

\* Every step of the server and of the client is one of a session, or none.
LEMMA StepOfSession ==
  ASSUME ClientHeader = HeaderSize, Inbound, Delivered, Framing, [Next]_vars
  PROVE  [Service!SessionNext]_(Service!session)
<1>1. ASSUME ConnectionGone, UNCHANGED history, open PROVE Service!End
  BY <1>1, Zenon DEF ConnectionGone, clientVars, history, Service!End
<1>2. CASE SendErrnoLost \/ SendFails \/ RecvEnds \/ RecvFails
  <2>1. /\ ConnectionGone /\ UNCHANGED history
        /\ pc \in {"writes", "reads"}
    BY <1>2, Zenon
       DEF SendErrnoLost, SendFails, RecvEnds, RecvFails, reactor_close_connection
  <2> QED BY <1>1, <2>1, Zenon DEF Framing, Service!SessionNext
<1>3. ASSUME NEW mem \in Mem, ParseFails(mem) \/ HandlerCrashes(mem)
      PROVE  Service!End
  <2>1. ConnectionGone /\ UNCHANGED history /\ pc = "packets"
    BY <1>3, Zenon DEF ParseFails, HandlerCrashes, reactor_close_connection
  <2> QED BY <1>1, <2>1, Zenon DEF Framing
<1>4. ASSUME NEW mem \in Mem, NEW staged \in Mem, NEW avail \in Grants,
             HandlePacket(mem, avail, staged)
      PROVE  Service!Handle
  BY <1>4, HandleServes, Zenon
<1>5. CASE \/ vr_reactor_wait \/ SendWouldBlock \/ WritesDone
           \/ RecvSome \/ RecvWouldBlock \/ ParseNothing
           \/ \E n \in 1 .. SndBuf : SendSome(n)
           \/ \E avail \in Grants : GrowReadBuffer(avail)
  <2>1. UNCHANGED <<script, handled, proto, answers, lost, got, open>>
    BY <1>5, Zenon DEF vr_reactor_wait, SendWouldBlock, WritesDone, RecvSome,
       RecvWouldBlock, ParseNothing, SendSome, GrowReadBuffer,
       clientVars, sockVars, connVars, history
  <2> QED BY <2>1, Zenon DEF Service!session
<1>6. CASE ClientSend \/ ClientShutdown \/ ClientReset \/ UNCHANGED vars
  <2>1. UNCHANGED <<script, handled, proto, answers, lost, got, open>>
    BY <1>6, Zenon DEF ClientSend, ClientShutdown, ClientReset, vars,
       clientVars, sockVars, connVars, history
  <2> QED BY <2>1, Zenon DEF Service!session
<1> QED
  BY <1>2, <1>3, <1>4, <1>5, <1>6, ReceiveServes, Zenon
     DEF Next, Server, Client, Service!SessionNext

\* For every client whose headers have the length the parser takes, every
\* size of the rings and of the socket's buffers and every outcome of
\* allocation, the data path is a session.
THEOREM SessionCorrect ==
  ASSUME ClientHeader = HeaderSize
  PROVE  Spec => ServesSession
<1>1. Init => Service!SessionInit
  BY Zenon DEF Init, Service!SessionInit
<1>2. Inbound /\ Delivered /\ Framing /\ [Next]_vars
        => [Service!SessionNext]_(Service!session)
  BY StepOfSession, Zenon
<1> QED BY <1>1, <1>2, TypesAlways, DeliveredAlways, FramingAlways, PTL
        DEF Spec, ServesSession, Service!SessionSpec
=============================================================================
