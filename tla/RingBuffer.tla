---------------------------- MODULE RingBuffer -----------------------------
(***************************************************************************)
(* One ring buffer under every sequence of calls of its interface          *)
(* (src/include/velora/conn.h), with every outcome of malloc().            *)
(***************************************************************************)
EXTENDS RingOps

CONSTANT MaxSpan   \* bound: the longest span one call writes or reserves

ASSUME SpanAssumption == MaxSpan \in Nat \ {0}

VARIABLES
  buf,   \* the struct
  ret,   \* what the last call returned: "SUCCESS" or "ERROR"
  out    \* the bytes the last call handed to its caller

vars == <<buf, ret, out>>

\* malloc grants everything up to `avail' bytes.  Rings only ask for one of
\* the Capacities, so no other value makes a difference.
Avail == {0} \cup Capacities

\* The outcomes of a call that fails, and of one that hands out nothing.
Fails    == ret' = "ERROR" /\ out' = << >>
Succeeds == ret' = "SUCCESS" /\ out' = << >>
Returns(ok) == ret' = (IF ok THEN "SUCCESS" ELSE "ERROR")

Init == buf = RingZero /\ ret = "SUCCESS" /\ out = << >>

-----------------------------------------------------------------------------
(* Calls that allocate *)

InitCall(avail) ==
  /\ buf' = vr_conn_ring_buf_init(buf, avail)
  /\ Returns(init_ok(buf, avail)) /\ out' = << >>

GrowCall(avail) ==
  /\ buf' = vr_conn_ring_buf_grow(buf, avail)
  /\ Returns(grow_ok(buf, avail)) /\ out' = << >>

ReserveCall(needed, avail) ==
  /\ buf' = vr_conn_ring_buf_reserve(buf, needed, avail)
  /\ Returns(reserve_ok(buf, needed, avail)) /\ out' = << >>

-----------------------------------------------------------------------------
(* Calls that add bytes *)

PushCall(byte, avail) ==
  /\ buf' = vr_conn_ring_buf_push(buf, byte, avail)
  /\ Returns(push_ok(buf, avail)) /\ out' = << >>

\* contiguous_write(), the caller's memcpy() into the span, commit().
WriteSpan(bytes) ==
  /\ Len(bytes) <= vr_conn_ring_buf_contiguous_write(buf)
  /\ buf' = vr_conn_ring_buf_commit(CopyIn(buf, buf.write_pos, bytes),
                                    Len(bytes))
  /\ Succeeds

\* A commit of more than is free is refused.
CommitTooMuch(n) ==
  /\ ~commit_ok(buf, n)
  /\ buf' = vr_conn_ring_buf_commit(buf, n)
  /\ Fails

RecvCall(bytes) ==
  /\ Len(bytes) <= recv_room(buf)
  /\ buf' = vr_socket_recv_ring_buf(buf, bytes)
  /\ Succeeds

EnqueueCall(bytes, avail, staged) ==
  /\ buf' = reactor_enqueue_response(buf, bytes, avail, staged)
  /\ Returns(enqueue_ok(buf, bytes, avail, staged)) /\ out' = << >>

-----------------------------------------------------------------------------
(* Calls that look at bytes or remove them *)

PopCall ==
  /\ buf' = vr_conn_ring_buf_pop(buf)
  /\ Returns(buf.count > 0)
  /\ out' = IF buf.count > 0 THEN <<buf.data[buf.read_pos]>> ELSE << >>

PeekCall ==
  /\ UNCHANGED buf
  /\ Returns(buf.count > 0)
  /\ out' = IF buf.count > 0 THEN <<buf.data[buf.read_pos]>> ELSE << >>

PeekNCall(len) ==
  /\ UNCHANGED buf
  /\ Returns(peek_n_ok(buf, len))
  /\ out' = IF peek_n_ok(buf, len) THEN vr_conn_ring_buf_peek_n(buf, len)
                                   ELSE << >>

\* The caller reads the whole span contiguous_read() points at.
ReadSpan ==
  /\ UNCHANGED buf
  /\ ret' = "SUCCESS"
  /\ out' = [i \in 1 .. vr_conn_ring_buf_contiguous_read(buf) |->
               buf.data[buf.read_pos + i - 1]]

ConsumeCall(n) ==
  /\ buf' = vr_conn_ring_buf_consume(buf, n)
  /\ Returns(consume_ok(buf, n)) /\ out' = << >>

-----------------------------------------------------------------------------
Spans == UNION {[1 .. n -> Byte] : n \in 1 .. MaxSpan}

Next ==
  \/ \E avail \in Avail : InitCall(avail)
  \/ \E avail \in Avail : GrowCall(avail)
  \/ \E avail \in Avail, n \in 1 .. MaxSpan : ReserveCall(n, avail)
  \/ \E avail \in Avail, byte \in Byte : PushCall(byte, avail)
  \/ \E bytes \in Spans : WriteSpan(bytes)
  \/ \E n \in 1 .. MaxSpan : CommitTooMuch(n)
  \/ \E bytes \in Spans : RecvCall(bytes)
  \/ \E avail \in Avail, staged \in BOOLEAN, bytes \in Spans :
        EnqueueCall(bytes, avail, staged)
  \/ PopCall
  \/ PeekCall
  \/ \E n \in 1 .. MaxSpan : PeekNCall(n)
  \/ ReadSpan
  \/ \E n \in 1 .. MaxSpan : ConsumeCall(n)

Spec == Init /\ [][Next]_vars

-----------------------------------------------------------------------------
(* Properties *)

\* The struct is an array of `capacity' cells, a count that fits in it, two
\* positions and a state (vr_connection_ring_buf_t).
RingType(b) ==
  /\ b.capacity \in 0 .. MaxSize
  /\ b.count \in 0 .. b.capacity
  /\ b.read_pos \in Nat
  /\ b.write_pos \in Nat
  /\ DOMAIN b.data = 0 .. b.capacity - 1
  /\ \A i \in DOMAIN b.data : b.data[i] \in Cell
  /\ b.state \in {"UNALLOC", "ACTIVE", "FULL"}

\* Every call leaves a struct of the declared type.
TypeOK ==
  /\ DOMAIN buf = DOMAIN RingZero
  /\ RingType(buf)
  /\ ret \in {"SUCCESS", "ERROR"}
  /\ out \in Seq(Cell)

\* The relation between the three redundant fields that every operation
\* relies on and none checks: write_pos is count bytes after read_pos around
\* the ring, both lie inside the array, and only an allocated ring is in use.
RingConsistent(b) ==
  /\ b.state = "UNALLOC" <=> b.capacity = 0
  /\ b.capacity = 0 => b.read_pos = 0 /\ b.write_pos = 0
  /\ b.capacity # 0 =>
       /\ b.read_pos < b.capacity
       /\ b.write_pos < b.capacity
       /\ b.write_pos \in {b.read_pos + b.count,
                            b.read_pos + b.count - b.capacity}

\* After any sequence of calls count, read_pos and write_pos agree.
RingInv == RingConsistent(buf)

\* The branch of reactor_enqueue_response() marked "should be unreachable"
\* is: a reserve() that succeeds leaves a writable region, and when the
\* packet wraps, a second region that holds its remainder, so that no
\* response is ever queued in part.
NeverTorn ==
  \A bytes \in Spans, avail \in Avail :
    reserve_ok(buf, packet_size(bytes), avail) =>
      LET r == vr_conn_ring_buf_reserve(buf, packet_size(bytes), avail)
      IN  /\ vr_conn_ring_buf_contiguous_write(r) > 0
          /\ fits_contiguous(r, bytes) \/ second_region_ok(r, bytes)

\* One turn of the loop of vr_conn_ring_buf_reserve(): nothing once there is
\* room, or when grow() fails.
ReserveTurn(b, needed, avail) ==
  IF vr_conn_ring_buf_free(b) >= needed \/ ~grow_ok(b, avail) THEN b
  ELSE vr_conn_ring_buf_grow(b, avail)

\* The loop.  Every grow() enlarges the ring, so it ends within MaxSize turns.
ReserveLoop(b, needed, avail) ==
  LET ring[i \in 0 .. MaxSize] ==
        IF i = 0 THEN b ELSE ReserveTurn(ring[i - 1], needed, avail)
  IN  ring[MaxSize]

\* One relocation to the capacity where the loop stops gives the struct that
\* the loop of relocations in vr_conn_ring_buf_reserve() gives, and the loop
\* has ended there: with the room asked for, or with a grow() that fails.
ReserveIsLoop ==
  \A n \in 1 .. MaxSpan + HeaderPad, avail \in Avail :
    LET l == ReserveLoop(vr_conn_ring_buf_init(buf, avail), n, avail)
    IN  /\ vr_conn_ring_buf_reserve(buf, n, avail) = l
        /\ vr_conn_ring_buf_free(l) >= n \/ ~grow_ok(l, avail)

\* recvmsg() is offered all the free space, in regions that lie inside the
\* array: the read loop is never told "no room" while the ring has room.
RecvSeesAllRoom ==
  /\ recv_room(buf) = vr_conn_ring_buf_free(buf)
  /\ buf.write_pos + recv_region1(buf) <= buf.capacity

\* A call that reports an error has neither lost nor added a queued byte,
\* whichever of its allocations failed.
ErrorKeepsContents ==
  [][ret' = "ERROR" => Contents(buf') = Contents(buf)]_vars

\* A response reported as queued is in the ring whole, after everything that
\* was queued before it, wrapped or not, grown or not: what
\* reactor_enqueue_response() would do in any state that is reached.
EnqueueAppends ==
  \A bytes \in Spans, avail \in Avail :
    enqueue_ok(buf, bytes, avail, TRUE) =>
      LET r == reactor_enqueue_response(buf, bytes, avail, TRUE)
      IN  /\ r.count = buf.count + packet_size(bytes)
          /\ SubSeq(Contents(r), 1, buf.count + Len(bytes))
               = Contents(buf) \o bytes

\* The ring implements a first-in first-out queue of at most MaxSize bytes:
\* growth, wrap-around and rewinding are invisible to its users.
FIFO == INSTANCE ByteQueue
          WITH Byte <- Cell, Limit <- MaxSize, queue <- Contents(buf)
Fifo == FIFO!QueueSpec
=============================================================================
