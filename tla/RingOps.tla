------------------------------ MODULE RingOps ------------------------------
(***************************************************************************)
(* The operations of the dynamic ring buffer as functions from a buffer to *)
(* a buffer (src/src/conn/ring_buffer.c), the socket receive that scatters *)
(* into it (src/src/net/socket_utils.c) and the two-region enqueue of a    *)
(* serialized packet (src/src/event_loop/reactor.c).                       *)
(*                                                                         *)
(* A buffer is the C struct vr_connection_ring_buf_t.  Memory that malloc  *)
(* returned and nobody wrote holds Uninit.  An operation that fails        *)
(* returns what it leaves behind; its ..._ok predicate says when it        *)
(* succeeds.  Memory is an input of the operations that allocate: `avail'  *)
(* is the largest block malloc grants during the call.                     *)
(***************************************************************************)
EXTENDS Integers, Sequences

CONSTANTS
  Byte,         \* the values of a byte, as far as anyone tells them apart
  Uninit,       \* the content of memory nobody has written
  InitialSize,  \* VR_CONNECTION_BUFFER_INITIAL_SIZE
  MaxSize,      \* VR_CONNECTION_BUFFER_MAX_SIZE
  PosRange,     \* 2^16: read_pos and write_pos are uint16_t
  HeaderPad     \* sizeof(vr_packet_header_t) less its 8 bytes on the wire

ASSUME UninitAssumption == Uninit \notin Byte

\* 4096 <= 65536 <= 2^16: every position inside the largest ring fits.
ASSUME SizeAssumption ==
  /\ InitialSize \in Nat \ {0}
  /\ MaxSize \in Nat
  /\ PosRange \in Nat
  /\ HeaderPad \in Nat
  /\ InitialSize <= MaxSize
  /\ MaxSize <= PosRange

Cell == Byte \cup {Uninit}

\* A zeroed struct: what memset leaves in a new connection.
RingZero == [data |-> << >>, capacity |-> 0, count |-> 0,
             read_pos |-> 0, write_pos |-> 0, state |-> "UNALLOC"]

\* What the ring holds, oldest byte first: the meaning of the struct.
Contents(b) == [i \in 1 .. b.count |->
                  b.data[(b.read_pos + i - 1) % b.capacity]]

-----------------------------------------------------------------------------
(* Queries *)

vr_conn_ring_buf_free(b) == b.capacity - b.count

vr_conn_ring_buf_contiguous_read(b) ==
  IF b.count = 0 THEN 0
  ELSE IF b.read_pos < b.write_pos THEN b.count
  ELSE b.capacity - b.read_pos

\* Mutant: read_pos = write_pos taken for a full ring.
contiguous_write_strict(b) ==
  LET free_space == b.capacity - b.count
      region == IF b.write_pos > b.read_pos
                THEN b.capacity - b.write_pos
                ELSE b.read_pos - b.write_pos
  IN  IF region > free_space THEN free_space ELSE region

\* The length of the writable region at write_pos.
vr_conn_ring_buf_contiguous_write(b) ==
  LET free_space == b.capacity - b.count
      region == IF b.write_pos >= b.read_pos
                THEN b.capacity - b.write_pos
                ELSE b.read_pos - b.write_pos
  IN  IF region > free_space THEN free_space ELSE region

peek_n_ok(b, len) == len <= b.count

\* Two memcpy()s: up to the physical end, then from the start of the array.
vr_conn_ring_buf_peek_n(b, len) ==
  LET first_chunk == b.capacity - b.read_pos
  IN  [i \in 1 .. len |->
         IF i <= first_chunk THEN b.data[b.read_pos + i - 1]
                             ELSE b.data[i - first_chunk - 1]]

-----------------------------------------------------------------------------
(* Allocation and growth *)

init_ok(b, avail) == b.capacity = 0 /\ InitialSize <= avail

vr_conn_ring_buf_init(b, avail) ==
  IF ~init_ok(b, avail) THEN b
  ELSE [data |-> [i \in 0 .. InitialSize - 1 |-> Uninit],
        capacity |-> InitialSize, count |-> 0,
        read_pos |-> 0, write_pos |-> 0, state |-> "ACTIVE"]

GrownCapacity(c) == IF c * 2 > MaxSize THEN MaxSize ELSE c * 2

\* Mutant: a wrapped ring copied in physical order.
relocate_flat(b, new_capacity) ==
  LET wrapped == b.read_pos >= b.write_pos
  IN  [data |-> [i \in 0 .. new_capacity - 1 |->
                   IF i >= b.count THEN Uninit
                   ELSE IF ~wrapped THEN b.data[b.read_pos + i]
                   ELSE IF i < b.write_pos THEN b.data[i]
                   ELSE b.data[b.read_pos + i - b.write_pos]],
       capacity |-> new_capacity, count |-> b.count,
       read_pos |-> 0, write_pos |-> b.count % PosRange, state |-> "ACTIVE"]

\* Move the readable bytes to the start of a new array, with one memcpy()
\* when they are contiguous and two when they wrap.
Relocate(b, new_capacity) ==
  LET first_chunk == b.capacity - b.read_pos
  IN  [data |-> [i \in 0 .. new_capacity - 1 |->
                   IF i >= b.count THEN Uninit
                   ELSE IF b.read_pos < b.write_pos \/ i < first_chunk
                   THEN b.data[b.read_pos + i]
                   ELSE b.data[i - first_chunk]],
       capacity |-> new_capacity, count |-> b.count,
       read_pos |-> 0, write_pos |-> b.count % PosRange, state |-> "ACTIVE"]

grow_ok(b, avail) ==
  IF b.capacity = 0 THEN init_ok(b, avail)
  ELSE b.capacity < MaxSize /\ GrownCapacity(b.capacity) <= avail

vr_conn_ring_buf_grow(b, avail) ==
  IF ~grow_ok(b, avail) THEN b
  ELSE IF b.capacity = 0 THEN vr_conn_ring_buf_init(b, avail)
  ELSE Relocate(b, GrownCapacity(b.capacity))

ClosedUnderGrow(S) ==
  InitialSize \in S /\ \A c \in S : GrownCapacity(c) \in S

\* The capacities that init and grow give a ring.
Capacities ==
  {c \in InitialSize .. MaxSize :
     \A S \in SUBSET (InitialSize .. MaxSize) : ClosedUnderGrow(S) => c \in S}

\* Mutant: one byte more than needed.
reserve_stops_above(b, needed, avail) ==
  {c \in Capacities :
     /\ c >= b.capacity
     /\ \/ c - b.count > needed
        \/ c = MaxSize
        \/ GrownCapacity(c) > avail}

\* Where reserve's loop of grow() calls stops: at the first capacity with
\* room for `needed', or the first one that grow cannot enlarge.
ReserveStops(b, needed, avail) ==
  {c \in Capacities :
     /\ c >= b.capacity
     /\ \/ c - b.count >= needed
        \/ c = MaxSize
        \/ GrownCapacity(c) > avail}

ReserveCapacity(b, needed, avail) ==
  CHOOSE c \in ReserveStops(b, needed, avail) :
    \A d \in ReserveStops(b, needed, avail) : c <= d

\* The loop leaves the ring as it is when the capacity is already enough.
\* Several relocations in a row leave what the last one alone would.
vr_conn_ring_buf_reserve(b, needed, avail) ==
  LET r == vr_conn_ring_buf_init(b, avail)
      c == ReserveCapacity(r, needed, avail)
  IN  IF r.capacity = 0 \/ c = r.capacity THEN r ELSE Relocate(r, c)

reserve_ok(b, needed, avail) ==
  LET r == vr_conn_ring_buf_reserve(b, needed, avail)
  IN  r.capacity # 0 /\ vr_conn_ring_buf_free(r) >= needed

-----------------------------------------------------------------------------
(* Consuming and producing spans *)

consume_ok(b, n) == n <= b.count

\* Mutant: only read_pos is rewound when the ring empties.
consume_half_rewind(b, n) ==
  IF ~consume_ok(b, n) THEN b
  ELSE [b EXCEPT
          !.read_pos = IF n = b.count THEN 0 ELSE (@ + n) % b.capacity,
          !.count    = @ - n,
          !.state    = IF @ = "FULL" THEN "ACTIVE" ELSE @]

\* Callers pass n > 0: on an unallocated ring the C code divides by capacity.
vr_conn_ring_buf_consume(b, n) ==
  IF ~consume_ok(b, n) THEN b
  ELSE [b EXCEPT
          !.read_pos  = IF n = b.count THEN 0
                        ELSE ((@ + n) % b.capacity) % PosRange,
          !.write_pos = IF n = b.count THEN 0 ELSE @,
          !.count     = @ - n,
          !.state     = IF @ = "FULL" THEN "ACTIVE" ELSE @]

commit_ok(b, n) == n = 0 \/ (b.capacity # 0 /\ n <= b.capacity - b.count)

\* Mutant: the free space is not checked.
commit_unchecked(b, n) ==
  IF n = 0 \/ b.capacity = 0 THEN b
  ELSE [b EXCEPT
          !.write_pos = (@ + n) % b.capacity,
          !.count     = @ + n,
          !.state     = IF b.count + n = b.capacity THEN "FULL" ELSE @]

vr_conn_ring_buf_commit(b, n) ==
  IF n = 0 \/ ~commit_ok(b, n) THEN b
  ELSE [b EXCEPT
          !.write_pos = ((@ + n) % b.capacity) % PosRange,
          !.count     = @ + n,
          !.state     = IF b.count + n = b.capacity THEN "FULL" ELSE @]

\* memcpy() of the caller's bytes into the array from position `at'.
CopyIn(b, at, bytes) ==
  [b EXCEPT !.data = [i \in DOMAIN @ |->
                        IF i \in at .. at + Len(bytes) - 1
                        THEN bytes[i - at + 1] ELSE @[i]]]

vr_conn_ring_buf_push(b, byte, avail) ==
  LET r == vr_conn_ring_buf_init(b, avail)
  IN  IF r.capacity = 0 THEN [r EXCEPT !.state = "UNALLOC"]
      ELSE IF r.count = r.capacity THEN [r EXCEPT !.state = "FULL"]
      ELSE [r EXCEPT !.count = @ + 1,
                     !.data[r.write_pos] = byte,
                     !.write_pos = ((@ + 1) % r.capacity) % PosRange]

push_ok(b, avail) == init_ok(b, avail) \/ b.count < b.capacity

\* Unlike consume, pop neither rewinds an emptied ring nor clears FULL.
vr_conn_ring_buf_pop(b) ==
  IF b.count = 0 THEN b
  ELSE [b EXCEPT !.count = @ - 1,
                 !.read_pos = ((@ + 1) % b.capacity) % PosRange]

-----------------------------------------------------------------------------
(* Receiving from a socket into up to two regions *)

recv_region1(b) ==
  LET free_space == b.capacity - b.count
      region == IF b.write_pos >= b.read_pos
                THEN b.capacity - b.write_pos
                ELSE b.read_pos - b.write_pos
  IN  IF region > free_space THEN free_space ELSE region

\* Mutant: no second region.
recv_one_region(b) == 0

recv_region2(b) ==
  LET rest == b.capacity - b.count - recv_region1(b)
  IN  IF b.write_pos < b.read_pos THEN 0
      ELSE IF rest > b.read_pos THEN b.read_pos ELSE rest

\* The most recvmsg()/recv() may return; 0 when the ring answers ENOBUFS.
recv_room(b) == IF b.count = b.capacity THEN 0
                ELSE recv_region1(b) + recv_region2(b)

vr_socket_recv_ring_buf(b, bytes) ==
  LET n == Len(bytes)
      split == IF n > recv_region1(b) THEN recv_region1(b) ELSE n
      filled == CopyIn(CopyIn(b, b.write_pos, SubSeq(bytes, 1, split)),
                       0, SubSeq(bytes, split + 1, n))
  IN  [filled EXCEPT !.write_pos = ((@ + n) % b.capacity) % PosRange,
                     !.count     = @ + n]

-----------------------------------------------------------------------------
(* Queueing a serialized packet *)

\* packet_size counts sizeof(vr_packet_header_t); vr_packet_serialize()
\* writes HeaderPad bytes less than that.
packet_size(bytes) == Len(bytes) + HeaderPad

\* The whole packet fits before the physical end: serialize into the ring.
enqueue_contiguous(b, bytes) ==
  vr_conn_ring_buf_commit(CopyIn(b, b.write_pos, bytes), packet_size(bytes))

\* The malloc()ed copy a wrapped packet is staged in.
serialized(bytes) == bytes \o [i \in 1 .. HeaderPad |-> Uninit]

\* The ring after the first region is copied and committed.
enqueue_first(b, bytes) ==
  LET n == vr_conn_ring_buf_contiguous_write(b)
  IN  vr_conn_ring_buf_commit(
        CopyIn(b, b.write_pos, SubSeq(serialized(bytes), 1, n)), n)

remaining(b, bytes) ==
  packet_size(bytes) - vr_conn_ring_buf_contiguous_write(b)

\* The rest must fit in the second region: the code's own invariant check,
\* made when the first region is already committed.
second_region_ok(b, bytes) ==
  vr_conn_ring_buf_contiguous_write(enqueue_first(b, bytes))
    >= remaining(b, bytes)

\* Mutant: the second copy starts at the packet's first byte again.
enqueue_wrapped_restart(b, bytes) ==
  LET f == enqueue_first(b, bytes)
      rest == SubSeq(serialized(bytes), 1, remaining(b, bytes))
  IN  IF ~second_region_ok(b, bytes) THEN f
      ELSE vr_conn_ring_buf_commit(CopyIn(f, f.write_pos, rest),
                                   remaining(b, bytes))

enqueue_wrapped(b, bytes) ==
  LET f == enqueue_first(b, bytes)
      n == vr_conn_ring_buf_contiguous_write(b)
      rest == SubSeq(serialized(bytes), n + 1, packet_size(bytes))
  IN  IF ~second_region_ok(b, bytes) THEN f
      ELSE vr_conn_ring_buf_commit(CopyIn(f, f.write_pos, rest),
                                   remaining(b, bytes))

fits_contiguous(b, bytes) ==
  vr_conn_ring_buf_contiguous_write(b) >= packet_size(bytes)

\* `staged': the malloc() of the staging copy succeeds.
enqueue_ok(b, bytes, avail, staged) ==
  LET r == vr_conn_ring_buf_reserve(b, packet_size(bytes), avail)
  IN  /\ reserve_ok(b, packet_size(bytes), avail)
      /\ vr_conn_ring_buf_contiguous_write(r) > 0
      /\ fits_contiguous(r, bytes) \/ (staged /\ second_region_ok(r, bytes))

\* Mutant: the staging copy is allocated after the first commit.
enqueue_late_staging(b, bytes, avail, staged) ==
  LET r == vr_conn_ring_buf_reserve(b, packet_size(bytes), avail)
  IN  IF ~reserve_ok(b, packet_size(bytes), avail) THEN r
      ELSE IF fits_contiguous(r, bytes) THEN enqueue_contiguous(r, bytes)
      ELSE IF ~staged THEN enqueue_first(r, bytes)
      ELSE enqueue_wrapped(r, bytes)

reactor_enqueue_response(b, bytes, avail, staged) ==
  LET r == vr_conn_ring_buf_reserve(b, packet_size(bytes), avail)
  IN  IF \/ ~reserve_ok(b, packet_size(bytes), avail)
         \/ vr_conn_ring_buf_contiguous_write(r) = 0
      THEN r
      ELSE IF fits_contiguous(r, bytes) THEN enqueue_contiguous(r, bytes)
      ELSE IF ~staged THEN r
      ELSE enqueue_wrapped(r, bytes)
=============================================================================
