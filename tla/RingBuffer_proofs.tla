------------------------- MODULE RingBuffer_proofs -------------------------
(***************************************************************************)
(* The ring invariant, and that the ring implements a first-in first-out   *)
(* queue, for every size of the ring and every set of bytes.               *)
(*                                                                         *)
(* Each operation of RingOps maps a well-formed ring to a well-formed ring *)
(* (one lemma per operation, ...Ring).  A second lemma per operation says  *)
(* what it does to the contents (...Contents, ...Adds).  The theorems      *)
(* follow by one case per call.                                            *)
(***************************************************************************)
EXTENDS RingBuffer, DataLemmas, TLAPS

Fields == {"data", "capacity", "count", "read_pos", "write_pos", "state"}

\* A well-formed ring: the part of the inductive invariant about the struct.
Ring(b) == DOMAIN b = Fields /\ RingType(b) /\ RingConsistent(b)

-----------------------------------------------------------------------------
(* Arithmetic *)

\* A position moved by at most one turn of the ring, and stored in a
\* uint16_t: the conversion loses nothing.
LEMMA Wrap ==
  ASSUME NEW c \in 1 .. MaxSize, NEW p \in Nat, NEW n \in Nat, p < c, n <= c
  PROVE  LET w == ((p + n) % c) % PosRange
         IN  /\ p + n < c => w = p + n
             /\ p + n >= c => w = p + n - c
             /\ w \in 0 .. c - 1
<1> DEFINE m == (p + n) % c
<1>1. /\ c \in Nat \ {0} /\ p + n \in Nat
      /\ PosRange \in Nat \ {0} /\ c <= PosRange
  BY SizeAssumption
<1>2. (p + n < c => m = p + n) /\ (p + n >= c => m = p + n - c)
  <2>1. CASE p + n < c
    <3>1. m = p + n
      BY <1>1, <2>1, ModSmall, Zenon
    <3> QED BY <1>1, <2>1, <3>1
  <2>2. CASE p + n >= c
    <3>1. c <= p + n /\ p + n < 2 * c
      BY <1>1, <2>2
    <3> DEFINE x == p + n
    <3> HIDE DEF x
    <3>a. x \in Nat /\ c <= x /\ x < 2 * c
      BY <1>1, <3>1, Zenon DEF x
    <3>b. x % c = x - c
      BY <1>1, <3>a, ModOnce, Zenon
    <3>2. m = p + n - c
      BY <3>b DEF x
    <3> QED BY <1>1, <2>2, <3>2
  <2> QED BY <1>1, <2>1, <2>2, Zenon
<1> HIDE DEF m
<1>3. m \in Nat /\ m < c
  BY <1>1, <1>2
<1>4. m % PosRange = m
  BY <1>1, <1>3, ModSmall
<1> QED BY <1>1, <1>2, <1>3, <1>4 DEF m

-----------------------------------------------------------------------------
(* Operations on a well-formed ring *)

\* The zeroed struct of a new connection is well-formed.
LEMMA ZeroRing == Ring(RingZero)
<1>1. DOMAIN RingZero = Fields
  BY Zenon DEF RingZero, Fields
<1>2. DOMAIN << >> = 0 .. -1
  OBVIOUS
<1> QED BY <1>1, <1>2, SizeAssumption
        DEF Ring, RingZero, RingType, RingConsistent

\* vr_conn_ring_buf_init()
LEMMA InitRing ==
  ASSUME NEW b, Ring(b), NEW avail
  PROVE  LET r == vr_conn_ring_buf_init(b, avail)
         IN  /\ Ring(r)
             /\ r.capacity >= b.capacity
             /\ init_ok(b, avail) => r.capacity = InitialSize
             /\ r.count = b.count
<1>1. CASE ~init_ok(b, avail)
  BY <1>1, SizeAssumption DEF vr_conn_ring_buf_init, Ring, RingType
<1>2. CASE init_ok(b, avail)
  <2> DEFINE d == [i \in 0 .. InitialSize - 1 |-> Uninit]
             r == [data |-> d,
                   capacity |-> InitialSize, count |-> 0,
                   read_pos |-> 0, write_pos |-> 0, state |-> "ACTIVE"]
  <2>1. vr_conn_ring_buf_init(b, avail) = r
    BY <1>2, Zenon DEF vr_conn_ring_buf_init
  <2>2. DOMAIN r = Fields
    BY Zenon DEF Fields
  <2>3. DOMAIN d = 0 .. InitialSize - 1 /\ \A i \in DOMAIN d : d[i] \in Cell
    BY Zenon DEF Cell
  <2> HIDE DEF d
  <2>5. RingType(r) /\ RingConsistent(r)
    BY <2>3, SizeAssumption DEF RingType, RingConsistent
  <2>6. b.capacity = 0 /\ b.count = 0
    BY <1>2 DEF init_ok, Ring, RingType
  <2> QED BY <2>1, <2>2, <2>5, <2>6, SizeAssumption DEF Ring
<1> QED BY <1>1, <1>2, Zenon

\* Moving the readable bytes to a larger array, as vr_conn_ring_buf_grow()
\* does.
LEMMA RelocateRing ==
  ASSUME NEW b, Ring(b), b.capacity # 0,
         NEW c \in Nat, b.capacity < c, c <= MaxSize
  PROVE  LET r == Relocate(b, c)
         IN  Ring(r) /\ r.capacity = c /\ r.count = b.count
<1> DEFINE r == Relocate(b, c)
<1>1. DOMAIN r = Fields
  BY Zenon DEF Relocate, Fields
<1>2. /\ r.capacity = c /\ r.count = b.count /\ r.read_pos = 0
      /\ r.write_pos = b.count % PosRange /\ r.state = "ACTIVE"
      /\ DOMAIN r.data = 0 .. c - 1
  BY Zenon DEF Relocate
<1>3. b.count \in Nat /\ b.count <= b.capacity /\ b.capacity \in Nat
  BY DEF Ring, RingType
<1>4. b.count % PosRange = b.count
  BY <1>3, SizeAssumption, ModSmall
<1>5. \A i \in 0 .. c - 1 : r.data[i] \in Cell
  <2> SUFFICES ASSUME NEW i \in 0 .. c - 1 PROVE r.data[i] \in Cell
    BY Zenon
  <2> DEFINE first_chunk == b.capacity - b.read_pos
  <2>1. r.data[i] = IF i >= b.count THEN Uninit
                    ELSE IF b.read_pos < b.write_pos \/ i < first_chunk
                    THEN b.data[b.read_pos + i]
                    ELSE b.data[i - first_chunk]
    BY Zenon DEF Relocate
  <2>2. CASE i >= b.count
    BY <2>1, <2>2, Zenon DEF Cell
  <2>3. CASE i < b.count
    <3>1. /\ b.read_pos \in Nat /\ b.write_pos \in Nat
          /\ b.read_pos < b.capacity /\ b.write_pos < b.capacity
          /\ b.write_pos \in {b.read_pos + b.count,
                               b.read_pos + b.count - b.capacity}
      BY Zenon DEF Ring, RingType, RingConsistent
    <3>3. b.read_pos < b.write_pos => b.read_pos + i \in 0 .. b.capacity - 1
      BY <1>3, <2>3, <3>1
    <3>4. i < first_chunk => b.read_pos + i \in 0 .. b.capacity - 1
      BY <1>3, <3>1
    <3>5. i >= first_chunk => i - first_chunk \in 0 .. b.capacity - 1
      BY <1>3, <2>3, <3>1
    <3>6. \A j \in 0 .. b.capacity - 1 : b.data[j] \in Cell
      BY Zenon DEF Ring, RingType
    <3>7. r.data[i] = IF b.read_pos < b.write_pos \/ i < first_chunk
                      THEN b.data[b.read_pos + i]
                      ELSE b.data[i - first_chunk]
      BY <1>3, <2>1, <2>3
    <3> QED BY <1>3, <3>1, <3>3, <3>4, <3>5, <3>6, <3>7
  <2> QED BY <1>3, <2>2, <2>3
<1> HIDE DEF r
<1>6. RingType(r)
  BY <1>2, <1>3, <1>4, <1>5 DEF RingType
<1>7. RingConsistent(r)
  BY <1>2, <1>3, <1>4 DEF RingConsistent
<1> QED BY <1>1, <1>2, <1>6, <1>7, Zenon DEF Ring, r

\* vr_conn_ring_buf_grow()
LEMMA GrowRing ==
  ASSUME NEW b, Ring(b), NEW avail
  PROVE  LET r == vr_conn_ring_buf_grow(b, avail)
         IN  Ring(r) /\ r.count = b.count
<1>1. CASE ~grow_ok(b, avail)
  BY <1>1, Zenon DEF vr_conn_ring_buf_grow
<1>2. CASE grow_ok(b, avail) /\ b.capacity = 0
  BY <1>2, InitRing, Zenon DEF vr_conn_ring_buf_grow
<1>3. CASE grow_ok(b, avail) /\ b.capacity # 0
  <2> DEFINE c == GrownCapacity(b.capacity)
  <2>1. vr_conn_ring_buf_grow(b, avail) = Relocate(b, c)
    BY <1>3, Zenon DEF vr_conn_ring_buf_grow
  <2>2. c \in Nat /\ b.capacity < c /\ c <= MaxSize
    <3>1. b.capacity \in Nat /\ b.capacity # 0 /\ b.capacity < MaxSize
      BY <1>3 DEF grow_ok, Ring, RingType
    <3> QED BY <3>1, SizeAssumption DEF GrownCapacity
  <2> QED BY <1>3, <2>1, <2>2, RelocateRing
<1> QED BY <1>1, <1>2, <1>3, Zenon

\* Growing ends at the largest capacity.
LEMMA LargestCapacity == MaxSize \in Capacities
<1> SUFFICES ASSUME NEW S \in SUBSET (InitialSize .. MaxSize),
                    ClosedUnderGrow(S)
             PROVE  MaxSize \in S
  BY SizeAssumption DEF Capacities
<1>1. S \in SUBSET (0 .. MaxSize) /\ S # {} /\ MaxSize \in Nat
  BY SizeAssumption DEF ClosedUnderGrow
<1>2. PICK c \in S : \A d \in S : d <= c
  BY <1>1, GreatestElement, Zenon
<1>3. c \in Nat /\ c # 0 /\ MaxSize \in Nat
  BY <1>2, SizeAssumption
<1>4. PICK g : g = GrownCapacity(c)
  BY Zenon
<1>5. g \in S /\ g <= c
  BY <1>2, <1>4, Zenon DEF ClosedUnderGrow
<1>6. g = MaxSize
  <2>1. g = IF c * 2 > MaxSize THEN MaxSize ELSE c * 2
    BY <1>4, Zenon DEF GrownCapacity
  <2>2. c * 2 \in Nat /\ c < c * 2
    BY <1>3, DoubleGrows, Zenon
  <2> QED BY <1>3, <1>5, <2>1, <2>2
<1> QED BY <1>5, <1>6, Zenon

\* Where the loop stops: at the least of the capacities it may stop at.
LEMMA ReserveCapacityLeast ==
  ASSUME NEW b, Ring(b), NEW needed, NEW avail
  PROVE  LET S == ReserveStops(b, needed, avail)
             c == ReserveCapacity(b, needed, avail)
         IN  c \in S /\ \A d \in S : c <= d
<1> DEFINE S == ReserveStops(b, needed, avail)
<1>1. S \in SUBSET Nat /\ MaxSize \in S
  BY SizeAssumption, LargestCapacity
     DEF ReserveStops, Capacities, Ring, RingType
<1>2. \E c \in S : \A d \in S : c <= d
  <2> HIDE DEF S
  <2> QED BY <1>1, LeastElement, Zenon
<1> QED BY <1>2, Zenon DEF ReserveCapacity

\* It is one that fits the limit and is not below the present one.
LEMMA ReserveCapacityBounds ==
  ASSUME NEW b, Ring(b), NEW needed, NEW avail
  PROVE  LET c == ReserveCapacity(b, needed, avail)
         IN  c \in Nat /\ b.capacity <= c /\ c <= MaxSize
<1>1. PICK c : c = ReserveCapacity(b, needed, avail)
  BY Zenon
<1>2. c \in InitialSize .. MaxSize /\ c >= b.capacity
  BY <1>1, ReserveCapacityLeast, Zenon DEF ReserveStops, Capacities
<1> QED BY <1>1, <1>2, SizeAssumption DEF Ring, RingType

\* vr_conn_ring_buf_reserve()
LEMMA ReserveRing ==
  ASSUME NEW b, Ring(b), NEW needed, NEW avail
  PROVE  LET r == vr_conn_ring_buf_reserve(b, needed, avail)
         IN  Ring(r) /\ r.count = b.count
<1> DEFINE i == vr_conn_ring_buf_init(b, avail)
           c == ReserveCapacity(i, needed, avail)
<1>1. Ring(i) /\ i.count = b.count
  BY InitRing, Zenon
<1> HIDE DEF i
<1>2. c \in Nat /\ i.capacity <= c /\ c <= MaxSize
  BY <1>1, ReserveCapacityBounds, Zenon
<1>3. i.capacity \in Nat
  BY <1>1 DEF Ring, RingType
<1> HIDE DEF c
<1>4. vr_conn_ring_buf_reserve(b, needed, avail)
        = IF i.capacity = 0 \/ c = i.capacity THEN i ELSE Relocate(i, c)
  BY Zenon DEF vr_conn_ring_buf_reserve, i, c
<1>5. CASE i.capacity = 0 \/ c = i.capacity
  BY <1>1, <1>4, <1>5, Zenon
<1>6. CASE ~(i.capacity = 0 \/ c = i.capacity)
  <2>1. i.capacity < c
    BY <1>2, <1>3, <1>6
  <2> QED BY <1>1, <1>2, <1>4, <1>6, <2>1, RelocateRing
<1> QED BY <1>5, <1>6, Zenon

\* memcpy() into the array: nothing but cells change, and they change to
\* what was copied.
LEMMA CopyInRing ==
  ASSUME NEW b, Ring(b), NEW at \in Nat, NEW bytes \in Seq(Cell)
  PROVE  LET r == CopyIn(b, at, bytes)
         IN  /\ Ring(r)
             /\ r.capacity = b.capacity /\ r.count = b.count
             /\ r.read_pos = b.read_pos /\ r.write_pos = b.write_pos
             /\ r.state = b.state
<1> DEFINE r == CopyIn(b, at, bytes)
<1>1. /\ DOMAIN r = Fields
      /\ r.capacity = b.capacity /\ r.count = b.count
      /\ r.read_pos = b.read_pos /\ r.write_pos = b.write_pos
      /\ r.state = b.state
  BY Zenon DEF CopyIn, Ring, Fields
<1>2. r.data = [i \in DOMAIN b.data |->
                  IF i \in at .. at + Len(bytes) - 1
                  THEN bytes[i - at + 1] ELSE b.data[i]]
  BY Zenon DEF CopyIn, Ring, Fields
<1>3. DOMAIN r.data = 0 .. b.capacity - 1
  BY <1>2, Zenon DEF Ring, RingType
<1>4. \A i \in DOMAIN r.data : r.data[i] \in Cell
  <2> SUFFICES ASSUME NEW i \in DOMAIN b.data PROVE r.data[i] \in Cell
    BY <1>2, Zenon
  <2>1. CASE i \in at .. at + Len(bytes) - 1
    <3>1. i - at + 1 \in 1 .. Len(bytes)
      BY <2>1
    <3>2. bytes[i - at + 1] \in Cell
      BY <3>1
    <3> QED BY <1>2, <2>1, <3>2, Zenon
  <2>2. CASE i \notin at .. at + Len(bytes) - 1
    <3>1. b.data[i] \in Cell
      BY Zenon DEF Ring, RingType
    <3> QED BY <1>2, <2>2, <3>1, Zenon
  <2> QED BY <2>1, <2>2, Zenon
<1> HIDE DEF r
<1>5. RingType(r) /\ RingConsistent(r)
  BY <1>1, <1>3, <1>4, Zenon DEF Ring, RingType, RingConsistent
<1> QED BY <1>1, <1>5, Zenon DEF Ring, r

\* What is known of an allocated, well-formed ring, without its contents.
LEMMA RingFacts ==
  ASSUME NEW b, Ring(b), b.capacity # 0
  PROVE  /\ b.capacity \in 1 .. MaxSize /\ b.count \in 0 .. b.capacity
         /\ b.read_pos \in Nat /\ b.write_pos \in Nat
         /\ b.read_pos < b.capacity /\ b.write_pos < b.capacity
         /\ b.write_pos \in {b.read_pos + b.count,
                             b.read_pos + b.count - b.capacity}
         /\ b.state \in {"ACTIVE", "FULL"}
BY DEF Ring, RingType, RingConsistent

\* A ring that differs from a well-formed one in count, positions and state
\* only is well-formed when they agree.
LEMMA RingUpdate ==
  ASSUME NEW b, Ring(b), b.capacity # 0,
         NEW r, DOMAIN r = Fields, r.data = b.data, r.capacity = b.capacity,
         r.count \in 0 .. r.capacity, r.state \in {"ACTIVE", "FULL"},
         r.read_pos \in 0 .. r.capacity - 1,
         r.write_pos \in 0 .. r.capacity - 1,
         r.write_pos \in {r.read_pos + r.count,
                          r.read_pos + r.count - r.capacity}
  PROVE  Ring(r)
<1>1. b.capacity \in 1 .. MaxSize
  BY RingFacts, Zenon
<1>2. DOMAIN r.data = 0 .. r.capacity - 1
      /\ \A i \in DOMAIN r.data : r.data[i] \in Cell
  BY Zenon DEF Ring, RingType
<1>3. RingType(r)
  BY <1>1, <1>2 DEF RingType
<1>4. RingConsistent(r)
  BY <1>1 DEF RingConsistent
<1> QED BY <1>3, <1>4, Zenon DEF Ring

\* vr_conn_ring_buf_consume()
LEMMA ConsumeRing ==
  ASSUME NEW b, Ring(b), NEW n \in Nat \ {0}
  PROVE  Ring(vr_conn_ring_buf_consume(b, n))
<1> DEFINE r == vr_conn_ring_buf_consume(b, n)
           p == ((b.read_pos + n) % b.capacity) % PosRange
<1>1. CASE ~consume_ok(b, n)
  BY <1>1, Zenon DEF vr_conn_ring_buf_consume
<1>2. CASE consume_ok(b, n)
  <2>1. b.capacity # 0 /\ n <= b.count /\ n <= b.capacity
    BY <1>2 DEF consume_ok, Ring, RingType
  <2>2. /\ p \in 0 .. b.capacity - 1
        /\ b.write_pos \in {p + (b.count - n),
                            p + (b.count - n) - b.capacity}
    <3>1. /\ b.read_pos + n < b.capacity => p = b.read_pos + n
          /\ b.read_pos + n >= b.capacity => p = b.read_pos + n - b.capacity
          /\ p \in 0 .. b.capacity - 1
      <4>1. /\ b.capacity \in 1 .. MaxSize /\ b.read_pos \in Nat
            /\ b.read_pos < b.capacity
        BY <2>1, RingFacts, Zenon
      <4> QED BY <2>1, <4>1, Wrap, Zenon
    <3> HIDE DEF p
    <3> QED BY <2>1, <3>1, RingFacts
  <2>3. r = [b EXCEPT
               !.read_pos  = IF n = b.count THEN 0 ELSE p,
               !.write_pos = IF n = b.count THEN 0 ELSE @,
               !.count     = @ - n,
               !.state     = IF @ = "FULL" THEN "ACTIVE" ELSE @]
    BY <1>2, Zenon DEF vr_conn_ring_buf_consume
  <2> HIDE DEF r, p
  <2>4. /\ DOMAIN r = Fields
        /\ r.data = b.data /\ r.capacity = b.capacity
        /\ r.count = b.count - n
        /\ r.read_pos = IF n = b.count THEN 0 ELSE p
        /\ r.write_pos = IF n = b.count THEN 0 ELSE b.write_pos
        /\ r.state = IF b.state = "FULL" THEN "ACTIVE" ELSE b.state
    BY <2>3, Zenon DEF Ring, Fields
  <2>5. Ring(r)
    BY <2>1, <2>2, <2>4, RingFacts, RingUpdate
  <2> QED BY <2>5, Zenon DEF r
<1> QED BY <1>1, <1>2, Zenon

\* vr_conn_ring_buf_pop()
LEMMA PopRing ==
  ASSUME NEW b, Ring(b)
  PROVE  Ring(vr_conn_ring_buf_pop(b))
<1> DEFINE r == vr_conn_ring_buf_pop(b)
           p == ((b.read_pos + 1) % b.capacity) % PosRange
<1>1. CASE b.count = 0
  BY <1>1, Zenon DEF vr_conn_ring_buf_pop
<1>2. CASE b.count # 0
  <2>1. b.capacity # 0 /\ 1 <= b.count
    BY <1>2 DEF Ring, RingType
  <2>2. /\ p \in 0 .. b.capacity - 1
        /\ b.write_pos \in {p + (b.count - 1),
                            p + (b.count - 1) - b.capacity}
    <3>1. /\ b.read_pos + 1 < b.capacity => p = b.read_pos + 1
          /\ b.read_pos + 1 >= b.capacity => p = b.read_pos + 1 - b.capacity
          /\ p \in 0 .. b.capacity - 1
      <4>1. /\ b.capacity \in 1 .. MaxSize /\ b.read_pos \in Nat
            /\ b.read_pos < b.capacity /\ 1 <= b.capacity
        BY <2>1, RingFacts
      <4> QED BY <4>1, Wrap, Zenon
    <3> HIDE DEF p
    <3> QED BY <2>1, <3>1, RingFacts
  <2>3. r = [b EXCEPT !.count = @ - 1, !.read_pos = p]
    BY <1>2, Zenon DEF vr_conn_ring_buf_pop
  <2> HIDE DEF r, p
  <2>4. /\ DOMAIN r = Fields
        /\ r.data = b.data /\ r.capacity = b.capacity
        /\ r.count = b.count - 1 /\ r.read_pos = p
        /\ r.write_pos = b.write_pos /\ r.state = b.state
    BY <2>3, Zenon DEF Ring, Fields
  <2>5. Ring(r)
    BY <2>1, <2>2, <2>4, RingFacts, RingUpdate
  <2> QED BY <2>5, Zenon DEF r
<1> QED BY <1>1, <1>2, Zenon

\* A step of the write position by n, in which only cells change besides:
\* what push(), commit() and the socket receive have in common.
LEMMA AdvanceRing ==
  ASSUME NEW b, Ring(b), b.capacity # 0,
         NEW n \in Nat, b.count + n <= b.capacity,
         NEW r, DOMAIN r = Fields, r.data = b.data, r.capacity = b.capacity,
         r.count = b.count + n, r.read_pos = b.read_pos,
         r.write_pos = ((b.write_pos + n) % b.capacity) % PosRange,
         r.state \in {"ACTIVE", "FULL"}
  PROVE  Ring(r)
<1> DEFINE w == ((b.write_pos + n) % b.capacity) % PosRange
<1>1. /\ b.write_pos + n < b.capacity => w = b.write_pos + n
      /\ b.write_pos + n >= b.capacity => w = b.write_pos + n - b.capacity
      /\ w \in 0 .. b.capacity - 1
  <2>1. /\ b.capacity \in 1 .. MaxSize /\ b.write_pos \in Nat
        /\ b.write_pos < b.capacity /\ n <= b.capacity
    BY RingFacts
  <2> QED BY <2>1, Wrap, Zenon
<1>2. r.write_pos = w
  BY Zenon
<1> HIDE DEF w
<1>3. w \in {b.read_pos + (b.count + n),
             b.read_pos + (b.count + n) - b.capacity}
  BY <1>1, RingFacts
<1> QED BY <1>1, <1>2, <1>3, RingFacts, RingUpdate

\* vr_conn_ring_buf_commit()
LEMMA CommitRing ==
  ASSUME NEW b, Ring(b), NEW n \in Nat \ {0}, commit_ok(b, n)
  PROVE  LET r == vr_conn_ring_buf_commit(b, n)
         IN  /\ Ring(r)
             /\ r.data = b.data
             /\ r.capacity = b.capacity /\ r.count = b.count + n
             /\ r.read_pos = b.read_pos
             /\ r.write_pos = ((b.write_pos + n) % b.capacity) % PosRange
<1> DEFINE r == vr_conn_ring_buf_commit(b, n)
           w == ((b.write_pos + n) % b.capacity) % PosRange
<1>1. b.capacity # 0 /\ b.count + n <= b.capacity
  BY DEF commit_ok, Ring, RingType
<1>2. r = [b EXCEPT !.write_pos = w,
                    !.count     = @ + n,
                    !.state     = IF b.count + n = b.capacity
                                  THEN "FULL" ELSE @]
  BY Zenon DEF vr_conn_ring_buf_commit
<1> HIDE DEF r, w
<1>3. /\ DOMAIN r = Fields
      /\ r.data = b.data /\ r.capacity = b.capacity
      /\ r.count = b.count + n
      /\ r.read_pos = b.read_pos /\ r.write_pos = w
      /\ r.state = IF b.count + n = b.capacity THEN "FULL" ELSE b.state
  BY <1>2, Zenon DEF Ring, Fields
<1>4. r.state \in {"ACTIVE", "FULL"}
  BY <1>1, <1>3, RingFacts, Zenon
<1>5. Ring(r)
  BY <1>1, <1>3, <1>4, AdvanceRing, Zenon DEF w
<1> QED BY <1>3, <1>5, Zenon DEF r, w

\* vr_conn_ring_buf_push()
LEMMA PushRing ==
  ASSUME NEW b, Ring(b), NEW byte \in Cell, NEW avail
  PROVE  Ring(vr_conn_ring_buf_push(b, byte, avail))
<1> DEFINE i == vr_conn_ring_buf_init(b, avail)
           r == vr_conn_ring_buf_push(b, byte, avail)
           w == ((i.write_pos + 1) % i.capacity) % PosRange
<1>1. Ring(i)
  BY InitRing, Zenon
<1>2. r = IF i.capacity = 0 THEN [i EXCEPT !.state = "UNALLOC"]
          ELSE IF i.count = i.capacity THEN [i EXCEPT !.state = "FULL"]
          ELSE [i EXCEPT !.count = @ + 1, !.data[i.write_pos] = byte,
                         !.write_pos = w]
  BY Zenon DEF vr_conn_ring_buf_push
<1> HIDE DEF i, r, w
<1>3. CASE i.capacity = 0
  <2>1. r = [i EXCEPT !.state = "UNALLOC"]
    BY <1>2, <1>3, Zenon
  <2>2. /\ DOMAIN r = Fields /\ r.data = i.data /\ r.capacity = i.capacity
        /\ r.count = i.count /\ r.read_pos = i.read_pos
        /\ r.write_pos = i.write_pos /\ r.state = "UNALLOC"
    BY <1>1, <2>1, Zenon DEF Ring, Fields
  <2>3. RingType(r) /\ RingConsistent(r)
    BY <1>1, <1>3, <2>2, Zenon DEF Ring, RingType, RingConsistent
  <2> QED BY <2>2, <2>3, Zenon DEF Ring, r
<1>4. CASE i.capacity # 0 /\ i.count = i.capacity
  <2>1. r = [i EXCEPT !.state = "FULL"]
    BY <1>2, <1>4, Zenon
  <2>2. /\ DOMAIN r = Fields /\ r.data = i.data /\ r.capacity = i.capacity
        /\ r.count = i.count /\ r.read_pos = i.read_pos
        /\ r.write_pos = i.write_pos /\ r.state = "FULL"
    BY <1>1, <2>1, Zenon DEF Ring, Fields
  <2>3. Ring(r)
    BY <1>1, <1>4, <2>2, RingFacts, RingUpdate
  <2> QED BY <2>3, Zenon DEF r
<1>5. CASE i.capacity # 0 /\ i.count # i.capacity
  <2> DEFINE d == [i EXCEPT !.data[i.write_pos] = byte]
  <2>1. r = [i EXCEPT !.count = @ + 1, !.data[i.write_pos] = byte,
                      !.write_pos = w]
    BY <1>2, <1>5, Zenon
  <2>2. /\ DOMAIN r = Fields
        /\ r.data = [i.data EXCEPT ![i.write_pos] = byte]
        /\ r.capacity = i.capacity /\ r.count = i.count + 1
        /\ r.read_pos = i.read_pos /\ r.write_pos = w /\ r.state = i.state
    BY <1>1, <2>1, Zenon DEF Ring, Fields
  <2>3. /\ DOMAIN d = Fields
        /\ d.data = [i.data EXCEPT ![i.write_pos] = byte]
        /\ d.capacity = i.capacity /\ d.count = i.count
        /\ d.read_pos = i.read_pos /\ d.write_pos = i.write_pos
        /\ d.state = i.state
    BY <1>1, Zenon DEF Ring, Fields
  <2> HIDE DEF d
  <2>4. Ring(d)
    <3>1. DOMAIN d.data = 0 .. i.capacity - 1
          /\ \A j \in DOMAIN d.data : d.data[j] \in Cell
      BY <1>1, <2>3, Zenon DEF Ring, RingType
    <3>2. RingType(d) /\ RingConsistent(d)
      BY <1>1, <2>3, <3>1, Zenon DEF Ring, RingType, RingConsistent
    <3> QED BY <2>3, <3>2, Zenon DEF Ring
  <2>5. i.count + 1 <= i.capacity /\ r.state \in {"ACTIVE", "FULL"}
    BY <1>1, <1>5, <2>2, RingFacts
  <2>6. w = ((d.write_pos + 1) % d.capacity) % PosRange
    BY <2>3, Zenon DEF w
  <2>7. Ring(r)
    BY <1>5, <2>2, <2>3, <2>4, <2>5, <2>6, AdvanceRing
  <2> QED BY <2>7, Zenon DEF r
<1> QED BY <1>3, <1>4, <1>5, Zenon

\* The writable region lies inside the array and inside the free space, and
\* is empty only when the ring is full or unallocated.
LEMMA ContiguousWriteBounds ==
  ASSUME NEW b, Ring(b)
  PROVE  LET n == vr_conn_ring_buf_contiguous_write(b)
         IN  /\ n \in Nat
             /\ n <= b.capacity - b.count
             /\ b.write_pos + n <= b.capacity
             /\ b.count < b.capacity => n > 0
<1>1. CASE b.capacity = 0
  BY <1>1 DEF vr_conn_ring_buf_contiguous_write, Ring, RingType, RingConsistent
<1>2. CASE b.capacity # 0
  BY <1>2, RingFacts DEF vr_conn_ring_buf_contiguous_write
<1> QED BY <1>1, <1>2, Zenon

\* A span copied to write_pos and committed.
LEMMA WriteRing ==
  ASSUME NEW b, Ring(b), b.capacity # 0, NEW bytes \in Seq(Cell),
         NEW n \in Nat \ {0}, n <= b.capacity - b.count
  PROVE  LET r == vr_conn_ring_buf_commit(CopyIn(b, b.write_pos, bytes), n)
         IN  /\ Ring(r)
             /\ r.capacity = b.capacity /\ r.count = b.count + n
             /\ r.read_pos = b.read_pos
             /\ r.write_pos = ((b.write_pos + n) % b.capacity) % PosRange
<1> DEFINE c == CopyIn(b, b.write_pos, bytes)
<1>1. b.write_pos \in Nat
  BY RingFacts, Zenon
<1>2. /\ Ring(c) /\ c.capacity = b.capacity /\ c.count = b.count
      /\ c.read_pos = b.read_pos /\ c.write_pos = b.write_pos
  BY <1>1, CopyInRing, Zenon
<1> HIDE DEF c
<1>3. commit_ok(c, n)
  BY <1>2, Zenon DEF commit_ok
<1> QED BY <1>2, <1>3, CommitRing DEF c

\* Parts of a sequence of cells are sequences of cells.
LEMMA SubSeqCells ==
  ASSUME NEW s \in Seq(Cell), NEW m \in Nat \ {0}, NEW n \in Nat, n <= Len(s)
  PROVE  SubSeq(s, m, n) \in Seq(Cell)
<1>1. \A i \in m .. n : s[i] \in Cell
  BY SeqElement
<1> QED BY <1>1, SubSeqFacts

\* The regions offered to recvmsg() are the whole free space.
LEMMA RecvRoom ==
  ASSUME NEW b, Ring(b)
  PROVE  /\ recv_room(b) = vr_conn_ring_buf_free(b)
         /\ recv_region1(b) \in Nat
         /\ b.write_pos + recv_region1(b) <= b.capacity
<1>1. CASE b.capacity = 0
  <2>1. b.count = 0 /\ b.read_pos = 0 /\ b.write_pos = 0
    BY <1>1 DEF Ring, RingType, RingConsistent
  <2>2. recv_region1(b) = 0
    BY <1>1, <2>1 DEF recv_region1
  <2> QED BY <1>1, <2>1, <2>2 DEF recv_room, vr_conn_ring_buf_free
<1>2. CASE b.capacity # 0
  BY <1>2, RingFacts
     DEF recv_room, recv_region1, recv_region2, vr_conn_ring_buf_free
<1> QED BY <1>1, <1>2, Zenon

\* vr_socket_recv_ring_buf()
LEMMA RecvRing ==
  ASSUME NEW b, Ring(b), NEW bytes \in Seq(Cell), Len(bytes) # 0,
         Len(bytes) <= recv_room(b)
  PROVE  Ring(vr_socket_recv_ring_buf(b, bytes))
<1> DEFINE n == Len(bytes)
           split == IF n > recv_region1(b) THEN recv_region1(b) ELSE n
           s1 == SubSeq(bytes, 1, split)
           s2 == SubSeq(bytes, split + 1, n)
           c1 == CopyIn(b, b.write_pos, s1)
           c2 == CopyIn(c1, 0, s2)
           r == vr_socket_recv_ring_buf(b, bytes)
<1>1. n \in Nat /\ b.capacity # 0 /\ b.count + n <= b.capacity
  <2>1. n \in Nat /\ n # 0
    OBVIOUS
  <2>2. b.capacity \in Nat /\ b.count \in Nat /\ b.count <= b.capacity
    BY DEF Ring, RingType
  <2>3. n <= b.capacity - b.count
    BY RecvRoom, Zenon DEF vr_conn_ring_buf_free
  <2> HIDE DEF n
  <2> QED BY <2>1, <2>2, <2>3
<1>2. split \in Nat /\ split <= n
  BY <1>1, RecvRoom
<1>3. s1 \in Seq(Cell) /\ s2 \in Seq(Cell)
  <2> HIDE DEF split
  <2> QED BY <1>1, <1>2, SubSeqCells
<1>4. r = [c2 EXCEPT !.write_pos = ((@ + n) % b.capacity) % PosRange,
                     !.count     = @ + n]
  BY Zenon DEF vr_socket_recv_ring_buf
<1> HIDE DEF s1, s2, split
<1>5. /\ Ring(c1) /\ c1.capacity = b.capacity /\ c1.count = b.count
      /\ c1.read_pos = b.read_pos /\ c1.write_pos = b.write_pos
  <2>1. b.write_pos \in Nat
    BY <1>1, RingFacts, Zenon
  <2> QED BY <1>3, <2>1, CopyInRing, Zenon
<1> HIDE DEF c1
<1>6. /\ Ring(c2) /\ c2.capacity = b.capacity /\ c2.count = b.count
      /\ c2.read_pos = b.read_pos /\ c2.write_pos = b.write_pos
  <2>1. /\ Ring(c2) /\ c2.capacity = c1.capacity /\ c2.count = c1.count
        /\ c2.read_pos = c1.read_pos /\ c2.write_pos = c1.write_pos
    <3>1. 0 \in Nat
      BY Zenon
    <3> QED BY <1>3, <1>5, <3>1, CopyInRing, Zenon
  <2> HIDE DEF c2
  <2> QED BY <1>5, <2>1, Zenon
<1> HIDE DEF c2, r, n
<1>7. /\ DOMAIN r = Fields
      /\ r.data = c2.data /\ r.capacity = c2.capacity
      /\ r.count = c2.count + n
      /\ r.read_pos = c2.read_pos
      /\ r.write_pos = ((c2.write_pos + n) % b.capacity) % PosRange
      /\ r.state = c2.state
  BY <1>4, <1>6, Zenon DEF Ring, Fields
<1>8. r.state \in {"ACTIVE", "FULL"}
  BY <1>1, <1>6, <1>7, RingFacts, Zenon
<1>9. Ring(r)
  BY <1>1, <1>6, <1>7, <1>8, AdvanceRing, Zenon
<1> QED BY <1>9, Zenon DEF r

-----------------------------------------------------------------------------
(* Queueing a response *)

\* The staging copy is a packet of packet_size bytes.
LEMMA SerializedCells ==
  ASSUME NEW bytes \in Seq(Cell)
  PROVE  /\ serialized(bytes) \in Seq(Cell)
         /\ Len(serialized(bytes)) = packet_size(bytes)
         /\ packet_size(bytes) \in Nat
<1> DEFINE pad == [i \in 1 .. HeaderPad |-> Uninit]
<1>1. HeaderPad \in Nat
  BY SizeAssumption, Zenon
<1>2. pad \in Seq(Cell) /\ Len(pad) = HeaderPad
  BY <1>1 DEF Cell
<1> HIDE DEF pad
<1>3. serialized(bytes) = bytes \o pad
  BY Zenon DEF serialized, pad
<1>4. bytes \o pad \in Seq(Cell) /\ Len(bytes \o pad) = Len(bytes) + Len(pad)
  BY <1>2, ConcatFacts, Zenon
<1>5. Len(bytes) \in Nat
  BY LenFacts, Zenon
<1>6. packet_size(bytes) = Len(bytes) + HeaderPad
  BY Zenon DEF packet_size
<1> QED BY <1>1, <1>2, <1>3, <1>4, <1>5, <1>6

\* The first region of a packet that wraps is copied and committed.
LEMMA EnqueueFirst ==
  ASSUME NEW b, Ring(b), b.capacity # 0, NEW bytes \in Seq(Cell),
         packet_size(bytes) <= b.capacity - b.count,
         ~fits_contiguous(b, bytes)
  PROVE  LET f == enqueue_first(b, bytes)
             n == vr_conn_ring_buf_contiguous_write(b)
         IN  /\ Ring(f)
             /\ n \in Nat \ {0} /\ n < packet_size(bytes)
             /\ f.capacity = b.capacity /\ f.count = b.count + n
             /\ f.read_pos = b.read_pos
             /\ f.write_pos = ((b.write_pos + n) % b.capacity) % PosRange
<1> DEFINE n == vr_conn_ring_buf_contiguous_write(b)
           s == SubSeq(serialized(bytes), 1, n)
<1>1. /\ n \in Nat \ {0} /\ n < packet_size(bytes)
      /\ n <= b.capacity - b.count
  <2>1. packet_size(bytes) \in Nat
    BY SerializedCells, Zenon
  <2>2. b.capacity \in Nat /\ b.count \in Nat
    BY RingFacts
  <2>3. n \in Nat /\ n < packet_size(bytes)
    BY <2>1, ContiguousWriteBounds DEF fits_contiguous
  <2> HIDE DEF n
  <2>4. b.count < b.capacity /\ n <= b.capacity - b.count
    BY <2>1, <2>2, <2>3
  <2> QED BY <2>3, <2>4, ContiguousWriteBounds DEF n
<1>2. s \in Seq(Cell)
  <2> HIDE DEF n
  <2> QED BY <1>1, SerializedCells, SubSeqCells
<1>3. enqueue_first(b, bytes)
        = vr_conn_ring_buf_commit(CopyIn(b, b.write_pos, s), n)
  BY Zenon DEF enqueue_first
<1> HIDE DEF n, s
<1> QED BY <1>1, <1>2, <1>3, WriteRing DEF n

\* The branch marked "should be unreachable" is unreachable: a packet that
\* reserve() made room for and that does not fit in the first region leaves
\* a second region that holds the rest.
LEMMA SecondRegion ==
  ASSUME NEW b, Ring(b), b.capacity # 0, NEW bytes \in Seq(Cell),
         packet_size(bytes) <= b.capacity - b.count,
         ~fits_contiguous(b, bytes)
  PROVE  second_region_ok(b, bytes)
<1> DEFINE n == vr_conn_ring_buf_contiguous_write(b)
           f == enqueue_first(b, bytes)
           size == packet_size(bytes)
<1>1. /\ n \in Nat \ {0} /\ n < size /\ size \in Nat
      /\ f.capacity = b.capacity /\ f.count = b.count + n
      /\ f.read_pos = b.read_pos
  BY EnqueueFirst, SerializedCells, Zenon
<1>w. f.write_pos = ((b.write_pos + n) % b.capacity) % PosRange
  BY EnqueueFirst, Zenon
<1>2. n = LET region == IF b.write_pos >= b.read_pos
                        THEN b.capacity - b.write_pos
                        ELSE b.read_pos - b.write_pos
          IN  IF region > b.capacity - b.count
              THEN b.capacity - b.count ELSE region
  BY Zenon DEF vr_conn_ring_buf_contiguous_write
<1>3. vr_conn_ring_buf_contiguous_write(f)
        = LET region == IF f.write_pos >= f.read_pos
                        THEN f.capacity - f.write_pos
                        ELSE f.read_pos - f.write_pos
          IN  IF region > f.capacity - f.count
              THEN f.capacity - f.count ELSE region
  BY Zenon DEF vr_conn_ring_buf_contiguous_write
<1>4. size <= b.capacity - b.count
  BY Zenon
<1> HIDE DEF n, f, size
<1>5. /\ b.capacity \in 1 .. MaxSize /\ b.count \in 0 .. b.capacity
      /\ b.read_pos \in Nat /\ b.write_pos \in Nat
      /\ b.read_pos < b.capacity /\ b.write_pos < b.capacity
      /\ b.write_pos \in {b.read_pos + b.count,
                          b.read_pos + b.count - b.capacity}
  BY RingFacts, Zenon
<1>6. /\ b.write_pos + n = b.capacity
      /\ b.read_pos = b.capacity - b.count - n /\ b.read_pos > 0
  <2>1. n < b.capacity - b.count
    BY <1>1, <1>4, <1>5
  <2>2. b.capacity \in Nat /\ b.count \in Nat /\ b.count <= b.capacity
    BY <1>5
  <2>3. CASE b.write_pos < b.read_pos
    <3>1. b.read_pos - b.write_pos = b.capacity - b.count
      BY <1>5, <2>2, <2>3
    <3>2. ~(b.write_pos >= b.read_pos)
      BY <1>5, <2>3
    <3>3. n = b.capacity - b.count
      BY <1>2, <2>2, <3>1, <3>2, Zenon
    <3> QED BY <1>1, <2>1, <2>2, <3>3
  <2>4. CASE b.write_pos >= b.read_pos
    <3>1. b.write_pos = b.read_pos + b.count
      BY <1>1, <1>5, <2>1, <2>2, <2>4
    <3>2. n = b.capacity - b.write_pos
      BY <1>1, <1>2, <1>5, <2>1, <2>2, <2>4
    <3>3. n \in Nat /\ b.write_pos \in Nat /\ b.read_pos \in Nat
      BY <1>1, <1>5, Zenon
    <3>4. b.write_pos + n = b.capacity
      BY <2>2, <3>2, <3>3
    <3>5. b.read_pos = b.capacity - b.count - n
      BY <2>2, <3>1, <3>3, <3>4
    <3> QED BY <2>1, <2>2, <3>3, <3>4, <3>5
  <2> QED BY <1>5, <2>3, <2>4
<1>t. /\ n \in Nat /\ b.write_pos \in Nat /\ b.read_pos \in Nat
      /\ b.capacity \in Nat /\ b.count \in Nat
  BY <1>1, <1>5
<1>7. f.write_pos = 0
  <2>1. n <= b.capacity /\ b.write_pos + n >= b.capacity
    BY <1>6, <1>t
  <2>2. ((b.write_pos + n) % b.capacity) % PosRange
          = b.write_pos + n - b.capacity
    BY <1>1, <1>5, <2>1, Wrap, Zenon
  <2>3. b.write_pos + n - b.capacity = 0
    BY <1>6, <1>t
  <2> QED BY <1>w, <2>2, <2>3, Zenon
<1>8. vr_conn_ring_buf_contiguous_write(f) = b.read_pos
  <2>1. f.read_pos = b.read_pos /\ ~(f.write_pos >= f.read_pos)
    BY <1>1, <1>6, <1>7, <1>t
  <2>2. f.capacity - f.count = b.read_pos
    BY <1>1, <1>6, <1>t
  <2> QED BY <1>3, <1>7, <1>t, <2>1, <2>2
<1>9. vr_conn_ring_buf_contiguous_write(f) >= size - n
  BY <1>1, <1>4, <1>5, <1>6, <1>8
<1> QED BY <1>9, Zenon DEF second_region_ok, remaining, n, f, size

\* After a reserve() that succeeds the packet fits in the free space.
LEMMA ReserveRoom ==
  ASSUME NEW b, Ring(b), NEW size, NEW avail, reserve_ok(b, size, avail)
  PROVE  LET r == vr_conn_ring_buf_reserve(b, size, avail)
         IN  Ring(r) /\ r.capacity # 0 /\ r.capacity - r.count >= size
BY ReserveRing, Zenon DEF reserve_ok, vr_conn_ring_buf_free

\* reactor_enqueue_response()
LEMMA EnqueueRing ==
  ASSUME NEW b, Ring(b), NEW bytes \in Seq(Cell), Len(bytes) # 0,
         NEW avail, NEW staged \in BOOLEAN
  PROVE  Ring(reactor_enqueue_response(b, bytes, avail, staged))
<1> DEFINE size == packet_size(bytes)
           r == vr_conn_ring_buf_reserve(b, size, avail)
           e == reactor_enqueue_response(b, bytes, avail, staged)
<1>1. Ring(r)
  BY ReserveRing, Zenon
<1>2. size \in Nat /\ size # 0
  BY SizeAssumption, SerializedCells, LenFacts DEF packet_size
<1>3. e = IF \/ ~reserve_ok(b, size, avail)
             \/ vr_conn_ring_buf_contiguous_write(r) = 0
          THEN r
          ELSE IF fits_contiguous(r, bytes) THEN enqueue_contiguous(r, bytes)
          ELSE IF ~staged THEN r
          ELSE enqueue_wrapped(r, bytes)
  BY Zenon DEF reactor_enqueue_response
<1> HIDE DEF r, e
<1>4. CASE ~reserve_ok(b, size, avail)
           \/ vr_conn_ring_buf_contiguous_write(r) = 0
  BY <1>1, <1>3, <1>4, Zenon DEF e
<1>5. CASE reserve_ok(b, size, avail)
           /\ vr_conn_ring_buf_contiguous_write(r) # 0
  <2>1. /\ r.capacity # 0 /\ r.capacity \in Nat /\ r.count \in Nat
        /\ size <= r.capacity - r.count
    <3>1. r.capacity # 0 /\ r.capacity - r.count >= size
      BY <1>5, ReserveRoom, Zenon DEF r
    <3>2. r.capacity \in Nat /\ r.count \in Nat
      BY <1>1 DEF Ring, RingType
    <3> QED BY <1>2, <3>1, <3>2, Zenon
  <2>2. CASE fits_contiguous(r, bytes)
    <3>1. e = vr_conn_ring_buf_commit(CopyIn(r, r.write_pos, bytes), size)
      BY <1>3, <1>5, <2>2, Zenon DEF enqueue_contiguous
    <3> HIDE DEF size
    <3> QED BY <1>1, <1>2, <2>1, <3>1, WriteRing, Zenon DEF e
  <2>3. CASE ~fits_contiguous(r, bytes) /\ ~staged
    BY <1>1, <1>3, <1>5, <2>3, Zenon DEF e
  <2>4. CASE ~fits_contiguous(r, bytes) /\ staged
    <3> DEFINE n == vr_conn_ring_buf_contiguous_write(r)
               f == enqueue_first(r, bytes)
               rest == SubSeq(serialized(bytes), n + 1, size)
    <3>1. /\ Ring(f) /\ n \in Nat /\ n < size
          /\ f.capacity = r.capacity /\ f.count = r.count + n
      BY <1>1, <2>1, <2>4, EnqueueFirst, Zenon
    <3>2. second_region_ok(r, bytes)
      BY <1>1, <2>1, <2>4, SecondRegion, Zenon
    <3>3. e = vr_conn_ring_buf_commit(CopyIn(f, f.write_pos, rest), size - n)
      BY <1>3, <1>5, <2>4, <3>2, Zenon DEF enqueue_wrapped, remaining
    <3>4. rest \in Seq(Cell)
      <4>1. n + 1 \in Nat \ {0}
        BY <3>1
      <4> HIDE DEF n
      <4> QED BY <1>2, <4>1, SerializedCells, SubSeqCells
    <3> HIDE DEF n, f, rest, size
    <3>5. /\ size - n \in Nat \ {0} /\ f.capacity # 0
          /\ size - n <= f.capacity - f.count
      BY <1>2, <2>1, <3>1
    <3> QED BY <3>1, <3>3, <3>4, <3>5, WriteRing, Zenon DEF e
  <2> QED BY <2>2, <2>3, <2>4, Zenon
<1> QED BY <1>4, <1>5, Zenon

-----------------------------------------------------------------------------
(* Bytes handed to callers *)

\* vr_conn_ring_buf_peek_n() reads cells of the array only.
LEMMA PeekNCells ==
  ASSUME NEW b, Ring(b), NEW len \in Nat \ {0}, peek_n_ok(b, len)
  PROVE  vr_conn_ring_buf_peek_n(b, len) \in Seq(Cell)
<1> DEFINE first_chunk == b.capacity - b.read_pos
<1>1. b.capacity # 0 /\ len <= b.count
  BY DEF peek_n_ok, Ring, RingType
<1>2. /\ b.capacity \in Nat /\ b.count \in Nat /\ b.count <= b.capacity
      /\ b.read_pos \in Nat /\ b.read_pos < b.capacity
  BY <1>1, RingFacts
<1>3. \A j \in 0 .. b.capacity - 1 : b.data[j] \in Cell
  BY Zenon DEF Ring, RingType
<1>4. \A i \in 1 .. len :
        (IF i <= first_chunk THEN b.data[b.read_pos + i - 1]
         ELSE b.data[i - first_chunk - 1]) \in Cell
  <2> SUFFICES ASSUME NEW i \in 1 .. len
               PROVE  (IF i <= first_chunk THEN b.data[b.read_pos + i - 1]
                       ELSE b.data[i - first_chunk - 1]) \in Cell
    BY Zenon
  <2>1. i <= first_chunk => b.read_pos + i - 1 \in 0 .. b.capacity - 1
    BY <1>2
  <2>2. ~(i <= first_chunk) => i - first_chunk - 1 \in 0 .. b.capacity - 1
    BY <1>1, <1>2
  <2> QED BY <1>3, <2>1, <2>2, Zenon
<1> QED BY <1>4 DEF vr_conn_ring_buf_peek_n

\* The span of vr_conn_ring_buf_contiguous_read() lies inside the array and
\* inside what is readable.
LEMMA ContiguousReadBounds ==
  ASSUME NEW b, Ring(b)
  PROVE  LET n == vr_conn_ring_buf_contiguous_read(b)
         IN  /\ n \in Nat /\ n <= b.count
             /\ n > 0 => b.read_pos + n <= b.capacity
<1>1. CASE b.count = 0
  BY <1>1 DEF vr_conn_ring_buf_contiguous_read
<1>2. CASE b.count # 0
  <2>1. b.capacity # 0
    BY <1>2 DEF Ring, RingType
  <2> QED BY <1>2, <2>1, RingFacts DEF vr_conn_ring_buf_contiguous_read
<1> QED BY <1>1, <1>2, Zenon

-----------------------------------------------------------------------------
(* The inductive invariant *)

IInv ==
  /\ Ring(buf)
  /\ ret \in {"SUCCESS", "ERROR"}
  /\ out \in Seq(Cell)

\* The spans of the calls are non-empty sequences of cells.
LEMMA SpanCells ==
  ASSUME NEW bytes \in Spans
  PROVE  bytes \in Seq(Cell) /\ Len(bytes) \in 1 .. MaxSpan
<1>1. PICK n \in 1 .. MaxSpan : bytes \in [1 .. n -> Byte]
  BY Zenon DEF Spans
<1>2. n \in Nat
  BY <1>1, SpanAssumption
<1>3. bytes \in Seq(Byte) /\ Len(bytes) = n
  BY <1>1, <1>2
<1> QED BY <1>1, <1>3, SeqWidens, Zenon DEF Cell

\* The zeroed struct satisfies the invariant.
LEMMA InitInv == Init => IInv
BY ZeroRing, EmptyFacts, Zenon DEF Init, IInv

\* Every call of the interface preserves the invariant.
LEMMA NextInv == IInv /\ [Next]_vars => IInv'
<1> SUFFICES ASSUME IInv, [Next]_vars PROVE IInv'
  BY Zenon
<1>a. Ring(buf) /\ out \in Seq(Cell)
  BY Zenon DEF IInv
<1>b. << >> \in Seq(Cell)
  BY EmptyFacts, Zenon
<1>c. \A n \in 1 .. MaxSpan : n \in Nat \ {0}
  BY SpanAssumption
<1>1. ASSUME NEW avail \in Avail, InitCall(avail) PROVE IInv'
  BY <1>1, <1>a, <1>b, InitRing, Zenon DEF InitCall, Returns, IInv
<1>2. ASSUME NEW avail \in Avail, GrowCall(avail) PROVE IInv'
  BY <1>2, <1>a, <1>b, GrowRing, Zenon DEF GrowCall, Returns, IInv
<1>3. ASSUME NEW avail \in Avail, NEW n \in 1 .. MaxSpan, ReserveCall(n, avail)
      PROVE  IInv'
  BY <1>3, <1>a, <1>b, ReserveRing, Zenon DEF ReserveCall, Returns, IInv
<1>4. ASSUME NEW avail \in Avail, NEW byte \in Byte, PushCall(byte, avail)
      PROVE  IInv'
  BY <1>4, <1>a, <1>b, PushRing, Zenon DEF PushCall, Returns, IInv, Cell
<1>5. ASSUME NEW bytes \in Spans, WriteSpan(bytes) PROVE IInv'
  <2> DEFINE n == Len(bytes)
  <2>1. bytes \in Seq(Cell) /\ n \in Nat \ {0}
    BY <1>c, SpanCells, Zenon
  <2>2. n <= vr_conn_ring_buf_contiguous_write(buf)
    BY <1>5, Zenon DEF WriteSpan
  <2>3. buf.capacity # 0 /\ n <= buf.capacity - buf.count
    <3> HIDE DEF n
    <3>1. buf.capacity \in Nat /\ buf.count \in 0 .. buf.capacity
      BY <1>a DEF Ring, RingType
    <3> QED BY <1>a, <2>1, <2>2, <3>1, ContiguousWriteBounds
  <2>4. Ring(vr_conn_ring_buf_commit(CopyIn(buf, buf.write_pos, bytes), n))
    <3> HIDE DEF n
    <3> QED BY <1>a, <2>1, <2>3, WriteRing, Zenon
  <2> QED BY <1>5, <1>b, <2>4, Zenon DEF WriteSpan, Succeeds, IInv
<1>6. ASSUME NEW n \in 1 .. MaxSpan, CommitTooMuch(n) PROVE IInv'
  BY <1>6, <1>a, <1>b, Zenon
     DEF CommitTooMuch, vr_conn_ring_buf_commit, Fails, IInv
<1>7. ASSUME NEW bytes \in Spans, RecvCall(bytes) PROVE IInv'
  <2>1. bytes \in Seq(Cell) /\ Len(bytes) # 0
    BY SpanCells
  <2> QED BY <1>7, <1>a, <1>b, <2>1, RecvRing, Zenon DEF RecvCall, Succeeds, IInv
<1>8. ASSUME NEW avail \in Avail, NEW staged \in BOOLEAN, NEW bytes \in Spans,
             EnqueueCall(bytes, avail, staged)
      PROVE  IInv'
  <2>1. bytes \in Seq(Cell) /\ Len(bytes) # 0
    BY SpanCells
  <2>2. Ring(reactor_enqueue_response(buf, bytes, avail, staged))
    BY <1>a, <2>1, EnqueueRing, Zenon
  <2> QED BY <1>8, <1>b, <2>2, Zenon DEF EnqueueCall, Returns, IInv
<1>d. buf.count > 0 => <<buf.data[buf.read_pos]>> \in Seq(Cell)
  <2> SUFFICES ASSUME buf.count > 0
               PROVE  <<buf.data[buf.read_pos]>> \in Seq(Cell)
    BY Zenon
  <2>1. buf.capacity # 0
    BY <1>a DEF Ring, RingType
  <2>2. buf.read_pos \in 0 .. buf.capacity - 1
    BY <1>a, <2>1, RingFacts
  <2>3. buf.data[buf.read_pos] \in Cell
    BY <1>a, <2>2, Zenon DEF Ring, RingType
  <2> QED BY <2>3
<1>9. ASSUME PopCall PROVE IInv'
  BY <1>9, <1>a, <1>b, <1>d, PopRing, Zenon DEF PopCall, Returns, IInv
<1>10. ASSUME PeekCall PROVE IInv'
  BY <1>10, <1>a, <1>b, <1>d, Zenon DEF PeekCall, Returns, IInv
<1>11. ASSUME NEW n \in 1 .. MaxSpan, PeekNCall(n) PROVE IInv'
  BY <1>11, <1>a, <1>b, <1>c, PeekNCells, Zenon DEF PeekNCall, Returns, IInv
<1>12. ASSUME ReadSpan PROVE IInv'
  <2> DEFINE n == vr_conn_ring_buf_contiguous_read(buf)
  <2>1. n \in Nat /\ (n > 0 => buf.read_pos + n <= buf.capacity)
    BY <1>a, ContiguousReadBounds, Zenon
  <2>2. /\ buf.read_pos \in Nat /\ buf.capacity \in Nat
        /\ \A j \in 0 .. buf.capacity - 1 : buf.data[j] \in Cell
    BY <1>a DEF Ring, RingType
  <2>3. out' = [i \in 1 .. n |-> buf.data[buf.read_pos + i - 1]]
    BY <1>12, Zenon DEF ReadSpan
  <2> HIDE DEF n
  <2>4. \A i \in 1 .. n : buf.data[buf.read_pos + i - 1] \in Cell
    BY <2>1, <2>2
  <2>5. out' \in Seq(Cell)
    BY <2>1, <2>3, <2>4
  <2> QED BY <1>12, <1>a, <2>5, Zenon DEF ReadSpan, IInv
<1>13. ASSUME NEW n \in 1 .. MaxSpan, ConsumeCall(n) PROVE IInv'
  BY <1>13, <1>a, <1>b, <1>c, ConsumeRing, Zenon DEF ConsumeCall, Returns, IInv
<1>14. ASSUME UNCHANGED vars PROVE IInv'
  BY <1>14, Zenon DEF vars, IInv
<1> QED
  BY <1>1, <1>2, <1>3, <1>4, <1>5, <1>6, <1>7, <1>8, <1>9, <1>10, <1>11,
     <1>12, <1>13, <1>14, Zenon DEF Next

\* The invariant of every behaviour.
LEMMA Invariance == Spec => []IInv
BY InitInv, NextInv, PTL DEF Spec

-----------------------------------------------------------------------------
(* What a ring holds *)

\* The cell of the k-th byte after the oldest.
Place(b, k) == IF b.read_pos + k < b.capacity THEN b.read_pos + k
               ELSE b.read_pos + k - b.capacity

\* The bytes of a ring, without %.
LEMMA ContentsCells ==
  ASSUME NEW b, Ring(b)
  PROVE  /\ Contents(b) \in Seq(Cell) /\ Len(Contents(b)) = b.count
         /\ \A k \in 0 .. b.count - 1 : Contents(b)[k + 1] = b.data[Place(b, k)]
<1>0. b.count \in Nat
  BY DEF Ring, RingType
<1> DEFINE f == [i \in 1 .. b.count |->
                   b.data[(b.read_pos + i - 1) % b.capacity]]
<1>1. \A i \in 1 .. b.count :
        /\ b.data[(b.read_pos + i - 1) % b.capacity] = b.data[Place(b, i - 1)]
        /\ b.data[Place(b, i - 1)] \in Cell
  <2> SUFFICES ASSUME NEW i \in 1 .. b.count
               PROVE  /\ (b.read_pos + i - 1) % b.capacity = Place(b, i - 1)
                      /\ Place(b, i - 1) \in 0 .. b.capacity - 1
    BY Zenon DEF Ring, RingType
  <2>1. b.capacity # 0
    BY DEF Ring, RingType
  <2>2. /\ b.capacity \in Nat \ {0} /\ b.read_pos \in Nat
        /\ b.read_pos < b.capacity /\ i <= b.capacity /\ i \in Nat \ {0}
    BY <2>1, RingFacts
  <2> DEFINE x == b.read_pos + i - 1
  <2>3. x \in Nat /\ x < 2 * b.capacity
    BY <2>2
  <2>4. x % b.capacity = IF x < b.capacity THEN x ELSE x - b.capacity
    <3> HIDE DEF x
    <3>1. CASE x < b.capacity
      BY <2>2, <2>3, <3>1, ModSmall, Zenon
    <3>2. CASE ~(x < b.capacity)
      BY <2>2, <2>3, <3>2, ModOnce
    <3> QED BY <3>1, <3>2, Zenon
  <2> QED BY <2>2, <2>4 DEF Place
<1>2. /\ f \in Seq(Cell) /\ Len(f) = b.count
      /\ \A i \in 1 .. b.count : f[i] = b.data[Place(b, i - 1)]
  BY <1>0, <1>1, SMTT(30)
<1>3. Contents(b) = f
  BY Zenon DEF Contents
<1> HIDE DEF f
<1>4. \A k \in 0 .. b.count - 1 : f[k + 1] = b.data[Place(b, k)]
  <2> SUFFICES ASSUME NEW k \in 0 .. b.count - 1
               PROVE  f[k + 1] = b.data[Place(b, k)]
    BY Zenon
  <2>1. k + 1 \in 1 .. b.count /\ (k + 1) - 1 = k
    BY <1>0
  <2> QED BY <1>2, <2>1, Zenon
<1> QED BY <1>2, <1>3, <1>4, Zenon

\* Rings that agree byte by byte hold the same.
LEMMA SameContents ==
  ASSUME NEW b, Ring(b), NEW r, Ring(r), r.count = b.count,
         \A k \in 0 .. b.count - 1 : r.data[Place(r, k)] = b.data[Place(b, k)]
  PROVE  Contents(r) = Contents(b)
<1>0. b.count \in Nat
  BY DEF Ring, RingType
<1>1. /\ Contents(b) \in Seq(Cell) /\ Len(Contents(b)) = b.count
      /\ Contents(r) \in Seq(Cell) /\ Len(Contents(r)) = b.count
  BY ContentsCells, Zenon
<1>2. \A i \in 1 .. b.count : Contents(r)[i] = Contents(b)[i]
  <2> SUFFICES ASSUME NEW i \in 1 .. b.count
               PROVE  Contents(r)[i] = Contents(b)[i]
    BY Zenon
  <2>1. i - 1 \in 0 .. b.count - 1 /\ (i - 1) + 1 = i
    BY <1>0
  <2> QED BY <2>1, ContentsCells, Zenon
<1> QED BY <1>1, <1>2, SameSeq, Zenon

\* vr_conn_ring_buf_init() changes nothing of what is held.
LEMMA InitContents ==
  ASSUME NEW b, Ring(b), NEW avail
  PROVE  Contents(vr_conn_ring_buf_init(b, avail)) = Contents(b)
<1> DEFINE r == vr_conn_ring_buf_init(b, avail)
<1>1. CASE ~init_ok(b, avail)
  BY <1>1, Zenon DEF vr_conn_ring_buf_init
<1>2. CASE init_ok(b, avail)
  <2>1. Ring(r) /\ r.count = b.count
    BY InitRing, Zenon
  <2>2. b.count = 0
    BY <1>2 DEF init_ok, Ring, RingType
  <2> HIDE DEF r
  <2>3. Contents(r) = Contents(b)
    BY <2>1, <2>2, SameContents
  <2> QED BY <2>3, Zenon DEF r
<1> QED BY <1>1, <1>2, Zenon

\* Relocation unwraps the ring and loses or moves no byte.
LEMMA RelocateContents ==
  ASSUME NEW b, Ring(b), b.capacity # 0,
         NEW c \in Nat, b.capacity < c, c <= MaxSize
  PROVE  Contents(Relocate(b, c)) = Contents(b)
<1> DEFINE r == Relocate(b, c)
<1>1. Ring(r) /\ r.capacity = c /\ r.count = b.count
  BY RelocateRing, Zenon
<1>2. r.read_pos = 0
  BY Zenon DEF Relocate
<1>3. /\ b.capacity \in 1 .. MaxSize /\ b.count \in 0 .. b.capacity
      /\ b.read_pos \in Nat /\ b.write_pos \in Nat
      /\ b.read_pos < b.capacity /\ b.write_pos < b.capacity
      /\ b.write_pos \in {b.read_pos + b.count,
                          b.read_pos + b.count - b.capacity}
  BY RingFacts, Zenon
<1>4. \A k \in 0 .. b.count - 1 : r.data[Place(r, k)] = b.data[Place(b, k)]
  <2> SUFFICES ASSUME NEW k \in 0 .. b.count - 1
               PROVE  r.data[Place(r, k)] = b.data[Place(b, k)]
    BY Zenon
  <2>1. Place(r, k) = k /\ k \in 0 .. c - 1 /\ ~(k >= b.count)
    <3> HIDE DEF r
    <3> QED BY <1>1, <1>2, <1>3 DEF Place
  <2> DEFINE first_chunk == b.capacity - b.read_pos
  <2>2. r.data[k] = IF b.read_pos < b.write_pos \/ k < first_chunk
                    THEN b.data[b.read_pos + k] ELSE b.data[k - first_chunk]
    BY <2>1, Zenon DEF Relocate
  <2>3. IF b.read_pos < b.write_pos \/ k < first_chunk
        THEN Place(b, k) = b.read_pos + k ELSE Place(b, k) = k - first_chunk
    BY <1>3 DEF Place
  <2> HIDE DEF r, first_chunk
  <2> QED BY <2>1, <2>2, <2>3, Zenon
<1> HIDE DEF r
<1>5. Contents(r) = Contents(b)
  BY <1>1, <1>4, SameContents, Zenon
<1> QED BY <1>5, Zenon DEF r

\* vr_conn_ring_buf_grow() changes nothing of what is held.
LEMMA GrowContents ==
  ASSUME NEW b, Ring(b), NEW avail
  PROVE  Contents(vr_conn_ring_buf_grow(b, avail)) = Contents(b)
<1>1. CASE ~grow_ok(b, avail)
  BY <1>1, Zenon DEF vr_conn_ring_buf_grow
<1>2. CASE grow_ok(b, avail) /\ b.capacity = 0
  BY <1>2, InitContents, Zenon DEF vr_conn_ring_buf_grow
<1>3. CASE grow_ok(b, avail) /\ b.capacity # 0
  <2> DEFINE c == GrownCapacity(b.capacity)
  <2>1. b.capacity \in 1 .. MaxSize /\ b.capacity < MaxSize
    BY <1>3, RingFacts, Zenon DEF grow_ok
  <2>2. c \in Nat /\ b.capacity < c /\ c <= MaxSize
    BY <2>1, SizeAssumption DEF GrownCapacity
  <2>3. Contents(Relocate(b, c)) = Contents(b)
    <3> HIDE DEF c
    <3> QED BY <1>3, <2>2, RelocateContents, Zenon
  <2> QED BY <1>3, <2>3, Zenon DEF vr_conn_ring_buf_grow
<1> QED BY <1>1, <1>2, <1>3, Zenon

\* Neither does vr_conn_ring_buf_reserve(), however often it grows the ring
\* and whether or not it gets the room it was asked for.
LEMMA ReserveContents ==
  ASSUME NEW b, Ring(b), NEW needed, NEW avail
  PROVE  Contents(vr_conn_ring_buf_reserve(b, needed, avail)) = Contents(b)
<1> DEFINE i == vr_conn_ring_buf_init(b, avail)
           c == ReserveCapacity(i, needed, avail)
<1>1. Ring(i) /\ Contents(i) = Contents(b)
  BY InitRing, InitContents, Zenon
<1>2. vr_conn_ring_buf_reserve(b, needed, avail) =
        IF i.capacity = 0 \/ c = i.capacity THEN i ELSE Relocate(i, c)
  BY Zenon DEF vr_conn_ring_buf_reserve
<1> HIDE DEF i
<1>3. c \in Nat /\ i.capacity <= c /\ c <= MaxSize
  BY <1>1, ReserveCapacityBounds, Zenon
<1>4. i.capacity \in Nat
  BY <1>1 DEF Ring, RingType
<1> HIDE DEF c
<1>5. CASE i.capacity = 0 \/ c = i.capacity
  BY <1>1, <1>2, <1>5, Zenon
<1>6. CASE ~(i.capacity = 0 \/ c = i.capacity)
  <2>1. i.capacity # 0 /\ i.capacity < c
    BY <1>3, <1>4, <1>6
  <2> QED BY <1>1, <1>2, <1>3, <1>6, <2>1, RelocateContents, Zenon
<1> QED BY <1>5, <1>6, Zenon

-----------------------------------------------------------------------------
(* Adding bytes *)

\* r is b with n bytes more, the first of them `bytes'.
Adds(b, bytes, n, r) ==
  /\ Ring(r) /\ r.count = b.count + n
  /\ \A k \in 0 .. b.count - 1 : r.data[Place(r, k)] = b.data[Place(b, k)]
  /\ \A k \in 0 .. Len(bytes) - 1 :
       r.data[Place(r, b.count + k)] = bytes[k + 1]

\* What that means for the contents.
LEMMA AddsContents ==
  ASSUME NEW b, Ring(b), NEW bytes \in Seq(Cell), NEW n \in Nat,
         Len(bytes) <= n, NEW r, Adds(b, bytes, n, r)
  PROVE  /\ SubSeq(Contents(r), 1, b.count + Len(bytes)) = Contents(b) \o bytes
         /\ SubSeq(Contents(r), 1, b.count) = Contents(b)
<1>0. PICK q \in Seq(Cell) : q = Contents(b)
  BY ContentsCells, Zenon
<1>1. PICK s \in Seq(Cell) : s = Contents(r)
  BY ContentsCells, Zenon DEF Adds
<1>2. PICK m \in Nat : m = b.count
  BY DEF Ring, RingType
<1>3. PICK l \in Nat : l = Len(bytes)
  BY LenFacts, Zenon
<1>4. /\ Len(q) = m /\ Len(s) = m + n
      /\ \A j \in 0 .. (m + n) - 1 : s[j + 1] = r.data[Place(r, j)]
  BY <1>0, <1>1, <1>2, ContentsCells, Zenon DEF Adds
<1>5. \A i \in 1 .. m : s[i] = q[i]
  <2> SUFFICES ASSUME NEW i \in 1 .. m
               PROVE  s[i] = q[i]
    BY Zenon
  <2>1. PICK k \in 0 .. m - 1 : k + 1 = i /\ k \in 0 .. (m + n) - 1
    <3>1. i - 1 \in 0 .. m - 1 /\ (i - 1) + 1 = i /\ i - 1 \in 0 .. (m + n) - 1
      OBVIOUS
    <3> QED BY <3>1, Zenon
  <2>2. q[i] = b.data[Place(b, k)] /\ s[i] = r.data[Place(r, k)]
    BY <1>0, <1>1, <1>2, <2>1, ContentsCells, Zenon DEF Adds
  <2> QED BY <1>2, <2>1, <2>2, Zenon DEF Adds
<1>6. \A i \in 1 .. l : s[m + i] = bytes[i]
  <2> SUFFICES ASSUME NEW i \in 1 .. l
               PROVE  s[m + i] = bytes[i]
    BY Zenon
  <2>1. PICK k \in 0 .. l - 1 :
          k + 1 = i /\ m + k \in 0 .. (m + n) - 1 /\ (m + k) + 1 = m + i
    <3>1. /\ i - 1 \in 0 .. l - 1 /\ (i - 1) + 1 = i
          /\ m + (i - 1) \in 0 .. (m + n) - 1 /\ (m + (i - 1)) + 1 = m + i
      BY <1>3
    <3> QED BY <3>1, Zenon
  <2>2. s[(m + k) + 1] = r.data[Place(r, m + k)]
    BY <1>4, <2>1, Zenon
  <2> QED BY <1>2, <1>3, <2>1, <2>2, Zenon DEF Adds
<1>7. SubSeq(s, 1, m + l) = q \o bytes
  <2>1. /\ SubSeq(s, 1, m + l) \in Seq(Cell) /\ Len(SubSeq(s, 1, m + l)) = m + l
        /\ \A i \in 1 .. m + l : SubSeq(s, 1, m + l)[i] = s[i]
    BY <1>3, <1>4
  <2>2. /\ q \o bytes \in Seq(Cell) /\ Len(q \o bytes) = m + l
        /\ \A i \in 1 .. m + l :
             (q \o bytes)[i] = IF i <= m THEN q[i] ELSE bytes[i - m]
    BY <1>3, <1>4, ConcatFacts, Zenon
  <2>3. \A i \in 1 .. m + l : s[i] = IF i <= m THEN q[i] ELSE bytes[i - m]
    <3> SUFFICES ASSUME NEW i \in 1 .. m + l
                 PROVE  s[i] = IF i <= m THEN q[i] ELSE bytes[i - m]
      BY Zenon
    <3>1. CASE i <= m
      BY <1>5, <3>1
    <3>2. CASE ~(i <= m)
      <4>1. i - m \in 1 .. l /\ m + (i - m) = i
        BY <3>2
      <4> QED BY <1>6, <3>2, <4>1, Zenon
    <3> QED BY <3>1, <3>2, Zenon
  <2> QED BY <2>1, <2>2, <2>3, SameSeq, Zenon
<1>8. SubSeq(s, 1, m) = q
  <2>1. /\ SubSeq(s, 1, m) \in Seq(Cell) /\ Len(SubSeq(s, 1, m)) = m
        /\ \A i \in 1 .. m : SubSeq(s, 1, m)[i] = s[i]
    BY <1>4
  <2> QED BY <1>4, <1>5, <2>1, SameSeq, Zenon
<1> QED BY <1>0, <1>1, <1>2, <1>3, <1>7, <1>8, Zenon

\* memcpy() into the array, cell by cell.
LEMMA CopyInCells ==
  ASSUME NEW b, Ring(b), NEW at \in Nat, NEW bytes \in Seq(Cell)
  PROVE  LET r == CopyIn(b, at, bytes)
         IN  \A j \in 0 .. b.capacity - 1 :
               r.data[j] = IF j \in at .. at + Len(bytes) - 1
                           THEN bytes[j - at + 1] ELSE b.data[j]
<1>1. DOMAIN b = Fields /\ DOMAIN b.data = 0 .. b.capacity - 1
  BY Zenon DEF Ring, RingType
<1> DEFINE d == [j \in DOMAIN b.data |-> IF j \in at .. at + Len(bytes) - 1
                                         THEN bytes[j - at + 1] ELSE b.data[j]]
<1>2. CopyIn(b, at, bytes) = [b EXCEPT !.data = d]
  BY Zenon DEF CopyIn
<1>3. CopyIn(b, at, bytes).data = d
  <2> HIDE DEF d
  <2> QED BY <1>1, <1>2, Zenon DEF Fields
<1> QED BY <1>1, <1>3, Zenon

\* Where a copy at write_pos lands: in the free cells next to the readable
\* ones, when it does not run past the physical end.
LEMMA FreePlaces ==
  ASSUME NEW b, Ring(b), b.capacity # 0, NEW n \in Nat,
         n <= b.capacity - b.count, b.write_pos + n <= b.capacity
  PROVE  /\ \A k \in 0 .. b.count - 1 :
              /\ Place(b, k) \in 0 .. b.capacity - 1
              /\ Place(b, k) \notin b.write_pos .. b.write_pos + n - 1
         /\ \A k \in 0 .. n - 1 :
              /\ Place(b, b.count + k) = b.write_pos + k
              /\ b.write_pos + k \in 0 .. b.capacity - 1
BY RingFacts DEF Place

\* A copy of `bytes' at write_pos, committed with n >= Len(bytes).
LEMMA WriteAdds ==
  ASSUME NEW b, Ring(b), b.capacity # 0, NEW bytes \in Seq(Cell),
         NEW n \in Nat \ {0}, n <= b.capacity - b.count,
         Len(bytes) <= n, b.write_pos + n <= b.capacity
  PROVE  Adds(b, bytes, n,
              vr_conn_ring_buf_commit(CopyIn(b, b.write_pos, bytes), n))
<1> DEFINE c == CopyIn(b, b.write_pos, bytes)
           r == vr_conn_ring_buf_commit(c, n)
<1>1. /\ Ring(r) /\ r.capacity = b.capacity /\ r.count = b.count + n
      /\ r.read_pos = b.read_pos
  BY WriteRing, Zenon
<1>2. /\ b.capacity \in 1 .. MaxSize /\ b.count \in 0 .. b.capacity
      /\ b.write_pos \in Nat
  BY RingFacts, Zenon
<1>3. r.data = c.data
  <2>1. Ring(c) /\ c.capacity = b.capacity /\ c.count = b.count
    BY <1>2, CopyInRing, Zenon
  <2>2. commit_ok(c, n)
    BY <1>2, <2>1, Zenon DEF commit_ok
  <2> HIDE DEF c
  <2> QED BY <2>1, <2>2, CommitRing, Zenon
<1>4. \A j \in 0 .. b.capacity - 1 :
        c.data[j] = IF j \in b.write_pos .. b.write_pos + Len(bytes) - 1
                    THEN bytes[j - b.write_pos + 1] ELSE b.data[j]
  BY <1>2, CopyInCells, Zenon
<1>5. \A k : Place(r, k) = Place(b, k)
  <2> HIDE DEF r
  <2> QED BY <1>1, Zenon DEF Place
<1> HIDE DEF c, r
<1>6. PICK l \in Nat : l = Len(bytes) /\ l <= n
  BY LenFacts, Zenon
<1>7. ASSUME NEW k \in 0 .. b.count - 1
      PROVE  r.data[Place(r, k)] = b.data[Place(b, k)]
  <2>1. /\ Place(b, k) \in 0 .. b.capacity - 1
        /\ Place(b, k) \notin b.write_pos .. b.write_pos + n - 1
    BY FreePlaces, Zenon
  <2>2. Place(b, k) \notin b.write_pos .. b.write_pos + Len(bytes) - 1
    BY <1>2, <1>6, <2>1
  <2> QED BY <1>3, <1>4, <1>5, <2>1, <2>2, Zenon
<1>8. ASSUME NEW k \in 0 .. Len(bytes) - 1
      PROVE  r.data[Place(r, b.count + k)] = bytes[k + 1]
  <2>1. k \in 0 .. n - 1
    BY <1>6
  <2>2. /\ Place(b, b.count + k) = b.write_pos + k
        /\ b.write_pos + k \in 0 .. b.capacity - 1
    BY <2>1, FreePlaces, Zenon
  <2>3. /\ b.write_pos + k \in b.write_pos .. b.write_pos + Len(bytes) - 1
        /\ (b.write_pos + k) - b.write_pos + 1 = k + 1
    BY <1>2, <1>6
  <2> QED BY <1>3, <1>4, <1>5, <2>2, <2>3, Zenon
<1>9. Adds(b, bytes, n, r)
  BY <1>1, <1>7, <1>8, Zenon DEF Adds
<1> QED BY <1>9, Zenon DEF r, c

\* vr_conn_ring_buf_push(): a byte is added, or nothing changes.
LEMMA PushAdds ==
  ASSUME NEW b, Ring(b), NEW byte \in Cell, NEW avail
  PROVE  LET i == vr_conn_ring_buf_init(b, avail)
             r == vr_conn_ring_buf_push(b, byte, avail)
         IN  IF push_ok(b, avail) THEN Adds(i, <<byte>>, 1, r)
             ELSE Contents(r) = Contents(b)
<1> DEFINE i == vr_conn_ring_buf_init(b, avail)
           r == vr_conn_ring_buf_push(b, byte, avail)
           w == ((i.write_pos + 1) % i.capacity) % PosRange
<1>1. Ring(i) /\ Ring(r) /\ i.count = b.count /\ Contents(i) = Contents(b)
  BY InitRing, InitContents, PushRing, Zenon
<1>2. r = IF i.capacity = 0 THEN [i EXCEPT !.state = "UNALLOC"]
          ELSE IF i.count = i.capacity THEN [i EXCEPT !.state = "FULL"]
          ELSE [i EXCEPT !.count = @ + 1, !.data[i.write_pos] = byte,
                         !.write_pos = w]
  BY Zenon DEF vr_conn_ring_buf_push
<1>3. push_ok(b, avail) <=> i.capacity # 0 /\ i.count # i.capacity
  <2>1. CASE init_ok(b, avail)
    <3>1. i.capacity = InitialSize /\ i.count = 0
      BY <2>1, Zenon DEF vr_conn_ring_buf_init
    <3> HIDE DEF i
    <3> QED BY <2>1, <3>1, SizeAssumption, Zenon DEF push_ok
  <2>2. CASE ~init_ok(b, avail)
    <3>1. i = b
      BY <2>2, Zenon DEF vr_conn_ring_buf_init
    <3> HIDE DEF i
    <3> QED BY <2>2, <3>1 DEF push_ok, Ring, RingType
  <2> QED BY <2>1, <2>2, Zenon
<1> HIDE DEF i, r, w
<1>4. CASE i.capacity = 0 \/ i.count = i.capacity
  <2>1. /\ r.data = i.data /\ r.capacity = i.capacity
        /\ r.count = i.count /\ r.read_pos = i.read_pos
    BY <1>1, <1>2, <1>4, Zenon DEF Ring, Fields
  <2>2. \A k : Place(r, k) = Place(i, k)
    BY <2>1, Zenon DEF Place
  <2>3. Contents(r) = Contents(i)
    BY <1>1, <2>1, <2>2, SameContents, Zenon
  <2> QED BY <1>1, <1>3, <1>4, <2>3, Zenon DEF i, r
<1>5. CASE i.capacity # 0 /\ i.count # i.capacity
  <2>1. r = [i EXCEPT !.count = @ + 1, !.data[i.write_pos] = byte,
                      !.write_pos = w]
    BY <1>2, <1>5, Zenon
  <2>2. /\ r.data = [i.data EXCEPT ![i.write_pos] = byte]
        /\ r.capacity = i.capacity /\ r.count = i.count + 1
        /\ r.read_pos = i.read_pos
    BY <1>1, <2>1, Zenon DEF Ring, Fields
  <2>3. \A k : Place(r, k) = Place(i, k)
    BY <2>2, Zenon DEF Place
  <2>4. /\ i.capacity \in Nat /\ i.count \in Nat /\ i.write_pos \in Nat
        /\ 1 <= i.capacity - i.count /\ i.write_pos + 1 <= i.capacity
    BY <1>1, <1>5, RingFacts
  <2>5. /\ \A k \in 0 .. i.count - 1 :
             /\ Place(i, k) \in 0 .. i.capacity - 1
             /\ Place(i, k) \notin i.write_pos .. i.write_pos + 1 - 1
        /\ \A k \in 0 .. 1 - 1 :
             /\ Place(i, i.count + k) = i.write_pos + k
             /\ i.write_pos + k \in 0 .. i.capacity - 1
    <3>1. 1 \in Nat
      BY Zenon
    <3> QED BY <1>1, <1>5, <2>4, <3>1, FreePlaces, Zenon
  <2>6. DOMAIN i.data = 0 .. i.capacity - 1
    BY <1>1, Zenon DEF Ring, RingType
  <2>7. \A k \in 0 .. i.count - 1 : r.data[Place(r, k)] = i.data[Place(i, k)]
    BY <2>2, <2>3, <2>4, <2>5, <2>6, SMTT(30)
  <2>8. \A k \in 0 .. Len(<<byte>>) - 1 :
          r.data[Place(r, i.count + k)] = <<byte>>[k + 1]
    BY <2>2, <2>3, <2>4, <2>5, <2>6
  <2>9. Adds(i, <<byte>>, 1, r)
    BY <1>1, <2>2, <2>7, <2>8, Zenon DEF Adds
  <2> QED BY <1>3, <1>5, <2>9, Zenon DEF i, r
<1> QED BY <1>4, <1>5, Zenon

\* Where recvmsg() puts n bytes: the first `split' of them at write_pos, the
\* others from the start of the array, and nowhere on a readable byte.
LEMMA RecvPlaces ==
  ASSUME NEW b, Ring(b), b.capacity # 0, NEW n \in Nat, n <= recv_room(b),
         NEW split, split = IF n > recv_region1(b) THEN recv_region1(b) ELSE n
  PROVE  /\ \A k \in 0 .. b.count - 1 :
              /\ Place(b, k) \in 0 .. b.capacity - 1
              /\ Place(b, k) \notin 0 .. n - split - 1
              /\ Place(b, k) \notin b.write_pos .. b.write_pos + split - 1
         /\ \A k \in 0 .. n - 1 :
              /\ Place(b, b.count + k) \in 0 .. b.capacity - 1
              /\ k < split => /\ Place(b, b.count + k) = b.write_pos + k
                              /\ b.write_pos + k \notin 0 .. n - split - 1
              /\ k >= split => Place(b, b.count + k) = k - split
<1>1. n <= b.capacity - b.count
  BY RecvRoom, Zenon DEF vr_conn_ring_buf_free
<1> QED BY <1>1, RingFacts DEF Place, recv_region1

\* vr_socket_recv_ring_buf(): the received bytes, in order, at the end.
LEMMA RecvAdds ==
  ASSUME NEW b, Ring(b), NEW bytes \in Seq(Cell), Len(bytes) # 0,
         Len(bytes) <= recv_room(b)
  PROVE  Adds(b, bytes, Len(bytes), vr_socket_recv_ring_buf(b, bytes))
<1>1. PICK n \in Nat : n = Len(bytes)
  BY LenFacts, Zenon
<1>2. PICK m : m = IF n > recv_region1(b) THEN recv_region1(b) ELSE n
  BY Zenon
<1>3. m \in Nat /\ m <= n
  BY <1>2, RecvRoom
<1>4. /\ b.capacity # 0 /\ n <= b.capacity - b.count
      /\ b.capacity \in Nat /\ b.count \in Nat
  <2>1. b.capacity \in Nat /\ b.count \in Nat /\ n # 0
    BY <1>1 DEF Ring, RingType
  <2>2. n <= b.capacity - b.count
    BY <1>1, RecvRoom, Zenon DEF vr_conn_ring_buf_free
  <2> QED BY <2>1, <2>2
<1> DEFINE s1 == SubSeq(bytes, 1, m)
           s2 == SubSeq(bytes, m + 1, n)
           c1 == CopyIn(b, b.write_pos, s1)
           c2 == CopyIn(c1, 0, s2)
           r == vr_socket_recv_ring_buf(b, bytes)
<1>5. r = [c2 EXCEPT !.write_pos = ((@ + n) % b.capacity) % PosRange,
                     !.count     = @ + n]
  BY <1>1, <1>2, Zenon DEF vr_socket_recv_ring_buf
<1>6. /\ s1 \in Seq(Cell) /\ Len(s1) = m
      /\ \A j \in 1 .. m : s1[j] = bytes[j]
  <2>1. s1 \in Seq(Cell)
    BY <1>1, <1>3, SubSeqCells
  <2> QED BY <1>1, <1>3, <2>1
<1>7. /\ s2 \in Seq(Cell) /\ Len(s2) = n - m
      /\ \A j \in 1 .. n - m : s2[j] = bytes[m + j]
  <2>1. s2 \in Seq(Cell)
    BY <1>1, <1>3, SubSeqCells
  <2> QED BY <1>1, <1>3, <2>1
<1> HIDE DEF s1, s2
<1>8. b.write_pos \in Nat
  BY <1>4, RingFacts, Zenon
<1>9. /\ Ring(c1) /\ c1.capacity = b.capacity /\ c1.count = b.count
      /\ c1.read_pos = b.read_pos
      /\ \A j \in 0 .. b.capacity - 1 :
           c1.data[j] = IF j \in b.write_pos .. b.write_pos + m - 1
                        THEN s1[j - b.write_pos + 1] ELSE b.data[j]
  <2>1. /\ Ring(c1) /\ c1.capacity = b.capacity /\ c1.count = b.count
        /\ c1.read_pos = b.read_pos
    BY <1>6, <1>8, CopyInRing, Zenon
  <2>2. \A j \in 0 .. b.capacity - 1 :
           c1.data[j] = IF j \in b.write_pos .. b.write_pos + Len(s1) - 1
                        THEN s1[j - b.write_pos + 1] ELSE b.data[j]
    BY <1>6, <1>8, CopyInCells, Zenon
  <2> HIDE DEF c1
  <2> QED BY <1>6, <2>1, <2>2, Zenon
<1> HIDE DEF c1
<1>10. /\ Ring(c2) /\ c2.capacity = b.capacity /\ c2.count = b.count
       /\ c2.read_pos = b.read_pos
       /\ \A j \in 0 .. b.capacity - 1 :
            c2.data[j] = IF j \in 0 .. n - m - 1
                         THEN s2[j + 1] ELSE c1.data[j]
  <2>1. /\ Ring(c2) /\ c2.capacity = c1.capacity /\ c2.count = c1.count
        /\ c2.read_pos = c1.read_pos
        /\ \A j \in 0 .. c1.capacity - 1 :
             c2.data[j] = IF j \in 0 .. 0 + Len(s2) - 1
                          THEN s2[j - 0 + 1] ELSE c1.data[j]
    <3>1. 0 \in Nat
      BY Zenon
    <3> QED BY <1>7, <1>9, <3>1, CopyInRing, CopyInCells, ZenonT(30)
  <2> HIDE DEF c2
  <2> QED BY <1>3, <1>4, <1>7, <1>9, <2>1
<1> HIDE DEF c2, r
<1>11. /\ r.data = c2.data /\ r.capacity = b.capacity
       /\ r.count = b.count + n /\ r.read_pos = b.read_pos
  BY <1>5, <1>10, Zenon DEF Ring, Fields
<1>12. \A k : Place(r, k) = Place(b, k)
  BY <1>11, Zenon DEF Place
<1>13. n <= recv_room(b)
  BY <1>1, Zenon
<1>14. ASSUME NEW k \in 0 .. b.count - 1
       PROVE  r.data[Place(r, k)] = b.data[Place(b, k)]
  <2>1. /\ Place(b, k) \in 0 .. b.capacity - 1
        /\ Place(b, k) \notin 0 .. n - m - 1
        /\ Place(b, k) \notin b.write_pos .. b.write_pos + m - 1
    BY <1>2, <1>4, <1>13, RecvPlaces, Zenon
  <2> QED BY <1>9, <1>10, <1>11, <1>12, <2>1, Zenon
<1>15. ASSUME NEW k \in 0 .. n - 1
       PROVE  r.data[Place(r, b.count + k)] = bytes[k + 1]
  <2> DEFINE j == Place(b, b.count + k)
  <2>1. /\ j \in 0 .. b.capacity - 1
        /\ k < m => /\ j = b.write_pos + k
                    /\ b.write_pos + k \notin 0 .. n - m - 1
        /\ k >= m => j = k - m
    BY <1>2, <1>4, <1>13, RecvPlaces
  <2> HIDE DEF j
  <2>2. CASE k < m
    <3>1. /\ j \notin 0 .. n - m - 1
          /\ j \in b.write_pos .. b.write_pos + m - 1
          /\ j - b.write_pos + 1 = k + 1 /\ k + 1 \in 1 .. m
      BY <1>3, <1>8, <2>1, <2>2
    <3>2. c2.data[j] = s1[k + 1]
      BY <1>9, <1>10, <2>1, <3>1, Zenon
    <3> QED BY <1>6, <1>11, <1>12, <3>1, <3>2, Zenon DEF j
  <2>3. CASE ~(k < m)
    <3>1. /\ j \in 0 .. n - m - 1 /\ j + 1 \in 1 .. n - m
          /\ m + (j + 1) = k + 1
      BY <1>3, <2>1, <2>3
    <3>2. c2.data[j] = s2[j + 1]
      BY <1>10, <2>1, <3>1, Zenon
    <3>3. s2[j + 1] = bytes[k + 1]
      BY <1>7, <3>1
    <3> QED BY <1>11, <1>12, <3>2, <3>3, Zenon DEF j
  <2> QED BY <2>2, <2>3, Zenon
<1>16. Ring(r)
  BY RecvRing, Zenon DEF r
<1>17. Adds(b, bytes, n, r)
  BY <1>1, <1>11, <1>14, <1>15, <1>16, Zenon DEF Adds
<1> QED BY <1>1, <1>17, Zenon DEF r

\* Two additions in a row are one.
LEMMA AddsTwice ==
  ASSUME NEW b, Ring(b), NEW s \in Seq(Cell), NEW t \in Seq(Cell),
         NEW f, Adds(b, s, Len(s), f), NEW r, Adds(f, t, Len(t), r)
  PROVE  Adds(b, s \o t, Len(s) + Len(t), r)
<1>1. PICK n \in Nat : n = Len(s)
  BY LenFacts, Zenon
<1>2. PICK m \in Nat : m = Len(t)
  BY LenFacts, Zenon
<1>3. PICK c \in Nat : c = b.count
  BY DEF Ring, RingType
<1>4. /\ f.count = c + n /\ r.count = c + (n + m) /\ Ring(r)
  <2>1. f.count = c + n /\ r.count = f.count + m /\ Ring(r)
    BY <1>1, <1>2, <1>3, Zenon DEF Adds
  <2> QED BY <2>1
<1>5. /\ Len(s \o t) = n + m
      /\ \A i \in 1 .. n + m : (s \o t)[i] = IF i <= n THEN s[i] ELSE t[i - n]
  BY <1>1, <1>2, ConcatFacts, Zenon
<1>6. ASSUME NEW k \in 0 .. c - 1
      PROVE  r.data[Place(r, k)] = b.data[Place(b, k)]
  <2>1. k \in 0 .. f.count - 1
    BY <1>4
  <2> QED BY <1>3, <2>1, Zenon DEF Adds
<1>7. ASSUME NEW k \in 0 .. n + m - 1
      PROVE  r.data[Place(r, c + k)] = (s \o t)[k + 1]
  <2>1. CASE k < n
    <3>1. c + k \in 0 .. f.count - 1 /\ k \in 0 .. n - 1 /\ k + 1 <= n
          /\ k + 1 \in 1 .. n + m
      BY <1>4, <2>1
    <3>2. r.data[Place(r, c + k)] = f.data[Place(f, c + k)]
      BY <3>1, Zenon DEF Adds
    <3>3. f.data[Place(f, c + k)] = s[k + 1]
      BY <1>1, <1>3, <3>1, Zenon DEF Adds
    <3> QED BY <1>5, <3>1, <3>2, <3>3, Zenon
  <2>2. CASE ~(k < n)
    <3>1. PICK j \in 0 .. m - 1 : j = k - n
      BY <2>2
    <3>2. f.count + j = c + k /\ (k + 1) - n = j + 1 /\ ~(k + 1 <= n)
          /\ k + 1 \in 1 .. n + m
      BY <1>4, <2>2, <3>1
    <3>3. r.data[Place(r, f.count + j)] = t[j + 1]
      BY <1>2, <3>1, Zenon DEF Adds
    <3> QED BY <1>5, <3>2, <3>3, Zenon
  <2> QED BY <2>1, <2>2, Zenon
<1> QED BY <1>1, <1>2, <1>3, <1>4, <1>5, <1>6, <1>7 DEF Adds

\* The first of the bytes that were added.
LEMMA AddsFirst ==
  ASSUME NEW b, NEW s \in Seq(Cell), NEW t \in Seq(Cell), NEW n, NEW r,
         Adds(b, s \o t, n, r)
  PROVE  Adds(b, s, n, r)
<1>1. PICK l \in Nat : l = Len(s)
  BY LenFacts, Zenon
<1>2. PICK m \in Nat : m = Len(t)
  BY LenFacts, Zenon
<1>3. /\ Len(s \o t) = l + m
      /\ \A i \in 1 .. l + m : (s \o t)[i] = IF i <= l THEN s[i] ELSE t[i - l]
  BY <1>1, <1>2, ConcatFacts, Zenon
<1>4. ASSUME NEW k \in 0 .. l - 1
      PROVE  r.data[Place(r, b.count + k)] = s[k + 1]
  <2>1. k \in 0 .. l + m - 1 /\ k + 1 \in 1 .. l + m /\ k + 1 <= l
    OBVIOUS
  <2>2. r.data[Place(r, b.count + k)] = (s \o t)[k + 1]
    BY <1>3, <2>1 DEF Adds
  <2> QED BY <1>3, <2>1, <2>2, Zenon
<1> QED BY <1>1, <1>4, Zenon DEF Adds

\* reactor_enqueue_response(): after the reserve, either the packet is added
\* or nothing is.
LEMMA EnqueueAdds ==
  ASSUME NEW b, Ring(b), NEW bytes \in Seq(Cell), Len(bytes) # 0,
         NEW avail, NEW staged \in BOOLEAN
  PROVE  LET r == vr_conn_ring_buf_reserve(b, packet_size(bytes), avail)
             e == reactor_enqueue_response(b, bytes, avail, staged)
         IN  IF enqueue_ok(b, bytes, avail, staged)
             THEN Adds(r, bytes, packet_size(bytes), e)
             ELSE e = r
<1> DEFINE size == packet_size(bytes)
           r == vr_conn_ring_buf_reserve(b, size, avail)
           e == reactor_enqueue_response(b, bytes, avail, staged)
           ok == enqueue_ok(b, bytes, avail, staged)
<1>1. Ring(r)
  BY ReserveRing, Zenon
<1>2. size \in Nat /\ size # 0
  BY SizeAssumption, SerializedCells, LenFacts DEF packet_size
<1>3. e = IF \/ ~reserve_ok(b, size, avail)
             \/ vr_conn_ring_buf_contiguous_write(r) = 0
          THEN r
          ELSE IF fits_contiguous(r, bytes) THEN enqueue_contiguous(r, bytes)
          ELSE IF ~staged THEN r
          ELSE enqueue_wrapped(r, bytes)
  BY Zenon DEF reactor_enqueue_response
<1>4. ok <=> /\ reserve_ok(b, size, avail)
             /\ vr_conn_ring_buf_contiguous_write(r) > 0
             /\ \/ fits_contiguous(r, bytes)
                \/ staged /\ second_region_ok(r, bytes)
  BY Zenon DEF enqueue_ok
<1>5. vr_conn_ring_buf_contiguous_write(r) \in Nat
  BY <1>1, ContiguousWriteBounds, Zenon
<1> HIDE DEF r, e, ok
<1>6. CASE ~reserve_ok(b, size, avail)
           \/ vr_conn_ring_buf_contiguous_write(r) = 0
  <2>1. ~ok
    BY <1>4, <1>6
  <2>2. e = r
    BY <1>3, <1>6, Zenon
  <2> QED BY <2>1, <2>2, Zenon DEF e, r, ok
<1>7. CASE reserve_ok(b, size, avail)
           /\ vr_conn_ring_buf_contiguous_write(r) # 0
  <2>1. /\ r.capacity # 0 /\ r.capacity \in Nat /\ r.count \in Nat
        /\ size <= r.capacity - r.count
    <3>1. r.capacity # 0 /\ r.capacity - r.count >= size
      BY <1>7, ReserveRoom, Zenon DEF r
    <3>2. r.capacity \in Nat /\ r.count \in Nat
      BY <1>1 DEF Ring, RingType
    <3> QED BY <1>2, <3>1, <3>2, Zenon
  <2>2. CASE fits_contiguous(r, bytes)
    <3>1. e = vr_conn_ring_buf_commit(CopyIn(r, r.write_pos, bytes), size)
      BY <1>3, <1>7, <2>2, Zenon DEF enqueue_contiguous
    <3>2. r.write_pos + size <= r.capacity
      <4>1. r.write_pos \in Nat
        BY <1>1, <2>1, RingFacts, Zenon
      <4>2. size <= vr_conn_ring_buf_contiguous_write(r)
        BY <1>2, <1>5, <2>2, Zenon DEF fits_contiguous
      <4>3. r.write_pos + vr_conn_ring_buf_contiguous_write(r) <= r.capacity
        BY <1>1, ContiguousWriteBounds, Zenon
      <4> HIDE DEF size
      <4> QED BY <1>2, <1>5, <2>1, <4>1, <4>2, <4>3
    <3>3. Len(bytes) <= size
      BY SizeAssumption, LenFacts DEF packet_size
    <3>4. Adds(r, bytes, size, e)
      <4> HIDE DEF size
      <4> QED BY <1>1, <1>2, <2>1, <3>1, <3>2, <3>3, WriteAdds, Zenon
    <3>5. ok
      BY <1>4, <1>5, <1>7, <2>2
    <3> QED BY <3>4, <3>5, Zenon DEF e, r, ok
  <2>3. CASE ~fits_contiguous(r, bytes) /\ ~staged
    <3>1. ~ok /\ e = r
      BY <1>3, <1>4, <1>7, <2>3, Zenon
    <3> QED BY <3>1, Zenon DEF e, r, ok
  <2>4. CASE ~fits_contiguous(r, bytes) /\ staged
    <3> DEFINE n == vr_conn_ring_buf_contiguous_write(r)
               f == enqueue_first(r, bytes)
               p == serialized(bytes)
               first == SubSeq(p, 1, n)
               rest == SubSeq(p, n + 1, size)
    <3>1. /\ Ring(f) /\ n \in Nat \ {0} /\ n < size
          /\ f.capacity = r.capacity /\ f.count = r.count + n
      BY <1>1, <2>1, <2>4, EnqueueFirst, Zenon
    <3>2. second_region_ok(r, bytes)
      BY <1>1, <2>1, <2>4, SecondRegion, Zenon
    <3>3. e = vr_conn_ring_buf_commit(CopyIn(f, f.write_pos, rest), size - n)
      BY <1>3, <1>7, <2>4, <3>2, Zenon DEF enqueue_wrapped, remaining
    <3>4. f = vr_conn_ring_buf_commit(CopyIn(r, r.write_pos, first), n)
      BY Zenon DEF enqueue_first
    <3>5. p \in Seq(Cell) /\ Len(p) = size
      BY SerializedCells, Zenon
    <3>6. size - n <= vr_conn_ring_buf_contiguous_write(f)
      BY <1>1, <1>2, <3>1, <3>2, ContiguousWriteBounds, Zenon
         DEF second_region_ok, remaining
    <3>7. /\ r.write_pos \in Nat /\ f.write_pos \in Nat
          /\ r.write_pos + n <= r.capacity
          /\ vr_conn_ring_buf_contiguous_write(f) \in Nat
          /\ f.write_pos + vr_conn_ring_buf_contiguous_write(f) <= f.capacity
      <4>1. r.write_pos \in Nat /\ f.write_pos \in Nat
        BY <1>1, <3>1, Zenon DEF Ring, RingType
      <4> QED BY <1>1, <3>1, <4>1, ContiguousWriteBounds, Zenon
    <3> HIDE DEF n, f, p, size
    <3>8. /\ first \in Seq(Cell) /\ rest \in Seq(Cell)
          /\ Len(first) = n /\ Len(rest) = size - n /\ p = first \o rest
      <4>1. /\ n \in Nat \ {0} /\ size \in Nat /\ n <= size
            /\ n + 1 \in Nat \ {0} /\ n <= Len(p) /\ size <= Len(p)
        BY <1>2, <3>1, <3>5
      <4>2. first \in Seq(Cell) /\ rest \in Seq(Cell)
        BY <3>5, <4>1, SubSeqCells
      <4>3. Len(first) = n /\ Len(rest) = size - n
        BY <1>2, <3>1, <3>5
      <4>4. p = first \o rest
        <5>1. /\ 1 \in 1 .. Len(p) + 1 /\ n \in 1 - 1 .. Len(p)
              /\ size \in n .. Len(p)
          BY <1>2, <3>5, <4>1
        <5>2. first \o rest = SubSeq(p, 1, size)
          BY <3>5, <5>1, AdjacentSubSeqs, Zenon
        <5>3. SubSeq(p, 1, size) = p
          BY <3>5, WholeSubSeq, Zenon
        <5> QED BY <5>2, <5>3, Zenon
      <4> QED BY <4>2, <4>3, <4>4, Zenon
    <3> HIDE DEF first, rest
    <3>9. Adds(r, first, n, f)
      <4>1. n <= r.capacity - r.count
        BY <1>2, <2>1, <3>1
      <4> QED BY <1>1, <2>1, <3>1, <3>4, <3>7, <3>8, <4>1, WriteAdds
    <3>10. Adds(f, rest, size - n, e)
      <4>1. PICK m \in Nat : m = size - n /\ m # 0
        BY <1>2, <3>1
      <4>2. /\ m <= f.capacity - f.count
            /\ f.capacity # 0 /\ f.write_pos + m <= f.capacity
            /\ Len(rest) <= m
        <5>1. m <= f.capacity - f.count /\ f.capacity # 0
          BY <1>2, <2>1, <3>1, <4>1
        <5>2. f.write_pos + m <= f.capacity
          BY <2>1, <3>1, <3>6, <3>7, <4>1
        <5> QED BY <3>8, <4>1, <5>1, <5>2
      <4>3. e = vr_conn_ring_buf_commit(CopyIn(f, f.write_pos, rest), m)
        BY <3>3, <4>1, Zenon
      <4> QED BY <3>1, <3>8, <4>1, <4>2, <4>3, WriteAdds, Zenon
    <3>11. Adds(r, p, size, e)
      <4>1. Len(first) + Len(rest) = size
        BY <1>2, <3>1, <3>8
      <4> QED BY <1>1, <3>8, <3>9, <3>10, <4>1, AddsTwice, Zenon
    <3>12. PICK pad \in Seq(Cell) : p = bytes \o pad
      <4>1. [i \in 1 .. HeaderPad |-> Uninit] \in Seq(Cell)
        BY SizeAssumption DEF Cell
      <4> QED BY <4>1, Zenon DEF p, serialized
    <3>13. Adds(r, bytes, size, e)
      BY <3>11, <3>12, AddsFirst, Zenon
    <3>14. ok
      BY <1>4, <1>5, <1>7, <2>4, <3>2
    <3> QED BY <3>13, <3>14, Zenon DEF e, r, ok, size
  <2> QED BY <2>2, <2>3, <2>4, Zenon
<1> QED BY <1>6, <1>7, Zenon

-----------------------------------------------------------------------------
(* Removing bytes and looking at them *)

\* r is b without its n oldest bytes.
LEMMA DropContents ==
  ASSUME NEW b, Ring(b), NEW r, Ring(r), NEW n \in Nat, n <= b.count,
         r.count = b.count - n,
         \A k \in 0 .. r.count - 1 :
           r.data[Place(r, k)] = b.data[Place(b, n + k)]
  PROVE  Contents(r) = SubSeq(Contents(b), n + 1, Len(Contents(b)))
<1>1. PICK q \in Seq(Cell) : q = Contents(b)
  BY ContentsCells, Zenon
<1>2. PICK s \in Seq(Cell) : s = Contents(r)
  BY ContentsCells, Zenon
<1>3. PICK c \in Nat : c = b.count /\ n <= c
  BY DEF Ring, RingType
<1>4. /\ Len(q) = c /\ Len(s) = c - n
      /\ \A k \in 0 .. c - 1 : q[k + 1] = b.data[Place(b, k)]
      /\ \A k \in 0 .. (c - n) - 1 : s[k + 1] = r.data[Place(r, k)]
  BY <1>1, <1>2, <1>3, ContentsCells, Zenon
<1>5. /\ SubSeq(q, n + 1, c) \in Seq(Cell)
      /\ Len(SubSeq(q, n + 1, c)) = c - n
      /\ \A i \in 1 .. c - n : SubSeq(q, n + 1, c)[i] = q[n + i]
  <2>1. SubSeq(q, n + 1, c) \in Seq(Cell)
    BY <1>3, <1>4, SubSeqCells
  <2> QED BY <1>3, <1>4, <2>1
<1>6. ASSUME NEW i \in 1 .. c - n
      PROVE  s[i] = q[n + i]
  <2>1. PICK k \in 0 .. (c - n) - 1 :
          k + 1 = i /\ n + k \in 0 .. c - 1 /\ (n + k) + 1 = n + i
    <3>1. /\ i - 1 \in 0 .. (c - n) - 1 /\ (i - 1) + 1 = i
          /\ n + (i - 1) \in 0 .. c - 1 /\ (n + (i - 1)) + 1 = n + i
      BY <1>3
    <3> QED BY <3>1, Zenon
  <2>2. s[k + 1] = r.data[Place(r, k)]
    BY <1>4, Zenon
  <2>3. q[(n + k) + 1] = b.data[Place(b, n + k)]
    BY <1>4, <2>1, Zenon
  <2>4. r.data[Place(r, k)] = b.data[Place(b, n + k)]
    BY <1>3, Zenon
  <2> QED BY <2>1, <2>2, <2>3, <2>4, Zenon
<1>7. s = SubSeq(q, n + 1, c)
  BY <1>3, <1>4, <1>5, <1>6, SameSeq
<1> QED BY <1>1, <1>2, <1>4, <1>7, Zenon

\* The cells from a read position n further on.
LEMMA DropPlaces ==
  ASSUME NEW b, Ring(b), NEW n \in Nat, n <= b.count, b.capacity # 0,
         NEW r, r.capacity = b.capacity, r.count = b.count - n,
         r.data = b.data,
         n # b.count =>
           r.read_pos = ((b.read_pos + n) % b.capacity) % PosRange
  PROVE  \A k \in 0 .. r.count - 1 :
           r.data[Place(r, k)] = b.data[Place(b, n + k)]
<1> SUFFICES ASSUME NEW k \in 0 .. r.count - 1
             PROVE  Place(r, k) = Place(b, n + k)
  BY Zenon
<1> DEFINE p == ((b.read_pos + n) % b.capacity) % PosRange
<1>1. /\ b.capacity \in 1 .. MaxSize /\ b.count \in 0 .. b.capacity
      /\ b.read_pos \in Nat /\ b.read_pos < b.capacity /\ n <= b.capacity
  BY RingFacts
<1>2. /\ b.read_pos + n < b.capacity => p = b.read_pos + n
      /\ b.read_pos + n >= b.capacity => p = b.read_pos + n - b.capacity
      /\ p \in 0 .. b.capacity - 1
  BY <1>1, Wrap, Zenon
<1>3. n # b.count
  BY <1>1
<1>4. r.read_pos = p
  BY <1>3, Zenon
<1> HIDE DEF p
<1> QED BY <1>1, <1>2, <1>4 DEF Place

\* vr_conn_ring_buf_consume() removes the n oldest bytes or none.
LEMMA ConsumeContents ==
  ASSUME NEW b, Ring(b), NEW n \in Nat \ {0}
  PROVE  LET r == vr_conn_ring_buf_consume(b, n)
         IN  Contents(r) = IF consume_ok(b, n)
                           THEN SubSeq(Contents(b), n + 1, Len(Contents(b)))
                           ELSE Contents(b)
<1> DEFINE r == vr_conn_ring_buf_consume(b, n)
           p == ((b.read_pos + n) % b.capacity) % PosRange
<1>1. CASE ~consume_ok(b, n)
  BY <1>1, Zenon DEF vr_conn_ring_buf_consume
<1>2. CASE consume_ok(b, n)
  <2>1. b.capacity # 0 /\ n <= b.count
    BY <1>2 DEF consume_ok, Ring, RingType
  <2>2. Ring(r)
    BY ConsumeRing, Zenon
  <2>3. r = [b EXCEPT
               !.read_pos  = IF n = b.count THEN 0 ELSE p,
               !.write_pos = IF n = b.count THEN 0 ELSE @,
               !.count     = @ - n,
               !.state     = IF @ = "FULL" THEN "ACTIVE" ELSE @]
    BY <1>2, Zenon DEF vr_conn_ring_buf_consume
  <2> HIDE DEF r
  <2>4. /\ r.data = b.data /\ r.capacity = b.capacity /\ r.count = b.count - n
        /\ n # b.count => r.read_pos = p
    BY <2>3, Zenon DEF Ring, Fields
  <2>5. \A k \in 0 .. r.count - 1 :
          r.data[Place(r, k)] = b.data[Place(b, n + k)]
    BY <2>1, <2>4, DropPlaces
  <2>6. Contents(r) = SubSeq(Contents(b), n + 1, Len(Contents(b)))
    BY <2>1, <2>2, <2>4, <2>5, DropContents, Zenon
  <2> QED BY <1>2, <2>6, Zenon DEF r
<1> QED BY <1>1, <1>2, Zenon

\* vr_conn_ring_buf_pop() removes the oldest byte.
LEMMA PopContents ==
  ASSUME NEW b, Ring(b), b.count # 0
  PROVE  Contents(vr_conn_ring_buf_pop(b))
           = SubSeq(Contents(b), 2, Len(Contents(b)))
<1> DEFINE r == vr_conn_ring_buf_pop(b)
           p == ((b.read_pos + 1) % b.capacity) % PosRange
<1>1. b.capacity # 0 /\ 1 <= b.count /\ 1 \in Nat
  BY DEF Ring, RingType
<1>2. Ring(r)
  BY PopRing, Zenon
<1>3. r = [b EXCEPT !.count = @ - 1, !.read_pos = p]
  BY Zenon DEF vr_conn_ring_buf_pop
<1> HIDE DEF r
<1>4. /\ r.data = b.data /\ r.capacity = b.capacity /\ r.count = b.count - 1
      /\ r.read_pos = p
  BY <1>3, Zenon DEF Ring, Fields
<1>5. \A k \in 0 .. r.count - 1 :
        r.data[Place(r, k)] = b.data[Place(b, 1 + k)]
  BY <1>1, <1>4, DropPlaces
<1>6. Contents(r) = SubSeq(Contents(b), 1 + 1, Len(Contents(b)))
  BY <1>1, <1>2, <1>4, <1>5, DropContents, Zenon
<1> QED BY <1>6 DEF r

\* Reading n cells from the read position on gives the n oldest bytes.
LEMMA TakeContents ==
  ASSUME NEW b, Ring(b), NEW n \in Nat, n <= b.count,
         NEW s \in Seq(Cell), Len(s) = n,
         \A i \in 1 .. n : s[i] = b.data[Place(b, i - 1)]
  PROVE  s = SubSeq(Contents(b), 1, n)
<1>1. PICK q \in Seq(Cell) : q = Contents(b)
  BY ContentsCells, Zenon
<1>2. PICK c \in Nat : c = b.count /\ n <= c
  BY DEF Ring, RingType
<1>3. /\ Len(q) = c
      /\ \A k \in 0 .. c - 1 : q[k + 1] = b.data[Place(b, k)]
  BY <1>1, <1>2, ContentsCells, Zenon
<1>4. /\ SubSeq(q, 1, n) \in Seq(Cell) /\ Len(SubSeq(q, 1, n)) = n
      /\ \A i \in 1 .. n : SubSeq(q, 1, n)[i] = q[i]
  BY <1>2, <1>3
<1>5. ASSUME NEW i \in 1 .. n
      PROVE  s[i] = q[i]
  <2>1. PICK k \in 0 .. c - 1 : k = i - 1 /\ k + 1 = i
    BY <1>2
  <2>2. q[k + 1] = b.data[Place(b, k)]
    BY <1>3, Zenon
  <2> QED BY <2>1, <2>2, Zenon
<1> QED BY <1>1, <1>4, <1>5, SameSeq

\* What vr_conn_ring_buf_pop() and vr_conn_ring_buf_peek() hand out.
LEMMA PeekContents ==
  ASSUME NEW b, Ring(b), b.count # 0
  PROVE  <<b.data[b.read_pos]>> = SubSeq(Contents(b), 1, 1)
<1>1. b.capacity # 0 /\ 1 <= b.count /\ 1 \in Nat
  BY DEF Ring, RingType
<1>2. b.read_pos \in 0 .. b.capacity - 1 /\ Place(b, 0) = b.read_pos
  BY <1>1, RingFacts DEF Place
<1>3. b.data[b.read_pos] \in Cell
  BY <1>2, Zenon DEF Ring, RingType
<1> DEFINE s == <<b.data[b.read_pos]>>
<1>4. /\ s \in Seq(Cell) /\ Len(s) = 1
      /\ \A i \in 1 .. 1 : s[i] = b.data[Place(b, i - 1)]
  BY <1>2, <1>3
<1> HIDE DEF s
<1>5. s = SubSeq(Contents(b), 1, 1)
  BY <1>1, <1>4, TakeContents, Zenon
<1> QED BY <1>5, Zenon DEF s

\* vr_conn_ring_buf_peek_n(), with one memcpy() or two.
LEMMA PeekNContents ==
  ASSUME NEW b, Ring(b), NEW len \in Nat \ {0}, peek_n_ok(b, len)
  PROVE  vr_conn_ring_buf_peek_n(b, len) = SubSeq(Contents(b), 1, len)
<1> DEFINE first_chunk == b.capacity - b.read_pos
           s == vr_conn_ring_buf_peek_n(b, len)
<1>1. b.capacity # 0 /\ len <= b.count
  BY DEF peek_n_ok, Ring, RingType
<1>2. s \in Seq(Cell)
  BY PeekNCells, Zenon
<1>3. /\ Len(s) = len
      /\ \A i \in 1 .. len :
           s[i] = IF i <= first_chunk THEN b.data[b.read_pos + i - 1]
                  ELSE b.data[i - first_chunk - 1]
  BY DEF vr_conn_ring_buf_peek_n
<1> HIDE DEF s
<1>4. \A i \in 1 .. len : s[i] = b.data[Place(b, i - 1)]
  <2> SUFFICES ASSUME NEW i \in 1 .. len
               PROVE  s[i] = b.data[Place(b, i - 1)]
    BY Zenon
  <2>1. Place(b, i - 1) = IF i <= first_chunk THEN b.read_pos + i - 1
                          ELSE i - first_chunk - 1
    BY <1>1, RingFacts DEF Place
  <2> QED BY <1>3, <2>1, Zenon
<1>5. s = SubSeq(Contents(b), 1, len)
  BY <1>1, <1>2, <1>3, <1>4, TakeContents, Zenon
<1> QED BY <1>5, Zenon DEF s

\* The span of vr_conn_ring_buf_contiguous_read().
LEMMA ReadSpanContents ==
  ASSUME NEW b, Ring(b)
  PROVE  LET n == vr_conn_ring_buf_contiguous_read(b)
         IN  [i \in 1 .. n |-> b.data[b.read_pos + i - 1]]
               = SubSeq(Contents(b), 1, n)
<1>1. PICK n : n = vr_conn_ring_buf_contiguous_read(b)
  BY Zenon
<1>2. n \in Nat /\ n <= b.count /\ (n > 0 => b.read_pos + n <= b.capacity)
  BY <1>1, ContiguousReadBounds, Zenon
<1>3. /\ b.read_pos \in Nat /\ b.capacity \in Nat
      /\ \A j \in 0 .. b.capacity - 1 : b.data[j] \in Cell
  BY DEF Ring, RingType
<1> DEFINE s == [i \in 1 .. n |-> b.data[b.read_pos + i - 1]]
<1>4. \A i \in 1 .. n : /\ b.data[b.read_pos + i - 1] \in Cell
                        /\ Place(b, i - 1) = b.read_pos + i - 1
  BY <1>2, <1>3 DEF Place
<1>5. /\ s \in Seq(Cell) /\ Len(s) = n
      /\ \A i \in 1 .. n : s[i] = b.data[Place(b, i - 1)]
  BY <1>2, <1>4
<1> HIDE DEF s
<1>6. s = SubSeq(Contents(b), 1, n)
  BY <1>2, <1>5, TakeContents, Zenon
<1> QED BY <1>1, <1>6, Zenon DEF s

-----------------------------------------------------------------------------
(* The ring as a queue *)

\* What ByteQueue's Add allows.
Longer(b, r) ==
  /\ Contents(r) \in Seq(Cell)
  /\ Len(Contents(r)) \in Len(Contents(b)) .. MaxSize
  /\ Contents(b) = SubSeq(Contents(r), 1, Len(Contents(b)))

\* A call that keeps the contents is such a step.
LEMMA SameIsLonger ==
  ASSUME NEW b, Ring(b), NEW r, Contents(r) = Contents(b)
  PROVE  Longer(b, r)
<1>1. PICK q \in Seq(Cell) : q = Contents(b) /\ Len(q) = b.count
  BY ContentsCells, Zenon
<1>2. Len(q) \in Nat /\ Len(q) <= MaxSize
  BY <1>1, SizeAssumption DEF Ring, RingType
<1>3. SubSeq(q, 1, Len(q)) = q
  BY WholeSubSeq, Zenon
<1> QED BY <1>1, <1>2, <1>3, SizeAssumption DEF Longer

\* So is one that adds bytes.
LEMMA AddsIsLonger ==
  ASSUME NEW b, Ring(b), NEW bytes \in Seq(Cell), NEW n \in Nat,
         Len(bytes) <= n, NEW r, Adds(b, bytes, n, r)
  PROVE  Longer(b, r)
<1>1. Contents(r) \in Seq(Cell) /\ Len(Contents(r)) = b.count + n
  BY ContentsCells, Zenon DEF Adds
<1>2. Len(Contents(b)) = b.count /\ b.count \in Nat
  BY ContentsCells, SMTT(30) DEF Ring, RingType
<1>3. b.count + n <= MaxSize
  BY SizeAssumption DEF Adds, Ring, RingType
<1>4. SubSeq(Contents(r), 1, b.count) = Contents(b)
  BY AddsContents, Zenon
<1> QED BY <1>1, <1>2, <1>3, <1>4, SizeAssumption DEF Longer

\* Every call is a step of the queue.
LEMMA StepOfQueue ==
  IInv /\ [Next]_vars => [FIFO!QueueNext]_<<Contents(buf), out>>
<1> SUFFICES ASSUME IInv, [Next]_vars
             PROVE  FIFO!QueueNext \/ UNCHANGED <<Contents(buf), out>>
  BY Zenon
<1>a. Ring(buf)
  BY Zenon DEF IInv
<1>b. \A n \in 1 .. MaxSpan : n \in Nat \ {0}
  BY SpanAssumption
<1>c. /\ Contents(buf) \in Seq(Cell) /\ Len(Contents(buf)) = buf.count
      /\ buf.count \in Nat
  BY <1>a, ContentsCells DEF Ring, RingType
<1>d. ASSUME Longer(buf, buf'), out' = << >> PROVE FIFO!QueueNext
  BY <1>d, Zenon DEF Longer, FIFO!QueueNext, FIFO!Add
<1>e. ASSUME Contents(buf') = Contents(buf), out' = << >>
      PROVE  FIFO!QueueNext
  BY <1>a, <1>d, <1>e, SameIsLonger, Zenon
<1>f. ASSUME NEW n \in 0 .. buf.count, UNCHANGED buf,
             out' = SubSeq(Contents(buf), 1, n)
      PROVE  FIFO!QueueNext
  <2>1. FIFO!Look(n)
    BY <1>f, Zenon DEF FIFO!Look
  <2> QED BY <1>c, <2>1, Zenon DEF FIFO!QueueNext
<1>g. ASSUME NEW n \in 1 .. buf.count,
             Contents(buf') = SubSeq(Contents(buf), n + 1, Len(Contents(buf))),
             out' \in {<< >>, SubSeq(Contents(buf), 1, n)}
      PROVE  FIFO!QueueNext
  <2>1. FIFO!Remove(n)
    BY <1>g, Zenon DEF FIFO!Remove
  <2> QED BY <1>c, <2>1, Zenon DEF FIFO!QueueNext
<1>1. ASSUME NEW avail \in Avail, InitCall(avail) PROVE FIFO!QueueNext
  BY <1>1, <1>a, <1>e, InitContents, Zenon DEF InitCall
<1>2. ASSUME NEW avail \in Avail, GrowCall(avail) PROVE FIFO!QueueNext
  BY <1>2, <1>a, <1>e, GrowContents, Zenon DEF GrowCall
<1>3. ASSUME NEW avail \in Avail, NEW n \in 1 .. MaxSpan, ReserveCall(n, avail)
      PROVE  FIFO!QueueNext
  BY <1>3, <1>a, <1>e, ReserveContents, Zenon DEF ReserveCall
<1>4. ASSUME NEW avail \in Avail, NEW byte \in Byte, PushCall(byte, avail)
      PROVE  FIFO!QueueNext
  <2> DEFINE i == vr_conn_ring_buf_init(buf, avail)
  <2>1. /\ IF push_ok(buf, avail) THEN Adds(i, <<byte>>, 1, buf')
           ELSE Contents(buf') = Contents(buf)
        /\ out' = << >>
    BY <1>4, <1>a, PushAdds, Zenon DEF PushCall, Cell
  <2>2. Ring(i) /\ Contents(i) = Contents(buf)
    BY <1>a, InitRing, InitContents, Zenon
  <2> HIDE DEF i
  <2>3. CASE push_ok(buf, avail)
    <3>1. <<byte>> \in Seq(Cell) /\ Len(<<byte>>) <= 1 /\ 1 \in Nat
      BY DEF Cell
    <3>2. Longer(i, buf')
      BY <2>1, <2>2, <2>3, <3>1, AddsIsLonger, Zenon
    <3> QED BY <1>d, <2>1, <2>2, <3>2, Zenon DEF Longer
  <2> QED BY <1>e, <2>1, <2>3, Zenon
<1>5. ASSUME NEW bytes \in Spans, WriteSpan(bytes) PROVE FIFO!QueueNext
  <2>1. PICK n \in Nat \ {0} : n = Len(bytes) /\ bytes \in Seq(Cell)
    BY <1>b, SpanCells, Zenon
  <2>2. n <= vr_conn_ring_buf_contiguous_write(buf)
    BY <1>5, <2>1, Zenon DEF WriteSpan
  <2>3. /\ buf.capacity # 0 /\ n <= buf.capacity - buf.count
        /\ buf.write_pos + n <= buf.capacity
    <3>1. /\ buf.capacity \in Nat /\ buf.count \in 0 .. buf.capacity
          /\ buf.write_pos \in Nat
      BY <1>a DEF Ring, RingType
    <3> QED BY <1>a, <2>2, <3>1, ContiguousWriteBounds
  <2>4. Adds(buf, bytes, n, buf') /\ out' = << >>
    BY <1>5, <1>a, <2>1, <2>3, WriteAdds DEF WriteSpan, Succeeds
  <2>5. Longer(buf, buf')
    BY <1>a, <2>1, <2>4, AddsIsLonger
  <2> QED BY <1>d, <2>4, <2>5, Zenon
<1>6. ASSUME NEW n \in 1 .. MaxSpan, CommitTooMuch(n) PROVE FIFO!QueueNext
  BY <1>6, <1>e, Zenon DEF CommitTooMuch, vr_conn_ring_buf_commit, Fails
<1>7. ASSUME NEW bytes \in Spans, RecvCall(bytes) PROVE FIFO!QueueNext
  <2>1. bytes \in Seq(Cell) /\ Len(bytes) # 0 /\ Len(bytes) \in Nat
    BY <1>b, SpanCells, Zenon
  <2>2. Adds(buf, bytes, Len(bytes), buf') /\ out' = << >>
    BY <1>7, <1>a, <2>1, RecvAdds, Zenon DEF RecvCall, Succeeds
  <2>3. Longer(buf, buf')
    BY <1>a, <2>1, <2>2, AddsIsLonger
  <2> QED BY <1>d, <2>2, <2>3, Zenon
<1>8. ASSUME NEW avail \in Avail, NEW staged \in BOOLEAN, NEW bytes \in Spans,
             EnqueueCall(bytes, avail, staged)
      PROVE  FIFO!QueueNext
  <2> DEFINE r == vr_conn_ring_buf_reserve(buf, packet_size(bytes), avail)
  <2>1. bytes \in Seq(Cell) /\ Len(bytes) # 0
    BY SpanCells
  <2>2. /\ IF enqueue_ok(buf, bytes, avail, staged)
           THEN Adds(r, bytes, packet_size(bytes), buf') ELSE buf' = r
        /\ out' = << >>
    BY <1>8, <1>a, <2>1, EnqueueAdds, Zenon DEF EnqueueCall
  <2>3. Ring(r) /\ Contents(r) = Contents(buf)
    BY <1>a, ReserveRing, ReserveContents, Zenon
  <2>4. packet_size(bytes) \in Nat /\ Len(bytes) <= packet_size(bytes)
    BY <2>1, SizeAssumption DEF packet_size
  <2> HIDE DEF r
  <2>5. CASE enqueue_ok(buf, bytes, avail, staged)
    <3>1. Longer(r, buf')
      BY <2>1, <2>2, <2>3, <2>4, <2>5, AddsIsLonger, Zenon
    <3> QED BY <1>d, <2>2, <2>3, <3>1, Zenon DEF Longer
  <2> QED BY <1>e, <2>2, <2>3, <2>5, Zenon
<1>9. ASSUME PopCall PROVE FIFO!QueueNext
  <2>1. CASE buf.count = 0
    BY <1>9, <1>e, <2>1 DEF PopCall, vr_conn_ring_buf_pop
  <2>2. CASE buf.count # 0
    <3>1. /\ buf' = vr_conn_ring_buf_pop(buf)
          /\ out' = <<buf.data[buf.read_pos]>>
      BY <1>9, <1>c, <2>2 DEF PopCall
    <3>2. /\ Contents(buf') = SubSeq(Contents(buf), 1 + 1, Len(Contents(buf)))
          /\ out' = SubSeq(Contents(buf), 1, 1)
      BY <1>a, <2>2, <3>1, PopContents, PeekContents
    <3>3. 1 \in 1 .. buf.count
      BY <1>c, <2>2
    <3> QED BY <1>g, <3>2, <3>3, Zenon
  <2> QED BY <2>1, <2>2, Zenon
<1>10. ASSUME PeekCall PROVE FIFO!QueueNext
  <2>1. CASE buf.count = 0
    BY <1>10, <1>e, <2>1 DEF PeekCall
  <2>2. CASE buf.count # 0
    <3>1. UNCHANGED buf /\ out' = <<buf.data[buf.read_pos]>>
      BY <1>10, <1>c, <2>2 DEF PeekCall
    <3>2. out' = SubSeq(Contents(buf), 1, 1) /\ 1 \in 0 .. buf.count
      BY <1>a, <1>c, <2>2, <3>1, PeekContents
    <3> QED BY <1>f, <3>1, <3>2, Zenon
  <2> QED BY <2>1, <2>2, Zenon
<1>11. ASSUME NEW n \in 1 .. MaxSpan, PeekNCall(n) PROVE FIFO!QueueNext
  <2>1. CASE ~peek_n_ok(buf, n)
    BY <1>11, <1>e, <2>1, Zenon DEF PeekNCall
  <2>2. CASE peek_n_ok(buf, n)
    <3>1. UNCHANGED buf /\ out' = vr_conn_ring_buf_peek_n(buf, n)
      BY <1>11, <2>2, Zenon DEF PeekNCall
    <3>2. out' = SubSeq(Contents(buf), 1, n)
      BY <1>a, <1>b, <2>2, <3>1, PeekNContents, Zenon
    <3>3. n \in 0 .. buf.count
      BY <1>b, <1>c, <2>2 DEF peek_n_ok
    <3> QED BY <1>f, <3>1, <3>2, <3>3, Zenon
  <2> QED BY <2>1, <2>2, Zenon
<1>12. ASSUME ReadSpan PROVE FIFO!QueueNext
  <2>1. PICK n : n = vr_conn_ring_buf_contiguous_read(buf)
    BY Zenon
  <2>2. n \in 0 .. buf.count
    BY <1>a, <1>c, <2>1, ContiguousReadBounds
  <2>3. UNCHANGED buf /\ out' = SubSeq(Contents(buf), 1, n)
    BY <1>12, <1>a, <2>1, ReadSpanContents, Zenon DEF ReadSpan
  <2> QED BY <1>f, <2>2, <2>3, Zenon
<1>13. ASSUME NEW n \in 1 .. MaxSpan, ConsumeCall(n) PROVE FIFO!QueueNext
  <2>1. /\ out' = << >>
        /\ Contents(buf') =
             IF consume_ok(buf, n)
             THEN SubSeq(Contents(buf), n + 1, Len(Contents(buf)))
             ELSE Contents(buf)
    BY <1>13, <1>a, <1>b, ConsumeContents, Zenon DEF ConsumeCall
  <2>2. CASE consume_ok(buf, n)
    <3>1. n \in 1 .. buf.count
      BY <1>b, <1>c, <2>2 DEF consume_ok
    <3> QED BY <1>g, <2>1, <2>2, <3>1, Zenon
  <2> QED BY <1>e, <2>1, <2>2, Zenon
<1>14. ASSUME UNCHANGED vars PROVE UNCHANGED <<Contents(buf), out>>
  BY <1>14, Zenon DEF vars
<1> QED
  BY <1>1, <1>2, <1>3, <1>4, <1>5, <1>6, <1>7, <1>8, <1>9, <1>10, <1>11,
     <1>12, <1>13, <1>14, Zenon DEF Next

\* A call that reports an error keeps the contents.
LEMMA ErrorStep ==
  IInv /\ [Next]_vars => [ret' = "ERROR" => Contents(buf') = Contents(buf)]_vars
<1> SUFFICES ASSUME IInv, Next, ret' = "ERROR"
             PROVE  Contents(buf') = Contents(buf)
  BY Zenon
<1>a. Ring(buf)
  BY Zenon DEF IInv
<1>b. \A n \in 1 .. MaxSpan : n \in Nat \ {0}
  BY SpanAssumption
<1>1. ASSUME NEW avail \in Avail, InitCall(avail)
      PROVE  Contents(buf') = Contents(buf)
  BY <1>1, <1>a, InitContents, Zenon DEF InitCall
<1>2. ASSUME NEW avail \in Avail, GrowCall(avail)
      PROVE  Contents(buf') = Contents(buf)
  BY <1>2, <1>a, GrowContents, Zenon DEF GrowCall
<1>3. ASSUME NEW avail \in Avail, NEW n \in 1 .. MaxSpan, ReserveCall(n, avail)
      PROVE  Contents(buf') = Contents(buf)
  BY <1>3, <1>a, ReserveContents, Zenon DEF ReserveCall
<1>4. ASSUME NEW avail \in Avail, NEW byte \in Byte, PushCall(byte, avail)
      PROVE  Contents(buf') = Contents(buf)
  <2>1. ~push_ok(buf, avail)
    BY <1>4, Zenon DEF PushCall, Returns
  <2> QED BY <1>4, <1>a, <2>1, PushAdds, Zenon DEF PushCall, Cell
<1>5. ASSUME NEW bytes \in Spans, WriteSpan(bytes)
      PROVE  Contents(buf') = Contents(buf)
  BY <1>5, Zenon DEF WriteSpan, Succeeds
<1>6. ASSUME NEW n \in 1 .. MaxSpan, CommitTooMuch(n)
      PROVE  Contents(buf') = Contents(buf)
  BY <1>6, Zenon DEF CommitTooMuch, vr_conn_ring_buf_commit
<1>7. ASSUME NEW bytes \in Spans, RecvCall(bytes)
      PROVE  Contents(buf') = Contents(buf)
  BY <1>7, Zenon DEF RecvCall, Succeeds
<1>8. ASSUME NEW avail \in Avail, NEW staged \in BOOLEAN, NEW bytes \in Spans,
             EnqueueCall(bytes, avail, staged)
      PROVE  Contents(buf') = Contents(buf)
  <2>1. bytes \in Seq(Cell) /\ Len(bytes) # 0
    BY SpanCells
  <2>2. ~enqueue_ok(buf, bytes, avail, staged)
    BY <1>8, Zenon DEF EnqueueCall, Returns
  <2>3. buf' = vr_conn_ring_buf_reserve(buf, packet_size(bytes), avail)
    BY <1>8, <1>a, <2>1, <2>2, EnqueueAdds, Zenon DEF EnqueueCall
  <2> QED BY <1>a, <2>3, ReserveContents, Zenon
<1>9. ASSUME PopCall PROVE Contents(buf') = Contents(buf)
  BY <1>9, <1>a DEF PopCall, Returns, vr_conn_ring_buf_pop, Ring, RingType
<1>10. ASSUME UNCHANGED buf PROVE Contents(buf') = Contents(buf)
  BY <1>10, Zenon
<1>11. ASSUME NEW n \in 1 .. MaxSpan, ConsumeCall(n)
       PROVE  Contents(buf') = Contents(buf)
  <2>1. ~consume_ok(buf, n)
    BY <1>11, Zenon DEF ConsumeCall, Returns
  <2> QED BY <1>11, <1>a, <1>b, <2>1, ConsumeContents, Zenon DEF ConsumeCall
<1> QED
  BY <1>1, <1>2, <1>3, <1>4, <1>5, <1>6, <1>7, <1>8, <1>9, <1>10, <1>11, Zenon
     DEF Next, PeekCall, PeekNCall, ReadSpan

-----------------------------------------------------------------------------
(* The loop of vr_conn_ring_buf_reserve() *)

\* grow() leads from one capacity to a larger one, up to the limit.
LEMMA CapacityGrows ==
  ASSUME NEW c \in Capacities
  PROVE  /\ c \in 1 .. MaxSize /\ InitialSize <= c
         /\ GrownCapacity(c) \in Capacities
         /\ GrownCapacity(c) \in 1 .. MaxSize
         /\ c <= GrownCapacity(c)
         /\ c < MaxSize => c < GrownCapacity(c)
<1>1. c \in InitialSize .. MaxSize
  BY Zenon DEF Capacities
<1>2. PICK g : g = GrownCapacity(c)
  BY Zenon
<1>3. /\ g \in InitialSize .. MaxSize /\ c <= g
      /\ c < MaxSize => c < g
  BY <1>1, <1>2, SizeAssumption DEF GrownCapacity
<1>4. ASSUME NEW S \in SUBSET (InitialSize .. MaxSize), ClosedUnderGrow(S)
      PROVE  g \in S
  <2>1. c \in S
    BY <1>4, Zenon DEF Capacities
  <2> QED BY <1>2, <1>4, <2>1, Zenon DEF ClosedUnderGrow
<1>5. g \in Capacities
  BY <1>3, <1>4, Zenon DEF Capacities
<1>6. c \in 1 .. MaxSize /\ InitialSize <= c /\ g \in 1 .. MaxSize
  BY <1>1, <1>3, SizeAssumption
<1> QED BY <1>2, <1>3, <1>5, <1>6, Zenon

\* The first capacity is the one init() gives.
LEMMA FirstCapacity == InitialSize \in Capacities
BY SizeAssumption DEF Capacities, ClosedUnderGrow

\* There is no capacity between one and the one grow() makes of it: a set of
\* capacities without those would be closed under growth as well.
LEMMA NextCapacity ==
  ASSUME NEW c \in Capacities, NEW d \in Capacities, c < d
  PROVE  GrownCapacity(c) <= d
<1> DEFINE skipped == {x \in Capacities :
                         \E y \in Capacities : x < y /\ ~(GrownCapacity(x) <= y)}
<1>1. ASSUME skipped # {} PROVE FALSE
  <2>1. skipped \in SUBSET Nat
    <3>1. \A x \in Capacities : x \in Nat
      BY CapacityGrows
    <3> QED BY <3>1, Zenon
  <2>2. PICK x \in skipped : \A z \in skipped : x <= z
    BY <1>1, <2>1, LeastElement, Zenon
  <2>3. PICK y \in Capacities : x < y /\ ~(GrownCapacity(x) <= y)
    BY <2>2, Zenon
  <2>4. PICK g : g = GrownCapacity(x)
    BY Zenon
  <2>5. /\ x \in 1 .. MaxSize /\ InitialSize <= x /\ y \in 1 .. MaxSize
        /\ g \in 1 .. MaxSize /\ g \in Capacities /\ x <= g
        /\ x < y /\ ~(g <= y) /\ x \in Capacities
    BY <2>2, <2>3, <2>4, CapacityGrows
  <2> DEFINE S == {z \in Capacities : z <= x \/ g <= z}
  <2>6. S \in SUBSET (InitialSize .. MaxSize)
    BY Zenon DEF Capacities
  <2>7. InitialSize \in S
    BY <2>5, FirstCapacity, Zenon
  <2>8. ASSUME NEW z \in S PROVE GrownCapacity(z) \in S
    <3>1. PICK h : h = GrownCapacity(z)
      BY Zenon
    <3>2. z \in 1 .. MaxSize /\ h \in 1 .. MaxSize /\ h \in Capacities /\ z <= h
      BY <3>1, CapacityGrows
    <3>3. z \in skipped => x <= z
      BY <2>2, Zenon
    <3>4. z \notin skipped => (z < x => h <= x)
      BY <2>5, <3>1, Zenon
    <3>5. z = x => h = g
      BY <2>4, <3>1, Zenon
    <3>6. z <= x \/ g <= z
      BY Zenon
    <3>7. h <= x \/ g <= h
      <4> HIDE DEF skipped, S
      <4> QED BY <2>5, <3>2, <3>3, <3>4, <3>5, <3>6
    <3> QED BY <3>1, <3>2, <3>7, Zenon
  <2>9. y \in S
    <3>1. ClosedUnderGrow(S)
      BY <2>7, <2>8, Zenon DEF ClosedUnderGrow
    <3> HIDE DEF S
    <3> QED BY <2>3, <2>6, <3>1, Zenon DEF Capacities
  <2>10. y <= x \/ g <= y
    BY <2>9, Zenon
  <2> HIDE DEF skipped, S
  <2> QED BY <2>5, <2>10
<1> QED BY <1>1, Zenon

\* A second relocation leaves what it alone would: the first has put the
\* bytes at the start of its array, in order.
LEMMA RelocateTwice ==
  ASSUME NEW b, Ring(b), b.capacity # 0,
         NEW c \in Nat, b.capacity < c, NEW d \in Nat, c < d, d <= MaxSize
  PROVE  Relocate(Relocate(b, c), d) = Relocate(b, d)
<1> DEFINE r == Relocate(b, c)
           first == b.capacity - b.read_pos
           cell(i) == IF i >= b.count THEN Uninit
                      ELSE IF b.read_pos < b.write_pos \/ i < first
                      THEN b.data[b.read_pos + i]
                      ELSE b.data[i - first]
<1>1. /\ b.count \in Nat /\ b.count <= b.capacity /\ b.capacity \in Nat
      /\ b.count % PosRange = b.count
  <2>1. b.count \in Nat /\ b.count <= b.capacity /\ b.capacity \in Nat
    BY DEF Ring, RingType
  <2> QED BY <2>1, SizeAssumption, ModSmall
<1>2. /\ r.capacity = c /\ r.count = b.count /\ r.read_pos = 0
      /\ r.write_pos = b.count
      /\ \A i \in 0 .. c - 1 : r.data[i] = cell(i)
  BY <1>1, Zenon DEF Relocate
<1> HIDE DEF r
<1>3. ASSUME NEW i \in 0 .. d - 1
      PROVE  (IF i >= r.count THEN Uninit
              ELSE IF r.read_pos < r.write_pos \/ i < r.capacity - r.read_pos
              THEN r.data[r.read_pos + i]
              ELSE r.data[i - (r.capacity - r.read_pos)]) = cell(i)
  <2>1. CASE i >= b.count
    BY <1>2, <2>1, Zenon
  <2>2. CASE ~(i >= b.count)
    <3>1. 0 < b.count /\ 0 + i = i /\ i \in 0 .. c - 1
      BY <1>1, <2>2
    <3>2. r.data[i] = cell(i)
      BY <1>2, <3>1, Zenon
    <3> HIDE DEF cell
    <3> QED BY <1>2, <2>2, <3>1, <3>2, Zenon
  <2> QED BY <2>1, <2>2, Zenon
<1>4. Relocate(r, d)
        = [data |-> [i \in 0 .. d - 1 |-> cell(i)],
           capacity |-> d, count |-> b.count,
           read_pos |-> 0, write_pos |-> b.count % PosRange, state |-> "ACTIVE"]
  <2>1. [i \in 0 .. d - 1 |->
           IF i >= r.count THEN Uninit
           ELSE IF r.read_pos < r.write_pos \/ i < r.capacity - r.read_pos
           THEN r.data[r.read_pos + i]
           ELSE r.data[i - (r.capacity - r.read_pos)]]
          = [i \in 0 .. d - 1 |-> cell(i)]
    BY <1>3, Zenon
  <2> QED BY <1>2, <2>1, Zenon DEF Relocate
<1> QED BY <1>4, Zenon DEF Relocate, r

\* The ring b moved to capacity c, by grow() or by nothing at all.
Enlarged(b, c) == IF c = b.capacity THEN b ELSE Relocate(b, c)

\* It is well-formed, and has the bytes of b.
LEMMA EnlargedRing ==
  ASSUME NEW b, Ring(b), b.capacity # 0,
         NEW c \in Nat, b.capacity <= c, c <= MaxSize
  PROVE  LET r == Enlarged(b, c)
         IN  Ring(r) /\ r.capacity = c /\ r.count = b.count
<1>1. CASE c = b.capacity
  BY <1>1, Zenon DEF Enlarged
<1>2. CASE c # b.capacity
  <2>1. b.capacity < c
    BY <1>2 DEF Ring, RingType
  <2> QED BY <1>2, <2>1, RelocateRing, Zenon DEF Enlarged
<1> QED BY <1>1, <1>2, Zenon

\* A turn of the loop below that capacity enlarges the ring once, not beyond
\* it; at that capacity it does nothing, and the loop has ended.
LEMMA TurnEnlarges ==
  ASSUME NEW b, Ring(b), b.capacity \in Capacities,
         NEW needed \in Nat, NEW avail \in Nat,
         NEW c \in Capacities, b.capacity <= c,
         c <= ReserveCapacity(b, needed, avail)
  PROVE  LET r == Enlarged(b, c)
             g == GrownCapacity(c)
             t == ReserveTurn(r, needed, avail)
         IN  IF c = ReserveCapacity(b, needed, avail)
             THEN /\ t = r
                  /\ vr_conn_ring_buf_free(r) >= needed \/ ~grow_ok(r, avail)
             ELSE /\ t = Enlarged(b, g)
                  /\ g \in Capacities /\ c < g
                  /\ g <= ReserveCapacity(b, needed, avail)
<1>1. PICK e : e = ReserveCapacity(b, needed, avail)
  BY Zenon
<1>2. PICK g : g = GrownCapacity(c)
  BY Zenon
<1>3. PICK r : r = Enlarged(b, c)
  BY Zenon
<1>4. /\ b.capacity \in 1 .. MaxSize /\ c \in 1 .. MaxSize
      /\ g \in Capacities /\ g \in 1 .. MaxSize /\ c <= g
      /\ c < MaxSize => c < g
  BY <1>2, CapacityGrows, Zenon
<1>5. Ring(r) /\ r.capacity = c /\ r.count = b.count
  <2>1. b.capacity # 0 /\ c \in Nat /\ c <= MaxSize
    BY <1>4
  <2> QED BY <1>3, <2>1, EnlargedRing, Zenon
<1>6. /\ e \in Capacities
      /\ e - b.count >= needed \/ e = MaxSize \/ GrownCapacity(e) > avail
      /\ \A d \in Capacities :
           /\ d >= b.capacity
           /\ \/ d - b.count >= needed
              \/ d = MaxSize
              \/ GrownCapacity(d) > avail
           => e <= d
  BY <1>1, ReserveCapacityLeast, Zenon DEF ReserveStops
<1>7. b.count \in Nat /\ e \in 1 .. MaxSize /\ MaxSize \in Nat /\ c <= e
  BY <1>1, <1>6, CapacityGrows, SizeAssumption DEF Ring, RingType
<1>8. /\ vr_conn_ring_buf_free(r) = c - b.count
      /\ grow_ok(r, avail) <=> c < MaxSize /\ g <= avail
  <2>1. c # 0
    BY <1>4
  <2> QED BY <1>2, <1>5, <2>1, Zenon DEF vr_conn_ring_buf_free, grow_ok
<1>9. CASE c = e
  <2>1. c - b.count >= needed \/ ~(c < MaxSize /\ g <= avail)
    BY <1>2, <1>4, <1>6, <1>7, <1>9
  <2> QED BY <1>1, <1>3, <1>8, <1>9, <2>1, Zenon DEF ReserveTurn
<1>10. CASE c # e
  <2>1. ~(e <= c) /\ c < e
    BY <1>4, <1>7, <1>10
  <2>2. c >= b.capacity
    BY <1>4
  <2>3. ~(c - b.count >= needed) /\ c # MaxSize /\ ~(g > avail)
    BY <1>2, <1>6, <2>1, <2>2, Zenon
  <2>4. c < MaxSize /\ g <= avail /\ c < g
    BY <1>4, <1>7, <2>3
  <2>5. g <= e
    BY <1>2, <1>6, <2>1, NextCapacity, Zenon
  <2>6. ReserveTurn(r, needed, avail) = Relocate(r, g)
    <3>1. grow_ok(r, avail) /\ ~(vr_conn_ring_buf_free(r) >= needed)
      BY <1>8, <2>3, <2>4, Zenon
    <3>2. r.capacity # 0
      BY <1>4, <1>5
    <3> QED BY <1>2, <1>5, <3>1, <3>2, Zenon DEF ReserveTurn, vr_conn_ring_buf_grow
  <2>7. Relocate(r, g) = Enlarged(b, g)
    <3>1. g # b.capacity /\ b.capacity # 0 /\ c \in Nat /\ g \in Nat /\ g <= MaxSize
      BY <1>4, <2>4
    <3>2. CASE c = b.capacity
      BY <1>3, <3>1, <3>2, Zenon DEF Enlarged
    <3>3. CASE c # b.capacity
      <4>1. b.capacity < c
        BY <1>4, <3>3
      <4> QED BY <1>3, <2>4, <3>1, <3>3, <4>1, RelocateTwice, Zenon DEF Enlarged
    <3> QED BY <3>2, <3>3, Zenon
  <2> QED BY <1>1, <1>2, <1>3, <1>4, <1>10, <2>4, <2>5, <2>6, <2>7, Zenon
<1> QED BY <1>9, <1>10, Zenon
\* ring holds what 0 .. n turns of the loop make of b.
Turns(b, needed, avail, n, ring) ==
  ring = [i \in 0 .. n |->
            IF i = 0 THEN b ELSE ReserveTurn(ring[i - 1], needed, avail)]

\* There is such a function: the recursive one in ReserveLoop exists.
LEMMA TurnsExist ==
  ASSUME NEW b, NEW needed, NEW avail, NEW n \in Nat
  PROVE  \E ring : Turns(b, needed, avail, n, ring)
<1> DEFINE bad == {k \in Nat : ~\E ring : Turns(b, needed, avail, k, ring)}
<1>1. ASSUME bad # {} PROVE FALSE
  <2>1. PICK k \in bad : \A j \in bad : k <= j
    BY <1>1, LeastElement, Zenon
  <2>2. CASE k = 0
    <3> DEFINE f == [i \in 0 .. 0 |-> b]
    <3>1. Turns(b, needed, avail, 0, f)
      BY DEF Turns
    <3> QED BY <2>1, <2>2, <3>1, Zenon
  <2>3. CASE k # 0
    <3>1. k - 1 \in Nat /\ k - 1 \notin bad
      BY <2>1, <2>3
    <3>2. PICK f : Turns(b, needed, avail, k - 1, f)
      BY <3>1, Zenon
    <3> DEFINE h == [i \in 0 .. k |->
                       IF i = k THEN ReserveTurn(f[k - 1], needed, avail)
                                ELSE f[i]]
    <3>3. ASSUME NEW i \in 0 .. k
          PROVE  h[i] = IF i = 0 THEN b ELSE ReserveTurn(h[i - 1], needed, avail)
      <4>1. CASE i = k
        <5>1. h[i] = ReserveTurn(f[k - 1], needed, avail)
          BY <4>1, Zenon
        <5>2. h[i - 1] = f[k - 1]
          BY <2>3, <3>1, <4>1
        <5> HIDE DEF h
        <5> QED BY <2>3, <4>1, <5>1, <5>2, Zenon
      <4>2. CASE i # k
        <5>1. i \in 0 .. k - 1 /\ (i # 0 => i - 1 \in 0 .. k - 1)
          BY <4>2
        <5>2. h[i] = f[i] /\ (i # 0 => h[i - 1] = f[i - 1])
          BY <4>2, <5>1
        <5>3. f[i] = IF i = 0 THEN b ELSE ReserveTurn(f[i - 1], needed, avail)
          BY <3>2, <5>1, Zenon DEF Turns
        <5> HIDE DEF h
        <5> QED BY <5>2, <5>3, Zenon
      <4> QED BY <4>1, <4>2, Zenon
    <3>4. Turns(b, needed, avail, k, h)
      BY <3>3, Zenon DEF Turns
    <3> QED BY <2>1, <3>4, Zenon
  <2> QED BY <2>2, <2>3, Zenon
<1> QED BY <1>1, Zenon

\* ReserveLoop gives its last value.
LEMMA LoopTurns ==
  ASSUME NEW b, NEW needed, NEW avail
  PROVE  \E ring : /\ Turns(b, needed, avail, MaxSize, ring)
                   /\ ReserveLoop(b, needed, avail) = ring[MaxSize]
<1> DEFINE ring == CHOOSE f : Turns(b, needed, avail, MaxSize, f)
<1>1. Turns(b, needed, avail, MaxSize, ring)
  BY TurnsExist, SizeAssumption, Zenon
<1>2. ReserveLoop(b, needed, avail) = ring[MaxSize]
  BY Zenon DEF ReserveLoop, Turns
<1> QED BY <1>1, <1>2, Zenon

\* After i turns the ring is b, enlarged to the capacity where the loop stops
\* or by at least i.
LEMMA AfterTurns ==
  ASSUME NEW b, Ring(b), b.capacity \in Capacities,
         NEW needed \in Nat, NEW avail \in Nat, NEW n \in Nat,
         NEW ring, Turns(b, needed, avail, n, ring)
  PROVE  \E c \in Capacities :
           /\ b.capacity <= c /\ c <= ReserveCapacity(b, needed, avail)
           /\ ring[n] = Enlarged(b, c)
           /\ c = ReserveCapacity(b, needed, avail) \/ b.capacity + n <= c
<1>1. PICK e : e = ReserveCapacity(b, needed, avail)
  BY Zenon
<1> DEFINE good(k) == \E c \in Capacities :
                         /\ b.capacity <= c /\ c <= e
                         /\ ring[k] = Enlarged(b, c)
                         /\ c = e \/ b.capacity + k <= c
           bad == {k \in Nat : k <= n /\ ~good(k)}
<1>2. b.capacity \in Nat /\ b.capacity <= e /\ e \in Nat
  BY <1>1, ReserveCapacityBounds DEF Ring, RingType
<1>3. ASSUME bad # {} PROVE FALSE
  <2>1. PICK k \in bad : \A j \in bad : k <= j
    BY <1>3, LeastElement, Zenon
  <2>2. k \in 0 .. n /\ ~good(k)
    <3> HIDE DEF good
    <3> QED BY <2>1
  <2>3. ring[k] = IF k = 0 THEN b ELSE ReserveTurn(ring[k - 1], needed, avail)
    BY <2>2, Zenon DEF Turns
  <2>4. CASE k = 0
    <3>1. ring[k] = Enlarged(b, b.capacity)
      BY <2>3, <2>4, Zenon DEF Enlarged
    <3>2. b.capacity <= b.capacity /\ b.capacity + 0 <= b.capacity
      BY <1>2
    <3> QED BY <1>2, <2>2, <2>4, <3>1, <3>2, Zenon
  <2>5. CASE k # 0
    <3>1. k - 1 \in Nat /\ k - 1 <= n /\ k - 1 \notin bad
      <4> HIDE DEF good
      <4> QED BY <2>1, <2>2, <2>5
    <3>2. PICK c \in Capacities : /\ b.capacity <= c /\ c <= e
                                  /\ ring[k - 1] = Enlarged(b, c)
                                  /\ c = e \/ b.capacity + (k - 1) <= c
      BY <3>1, Zenon
    <3>3. ring[k] = ReserveTurn(Enlarged(b, c), needed, avail)
      BY <2>3, <2>5, <3>2, Zenon
    <3>a. c <= ReserveCapacity(b, needed, avail)
      BY <1>1, <3>2, Zenon
    <3>4. CASE c = e
      <4>0. c = ReserveCapacity(b, needed, avail)
        BY <1>1, <3>4, Zenon
      <4>1. ring[k] = Enlarged(b, c)
        BY <3>2, <3>3, <3>a, <4>0, TurnEnlarges
      <4> QED BY <2>2, <3>2, <3>4, <4>1, Zenon
    <3>5. CASE c # e
      <4>1. PICK g : g = GrownCapacity(c)
        BY Zenon
      <4>2. ring[k] = Enlarged(b, g) /\ g \in Capacities /\ c < g /\ g <= e
        <5>1. c # ReserveCapacity(b, needed, avail)
          BY <1>1, <3>5, Zenon
        <5> HIDE DEF good, bad
        <5> QED BY <1>1, <3>2, <3>3, <3>a, <4>1, <5>1, TurnEnlarges
      <4>3. c \in Nat /\ g \in Nat
        BY <4>2, CapacityGrows
      <4>4. b.capacity <= g /\ b.capacity + k <= g
        <5> HIDE DEF good, bad
        <5> QED BY <1>2, <2>2, <3>2, <3>5, <4>2, <4>3
      <4> QED BY <2>2, <4>2, <4>4, Zenon
    <3> QED BY <3>4, <3>5, Zenon
  <2> QED BY <2>4, <2>5, Zenon
<1>4. n \notin bad
  BY <1>3, Zenon
<1>5. n <= n
  OBVIOUS
<1> QED BY <1>1, <1>4, <1>5, Zenon

\* reserve() is its loop, from every ring whose capacity init() or grow()
\* gave it.
LEMMA ReserveLoops ==
  ASSUME NEW b, Ring(b), b.capacity \in {0} \cup Capacities,
         NEW needed \in Nat, NEW avail \in Nat
  PROVE  LET l == ReserveLoop(vr_conn_ring_buf_init(b, avail), needed, avail)
         IN  /\ vr_conn_ring_buf_reserve(b, needed, avail) = l
             /\ vr_conn_ring_buf_free(l) >= needed \/ ~grow_ok(l, avail)
<1>1. PICK r : r = vr_conn_ring_buf_init(b, avail)
  BY Zenon
<1>2. PICK l : l = ReserveLoop(r, needed, avail)
  BY Zenon
<1>3. PICK e : e = ReserveCapacity(r, needed, avail)
  BY Zenon
<1>4. /\ Ring(r)
      /\ r.capacity = 0 => r = b /\ ~init_ok(b, avail)
      /\ r.capacity \in {0} \cup Capacities
  <2>1. Ring(r) /\ (init_ok(b, avail) => r.capacity = InitialSize)
    BY <1>1, InitRing, Zenon
  <2>2. InitialSize # 0
    BY SizeAssumption
  <2>3. ~init_ok(b, avail) => r = b
    BY <1>1, Zenon DEF vr_conn_ring_buf_init
  <2> QED BY <2>1, <2>2, <2>3, FirstCapacity, Zenon
<1>5. vr_conn_ring_buf_reserve(b, needed, avail)
        = IF r.capacity = 0 \/ e = r.capacity THEN r ELSE Relocate(r, e)
  BY <1>1, <1>3, Zenon DEF vr_conn_ring_buf_reserve
<1>6. PICK ring : Turns(r, needed, avail, MaxSize, ring) /\ l = ring[MaxSize]
  BY <1>2, LoopTurns, Zenon
<1>7. CASE r.capacity = 0
  <2>1. ~grow_ok(r, avail)
    BY <1>4, <1>7, Zenon DEF grow_ok
  <2>2. ReserveTurn(r, needed, avail) = r
    BY <2>1, Zenon DEF ReserveTurn
  <2> DEFINE bad == {k \in Nat : k <= MaxSize /\ ring[k] # r}
  <2>3. ASSUME bad # {} PROVE FALSE
    <3>1. PICK k \in bad : \A j \in bad : k <= j
      BY <2>3, LeastElement, Zenon
    <3>2. k \in 0 .. MaxSize
      BY <3>1
    <3>3. ring[k] = IF k = 0 THEN r ELSE ReserveTurn(ring[k - 1], needed, avail)
      BY <1>6, <3>2, Zenon DEF Turns
    <3>4. k # 0
      BY <3>1, <3>3, Zenon
    <3>5. k - 1 \in Nat /\ k - 1 <= MaxSize /\ k - 1 \notin bad
      BY <3>1, <3>2, <3>4, SizeAssumption
    <3>6. ring[k - 1] = r
      BY <3>5, Zenon
    <3> QED BY <2>2, <3>1, <3>3, <3>4, <3>6, Zenon
  <2>4. MaxSize \in Nat /\ MaxSize <= MaxSize
    BY SizeAssumption
  <2>5. l = r
    BY <1>6, <2>3, <2>4, Zenon
  <2> QED BY <1>1, <1>2, <1>5, <1>7, <2>1, <2>5, Zenon
<1>8. CASE r.capacity # 0
  <2>1. r.capacity \in Capacities /\ MaxSize \in Nat
    BY <1>4, <1>8, SizeAssumption, Zenon
  <2>2. PICK c \in Capacities :
          /\ r.capacity <= c /\ c <= e /\ l = Enlarged(r, c)
          /\ c = e \/ r.capacity + MaxSize <= c
    BY <1>3, <1>4, <1>6, <2>1, AfterTurns
  <2>3. c = e
    BY <2>1, <2>2, CapacityGrows
  <2>4. vr_conn_ring_buf_free(l) >= needed \/ ~grow_ok(l, avail)
    BY <1>3, <1>4, <2>1, <2>2, <2>3, TurnEnlarges, Zenon
  <2>5. l = IF e = r.capacity THEN r ELSE Relocate(r, e)
    BY <2>2, <2>3, Zenon DEF Enlarged
  <2> QED BY <1>1, <1>2, <1>5, <1>8, <2>4, <2>5, Zenon
<1> QED BY <1>7, <1>8, Zenon

\* The capacity of the ring is one that init() or grow() gives.
CapacityInv == buf.capacity \in {0} \cup Capacities

\* vr_conn_ring_buf_init() and vr_conn_ring_buf_reserve() keep it.
LEMMA ReserveCapacities ==
  ASSUME NEW b, Ring(b), b.capacity \in {0} \cup Capacities,
         NEW needed, NEW avail
  PROVE  /\ vr_conn_ring_buf_init(b, avail).capacity \in {0} \cup Capacities
         /\ vr_conn_ring_buf_reserve(b, needed, avail).capacity
              \in {0} \cup Capacities
<1>1. PICK r : r = vr_conn_ring_buf_init(b, avail)
  BY Zenon
<1>2. PICK e : e = ReserveCapacity(r, needed, avail)
  BY Zenon
<1>3. Ring(r) /\ r.capacity \in {0} \cup Capacities
  <2>1. Ring(r) /\ (init_ok(b, avail) => r.capacity = InitialSize)
    BY <1>1, InitRing, Zenon
  <2>2. ~init_ok(b, avail) => r = b
    BY <1>1, Zenon DEF vr_conn_ring_buf_init
  <2> QED BY <2>1, <2>2, FirstCapacity, Zenon
<1>4. e \in Capacities
  BY <1>2, <1>3, ReserveCapacityLeast, Zenon DEF ReserveStops
<1>5. vr_conn_ring_buf_reserve(b, needed, avail)
        = IF r.capacity = 0 \/ e = r.capacity THEN r ELSE Relocate(r, e)
  BY <1>1, <1>2, Zenon DEF vr_conn_ring_buf_reserve
<1>6. Relocate(r, e).capacity = e
  BY Zenon DEF Relocate
<1> QED BY <1>1, <1>3, <1>4, <1>5, <1>6, Zenon

\* The struct r has an array of the size of b's.
SameArray(r, b) == DOMAIN r = Fields /\ r.capacity = b.capacity

\* Copying into the array, and moving the positions, keep the array.
LEMMA KeepArray ==
  ASSUME NEW b, DOMAIN b = Fields
  PROVE  /\ \A n : SameArray(vr_conn_ring_buf_commit(b, n), b)
         /\ \A n : SameArray(vr_conn_ring_buf_consume(b, n), b)
         /\ SameArray(vr_conn_ring_buf_pop(b), b)
         /\ \A at, bytes : SameArray(CopyIn(b, at, bytes), b)
         /\ \A bytes : SameArray(vr_socket_recv_ring_buf(b, bytes), b)
<1>1. \A n : SameArray(vr_conn_ring_buf_commit(b, n), b)
  BY Zenon DEF SameArray, Fields, vr_conn_ring_buf_commit
<1>2. \A n : SameArray(vr_conn_ring_buf_consume(b, n), b)
  BY Zenon DEF SameArray, Fields, vr_conn_ring_buf_consume
<1>3. SameArray(vr_conn_ring_buf_pop(b), b)
  BY Zenon DEF SameArray, Fields, vr_conn_ring_buf_pop
<1>4. \A x, at, bytes : DOMAIN x = Fields => SameArray(CopyIn(x, at, bytes), x)
  BY Zenon DEF SameArray, Fields, CopyIn
<1>5. ASSUME NEW bytes
      PROVE  SameArray(vr_socket_recv_ring_buf(b, bytes), b)
  <2> DEFINE n == Len(bytes)
             split == IF n > recv_region1(b) THEN recv_region1(b) ELSE n
             half == CopyIn(b, b.write_pos, SubSeq(bytes, 1, split))
             filled == CopyIn(half, 0, SubSeq(bytes, split + 1, n))
  <2>1. SameArray(half, b)
    BY <1>4, Zenon
  <2>2. SameArray(filled, half)
    <3> HIDE DEF half
    <3> QED BY <1>4, <2>1, Zenon DEF SameArray
  <2>3. vr_socket_recv_ring_buf(b, bytes)
          = [filled EXCEPT
               !.write_pos = ((@ + n) % b.capacity) % PosRange, !.count = @ + n]
    BY Zenon DEF vr_socket_recv_ring_buf
  <2> HIDE DEF half, filled
  <2> QED BY <2>1, <2>2, <2>3, Zenon DEF SameArray, Fields
<1> QED BY <1>1, <1>2, <1>3, <1>4, <1>5, Zenon

\* reactor_enqueue_response() keeps it.
LEMMA EnqueueCapacities ==
  ASSUME NEW b, Ring(b), b.capacity \in {0} \cup Capacities,
         NEW bytes, NEW avail, NEW staged
  PROVE  reactor_enqueue_response(b, bytes, avail, staged).capacity
           \in {0} \cup Capacities
<1>1. PICK r : r = vr_conn_ring_buf_reserve(b, packet_size(bytes), avail)
  BY Zenon
<1>2. DOMAIN r = Fields /\ r.capacity \in {0} \cup Capacities
  BY <1>1, ReserveRing, ReserveCapacities, Zenon DEF Ring
<1>3. ASSUME NEW x, NEW at, NEW s, NEW n, DOMAIN x = Fields
      PROVE  SameArray(vr_conn_ring_buf_commit(CopyIn(x, at, s), n), x)
  <2>1. PICK y : y = CopyIn(x, at, s)
    BY Zenon
  <2>2. SameArray(y, x)
    BY <1>3, <2>1, KeepArray, Zenon
  <2>3. SameArray(vr_conn_ring_buf_commit(y, n), y)
    BY <2>2, KeepArray, Zenon DEF SameArray
  <2> QED BY <2>1, <2>2, <2>3, Zenon DEF SameArray
<1>4. SameArray(enqueue_contiguous(r, bytes), r)
  BY <1>2, <1>3, Zenon DEF enqueue_contiguous
<1>5. SameArray(enqueue_first(r, bytes), r)
  BY <1>2, <1>3, Zenon DEF enqueue_first
<1>6. SameArray(enqueue_wrapped(r, bytes), r)
  <2>1. PICK f : f = enqueue_first(r, bytes)
    BY Zenon
  <2>2. PICK w : w = enqueue_wrapped(r, bytes)
    BY Zenon
  <2>3. DOMAIN f = Fields
    BY <1>5, <2>1, Zenon DEF SameArray
  <2>4. w = f \/ SameArray(w, f)
    BY <1>3, <2>1, <2>2, <2>3, Zenon DEF enqueue_wrapped
  <2> QED BY <1>5, <2>1, <2>2, <2>4, Zenon DEF SameArray
<1>7. r.capacity = enqueue_contiguous(r, bytes).capacity
      /\ r.capacity = enqueue_wrapped(r, bytes).capacity
  BY <1>4, <1>6, Zenon DEF SameArray
<1> QED BY <1>1, <1>2, <1>7, Zenon DEF reactor_enqueue_response

\* Every call of the interface keeps the capacity among those.
LEMMA NextCapacityInv == IInv /\ CapacityInv /\ [Next]_vars => CapacityInv'
<1> SUFFICES ASSUME IInv, CapacityInv, [Next]_vars PROVE CapacityInv'
  BY Zenon
<1>a. Ring(buf) /\ DOMAIN buf = Fields /\ buf.capacity \in {0} \cup Capacities
  BY Zenon DEF IInv, CapacityInv, Ring
<1>1. ASSUME NEW avail \in Avail, InitCall(avail) PROVE CapacityInv'
  BY <1>1, <1>a, ReserveCapacities, Zenon DEF InitCall, CapacityInv
<1>2. ASSUME NEW avail \in Avail, GrowCall(avail) PROVE CapacityInv'
  <2>1. buf' = vr_conn_ring_buf_grow(buf, avail)
    BY <1>2, Zenon DEF GrowCall
  <2>2. Relocate(buf, GrownCapacity(buf.capacity)).capacity
          = GrownCapacity(buf.capacity)
    BY Zenon DEF Relocate
  <2>3. buf.capacity # 0 => GrownCapacity(buf.capacity) \in Capacities
    BY <1>a, CapacityGrows, Zenon
  <2> QED BY <1>a, <2>1, <2>2, <2>3, ReserveCapacities, Zenon
          DEF vr_conn_ring_buf_grow, CapacityInv
<1>3. ASSUME NEW avail \in Avail, NEW n \in 1 .. MaxSpan, ReserveCall(n, avail)
      PROVE  CapacityInv'
  BY <1>3, <1>a, ReserveCapacities, Zenon DEF ReserveCall, CapacityInv
<1>4. ASSUME NEW avail \in Avail, NEW byte \in Byte, PushCall(byte, avail)
      PROVE  CapacityInv'
  <2>1. PICK r : r = vr_conn_ring_buf_init(buf, avail)
    BY Zenon
  <2>2. DOMAIN r = Fields /\ r.capacity \in {0} \cup Capacities
    BY <1>a, <2>1, InitRing, ReserveCapacities, Zenon DEF Ring
  <2>3. buf'.capacity = r.capacity
    BY <1>4, <2>1, <2>2, Zenon DEF PushCall, vr_conn_ring_buf_push, Fields
  <2> QED BY <2>2, <2>3, Zenon DEF CapacityInv
<1>5. ASSUME NEW bytes \in Spans, WriteSpan(bytes) PROVE CapacityInv'
  <2>1. PICK r : r = CopyIn(buf, buf.write_pos, bytes)
    BY Zenon
  <2>2. SameArray(r, buf)
    BY <1>a, <2>1, KeepArray, Zenon
  <2>3. SameArray(vr_conn_ring_buf_commit(r, Len(bytes)), r)
    BY <2>2, KeepArray, Zenon DEF SameArray
  <2> QED BY <1>5, <1>a, <2>1, <2>2, <2>3, Zenon
          DEF WriteSpan, SameArray, CapacityInv
<1>6. ASSUME NEW n \in 1 .. MaxSpan, CommitTooMuch(n) PROVE CapacityInv'
  BY <1>6, <1>a, KeepArray, Zenon DEF CommitTooMuch, SameArray, CapacityInv
<1>7. ASSUME NEW bytes \in Spans, RecvCall(bytes) PROVE CapacityInv'
  BY <1>7, <1>a, KeepArray, Zenon DEF RecvCall, SameArray, CapacityInv
<1>8. ASSUME NEW avail \in Avail, NEW staged \in BOOLEAN, NEW bytes \in Spans,
             EnqueueCall(bytes, avail, staged)
      PROVE  CapacityInv'
  BY <1>8, <1>a, EnqueueCapacities, Zenon DEF EnqueueCall, CapacityInv
<1>9. ASSUME PopCall PROVE CapacityInv'
  BY <1>9, <1>a, KeepArray, Zenon DEF PopCall, SameArray, CapacityInv
<1>10. ASSUME UNCHANGED buf PROVE CapacityInv'
  BY <1>10, <1>a, Zenon DEF CapacityInv
<1>11. ASSUME NEW n \in 1 .. MaxSpan, ConsumeCall(n) PROVE CapacityInv'
  BY <1>11, <1>a, KeepArray, Zenon DEF ConsumeCall, SameArray, CapacityInv
<1> QED
  BY <1>1, <1>2, <1>3, <1>4, <1>5, <1>6, <1>7, <1>8, <1>9, <1>10, <1>11, Zenon
     DEF Next, PeekCall, PeekNCall, ReadSpan, vars

-----------------------------------------------------------------------------
(* Theorems *)

\* Whatever sequence of calls is made on a buffer and whichever allocations
\* fail, the struct has the declared type: count never exceeds capacity and
\* only cells of the array are handed out.
THEOREM TypeCorrect == Spec => []TypeOK
<1>1. IInv => TypeOK
  BY Zenon DEF IInv, Ring, Fields, TypeOK, RingZero
<1> QED BY <1>1, Invariance, PTL

\* count, read_pos and write_pos agree after every call of the interface,
\* for every initial and maximal size.
THEOREM RingCorrect == Spec => []RingInv
<1>1. IInv => RingInv
  BY Zenon DEF IInv, Ring, RingInv
<1> QED BY <1>1, Invariance, PTL

\* reactor_enqueue_response() never reaches its "ring invariant violation"
\* branch, in which half a response would stay queued.
THEOREM NeverTornCorrect == Spec => []NeverTorn
<1>1. IInv => NeverTorn
  <2> SUFFICES ASSUME Ring(buf), NEW bytes \in Spans, NEW avail \in Avail,
                      reserve_ok(buf, packet_size(bytes), avail)
               PROVE  LET r == vr_conn_ring_buf_reserve(buf,
                                 packet_size(bytes), avail)
                      IN  /\ vr_conn_ring_buf_contiguous_write(r) > 0
                          /\ \/ fits_contiguous(r, bytes)
                             \/ second_region_ok(r, bytes)
    BY Zenon DEF IInv, NeverTorn
  <2> DEFINE size == packet_size(bytes)
             r == vr_conn_ring_buf_reserve(buf, size, avail)
  <2>1. bytes \in Seq(Cell) /\ size \in Nat /\ size # 0
    <3>1. bytes \in Seq(Cell) /\ Len(bytes) \in Nat \ {0}
      BY SpanAssumption, SpanCells
    <3> QED BY <3>1, SizeAssumption DEF packet_size
  <2>2. Ring(r) /\ r.capacity # 0 /\ r.capacity - r.count >= size
    BY ReserveRoom, Zenon
  <2> HIDE DEF r
  <2>3. r.capacity \in Nat /\ r.count \in Nat
    BY <2>2 DEF Ring, RingType
  <2>4. vr_conn_ring_buf_contiguous_write(r) > 0
    <3>1. r.count < r.capacity
      BY <2>1, <2>2, <2>3
    <3> QED BY <2>2, <3>1, ContiguousWriteBounds, Zenon
  <2>5. size <= r.capacity - r.count
    BY <2>1, <2>2, <2>3, Zenon
  <2>6. fits_contiguous(r, bytes) \/ second_region_ok(r, bytes)
    BY <2>1, <2>2, <2>5, SecondRegion, Zenon
  <2> QED BY <2>4, <2>6, Zenon DEF r
<1> QED BY <1>1, Invariance, PTL

\* The read path is offered every free byte of the ring.
THEOREM RecvRoomCorrect == Spec => []RecvSeesAllRoom
<1>1. IInv => RecvSeesAllRoom
  BY RecvRoom, Zenon DEF IInv, RecvSeesAllRoom
<1> QED BY <1>1, Invariance, PTL

\* A call that reports an error has neither lost nor added a byte, whatever
\* the sizes and whichever of its allocations failed.
THEOREM ErrorCorrect == Spec => ErrorKeepsContents
BY Invariance, ErrorStep, PTL DEF Spec, ErrorKeepsContents

\* A response reported as queued is in the ring whole and after everything
\* queued before it, wrapped or not, grown or not.
THEOREM EnqueueCorrect == Spec => []EnqueueAppends
<1>1. IInv => EnqueueAppends
  <2> SUFFICES ASSUME Ring(buf), NEW bytes \in Spans, NEW avail \in Avail,
                      enqueue_ok(buf, bytes, avail, TRUE)
               PROVE  LET e == reactor_enqueue_response(buf, bytes, avail, TRUE)
                      IN  /\ e.count = buf.count + packet_size(bytes)
                          /\ SubSeq(Contents(e), 1, buf.count + Len(bytes))
                               = Contents(buf) \o bytes
    BY Zenon DEF IInv, EnqueueAppends
  <2> DEFINE size == packet_size(bytes)
             r == vr_conn_ring_buf_reserve(buf, size, avail)
             e == reactor_enqueue_response(buf, bytes, avail, TRUE)
  <2>1. /\ bytes \in Seq(Cell) /\ Len(bytes) # 0
        /\ size \in Nat /\ Len(bytes) <= size
    <3>1. bytes \in Seq(Cell) /\ Len(bytes) # 0
      BY SpanCells
    <3> QED BY <3>1, SizeAssumption DEF packet_size
  <2>2. Adds(r, bytes, size, e)
    BY <2>1, EnqueueAdds, Zenon
  <2>3. Ring(r) /\ r.count = buf.count /\ Contents(r) = Contents(buf)
    BY ReserveRing, ReserveContents, Zenon
  <2> HIDE DEF r, e, size
  <2>4. SubSeq(Contents(e), 1, r.count + Len(bytes)) = Contents(r) \o bytes
    BY <2>1, <2>2, <2>3, AddsContents, Zenon
  <2>5. e.count = r.count + size
    BY <2>2, Zenon DEF Adds
  <2> QED BY <2>3, <2>4, <2>5, Zenon DEF e, size
<1> QED BY <1>1, Invariance, PTL

\* The ring implements the bounded first-in first-out queue of ByteQueue:
\* every call of the interface, with every outcome of its allocations, adds
\* bytes at the end, removes the oldest, hands out a prefix, or does nothing.
\* Growth, wrap-around and rewinding are invisible, for every size.
THEOREM FifoCorrect == Spec => Fifo
<1>1. Init => FIFO!QueueInit
  <2> SUFFICES ASSUME Init PROVE Contents(buf) = << >> /\ out = << >>
    BY Zenon DEF FIFO!QueueInit
  <2>1. Ring(buf) /\ buf.count = 0 /\ out = << >>
    BY ZeroRing, Zenon DEF Init, RingZero
  <2>2. Contents(buf) \in Seq(Cell) /\ Len(Contents(buf)) = 0
    BY <2>1, ContentsCells, Zenon
  <2> QED BY <2>1, <2>2
<1> QED BY <1>1, Invariance, StepOfQueue, PTL DEF Spec, Fifo, FIFO!QueueSpec

\* reserve(), with one relocation, is the loop of vr_conn_ring_buf_reserve()
\* with its many, which ends.
THEOREM ReserveCorrect == Spec => []ReserveIsLoop
<1>1. Init => CapacityInv
  BY DEF Init, RingZero, CapacityInv
<1>2. ASSUME IInv, CapacityInv PROVE ReserveIsLoop
  <2> SUFFICES ASSUME NEW n \in 1 .. MaxSpan + HeaderPad, NEW avail \in Avail
               PROVE  LET l == ReserveLoop(vr_conn_ring_buf_init(buf, avail),
                                           n, avail)
                      IN  /\ vr_conn_ring_buf_reserve(buf, n, avail) = l
                          /\ \/ vr_conn_ring_buf_free(l) >= n
                             \/ ~grow_ok(l, avail)
    BY Zenon DEF ReserveIsLoop
  <2>1. n \in Nat /\ avail \in Nat
    BY SpanAssumption, SizeAssumption, CapacityGrows DEF Avail
  <2> QED BY <1>2, <2>1, ReserveLoops, Zenon DEF IInv, CapacityInv
<1> QED BY <1>1, <1>2, NextCapacityInv, Invariance, PTL DEF Spec
=============================================================================
