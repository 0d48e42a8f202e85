-------------------------- MODULE Protocol_proofs --------------------------
(***************************************************************************)
(* The agreement of the stream counter with the stream bitmap, for every   *)
(* number of words and bits.                                               *)
(***************************************************************************)
EXTENDS Protocol, DataLemmas, FiniteSetTheorems, TLAPS

\* CONNECTING is a state of clients only.
ConnType ==
  [proto_state : {"INIT", "ESTABLISHED", "CLOSED"},
   active_streams : 0 .. UInt8Range - 1,
   streams_bitmap : SUBSET (Word \X Bit)]

ResponseType ==
  [type : PacketType \cup {"NO_RESPONSE"}, stream_id : StreamId]

\* The inductive invariant.
IInv ==
  /\ conn \in ConnType
  /\ response \in ResponseType
  /\ strayClose \in BOOLEAN
  /\ CountMatchesBitmap

-----------------------------------------------------------------------------
\* There are UInt8Range bits.
LEMMA BitmapBounds ==
  ASSUME NEW S \in SUBSET (Word \X Bit)
  PROVE  /\ IsFiniteSet(S)
         /\ Cardinality(S) \in 0 .. UInt8Range
         /\ S # Word \X Bit => Cardinality(S) < UInt8Range
<1>1. /\ IsFiniteSet(Word) /\ Cardinality(Word) = Words
      /\ IsFiniteSet(Bit) /\ Cardinality(Bit) = WordBits
  <2>1. ASSUME NEW n \in Nat \ {0}
        PROVE  IsFiniteSet(0 .. n - 1) /\ Cardinality(0 .. n - 1) = n
    <3>1. 0 \in Int /\ n - 1 \in Int /\ ~(0 > n - 1) /\ (n - 1) - 0 + 1 = n
      OBVIOUS
    <3> QED BY <3>1, FS_Interval
  <2> QED BY <2>1, StreamAssumption DEF Word, Bit
<1>2. /\ IsFiniteSet(Word \X Bit)
      /\ Cardinality(Word \X Bit) = UInt8Range
  BY <1>1, FS_Product, StreamAssumption
<1>3. /\ IsFiniteSet(S) /\ Cardinality(S) <= Cardinality(Word \X Bit)
      /\ Cardinality(Word \X Bit) = Cardinality(S) => S = Word \X Bit
  BY <1>2, FS_Subset
<1>4. Cardinality(S) \in Nat /\ UInt8Range \in Nat
  BY <1>2, <1>3, FS_CardinalityType, StreamAssumption
<1> QED BY <1>2, <1>3, <1>4

\* The scan for a free stream finds the first one when there is one.
LEMMA FirstFreeIsFree ==
  ASSUME NEW c, FreeBits(c) # {}
  PROVE  /\ FirstFree(c) \in FreeBits(c)
         /\ \A t \in FreeBits(c) :
              \/ FirstFree(c)[1] < t[1]
              \/ FirstFree(c)[1] = t[1] /\ FirstFree(c)[2] <= t[2]
<1>1. FreeBits(c) \in SUBSET (Nat \X Nat)
  BY StreamAssumption DEF FreeBits, Word, Bit
<1>2. \E s \in FreeBits(c) :
        \A t \in FreeBits(c) : s[1] < t[1] \/ (s[1] = t[1] /\ s[2] <= t[2])
  BY <1>1, FirstPair
<1> QED BY <1>2, Zenon DEF FirstFree

\* The identifier of a stream is a uint8_t.
LEMMA StreamIds ==
  ASSUME NEW s \in Word \X Bit
  PROVE  WordBits * s[1] + s[2] \in StreamId
<1> DEFINE w == s[1]
           b == s[2]
<1>1. w \in Nat /\ w <= Words - 1 /\ b \in Nat /\ b <= WordBits - 1
  BY StreamAssumption DEF Word, Bit
<1>2. WordBits \in Nat /\ Words \in Nat /\ UInt8Range = Words * WordBits
  BY StreamAssumption
<1> HIDE DEF w, b
<1>3. WordBits * w \in Nat /\ WordBits * w <= WordBits * (Words - 1)
  BY <1>1, <1>2, Z3
<1>4. WordBits * (Words - 1) = UInt8Range - WordBits
  BY <1>2, Z3
<1>5. UInt8Range \in Nat
  BY <1>2
<1>6. WordBits * w + b \in 0 .. UInt8Range - 1
  BY <1>1, <1>2, <1>3, <1>4, <1>5
<1> QED BY <1>6 DEF StreamId, w, b

\* BitOf finds the bit of a stream from its identifier.
LEMMA BitOfStream ==
  ASSUME NEW s \in Word \X Bit
  PROVE  BitOf(WordBits * s[1] + s[2]) = s
<1>1. PICK w \in Nat, b \in 0 .. WordBits - 1 : s = <<w, b>>
  BY StreamAssumption DEF Word, Bit
<1>2. (WordBits * w + b) \div WordBits = w /\ (WordBits * w + b) % WordBits = b
  BY StreamAssumption, DivModUnique
<1> QED BY <1>1, <1>2 DEF BitOf

\* Every identifier names a bit, and is the identifier of that bit.
LEMMA StreamHasBit ==
  ASSUME NEW id \in StreamId
  PROVE  BitOf(id) \in Word \X Bit /\ id = WordBits * BitOf(id)[1] + BitOf(id)[2]
<1>1. /\ WordBits \in Nat \ {0} /\ Words \in Nat \ {0}
      /\ id \in Nat /\ id < Words * WordBits
  BY StreamAssumption DEF StreamId
<1>2. PICK w \in Nat, b \in 0 .. WordBits - 1 :
        w = id \div WordBits /\ b = id % WordBits /\ id = WordBits * w + b
  BY <1>1, DivMod
<1>3. w < Words
  <2> SUFFICES ASSUME w >= Words PROVE FALSE
    BY <1>1, <1>2
  <2>1. CASE w = Words
    BY <1>1, <1>2, <2>1
  <2>2. CASE Words < w
    <3>1. WordBits * Words + WordBits <= WordBits * w
      BY <1>1, <1>2, <2>2, ProductGrows
    <3>2. WordBits * Words \in Nat /\ WordBits * w \in Nat
      BY <1>1, <1>2, ProductType
    <3> QED BY <1>1, <1>2, <3>1, <3>2
  <2> QED BY <1>1, <1>2, <2>1, <2>2
<1> QED BY <1>1, <1>2, <1>3 DEF BitOf, Word, Bit

\* A stream that comes first has the lower identifier.
LEMMA EarlierIsLower ==
  ASSUME NEW s \in Word \X Bit, NEW t \in Word \X Bit,
         s[1] < t[1] \/ (s[1] = t[1] /\ s[2] <= t[2])
  PROVE  WordBits * s[1] + s[2] <= WordBits * t[1] + t[2]
<1>1. PICK v \in Nat, a \in 0 .. WordBits - 1 : s = <<v, a>>
  BY StreamAssumption DEF Word, Bit
<1>2. PICK w \in Nat, b \in 0 .. WordBits - 1 : t = <<w, b>>
  BY StreamAssumption DEF Word, Bit
<1>3. v < w \/ (v = w /\ a <= b)
  BY <1>1, <1>2
<1>4. WordBits * v \in Nat /\ WordBits * w \in Nat
  BY StreamAssumption, ProductType
<1>5. v < w => WordBits * v + WordBits <= WordBits * w
  BY StreamAssumption, ProductGrows
<1>6. WordBits * v + a <= WordBits * w + b
  BY <1>3, <1>4, <1>5, StreamAssumption
<1> QED BY <1>1, <1>2, <1>6

-----------------------------------------------------------------------------
(* One lemma per branch of vr_protocol_handle_packet() that touches streams *)

\* The agreement of counter and bitmap, for a connection.
Agrees(c) ==
  /\ c.active_streams = Cardinality(c.streams_bitmap) % UInt8Range
  /\ c.proto_state = "ESTABLISHED" <=> c.streams_bitmap # {}

\* The result of a branch has the types of the connection and the response.
ResultType(r) == r.conn \in ConnType /\ r.response \in ResponseType

\* VR_PROTO_INIT: CONNECT opens the default stream and counts it.
LEMMA InitBranch ==
  ASSUME NEW c \in ConnType, NEW pkt \in Packets, c.proto_state = "INIT"
  PROVE  /\ ResultType(HandleInit(c, pkt))
         /\ Agrees(c) => Agrees(HandleInit(c, pkt).conn)
<1> DEFINE S == c.streams_bitmap \cup {<<0, 0>>}
<1>1. CASE pkt.type # "CONNECT"
  BY <1>1, StreamAssumption
     DEF HandleInit, NoReply, NoResponse, ResultType, ResponseType, StreamId
<1>2. CASE pkt.type = "CONNECT"
  <2>1. HandleInit(c, pkt) =
          [conn |-> [proto_state |-> "ESTABLISHED", active_streams |-> 1,
                     streams_bitmap |-> S],
           response |-> [type |-> "CONNECT_ACK", stream_id |-> 0]]
    BY <1>2 DEF HandleInit, Reply
  <2>2. 0 \in Word /\ 0 \in Bit /\ 0 \in StreamId /\ 1 \in 0 .. UInt8Range - 1
    BY StreamAssumption DEF Word, Bit, StreamId
  <2>3. S \in SUBSET (Word \X Bit)
    BY <2>2 DEF ConnType
  <2>4. ResultType(HandleInit(c, pkt))
    BY <2>1, <2>2, <2>3
       DEF ResultType, ConnType, ResponseType, PacketType
  <2>5. ASSUME Agrees(c) PROVE Agrees(HandleInit(c, pkt).conn)
    <3>1. c.streams_bitmap = {}
      BY <2>5 DEF Agrees
    <3>a. S = {<<0, 0>>}
      BY <3>1
    <3>b. Cardinality({<<0, 0>>}) = 1
      BY FS_Singleton, Zenon
    <3>2. S # {} /\ Cardinality(S) = 1
      BY <3>a, <3>b
    <3>3. 1 % UInt8Range = 1
      <4>1. UInt8Range \in Nat \ {0} /\ 1 < UInt8Range
        BY StreamAssumption
      <4> QED BY <4>1, ModSmall
    <3> HIDE DEF S
    <3>4. /\ HandleInit(c, pkt).conn.streams_bitmap = S
          /\ HandleInit(c, pkt).conn.active_streams = 1
          /\ HandleInit(c, pkt).conn.proto_state = "ESTABLISHED"
      BY <2>1
    <3> QED BY <3>2, <3>3, <3>4 DEF Agrees
  <2> QED BY <2>4, <2>5
<1> QED BY <1>1, <1>2

\* STREAM_OPEN: the bit that is set was clear, so bitmap and counter grow by
\* one together.
LEMMA OpenBranch ==
  ASSUME NEW c \in ConnType, NEW pkt \in Packets,
         c.proto_state = "ESTABLISHED"
  PROVE  /\ ResultType(StreamOpen(c, pkt))
         /\ Agrees(c) => Agrees(StreamOpen(c, pkt).conn)
<1>1. CASE FreeBits(c) = {}
  BY <1>1 DEF StreamOpen, Reply, ResultType, ResponseType, PacketType, Packets
<1>2. CASE FreeBits(c) # {}
  <2> DEFINE s == FirstFree(c)
             S == c.streams_bitmap \cup {s}
             a == (c.active_streams + 1) % UInt8Range
             id == WordBits * s[1] + s[2]
             d == [c EXCEPT !.streams_bitmap = S, !.active_streams = a]
  <2>1. s \in Word \X Bit /\ s \notin c.streams_bitmap
    BY <1>2, FirstFreeIsFree DEF FreeBits
  <2>2. StreamOpen(c, pkt)
          = [conn |-> d,
             response |-> [type |-> "STREAM_OPEN_ACK", stream_id |-> id]]
    BY <1>2 DEF StreamOpen, Reply
  <2>3. id \in StreamId
    BY <2>1, StreamIds
  <2>4. S \in SUBSET (Word \X Bit)
    BY <2>1 DEF ConnType
  <2> HIDE DEF s, id
  <2>5. /\ c.active_streams \in Nat /\ c.active_streams < UInt8Range
        /\ UInt8Range \in Nat \ {0}
    BY StreamAssumption DEF ConnType
  <2>6. /\ c.active_streams + 1 < UInt8Range => a = c.active_streams + 1
        /\ c.active_streams + 1 = UInt8Range => a = 0
        /\ a \in 0 .. UInt8Range - 1
    <3>1. CASE c.active_streams + 1 < UInt8Range
      BY <2>5, <3>1, ModSmall
    <3>2. CASE c.active_streams + 1 = UInt8Range
      <4>1. UInt8Range % UInt8Range = 0
        <5>1. UInt8Range <= UInt8Range /\ UInt8Range < 2 * UInt8Range
              /\ UInt8Range \in Nat
          BY <2>5
        <5>2. UInt8Range % UInt8Range = UInt8Range - UInt8Range
          BY <2>5, <5>1, ModOnce
        <5> QED BY <2>5, <5>2
      <4> QED BY <2>5, <3>2, <4>1
    <3> QED BY <2>5, <3>1, <3>2
  <2> HIDE DEF a, S
  <2>7. d \in ConnType /\ d.proto_state = "ESTABLISHED"
        /\ d.streams_bitmap = S /\ d.active_streams = a
    BY <2>4, <2>6 DEF ConnType
  <2>8. ResultType(StreamOpen(c, pkt))
    BY <2>2, <2>3, <2>7 DEF ResultType, ResponseType, PacketType
  <2>9. ASSUME Agrees(c) PROVE Agrees(d)
    <3> DEFINE k == Cardinality(c.streams_bitmap)
    <3>1. /\ IsFiniteSet(c.streams_bitmap) /\ k \in Nat /\ k < UInt8Range
      BY <2>1, <2>5, BitmapBounds DEF ConnType
    <3>2. Cardinality(S) = k + 1
      BY <2>1, <3>1, FS_AddElement DEF S
    <3>3. c.active_streams = k % UInt8Range
      BY <2>9 DEF Agrees
    <3> HIDE DEF k
    <3>4. k % UInt8Range = k
      BY <2>5, <3>1, ModSmall
    <3>5. a = (k + 1) % UInt8Range
      BY <3>3, <3>4 DEF a
    <3> QED BY <2>7, <3>2, <3>5 DEF Agrees, S
  <2> QED BY <2>2, <2>8, <2>9
<1> QED BY <1>1, <1>2

\* STREAM_CLOSE: closing an open stream takes one from both.
LEMMA CloseBranch ==
  ASSUME NEW c \in ConnType, NEW pkt \in Packets,
         c.proto_state = "ESTABLISHED"
  PROVE  /\ ResultType(StreamClose(c, pkt))
         /\ Agrees(c) /\ BitOf(pkt.stream_id) \in c.streams_bitmap
              => Agrees(StreamClose(c, pkt).conn)
<1> DEFINE s == BitOf(pkt.stream_id)
           S == c.streams_bitmap \ {s}
           a == (c.active_streams - 1) % UInt8Range
           st == IF a = 0 THEN "CLOSED" ELSE c.proto_state
           d == [proto_state |-> st, active_streams |-> a,
                 streams_bitmap |-> S]
<1>1. StreamClose(c, pkt).conn = d
  BY DEF StreamClose, Reply, NoReply
<1>2. StreamClose(c, pkt).response \in ResponseType
  BY StreamAssumption
     DEF StreamClose, Reply, NoReply, NoResponse, ResponseType, PacketType,
         Packets, StreamId
<1>3. /\ c.active_streams \in Nat /\ c.active_streams < UInt8Range
      /\ UInt8Range \in Nat \ {0} /\ UInt8Range > 1
  BY StreamAssumption DEF ConnType
<1>4. /\ c.active_streams > 0 => a = c.active_streams - 1
      /\ a \in 0 .. UInt8Range - 1
  <2>1. CASE c.active_streams > 0
    <3>1. c.active_streams - 1 \in Nat /\ c.active_streams - 1 < UInt8Range
      BY <1>3, <2>1
    <3>2. a = c.active_streams - 1
      BY <1>3, <3>1, ModSmall
    <3> QED BY <1>3, <3>1, <3>2
  <2>2. CASE c.active_streams = 0
    <3>1. a = (-1) % UInt8Range
      BY <2>2
    <3> QED BY <1>3, <2>2, <3>1, Z3
  <2> QED BY <1>3, <2>1, <2>2
<1>5. c.active_streams = 0 => a = UInt8Range - 1
  <2> SUFFICES ASSUME c.active_streams = 0 PROVE a = UInt8Range - 1
    OBVIOUS
  <2>1. a = (-1) % UInt8Range
    OBVIOUS
  <2> QED BY <1>3, <2>1, Z3
<1>6. S \in SUBSET (Word \X Bit)
  BY DEF ConnType
<1> HIDE DEF s, S, a
<1>7. ResultType(StreamClose(c, pkt))
  BY <1>1, <1>2, <1>4, <1>6 DEF ResultType, ConnType
<1>8. ASSUME Agrees(c), s \in c.streams_bitmap
      PROVE  Agrees(d)
  <2> DEFINE k == Cardinality(c.streams_bitmap)
  <2>1. IsFiniteSet(c.streams_bitmap) /\ k \in 0 .. UInt8Range
    BY BitmapBounds DEF ConnType
  <2>2. IsFiniteSet(S) /\ Cardinality(S) = k - 1
    BY <1>8, <2>1, FS_RemoveElement DEF S
  <2>3. k # 0
    BY <1>8, <2>1, FS_EmptySet
  <2>4. Cardinality(S) = 0 <=> S = {}
    BY <2>2, FS_EmptySet
  <2>5. c.active_streams = k % UInt8Range
    BY <1>8 DEF Agrees
  <2> HIDE DEF k
  <2>6. a = k - 1
    <3>1. CASE k < UInt8Range
      <4>1. k % UInt8Range = k
        BY <1>3, <2>1, <3>1, ModSmall
      <4> QED BY <1>3, <1>4, <2>1, <2>3, <2>5, <4>1
    <3>2. CASE k = UInt8Range
      <4>1. UInt8Range <= UInt8Range /\ UInt8Range < 2 * UInt8Range
            /\ UInt8Range \in Nat
        BY <1>3
      <4>2. UInt8Range % UInt8Range = UInt8Range - UInt8Range
        BY <1>3, <4>1, ModOnce
      <4>3. c.active_streams = 0
        BY <1>3, <2>5, <3>2, <4>2
      <4> QED BY <1>5, <3>2, <4>3
    <3> QED BY <1>3, <2>1, <3>1, <3>2
  <2>7. (k - 1) % UInt8Range = k - 1
    <3>1. k - 1 \in Nat /\ k - 1 < UInt8Range
      BY <1>3, <2>1, <2>3
    <3> QED BY <1>3, <3>1, ModSmall
  <2>8. st = "ESTABLISHED" <=> S # {}
    BY <2>2, <2>4, <2>6
  <2> QED BY <2>2, <2>6, <2>7, <2>8 DEF Agrees
<1> QED BY <1>1, <1>7, <1>8 DEF s

\* The other branches leave streams and counter alone.
LEMMA OtherBranches ==
  ASSUME NEW c \in ConnType, NEW pkt \in Packets
  PROVE  /\ ResultType(NoReply(c))
         /\ \A t \in PacketType : ResultType(Reply(c, t, pkt.stream_id))
         /\ NoReply(c).conn = c
         /\ \A t \in PacketType : Reply(c, t, pkt.stream_id).conn = c
BY StreamAssumption
   DEF NoReply, Reply, NoResponse, ResultType, ResponseType, StreamId, Packets

\* An established connection handles a packet.
LEMMA EstablishedBranch ==
  ASSUME NEW c \in ConnType, NEW pkt \in Packets,
         c.proto_state = "ESTABLISHED"
  PROVE  LET r == HandleEstablished(c, pkt)
         IN  /\ ResultType(r)
             /\ (/\ Agrees(c)
                 /\ pkt.type = "STREAM_CLOSE"
                      => BitOf(pkt.stream_id) \in c.streams_bitmap)
                => Agrees(r.conn)
<1>1. CASE pkt.type = "STREAM_OPEN"
  BY <1>1, OpenBranch DEF HandleEstablished
<1>2. CASE pkt.type = "STREAM_CLOSE"
  BY <1>2, CloseBranch DEF HandleEstablished
<1>3. CASE pkt.type \notin {"STREAM_OPEN", "STREAM_CLOSE"}
  <2>1. \/ HandleEstablished(c, pkt) = NoReply(c)
        \/ \E t \in PacketType :
             HandleEstablished(c, pkt) = Reply(c, t, pkt.stream_id)
    BY <1>3 DEF HandleEstablished, PacketType
  <2> QED BY <2>1, <1>3, OtherBranches
<1> QED BY <1>1, <1>2, <1>3

\* The zeroed connection satisfies the invariant.
LEMMA InitInv == Init => IInv
<1> SUFFICES ASSUME Init PROVE IInv
  OBVIOUS
<1>a. 0 \in 0 .. UInt8Range - 1 /\ {} \in SUBSET (Word \X Bit)
  BY StreamAssumption
<1>1. conn \in ConnType /\ response \in ResponseType
  BY <1>a DEF Init, ProtoZero, NoResponse, ConnType, ResponseType, StreamId
<1>b. strayClose \in BOOLEAN
  BY DEF Init
<1>2. 0 % UInt8Range = 0
  BY StreamAssumption, ModSmall
<1>3. Cardinality({}) = 0
  BY FS_EmptySet
<1> QED BY <1>1, <1>b, <1>2, <1>3 DEF Init, ProtoZero, CountMatchesBitmap, IInv

\* Handling a packet preserves the invariant.
LEMMA NextInv == IInv /\ [Next]_vars => IInv'
<1> SUFFICES ASSUME IInv, [Next]_vars PROVE IInv'
  OBVIOUS
<1>1. ASSUME NEW pkt \in Packets, Receive(pkt) PROVE IInv'
  <2> DEFINE r == vr_protocol_handle_packet(conn, pkt)
  <2>1. conn \in ConnType /\ (~strayClose => Agrees(conn))
    BY DEF IInv, CountMatchesBitmap, Agrees
  <2>2. ResultType(r) /\ (~strayClose /\ ~Stray(pkt) => Agrees(r.conn))
    <3>1. CASE conn.proto_state = "INIT"
      BY <2>1, <3>1, InitBranch DEF vr_protocol_handle_packet
    <3>2. CASE conn.proto_state = "ESTABLISHED"
      <4>1. r = HandleEstablished(conn, pkt)
        BY <3>2 DEF vr_protocol_handle_packet
      <4>2. ~Stray(pkt) => (pkt.type = "STREAM_CLOSE"
                              => BitOf(pkt.stream_id) \in conn.streams_bitmap)
        BY <3>2 DEF Stray
      <4> QED BY <2>1, <3>2, <4>1, <4>2, EstablishedBranch
    <3>3. CASE conn.proto_state = "CLOSED"
      <4>1. /\ r.response = NoResponse
            /\ r.conn \in ConnType
            /\ r.conn.active_streams = conn.active_streams
            /\ r.conn.streams_bitmap = conn.streams_bitmap
            /\ r.conn.proto_state = "INIT"
        BY <2>1, <3>3
           DEF vr_protocol_handle_packet, HandleOther, NoReply, ConnType
      <4>2. NoResponse \in ResponseType
        BY StreamAssumption DEF NoResponse, ResponseType, StreamId
      <4> QED BY <2>1, <3>3, <4>1, <4>2 DEF ResultType, Agrees
    <3> QED BY <2>1, <3>1, <3>2, <3>3 DEF ConnType
  <2>3. conn' = r.conn /\ response' = r.response
        /\ strayClose' = (strayClose \/ Stray(pkt))
    BY <1>1 DEF Receive
  <2>4. strayClose' \in BOOLEAN
    BY <2>3 DEF IInv, Stray
  <2>5. conn' \in ConnType /\ response' \in ResponseType
    BY <2>2, <2>3 DEF ResultType
  <2>6. ~strayClose' => Agrees(conn')
    BY <2>2, <2>3
  <2> QED BY <2>4, <2>5, <2>6 DEF IInv, CountMatchesBitmap, Agrees
<1>2. CASE UNCHANGED vars
  BY <1>2 DEF vars, IInv, CountMatchesBitmap
<1> QED BY <1>1, <1>2 DEF Next

\* The invariant of every behaviour.
LEMMA Invariance == Spec => []IInv
BY InitInv, NextInv, PTL DEF Spec

-----------------------------------------------------------------------------
(* Theorems *)

\* The protocol fields keep their types: active_streams stays a uint8_t and
\* every stream_id in a response names a bit.
THEOREM TypeCorrect == Spec => []TypeOK
<1>1. IInv => TypeOK
  BY DEF IInv, TypeOK, ConnType, ResponseType
<1> QED BY <1>1, Invariance, PTL

\* While only open streams are closed, active_streams counts the bits of
\* streams_bitmap modulo 2^8, and ESTABLISHED ends with the last stream: for
\* every number of words and bits.
THEOREM CountCorrect == Spec => []CountMatchesBitmap
<1>1. IInv => CountMatchesBitmap
  BY DEF IInv
<1> QED BY <1>1, Invariance, PTL

\* A STREAM_OPEN is answered with the lowest stream that nobody holds, which
\* it takes, and refused only when there is none: for every number of words
\* and bits.
THEOREM OpenCorrect == Spec => OpenGivesFreshStream
<1> DEFINE Answered ==
             \/ /\ response'.type = "STREAM_OPEN_ACK"
                /\ LET id == response'.stream_id
                   IN  /\ BitOf(id) \notin conn.streams_bitmap
                       /\ \A lower \in 0 .. id - 1 :
                            BitOf(lower) \in conn.streams_bitmap
                       /\ conn'.streams_bitmap
                            = conn.streams_bitmap \cup {BitOf(id)}
             \/ /\ response'.type = "ERROR"
                /\ \A id \in StreamId : BitOf(id) \in conn.streams_bitmap
<1>1. ASSUME IInv, NEW n \in StreamId, conn.proto_state = "ESTABLISHED",
             Receive([type |-> "STREAM_OPEN", stream_id |-> n])
      PROVE  Answered
  <2>1. PICK pkt : pkt = [type |-> "STREAM_OPEN", stream_id |-> n]
    OBVIOUS
  <2>2. PICK r : r = StreamOpen(conn, pkt)
    OBVIOUS
  <2>3. conn' = r.conn /\ response' = r.response
    BY <1>1, <2>1, <2>2 DEF Receive, vr_protocol_handle_packet, HandleEstablished
  <2>4. conn \in ConnType
    BY <1>1 DEF IInv
  <2>5. CASE FreeBits(conn) = {}
    <3>1. r.response.type = "ERROR"
      BY <2>2, <2>5 DEF StreamOpen, Reply
    <3>2. \A id \in StreamId : BitOf(id) \in conn.streams_bitmap
      BY <2>5, StreamHasBit DEF FreeBits
    <3> QED BY <2>3, <3>1, <3>2
  <2>6. CASE FreeBits(conn) # {}
    <3>1. PICK s : s = FirstFree(conn)
      OBVIOUS
    <3>2. /\ s \in FreeBits(conn)
          /\ \A t \in FreeBits(conn) :
               s[1] < t[1] \/ (s[1] = t[1] /\ s[2] <= t[2])
      BY <2>6, <3>1, FirstFreeIsFree
    <3>3. s \in Word \X Bit /\ s \notin conn.streams_bitmap
      BY <3>2 DEF FreeBits
    <3>4. PICK id : id = WordBits * s[1] + s[2]
      OBVIOUS
    <3>5. id \in StreamId /\ BitOf(id) = s
      BY <3>3, <3>4, StreamIds, BitOfStream
    <3>6. /\ r.response.type = "STREAM_OPEN_ACK" /\ r.response.stream_id = id
          /\ r.conn.streams_bitmap = conn.streams_bitmap \cup {s}
      BY <2>2, <2>4, <2>6, <3>1, <3>4 DEF StreamOpen, Reply, ConnType
    <3>7. ASSUME NEW lower \in 0 .. id - 1
          PROVE  BitOf(lower) \in conn.streams_bitmap
      <4>1. lower \in StreamId /\ lower \in Nat /\ id \in Nat /\ lower < id
        BY <3>5, StreamAssumption DEF StreamId
      <4>2. PICK t : t = BitOf(lower)
        OBVIOUS
      <4>3. t \in Word \X Bit /\ lower = WordBits * t[1] + t[2]
        BY <4>1, <4>2, StreamHasBit
      <4>4. t \in FreeBits(conn) => id <= lower
        BY <3>2, <3>3, <3>4, <4>3, EarlierIsLower
      <4>5. t \notin FreeBits(conn)
        BY <4>1, <4>4
      <4> QED BY <4>2, <4>3, <4>5 DEF FreeBits
    <3> QED BY <2>3, <3>3, <3>5, <3>6, <3>7
  <2> QED BY <2>5, <2>6
<1>2. IInv =>
        \A n \in StreamId :
          (/\ conn.proto_state = "ESTABLISHED"
           /\ Receive([type |-> "STREAM_OPEN", stream_id |-> n])) => Answered
  BY <1>1
<1> QED BY <1>2, Invariance, PTL DEF OpenGivesFreshStream
=============================================================================
