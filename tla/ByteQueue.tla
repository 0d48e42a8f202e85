----------------------------- MODULE ByteQueue -----------------------------
(***************************************************************************)
(* What a connection's buffer promises its users: a bounded first-in       *)
(* first-out queue of bytes.  Bytes are added and removed in spans; what a *)
(* reader is handed (`out') is always a prefix of what is queued; an       *)
(* operation that cannot be carried out leaves the queue alone.            *)
(***************************************************************************)
EXTENDS Integers, Sequences

CONSTANTS Byte, Limit

VARIABLES queue, out

QueueInit == queue = << >> /\ out = << >>

Add ==
  /\ queue' \in Seq(Byte)
  /\ Len(queue') \in Len(queue) .. Limit
  /\ queue = SubSeq(queue', 1, Len(queue))
  /\ out' = << >>

Remove(n) ==
  /\ queue' = SubSeq(queue, n + 1, Len(queue))
  /\ out' \in {<< >>, SubSeq(queue, 1, n)}

Look(n) ==
  /\ out' = SubSeq(queue, 1, n)
  /\ UNCHANGED queue

QueueNext ==
  \/ Add
  \/ \E n \in 1 .. Len(queue) : Remove(n)
  \/ \E n \in 0 .. Len(queue) : Look(n)

QueueSpec == QueueInit /\ [][QueueNext]_<<queue, out>>
=============================================================================
