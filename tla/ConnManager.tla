---------------------------- MODULE ConnManager ----------------------------
(***************************************************************************)
(* The connection manager (src/src/conn/conn.c): an array of pointers to   *)
(* connections without holes, in which each connection knows its slot, and *)
(* the handing out and taking back of connections by the event loop.       *)
(*                                                                         *)
(* A connection is its address.  Memory that was freed may be handed out   *)
(* again by the next malloc().                                             *)
(***************************************************************************)
EXTENDS Integers

CONSTANTS
  Conn,          \* addresses of connections
  Null,          \* the null pointer, also a cell nobody has written
  MaxConns,      \* VR_MAX_CONNECTIONS: the capacity main() starts with
  FirstCapacity  \* 16: the capacity an empty array is extended to

ASSUME ManagerAssumption ==
  /\ Null \notin Conn
  /\ MaxConns \in Nat
  /\ FirstCapacity \in Nat \ {0}

VARIABLES
  slots,     \* manager->slots
  count,     \* manager->count
  capacity,  \* manager->capacity
  slot,      \* the slot field of the connection at an address
  live,      \* history: the addresses allocated and not freed
  running    \* the event loop has not shut down

vars == <<slots, count, capacity, slot, live, running>>

Cells(n) == 0 .. n - 1

-----------------------------------------------------------------------------
\* calloc() may fail; main() ignores the result and the loop runs on with a
\* manager that has a capacity and no array.
vr_connection_manager_init(cap) ==
  /\ slots \in {[i \in Cells(cap) |-> Null], Null}
  /\ count = 0 /\ capacity = cap

GrownTo(cap) == IF cap = 0 THEN FirstCapacity ELSE cap * 2

\* realloc() keeps the cells and adds cells with any content.
vr_util_array_extend(array, cap) ==
  [i \in Cells(cap) |-> IF i \in DOMAIN array THEN array[i] ELSE Null]

\* Mutant: the array is not extended.
create_no_extend(conn) ==
  /\ running /\ slots # Null /\ conn \notin live
  /\ slots' = [slots EXCEPT ![count] = conn]
  /\ count' = count + 1
  /\ slot' = [slot EXCEPT ![conn] = count]
  /\ live' = live \cup {conn}
  /\ UNCHANGED <<capacity, running>>

\* malloc() returns an address that is not in use.
vr_connection_create(conn) ==
  LET grown == IF count = capacity THEN GrownTo(capacity) ELSE capacity
  IN  /\ running /\ slots # Null /\ conn \notin live
      /\ capacity' = grown
      /\ slots' = [vr_util_array_extend(slots, grown) EXCEPT ![count] = conn]
      /\ count' = count + 1
      /\ slot' = [slot EXCEPT ![conn] = count]
      /\ live' = live \cup {conn}
      /\ UNCHANGED running

\* The array was extended, but the connection's malloc() fails.
CreateFailsLate ==
  /\ running /\ slots # Null /\ count = capacity
  /\ capacity' = GrownTo(capacity)
  /\ slots' = vr_util_array_extend(slots, capacity')
  /\ UNCHANGED <<count, slot, live, running>>

\* Mutant: the moved connection keeps its old slot.
destroy_stale_slot(conn) ==
  LET s == slot[conn]
      last == count - 1
  IN  /\ slots' = [slots EXCEPT ![s] = slots[last]]
      /\ slot' = slot
      /\ count' = count - 1
      /\ live' = live \ {conn}
      /\ UNCHANGED capacity

\* The last connection moves into the slot of the one that goes.
vr_connection_destroy(conn) ==
  LET s == slot[conn]
      last == count - 1
      moved == slots[last]
  IN  /\ slots' = IF s = last THEN slots ELSE [slots EXCEPT ![s] = moved]
      /\ slot' = IF s = last THEN slot ELSE [slot EXCEPT ![moved] = s]
      /\ count' = count - 1
      /\ live' = live \ {conn}
      /\ UNCHANGED capacity

\* An event, or a failure to register the new connection, ends one.
Close(conn) ==
  /\ running /\ conn \in live
  /\ vr_connection_destroy(conn)
  /\ UNCHANGED running

\* The loop stops.
Stop ==
  /\ running
  /\ running' = FALSE
  /\ UNCHANGED <<slots, count, capacity, slot, live>>

\* Mutant: the last connection is left.
shutdown_leaves_one ==
  /\ ~running /\ count > 1
  /\ vr_connection_destroy(slots[0])
  /\ UNCHANGED running

\* One round of reactor_shutdown()'s loop: slot 0 until none is left.
reactor_shutdown ==
  /\ ~running /\ count > 0
  /\ vr_connection_destroy(slots[0])
  /\ UNCHANGED running

\* Frees every connection of the array and the array itself.  The program
\* has no caller of it yet; a caller would end the manager's life with it.
vr_connection_manager_destroy ==
  /\ ~running /\ slots # Null
  /\ live' = live \ {slots[i] : i \in Cells(count)}
  /\ slots' = Null
  /\ count' = 0 /\ capacity' = 0
  /\ UNCHANGED <<slot, running>>

-----------------------------------------------------------------------------
Init ==
  /\ vr_connection_manager_init(MaxConns)
  /\ slot = [c \in Conn |-> 0]
  /\ live = {}
  /\ running = TRUE

Next ==
  \/ \E conn \in Conn : vr_connection_create(conn)
  \/ CreateFailsLate
  \/ \E conn \in Conn : Close(conn)
  \/ Stop
  \/ reactor_shutdown
  \/ vr_connection_manager_destroy

Spec == Init /\ [][Next]_vars

\* Shutdown is a loop of the only thread.
FairSpec == Spec /\ WF_vars(reactor_shutdown)

-----------------------------------------------------------------------------
(* Properties *)

\* The manager's fields have their types and count is within the array.
TypeOK ==
  /\ capacity \in Nat
  /\ count \in 0 .. capacity
  /\ \/ slots \in [Cells(capacity) -> Conn \cup {Null}]
     \/ slots = Null /\ count = 0
  /\ slot \in [Conn -> Nat]
  /\ live \subseteq Conn
  /\ running \in BOOLEAN

\* Array and connections agree after any order of connects, disconnects and
\* reuse of addresses: the first count cells hold exactly the connections
\* that are allocated, each in the cell its slot names.  The swap in
\* vr_connection_destroy() relies on it: a stale slot would free one
\* connection and drop another one from the array.
SlotsExact ==
  /\ \A i \in Cells(count) : slots[i] \in live /\ slot[slots[i]] = i
  /\ \A c \in live : slot[c] \in Cells(count) /\ slots[slot[c]] = c

\* No connection outlives reactor_shutdown().
ShutdownFreesAll == ~running ~> live = {}
=============================================================================
