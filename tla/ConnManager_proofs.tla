------------------------- MODULE ConnManager_proofs ------------------------
(***************************************************************************)
(* The slot array is exact for any number of connections and any initial   *)
(* capacity.  TypeOK /\ SlotsExact is inductive: each half of SlotsExact   *)
(* says that the other one's map is its inverse, which is what the swap in *)
(* vr_connection_destroy() needs to leave every other connection in place. *)
(***************************************************************************)
EXTENDS ConnManager, TLAPS

IInv == TypeOK /\ SlotsExact

\* An extended array has room and keeps the cells in use.
LEMMA Extend ==
  ASSUME NEW cap \in Nat, cap >= capacity, TypeOK, slots # Null
  PROVE  /\ vr_util_array_extend(slots, cap)
              \in [Cells(cap) -> Conn \cup {Null}]
         /\ \A i \in Cells(count) :
              vr_util_array_extend(slots, cap)[i] = slots[i]
BY DEF TypeOK, vr_util_array_extend, Cells

\* Doubling a capacity, or leaving zero, makes room.
LEMMA Grown ==
  ASSUME NEW cap \in Nat
  PROVE  GrownTo(cap) \in Nat /\ GrownTo(cap) > cap
BY ManagerAssumption DEF GrownTo

\* vr_connection_create()
LEMMA CreateInv ==
  ASSUME IInv, NEW conn \in Conn, vr_connection_create(conn)
  PROVE  IInv'
<1> DEFINE grown == IF count = capacity THEN GrownTo(capacity) ELSE capacity
           wide == vr_util_array_extend(slots, grown)
<1>1. grown \in Nat /\ grown >= capacity /\ count < grown
  BY Grown DEF IInv, TypeOK
<1>2. /\ wide \in [Cells(grown) -> Conn \cup {Null}]
      /\ \A i \in Cells(count) : wide[i] = slots[i]
  BY <1>1, Extend DEF IInv, vr_connection_create
<1>3. /\ capacity' = grown
      /\ slots' = [wide EXCEPT ![count] = conn]
      /\ count' = count + 1
      /\ slot' = [slot EXCEPT ![conn] = count]
      /\ live' = live \cup {conn}
      /\ running' = running
      /\ conn \notin live
  BY DEF vr_connection_create
<1> HIDE DEF grown, wide
<1>4. TypeOK'
  BY <1>1, <1>2, <1>3 DEF IInv, TypeOK, Cells
<1>5. \A i \in Cells(count') : slots'[i] \in live' /\ slot'[slots'[i]] = i
  <2>1. count \in Nat /\ slot \in [Conn -> Nat] /\ live \subseteq Conn
    BY DEF IInv, TypeOK
  <2> QED BY <1>1, <1>2, <1>3, <2>1 DEF IInv, SlotsExact, Cells
<1>6. \A c \in live' : slot'[c] \in Cells(count') /\ slots'[slot'[c]] = c
  BY <1>1, <1>2, <1>3 DEF IInv, TypeOK, SlotsExact, Cells
<1> QED BY <1>4, <1>5, <1>6 DEF IInv, SlotsExact

\* vr_connection_create() that fails after extending the array
LEMMA CreateFailsInv ==
  ASSUME IInv, CreateFailsLate
  PROVE  IInv'
<1> DEFINE grown == GrownTo(capacity)
           wide == vr_util_array_extend(slots, grown)
<1>1. grown \in Nat /\ grown > capacity
  BY Grown DEF IInv, TypeOK
<1>2. /\ wide \in [Cells(grown) -> Conn \cup {Null}]
      /\ \A i \in Cells(count) : wide[i] = slots[i]
  BY <1>1, Extend DEF IInv, TypeOK, CreateFailsLate
<1>3. /\ capacity' = grown /\ slots' = wide
      /\ count' = count /\ slot' = slot /\ live' = live /\ running' = running
  BY DEF CreateFailsLate
<1> HIDE DEF grown, wide
<1>4. TypeOK'
  BY <1>1, <1>2, <1>3 DEF IInv, TypeOK, Cells
<1>5. SlotsExact'
  BY <1>1, <1>2, <1>3 DEF IInv, TypeOK, SlotsExact, Cells
<1> QED BY <1>4, <1>5 DEF IInv

\* vr_connection_destroy() of a connection that is allocated
LEMMA DestroyInv ==
  ASSUME IInv, NEW conn \in live, vr_connection_destroy(conn),
         running' \in BOOLEAN
  PROVE  IInv'
<1> DEFINE s == slot[conn]
           last == count - 1
           moved == slots[last]
<1>1. /\ s \in Cells(count) /\ last \in Cells(count) /\ slots[s] = conn
      /\ moved \in live /\ slot[moved] = last
      /\ live \subseteq Conn /\ Cells(count) \subseteq Cells(capacity)
      /\ slots \in [Cells(capacity) -> Conn \cup {Null}]
  BY DEF IInv, TypeOK, SlotsExact, Cells
<1>2. /\ slots' = IF s = last THEN slots ELSE [slots EXCEPT ![s] = moved]
      /\ slot' = IF s = last THEN slot ELSE [slot EXCEPT ![moved] = s]
      /\ count' = count - 1
      /\ live' = live \ {conn}
      /\ capacity' = capacity
  BY DEF vr_connection_destroy
<1> HIDE DEF s, moved
<1>3. TypeOK'
  BY <1>1, <1>2 DEF IInv, TypeOK, Cells
<1>4. \A i \in Cells(count') : slots'[i] \in live' /\ slot'[slots'[i]] = i
  BY <1>1, <1>2 DEF IInv, TypeOK, SlotsExact, Cells, s
<1>5. \A c \in live' : slot'[c] \in Cells(count') /\ slots'[slot'[c]] = c
  BY <1>1, <1>2 DEF IInv, TypeOK, SlotsExact, Cells, s, moved
<1> QED BY <1>3, <1>4, <1>5 DEF IInv, SlotsExact

\* A manager without connections is exact.
LEMMA InitInv == Init => IInv
BY ManagerAssumption
   DEF Init, IInv, TypeOK, SlotsExact, Cells, vr_connection_manager_init

\* Every operation preserves the invariant.
LEMMA NextInv == IInv /\ [Next]_vars => IInv'
<1> SUFFICES ASSUME IInv, [Next]_vars PROVE IInv'
  OBVIOUS
<1>1. ASSUME NEW conn \in Conn, vr_connection_create(conn) PROVE IInv'
  BY <1>1, CreateInv
<1>2. CASE CreateFailsLate
  BY <1>2, CreateFailsInv
<1>3. ASSUME NEW conn \in Conn, Close(conn) PROVE IInv'
  BY <1>3, DestroyInv DEF Close, IInv, TypeOK
<1>4. CASE Stop
  BY <1>4 DEF Stop, IInv, TypeOK, SlotsExact, Cells
<1>5. CASE reactor_shutdown
  <2>1. slots[0] \in live
    BY <1>5 DEF reactor_shutdown, IInv, TypeOK, SlotsExact, Cells
  <2> QED BY <1>5, <2>1, DestroyInv DEF reactor_shutdown, IInv, TypeOK
<1>6. CASE vr_connection_manager_destroy
  <2>1. live' = {} /\ Cells(0) = {}
    BY <1>6 DEF vr_connection_manager_destroy, IInv, SlotsExact, Cells
  <2> QED BY <1>6, <2>1
          DEF vr_connection_manager_destroy, IInv, TypeOK, SlotsExact
<1>7. CASE UNCHANGED vars
  BY <1>7 DEF vars, IInv, TypeOK, SlotsExact, Cells
<1> QED BY <1>1, <1>2, <1>3, <1>4, <1>5, <1>6, <1>7 DEF Next

\* The invariant of every behaviour.
LEMMA Invariance == Spec => []IInv
BY InitInv, NextInv, PTL DEF Spec

\* The manager's fields keep their types: no cell outside the array is used.
THEOREM TypeCorrect == Spec => []TypeOK
<1>1. IInv => TypeOK
  BY DEF IInv
<1> QED BY <1>1, Invariance, PTL

\* Swap-removal in vr_connection_destroy() never loses, duplicates or
\* misplaces a connection, however many there are.
THEOREM SlotsCorrect == Spec => []SlotsExact
<1>1. IInv => SlotsExact
  BY DEF IInv
<1> QED BY <1>1, Invariance, PTL
=============================================================================
