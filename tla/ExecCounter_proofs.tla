------------------------- MODULE ExecCounter_proofs -------------------------
(***************************************************************************)
(* The counter of execve() calls, for any number of processors, processes, *)
(* calls and entries of the map.                                           *)
(***************************************************************************)
EXTENDS ExecCounter, FiniteSetTheorems, TLAPS

-----------------------------------------------------------------------------
(* The inductive invariant *)

\* The processors that are at a call of process p.
At(p) == {cpu \in Cpu : pc[cpu] # "idle" /\ pid[cpu] = p}

Counted(p) == IF p \in Keys THEN counter[p] ELSE 0

Typed ==
  /\ pc \in [Cpu -> {"idle", "found", "absent", "loaded"}]
  /\ DOMAIN pid = Cpu
  /\ \A cpu \in Cpu : pc[cpu] # "idle" => pid[cpu] \in Pid
  /\ value \in [Cpu -> Nat]
  /\ Keys \subseteq Pid /\ counter \in [Keys -> Nat]
  /\ execs \in [Pid -> Nat] /\ shared \subseteq Pid
  /\ IsFiniteSet(Keys) /\ Cardinality(Keys) <= MaxEntries
  /\ \A p \in Pid : IsFiniteSet(At(p))

\* An entry that a processor found stays: nobody deletes.
Found == \A cpu \in Cpu : pc[cpu] \in {"found", "loaded"} => pid[cpu] \in Keys

\* The calls on their way are not counted yet, nor in what was loaded: each
\* of them can still add one to it.
Below ==
  /\ \A p \in Pid : Counted(p) + Cardinality(At(p)) <= execs[p]
  /\ \A cpu \in Cpu : pc[cpu] = "loaded" =>
       value[cpu] + Cardinality(At(pid[cpu])) <= execs[pid[cpu]]

\* A process is alone with its entry until two of its calls overlap.
Alone(p) ==
  /\ \A c, d \in At(p) : c = d
  /\ At(p) = {} => IF p \in Keys THEN counter[p] = execs[p]
                   ELSE execs[p] = 0 \/ Cardinality(Keys) = MaxEntries
  /\ \A cpu \in At(p) :
       /\ pc[cpu] \in {"found", "loaded"} => counter[p] + 1 = execs[p]
       /\ pc[cpu] = "loaded" => value[cpu] = counter[p]
       /\ pc[cpu] = "absent" =>
            p \notin Keys /\ (execs[p] = 1 \/ Cardinality(Keys) = MaxEntries)

IInv == Typed /\ Found /\ Below /\ \A p \in Pid \ shared : Alone(p)

-----------------------------------------------------------------------------
(* The steps *)

\* A processor comes to a call of process p.
LEMMA Enters ==
  ASSUME Typed, NEW cpu \in Cpu, NEW p \in Pid, NEW at, at # "idle",
         pc[cpu] = "idle", pc' = [pc EXCEPT ![cpu] = at],
         pid' = [pid EXCEPT ![cpu] = p]
  PROVE  /\ cpu \notin At(p) /\ At(p)' = At(p) \cup {cpu}
         /\ \A q \in Pid : q # p => At(q)' = At(q)
         /\ \A q \in Pid : IsFiniteSet(At(q)')
         /\ Cardinality(At(p)') = Cardinality(At(p)) + 1
<1>1. cpu \notin At(p) /\ At(p)' = At(p) \cup {cpu}
  BY DEF Typed, At
<1>2. ASSUME NEW q \in Pid, q # p PROVE At(q)' = At(q)
  BY <1>2 DEF Typed, At
<1>3. \A q \in Pid : IsFiniteSet(At(q))
  BY DEF Typed
<1>4. IsFiniteSet(At(p)') /\ Cardinality(At(p)') = Cardinality(At(p)) + 1
  BY <1>1, <1>3, FS_AddElement
<1> QED BY <1>1, <1>2, <1>3, <1>4

\* A processor is done with its call.
LEMMA Leaves ==
  ASSUME Typed, NEW cpu \in Cpu, pc[cpu] # "idle", UNCHANGED pid,
         pc' = [pc EXCEPT ![cpu] = "idle"]
  PROVE  /\ cpu \in At(pid[cpu]) /\ At(pid[cpu])' = At(pid[cpu]) \ {cpu}
         /\ \A q \in Pid : q # pid[cpu] => At(q)' = At(q)
         /\ \A q \in Pid : IsFiniteSet(At(q)')
         /\ Cardinality(At(pid[cpu])') = Cardinality(At(pid[cpu])) - 1
<1>0. PICK p \in Pid : p = pid[cpu]
  BY DEF Typed
<1>1. cpu \in At(p) /\ At(p)' = At(p) \ {cpu}
  BY <1>0 DEF Typed, At
<1>2. ASSUME NEW q \in Pid, q # p PROVE At(q)' = At(q)
  BY <1>0, <1>2 DEF Typed, At
<1>3. \A q \in Pid : IsFiniteSet(At(q))
  BY DEF Typed
<1>4. IsFiniteSet(At(p)') /\ Cardinality(At(p)') = Cardinality(At(p)) - 1
  BY <1>1, <1>3, FS_RemoveElement
<1>5. pid'[cpu] = p
  BY <1>0
<1>6. At(pid[cpu])' = At(p)'
  BY <1>5 DEF At
<1> QED BY <1>0, <1>1, <1>2, <1>3, <1>4, <1>6

\* A call is made, and its process looked up.
LEMMA LookupKeeps ==
  ASSUME IInv, NEW cpu \in Cpu, NEW p \in Pid, bpf_map_lookup_elem(cpu, p)
  PROVE  IInv'
<1>0. PICK at : at = IF p \in Keys THEN "found" ELSE "absent"
  OBVIOUS
<1>1. /\ at \in {"found", "absent"} /\ pc[cpu] = "idle"
      /\ pc' = [pc EXCEPT ![cpu] = at] /\ pid' = [pid EXCEPT ![cpu] = p]
      /\ execs' = [execs EXCEPT ![p] = @ + 1]
      /\ shared' = shared \cup {q \in {p} : Busy(p)}
      /\ value' = value /\ counter' = counter /\ Keys' = Keys
  BY <1>0 DEF bpf_map_lookup_elem, Keys
<1>2. Typed
  BY DEF IInv
<1>3. /\ cpu \notin At(p) /\ At(p)' = At(p) \cup {cpu}
      /\ \A q \in Pid : q # p => At(q)' = At(q)
      /\ \A q \in Pid : IsFiniteSet(At(q)')
      /\ Cardinality(At(p)') = Cardinality(At(p)) + 1
  BY <1>1, <1>2, Enters
<1>4. /\ execs \in [Pid -> Nat] /\ execs' \in [Pid -> Nat]
      /\ execs'[p] = execs[p] + 1
      /\ \A q \in Pid : q # p => execs'[q] = execs[q]
  BY <1>1, <1>2 DEF Typed
<1>5. \A c \in Cpu : c # cpu => pc'[c] = pc[c] /\ pid'[c] = pid[c]
  BY <1>1, <1>2 DEF Typed
<1>6. pc'[cpu] = at /\ pid'[cpu] = p
  BY <1>1, <1>2 DEF Typed
<1>7. \A q \in Pid : Cardinality(At(q)) \in Nat
  BY <1>2, FS_CardinalityType DEF Typed
<1>8. Typed'
  <2>1. /\ pc' \in [Cpu -> {"idle", "found", "absent", "loaded"}]
        /\ DOMAIN pid' = Cpu
        /\ \A c \in Cpu : pc'[c] # "idle" => pid'[c] \in Pid
    BY <1>1, <1>2 DEF Typed
  <2>2. shared' \subseteq Pid
    BY <1>1, <1>2 DEF Typed
  <2> QED BY <1>1, <1>2, <1>3, <1>4, <2>1, <2>2 DEF Typed
<1>9. Found'
  BY <1>0, <1>1, <1>5, <1>6 DEF IInv, Found
<1>10. Below'
  <2>1. ASSUME NEW q \in Pid
        PROVE  Counted(q)' + Cardinality(At(q)') <= execs'[q]
    <3>1. Counted(q)' = Counted(q) /\ Counted(q) \in Nat
      BY <1>1, <1>2 DEF Counted, Typed
    <3>2. Counted(q) + Cardinality(At(q)) <= execs[q]
      BY DEF IInv, Below
    <3>3. CASE q = p
      BY <1>3, <1>4, <1>7, <3>1, <3>2, <3>3
    <3>4. CASE q # p
      BY <1>3, <1>4, <3>1, <3>2, <3>4
    <3> QED BY <3>3, <3>4
  <2>2. ASSUME NEW c \in Cpu, pc'[c] = "loaded"
        PROVE  value'[c] + Cardinality(At(pid[c])') <= execs'[pid'[c]]
    <3>1. c # cpu /\ pc[c] = "loaded" /\ pid'[c] = pid[c]
      BY <1>1, <1>5, <1>6, <2>2
    <3>2. PICK q \in Pid : q = pid[c]
      BY <1>2, <3>1 DEF Typed
    <3>3. value[c] + Cardinality(At(q)) <= execs[q] /\ value[c] \in Nat
      BY <1>2, <3>1, <3>2 DEF IInv, Below, Typed
    <3>4. At(pid[c])' = At(q)'
      BY <3>1, <3>2 DEF At
    <3>5. CASE q = p
      <4>1. Cardinality(At(pid[c])') = Cardinality(At(p)) + 1
        BY <1>3, <3>4, <3>5
      <4>2. /\ execs'[pid'[c]] = execs[p] + 1 /\ value'[c] = value[c]
            /\ value[c] + Cardinality(At(p)) <= execs[p]
        BY <1>1, <1>4, <3>1, <3>2, <3>3, <3>5
      <4> QED BY <1>4, <1>7, <3>3, <4>1, <4>2
    <3>6. CASE q # p
      BY <1>1, <1>3, <1>4, <3>1, <3>2, <3>3, <3>4, <3>6
    <3> QED BY <3>5, <3>6
  <2> QED BY <2>1, <2>2 DEF Below
<1>11. ASSUME NEW q \in Pid \ shared' PROVE Alone(q)'
  <2>1. q \notin shared /\ Alone(q)
    BY <1>1 DEF IInv
  <2>2. CASE q # p
    <3>1. /\ At(q)' = At(q) /\ execs'[q] = execs[q]
          /\ \A c \in At(q) : pc'[c] = pc[c]
      BY <1>3, <1>4, <1>5, <1>1, <2>2 DEF At
    <3> QED BY <1>1, <2>1, <3>1 DEF Alone
  <2>3. CASE q = p
    <3>1. At(p) = {}
      BY <1>1, <2>3 DEF Busy, At
    <3>2. At(p)' = {cpu}
      BY <1>3, <3>1
    <3>3. /\ p \in Keys => counter[p] = execs[p]
          /\ p \notin Keys => execs[p] = 0 \/ Cardinality(Keys) = MaxEntries
      BY <2>1, <2>3, <3>1 DEF Alone
    <3> QED BY <1>0, <1>1, <1>4, <1>6, <2>3, <3>2, <3>3 DEF Alone
  <2> QED BY <2>2, <2>3
<1> QED BY <1>8, <1>9, <1>10, <1>11 DEF IInv

\* What it found is read.
LEMMA LoadKeeps ==
  ASSUME IInv, NEW cpu \in Cpu, Load(cpu)
  PROVE  IInv'
<1>1. /\ pc[cpu] = "found" /\ pc' = [pc EXCEPT ![cpu] = "loaded"]
      /\ value' = [value EXCEPT ![cpu] = counter[pid[cpu]]]
      /\ pid' = pid /\ counter' = counter /\ Keys' = Keys
      /\ execs' = execs /\ shared' = shared
  BY DEF Load, Keys
<1>2. Typed
  BY DEF IInv
<1>3. PICK p \in Keys : p = pid[cpu] /\ p \in Pid /\ counter[p] \in Nat
  BY <1>1, <1>2 DEF IInv, Found, Typed
<1>4. /\ pc'[cpu] = "loaded" /\ value'[cpu] = counter[p]
      /\ \A c \in Cpu : c # cpu => pc'[c] = pc[c] /\ value'[c] = value[c]
  BY <1>1, <1>2, <1>3 DEF Typed
<1>5. \A q : At(q)' = At(q)
  BY <1>1, <1>4 DEF At
<1>6. Typed'
  <2>1. /\ pc' \in [Cpu -> {"idle", "found", "absent", "loaded"}]
        /\ value' \in [Cpu -> Nat]
        /\ \A c \in Cpu : pc'[c] # "idle" => pid'[c] \in Pid
    BY <1>1, <1>2, <1>3 DEF Typed
  <2> QED BY <1>1, <1>2, <1>5, <2>1 DEF Typed
<1>7. Found'
  BY <1>1, <1>3, <1>4 DEF IInv, Found
<1>8. Below'
  <2>1. ASSUME NEW q \in Pid
        PROVE  Counted(q)' + Cardinality(At(q)') <= execs'[q]
    BY <1>1, <1>5 DEF IInv, Below, Counted
  <2>2. ASSUME NEW c \in Cpu, pc'[c] = "loaded"
        PROVE  value'[c] + Cardinality(At(pid[c])') <= execs'[pid'[c]]
    <3>1. At(pid[c])' = At(pid[c])
      BY <1>1, <1>5 DEF At
    <3>2. CASE c = cpu
      <4>1. Counted(p) + Cardinality(At(p)) <= execs[p] /\ Counted(p) = counter[p]
        BY <1>3 DEF IInv, Below, Counted
      <4> QED BY <1>1, <1>3, <1>4, <3>1, <3>2, <4>1
    <3>3. CASE c # cpu
      BY <1>1, <1>4, <2>2, <3>1, <3>3 DEF IInv, Below
    <3> QED BY <3>2, <3>3
  <2> QED BY <2>1, <2>2 DEF Below
<1>9. ASSUME NEW q \in Pid \ shared' PROVE Alone(q)'
  <2>1. q \notin shared /\ Alone(q)
    BY <1>1 DEF IInv
  <2>2. cpu \in At(q) => q = p /\ counter[p] + 1 = execs[p]
    BY <1>1, <1>3, <2>1 DEF At, Alone
  <2>3. At(q) \subseteq Cpu
    BY DEF At
  <2> QED BY <1>1, <1>4, <1>5, <2>1, <2>2, <2>3 DEF Alone
<1> QED BY <1>6, <1>7, <1>8, <1>9 DEF IInv

\* A processor is done, having changed at most the entry of its process.
LEMMA DoneKeeps ==
  ASSUME IInv, NEW cpu \in Cpu, NEW p \in Pid, p = pid[cpu],
         pc[cpu] # "idle", pc' = [pc EXCEPT ![cpu] = "idle"],
         UNCHANGED <<pid, value, execs, shared>>,
         Keys \subseteq Keys', Keys' \subseteq Keys \cup {p},
         counter' \in [Keys' -> Nat],
         \A q \in Keys : q # p => counter'[q] = counter[q],
         IsFiniteSet(Keys'), Cardinality(Keys') <= MaxEntries,
         Cardinality(Keys) = MaxEntries => Cardinality(Keys') = MaxEntries,
         Counted(p)' + Cardinality(At(p)) <= execs[p] + 1,
         p \notin shared =>
           IF p \in Keys' THEN counter'[p] = execs[p]
           ELSE execs[p] = 0 \/ Cardinality(Keys') = MaxEntries
  PROVE  IInv'
<1>1. /\ pid' = pid /\ value' = value /\ execs' = execs /\ shared' = shared
      /\ Typed /\ execs \in [Pid -> Nat] /\ value \in [Cpu -> Nat]
  BY DEF IInv, Typed
<1>2. /\ cpu \in At(p) /\ At(p)' = At(p) \ {cpu}
      /\ \A q \in Pid : q # p => At(q)' = At(q)
      /\ \A q \in Pid : IsFiniteSet(At(q)')
      /\ Cardinality(At(p)') = Cardinality(At(p)) - 1
  <2>1. At(pid[cpu])' = At(p)'
    BY <1>1 DEF At
  <2> QED BY <1>1, <2>1, Leaves
<1>3. \A q \in Pid : Cardinality(At(q)) \in Nat
  BY <1>1, FS_CardinalityType DEF Typed
<1>4. /\ pc'[cpu] = "idle" /\ \A c \in Cpu : c # cpu => pc'[c] = pc[c]
      /\ pc' \in [Cpu -> {"idle", "found", "absent", "loaded"}]
  BY <1>1 DEF Typed
<1>5. Typed'
  <2>1. \A c \in Cpu : pc'[c] # "idle" => pid'[c] \in Pid
    BY <1>1, <1>4 DEF Typed
  <2>2. Keys' \subseteq Pid
    BY <1>1 DEF Typed
  <2> QED BY <1>1, <1>2, <1>4, <2>1, <2>2 DEF Typed
<1>6. Found'
  BY <1>1, <1>4 DEF IInv, Found
<1>7. Below'
  <2>1. ASSUME NEW q \in Pid
        PROVE  Counted(q)' + Cardinality(At(q)') <= execs'[q]
    <3>1. CASE q = p
      <4>1. Counted(p)' \in Nat
        BY DEF Counted
      <4>2. Counted(p)' + Cardinality(At(p)') <= execs'[p]
        BY <1>1, <1>2, <1>3, <4>1
      <4> QED BY <3>1, <4>2
    <3>2. CASE q # p
      <4>1. Counted(q)' = Counted(q)
        BY <3>2 DEF Counted
      <4> QED BY <1>1, <1>2, <3>2, <4>1 DEF IInv, Below
    <3> QED BY <3>1, <3>2
  <2>2. ASSUME NEW c \in Cpu, pc'[c] = "loaded"
        PROVE  value'[c] + Cardinality(At(pid[c])') <= execs'[pid'[c]]
    <3>1. pc[c] = "loaded"
      BY <1>4, <2>2
    <3>2. PICK q \in Pid : q = pid[c]
      BY <1>1, <3>1 DEF Typed
    <3>3. value[c] + Cardinality(At(q)) <= execs[q]
      BY <3>1, <3>2 DEF IInv, Below
    <3>4. At(pid[c])' = At(q)'
      BY <1>1, <3>2 DEF At
    <3>5. CASE q = p
      <4>1. Cardinality(At(pid[c])') = Cardinality(At(p)) - 1
        BY <1>2, <3>4, <3>5
      <4>2. /\ execs'[pid'[c]] = execs[p] /\ value'[c] = value[c]
            /\ value[c] + Cardinality(At(p)) <= execs[p]
        BY <1>1, <3>2, <3>3, <3>5
      <4> QED BY <1>1, <1>3, <4>1, <4>2
    <3>6. CASE q # p
      BY <1>1, <1>2, <3>2, <3>3, <3>4, <3>6
    <3> QED BY <3>5, <3>6
  <2> QED BY <2>1, <2>2 DEF Below
<1>8. ASSUME NEW q \in Pid \ shared' PROVE Alone(q)'
  <2>1. q \notin shared /\ Alone(q)
    BY <1>1 DEF IInv
  <2>2. CASE q = p
    <3>1. At(p)' = {}
      BY <1>2, <2>1, <2>2 DEF Alone
    <3> QED BY <1>1, <2>1, <2>2, <3>1 DEF Alone
  <2>3. CASE q # p
    <3>1. /\ At(q)' = At(q) /\ execs'[q] = execs[q]
          /\ \A c \in At(q) : pc'[c] = pc[c] /\ value'[c] = value[c]
      BY <1>1, <1>2, <1>4, <2>3 DEF At
    <3>2. (q \in Keys' <=> q \in Keys) /\ (q \in Keys => counter'[q] = counter[q])
      BY <2>3
    <3>3. \A c \in At(q) : pc[c] \in {"found", "loaded"} => q \in Keys
      BY DEF IInv, Found, At
    <3> QED BY <2>1, <3>1, <3>2, <3>3 DEF Alone
  <2> QED BY <2>2, <2>3
<1> QED BY <1>5, <1>6, <1>7, <1>8 DEF IInv

\* One more than what was read is written.
LEMMA StoreKeeps ==
  ASSUME IInv, NEW cpu \in Cpu, Store(cpu)
  PROVE  IInv'
<1>1. /\ pc[cpu] = "loaded" /\ pc' = [pc EXCEPT ![cpu] = "idle"]
      /\ counter' = [counter EXCEPT ![pid[cpu]] = value[cpu] + 1]
      /\ Keys' = Keys /\ UNCHANGED <<pid, value, execs, shared>>
  BY DEF Store, Keys
<1>2. Typed
  BY DEF IInv
<1>3. PICK p \in Pid, v \in Nat : p = pid[cpu] /\ p \in Keys /\ v = value[cpu]
  BY <1>1, <1>2 DEF IInv, Found, Typed
<1>4. /\ counter' \in [Keys' -> Nat] /\ counter'[p] = v + 1
      /\ \A q \in Keys : q # p => counter'[q] = counter[q]
  BY <1>1, <1>2, <1>3 DEF Typed
<1>5. Counted(p)' + Cardinality(At(p)) <= execs[p] + 1
  <2>1. v + Cardinality(At(p)) <= execs[p]
    BY <1>1, <1>3 DEF IInv, Below
  <2>2. Counted(p)' = v + 1
    BY <1>1, <1>3, <1>4 DEF Counted
  <2>3. Cardinality(At(p)) \in Nat /\ execs[p] \in Nat
    BY <1>2, <1>3, FS_CardinalityType DEF Typed
  <2> QED BY <1>3, <2>1, <2>2, <2>3
<1>6. p \notin shared => counter'[p] = execs[p]
  <2>1. cpu \in At(p)
    BY <1>1, <1>3 DEF At
  <2> QED BY <1>1, <1>3, <1>4, <2>1 DEF IInv, Alone
<1>7. IsFiniteSet(Keys') /\ Cardinality(Keys') <= MaxEntries
  BY <1>1, <1>2 DEF Typed
<1>8. /\ pc[cpu] # "idle" /\ Keys \subseteq Keys' /\ Keys' \subseteq Keys \cup {p}
      /\ Cardinality(Keys) = MaxEntries => Cardinality(Keys') = MaxEntries
      /\ p \notin shared =>
           IF p \in Keys' THEN counter'[p] = execs[p]
           ELSE execs[p] = 0 \/ Cardinality(Keys') = MaxEntries
  BY <1>1, <1>3, <1>6
<1>9. /\ p = pid[cpu] /\ pc' = [pc EXCEPT ![cpu] = "idle"]
      /\ UNCHANGED <<pid, value, execs, shared>>
  BY <1>1, <1>3
<1> QED BY <1>4, <1>5, <1>7, <1>8, <1>9, DoneKeeps

\* A new entry is made, unless the map is full.
LEMMA UpdateKeeps ==
  ASSUME IInv, NEW cpu \in Cpu, bpf_map_update_elem(cpu)
  PROVE  IInv'
<1>1. /\ pc[cpu] = "absent" /\ pc' = [pc EXCEPT ![cpu] = "idle"]
      /\ UNCHANGED <<pid, value, execs, shared>>
  BY DEF bpf_map_update_elem
<1>2. Typed /\ MaxEntries \in Nat /\ IsFiniteSet(Keys) /\ Cardinality(Keys) \in Nat
  BY CounterAssumption, FS_CardinalityType DEF IInv, Typed
<1>3. PICK p \in Pid : p = pid[cpu]
  BY <1>1, <1>2 DEF Typed
<1>4. /\ cpu \in At(p) /\ Cardinality(At(p)) \in Nat /\ execs[p] \in Nat
      /\ Counted(p) \in Nat /\ Counted(p) + Cardinality(At(p)) <= execs[p]
  BY <1>1, <1>2, <1>3, FS_CardinalityType DEF At, Typed, Counted, IInv, Below
<1>5. p \notin shared =>
        p \notin Keys /\ (execs[p] = 1 \/ Cardinality(Keys) = MaxEntries)
  BY <1>1, <1>4 DEF IInv, Alone
<1>6. CASE p \in Keys \/ Cardinality(Keys) < MaxEntries
  <2>1. counter' = With(p, 1)
    BY <1>3, <1>6 DEF bpf_map_update_elem
  <2>2. /\ Keys' = Keys \cup {p} /\ counter' \in [Keys' -> Nat]
        /\ counter'[p] = 1 /\ \A q \in Keys : q # p => counter'[q] = counter[q]
    BY <1>2, <2>1 DEF With, Keys, Typed
  <2>3. /\ IsFiniteSet(Keys')
        /\ Cardinality(Keys')
             = IF p \in Keys THEN Cardinality(Keys) ELSE Cardinality(Keys) + 1
    BY <1>2, <2>2, FS_AddElement
  <2>4. /\ Cardinality(Keys') <= MaxEntries
        /\ Cardinality(Keys) = MaxEntries => Cardinality(Keys') = MaxEntries
    BY <1>2, <1>6, <2>3 DEF Typed
  <2>5. Counted(p)' + Cardinality(At(p)) <= execs[p] + 1
    <3>1. Counted(p)' = 1
      BY <2>2 DEF Counted
    <3> QED BY <1>4, <3>1
  <2>6. p \notin shared => p \in Keys' /\ counter'[p] = execs[p]
    BY <1>2, <1>5, <1>6, <2>2
  <2> QED BY <1>1, <1>3, <2>2, <2>3, <2>4, <2>5, <2>6, DoneKeeps
<1>7. CASE ~(p \in Keys \/ Cardinality(Keys) < MaxEntries)
  <2>1. counter' = counter /\ Keys' = Keys
    BY <1>3, <1>7 DEF bpf_map_update_elem, Keys
  <2>2. Cardinality(Keys) = MaxEntries /\ p \notin Keys
    BY <1>2, <1>7 DEF Typed
  <2>3. Counted(p)' = Counted(p) /\ counter' \in [Keys' -> Nat]
    BY <1>2, <2>1 DEF Counted, Typed
  <2>4. Counted(p)' + Cardinality(At(p)) <= execs[p] + 1
    BY <1>4, <2>3
  <2>5. /\ pc[cpu] # "idle" /\ Keys \subseteq Keys' /\ Keys' \subseteq Keys \cup {p}
        /\ \A q \in Keys : q # p => counter'[q] = counter[q]
        /\ IsFiniteSet(Keys') /\ Cardinality(Keys') <= MaxEntries
        /\ Cardinality(Keys) = MaxEntries => Cardinality(Keys') = MaxEntries
        /\ p \notin shared =>
             IF p \in Keys' THEN counter'[p] = execs[p]
             ELSE execs[p] = 0 \/ Cardinality(Keys') = MaxEntries
    BY <1>1, <1>2, <2>1, <2>2
  <2> QED BY <1>1, <1>3, <2>3, <2>4, <2>5, DoneKeeps
<1> QED BY <1>6, <1>7

-----------------------------------------------------------------------------
(* Theorems *)

\* The invariant holds in every state of the program.
LEMMA IInvAlways == Spec => []IInv
<1>1. Init => IInv
  <2> SUFFICES ASSUME Init PROVE IInv
    OBVIOUS
  <2>1. Keys = {} /\ shared = {} /\ \A cpu \in Cpu : pc[cpu] = "idle"
    BY DEF Init, Keys
  <2>2. \A p : At(p) = {}
    BY <2>1 DEF At
  <2>3. IsFiniteSet({}) /\ Cardinality({}) = 0
    BY FS_EmptySet
  <2>4. Typed
    <3>1. /\ pc \in [Cpu -> {"idle", "found", "absent", "loaded"}]
          /\ DOMAIN pid = Cpu /\ value \in [Cpu -> Nat] /\ execs \in [Pid -> Nat]
      BY DEF Init
    <3>2. counter \in [Keys -> Nat]
      BY <2>1 DEF Init
    <3>3. IsFiniteSet(Keys) /\ Cardinality(Keys) <= MaxEntries
      BY <2>1, <2>3, CounterAssumption
    <3>4. \A p \in Pid : IsFiniteSet(At(p))
      BY <2>2, <2>3
    <3> QED BY <2>1, <3>1, <3>2, <3>3, <3>4 DEF Typed
  <2>5. Found
    BY <2>1 DEF Found
  <2>6. Below
    <3>1. ASSUME NEW p \in Pid
          PROVE  Counted(p) + Cardinality(At(p)) <= execs[p]
      <4>1. Counted(p) = 0 /\ Cardinality(At(p)) = 0 /\ execs[p] = 0
        BY <2>1, <2>2, <2>3 DEF Init, Counted
      <4> QED BY <4>1
    <3> QED BY <2>1, <3>1 DEF Below
  <2>7. \A p \in Pid : Alone(p)
    BY <2>1, <2>2 DEF Init, Alone
  <2> QED BY <2>4, <2>5, <2>6, <2>7 DEF IInv
<1>2. IInv /\ [Next]_vars => IInv'
  <2>1. IInv /\ UNCHANGED vars => IInv'
    BY DEF vars, IInv, Typed, Found, Below, Alone, Counted, At, Keys
  <2> QED BY <2>1, LookupKeeps, LoadKeeps, StoreKeeps, UpdateKeeps DEF Next
<1> QED BY <1>1, <1>2, PTL DEF Spec

\* However the processors' loads, stores and updates fall between each
\* other, no call is counted twice.
THEOREM OvercountCorrect == Spec => []NeverOvercounts
<1>1. IInv => NeverOvercounts
  <2> SUFFICES ASSUME IInv, NEW p \in Keys PROVE counter[p] <= execs[p]
    BY DEF NeverOvercounts
  <2>1. /\ p \in Pid /\ Counted(p) = counter[p] /\ counter[p] \in Nat
        /\ execs[p] \in Nat /\ IsFiniteSet(At(p))
    BY DEF IInv, Typed, Counted
  <2>2. Counted(p) + Cardinality(At(p)) <= execs[p]
    BY <2>1 DEF IInv, Below
  <2>3. Cardinality(At(p)) \in Nat
    BY <2>1, FS_CardinalityType
  <2> QED BY <2>1, <2>2, <2>3
<1> QED BY <1>1, IInvAlways, PTL

\* A process whose calls never overlapped is counted exactly, unless the map
\* is full without it.
THEOREM CountedCorrect == Spec => []CountedExactly
<1>1. IInv => CountedExactly
  BY DEF IInv, Alone, CountedExactly, At, Busy
<1> QED BY <1>1, IInvAlways, PTL
=============================================================================
