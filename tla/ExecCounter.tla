---------------------------- MODULE ExecCounter ----------------------------
(***************************************************************************)
(* The eBPF program count_execve() (src/ebpf-learning/02-maps/             *)
(* hello.ebpf.c): it runs at every entry to execve(), on whichever         *)
(* processor that happens, and counts in a hash map shared by all of them. *)
(***************************************************************************)
EXTENDS Integers, FiniteSets

CONSTANTS
  Cpu,
  Pid,
  MaxEntries,  \* 1024
  MaxExecs     \* bound: calls per process

ASSUME CounterAssumption == MaxEntries \in Nat /\ MaxExecs \in Nat

VARIABLES
  pc,       \* processor: between which two accesses to the map it is
  pid,      \* processor: the process that called
  value,    \* processor: what it loaded
  counter,  \* the map: a function on the keys present
  execs,    \* history: the calls of each process
  shared    \* history: processes two of whose calls overlapped

vars == <<pc, pid, value, counter, execs, shared>>

Keys == DOMAIN counter
Busy(p) == \E cpu \in Cpu : pc[cpu] # "idle" /\ pid[cpu] = p

-----------------------------------------------------------------------------
\* Two threads of a process may both be on their way into execve().
bpf_map_lookup_elem(cpu, p) ==
  /\ pc[cpu] = "idle" /\ execs[p] < MaxExecs
  /\ execs' = [execs EXCEPT ![p] = @ + 1]
  /\ shared' = shared \cup {q \in {p} : Busy(p)}
  /\ pid' = [pid EXCEPT ![cpu] = p]
  /\ pc' = [pc EXCEPT ![cpu] = IF p \in Keys THEN "found" ELSE "absent"]
  /\ UNCHANGED <<value, counter>>

\* (*count)++ is a load and a store.
Load(cpu) ==
  /\ pc[cpu] = "found"
  /\ value' = [value EXCEPT ![cpu] = counter[pid[cpu]]]
  /\ pc' = [pc EXCEPT ![cpu] = "loaded"]
  /\ UNCHANGED <<pid, counter, execs, shared>>

Store(cpu) ==
  /\ pc[cpu] = "loaded"
  /\ counter' = [counter EXCEPT ![pid[cpu]] = value[cpu] + 1]
  /\ pc' = [pc EXCEPT ![cpu] = "idle"]
  /\ UNCHANGED <<pid, value, execs, shared>>

With(p, n) == [q \in Keys \cup {p} |-> IF q = p THEN n ELSE counter[q]]

\* Mutant: the new entry is also incremented.
update_increments(cpu) ==
  /\ pc[cpu] = "absent"
  /\ counter' = IF pid[cpu] \in Keys \/ Cardinality(Keys) < MaxEntries
                THEN With(pid[cpu], 2) ELSE counter
  /\ pc' = [pc EXCEPT ![cpu] = "idle"]
  /\ UNCHANGED <<pid, value, execs, shared>>

\* Mutant: the new entry starts at zero.
update_zero(cpu) ==
  /\ pc[cpu] = "absent"
  /\ counter' = IF pid[cpu] \in Keys \/ Cardinality(Keys) < MaxEntries
                THEN With(pid[cpu], 0) ELSE counter
  /\ pc' = [pc EXCEPT ![cpu] = "idle"]
  /\ UNCHANGED <<pid, value, execs, shared>>

\* BPF_ANY replaces an entry that has come meanwhile; a full map refuses a
\* new one and nobody looks at the result.
bpf_map_update_elem(cpu) ==
  /\ pc[cpu] = "absent"
  /\ counter' = IF pid[cpu] \in Keys \/ Cardinality(Keys) < MaxEntries
                THEN With(pid[cpu], 1) ELSE counter
  /\ pc' = [pc EXCEPT ![cpu] = "idle"]
  /\ UNCHANGED <<pid, value, execs, shared>>

-----------------------------------------------------------------------------
Init ==
  /\ pc = [cpu \in Cpu |-> "idle"]
  /\ pid = [cpu \in Cpu |-> CHOOSE p \in Pid : TRUE]
  /\ value = [cpu \in Cpu |-> 0]
  /\ counter = [p \in {} |-> 0]
  /\ execs = [p \in Pid |-> 0]
  /\ shared = {}

Next ==
  \E cpu \in Cpu :
    \/ \E p \in Pid : bpf_map_lookup_elem(cpu, p)
    \/ Load(cpu)
    \/ Store(cpu)
    \/ bpf_map_update_elem(cpu)

Spec == Init /\ [][Next]_vars

-----------------------------------------------------------------------------
(* Properties *)

\* Updates may be lost between two processors, but no call is counted twice.
NeverOvercounts == \A p \in Keys : counter[p] <= execs[p]

\* A process whose calls do not overlap is counted exactly, whatever other
\* processes do at the same time, unless the map was full when it came.
CountedExactly ==
  \A p \in Pid : p \notin shared /\ ~Busy(p) =>
    IF p \in Keys THEN counter[p] = execs[p]
    ELSE execs[p] = 0 \/ Cardinality(Keys) = MaxEntries
=============================================================================
