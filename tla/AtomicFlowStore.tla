--------------------------- MODULE AtomicFlowStore ---------------------------
(***************************************************************************)
(* What FlowStore (hamsy-core/src/store.rs) promises its callers: flows    *)
(* are held by value, every operation is one atomic step, an update edits  *)
(* exactly the flow that is stored when it takes effect, a snapshot is a   *)
(* copy that nothing changes afterwards, and after every operation the     *)
(* store keeps the longest run of newest flows that fits its two limits,   *)
(* computed from the bytes really retained.  There are no shared handles,  *)
(* no detached copies, no retries and no running byte counter here.        *)
(***************************************************************************)
EXTENDS FlowRing

CONSTANTS Ids, Writers, Readers, Producers,
          Sizes,       \* payload sizes a flow may have
          Capacities,  \* arguments of new and set_capacity
          Budgets,     \* arguments of set_max_total_bytes
          MaxU64,      \* u64::MAX, the budget before it is configured
          MaxSeq,      \* bound on the sequence numbers handed out
          None

VARIABLES store,          \* id -> the flow held under it, or None
          order,          \* ids, oldest insertion first
          capacity, maxTotalBytes,
          nextSeq, ticket,
          view,           \* reader -> the copies it took, by id
          outcome         \* writer -> what its update returned

vars == <<store, order, capacity, maxTotalBytes, nextSeq, ticket, view, outcome>>

SizeOf(s) == [i \in Ids |-> IF s[i] = None THEN 0 ELSE s[i].bytes]

\* Keep the longest run of newest flows within both limits.
Keep(s, o, cap, max) ==
  LET size == SizeOf(s)
      k == Popped(o, size, RetainedBytes(o, size), cap, max)
  IN  /\ order' = Newest(o, k)
      /\ store' = [i \in Ids |-> IF i \in Oldest(o, k) THEN None ELSE s[i]]

Init ==
  /\ store = [i \in Ids |-> None]
  /\ order = <<>>
  /\ capacity \in {AtLeastOne(c) : c \in Capacities}
  /\ maxTotalBytes = MaxU64
  /\ nextSeq = 1
  /\ ticket = [p \in Producers |-> 0]
  /\ view = [r \in Readers |-> [i \in Ids |-> None]]
  /\ outcome = [w \in Writers |-> "running"]

NextSeq(p) ==
  /\ ticket[p] = 0
  /\ nextSeq <= MaxSeq
  /\ ticket' = [ticket EXCEPT ![p] = nextSeq]
  /\ nextSeq' = nextSeq + 1
  /\ UNCHANGED <<store, order, capacity, maxTotalBytes, view, outcome>>

Insert(p, i, b) ==
  /\ ticket[p] # 0
  /\ Keep([store EXCEPT ![i] = [seq |-> ticket[p], bytes |-> b, edits |-> {}]],
          Append(IF store[i] = None THEN order ELSE Without(order, i), i),
          capacity, maxTotalBytes)
  /\ ticket' = [ticket EXCEPT ![p] = 0]
  /\ UNCHANGED <<capacity, maxTotalBytes, nextSeq, view, outcome>>

\* The flow is edited where it is, and the caller learns whether it survived.
Update(w, i, b) ==
  /\ outcome[w] = "running"
  /\ store[i] # None
  /\ Keep([store EXCEPT ![i] = [seq   |-> store[i].seq,
                                bytes |-> b,
                                edits |-> store[i].edits \union {w}]],
          order, capacity, maxTotalBytes)
  /\ outcome' = [outcome EXCEPT ![w] = IF store'[i] = None THEN "none" ELSE "some"]
  /\ UNCHANGED <<capacity, maxTotalBytes, nextSeq, ticket, view>>

UpdateMissing(w, i) ==
  /\ outcome[w] = "running"
  /\ store[i] = None
  /\ outcome' = [outcome EXCEPT ![w] = "none"]
  /\ UNCHANGED <<store, order, capacity, maxTotalBytes, nextSeq, ticket, view>>

Snapshots(r, S) ==
  /\ view' = [view EXCEPT ![r] = [i \in Ids |-> IF i \in S THEN store[i] ELSE None]]
  /\ UNCHANGED <<store, order, capacity, maxTotalBytes, nextSeq, ticket, outcome>>

Clear ==
  /\ store' = [i \in Ids |-> None]
  /\ order' = <<>>
  /\ UNCHANGED <<capacity, maxTotalBytes, nextSeq, ticket, view, outcome>>

SetCapacity(c) ==
  /\ capacity' = AtLeastOne(c)
  /\ Keep(store, order, AtLeastOne(c), maxTotalBytes)
  /\ UNCHANGED <<maxTotalBytes, nextSeq, ticket, view, outcome>>

SetMaxTotalBytes(m) ==
  /\ maxTotalBytes' = m
  /\ Keep(store, order, capacity, m)
  /\ UNCHANGED <<capacity, nextSeq, ticket, view, outcome>>

Next ==
  \/ \E p \in Producers : NextSeq(p)
  \/ \E p \in Producers, i \in Ids, b \in Sizes : Insert(p, i, b)
  \/ \E w \in Writers, i \in Ids, b \in Sizes : Update(w, i, b)
  \/ \E w \in Writers, i \in Ids : UpdateMissing(w, i)
  \/ \E r \in Readers, S \in SUBSET Ids : Snapshots(r, S)
  \/ Clear
  \/ \E c \in Capacities : SetCapacity(c)
  \/ \E m \in Budgets : SetMaxTotalBytes(m)

Spec == Init /\ [][Next]_vars
=============================================================================
