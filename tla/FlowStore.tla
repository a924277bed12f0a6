------------------------------ MODULE FlowStore ------------------------------
(***************************************************************************)
(* The in-memory flow store, hamsy-core/src/store.rs: a ring buffer of     *)
(* captured flows behind one RwLock, shared by the proxy's handler tasks   *)
(* (which insert and update flows), the API (which lists, exports, clears  *)
(* and reconfigures) and export jobs that keep Arc handles to the flows    *)
(* while captures go on.                                                   *)
(*                                                                         *)
(* One action is one critical section of the lock, or one step a thread    *)
(* takes outside it.  `update` is the only operation with more than one:   *)
(* when an export shares the flow it copies the flow outside the lock and  *)
(* comes back to install the copy, if the stored handle is still the same. *)
(* Addresses are modelled, and reused, because that comparison is by       *)
(* address (Arc::ptr_eq).                                                  *)
(***************************************************************************)
EXTENDS FlowRing

CONSTANTS Ids,         \* flow ids
          Writers,     \* tasks that call update, once each
          Readers,     \* tasks that take snapshots
          Producers,   \* tasks that allocate a seq and insert a flow
          Addrs,       \* heap addresses an Arc<Flow> can have
          Allocate(_), \* the free addresses a new Arc may get, of a set of them
          Sizes,       \* payload sizes a flow may have
          Capacities,  \* arguments of new and set_capacity
          Budgets,     \* arguments of set_max_total_bytes
          MaxU64,      \* u64::MAX, the budget before it is configured
          MaxSeq,      \* bound on the sequence numbers handed out
          None         \* no address, no flow

ASSUME SizesAssumption == Sizes \subseteq Nat
ASSUME LimitsAssumption ==
  /\ Capacities \subseteq Nat
  /\ Budgets \subseteq Nat
  /\ MaxU64 \in Nat
  /\ MaxSeq \in Nat
ASSUME AllocateAssumption == \A F \in SUBSET Addrs : Allocate(F) \subseteq F

VARIABLES
  heap,           \* address -> the Flow behind it
  flows,          \* Inner.flows: id -> address of the stored Arc, or None
  order,          \* Inner.order, oldest first
  capacity,       \* Inner.capacity
  nextSeq,        \* Inner.next_seq
  totalBytes,     \* Inner.total_bytes
  maxTotalBytes,  \* Inner.max_total_bytes
  ticket,         \* producer -> the seq it allocated and has not used, or 0
  held,           \* reader -> id -> address of the Arc it cloned, or None
  pc,             \* writer -> where its call of update stands
  target,         \* writer -> the id it updates, once it has looked it up
  snapshot,       \* writer -> the Arc it cloned to copy the flow, or None
  before,         \* writer -> the bytes of the flow it cloned the handle of
  detached        \* writer -> the copy, before it is installed

settings == <<capacity, maxTotalBytes>>
calls    == <<pc, target, snapshot, before, detached>>
ring     == <<heap, flows, order, totalBytes>>
vars     == <<ring, settings, nextSeq, ticket, held, calls>>

-----------------------------------------------------------------------------
\* A flow, as far as the store can tell flows apart: its sequence number, the
\* payload bytes stored_payload_bytes measures, and whose callbacks edited it.
Flow  == [seq : Nat, bytes : Nat, edits : SUBSET Writers]
Blank == [seq |-> 0, bytes |-> 0, edits |-> {}]

ASSUME NoneAssumption == None \notin Addrs /\ None \notin Flow

Edited(f, w, b) == [seq |-> f.seq, bytes |-> b, edits |-> f.edits \union {w}]

\* stored_payload_bytes of every stored flow of map fl over heap h.
SizeOf(h, fl) == [i \in Ids |-> IF fl[i] = None THEN 0 ELSE h[fl[i]].bytes]

\* Arc::strong_count(stored) > 1: someone besides the map holds the flow.
\* Mutant: only concurrent updates count.
SharedByWriter(a) == \E w \in Writers : snapshot[w] = a
Shared(a) ==
  \/ \E r \in Readers, i \in Ids : held[r][i] = a
  \/ \E w \in Writers : snapshot[w] = a

\* The addresses an Arc points to; the others are free to be allocated again.
LiveIn(fl, hd, sn) ==
  {a \in Addrs : \/ \E i \in Ids : fl[i] = a
                 \/ \E r \in Readers, i \in Ids : hd[r][i] = a
                 \/ \E w \in Writers : sn[w] = a}
Live == LiveIn(flows, held, snapshot)

\* Dropping the last handle to a flow frees it.
Reclaim(h, live) == [a \in Addrs |-> IF a \in live THEN h[a] ELSE Blank]

\* Commit the map fl, queue o and counter t, after evict_if_needed under the
\* limits cap and max has popped what exceeds them.
Settle(h, fl, o, t, cap, max) ==
  LET size == SizeOf(h, fl)
      k == Popped(o, size, t, cap, max)
  IN  /\ order' = Newest(o, k)
      /\ flows' = [i \in Ids |-> IF i \in Oldest(o, k) THEN None ELSE fl[i]]
      /\ totalBytes' = LeftAfter(o, size, t, k)

-----------------------------------------------------------------------------
Init ==
  /\ heap = [a \in Addrs |-> Blank]
  /\ flows = [i \in Ids |-> None]
  /\ order = <<>>
  /\ capacity \in {AtLeastOne(c) : c \in Capacities}
  /\ nextSeq = 1
  /\ totalBytes = 0
  /\ maxTotalBytes = MaxU64
  /\ ticket = [p \in Producers |-> 0]
  /\ held = [r \in Readers |-> [i \in Ids |-> None]]
  /\ pc = [w \in Writers |-> "start"]
  /\ target = [w \in Writers |-> None]
  /\ snapshot = [w \in Writers |-> None]
  /\ before = [w \in Writers |-> 0]
  /\ detached = [w \in Writers |-> Blank]

\* next_seq: allocated under the lock, used by a later insert.
NextSeq(p) ==
  /\ ticket[p] = 0
  /\ nextSeq <= MaxSeq
  /\ ticket' = [ticket EXCEPT ![p] = nextSeq]
  /\ nextSeq' = nextSeq + 1
  /\ UNCHANGED <<ring, settings, held, calls>>

\* insert: replaces a flow of the same id (a HAR import keeps the ids of its
\* document), appends the id, evicts.
Insert(p, i, b) ==
  /\ ticket[p] # 0
  /\ \E a \in Allocate(Addrs \ Live) :
       LET h == [heap EXCEPT ![a] = [seq |-> ticket[p], bytes |-> b, edits |-> {}]]
           o == IF flows[i] = None THEN order ELSE Without(order, i)
           t == SaturatingSub(totalBytes, SizeOf(heap, flows)[i])
       IN  /\ Settle(h, [flows EXCEPT ![i] = a], Append(o, i), t + b,
                     capacity, maxTotalBytes)
           /\ heap' = Reclaim(h, LiveIn(flows', held, snapshot))
  /\ ticket' = [ticket EXCEPT ![p] = 0]
  /\ UNCHANGED <<settings, nextSeq, held, calls>>

\* What update returns: the summary, if the flow survived its own eviction.
Returned(i) == IF flows'[i] = None THEN "none" ELSE "some"

\* The top of update's loop, for the id the task has in hand.
Calling(w, i) == pc[w] = "start" \/ (pc[w] = "retry" /\ target[w] = i)

\* update, no flow of that id: `inner.flows.get(&id)?`
UpdateMissing(w, i) ==
  /\ Calling(w, i)
  /\ flows[i] = None
  /\ pc' = [pc EXCEPT ![w] = "none"]
  /\ UNCHANGED <<ring, settings, nextSeq, ticket, held, target, snapshot, before, detached>>

\* update, nobody shares the flow: the callback runs on the flow in place.
UpdateInPlace(w, i, b) ==
  /\ Calling(w, i)
  /\ flows[i] # None
  /\ ~Shared(flows[i])
  /\ LET h == [heap EXCEPT ![flows[i]] = Edited(@, w, b)]
         t == SaturatingSub(totalBytes, heap[flows[i]].bytes)
     IN  /\ Settle(h, flows, order, t + b, capacity, maxTotalBytes)
         /\ heap' = Reclaim(h, LiveIn(flows', held, snapshot))
  /\ pc' = [pc EXCEPT ![w] = Returned(i)]
  /\ UNCHANGED <<settings, nextSeq, ticket, held, target, snapshot, before, detached>>

\* update, the flow is shared: clone the handle and leave the lock.
UpdateShare(w, i) ==
  /\ Calling(w, i)
  /\ flows[i] # None
  /\ Shared(flows[i])
  /\ snapshot' = [snapshot EXCEPT ![w] = flows[i]]
  /\ before' = [before EXCEPT ![w] = heap[flows[i]].bytes]
  /\ target' = [target EXCEPT ![w] = i]
  /\ pc' = [pc EXCEPT ![w] = "share"]
  /\ UNCHANGED <<ring, settings, nextSeq, ticket, held, detached>>

\* Outside the lock: deep-copy the flow.
Detach(w) ==
  /\ pc[w] = "share"
  /\ detached' = [detached EXCEPT ![w] = heap[snapshot[w]]]
  /\ pc' = [pc EXCEPT ![w] = "copied"]
  /\ UNCHANGED <<ring, settings, nextSeq, ticket, held, target, snapshot, before>>

\* Arc::ptr_eq: the stored handle is still the one that was copied.  Mutants:
\* it is enough that the flow is still there; the comparison never succeeds.
StillThere(w) == flows[target[w]] # None
NeverSame(w) == FALSE
SameHandle(w) == flows[target[w]] = snapshot[w]

\* Back under the lock, nothing happened to the flow: install the copy, run
\* the callback on it, drop the old handle.
Install(w, b) ==
  /\ pc[w] = "copied"
  /\ SameHandle(w)
  /\ snapshot' = [snapshot EXCEPT ![w] = None]
  /\ \E a \in Allocate(Addrs \ Live) :
       LET h == [heap EXCEPT ![a] = Edited(detached[w], w, b)]
           t == SaturatingSub(totalBytes, before[w])
       IN  /\ Settle(h, [flows EXCEPT ![target[w]] = a], order, t + b,
                     capacity, maxTotalBytes)
           /\ heap' = Reclaim(h, LiveIn(flows', held, snapshot'))
  /\ before' = [before EXCEPT ![w] = 0]
  /\ detached' = [detached EXCEPT ![w] = Blank]
  /\ pc' = [pc EXCEPT ![w] = Returned(target[w])]
  /\ UNCHANGED <<settings, nextSeq, ticket, held, target>>

\* The flow was updated, replaced, evicted or cleared meanwhile: start over.
Retry(w) ==
  /\ pc[w] = "copied"
  /\ ~SameHandle(w)
  /\ snapshot' = [snapshot EXCEPT ![w] = None]
  /\ before' = [before EXCEPT ![w] = 0]
  /\ detached' = [detached EXCEPT ![w] = Blank]
  /\ pc' = [pc EXCEPT ![w] = "retry"]
  /\ heap' = Reclaim(heap, LiveIn(flows, held, snapshot'))
  /\ UNCHANGED <<flows, order, totalBytes, settings, nextSeq, ticket, held, target>>

\* snapshots(ids), which get, all and ids use too: clone the handles.
Snapshots(r, S) ==
  /\ \A i \in Ids : held[r][i] = None
  /\ held' = [held EXCEPT ![r] = [i \in Ids |-> IF i \in S THEN flows[i] ELSE None]]
  /\ UNCHANGED <<ring, settings, nextSeq, ticket, calls>>

\* The reader is done with its handles.
DropSnapshots(r) ==
  /\ \E i \in Ids : held[r][i] # None
  /\ held' = [held EXCEPT ![r] = [i \in Ids |-> None]]
  /\ heap' = Reclaim(heap, LiveIn(flows, held', snapshot))
  /\ UNCHANGED <<flows, order, totalBytes, settings, nextSeq, ticket, calls>>

Clear ==
  /\ flows' = [i \in Ids |-> None]
  /\ order' = <<>>
  /\ totalBytes' = 0
  /\ heap' = Reclaim(heap, LiveIn(flows', held, snapshot))
  /\ UNCHANGED <<settings, nextSeq, ticket, held, calls>>

SetCapacity(c) ==
  /\ capacity' = AtLeastOne(c)
  /\ Settle(heap, flows, order, totalBytes, AtLeastOne(c), maxTotalBytes)
  /\ heap' = Reclaim(heap, LiveIn(flows', held, snapshot))
  /\ UNCHANGED <<maxTotalBytes, nextSeq, ticket, held, calls>>

SetMaxTotalBytes(m) ==
  /\ maxTotalBytes' = m
  /\ Settle(heap, flows, order, totalBytes, capacity, m)
  /\ heap' = Reclaim(heap, LiveIn(flows', held, snapshot))
  /\ UNCHANGED <<capacity, nextSeq, ticket, held, calls>>

-----------------------------------------------------------------------------
\* One step of the call of update that writer w makes.
UpdateStep(w) ==
  \/ \E i \in Ids : UpdateMissing(w, i)
  \/ \E i \in Ids, b \in Sizes : UpdateInPlace(w, i, b)
  \/ \E i \in Ids : UpdateShare(w, i)
  \/ Detach(w)
  \/ \E b \in Sizes : Install(w, b)
  \/ Retry(w)

Next ==
  \/ \E p \in Producers : NextSeq(p)
  \/ \E p \in Producers, i \in Ids, b \in Sizes : Insert(p, i, b)
  \/ \E w \in Writers : UpdateStep(w)
  \/ \E r \in Readers, S \in SUBSET Ids : Snapshots(r, S)
  \/ \E r \in Readers : DropSnapshots(r)
  \/ Clear
  \/ \E c \in Capacities : SetCapacity(c)
  \/ \E m \in Budgets : SetMaxTotalBytes(m)

Spec == Init /\ [][Next]_vars

\* A thread inside update is eventually scheduled.  Nothing obliges readers,
\* producers or the API to act.
FairSpec == Spec /\ \A w \in Writers : WF_vars(UpdateStep(w))

-----------------------------------------------------------------------------
\* Every variable stays in its range.  The floor of one under the capacity is
\* what keeps set_capacity(0) from turning the ring into a store of nothing.
TypeOK ==
  /\ heap \in [Addrs -> Flow]
  /\ flows \in [Ids -> Addrs \union {None}]
  /\ order \in Seq(Ids)
  /\ capacity \in Nat \ {0}
  /\ nextSeq \in Nat
  /\ totalBytes \in Nat
  /\ maxTotalBytes \in Nat
  /\ ticket \in [Producers -> Nat]
  /\ held \in [Readers -> [Ids -> Addrs \union {None}]]
  /\ pc \in [Writers -> {"start", "share", "copied", "retry", "some", "none"}]
  /\ target \in [Writers -> Ids \union {None}]
  /\ snapshot \in [Writers -> Addrs \union {None}]
  /\ before \in [Writers -> Nat]
  /\ detached \in [Writers -> Flow]

\* The queue holds each stored id once and no other id: otherwise eviction
\* pops an id whose flow stays in the map for ever, or list shows a flow twice.
OrderExact ==
  /\ \A j, k \in 1..Len(order) : order[j] = order[k] => j = k
  /\ \A i \in Ids : flows[i] # None <=> \E k \in 1..Len(order) : order[k] = i

\* The running counter total_bytes is what the stored flows really retain,
\* through replacement, in-place and copied updates, eviction and clear.  The
\* saturating subtractions of the code would hide a drift, never mend it.
AccountingExact == totalBytes = RetainedBytes(order, SizeOf(heap, flows))

\* Between two critical sections both limits hold, whichever of them was just
\* lowered and whichever flow just grew.
WithinLimits ==
  /\ Len(order) <= capacity
  /\ totalBytes <= maxTotalBytes

\* "A later update uses copy-on-write to preserve the snapshot": a flow does
\* not change under a reader that holds a handle to it.
SnapshotsFrozen ==
  [][\A r \in Readers, i \in Ids :
       held[r][i] # None /\ held'[r][i] = held[r][i]
         => heap'[held[r][i]] = heap[held[r][i]]]_vars

\* The store acts as if flows were values and every operation were atomic: no
\* update is lost or applied to a flow other than the one stored, although
\* update copies outside the lock and addresses are reused; and evictions are
\* those of the bytes really retained.
ValueIn(fl) == [i \in Ids |-> IF fl[i] = None THEN None ELSE heap[fl[i]]]

Atomic ==
  INSTANCE AtomicFlowStore
    WITH store   <- ValueIn(flows),
         view    <- [r \in Readers |-> ValueIn(held[r])],
         outcome <- [w \in Writers |-> IF pc[w] \in {"some", "none"} THEN pc[w] ELSE "running"]

ActsAtomically == Atomic!Spec

\* An update that had to leave the lock comes back and returns.  It can be made
\* to start over for as long as others keep replacing or updating the flow;
\* the property says that nothing else does: with finitely many inserts and
\* updates (MaxSeq, Writers) it cannot wait for itself, for a reader that
\* never drops its handles, or for a handle comparison that never succeeds.
UpdatesReturn == \A w \in Writers : pc[w] = "share" ~> pc[w] \in {"some", "none"}
=============================================================================
