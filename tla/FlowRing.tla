------------------------------ MODULE FlowRing ------------------------------
(***************************************************************************)
(* The arithmetic of the flow ring buffer, hamsy-core/src/store.rs: how    *)
(* many payload bytes a queue of flows retains, and how many of its oldest *)
(* flows evict_if_needed pops.  A queue is a sequence of flow ids, oldest  *)
(* first; size maps each id to the payload bytes its flow retains.         *)
(***************************************************************************)
EXTENDS Integers, Sequences, Functions, FiniteSetsExt

\* u64::saturating_sub
SaturatingSub(a, b) == IF b <= a THEN a - b ELSE 0

\* AtLeastOne(c) is c.max(1), the floor FlowStore puts under its capacity.
\* Mutant: no floor.
NoFloor(c) == c
AtLeastOne(c) == IF c < 1 THEN 1 ELSE c

\* Prefix(o, size)[k] is the number of bytes the k oldest flows of o retain.
Prefix(o, size) ==
  LET sum[k \in 0..Len(o)] == IF k = 0 THEN 0 ELSE sum[k - 1] + size[o[k]]
  IN  sum

RetainedBytes(o, size) == Prefix(o, size)[Len(o)]

\* The counter after k pops: the code subtracts flow by flow, each time
\* saturating at zero, which amounts to one saturating subtraction.  Mutant:
\* evicted flows are not subtracted.
NothingSubtracted(o, size, total, k) == total
LeftAfter(o, size, total, k) == SaturatingSub(total, Prefix(o, size)[k])

\* `while order.len() > capacity || total_bytes > max_total_bytes` is false
\* once k flows are popped.  Mutant: only the count is checked.
FewEnough(o, size, total, cap, max, k) == Len(o) - k <= cap
Settled(o, size, total, cap, max, k) ==
  /\ Len(o) - k <= cap
  /\ LeftAfter(o, size, total, k) <= max

\* How many flows evict_if_needed pops: the loop ends at the first count that
\* settles, or when the queue is empty (pop_front returns None).
Popped(o, size, total, cap, max) ==
  Min({k \in 0..Len(o) : k = Len(o) \/ Settled(o, size, total, cap, max, k)})

\* The ids of the k oldest flows, and what is left of the queue without them.
Oldest(o, k) == {o[j] : j \in 1..k}
Newest(o, k) == SubSeq(o, k + 1, Len(o))

\* order.retain(|existing| existing != id): the queue holds an id at most once.
\* Mutant: the replaced flow keeps its old place as well.
Unchanged(o, i) == o
Without(o, i) ==
  LET k == CHOOSE j \in 1..Len(o) : o[j] = i
  IN  SubSeq(o, 1, k - 1) \o SubSeq(o, k + 1, Len(o))
=============================================================================
