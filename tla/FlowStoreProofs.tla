-------------------------- MODULE FlowStoreProofs --------------------------
(***************************************************************************)
(* The safety of FlowStore for every set of ids, threads and addresses,    *)
(* every allocator and all limits, and that it implements AtomicFlowStore. *)
(*                                                                         *)
(* Every operation that changes the ring hands Settle a map, a queue and a *)
(* counter that agree (Ready), but may exceed the limits; Settle restores  *)
(* the limits and keeps them agreeing (SettleKeeps).  What the operations  *)
(* need from the past is that no two ids share a flow, and that the flow a *)
(* writer copies outside the lock does not change under it (CallsOK).      *)
(***************************************************************************)
EXTENDS FlowStore, FlowRingProofs

\* Map, queue and byte counter describe the same flows, one flow per id.
Ready(h, fl, o, t) ==
  /\ h \in [Addrs -> Flow]
  /\ fl \in [Ids -> Addrs \union {None}]
  /\ o \in Seq(Ids)
  /\ \A j, k \in 1..Len(o) : o[j] = o[k] => j = k
  /\ \A i \in Ids : fl[i] # None <=> \E k \in 1..Len(o) : o[k] = i
  /\ \A i, j \in Ids : fl[i] = fl[j] /\ fl[i] # None => i = j
  /\ t = RetainedBytes(o, SizeOf(h, fl))

\* A writer outside the lock holds the flow it looked up, unchanged since.
CallsOK ==
  \A w \in Writers :
    pc[w] \in {"share", "copied"} =>
      /\ target[w] \in Ids
      /\ snapshot[w] \in Addrs
      /\ before[w] = heap[snapshot[w]].bytes
      /\ pc[w] = "copied" => detached[w] = heap[snapshot[w]]

\* The inductive invariant.
IInv ==
  /\ TypeOK
  /\ Ready(heap, flows, order, totalBytes)
  /\ WithinLimits
  /\ CallsOK

-----------------------------------------------------------------------------
LEMMA SizeOfType ==
  ASSUME NEW h \in [Addrs -> Flow], NEW fl \in [Ids -> Addrs \union {None}]
  PROVE  SizeOf(h, fl) \in [Ids -> Nat]
<1> SUFFICES ASSUME NEW i \in Ids
             PROVE  (IF fl[i] = None THEN 0 ELSE h[fl[i]].bytes) \in Nat
  BY DEF SizeOf
<1>1. CASE fl[i] = None
  BY <1>1
<1>2. CASE fl[i] # None
  <2>1. h[fl[i]] \in Flow
    BY <1>2
  <2> QED BY <1>2, <2>1 DEF Flow
<1> QED BY <1>1, <1>2

\* evict_if_needed keeps the agreement and restores both limits; a flow that
\* is left keeps its handle.
LEMMA SettleKeeps ==
  ASSUME NEW h, NEW fl, NEW o, NEW t, NEW cap \in Nat, NEW max \in Nat,
         Ready(h, fl, o, t), Settle(h, fl, o, t, cap, max)
  PROVE  /\ Ready(h, flows', order', totalBytes')
         /\ totalBytes' \in Nat
         /\ Len(order') <= cap /\ totalBytes' <= max
         /\ \A i \in Ids : flows'[i] = None \/ flows'[i] = fl[i]
<1> DEFINE size == SizeOf(h, fl)
           k == Popped(o, size, t, cap, max)
           left == SizeOf(h, flows')
<1>1. /\ order' = Newest(o, k)
      /\ flows' = [i \in Ids |-> IF i \in Oldest(o, k) THEN None ELSE fl[i]]
      /\ totalBytes' = LeftAfter(o, size, t, k)
  BY DEF Settle
<1>2. /\ h \in [Addrs -> Flow] /\ fl \in [Ids -> Addrs \union {None}]
      /\ o \in Seq(Ids) /\ Len(o) \in Nat /\ \A j \in 1..Len(o) : o[j] \in Ids
      /\ \A j, m \in 1..Len(o) : o[j] = o[m] => j = m
      /\ \A i \in Ids : fl[i] # None <=> \E m \in 1..Len(o) : o[m] = i
      /\ t = RetainedBytes(o, size)
  BY LenProperties, ElementOfSeq DEF Ready
<1>3. size \in [Ids -> Nat]
  BY <1>2, SizeOfType
<1>4. k \in 0..Len(o) /\ (k = Len(o) \/ Settled(o, size, t, cap, max, k))
  BY <1>2, PoppedProperties
<1> HIDE DEF k, size
<1>5. /\ order' \in Seq(Ids) /\ Len(order') = Len(o) - k
      /\ \A j \in 1..(Len(o) - k) : order'[j] = o[j + k]
  <2>1. /\ Newest(o, k) \in Seq(Ids) /\ Len(Newest(o, k)) = Len(o) - k
        /\ \A j \in 1..(Len(o) - k) : Newest(o, k)[j] = o[j + k]
    BY <1>2, <1>4, NewestProperties
  <2> QED BY <1>1, <2>1
<1>6. flows' \in [Ids -> Addrs \union {None}]
  BY <1>1, <1>2
<1>7. \A i \in Ids : flows'[i] = None \/ flows'[i] = fl[i]
  BY <1>1
<1>8. \A j \in 1..(Len(o) - k) :
        j + k \in 1..Len(o) /\ j + k \notin 1..k
  BY <1>2, <1>4
<1>9. \A j \in 1..Len(order') : order'[j] \in Ids /\ flows'[order'[j]] = fl[order'[j]]
  <2> SUFFICES ASSUME NEW j \in 1..(Len(o) - k)
               PROVE  order'[j] \in Ids /\ flows'[order'[j]] = fl[order'[j]]
    BY <1>5
  <2>1. order'[j] = o[j + k] /\ o[j + k] \in Ids
    BY <1>2, <1>5, <1>8
  <2>2. o[j + k] \notin Oldest(o, k)
    <3> SUFFICES ASSUME NEW m \in 1..k, o[j + k] = o[m] PROVE FALSE
      BY DEF Oldest
    <3>1. m \in 1..Len(o)
      BY <1>2, <1>4
    <3> QED BY <1>2, <1>8, <3>1
  <2> QED BY <1>1, <2>1, <2>2
<1>10. \A j, m \in 1..Len(order') : order'[j] = order'[m] => j = m
  <2> SUFFICES ASSUME NEW j \in 1..(Len(o) - k), NEW m \in 1..(Len(o) - k),
                      order'[j] = order'[m]
               PROVE  j = m
    BY <1>5
  <2>1. j + k = m + k
    BY <1>2, <1>5, <1>8
  <2> QED BY <1>4, <2>1
<1>11. \A i \in Ids : flows'[i] # None <=> \E m \in 1..Len(order') : order'[m] = i
  <2> TAKE i \in Ids
  <2>1. ASSUME flows'[i] # None
        PROVE  \E m \in 1..Len(order') : order'[m] = i
    <3>1. i \notin Oldest(o, k) /\ fl[i] # None
      BY <1>1, <2>1
    <3>2. PICK m \in 1..Len(o) : o[m] = i
      BY <1>2, <3>1
    <3>3. m \notin 1..k
      BY <3>1, <3>2 DEF Oldest
    <3>4. m - k \in 1..(Len(o) - k) /\ (m - k) + k = m
      BY <1>2, <1>4, <3>3
    <3> QED BY <1>5, <3>2, <3>4
  <2>2. ASSUME NEW m \in 1..Len(order'), order'[m] = i
        PROVE  flows'[i] # None
    <3>1. flows'[i] = fl[i] /\ m + k \in 1..Len(o) /\ o[m + k] = i
      BY <1>5, <1>8, <1>9, <2>2
    <3> QED BY <1>2, <3>1
  <2> QED BY <2>1, <2>2
<1>12. \A i, j \in Ids : flows'[i] = flows'[j] /\ flows'[i] # None => i = j
  BY <1>7 DEF Ready
<1>13. totalBytes' = RetainedBytes(order', size)
  BY <1>1, <1>2, <1>3, <1>4, LeftAfterExact
<1>14. left \in [Ids -> Nat]
  BY <1>2, <1>6, SizeOfType
<1>15. \A j \in 1..Len(order') : left[order'[j]] = size[order'[j]]
  BY <1>9 DEF size, SizeOf
<1>16. totalBytes' = RetainedBytes(order', left)
  <2> HIDE DEF left
  <2>1. RetainedBytes(order', size) = RetainedBytes(order', left)
    BY <1>3, <1>5, <1>14, <1>15, PrefixCongruence
  <2> QED BY <1>13, <2>1
<1>17. totalBytes' \in Nat
  BY <1>3, <1>5, <1>13, PrefixValues
<1>18. Len(order') <= cap /\ totalBytes' <= max
  <2>1. CASE k = Len(o)
    <3>1. Len(order') = 0
      BY <1>2, <1>5, <2>1
    <3>2. totalBytes' = 0
      BY <1>3, <1>5, <1>13, <3>1, PrefixValues DEF RetainedBytes
    <3> QED BY <3>1, <3>2
  <2>2. CASE Settled(o, size, t, cap, max, k)
    BY <1>1, <1>5, <2>2 DEF Settled
  <2> QED BY <1>4, <2>1, <2>2
<1> QED BY <1>2, <1>5, <1>6, <1>7, <1>10, <1>11, <1>12, <1>16, <1>17, <1>18 DEF Ready

\* Freeing the flows nobody points to disturbs no stored flow.
LEMMA ReclaimKeeps ==
  ASSUME NEW h, NEW fl, NEW o, NEW t, NEW hd, NEW sn, Ready(h, fl, o, t)
  PROVE  Ready(Reclaim(h, LiveIn(fl, hd, sn)), fl, o, t)
<1> DEFINE g == Reclaim(h, LiveIn(fl, hd, sn))
<1>1. h \in [Addrs -> Flow] /\ fl \in [Ids -> Addrs \union {None}]
  BY DEF Ready
<1>2. g \in [Addrs -> Flow]
  BY <1>1 DEF Reclaim, Blank, Flow
<1>3. \A i \in Ids : fl[i] # None => g[fl[i]] = h[fl[i]]
  BY <1>1 DEF Reclaim, LiveIn
<1>4. SizeOf(g, fl) = SizeOf(h, fl)
  <2> HIDE DEF g
  <2> QED BY <1>3 DEF SizeOf
<1> HIDE DEF g
<1>5. Ready(g, fl, o, t)
  BY <1>2, <1>4 DEF Ready
<1> QED BY <1>5 DEF g

\* What an operation leaves once it has settled and freed.
LEMMA SettleAndReclaim ==
  ASSUME NEW h, NEW fl, NEW o, NEW t, NEW hd, NEW sn,
         NEW cap \in Nat, NEW max \in Nat,
         Ready(h, fl, o, t), Settle(h, fl, o, t, cap, max),
         heap' = Reclaim(h, LiveIn(flows', hd, sn))
  PROVE  /\ Ready(heap', flows', order', totalBytes')
         /\ totalBytes' \in Nat
         /\ Len(order') <= cap /\ totalBytes' <= max
         /\ \A i \in Ids : flows'[i] = None \/ flows'[i] = fl[i]
<1>1. /\ Ready(h, flows', order', totalBytes')
      /\ totalBytes' \in Nat
      /\ Len(order') <= cap /\ totalBytes' <= max
      /\ \A i \in Ids : flows'[i] = None \/ flows'[i] = fl[i]
  BY SettleKeeps
<1>2. Ready(heap', flows', order', totalBytes')
  BY <1>1, ReclaimKeeps
<1> QED BY <1>1, <1>2

\* A stored flow is queued somewhere, once, and its bytes are counted.
LEMMA StoredFlow ==
  ASSUME NEW h, NEW fl, NEW o, NEW t, Ready(h, fl, o, t), NEW i \in Ids, fl[i] # None
  PROVE  /\ fl[i] \in Addrs
         /\ h[fl[i]] \in Flow
         /\ \E n \in 1..Len(o) : o[n] = i /\ \A j \in 1..Len(o) : o[j] = o[n] => j = n
         /\ SizeOf(h, fl)[i] = h[fl[i]].bytes
         /\ h[fl[i]].bytes \in Nat
<1>1. fl[i] \in Addrs /\ h[fl[i]] \in Flow
  BY DEF Ready
<1>2. PICK n \in 1..Len(o) : o[n] = i
  BY DEF Ready
<1>3. \A j \in 1..Len(o) : o[j] = o[n] => j = n
  BY DEF Ready
<1> QED BY <1>1, <1>2, <1>3 DEF SizeOf, Flow

\* The counter while the bytes of a stored flow change from what they were to
\* b, in place or by giving its id a handle to another flow.
LEMMA ReadyChanged ==
  ASSUME NEW h, NEW fl, NEW o, NEW t, Ready(h, fl, o, t),
         NEW i \in Ids, fl[i] # None, NEW b \in Nat,
         NEW g \in [Addrs -> Flow], NEW a \in Addrs, g[a].bytes = b,
         \A j \in Ids \ {i} : fl[j] # a,
         \A j \in Ids \ {i} : fl[j] # None => g[fl[j]] = h[fl[j]]
  PROVE  Ready(g, [fl EXCEPT ![i] = a], o, SaturatingSub(t, h[fl[i]].bytes) + b)
<1> DEFINE size == SizeOf(h, fl)
           nf == [fl EXCEPT ![i] = a]
           total == SaturatingSub(t, h[fl[i]].bytes) + b
<1>1. /\ h \in [Addrs -> Flow] /\ fl \in [Ids -> Addrs \union {None}]
      /\ o \in Seq(Ids) /\ t = RetainedBytes(o, size)
  BY DEF Ready
<1>2. PICK n \in 1..Len(o) : o[n] = i /\ \A j \in 1..Len(o) : o[j] = o[n] => j = n
  BY StoredFlow
<1>3. size[i] = h[fl[i]].bytes /\ size[i] \in Nat
  BY StoredFlow
<1>4. size \in [Ids -> Nat]
  BY <1>1, SizeOfType
<1> HIDE DEF size
<1>5. /\ size[o[n]] <= RetainedBytes(o, size)
      /\ RetainedBytes(o, [size EXCEPT ![o[n]] = b]) = RetainedBytes(o, size) - size[o[n]] + b
  <2>1. o \in Seq(Ids)
    BY <1>1
  <2>2. \A j \in 1..Len(o) : o[j] = o[n] => j = n
    BY <1>2
  <2> QED BY ONLY <1>4, <2>1, <2>2, n \in 1..Len(o), b \in Nat, RetainedChange
<1>6. RetainedBytes(o, size) \in Nat
  BY <1>1, <1>4, PrefixValues
<1>7. total = RetainedBytes(o, [size EXCEPT ![i] = b])
  <2>1. size[i] <= t /\ RetainedBytes(o, [size EXCEPT ![i] = b]) = t - size[i] + b
    BY <1>1, <1>2, <1>5
  <2>2. total = t - size[i] + b
    BY <1>3, <2>1 DEF SaturatingSub
  <2> QED BY <2>1, <2>2
<1>8. SizeOf(g, nf) = [size EXCEPT ![i] = b]
  <2>1. a # None
    BY NoneAssumption
  <2> QED BY <1>1, <2>1 DEF SizeOf, size
<1>9. nf \in [Ids -> Addrs \union {None}]
  BY <1>1
<1>10. \A j \in Ids : nf[j] # None <=> fl[j] # None
  BY <1>1, NoneAssumption
<1>11. \A j, m \in Ids : nf[j] = nf[m] /\ nf[j] # None => j = m
  BY <1>1 DEF Ready
<1> HIDE DEF nf, total
<1>12. Ready(g, nf, o, total)
  BY <1>7, <1>8, <1>9, <1>10, <1>11 DEF Ready
<1> QED BY <1>12 DEF nf, total

\* The queue and the counter while insert replaces flow i or adds it.
LEMMA ReadyInserted ==
  ASSUME NEW h, NEW fl, NEW o, NEW t, Ready(h, fl, o, t),
         NEW i \in Ids, NEW b \in Nat,
         NEW g \in [Addrs -> Flow], NEW a \in Addrs, g[a].bytes = b,
         \A j \in Ids : fl[j] # a,
         \A j \in Ids : fl[j] # None => g[fl[j]] = h[fl[j]]
  PROVE  Ready(g, [fl EXCEPT ![i] = a],
               Append(IF fl[i] = None THEN o ELSE Without(o, i), i),
               SaturatingSub(t, SizeOf(h, fl)[i]) + b)
<1> DEFINE size == SizeOf(h, fl)
           nf == [fl EXCEPT ![i] = a]
           nsize == SizeOf(g, nf)
           base == IF fl[i] = None THEN o ELSE Without(o, i)
           no == Append(base, i)
           left == SaturatingSub(t, size[i])
<1>1. /\ h \in [Addrs -> Flow] /\ fl \in [Ids -> Addrs \union {None}]
      /\ o \in Seq(Ids) /\ t = RetainedBytes(o, size) /\ Len(o) \in Nat
      /\ \A j, m \in 1..Len(o) : o[j] = o[m] => j = m
      /\ \A j \in Ids : fl[j] # None <=> \E m \in 1..Len(o) : o[m] = j
  BY LenProperties DEF Ready
<1>2. size \in [Ids -> Nat]
  BY <1>1, SizeOfType
<1>3. nf \in [Ids -> Addrs \union {None}]
  BY <1>1
<1>4. nsize \in [Ids -> Nat]
  BY <1>3, SizeOfType
<1>5. nsize[i] = b /\ \A j \in Ids \ {i} : nsize[j] = size[j]
  <2>1. a # None
    BY NoneAssumption
  <2> QED BY <1>1, <2>1 DEF SizeOf
<1>6. t \in Nat
  BY <1>1, <1>2, PrefixValues
<1> HIDE DEF nsize, size, nf, no, base, left
<1>7. /\ base \in Seq(Ids)
      /\ \A j, m \in 1..Len(base) : base[j] = base[m] => j = m
      /\ \A j \in Ids : (j # i /\ fl[j] # None) <=> \E m \in 1..Len(base) : base[m] = j
      /\ RetainedBytes(base, size) = left
  <2>1. CASE fl[i] = None
    <3>1. size[i] = 0
      BY <2>1 DEF size, SizeOf
    <3>2. left = t
      BY <1>6, <3>1 DEF left, SaturatingSub
    <3>3. base = o
      BY <2>1 DEF base
    <3> QED BY <1>1, <2>1, <3>2, <3>3
  <2>2. CASE fl[i] # None
    <3>1. PICK n \in 1..Len(o) : o[n] = i /\ \A j \in 1..Len(o) : o[j] = o[n] => j = n
      BY <2>2, StoredFlow
    <3> DEFINE Once == \A j \in 1..Len(o) : o[j] = o[n] => j = n
    <3>a. o \in Seq(Ids) /\ Once
      BY <1>1, <3>1
    <3>2. /\ Without(o, o[n]) \in Seq(Ids)
          /\ Len(Without(o, o[n])) = Len(o) - 1
          /\ \A j \in 1..(Len(o) - 1) :
               Without(o, o[n])[j] = IF j < n THEN o[j] ELSE o[j + 1]
      BY <3>a, WithoutProperties
    <3>3. RetainedBytes(Without(o, o[n]), size) = RetainedBytes(o, size) - size[o[n]]
      BY <1>2, <3>a, RetainedWithout
    <3>4. size[o[n]] <= RetainedBytes(o, size)
      <4>1. 0 \in Nat
        OBVIOUS
      <4> QED BY <1>2, <3>a, <4>1, RetainedChange
    <3>5. base = Without(o, o[n])
      BY <2>2, <3>1 DEF base
    <3> HIDE DEF Once
    <3>6. /\ base \in Seq(Ids) /\ Len(base) = Len(o) - 1
          /\ \A j \in 1..(Len(o) - 1) : base[j] = IF j < n THEN o[j] ELSE o[j + 1]
      BY <3>2, <3>5
    <3>7. RetainedBytes(base, size) = left
      BY <1>1, <1>2, <1>6, <3>1, <3>3, <3>4, <3>5 DEF left, SaturatingSub
    <3>8. \A j, m \in 1..Len(base) : base[j] = base[m] => j = m
      <4> SUFFICES ASSUME NEW j \in 1..(Len(o) - 1), NEW m \in 1..(Len(o) - 1), base[j] = base[m]
                   PROVE  j = m
        BY <3>6
      <4>1. base[j] = (IF j < n THEN o[j] ELSE o[j + 1]) /\ base[m] = (IF m < n THEN o[m] ELSE o[m + 1])
        BY <3>6
      <4>2. j \in 1..Len(o) /\ j + 1 \in 1..Len(o) /\ m \in 1..Len(o) /\ m + 1 \in 1..Len(o)
        BY <1>1
      <4>3. CASE j < n /\ m < n
        <5>1. o[j] = o[m]
          BY <4>1, <4>3
        <5> QED BY <1>1, <4>2, <5>1
      <4>4. CASE ~ (j < n) /\ ~ (m < n)
        <5>1. o[j + 1] = o[m + 1]
          BY <4>1, <4>4
        <5>2. j + 1 = m + 1
          BY <1>1, <4>2, <5>1
        <5> QED BY <5>2
      <4>5. CASE j < n /\ ~ (m < n)
        <5>1. o[j] = o[m + 1]
          BY <4>1, <4>5
        <5>2. j = m + 1
          BY <1>1, <4>2, <5>1
        <5> QED BY <4>5, <5>2
      <4>6. CASE ~ (j < n) /\ m < n
        <5>1. o[j + 1] = o[m]
          BY <4>1, <4>6
        <5>2. j + 1 = m
          BY <1>1, <4>2, <5>1
        <5> QED BY <4>6, <5>2
      <4> QED BY <4>3, <4>4, <4>5, <4>6
    <3>9. ASSUME NEW j \in Ids, j # i, fl[j] # None
          PROVE  \E m \in 1..Len(base) : base[m] = j
      <4>1. PICK m \in 1..Len(o) : o[m] = j
        BY <1>1, <3>9
      <4>2. m # n
        BY <3>1, <3>9, <4>1
      <4>3. CASE m < n
        <5>1. m \in 1..(Len(o) - 1) /\ base[m] = j
          BY <1>1, <3>6, <4>1, <4>3
        <5> QED BY <3>6, <5>1
      <4>4. CASE m > n
        <5>1. m - 1 \in 1..(Len(o) - 1) /\ ~ (m - 1 < n) /\ (m - 1) + 1 = m
          BY <1>1, <4>4
        <5>2. base[m - 1] = j
          BY <3>6, <4>1, <5>1
        <5> QED BY <3>6, <5>1, <5>2
      <4> QED BY <4>2, <4>3, <4>4
    <3>10. ASSUME NEW m \in 1..Len(base)
           PROVE  base[m] # i /\ \E x \in 1..Len(o) : o[x] = base[m]
      <4>1. m \in 1..(Len(o) - 1) /\ m \in 1..Len(o) /\ m + 1 \in 1..Len(o)
        BY <1>1, <3>6
      <4>2. base[m] = IF m < n THEN o[m] ELSE o[m + 1]
        BY <3>6, <4>1
      <4>3. CASE m < n
        BY <3>1, <4>1, <4>2, <4>3
      <4>4. CASE ~ (m < n)
        <5>1. m + 1 # n
          BY <4>4
        <5> QED BY <3>1, <4>1, <4>2, <4>4, <5>1
      <4> QED BY <4>3, <4>4
    <3>11. \A j \in Ids : (j # i /\ fl[j] # None) <=> \E m \in 1..Len(base) : base[m] = j
      <4> TAKE j \in Ids
      <4>1. ASSUME j # i, fl[j] # None PROVE \E m \in 1..Len(base) : base[m] = j
        BY <3>9, <4>1
      <4>2. ASSUME NEW m \in 1..Len(base), base[m] = j PROVE j # i /\ fl[j] # None
        <5>1. j # i /\ \E x \in 1..Len(o) : o[x] = j
          BY <3>10, <4>2
        <5> QED BY <1>1, <5>1
      <4> QED BY <4>1, <4>2
    <3> QED BY <3>6, <3>7, <3>8, <3>11
  <2> QED BY <2>1, <2>2
<1>8. Len(base) \in Nat /\ \A m \in 1..Len(base) : base[m] \in Ids \ {i}
  <2>1. Len(base) \in Nat /\ \A m \in 1..Len(base) : base[m] \in Ids
    BY <1>7, LenProperties, ElementOfSeq
  <2> QED BY <1>7, <2>1
<1>9. RetainedBytes(base, nsize) = left
  <2>1. \A m \in 1..Len(base) : size[base[m]] = nsize[base[m]]
    BY <1>5, <1>8
  <2>2. base \in Seq(Ids) /\ RetainedBytes(base, size) = left
    BY <1>7
  <2>3. RetainedBytes(base, size) = RetainedBytes(base, nsize)
    BY <1>2, <1>4, <2>1, <2>2, PrefixCongruence
  <2> QED BY <2>2, <2>3
<1>10. /\ no \in Seq(Ids) /\ Len(no) = Len(base) + 1
       /\ RetainedBytes(no, nsize) = left + b
  <2>1. base \in Seq(Ids)
    BY <1>7
  <2> QED BY <1>4, <1>5, <1>9, <2>1, RetainedAppend DEF no
<1>11. no[Len(base) + 1] = i /\ \A m \in 1..Len(base) : no[m] = base[m]
  <2>1. base \in Seq(Ids)
    BY <1>7
  <2> QED BY <2>1, AppendProperties DEF no
<1>12. \A j, m \in 1..Len(no) : no[j] = no[m] => j = m
  <2> SUFFICES ASSUME NEW j \in 1..(Len(base) + 1), NEW m \in 1..(Len(base) + 1), no[j] = no[m]
               PROVE  j = m
    BY <1>10
  <2>1. CASE j \in 1..Len(base) /\ m \in 1..Len(base)
    BY <1>7, <1>11, <2>1
  <2>2. CASE j = Len(base) + 1 /\ m \in 1..Len(base)
    BY <1>8, <1>11, <2>2
  <2>3. CASE m = Len(base) + 1 /\ j \in 1..Len(base)
    BY <1>8, <1>11, <2>3
  <2>4. CASE m = Len(base) + 1 /\ j = Len(base) + 1
    BY <2>4
  <2> QED BY <1>8, <2>1, <2>2, <2>3, <2>4
<1>13. \A j \in Ids : nf[j] # None <=> \E m \in 1..Len(no) : no[m] = j
  <2> TAKE j \in Ids
  <2>1. CASE j = i
    <3>1. nf[i] # None
      BY <1>1, NoneAssumption DEF nf
    <3>2. Len(base) + 1 \in 1..Len(no)
      BY <1>8, <1>10
    <3> QED BY <1>11, <2>1, <3>1, <3>2
  <2>2. CASE j # i
    <3>1. nf[j] = fl[j]
      BY <1>1, <2>2 DEF nf
    <3>2. (\E m \in 1..Len(no) : no[m] = j) <=> \E m \in 1..Len(base) : base[m] = j
      <4>1. \A m \in 1..Len(no) : m \in 1..Len(base) \/ m = Len(base) + 1
        BY <1>8, <1>10
      <4>2. \A m \in 1..Len(base) : m \in 1..Len(no)
        BY <1>8, <1>10
      <4> QED BY <1>11, <2>2, <4>1, <4>2
    <3> QED BY <1>7, <2>2, <3>1, <3>2
  <2> QED BY <2>1, <2>2
<1>14. \A j, m \in Ids : nf[j] = nf[m] /\ nf[j] # None => j = m
  BY <1>1 DEF Ready, nf
<1>15. Ready(g, nf, no, left + b)
  BY <1>3, <1>10, <1>12, <1>13, <1>14 DEF Ready, nsize
<1> QED BY <1>15 DEF nf, no, base, left, size

-----------------------------------------------------------------------------
\* A flow that someone besides the map holds, before and after, is the same.
Frozen == \A a \in Addrs : Shared(a) /\ Shared(a)' => heap'[a] = heap[a]

\* Writers outside the lock are not disturbed by a step that leaves what they
\* hold alone.
LEMMA CallsKept ==
  ASSUME CallsOK, Frozen,
         \A w \in Writers : pc'[w] \in {"share", "copied"} =>
            /\ pc[w] \in {"share", "copied"}
            /\ target'[w] = target[w] /\ snapshot'[w] = snapshot[w] /\ before'[w] = before[w]
            /\ pc'[w] = "copied" => pc[w] = "copied" /\ detached'[w] = detached[w]
  PROVE  CallsOK'
<1> SUFFICES ASSUME NEW w \in Writers, pc'[w] \in {"share", "copied"}
             PROVE  /\ target'[w] \in Ids
                    /\ snapshot'[w] \in Addrs
                    /\ before'[w] = heap'[snapshot'[w]].bytes
                    /\ pc'[w] = "copied" => detached'[w] = heap'[snapshot'[w]]
  BY DEF CallsOK
<1>1. /\ target'[w] = target[w] /\ snapshot'[w] = snapshot[w] /\ before'[w] = before[w]
      /\ target[w] \in Ids /\ snapshot[w] \in Addrs /\ before[w] = heap[snapshot[w]].bytes
      /\ pc[w] = "copied" => detached[w] = heap[snapshot[w]]
      /\ pc'[w] = "copied" => pc[w] = "copied" /\ detached'[w] = detached[w]
  BY DEF CallsOK
<1>2. Shared(snapshot[w]) /\ Shared(snapshot[w])'
  BY <1>1 DEF Shared
<1>3. heap'[snapshot[w]] = heap[snapshot[w]]
  BY <1>1, <1>2 DEF Frozen
<1> QED BY <1>1, <1>3

\* Freeing does not touch what is shared.
LEMMA ReclaimFrozen ==
  ASSUME NEW h, \A a \in Addrs : Shared(a) => h[a] = heap[a],
         heap' = Reclaim(h, LiveIn(flows', held', snapshot'))
  PROVE  Frozen
BY DEF Frozen, Shared, Reclaim, LiveIn

LEMMA NextSeqStep ==
  ASSUME IInv, NEW p \in Producers, NextSeq(p)
  PROVE  IInv' /\ Frozen
<1>1. TypeOK'
  BY DEF NextSeq, IInv, TypeOK, settings, calls, ring
<1>2. Frozen
  BY DEF NextSeq, Frozen, ring
<1>3. CallsOK'
  BY DEF NextSeq, IInv, CallsOK, ring, calls
<1>4. Ready(heap', flows', order', totalBytes') /\ WithinLimits'
  BY DEF NextSeq, IInv, WithinLimits, ring, settings
<1> QED BY <1>1, <1>2, <1>3, <1>4 DEF IInv

\* Readers that take handles: nothing in the ring changes.
LEMMA SnapshotsStep ==
  ASSUME IInv, NEW r \in Readers, NEW S \in SUBSET Ids, Snapshots(r, S)
  PROVE  IInv' /\ Frozen
<1>1. TypeOK'
  BY DEF Snapshots, IInv, TypeOK, settings, calls, ring
<1>2. Frozen
  BY DEF Snapshots, Frozen, ring
<1>3. CallsOK'
  BY DEF Snapshots, IInv, CallsOK, ring, calls
<1>4. Ready(heap', flows', order', totalBytes') /\ WithinLimits'
  BY DEF Snapshots, IInv, WithinLimits, ring, settings
<1> QED BY <1>1, <1>2, <1>3, <1>4 DEF IInv

LEMMA DropSnapshotsStep ==
  ASSUME IInv, NEW r \in Readers, DropSnapshots(r)
  PROVE  IInv' /\ Frozen
<1>1. /\ heap' = Reclaim(heap, LiveIn(flows', held', snapshot'))
      /\ flows' = flows /\ order' = order /\ totalBytes' = totalBytes
  BY DEF DropSnapshots, calls
<1>2. Frozen
  BY <1>1, ReclaimFrozen
<1>3. CallsOK'
  BY <1>2, CallsKept DEF DropSnapshots, IInv, calls
<1>4. Ready(heap', flows', order', totalBytes')
  BY <1>1, ReclaimKeeps DEF IInv
<1>5. TypeOK'
  BY <1>1, <1>4 DEF DropSnapshots, IInv, TypeOK, Ready, settings, calls
<1>6. WithinLimits'
  BY <1>1 DEF DropSnapshots, IInv, WithinLimits, settings
<1> QED BY <1>2, <1>3, <1>4, <1>5, <1>6 DEF IInv

LEMMA UpdateMissingStep ==
  ASSUME IInv, NEW w \in Writers, NEW i \in Ids, UpdateMissing(w, i)
  PROVE  IInv' /\ Frozen
<1>1. TypeOK'
  BY DEF UpdateMissing, IInv, TypeOK, settings, ring
<1>2. Frozen
  BY DEF UpdateMissing, Frozen, ring
<1>3. CallsOK'
  BY <1>2, CallsKept DEF UpdateMissing, IInv, TypeOK
<1>4. Ready(heap', flows', order', totalBytes') /\ WithinLimits'
  BY DEF UpdateMissing, IInv, WithinLimits, ring, settings
<1> QED BY <1>1, <1>2, <1>3, <1>4 DEF IInv

LEMMA UpdateShareStep ==
  ASSUME IInv, NEW w \in Writers, NEW i \in Ids, UpdateShare(w, i)
  PROVE  IInv' /\ Frozen
<1>1. flows[i] \in Addrs /\ heap[flows[i]] \in Flow
  BY DEF UpdateShare, IInv, TypeOK
<1>2. heap[flows[i]].bytes \in Nat
  BY <1>1 DEF Flow
<1>3. TypeOK'
  BY <1>1, <1>2 DEF UpdateShare, IInv, TypeOK, settings, ring
<1>4. Frozen
  BY DEF UpdateShare, Frozen, ring
<1>5. CallsOK'
  BY <1>1 DEF UpdateShare, IInv, CallsOK, TypeOK, ring
<1>6. Ready(heap', flows', order', totalBytes') /\ WithinLimits'
  BY DEF UpdateShare, IInv, WithinLimits, ring, settings
<1> QED BY <1>3, <1>4, <1>5, <1>6 DEF IInv

LEMMA DetachStep ==
  ASSUME IInv, NEW w \in Writers, Detach(w)
  PROVE  IInv' /\ Frozen
<1>1. snapshot[w] \in Addrs /\ heap[snapshot[w]] \in Flow
  BY DEF Detach, IInv, CallsOK, TypeOK
<1>2. TypeOK'
  BY <1>1 DEF Detach, IInv, TypeOK, settings, ring
<1>3. Frozen
  BY DEF Detach, Frozen, ring
<1>4. CallsOK'
  BY DEF Detach, IInv, CallsOK, TypeOK, ring
<1>5. Ready(heap', flows', order', totalBytes') /\ WithinLimits'
  BY DEF Detach, IInv, WithinLimits, ring, settings
<1> QED BY <1>2, <1>3, <1>4, <1>5 DEF IInv

LEMMA RetryStep ==
  ASSUME IInv, NEW w \in Writers, Retry(w)
  PROVE  IInv' /\ Frozen
<1>1. /\ heap' = Reclaim(heap, LiveIn(flows', held', snapshot'))
      /\ flows' = flows /\ order' = order /\ totalBytes' = totalBytes
  BY DEF Retry
<1>2. Frozen
  BY <1>1, ReclaimFrozen
<1>3. CallsOK'
  BY <1>2, CallsKept DEF Retry, IInv, TypeOK
<1>4. Ready(heap', flows', order', totalBytes')
  BY <1>1, ReclaimKeeps DEF IInv
<1>5. TypeOK'
  BY <1>1, <1>4 DEF Retry, IInv, TypeOK, Ready, settings, Blank, Flow
<1>6. WithinLimits'
  BY <1>1 DEF Retry, IInv, WithinLimits, settings
<1> QED BY <1>2, <1>3, <1>4, <1>5, <1>6 DEF IInv

-----------------------------------------------------------------------------
\* A freshly allocated address is one that nothing points to.
LEMMA FreshAddress ==
  ASSUME IInv, NEW a \in Allocate(Addrs \ Live)
  PROVE  a \in Addrs /\ ~ Shared(a) /\ \A i \in Ids : flows[i] # a
<1>1. a \in Addrs \ Live
  <2>1. Addrs \ Live \in SUBSET Addrs
    OBVIOUS
  <2> QED BY <2>1, AllocateAssumption
<1> QED BY <1>1 DEF Live, LiveIn, Shared

\* What insert hands to evict_if_needed: the map with the new flow at a fresh
\* address, the queue with its id last, and the counter for them.
LEMMA InsertReady ==
  ASSUME IInv, NEW p \in Producers, NEW i \in Ids, NEW b \in Sizes, Insert(p, i, b)
  PROVE  \E a \in Addrs :
           LET new == [seq |-> ticket[p], bytes |-> b, edits |-> {}]
               h == [heap EXCEPT ![a] = new]
               fl == [flows EXCEPT ![i] = a]
               o == Append(IF flows[i] = None THEN order ELSE Without(order, i), i)
               t == SaturatingSub(totalBytes, SizeOf(heap, flows)[i]) + b
           IN  /\ ~ Shared(a)
               /\ \A j \in Ids : flows[j] # a
               /\ new \in Flow
               /\ Ready(h, fl, o, t)
               /\ Settle(h, fl, o, t, capacity, maxTotalBytes)
               /\ heap' = Reclaim(h, LiveIn(flows', held, snapshot))
<1> DEFINE new == [seq |-> ticket[p], bytes |-> b, edits |-> {}]
           o == Append(IF flows[i] = None THEN order ELSE Without(order, i), i)
           t == SaturatingSub(totalBytes, SizeOf(heap, flows)[i])
<1>1. PICK a \in Allocate(Addrs \ Live) :
        /\ Settle([heap EXCEPT ![a] = new], [flows EXCEPT ![i] = a], o, t + b,
                  capacity, maxTotalBytes)
        /\ heap' = Reclaim([heap EXCEPT ![a] = new], LiveIn(flows', held, snapshot))
  BY DEF Insert
<1>2. a \in Addrs /\ ~ Shared(a) /\ \A j \in Ids : flows[j] # a
  BY FreshAddress
<1> DEFINE h == [heap EXCEPT ![a] = new]
<1>3. b \in Nat /\ new \in Flow /\ h \in [Addrs -> Flow] /\ h[a].bytes = b
  BY <1>2, SizesAssumption DEF IInv, TypeOK, Flow
<1>4. \A c \in Addrs : c # a => h[c] = heap[c]
  BY DEF IInv, TypeOK
<1>5. flows \in [Ids -> Addrs \union {None}]
  BY DEF IInv, TypeOK
<1> HIDE DEF h
<1>6. \A j \in Ids : flows[j] # None => h[flows[j]] = heap[flows[j]]
  BY <1>2, <1>4, <1>5
<1> HIDE DEF new
<1>7. Ready(h, [flows EXCEPT ![i] = a], o, t + b)
  BY <1>2, <1>3, <1>6, ReadyInserted DEF IInv
<1> HIDE DEF o, t
<1> QED BY <1>1, <1>2, <1>3, <1>7 DEF h, o, t, new

LEMMA InsertStep ==
  ASSUME IInv, NEW p \in Producers, NEW i \in Ids, NEW b \in Sizes, Insert(p, i, b)
  PROVE  IInv' /\ Frozen
<1> DEFINE new == [seq |-> ticket[p], bytes |-> b, edits |-> {}]
           o == Append(IF flows[i] = None THEN order ELSE Without(order, i), i)
           t == SaturatingSub(totalBytes, SizeOf(heap, flows)[i]) + b
<1>1. PICK a \in Addrs :
        /\ ~ Shared(a)
        /\ Ready([heap EXCEPT ![a] = new], [flows EXCEPT ![i] = a], o, t)
        /\ Settle([heap EXCEPT ![a] = new], [flows EXCEPT ![i] = a], o, t, capacity, maxTotalBytes)
        /\ heap' = Reclaim([heap EXCEPT ![a] = new], LiveIn(flows', held, snapshot))
  BY InsertReady
<1> HIDE DEF new, o, t
<1>2. \A c \in Addrs : Shared(c) => [heap EXCEPT ![a] = new][c] = heap[c]
  BY <1>1 DEF IInv, TypeOK
<1>3. capacity \in Nat /\ maxTotalBytes \in Nat
  BY DEF IInv, TypeOK
<1>4. /\ Ready(heap', flows', order', totalBytes')
      /\ totalBytes' \in Nat
      /\ Len(order') <= capacity /\ totalBytes' <= maxTotalBytes
  BY <1>1, <1>3, SettleAndReclaim
<1>5. /\ UNCHANGED <<settings, nextSeq, held, calls>>
      /\ ticket' = [ticket EXCEPT ![p] = 0]
  BY DEF Insert
<1>6. Frozen
  BY <1>1, <1>2, <1>5, ReclaimFrozen DEF calls
<1>7. CallsOK'
  BY <1>5, <1>6, CallsKept DEF IInv, calls
<1>8. TypeOK'
  BY <1>4, <1>5 DEF IInv, TypeOK, Ready, settings, calls
<1>9. WithinLimits'
  BY <1>4, <1>5 DEF WithinLimits, settings
<1> QED BY <1>4, <1>6, <1>7, <1>8, <1>9 DEF IInv

\* What an update in place hands to evict_if_needed.
LEMMA UpdateInPlaceReady ==
  ASSUME IInv, NEW w \in Writers, NEW i \in Ids, NEW b \in Sizes, UpdateInPlace(w, i, b)
  PROVE  LET new == Edited(heap[flows[i]], w, b)
             h == [heap EXCEPT ![flows[i]] = new]
             t == SaturatingSub(totalBytes, heap[flows[i]].bytes) + b
         IN  /\ flows[i] \in Addrs
             /\ new \in Flow
             /\ \A j \in Ids \ {i} : flows[j] # flows[i]
             /\ Ready(h, flows, order, t)
             /\ Settle(h, flows, order, t, capacity, maxTotalBytes)
             /\ heap' = Reclaim(h, LiveIn(flows', held, snapshot))
<1> DEFINE a == flows[i]
           new == Edited(heap[a], w, b)
           h == [heap EXCEPT ![a] = new]
           t == SaturatingSub(totalBytes, heap[a].bytes) + b
<1>1. /\ a # None
      /\ Settle(h, flows, order, t, capacity, maxTotalBytes)
      /\ heap' = Reclaim(h, LiveIn(flows', held, snapshot))
  BY DEF UpdateInPlace
<1>2. heap \in [Addrs -> Flow] /\ flows \in [Ids -> Addrs \union {None}] /\ a \in Addrs
  BY <1>1 DEF IInv, TypeOK
<1>3. b \in Nat /\ new \in Flow /\ h \in [Addrs -> Flow] /\ h[a].bytes = b
  <2>1. heap[a] \in Flow
    BY <1>2
  <2> QED BY <1>2, <2>1, SizesAssumption DEF Edited, Flow
<1>4. \A c \in Addrs : c # a => h[c] = heap[c]
  BY <1>2
<1>5. [flows EXCEPT ![i] = a] = flows
  BY <1>2
<1>6. \A j \in Ids \ {i} : flows[j] # a
  BY <1>1 DEF IInv, Ready
<1> HIDE DEF h, new
<1>7. \A j \in Ids \ {i} : flows[j] # None => h[flows[j]] = heap[flows[j]]
  BY <1>2, <1>4, <1>6
<1>8. Ready(h, flows, order, t)
  <2>1. Ready(h, [flows EXCEPT ![i] = a], order, t)
    BY <1>1, <1>2, <1>3, <1>6, <1>7, ReadyChanged DEF IInv
  <2> QED BY <1>5, <2>1
<1> HIDE DEF t
<1> QED BY <1>1, <1>2, <1>3, <1>6, <1>8 DEF h, new, t

LEMMA UpdateInPlaceStep ==
  ASSUME IInv, NEW w \in Writers, NEW i \in Ids, NEW b \in Sizes, UpdateInPlace(w, i, b)
  PROVE  IInv' /\ Frozen
<1> DEFINE h == [heap EXCEPT ![flows[i]] = Edited(heap[flows[i]], w, b)]
           t == SaturatingSub(totalBytes, heap[flows[i]].bytes) + b
<1>1. /\ Ready(h, flows, order, t)
      /\ Settle(h, flows, order, t, capacity, maxTotalBytes)
      /\ heap' = Reclaim(h, LiveIn(flows', held, snapshot))
  BY UpdateInPlaceReady
<1>2. /\ ~ Shared(flows[i]) /\ pc[w] \in {"start", "retry"}
      /\ pc' = [pc EXCEPT ![w] = IF flows'[i] = None THEN "none" ELSE "some"]
      /\ UNCHANGED <<settings, nextSeq, ticket, held, target, snapshot, before, detached>>
  BY DEF UpdateInPlace, Calling, Returned
<1>3. \A c \in Addrs : Shared(c) => h[c] = heap[c]
  BY <1>2 DEF IInv, TypeOK
<1> HIDE DEF h, t
<1>4. capacity \in Nat /\ maxTotalBytes \in Nat
  BY DEF IInv, TypeOK
<1>5. /\ Ready(heap', flows', order', totalBytes')
      /\ totalBytes' \in Nat
      /\ Len(order') <= capacity /\ totalBytes' <= maxTotalBytes
  BY <1>1, <1>4, SettleAndReclaim
<1>6. Frozen
  BY <1>1, <1>2, <1>3, ReclaimFrozen
<1>7. CallsOK'
  BY <1>2, <1>6, CallsKept DEF IInv, TypeOK
<1>8. TypeOK'
  BY <1>2, <1>5 DEF IInv, TypeOK, Ready, settings
<1>9. WithinLimits'
  BY <1>2, <1>5 DEF WithinLimits, settings
<1> QED BY <1>5, <1>6, <1>7, <1>8, <1>9 DEF IInv

\* What the installation of a copy hands to evict_if_needed: the copy is of
\* the flow that is stored, so its bytes are those the counter holds for it.
LEMMA InstallReady ==
  ASSUME IInv, NEW w \in Writers, NEW b \in Sizes, Install(w, b)
  PROVE  /\ target[w] \in Ids
         /\ flows[target[w]] \in Addrs
         /\ detached[w] = heap[flows[target[w]]]
         /\ \E a \in Addrs :
              LET new == Edited(detached[w], w, b)
                  h == [heap EXCEPT ![a] = new]
                  fl == [flows EXCEPT ![target[w]] = a]
                  t == SaturatingSub(totalBytes, before[w]) + b
              IN  /\ ~ Shared(a)
                  /\ \A j \in Ids : flows[j] # a
                  /\ new \in Flow
                  /\ Ready(h, fl, order, t)
                  /\ Settle(h, fl, order, t, capacity, maxTotalBytes)
                  /\ heap' = Reclaim(h, LiveIn(flows', held, snapshot'))
<1> DEFINE i == target[w]
           new == Edited(detached[w], w, b)
           t == SaturatingSub(totalBytes, before[w]) + b
<1>1. PICK a \in Allocate(Addrs \ Live) :
        /\ Settle([heap EXCEPT ![a] = new], [flows EXCEPT ![i] = a], order, t,
                  capacity, maxTotalBytes)
        /\ heap' = Reclaim([heap EXCEPT ![a] = new], LiveIn(flows', held, snapshot'))
  BY DEF Install
<1>2. a \in Addrs /\ ~ Shared(a) /\ \A j \in Ids : flows[j] # a
  BY FreshAddress
<1>3. /\ i \in Ids /\ flows[i] \in Addrs /\ before[w] = heap[flows[i]].bytes
      /\ detached[w] = heap[flows[i]]
  BY DEF Install, SameHandle, IInv, CallsOK
<1> DEFINE h == [heap EXCEPT ![a] = new]
<1>4. b \in Nat /\ new \in Flow /\ h \in [Addrs -> Flow] /\ h[a].bytes = b
  <2>1. detached[w] \in Flow /\ heap \in [Addrs -> Flow]
    BY DEF IInv, TypeOK
  <2>2. new \in Flow /\ new.bytes = b
    BY <2>1, SizesAssumption DEF Edited, Flow
  <2> HIDE DEF new
  <2> QED BY <1>2, <2>1, <2>2, SizesAssumption
<1>5. \A c \in Addrs : c # a => h[c] = heap[c]
  BY DEF IInv, TypeOK
<1>6. flows \in [Ids -> Addrs \union {None}]
  BY DEF IInv, TypeOK
<1> HIDE DEF h, new, i
<1>7. \A j \in Ids : flows[j] # None => h[flows[j]] = heap[flows[j]]
  BY <1>2, <1>5, <1>6
<1>8. Ready(h, [flows EXCEPT ![i] = a], order, t)
  <2>1. flows[i] # None
    BY <1>3, NoneAssumption
  <2>2. Ready(h, [flows EXCEPT ![i] = a], order,
              SaturatingSub(totalBytes, heap[flows[i]].bytes) + b)
    BY <1>2, <1>3, <1>4, <1>7, <2>1, ReadyChanged DEF IInv
  <2> QED BY <1>3, <2>2
<1> HIDE DEF t
<1> QED BY <1>1, <1>2, <1>3, <1>4, <1>8 DEF h, new, i, t

LEMMA InstallStep ==
  ASSUME IInv, NEW w \in Writers, NEW b \in Sizes, Install(w, b)
  PROVE  IInv' /\ Frozen
<1> DEFINE i == target[w]
           new == Edited(detached[w], w, b)
           t == SaturatingSub(totalBytes, before[w]) + b
<1>1. PICK a \in Addrs :
        /\ ~ Shared(a)
        /\ Ready([heap EXCEPT ![a] = new], [flows EXCEPT ![i] = a], order, t)
        /\ Settle([heap EXCEPT ![a] = new], [flows EXCEPT ![i] = a], order, t, capacity, maxTotalBytes)
        /\ heap' = Reclaim([heap EXCEPT ![a] = new], LiveIn(flows', held, snapshot'))
  BY InstallReady
<1>2. /\ snapshot' = [snapshot EXCEPT ![w] = None]
      /\ before' = [before EXCEPT ![w] = 0]
      /\ detached' = [detached EXCEPT ![w] = Blank]
      /\ pc' = [pc EXCEPT ![w] = IF flows'[i] = None THEN "none" ELSE "some"]
      /\ UNCHANGED <<settings, nextSeq, ticket, held, target>>
  BY DEF Install, Returned
<1> HIDE DEF new, t, i
<1>3. \A c \in Addrs : Shared(c) => [heap EXCEPT ![a] = new][c] = heap[c]
  BY <1>1 DEF IInv, TypeOK
<1>4. capacity \in Nat /\ maxTotalBytes \in Nat
  BY DEF IInv, TypeOK
<1>5. /\ Ready(heap', flows', order', totalBytes')
      /\ totalBytes' \in Nat
      /\ Len(order') <= capacity /\ totalBytes' <= maxTotalBytes
  BY <1>1, <1>4, SettleAndReclaim
<1>6. Frozen
  BY <1>1, <1>2, <1>3, ReclaimFrozen
<1>7. CallsOK'
  BY <1>2, <1>6, CallsKept DEF IInv, TypeOK
<1>8. TypeOK'
  BY <1>2, <1>5 DEF IInv, TypeOK, Ready, settings, Blank, Flow
<1>9. WithinLimits'
  BY <1>2, <1>5 DEF WithinLimits, settings
<1> QED BY <1>5, <1>6, <1>7, <1>8, <1>9 DEF IInv

\* A ring with nothing in it retains nothing.
LEMMA EmptyRing ==
  ASSUME NEW h \in [Addrs -> Flow]
  PROVE  Ready(h, [i \in Ids |-> None], <<>>, 0)
<1> DEFINE fl == [i \in Ids |-> None]
<1>1. fl \in [Ids -> Addrs \union {None}] /\ <<>> \in Seq(Ids) /\ Len(<<>>) = 0
  BY EmptySeq
<1>2. SizeOf(h, fl) \in [Ids -> Nat]
  BY <1>1, SizeOfType
<1>3. RetainedBytes(<<>>, SizeOf(h, fl)) = 0
  BY <1>1, <1>2, PrefixValues DEF RetainedBytes
<1>4. \A i \in Ids : fl[i] = None
  OBVIOUS
<1> HIDE DEF fl
<1>5. Ready(h, fl, <<>>, 0)
  BY <1>1, <1>3, <1>4 DEF Ready
<1> QED BY <1>5 DEF fl

LEMMA ClearStep ==
  ASSUME IInv, Clear
  PROVE  IInv' /\ Frozen
<1>1. /\ heap' = Reclaim(heap, LiveIn(flows', held', snapshot'))
      /\ flows' = [i \in Ids |-> None] /\ order' = <<>> /\ totalBytes' = 0
      /\ UNCHANGED <<settings, nextSeq, ticket, held, calls>>
  BY DEF Clear, calls
<1>2. Frozen
  BY <1>1, ReclaimFrozen
<1>3. CallsOK'
  BY <1>1, <1>2, CallsKept DEF IInv, calls
<1>4. heap' \in [Addrs -> Flow]
  BY <1>1 DEF IInv, TypeOK, Reclaim, Blank, Flow
<1>5. Ready(heap', flows', order', totalBytes')
  BY <1>1, <1>4, EmptyRing
<1>6. TypeOK'
  BY <1>1, <1>5 DEF IInv, TypeOK, Ready, settings, calls
<1>7. WithinLimits'
  BY <1>1, EmptySeq DEF IInv, TypeOK, WithinLimits, settings
<1> QED BY <1>2, <1>3, <1>5, <1>6, <1>7 DEF IInv

LEMMA SetCapacityStep ==
  ASSUME IInv, NEW c \in Capacities, SetCapacity(c)
  PROVE  IInv' /\ Frozen
<1>1. /\ capacity' = AtLeastOne(c)
      /\ Settle(heap, flows, order, totalBytes, AtLeastOne(c), maxTotalBytes)
      /\ heap' = Reclaim(heap, LiveIn(flows', held, snapshot))
      /\ UNCHANGED <<maxTotalBytes, nextSeq, ticket, held, calls>>
  BY DEF SetCapacity
<1>2. AtLeastOne(c) \in Nat \ {0} /\ maxTotalBytes \in Nat
  BY LimitsAssumption DEF AtLeastOne, IInv, TypeOK
<1>3. /\ Ready(heap', flows', order', totalBytes')
      /\ totalBytes' \in Nat
      /\ Len(order') <= AtLeastOne(c) /\ totalBytes' <= maxTotalBytes
  BY <1>1, <1>2, SettleAndReclaim DEF IInv
<1>4. Frozen
  BY <1>1, ReclaimFrozen DEF calls
<1>5. CallsOK'
  BY <1>1, <1>4, CallsKept DEF IInv, calls
<1>6. TypeOK'
  BY <1>1, <1>2, <1>3 DEF IInv, TypeOK, Ready, calls
<1>7. WithinLimits'
  BY <1>1, <1>3 DEF WithinLimits
<1> QED BY <1>3, <1>4, <1>5, <1>6, <1>7 DEF IInv

LEMMA SetMaxTotalBytesStep ==
  ASSUME IInv, NEW m \in Budgets, SetMaxTotalBytes(m)
  PROVE  IInv' /\ Frozen
<1>1. /\ maxTotalBytes' = m
      /\ Settle(heap, flows, order, totalBytes, capacity, m)
      /\ heap' = Reclaim(heap, LiveIn(flows', held, snapshot))
      /\ UNCHANGED <<capacity, nextSeq, ticket, held, calls>>
  BY DEF SetMaxTotalBytes
<1>2. capacity \in Nat /\ m \in Nat
  BY LimitsAssumption DEF IInv, TypeOK
<1>3. /\ Ready(heap', flows', order', totalBytes')
      /\ totalBytes' \in Nat
      /\ Len(order') <= capacity /\ totalBytes' <= m
  BY <1>1, <1>2, SettleAndReclaim DEF IInv
<1>4. Frozen
  BY <1>1, ReclaimFrozen DEF calls
<1>5. CallsOK'
  BY <1>1, <1>4, CallsKept DEF IInv, calls
<1>6. TypeOK'
  BY <1>1, <1>2, <1>3 DEF IInv, TypeOK, Ready, calls
<1>7. WithinLimits'
  BY <1>1, <1>3 DEF WithinLimits
<1> QED BY <1>3, <1>4, <1>5, <1>6, <1>7 DEF IInv

-----------------------------------------------------------------------------
LEMMA InitIInv == Init => IInv
<1> SUFFICES ASSUME Init PROVE IInv
  OBVIOUS
<1>1. heap \in [Addrs -> Flow]
  BY DEF Init, Blank, Flow
<1>2. Ready(heap, flows, order, totalBytes)
  BY <1>1, EmptyRing DEF Init
<1>3. capacity \in Nat \ {0}
  <2>1. PICK c \in Capacities : capacity = AtLeastOne(c)
    BY DEF Init
  <2> QED BY <2>1, LimitsAssumption DEF AtLeastOne
<1>4. TypeOK
  BY <1>1, <1>2, <1>3, LimitsAssumption DEF Init, TypeOK, Ready, Blank, Flow
<1>5. WithinLimits
  BY <1>3, LimitsAssumption, EmptySeq DEF Init, WithinLimits
<1>6. CallsOK
  BY DEF Init, CallsOK
<1> QED BY <1>2, <1>4, <1>5, <1>6 DEF IInv

\* The invariant is inductive, and every step leaves shared flows alone.
LEMMA StepIInv == IInv /\ [Next]_vars => IInv' /\ Frozen
<1> SUFFICES ASSUME IInv, [Next]_vars PROVE IInv' /\ Frozen
  OBVIOUS
<1>1. CASE \E p \in Producers : NextSeq(p)
  BY <1>1, NextSeqStep
<1>2. CASE \E p \in Producers, i \in Ids, b \in Sizes : Insert(p, i, b)
  BY <1>2, InsertStep
<1>3. CASE \E w \in Writers : UpdateStep(w)
  <2>1. PICK w \in Writers : UpdateStep(w)
    BY <1>3
  <2>2. CASE \E i \in Ids : UpdateMissing(w, i)
    BY <2>2, UpdateMissingStep
  <2>3. CASE \E i \in Ids, b \in Sizes : UpdateInPlace(w, i, b)
    BY <2>3, UpdateInPlaceStep
  <2>4. CASE \E i \in Ids : UpdateShare(w, i)
    BY <2>4, UpdateShareStep
  <2>5. CASE Detach(w)
    BY <2>5, DetachStep
  <2>6. CASE \E b \in Sizes : Install(w, b)
    BY <2>6, InstallStep
  <2>7. CASE Retry(w)
    BY <2>7, RetryStep
  <2> QED BY <2>1, <2>2, <2>3, <2>4, <2>5, <2>6, <2>7 DEF UpdateStep
<1>4. CASE \E r \in Readers, S \in SUBSET Ids : Snapshots(r, S)
  BY <1>4, SnapshotsStep
<1>5. CASE \E r \in Readers : DropSnapshots(r)
  BY <1>5, DropSnapshotsStep
<1>6. CASE Clear
  BY <1>6, ClearStep
<1>7. CASE \E c \in Capacities : SetCapacity(c)
  BY <1>7, SetCapacityStep
<1>8. CASE \E m \in Budgets : SetMaxTotalBytes(m)
  BY <1>8, SetMaxTotalBytesStep
<1>9. CASE UNCHANGED vars
  <2>1. UNCHANGED <<heap, flows, order, totalBytes, settings, nextSeq, ticket, held, calls>>
    BY <1>9 DEF vars, ring
  <2>2. TypeOK'
    BY <2>1 DEF IInv, TypeOK, settings, calls
  <2>3. Frozen
    BY <2>1 DEF Frozen
  <2>4. CallsOK'
    BY <2>1 DEF IInv, CallsOK, calls
  <2>5. Ready(heap', flows', order', totalBytes') /\ WithinLimits'
    BY <2>1 DEF IInv, WithinLimits, settings
  <2> QED BY <2>2, <2>3, <2>4, <2>5 DEF IInv
<1> QED BY <1>1, <1>2, <1>3, <1>4, <1>5, <1>6, <1>7, <1>8, <1>9 DEF Next

LEMMA Invariance == Spec => []IInv
<1>1. Init => IInv
  BY InitIInv
<1>2. IInv /\ [Next]_vars => IInv'
  BY StepIInv
<1> QED BY <1>1, <1>2, PTL DEF Spec

\* Every variable of the store stays in its range.
THEOREM TypeCorrect == Spec => []TypeOK
<1>1. IInv => TypeOK
  BY DEF IInv
<1> QED BY <1>1, Invariance, PTL

\* The queue and the map always hold the same ids, each once.
THEOREM OrderIsExact == Spec => []OrderExact
<1>1. IInv => OrderExact
  BY DEF IInv, Ready, OrderExact
<1> QED BY <1>1, Invariance, PTL

\* total_bytes never drifts from the bytes the stored flows retain.
THEOREM AccountingIsExact == Spec => []AccountingExact
<1>1. IInv => AccountingExact
  BY DEF IInv, Ready, AccountingExact
<1> QED BY <1>1, Invariance, PTL

\* Between critical sections the store is within its capacity and its budget.
THEOREM LimitsHold == Spec => []WithinLimits
<1>1. IInv => WithinLimits
  BY DEF IInv
<1> QED BY <1>1, Invariance, PTL

\* No step changes a flow under a reader that keeps its handle to it.
THEOREM SnapshotsStayFrozen == Spec => SnapshotsFrozen
<1> DEFINE Kept == \A r \in Readers, i \in Ids :
                     held[r][i] # None /\ held'[r][i] = held[r][i]
                       => heap'[held[r][i]] = heap[held[r][i]]
<1>1. IInv /\ Frozen => Kept
  <2> SUFFICES ASSUME IInv, Frozen, NEW r \in Readers, NEW i \in Ids,
                      held[r][i] # None, held'[r][i] = held[r][i]
               PROVE  heap'[held[r][i]] = heap[held[r][i]]
    OBVIOUS
  <2>1. held[r][i] \in Addrs
    BY DEF IInv, TypeOK
  <2>2. Shared(held[r][i]) /\ Shared(held[r][i])'
    BY DEF Shared
  <2> QED BY <2>1, <2>2 DEF Frozen
<1>2. IInv /\ [Next]_vars => [Kept]_vars
  BY <1>1, StepIInv
<1>3. Spec => [][Kept]_vars
  BY <1>2, Invariance, PTL DEF Spec
<1> QED BY <1>3 DEF SnapshotsFrozen

-----------------------------------------------------------------------------
\* FlowStore implements AtomicFlowStore: read through its handles, the store
\* holds values, and each of its steps is one operation of the abstract store
\* or none.  Looking a flow up, copying it outside the lock and starting over
\* are invisible; the update takes effect when it edits the flow in place or
\* installs its copy.

\* The flows that map fl holds, read over heap h.
Value(h, fl) == [i \in Ids |-> IF fl[i] = None THEN None ELSE h[fl[i]]]

Outcome == [w \in Writers |-> IF pc[w] \in {"some", "none"} THEN pc[w] ELSE "running"]
View == [r \in Readers |-> ValueIn(held[r])]

\* The operators on queues that both specifications use are the same ones.
LEMMA SameOperators ==
  ASSUME NEW o, NEW size, NEW total, NEW cap, NEW max, NEW k, NEW i, NEW c
  PROVE  /\ Atomic!Popped(o, size, total, cap, max) = Popped(o, size, total, cap, max)
         /\ Atomic!RetainedBytes(o, size) = RetainedBytes(o, size)
         /\ Atomic!Newest(o, k) = Newest(o, k)
         /\ Atomic!Oldest(o, k) = Oldest(o, k)
         /\ Atomic!Without(o, i) = Without(o, i)
         /\ Atomic!AtLeastOne(c) = AtLeastOne(c)
<1>1. Atomic!Popped(o, size, total, cap, max) = Popped(o, size, total, cap, max)
  BY DEF Atomic!Popped, Popped, Atomic!Min, Min, Atomic!Settled, Settled,
         Atomic!LeftAfter, LeftAfter, Atomic!SaturatingSub, SaturatingSub,
         Atomic!Prefix, Prefix
<1>2. Atomic!RetainedBytes(o, size) = RetainedBytes(o, size)
  BY DEF Atomic!RetainedBytes, RetainedBytes, Atomic!Prefix, Prefix
<1>3. Atomic!Newest(o, k) = Newest(o, k) /\ Atomic!Oldest(o, k) = Oldest(o, k)
  BY DEF Atomic!Newest, Newest, Atomic!Oldest, Oldest
<1>4. Atomic!Without(o, i) = Without(o, i)
  BY DEF Atomic!Without, Without
<1>5. Atomic!AtLeastOne(c) = AtLeastOne(c)
  BY DEF Atomic!AtLeastOne, AtLeastOne
<1> QED BY <1>1, <1>2, <1>3, <1>4, <1>5

\* evict_if_needed, which counts down the running total, keeps the flows the
\* abstract store keeps, which adds up what is there.
LEMMA SettleImplementsKeep ==
  ASSUME NEW h, NEW fl, NEW o, NEW t, NEW hd, NEW sn,
         NEW cap \in Nat, NEW max \in Nat,
         Ready(h, fl, o, t), Settle(h, fl, o, t, cap, max),
         heap' = Reclaim(h, LiveIn(flows', hd, sn))
  PROVE  Atomic!Keep(Value(h, fl), o, cap, max)
<1> DEFINE s == Value(h, fl)
           size == SizeOf(h, fl)
           k == Popped(o, size, t, cap, max)
<1>1. /\ h \in [Addrs -> Flow] /\ fl \in [Ids -> Addrs \union {None}]
      /\ t = RetainedBytes(o, size)
  BY DEF Ready
<1>2. Atomic!SizeOf(s) = size
  <2>1. \A i \in Ids : (s[i] = None <=> fl[i] = None) /\ (fl[i] # None => s[i] = h[fl[i]])
    BY <1>1, NoneAssumption DEF Value
  <2> HIDE DEF s
  <2> QED BY <2>1 DEF Atomic!SizeOf, SizeOf
<1>3. /\ order' = Newest(o, k)
      /\ flows' = [i \in Ids |-> IF i \in Oldest(o, k) THEN None ELSE fl[i]]
  BY DEF Settle
<1> HIDE DEF size, k
<1>4. \A i \in Ids : flows'[i] # None => heap'[flows'[i]] = h[flows'[i]]
  BY <1>1, <1>3 DEF Reclaim, LiveIn
<1>5. ValueIn(flows)' = [i \in Ids |-> IF i \in Oldest(o, k) THEN None ELSE s[i]]
  BY <1>3, <1>4 DEF ValueIn, Value
<1> HIDE DEF s
<1>6. Atomic!Popped(o, Atomic!SizeOf(s), Atomic!RetainedBytes(o, Atomic!SizeOf(s)), cap, max) = k
  BY <1>1, <1>2, SameOperators DEF k
<1>7. Atomic!Keep(s, o, cap, max)
  BY <1>3, <1>5, <1>6, SameOperators DEF Atomic!Keep
<1> QED BY <1>7 DEF s

\* A step that leaves a reader's handles alone leaves its view alone.
LEMMA ViewKept ==
  ASSUME IInv, Frozen, NEW r \in Readers, held'[r] = held[r]
  PROVE  ValueIn(held[r])' = ValueIn(held[r])
<1>1. \A i \in Ids : held[r][i] # None => heap'[held[r][i]] = heap[held[r][i]]
  <2> SUFFICES ASSUME NEW i \in Ids, held[r][i] # None
               PROVE  heap'[held[r][i]] = heap[held[r][i]]
    OBVIOUS
  <2>1. held[r][i] \in Addrs
    BY DEF IInv, TypeOK
  <2>2. Shared(held[r][i]) /\ Shared(held[r][i])'
    BY DEF Shared
  <2> QED BY <2>1, <2>2 DEF Frozen
<1> QED BY <1>1 DEF ValueIn

LEMMA ViewsKept ==
  ASSUME IInv, Frozen, held' = held
  PROVE  View' = View
<1>1. \A r \in Readers : ValueIn(held[r])' = ValueIn(held[r])
  BY ViewKept
<1> QED BY <1>1 DEF View

LEMMA StoredValue ==
  ASSUME IInv, NEW i \in Ids
  PROVE  /\ ValueIn(flows) = Value(heap, flows)
         /\ ValueIn(flows)[i] = None <=> flows[i] = None
         /\ flows[i] # None => ValueIn(flows)[i] = heap[flows[i]]
BY NoneAssumption DEF ValueIn, Value, IInv, TypeOK

-----------------------------------------------------------------------------
LEMMA InitImplements == Init => Atomic!Init
<1> SUFFICES ASSUME Init PROVE Atomic!Init
  OBVIOUS
<1>1. ValueIn(flows) = [i \in Ids |-> None] /\ View = [r \in Readers |-> [i \in Ids |-> None]]
  BY DEF Init, ValueIn, View
<1>2. Outcome = [w \in Writers |-> "running"]
  BY DEF Init, Outcome
<1>3. capacity \in {Atomic!AtLeastOne(c) : c \in Capacities}
  BY DEF Init, AtLeastOne, Atomic!AtLeastOne
<1> QED BY <1>1, <1>2, <1>3 DEF Init, Atomic!Init, View, Outcome

LEMMA NextSeqImplements ==
  ASSUME IInv, NEW p \in Producers, NextSeq(p)
  PROVE  Atomic!NextSeq(p)
<1>1. View' = View
  BY NextSeqStep, ViewsKept DEF NextSeq
<1>2. Outcome' = Outcome /\ ValueIn(flows)' = ValueIn(flows)
  BY DEF NextSeq, ring, calls, Outcome, ValueIn
<1> QED BY <1>1, <1>2 DEF NextSeq, ring, settings, Atomic!NextSeq, View, Outcome

LEMMA InsertImplements ==
  ASSUME IInv, NEW p \in Producers, NEW i \in Ids, NEW b \in Sizes, Insert(p, i, b)
  PROVE  Atomic!Insert(p, i, b)
<1> DEFINE new == [seq |-> ticket[p], bytes |-> b, edits |-> {}]
           o == Append(IF flows[i] = None THEN order ELSE Without(order, i), i)
           t == SaturatingSub(totalBytes, SizeOf(heap, flows)[i]) + b
<1>1. PICK a \in Addrs :
        /\ \A j \in Ids : flows[j] # a
        /\ Ready([heap EXCEPT ![a] = new], [flows EXCEPT ![i] = a], o, t)
        /\ Settle([heap EXCEPT ![a] = new], [flows EXCEPT ![i] = a], o, t, capacity, maxTotalBytes)
        /\ heap' = Reclaim([heap EXCEPT ![a] = new], LiveIn(flows', held, snapshot))
  BY InsertReady
<1>2. Value([heap EXCEPT ![a] = new], [flows EXCEPT ![i] = a])
        = [ValueIn(flows) EXCEPT ![i] = new]
  BY <1>1, NoneAssumption DEF Value, ValueIn, IInv, TypeOK
<1>3. o = Append(IF ValueIn(flows)[i] = None THEN order ELSE Atomic!Without(order, i), i)
  BY StoredValue, SameOperators
<1>4. capacity \in Nat /\ maxTotalBytes \in Nat
  BY DEF IInv, TypeOK
<1> HIDE DEF new, o, t
<1>5. Atomic!Keep([ValueIn(flows) EXCEPT ![i] = new], o, capacity, maxTotalBytes)
  <2>1. Atomic!Keep(Value([heap EXCEPT ![a] = new], [flows EXCEPT ![i] = a]), o,
                    capacity, maxTotalBytes)
    BY <1>1, <1>4, SettleImplementsKeep
  <2> QED BY <1>2, <2>1
<1>6. View' = View
  BY InsertStep, ViewsKept DEF Insert
<1>7. Outcome' = Outcome
  BY DEF Insert, calls, Outcome
<1>8. /\ ticket[p] # 0
      /\ ticket' = [ticket EXCEPT ![p] = 0]
      /\ UNCHANGED <<capacity, maxTotalBytes, nextSeq>>
  BY DEF Insert, settings
<1> QED BY <1>3, <1>5, <1>6, <1>7, <1>8 DEF Atomic!Insert, View, Outcome, new

LEMMA UpdateMissingImplements ==
  ASSUME IInv, NEW w \in Writers, NEW i \in Ids, UpdateMissing(w, i)
  PROVE  Atomic!UpdateMissing(w, i)
<1>1. View' = View
  BY UpdateMissingStep, ViewsKept DEF UpdateMissing
<1>2. Outcome[w] = "running" /\ Outcome' = [Outcome EXCEPT ![w] = "none"]
  BY DEF UpdateMissing, Calling, Outcome, IInv, TypeOK
<1>3. ValueIn(flows)[i] = None /\ ValueIn(flows)' = ValueIn(flows)
  BY StoredValue DEF UpdateMissing, ring, ValueIn
<1> QED BY <1>1, <1>2, <1>3 DEF UpdateMissing, ring, settings, Atomic!UpdateMissing, View, Outcome

\* Both ways an update takes effect are the abstract update.
LEMMA EditImplements ==
  ASSUME IInv, Frozen, NEW w \in Writers, NEW i \in Ids, NEW b \in Sizes,
         NEW h, NEW fl, NEW t, NEW hd, NEW sn,
         flows[i] # None, pc[w] \in {"start", "retry", "copied"},
         Value(h, fl) = [ValueIn(flows) EXCEPT ![i] = Edited(heap[flows[i]], w, b)],
         Ready(h, fl, order, t), Settle(h, fl, order, t, capacity, maxTotalBytes),
         heap' = Reclaim(h, LiveIn(flows', hd, sn)),
         pc' = [pc EXCEPT ![w] = IF flows'[i] = None THEN "none" ELSE "some"],
         IInv', held' = held, UNCHANGED <<settings, nextSeq, ticket>>
  PROVE  Atomic!Update(w, i, b)
<1>1. capacity \in Nat /\ maxTotalBytes \in Nat
  BY DEF IInv, TypeOK
<1>2. Atomic!Keep([ValueIn(flows) EXCEPT ![i] = Edited(heap[flows[i]], w, b)], order,
                  capacity, maxTotalBytes)
  <2>1. Atomic!Keep(Value(h, fl), order, capacity, maxTotalBytes)
    BY <1>1, SettleImplementsKeep
  <2> QED BY <2>1
<1>3. ValueIn(flows)[i] # None /\ ValueIn(flows)[i] = heap[flows[i]]
  BY StoredValue
<1>4. Edited(heap[flows[i]], w, b)
        = [seq   |-> ValueIn(flows)[i].seq,
           bytes |-> b,
           edits |-> ValueIn(flows)[i].edits \union {w}]
  BY <1>3 DEF Edited
<1>5. View' = View
  BY ViewsKept
<1>6. ValueIn(flows)'[i] = None <=> flows'[i] = None
  BY NoneAssumption DEF ValueIn, IInv, TypeOK
<1>7. /\ Outcome[w] = "running"
      /\ Outcome' = [Outcome EXCEPT ![w] = IF ValueIn(flows)'[i] = None THEN "none" ELSE "some"]
  BY <1>6 DEF Outcome, IInv, TypeOK
<1> QED BY <1>2, <1>3, <1>4, <1>5, <1>7 DEF Atomic!Update, View, Outcome, settings

LEMMA UpdateInPlaceImplements ==
  ASSUME IInv, NEW w \in Writers, NEW i \in Ids, NEW b \in Sizes, UpdateInPlace(w, i, b)
  PROVE  Atomic!Update(w, i, b)
<1> DEFINE new == Edited(heap[flows[i]], w, b)
           h == [heap EXCEPT ![flows[i]] = new]
           t == SaturatingSub(totalBytes, heap[flows[i]].bytes) + b
<1>1. /\ flows[i] \in Addrs /\ new \in Flow
      /\ \A j \in Ids \ {i} : flows[j] # flows[i]
      /\ Ready(h, flows, order, t)
      /\ Settle(h, flows, order, t, capacity, maxTotalBytes)
      /\ heap' = Reclaim(h, LiveIn(flows', held, snapshot))
  BY UpdateInPlaceReady
<1>2. /\ pc[w] \in {"start", "retry", "copied"} /\ flows[i] # None
      /\ pc' = [pc EXCEPT ![w] = IF flows'[i] = None THEN "none" ELSE "some"]
      /\ held' = held /\ UNCHANGED <<settings, nextSeq, ticket>>
  BY DEF UpdateInPlace, Calling, Returned
<1>3. Value(h, flows) = [ValueIn(flows) EXCEPT ![i] = new]
  BY <1>1, <1>2 DEF Value, ValueIn, IInv, TypeOK
<1>4. IInv' /\ Frozen
  BY UpdateInPlaceStep
<1> HIDE DEF h, t
<1> QED BY <1>1, <1>2, <1>3, <1>4, EditImplements

LEMMA InstallImplements ==
  ASSUME IInv, NEW w \in Writers, NEW b \in Sizes, Install(w, b)
  PROVE  Atomic!Update(w, target[w], b)
<1> DEFINE i == target[w]
           new == Edited(detached[w], w, b)
           t == SaturatingSub(totalBytes, before[w]) + b
<1>1. i \in Ids /\ flows[i] \in Addrs /\ detached[w] = heap[flows[i]]
  BY InstallReady
<1>2. PICK a \in Addrs :
        /\ \A j \in Ids : flows[j] # a
        /\ Ready([heap EXCEPT ![a] = new], [flows EXCEPT ![i] = a], order, t)
        /\ Settle([heap EXCEPT ![a] = new], [flows EXCEPT ![i] = a], order, t, capacity, maxTotalBytes)
        /\ heap' = Reclaim([heap EXCEPT ![a] = new], LiveIn(flows', held, snapshot'))
  BY InstallReady
<1>3. /\ pc[w] \in {"start", "retry", "copied"} /\ flows[i] # None
      /\ pc' = [pc EXCEPT ![w] = IF flows'[i] = None THEN "none" ELSE "some"]
      /\ held' = held /\ UNCHANGED <<settings, nextSeq, ticket>>
  BY <1>1, NoneAssumption DEF Install, Returned
<1> HIDE DEF i, t
<1>4. new = Edited(heap[flows[i]], w, b)
  BY <1>1
<1> HIDE DEF new
<1>5. Value([heap EXCEPT ![a] = new], [flows EXCEPT ![i] = a]) = [ValueIn(flows) EXCEPT ![i] = new]
  BY <1>1, <1>2, NoneAssumption DEF Value, ValueIn, IInv, TypeOK
<1>6. IInv' /\ Frozen
  BY InstallStep
<1>7. Atomic!Update(w, i, b)
  BY <1>1, <1>2, <1>3, <1>4, <1>5, <1>6, EditImplements
<1> QED BY <1>7 DEF i

\* Freeing memory does not change what is stored.
LEMMA StoreKept ==
  ASSUME IInv, NEW hd, NEW sn, flows' = flows, heap' = Reclaim(heap, LiveIn(flows, hd, sn))
  PROVE  ValueIn(flows)' = ValueIn(flows)
<1>1. \A i \in Ids : flows[i] # None => heap'[flows[i]] = heap[flows[i]]
  BY DEF Reclaim, LiveIn, IInv, TypeOK
<1> QED BY <1>1 DEF ValueIn

\* Looking a flow up, copying it and starting over are not visible.
LEMMA InvisibleSteps ==
  ASSUME IInv, NEW w \in Writers, (\E i \in Ids : UpdateShare(w, i)) \/ Detach(w) \/ Retry(w)
  PROVE  UNCHANGED Atomic!vars
<1>1. held' = held /\ UNCHANGED <<settings, nextSeq, ticket, flows, order>>
  BY DEF UpdateShare, Detach, Retry, ring
<1>2. View' = View
  BY <1>1, UpdateShareStep, DetachStep, RetryStep, ViewsKept
<1>3. Outcome' = Outcome
  BY DEF UpdateShare, Detach, Retry, Calling, Outcome, IInv, TypeOK
<1>4. ValueIn(flows)' = ValueIn(flows)
  <2>1. CASE Retry(w)
    BY <2>1, StoreKept DEF Retry
  <2>2. CASE heap' = heap
    BY <1>1, <2>2 DEF ValueIn
  <2> QED BY <2>1, <2>2 DEF UpdateShare, Detach, ring
<1> QED BY <1>1, <1>2, <1>3, <1>4 DEF Atomic!vars, View, Outcome, settings

LEMMA SnapshotsImplements ==
  ASSUME IInv, NEW r \in Readers, NEW S \in SUBSET Ids, Snapshots(r, S)
  PROVE  Atomic!Snapshots(r, S)
<1>1. held' = [held EXCEPT ![r] = [i \in Ids |-> IF i \in S THEN flows[i] ELSE None]]
  BY DEF Snapshots
<1>2. /\ UNCHANGED <<settings, nextSeq, ticket, calls, order, flows, heap>>
      /\ ValueIn(flows)' = ValueIn(flows)
  BY DEF Snapshots, ring, ValueIn
<1>3. Outcome' = Outcome
  BY <1>2 DEF calls, Outcome
<1>4. held'[r] = [i \in Ids |-> IF i \in S THEN flows[i] ELSE None]
  BY <1>1 DEF IInv, TypeOK
<1>5. \A q \in Readers \ {r} : held'[q] = held[q]
  BY <1>1 DEF IInv, TypeOK
<1>6. ValueIn(held[r])' = [i \in Ids |-> IF i \in S THEN ValueIn(flows)[i] ELSE None]
  BY <1>2, <1>4 DEF ValueIn
<1>7. \A q \in Readers \ {r} : ValueIn(held[q])' = ValueIn(held[q])
  BY <1>5, SnapshotsStep, ViewKept
<1>8. View' = [View EXCEPT ![r] = [i \in Ids |-> IF i \in S THEN ValueIn(flows)[i] ELSE None]]
  BY <1>6, <1>7 DEF View
<1> QED BY <1>2, <1>3, <1>8 DEF Atomic!Snapshots, View, Outcome, settings

\* Dropping handles is taking an empty snapshot.
LEMMA DropSnapshotsImplements ==
  ASSUME IInv, NEW r \in Readers, DropSnapshots(r)
  PROVE  Atomic!Snapshots(r, {})
<1>1. /\ held' = [held EXCEPT ![r] = [i \in Ids |-> None]]
      /\ UNCHANGED <<flows, order, totalBytes, settings, nextSeq, ticket, calls>>
      /\ heap' = Reclaim(heap, LiveIn(flows, held', snapshot))
  BY DEF DropSnapshots
<1>2. ValueIn(flows)' = ValueIn(flows) /\ Outcome' = Outcome
  BY <1>1, StoreKept DEF calls, Outcome
<1>3. ValueIn(held[r])' = [i \in Ids |-> None]
  BY <1>1 DEF ValueIn, IInv, TypeOK
<1>4. \A q \in Readers \ {r} : ValueIn(held[q])' = ValueIn(held[q])
  <2>1. \A q \in Readers \ {r} : held'[q] = held[q]
    BY <1>1 DEF IInv, TypeOK
  <2> QED BY <2>1, DropSnapshotsStep, ViewKept
<1>5. View' = [View EXCEPT ![r] = [i \in Ids |-> None]]
  BY <1>3, <1>4 DEF View
<1> QED BY <1>1, <1>2, <1>5 DEF Atomic!Snapshots, View, Outcome, settings

LEMMA ClearImplements ==
  ASSUME IInv, Clear
  PROVE  Atomic!Clear
<1>1. ValueIn(flows)' = [i \in Ids |-> None]
  BY DEF Clear, ValueIn
<1>2. View' = View
  BY ClearStep, ViewsKept DEF Clear
<1>3. Outcome' = Outcome
  BY DEF Clear, calls, Outcome
<1> QED BY <1>1, <1>2, <1>3 DEF Clear, Atomic!Clear, View, Outcome, settings

LEMMA SetCapacityImplements ==
  ASSUME IInv, NEW c \in Capacities, SetCapacity(c)
  PROVE  Atomic!SetCapacity(c)
<1>1. AtLeastOne(c) \in Nat /\ maxTotalBytes \in Nat /\ Atomic!AtLeastOne(c) = AtLeastOne(c)
  BY LimitsAssumption, SameOperators DEF AtLeastOne, IInv, TypeOK
<1>2. /\ Ready(heap, flows, order, totalBytes)
      /\ Settle(heap, flows, order, totalBytes, AtLeastOne(c), maxTotalBytes)
      /\ heap' = Reclaim(heap, LiveIn(flows', held, snapshot))
  BY DEF SetCapacity, IInv
<1>3. Atomic!Keep(ValueIn(flows), order, AtLeastOne(c), maxTotalBytes)
  <2>1. Atomic!Keep(Value(heap, flows), order, AtLeastOne(c), maxTotalBytes)
    BY <1>1, <1>2, SettleImplementsKeep
  <2> QED BY <2>1 DEF ValueIn, Value
<1>4. View' = View
  BY SetCapacityStep, ViewsKept DEF SetCapacity
<1>5. Outcome' = Outcome
  BY DEF SetCapacity, calls, Outcome
<1> QED BY <1>1, <1>3, <1>4, <1>5 DEF SetCapacity, Atomic!SetCapacity, View, Outcome

LEMMA SetMaxTotalBytesImplements ==
  ASSUME IInv, NEW m \in Budgets, SetMaxTotalBytes(m)
  PROVE  Atomic!SetMaxTotalBytes(m)
<1>1. capacity \in Nat /\ m \in Nat
  BY LimitsAssumption DEF IInv, TypeOK
<1>2. /\ Ready(heap, flows, order, totalBytes)
      /\ Settle(heap, flows, order, totalBytes, capacity, m)
      /\ heap' = Reclaim(heap, LiveIn(flows', held, snapshot))
  BY DEF SetMaxTotalBytes, IInv
<1>3. Atomic!Keep(ValueIn(flows), order, capacity, m)
  <2>1. Atomic!Keep(Value(heap, flows), order, capacity, m)
    BY <1>1, <1>2, SettleImplementsKeep
  <2> QED BY <2>1 DEF ValueIn, Value
<1>4. View' = View
  BY SetMaxTotalBytesStep, ViewsKept DEF SetMaxTotalBytes
<1>5. Outcome' = Outcome
  BY DEF SetMaxTotalBytes, calls, Outcome
<1> QED BY <1>3, <1>4, <1>5 DEF SetMaxTotalBytes, Atomic!SetMaxTotalBytes, View, Outcome

-----------------------------------------------------------------------------
LEMMA StepImplements == IInv /\ [Next]_vars => [Atomic!Next]_(Atomic!vars)
<1> SUFFICES ASSUME IInv, [Next]_vars PROVE Atomic!Next \/ UNCHANGED Atomic!vars
  OBVIOUS
<1>1. CASE \E p \in Producers : NextSeq(p)
  BY <1>1, NextSeqImplements DEF Atomic!Next
<1>2. CASE \E p \in Producers, i \in Ids, b \in Sizes : Insert(p, i, b)
  BY <1>2, InsertImplements DEF Atomic!Next
<1>3. CASE \E w \in Writers : UpdateStep(w)
  <2>1. PICK w \in Writers : UpdateStep(w)
    BY <1>3
  <2>2. CASE \E i \in Ids : UpdateMissing(w, i)
    BY <2>2, UpdateMissingImplements DEF Atomic!Next
  <2>3. CASE \E i \in Ids, b \in Sizes : UpdateInPlace(w, i, b)
    BY <2>3, UpdateInPlaceImplements DEF Atomic!Next
  <2>4. CASE (\E i \in Ids : UpdateShare(w, i)) \/ Detach(w) \/ Retry(w)
    BY <2>4, InvisibleSteps
  <2>5. CASE \E b \in Sizes : Install(w, b)
    BY <2>5, InstallReady, InstallImplements DEF Atomic!Next
  <2> QED BY <2>1, <2>2, <2>3, <2>4, <2>5 DEF UpdateStep
<1>4. CASE \E r \in Readers, S \in SUBSET Ids : Snapshots(r, S)
  BY <1>4, SnapshotsImplements DEF Atomic!Next
<1>5. CASE \E r \in Readers : DropSnapshots(r)
  BY <1>5, DropSnapshotsImplements DEF Atomic!Next
<1>6. CASE Clear
  BY <1>6, ClearImplements DEF Atomic!Next
<1>7. CASE \E c \in Capacities : SetCapacity(c)
  BY <1>7, SetCapacityImplements DEF Atomic!Next
<1>8. CASE \E m \in Budgets : SetMaxTotalBytes(m)
  BY <1>8, SetMaxTotalBytesImplements DEF Atomic!Next
<1>9. CASE UNCHANGED vars
  BY <1>9 DEF vars, ring, settings, calls, Atomic!vars, ValueIn
<1> QED BY <1>1, <1>2, <1>3, <1>4, <1>5, <1>6, <1>7, <1>8, <1>9 DEF Next

\* Every behaviour of the store, with its shared handles, its copies outside
\* the lock and its running counter, is one of the store of values.
THEOREM Implements == Spec => ActsAtomically
<1>1. Init => Atomic!Init
  BY InitImplements
<1>2. IInv /\ [Next]_vars => [Atomic!Next]_(Atomic!vars)
  BY StepImplements
<1>3. Spec => Atomic!Spec
  BY <1>1, <1>2, Invariance, PTL DEF Spec, Atomic!Spec
<1> QED BY <1>3 DEF ActsAtomically
=============================================================================
