--------------------------- MODULE ProxyServerProofs ---------------------------
(***************************************************************************)
(* The leases of the pool (UpstreamPool) and the shutdown of the listener  *)
(* (ProxyServer), for any number of clients, connections, keys and slots.  *)
(*                                                                         *)
(* The pool: all that refers to a connection refers to it by one and the   *)
(* same sender; a key's list holds no sender twice, so that one that is    *)
(* taken out is gone from the pool; and an HTTP/1 sender that somebody has *)
(* is in no list and with nobody else (IInv).                              *)
(*                                                                         *)
(* The listener: nobody uses the pool but a task that serves.  A client    *)
(* has a sender, or waits for one, only while a task of the listener, of a *)
(* tunnel or of a relay is there to give it up, and the listener makes no  *)
(* task once it drains (ServedInv).                                        *)
(*                                                                         *)
(* Tunnels and relays: the order of the leaf cache holds the hosts of its  *)
(* map and each of them once (LeafInv), a relay's record is an end of what *)
(* was relayed (RelayInv), and tasks, uses and flows match (TaskInv).      *)
(***************************************************************************)
EXTENDS ProxyServer, FiniteSetTheorems, TLAPS

Ring == INSTANCE FlowRingProofs  \* for its facts about naturals

Senders == [conn : Conns, key : Keys, h2 : BOOLEAN]
Entries == [sender : Senders, old : BOOLEAN]

\* The senders of a list, and that none is in it twice.
In(list)       == {list[i].sender : i \in 1..Len(list)}
Distinct(list) == \A i, j \in 1..Len(list) : list[i].sender.conn = list[j].sender.conn => i = j

\* m holds nothing but what l held, and nothing twice.
Drawn(l, m) ==
  /\ m \in Seq(Entries) /\ Len(m) <= Len(l)
  /\ In(m) \subseteq In(l) /\ Distinct(m)

-----------------------------------------------------------------------------
\* What the operations of the pool make of a list.

\* One entry is added at the end.
LEMMA AppendOK ==
  ASSUME NEW m \in Seq(Entries), Distinct(m), NEW e \in Entries,
         \A s \in In(m) : s.conn # e.sender.conn
  PROVE  /\ Append(m, e) \in Seq(Entries) /\ Len(Append(m, e)) = Len(m) + 1
         /\ In(Append(m, e)) = In(m) \union {e.sender}
         /\ Distinct(Append(m, e))
<1> DEFINE a == Append(m, e)
           n == Len(m)
<1>1. /\ a \in Seq(Entries) /\ n \in Nat /\ Len(a) = n + 1 /\ a[n + 1] = e
      /\ \A i \in 1..n : a[i] = m[i]
  OBVIOUS
<1> HIDE DEF a, n
<1>2. In(a) = {a[i].sender : i \in 1..(n + 1)} /\ In(m) = {m[i].sender : i \in 1..n}
  BY <1>1 DEF In, n
<1>3. In(a) = In(m) \union {e.sender}
  BY <1>1, <1>2
<1>4. \A i, j \in 1..(n + 1) : a[i].sender.conn = a[j].sender.conn => i = j
  <2>1. \A i, j \in 1..n : m[i].sender.conn = m[j].sender.conn => i = j
    BY DEF Distinct, n
  <2>2. \A i \in 1..n : m[i].sender.conn # e.sender.conn
    BY <1>2
  <2> QED BY <1>1, <2>1, <2>2
<1>5. Distinct(a)
  BY <1>1, <1>4 DEF Distinct
<1> QED BY <1>1, <1>3, <1>5 DEF a, n

\* The last entries of a list.
LEMMA LastEntries ==
  ASSUME NEW m \in Seq(Entries), Distinct(m), NEW i \in 1..(Len(m) + 1)
  PROVE  Drawn(m, SubSeq(m, i, Len(m))) /\ Len(SubSeq(m, i, Len(m))) = Len(m) - i + 1
<1> DEFINE a == SubSeq(m, i, Len(m))
           n == Len(m)
<1>1. /\ n \in Nat /\ a \in Seq(Entries) /\ Len(a) = n - i + 1
      /\ \A j \in 1..(n - i + 1) : a[j] = m[i + j - 1]
  OBVIOUS
<1> HIDE DEF a, n
<1>2. In(a) \subseteq In(m)
  <2> SUFFICES ASSUME NEW j \in 1..Len(a) PROVE a[j].sender \in In(m)
    BY DEF In
  <2>1. i + j - 1 \in 1..n /\ a[j] = m[i + j - 1]
    BY <1>1 DEF n
  <2> QED BY <2>1 DEF In, n
<1>3. Distinct(a)
  <2> SUFFICES ASSUME NEW j \in 1..Len(a), NEW k \in 1..Len(a),
                      a[j].sender.conn = a[k].sender.conn
               PROVE  j = k
    BY DEF Distinct
  <2>0. n \in Nat /\ j \in 1..(n - i + 1) /\ k \in 1..(n - i + 1)
    BY <1>1
  <2>1. i + j - 1 \in 1..n /\ i + k - 1 \in 1..n /\ a[j] = m[i + j - 1] /\ a[k] = m[i + k - 1]
    BY <1>1, <2>0
  <2>2. i + j - 1 = i + k - 1
    BY <2>1 DEF Distinct, n
  <2> QED BY <1>1, <2>2
<1> QED BY <1>1, <1>2, <1>3 DEF Drawn, a, n

\* A list in which nothing but ages changes.
LEMMA SameSenders ==
  ASSUME NEW l \in Seq(Entries), Distinct(l), NEW m \in Seq(Entries), Len(m) = Len(l),
         \A i \in 1..Len(l) : m[i].sender = l[i].sender
  PROVE  Drawn(l, m)
<1>1. In(m) = In(l) /\ Distinct(m)
  BY DEF In, Distinct
<1> QED BY <1>1 DEF Drawn

\* An entry's age changes.
LEMMA AgeChanged ==
  ASSUME NEW l \in Seq(Entries), Distinct(l), NEW i \in 1..Len(l), NEW b \in BOOLEAN
  PROVE  Drawn(l, [l EXCEPT ![i].old = b])
<1> DEFINE e == [l[i] EXCEPT !.old = b]
           m == [l EXCEPT ![i] = e]
<1>1. l[i] \in Entries
  OBVIOUS
<1>2. e \in Entries /\ e.sender = l[i].sender
  BY <1>1 DEF Entries
<1> HIDE DEF e
<1>3. /\ m \in Seq(Entries) /\ Len(m) = Len(l)
      /\ m[i] = e /\ \A j \in 1..Len(l) : j # i => m[j] = l[j]
  BY <1>2
<1> HIDE DEF m
<1>4. \A j \in 1..Len(l) : m[j].sender = l[j].sender
  BY <1>2, <1>3
<1>5. Drawn(l, m)
  BY <1>3, <1>4, SameSenders
<1> QED BY <1>5 DEF m, e

\* An entry is taken out, and its sender is gone.
LEMMA SwapRemoveOK ==
  ASSUME NEW l \in Seq(Entries), Distinct(l), NEW i \in 1..Len(l)
  PROVE  Drawn(l, SwapRemove(l, i)) /\ l[i].sender \notin In(SwapRemove(l, i))
<1> DEFINE m == SwapRemove(l, i)
           n == Len(l)
           At(j) == IF j = i THEN n ELSE j
<1>1. n \in Nat /\ n > 0 /\ \A j \in 1..n : l[j] \in Entries
  OBVIOUS
<1>2. m = [j \in 1..(n - 1) |-> l[At(j)]]
  BY DEF SwapRemove
<1> HIDE DEF m, n
<1>3. m \in Seq(Entries) /\ Len(m) = n - 1 /\ \A j \in 1..(n - 1) : m[j] = l[At(j)]
  <2>1. \A j \in 1..(n - 1) : l[At(j)] \in Entries
    BY <1>1 DEF n
  <2>2. m \in [1..(n - 1) -> Entries] /\ n - 1 \in Nat
    BY <1>1, <1>2, <2>1
  <2> QED BY <1>2, <2>2
<1>4. \A j \in 1..(n - 1) : At(j) \in 1..n /\ At(j) # i
  BY <1>1 DEF n
<1>5. \A j, k \in 1..(n - 1) : At(j) = At(k) => j = k
  BY <1>1
<1>6. In(m) \subseteq In(l) /\ l[i].sender \notin In(m)
  <2> SUFFICES ASSUME NEW j \in 1..(n - 1) PROVE m[j].sender \in In(l) /\ m[j].sender # l[i].sender
    BY <1>3 DEF In
  <2>1. m[j] = l[At(j)] /\ At(j) \in 1..n /\ At(j) # i
    BY <1>3, <1>4
  <2> QED BY <2>1 DEF In, Distinct, n
<1>7. Distinct(m)
  <2> SUFFICES ASSUME NEW j \in 1..(n - 1), NEW k \in 1..(n - 1),
                      m[j].sender.conn = m[k].sender.conn
               PROVE  j = k
    BY <1>3 DEF Distinct
  <2>1. At(j) = At(k)
    BY <1>3, <1>4 DEF Distinct, n
  <2> QED BY <1>5, <2>1
<1> QED BY <1>1, <1>3, <1>6, <1>7 DEF Drawn, m, n

-----------------------------------------------------------------------------
\* Swept is computed entry by entry; Next(f, l, k) is what is kept of the first
\* k entries when f says so of fewer.
KeptOf(f, l, k) == IF Kept(l[k]) THEN Append(f[k - 1], l[k]) ELSE f[k - 1]

LEMMA SweptExists ==
  ASSUME NEW l \in Seq(Entries)
  PROVE  \E f : f = [i \in 0..Len(l) |-> IF i = 0 THEN <<>> ELSE KeptOf(f, l, i)]
<1> DEFINE Is(f, n) == f = [i \in 0..n |-> IF i = 0 THEN <<>> ELSE KeptOf(f, l, i)]
           S == {n \in Nat : \E f : Is(f, n)}
<1>1. 0 \in S
  <2> DEFINE f == [i \in 0..0 |-> <<>>]
  <2>1. f = [i \in 0..0 |-> IF i = 0 THEN <<>> ELSE KeptOf(f, l, i)]
    OBVIOUS
  <2> QED BY <2>1
<1>2. ASSUME NEW n \in Nat, n \in S PROVE n + 1 \in S
  <2>1. PICK f : f = [i \in 0..n |-> IF i = 0 THEN <<>> ELSE KeptOf(f, l, i)]
    BY <1>2
  <2> DEFINE g == [i \in 0..(n + 1) |-> IF i <= n THEN f[i] ELSE KeptOf(f, l, i)]
  <2>2. \A i \in 0..n : g[i] = f[i]
    OBVIOUS
  <2>3. \A i \in 0..(n + 1) : i # 0 => KeptOf(g, l, i) = KeptOf(f, l, i)
    <3> SUFFICES ASSUME NEW i \in 0..(n + 1), i # 0 PROVE g[i - 1] = f[i - 1]
      BY DEF KeptOf
    <3>1. i - 1 \in 0..n
      OBVIOUS
    <3> QED BY <2>2, <3>1
  <2>4. \A i \in 0..n : f[i] = IF i = 0 THEN <<>> ELSE KeptOf(f, l, i)
    <3> HIDE DEF g
    <3> QED BY <2>1
  <2>5. \A i \in 0..(n + 1) : g[i] = IF i = 0 THEN <<>> ELSE KeptOf(g, l, i)
    <3> SUFFICES ASSUME NEW i \in 0..(n + 1)
                 PROVE  g[i] = IF i = 0 THEN <<>> ELSE KeptOf(g, l, i)
      OBVIOUS
    <3>1. g[i] = IF i <= n THEN f[i] ELSE KeptOf(f, l, i)
      OBVIOUS
    <3>2. CASE i <= n
      <4>1. i \in 0..n
        BY <3>2
      <4> HIDE DEF g
      <4> QED BY <2>3, <2>4, <3>1, <3>2, <4>1
    <3>3. CASE ~(i <= n)
      <4>1. i # 0
        BY <3>3
      <4> HIDE DEF g
      <4> QED BY <2>3, <3>1, <3>3, <4>1
    <3> QED BY <3>2, <3>3
  <2>6. g = [i \in 0..(n + 1) |-> g[i]]
    OBVIOUS
  <2> HIDE DEF g
  <2>7. Is(g, n + 1)
    BY <2>5, <2>6
  <2> QED BY <2>7
<1>3. \A n \in Nat : n \in S
  <2> HIDE DEF S
  <2> QED BY <1>1, <1>2, Ring!SetInduction
<1>4. Len(l) \in Nat
  OBVIOUS
<1> QED BY <1>3, <1>4

\* A sweep keeps what is to be kept, once, and nothing else.
LEMMA SweptOK ==
  ASSUME NEW l \in Seq(Entries), Distinct(l)
  PROVE  /\ Drawn(l, Swept(l))
         /\ \A i \in 1..Len(l) : Kept(l[i]) => l[i].sender \in In(Swept(l))
<1> DEFINE n == Len(l)
           f == CHOOSE g : g = [i \in 0..n |-> IF i = 0 THEN <<>>
                                 ELSE IF Kept(l[i]) THEN Append(g[i - 1], l[i]) ELSE g[i - 1]]
           Firsts(k) == {l[i].sender : i \in 1..k}
           OK(k) == /\ f[k] \in Seq(Entries) /\ Len(f[k]) <= k
                    /\ In(f[k]) \subseteq Firsts(k) /\ Distinct(f[k])
                    /\ \A i \in 1..k : Kept(l[i]) => l[i].sender \in In(f[k])
           S == {k \in Nat : k <= n => OK(k)}
<1>1. n \in Nat /\ \A i \in 1..n : l[i] \in Entries
  OBVIOUS
<1>2. f = [i \in 0..n |-> IF i = 0 THEN <<>> ELSE KeptOf(f, l, i)]
  BY SweptExists DEF KeptOf
<1>3. Swept(l) = f[n]
  BY DEF Swept
<1> HIDE DEF f
<1>4. 0 \in S
  <2>1. f[0] = <<>>
    BY <1>1, <1>2
  <2>2. In(<<>>) = {} /\ Distinct(<<>>) /\ <<>> \in Seq(Entries) /\ Len(<<>>) = 0
    BY DEF In, Distinct
  <2>3. OK(0)
    <3> HIDE DEF Firsts
    <3> QED BY <2>1, <2>2
  <2> QED BY <2>3
<1>5. ASSUME NEW k \in Nat, k \in S PROVE k + 1 \in S
  <2> SUFFICES ASSUME k + 1 <= n PROVE OK(k + 1)
    OBVIOUS
  <2>1. OK(k)
    BY <1>1, <1>5
  <2>2. f[k + 1] = IF Kept(l[k + 1]) THEN Append(f[k], l[k + 1]) ELSE f[k]
    <3>1. k + 1 \in 0..n /\ k + 1 # 0 /\ (k + 1) - 1 = k
      BY <1>1
    <3>2. f[k + 1] = KeptOf(f, l, k + 1)
      BY <1>2, <3>1
    <3> QED BY <3>1, <3>2 DEF KeptOf
  <2>3. Firsts(k + 1) = Firsts(k) \union {l[k + 1].sender} /\ l[k + 1] \in Entries
    BY <1>1
  <2>4. CASE Kept(l[k + 1])
    <3>1. \A s \in In(f[k]) : s.conn # l[k + 1].sender.conn
      <4>1. \A i \in 1..k : l[i].sender.conn # l[k + 1].sender.conn
        BY <1>1 DEF Distinct
      <4> QED BY <2>1, <4>1
    <3>2. /\ Append(f[k], l[k + 1]) \in Seq(Entries)
          /\ Len(Append(f[k], l[k + 1])) = Len(f[k]) + 1
          /\ In(Append(f[k], l[k + 1])) = In(f[k]) \union {l[k + 1].sender}
          /\ Distinct(Append(f[k], l[k + 1]))
      BY <2>1, <2>3, <3>1, AppendOK
    <3>3. \A i \in 1..(k + 1) : i = k + 1 \/ i \in 1..k
      OBVIOUS
    <3> QED BY <2>1, <2>2, <2>3, <2>4, <3>2, <3>3
  <2>5. CASE ~Kept(l[k + 1])
    <3>1. f[k + 1] = f[k]
      BY <2>2, <2>5
    <3>2. \A i \in 1..(k + 1) : i = k + 1 \/ i \in 1..k
      OBVIOUS
    <3> QED BY <2>1, <2>3, <2>5, <3>1, <3>2
  <2> QED BY <2>4, <2>5
<1>6. OK(n)
  <2>1. \A k \in Nat : k \in S
    <3> HIDE DEF S
    <3> QED BY <1>4, <1>5, Ring!SetInduction
  <2> QED BY <1>1, <2>1
<1>7. Firsts(n) = In(l)
  BY DEF In
<1> QED BY <1>3, <1>6, <1>7 DEF Drawn

\* A sender joins a swept list, which stays within its limit.
Joined(list, s) ==
  LET new == Append(list, [sender |-> s, old |-> FALSE])
  IN SubSeq(new, Excess(new) + 1, Len(new))

LEMMA JoinedOK ==
  ASSUME NEW l \in Seq(Entries), Distinct(l), NEW s \in Senders, \A t \in In(l) : t.conn # s.conn
  PROVE  /\ Joined(l, s) \in Seq(Entries) /\ Len(Joined(l, s)) <= MaxIdle
         /\ In(Joined(l, s)) \subseteq In(l) \union {s} /\ Distinct(Joined(l, s))
         /\ Len(Joined(l, s)) < MaxIdle => In(Joined(l, s)) = In(l) \union {s}
<1> DEFINE e == [sender |-> s, old |-> FALSE]
           a == Append(l, e)
           i == Excess(a) + 1
<1>1. e \in Entries /\ e.sender = s
  BY DEF Entries
<1> HIDE DEF e
<1>2. /\ a \in Seq(Entries) /\ Len(a) = Len(l) + 1
      /\ In(a) = In(l) \union {s} /\ Distinct(a)
  BY <1>1, AppendOK
<1> HIDE DEF a
<1>3. MaxIdle \in Nat \ {0} /\ Len(a) \in Nat
  BY <1>2, PoolAssumption
<1>4. i \in 1..(Len(a) + 1) /\ Len(a) - i + 1 <= MaxIdle /\ (Len(a) - i + 1 < MaxIdle => i = 1)
  BY <1>3 DEF Excess
<1>5. Joined(l, s) = SubSeq(a, i, Len(a))
  BY DEF Joined, a, e
<1> HIDE DEF i
<1>6. Drawn(a, SubSeq(a, i, Len(a))) /\ Len(SubSeq(a, i, Len(a))) = Len(a) - i + 1
  BY <1>2, <1>4, LastEntries
<1>7. i = 1 => SubSeq(a, i, Len(a)) = a
  BY <1>2, <1>3
<1> QED BY <1>2, <1>4, <1>5, <1>6, <1>7 DEF Drawn

-----------------------------------------------------------------------------
\* The inductive invariant, of a pool and what its users do.
UseRecords ==
  [at : {"idle", "wait", "dial", "lease", "drop", "relay"},
   sender : Senders \union {NoSender}, key : Keys \union {"none"}]

Has(us, u) == us[u].sender # NoSender

Types(p, us) ==
  /\ p \in [Keys -> Seq(Entries)]
  /\ us \in [Users -> UseRecords]
  /\ \A u \in Users : /\ Has(us, u) <=> us[u].at \notin {"idle", "dial"}
                      /\ us[u].at = "dial" => us[u].key \in Keys

\* One sender refers to a connection, ...
Known(s, p, us) == (\E k \in Keys : s \in In(p[k])) \/ \E u \in Users : us[u].sender = s

OneEach(p, us) ==
  \A s, t \in Senders : Known(s, p, us) /\ Known(t, p, us) /\ s.conn = t.conn => s = t

\* ... and who has one of HTTP/1 has it alone.
Alone(p, us) ==
  \A u \in Users : Has(us, u) /\ ~us[u].sender.h2 =>
    /\ \A v \in Users : us[v].sender = us[u].sender => v = u
    /\ \A k \in Keys : us[u].sender \notin In(p[k])

Streams(us, c) == {u \in Users : us[u].at \in {"lease", "drop"} /\ us[u].sender.conn = c}

Limits(p, us) ==
  /\ \A k \in Keys : Len(p[k]) <= MaxIdle /\ Distinct(p[k])
  /\ \A c \in Conns : Cardinality(Streams(us, c)) <= MaxStreams

Routed(p, us) ==
  /\ \A u \in Users : Has(us, u) => us[u].sender.key = us[u].key
  /\ \A k \in Keys : \A s \in In(p[k]) : s.key = k

State(p, us) == Types(p, us) /\ OneEach(p, us) /\ Alone(p, us) /\ Limits(p, us) /\ Routed(p, us)

IInv == State(pool, use)

-----------------------------------------------------------------------------
LEMMA NoSenderIsNone == NoSender \notin Senders
<1> SUFFICES ASSUME NoSender \in Senders PROVE FALSE
  OBVIOUS
<1>1. "conn" \in DOMAIN NoSender
  BY DEF Senders
<1>2. DOMAIN NoSender = {"none"}
  BY DEF NoSender
<1> QED BY <1>1, <1>2

\* The senders of a list are senders.
LEMMA InSenders ==
  ASSUME NEW l \in Seq(Entries)
  PROVE  In(l) \subseteq Senders
<1>1. \A i \in 1..Len(l) : l[i] \in Entries
  OBVIOUS
<1> QED BY <1>1 DEF In, Entries

\* Fewer streams are no more than the slots.
LEMMA FewerStreams ==
  ASSUME NEW us, NEW vs, NEW c, Cardinality(Streams(us, c)) <= MaxStreams,
         Streams(vs, c) \subseteq Streams(us, c)
  PROVE  Cardinality(Streams(vs, c)) <= MaxStreams
<1>1. IsFiniteSet(Streams(us, c))
  BY FS_Subset, PoolAssumption DEF Streams
<1>2. Cardinality(Streams(vs, c)) <= Cardinality(Streams(us, c)) /\ IsFiniteSet(Streams(vs, c))
  BY <1>1, FS_Subset
<1>3. Cardinality(Streams(vs, c)) \in Nat /\ Cardinality(Streams(us, c)) \in Nat
  BY <1>1, <1>2, FS_CardinalityType
<1> QED BY <1>2, <1>3, PoolAssumption

\* Every list is drawn from what it was.
AllDrawn(p, q) == q \in [Keys -> Seq(Entries)] /\ \A k \in Keys : Drawn(p[k], q[k])

\* Nothing is added: lists are drawn from what they were, and users keep what
\* they have or drop it.
KeptOrDropped(us, vs, u) ==
  \/ ~Has(vs, u)
  \/ /\ vs[u].sender = us[u].sender /\ vs[u].key = us[u].key
     /\ vs[u].at \in {"lease", "drop"} => us[u].at \in {"lease", "drop"}

LEMMA Shrinks ==
  ASSUME NEW p, NEW us, State(p, us),
         NEW q, NEW vs, Types(q, vs), AllDrawn(p, q),
         \A u \in Users : KeptOrDropped(us, vs, u)
  PROVE  State(q, vs)
<1>0. \A k \in Keys : Drawn(p[k], q[k])
  BY DEF AllDrawn
<1>1. \A k \in Keys : In(q[k]) \subseteq In(p[k])
  BY <1>0 DEF Drawn
<1>2. \A u \in Users : Has(vs, u) =>
         Has(us, u) /\ vs[u].sender = us[u].sender /\ vs[u].key = us[u].key
  BY DEF KeptOrDropped, Has
<1>3. \A s \in Senders : Known(s, q, vs) => Known(s, p, us)
  <2> SUFFICES ASSUME NEW s \in Senders, Known(s, q, vs) PROVE Known(s, p, us)
    OBVIOUS
  <2>1. \A u \in Users : vs[u].sender = s => us[u].sender = s
    BY <1>2, NoSenderIsNone DEF Has
  <2> QED BY <1>1, <2>1 DEF Known
<1>4. OneEach(q, vs)
  BY <1>3 DEF State, OneEach
<1>5. Alone(q, vs)
  <2> SUFFICES ASSUME NEW u \in Users, Has(vs, u), ~vs[u].sender.h2
               PROVE  /\ \A v \in Users : vs[v].sender = vs[u].sender => v = u
                      /\ \A k \in Keys : vs[u].sender \notin In(q[k])
    BY DEF Alone
  <2>1. Has(us, u) /\ vs[u].sender = us[u].sender
    BY <1>2
  <2>2. /\ \A v \in Users : us[v].sender = us[u].sender => v = u
        /\ \A k \in Keys : us[u].sender \notin In(p[k])
    BY <2>1 DEF State, Alone
  <2>3. \A v \in Users : vs[v].sender = vs[u].sender => us[v].sender = us[u].sender
    BY <1>2, <2>1 DEF Has
  <2> QED BY <1>1, <2>1, <2>2, <2>3
<1>6. Limits(q, vs)
  <2>1. ASSUME NEW k \in Keys PROVE Len(q[k]) <= MaxIdle /\ Distinct(q[k])
    <3>1. Len(q[k]) <= Len(p[k]) /\ Len(p[k]) <= MaxIdle /\ Distinct(q[k])
      BY <1>0 DEF Drawn, State, Limits
    <3>2. Len(q[k]) \in Nat /\ Len(p[k]) \in Nat
      BY DEF Types, State
    <3> QED BY <3>1, <3>2, PoolAssumption
  <2>2. ASSUME NEW c \in Conns PROVE Cardinality(Streams(vs, c)) <= MaxStreams
    <3>1. \A u \in Users : vs[u].at \in {"lease", "drop"} => Has(vs, u)
      BY DEF Types
    <3>2. Streams(vs, c) \subseteq Streams(us, c)
      BY <3>1 DEF Streams, KeptOrDropped, Has
    <3> QED BY <3>2, FewerStreams DEF State, Limits
  <2> QED BY <2>1, <2>2 DEF Limits
<1>7. Routed(q, vs)
  BY <1>1, <1>2 DEF State, Routed
<1> QED BY <1>4, <1>5, <1>6, <1>7 DEF State

\* One user's record changes.
Becomes(us, vs, u, r) == vs = [us EXCEPT ![u] = r]

LEMMA BecomesTypes ==
  ASSUME NEW p, NEW us, Types(p, us), NEW u \in Users, NEW r \in UseRecords,
         r.sender # NoSender <=> r.at \notin {"idle", "dial"},
         r.at = "dial" => r.key \in Keys,
         NEW vs, Becomes(us, vs, u, r)
  PROVE  Types(p, vs) /\ vs[u] = r /\ \A v \in Users \ {u} : vs[v] = us[v]
<1>1. vs[u] = r /\ (\A v \in Users \ {u} : vs[v] = us[v]) /\ vs \in [Users -> UseRecords]
  BY DEF Becomes, Types
<1>2. ASSUME NEW v \in Users
      PROVE  /\ Has(vs, v) <=> vs[v].at \notin {"idle", "dial"}
             /\ vs[v].at = "dial" => vs[v].key \in Keys
  BY <1>1 DEF Types, Has
<1> QED BY <1>1, <1>2 DEF Types

\* A record with a sender, or without.
LEMMA UsingOK ==
  ASSUME NEW at \in {"wait", "lease", "drop", "relay"}, NEW s \in Senders, NEW k \in Keys
  PROVE  /\ Using(at, s, k) \in UseRecords /\ Using(at, s, k).sender = s
         /\ Using(at, s, k).at = at /\ Using(at, s, k).key = k /\ s # NoSender
BY NoSenderIsNone DEF Using, UseRecords

LEMMA WithoutOK ==
  /\ Idle \in UseRecords /\ Idle.sender = NoSender /\ Idle.at = "idle"
  /\ \A k \in Keys : /\ Using("dial", NoSender, k) \in UseRecords
                     /\ Using("dial", NoSender, k).sender = NoSender
                     /\ Using("dial", NoSender, k).at = "dial"
                     /\ Using("dial", NoSender, k).key = k
BY DEF Idle, Using, UseRecords

\* No other sender is known of the connection of s; nobody has s.
OnlyOne(s, p, us) == \A t \in Senders : Known(t, p, us) /\ t.conn = s.conn => t = s
Unheld(s, us)     == \A v \in Users : us[v].sender # s
Unpooled(s, p)    == \A k \in Keys : s \notin In(p[k])

\* Who had nothing is given a sender that is known, or new.
LEMMA Given ==
  ASSUME NEW p, NEW us, State(p, us), NEW u \in Users, ~Has(us, u),
         NEW s \in Senders, OnlyOne(s, p, us),
         NEW at \in {"wait", "lease"},
         NEW vs, Becomes(us, vs, u, Using(at, s, s.key)),
         NEW q, AllDrawn(p, q),
         s.h2 \/ (Unpooled(s, q) /\ Unheld(s, us)),
         at = "wait" \/ Unheld(s, us)
  PROVE  State(q, vs)
<1> DEFINE r == Using(at, s, s.key)
<1>1. s.key \in Keys
  BY DEF Senders
<1>2. r \in UseRecords /\ r.sender = s /\ r.at = at /\ r.key = s.key /\ s # NoSender
  BY <1>1, UsingOK
<1> HIDE DEF r
<1>3. Types(p, vs) /\ vs[u] = r /\ \A v \in Users \ {u} : vs[v] = us[v]
  BY <1>2, BecomesTypes DEF State, r
<1>4. Types(q, vs)
  BY <1>3 DEF Types, AllDrawn
<1>0. \A k \in Keys : Drawn(p[k], q[k])
  BY DEF AllDrawn
<1>5. \A k \in Keys : In(q[k]) \subseteq In(p[k])
  BY <1>0 DEF Drawn
<1>6. \A t \in Senders : Known(t, q, vs) => Known(t, p, us) \/ t = s
  BY <1>2, <1>3, <1>5 DEF Known
<1>7. OneEach(q, vs)
  BY <1>6 DEF OneEach, OnlyOne, State
<1>8. Alone(q, vs)
  <2> SUFFICES ASSUME NEW v \in Users, Has(vs, v), ~vs[v].sender.h2
               PROVE  /\ \A w \in Users : vs[w].sender = vs[v].sender => w = v
                      /\ \A k \in Keys : vs[v].sender \notin In(q[k])
    BY DEF Alone
  <2>1. CASE v = u
    <3>1. vs[v].sender = s /\ ~s.h2
      BY <1>2, <1>3, <2>1
    <3> QED BY <1>3, <2>1, <3>1 DEF Unpooled, Unheld
  <2>2. CASE v # u
    <3>1. vs[v] = us[v] /\ Has(us, v)
      BY <1>3, <2>2 DEF Has
    <3>2. /\ \A w \in Users : us[w].sender = us[v].sender => w = v
          /\ \A k \in Keys : us[v].sender \notin In(p[k])
      BY <3>1 DEF State, Alone
    <3>3. vs[u].sender # vs[v].sender
      BY <1>2, <1>3, <3>1 DEF Unheld
    <3> QED BY <1>3, <1>5, <3>1, <3>2, <3>3
  <2> QED BY <2>1, <2>2
<1>9. Limits(q, vs)
  <2>1. ASSUME NEW k \in Keys PROVE Len(q[k]) <= MaxIdle /\ Distinct(q[k])
    <3>1. Len(q[k]) <= Len(p[k]) /\ Len(p[k]) <= MaxIdle /\ Distinct(q[k])
      BY <1>0 DEF Drawn, State, Limits
    <3>2. Len(q[k]) \in Nat /\ Len(p[k]) \in Nat
      BY DEF Types, State
    <3> QED BY <3>1, <3>2, PoolAssumption
  <2>2. ASSUME NEW c \in Conns PROVE Cardinality(Streams(vs, c)) <= MaxStreams
    <3>1. CASE at = "wait" \/ c # s.conn
      <4>1. Streams(vs, c) \subseteq Streams(us, c)
        BY <1>2, <1>3, <3>1 DEF Streams
      <4> QED BY <4>1, FewerStreams DEF State, Limits
    <3>2. CASE at = "lease" /\ c = s.conn
      <4>1. ASSUME NEW v \in Streams(vs, c), v # u PROVE FALSE
        <5>1. v \in Users /\ us[v].at \in {"lease", "drop"} /\ us[v].sender.conn = s.conn
          BY <1>3, <3>2, <4>1 DEF Streams
        <5>2. us[v].sender \in Senders
          BY <5>1 DEF State, Types, Has, UseRecords
        <5>3. Known(us[v].sender, p, us)
          BY <5>1 DEF Known
        <5>4. us[v].sender = s
          BY <5>1, <5>2, <5>3 DEF OnlyOne
        <5> QED BY <3>2, <5>1, <5>4 DEF Unheld
      <4>2. Streams(vs, c) \subseteq {u}
        BY <4>1
      <4>3. IsFiniteSet({u}) /\ Cardinality({u}) = 1
        BY FS_Singleton
      <4>4. IsFiniteSet(Streams(vs, c)) /\ Cardinality(Streams(vs, c)) <= 1
        BY <4>2, <4>3, FS_Subset
      <4>5. Cardinality(Streams(vs, c)) \in Nat
        BY <4>4, FS_CardinalityType
      <4> QED BY <4>4, <4>5, PoolAssumption
    <3> QED BY <3>1, <3>2
  <2> QED BY <2>1, <2>2 DEF Limits
<1>10. Routed(q, vs)
  BY <1>2, <1>3, <1>5 DEF State, Routed, Has
<1> QED BY <1>4, <1>7, <1>8, <1>9, <1>10 DEF State

\* A sender joins the list of its key, which nobody else has, or which is
\* shared.
LEMMA Pooled ==
  ASSUME NEW p, NEW us, State(p, us),
         NEW s \in Senders, OnlyOne(s, p, us), Unpooled(s, p), s.h2 \/ Unheld(s, us),
         NEW q, q \in [Keys -> Seq(Entries)],
         \A k \in Keys \ {s.key} : Drawn(p[k], q[k]),
         NEW l, Drawn(p[s.key], l), q[s.key] = Joined(l, s)
  PROVE  State(q, us)
<1>1. s.key \in Keys
  BY DEF Senders
<1>2. \A k \in Keys : p[k] \in Seq(Entries) /\ In(p[k]) \subseteq Senders
  BY InSenders DEF State, Types
<1>3. \A t \in In(l) : t.conn # s.conn
  <2> SUFFICES ASSUME NEW t \in In(l), t.conn = s.conn PROVE FALSE
    OBVIOUS
  <2>1. t \in In(p[s.key]) /\ t \in Senders
    BY <1>1, <1>2 DEF Drawn
  <2>2. t = s
    BY <1>1, <2>1 DEF Known, OnlyOne
  <2> QED BY <1>1, <2>1, <2>2 DEF Unpooled
<1>4. /\ Len(Joined(l, s)) <= MaxIdle
      /\ In(Joined(l, s)) \subseteq In(l) \union {s} /\ Distinct(Joined(l, s))
  BY <1>3, JoinedOK DEF Drawn
<1>5. \A k \in Keys : In(q[k]) \subseteq In(p[k]) \union (IF k = s.key THEN {s} ELSE {})
  BY <1>4 DEF Drawn
<1>6. Types(q, us)
  BY DEF State, Types
<1>7. \A t \in Senders : Known(t, q, us) => Known(t, p, us) \/ t = s
  BY <1>5 DEF Known
<1>8. OneEach(q, us)
  BY <1>7 DEF OneEach, OnlyOne, State
<1>9. Alone(q, us)
  <2> SUFFICES ASSUME NEW v \in Users, Has(us, v), ~us[v].sender.h2
               PROVE  /\ \A w \in Users : us[w].sender = us[v].sender => w = v
                      /\ \A k \in Keys : us[v].sender \notin In(q[k])
    BY DEF Alone
  <2>1. /\ \A w \in Users : us[w].sender = us[v].sender => w = v
        /\ \A k \in Keys : us[v].sender \notin In(p[k])
    BY DEF State, Alone
  <2>2. us[v].sender # s
    BY DEF Unheld
  <2> QED BY <1>5, <2>1, <2>2
<1>10. Limits(q, us)
  <2>1. ASSUME NEW k \in Keys PROVE Len(q[k]) <= MaxIdle /\ Distinct(q[k])
    <3>1. CASE k = s.key
      BY <1>4, <3>1
    <3>2. CASE k # s.key
      <4>1. Len(q[k]) <= Len(p[k]) /\ Len(p[k]) <= MaxIdle /\ Distinct(q[k])
        BY <3>2 DEF Drawn, State, Limits
      <4>2. Len(q[k]) \in Nat /\ Len(p[k]) \in Nat
        BY <1>2
      <4> QED BY <4>1, <4>2, PoolAssumption
    <3> QED BY <3>1, <3>2
  <2> QED BY <2>1 DEF State, Limits
<1>11. Routed(q, us)
  BY <1>5 DEF State, Routed
<1> QED BY <1>6, <1>8, <1>9, <1>10, <1>11 DEF State

\* Who waits gets a slot that is free.
LEMMA SlotGiven ==
  ASSUME NEW p, NEW us, State(p, us), NEW u \in Users, us[u].at = "wait",
         Cardinality(Streams(us, us[u].sender.conn)) < MaxStreams,
         NEW vs, Becomes(us, vs, u, Using("lease", us[u].sender, us[u].key))
  PROVE  State(p, vs)
<1> DEFINE s == us[u].sender
           r == Using("lease", s, us[u].key)
<1>1. s \in Senders /\ us[u].key = s.key /\ s.key \in Keys
  <2>1. Has(us, u) /\ us[u] \in UseRecords
    BY DEF State, Types
  <2>2. s \in Senders
    BY <2>1 DEF Has, UseRecords
  <2> QED BY <2>1, <2>2 DEF State, Routed, Senders
<1>2. r \in UseRecords /\ r.sender = s /\ r.at = "lease" /\ r.key = us[u].key /\ s # NoSender
  BY <1>1, UsingOK
<1> HIDE DEF r
<1>3. Types(p, vs) /\ vs[u] = r /\ \A v \in Users \ {u} : vs[v] = us[v]
  BY <1>2, BecomesTypes DEF State, r
<1>4. \A v \in Users : vs[v].sender = us[v].sender /\ vs[v].key = us[v].key
  BY <1>2, <1>3
<1>5. OneEach(p, vs) /\ Alone(p, vs) /\ Routed(p, vs)
  <2>1. OneEach(p, vs)
    BY <1>4 DEF State, OneEach, Known
  <2>2. Alone(p, vs)
    BY <1>4 DEF State, Alone, Has
  <2>3. Routed(p, vs)
    BY <1>4 DEF State, Routed, Has
  <2> QED BY <2>1, <2>2, <2>3
<1>6. Limits(p, vs)
  <2>1. ASSUME NEW c \in Conns PROVE Cardinality(Streams(vs, c)) <= MaxStreams
    <3>1. CASE c # s.conn
      <4>1. Streams(vs, c) \subseteq Streams(us, c)
        BY <1>2, <1>3, <3>1 DEF Streams
      <4> QED BY <4>1, FewerStreams DEF State, Limits
    <3>2. CASE c = s.conn
      <4>1. Streams(vs, c) = Streams(us, c) \union {u} /\ u \notin Streams(us, c)
        BY <1>2, <1>3, <3>2 DEF Streams
      <4>2. IsFiniteSet(Streams(us, c))
        BY FS_Subset, PoolAssumption DEF Streams
      <4>3. Cardinality(Streams(vs, c)) = Cardinality(Streams(us, c)) + 1
        BY <4>1, <4>2, FS_AddElement
      <4>4. Cardinality(Streams(us, c)) \in Nat
        BY <4>2, FS_CardinalityType
      <4> QED BY <3>2, <4>3, <4>4, PoolAssumption
    <3> QED BY <3>1, <3>2
  <2> QED BY <2>1 DEF State, Limits
<1> QED BY <1>3, <1>5, <1>6 DEF State

-----------------------------------------------------------------------------
\* The steps of the pool.
LEMMA InitOK == Init => IInv
<1> SUFFICES ASSUME Init PROVE IInv
  OBVIOUS
<1>1. pool = [k \in Keys |-> <<>>] /\ use = [u \in Users |-> Idle]
  BY DEF Init, PoolInit
<1>2. In(<<>>) = {} /\ Distinct(<<>>) /\ <<>> \in Seq(Entries) /\ Len(<<>>) = 0
  BY DEF In, Distinct
<1>3. Types(pool, use)
  BY <1>1, <1>2, WithoutOK DEF Types, Has
<1>4. OneEach(pool, use)
  BY <1>1, <1>2, WithoutOK, NoSenderIsNone DEF OneEach, Known
<1>5. Alone(pool, use) /\ Routed(pool, use)
  BY <1>1, <1>2, WithoutOK DEF Alone, Routed, Has
<1>6. Limits(pool, use)
  <2>1. \A c \in Conns : Streams(use, c) = {}
    BY <1>1, WithoutOK DEF Streams
  <2> QED BY <1>1, <1>2, <2>1, FS_EmptySet, PoolAssumption DEF Limits
<1> QED BY <1>3, <1>4, <1>5, <1>6 DEF IInv, State

LEMMA PrimedState == State(pool', use') => IInv'
BY DEF IInv

\* A list is what it was.
LEMMA SameDrawn ==
  ASSUME IInv, NEW k \in Keys
  PROVE  pool[k] \in Seq(Entries) /\ Distinct(pool[k]) /\ Drawn(pool[k], pool[k])
BY DEF IInv, State, Types, Limits, Drawn

\* Who refers to a connection is known.
LEMMA KnownReferenced ==
  ASSUME IInv, NEW t \in Senders, Known(t, pool, use)
  PROVE  t.conn \in Referenced(pool, use)
<1>1. CASE \E k \in Keys : t \in In(pool[k])
  <2>1. PICK k \in Keys : t \in In(pool[k])
    BY <1>1
  <2>2. PICK i \in 1..Len(pool[k]) : t = pool[k][i].sender
    BY <2>1 DEF In
  <2>3. DOMAIN pool[k] = 1..Len(pool[k])
    BY SameDrawn
  <2> QED BY <2>2, <2>3 DEF Referenced
<1>2. CASE \E u \in Users : use[u].sender = t
  <2>1. PICK u \in Users : use[u].sender = t
    BY <1>2
  <2> QED BY <2>1, NoSenderIsNone DEF Referenced
<1> QED BY <1>1, <1>2 DEF Known

LEMMA ChoiceOK ==
  ASSUME NEW list \in Seq(Entries), list # <<>>
  PROVE  Choice(list) \in 1..Len(list)
<1> DEFINE free == {i \in DOMAIN list : HasSlot(list[i])}
           n == Len(list)
<1>1. n \in Nat /\ n # 0 /\ DOMAIN list = 1..n
  OBVIOUS
<1>2. CASE free = {}
  BY <1>1, <1>2 DEF Choice
<1>3. CASE free # {}
  <2> DEFINE T == {n - i : i \in free}
  <2>1. T \subseteq Nat /\ T # {}
    BY <1>1, <1>3
  <2>2. PICK x \in T : \A y \in T : x <= y
    <3> HIDE DEF T
    <3> QED BY <2>1, Ring!LeastNat
  <2>3. PICK i \in free : x = n - i
    OBVIOUS
  <2>4. \A j \in free : j <= i
    <3> SUFFICES ASSUME NEW j \in free PROVE j <= i
      OBVIOUS
    <3>1. n - i <= n - j /\ i \in 1..n /\ j \in 1..n
      BY <1>1, <2>2, <2>3
    <3> QED BY <1>1, <3>1
  <2>5. Choice(list) = CHOOSE k \in free : \A j \in free : j <= k
    BY <1>3 DEF Choice
  <2>6. Choice(list) \in free
    <3> HIDE DEF free
    <3> QED BY <2>4, <2>5
  <2> QED BY <1>1, <2>6
<1> QED BY <1>2, <1>3

\* What a list of the pool becomes after a sweep of it.
LEMMA SweptPool ==
  ASSUME IInv, NEW k \in Keys
  PROVE  Swept(pool[k]) \in Seq(Entries) /\ Distinct(Swept(pool[k]))
         /\ Drawn(pool[k], Swept(pool[k]))
BY SameDrawn, SweptOK DEF Drawn

LEMMA DrawnTwice ==
  ASSUME NEW l \in Seq(Entries), NEW m, NEW n, Drawn(l, m), Drawn(m, n)
  PROVE  Drawn(l, n)
<1>1. Len(l) \in Nat /\ Len(m) \in Nat /\ Len(n) \in Nat
  BY DEF Drawn
<1> QED BY <1>1 DEF Drawn

\* One list of the pool is drawn from what it was.
LEMMA OneList ==
  ASSUME IInv, NEW k \in Keys, NEW l, Drawn(pool[k], l), NEW q, q = [pool EXCEPT ![k] = l]
  PROVE  AllDrawn(pool, q)
<1>1. pool \in [Keys -> Seq(Entries)] /\ l \in Seq(Entries)
  BY DEF IInv, State, Types, Drawn
<1>2. /\ q \in [Keys -> Seq(Entries)] /\ q[k] = l
      /\ \A x \in Keys \ {k} : q[x] = pool[x]
  BY <1>1
<1>3. ASSUME NEW x \in Keys PROVE Drawn(pool[x], q[x])
  <2>1. CASE x = k
    BY <1>2, <2>1
  <2>2. CASE x # k
    BY <1>2, <2>2, SameDrawn
  <2> QED BY <2>1, <2>2
<1> QED BY <1>2, <1>3 DEF AllDrawn

\* The pool shrinks, and one user's record with it.
LEMMA ShrinksOne ==
  ASSUME IInv, AllDrawn(pool, pool'),
         NEW u \in Users, NEW r \in UseRecords, Becomes(use, use', u, r),
         r.sender # NoSender <=> r.at \notin {"idle", "dial"},
         r.at = "dial" => r.key \in Keys,
         \/ r.sender = NoSender
         \/ /\ r.sender = use[u].sender /\ r.key = use[u].key
            /\ r.at \in {"lease", "drop"} => use[u].at \in {"lease", "drop"}
  PROVE  IInv'
<1>1. State(pool, use)
  BY DEF IInv
<1>2. Types(pool, use') /\ use'[u] = r /\ \A v \in Users \ {u} : use'[v] = use[v]
  BY <1>1, BecomesTypes DEF State
<1>3. Types(pool', use')
  BY <1>2 DEF Types, AllDrawn
<1>4. \A v \in Users : KeptOrDropped(use, use', v)
  BY <1>2 DEF KeptOrDropped, Has
<1>5. State(pool', use')
  BY <1>1, <1>3, <1>4, Shrinks
<1> QED BY <1>5, PrimedState

LEMMA SamePool ==
  ASSUME IInv, pool' = pool
  PROVE  AllDrawn(pool, pool')
BY SameDrawn DEF IInv, State, Types, AllDrawn

\* Whatever a user has, it gives up.
LEMMA IdleAgain ==
  ASSUME IInv, pool' = pool, NEW u \in Users, use' = [use EXCEPT ![u] = Idle]
  PROVE  IInv'
BY SamePool, WithoutOK, ShrinksOne DEF Becomes

LEMMA CheckoutOK ==
  ASSUME IInv, NEW u \in Users, NEW k \in Keys, Checkout(u, k)
  PROVE  IInv'
<1> DEFINE list == Swept(pool[k])
           i == Choice(list)
           s == list[i].sender
<1>1. ~Has(use, u)
  BY DEF Checkout, IInv, State, Types
<1>2. list \in Seq(Entries) /\ Distinct(list) /\ Drawn(pool[k], list)
  BY SweptPool
<1>3. CASE list = <<>>
  <2>1. /\ pool' = [pool EXCEPT ![k] = list]
        /\ Becomes(use, use', u, Using("dial", NoSender, k))
    BY <1>3 DEF Checkout, Install, Becomes
  <2>2. AllDrawn(pool, pool')
    BY <1>2, <2>1, OneList
  <2> QED BY <2>1, <2>2, WithoutOK, ShrinksOne
<1>4. CASE list # <<>>
  <2>1. i \in 1..Len(list)
    BY <1>2, <1>4, ChoiceOK
  <2>2. s \in In(list) /\ s \in In(pool[k]) /\ s \in Senders /\ s.key = k
    <3>1. s \in In(list) /\ s \in In(pool[k])
      BY <1>2, <2>1 DEF In, Drawn
    <3> QED BY <1>2, <3>1, InSenders DEF IInv, State, Routed
  <2>3. OnlyOne(s, pool, use)
    BY <2>2 DEF IInv, State, OneEach, Known, OnlyOne
  <2>4. CASE s.h2
    <3> DEFINE l == [list EXCEPT ![i].old = FALSE]
    <3>1. /\ pool' = [pool EXCEPT ![k] = l]
          /\ Becomes(use, use', u, Using("wait", s, s.key))
      BY <1>4, <2>2, <2>4 DEF Checkout, Install, Becomes
    <3>2. Drawn(list, l)
      <4> HIDE DEF list, i
      <4> QED BY <1>2, <2>1, AgeChanged
    <3>3. Drawn(pool[k], l)
      BY <1>2, <3>2, SameDrawn, DrawnTwice
    <3> HIDE DEF l
    <3>4. AllDrawn(pool, pool')
      BY <3>1, <3>3, OneList
    <3> HIDE DEF s, i, list
    <3>5. State(pool', use')
      <4>1. State(pool, use) /\ s \in Senders
        BY <2>2 DEF IInv
      <4>2. s.h2 \/ (Unpooled(s, pool') /\ Unheld(s, use))
        BY <2>4
      <4> QED BY <1>1, <2>3, <3>1, <3>4, <4>1, <4>2, Given
    <3> QED BY <3>5, PrimedState
  <2>5. CASE ~s.h2
    <3> DEFINE l == SwapRemove(list, i)
    <3>1. /\ pool' = [pool EXCEPT ![k] = l]
          /\ Becomes(use, use', u, Using("lease", s, s.key))
      BY <1>4, <2>2, <2>5 DEF Checkout, Install, RemoveTaken, Becomes
    <3>2. Drawn(list, l) /\ s \notin In(l)
      BY <1>2, <2>1, SwapRemoveOK
    <3>3. Drawn(pool[k], l)
      BY <1>2, <3>2, SameDrawn, DrawnTwice
    <3> HIDE DEF l, s, i, list
    <3>4. AllDrawn(pool, pool')
      BY <3>1, <3>3, OneList
    <3>5. Unpooled(s, pool')
      <4>1. pool'[k] = l /\ \A x \in Keys \ {k} : pool'[x] = pool[x]
        BY <3>1 DEF IInv, State, Types
      <4> QED BY <2>2, <3>2, <4>1 DEF IInv, State, Routed, Unpooled
    <3>6. Unheld(s, use)
      <4> SUFFICES ASSUME NEW v \in Users, use[v].sender = s PROVE FALSE
        BY DEF Unheld
      <4>1. Has(use, v) /\ ~use[v].sender.h2
        BY <2>2, <2>5, NoSenderIsNone DEF Has
      <4> QED BY <2>2, <4>1 DEF IInv, State, Alone
    <3>7. State(pool', use')
      <4>1. State(pool, use) /\ s \in Senders
        BY <2>2 DEF IInv
      <4> QED BY <1>1, <2>3, <3>1, <3>4, <3>5, <3>6, <4>1, Given
    <3> QED BY <3>7, PrimedState
  <2> QED BY <2>4, <2>5
<1> QED BY <1>3, <1>4

LEMMA AcquireSlotOK ==
  ASSUME IInv, NEW u \in Users, AcquireSlot(u)
  PROVE  IInv'
<1>0. Has(use, u) /\ use[u].key \in Keys
  <2>1. Has(use, u) /\ use[u] \in UseRecords
    BY DEF AcquireSlot, IInv, State, Types
  <2>2. use[u].sender \in Senders /\ use[u].key = use[u].sender.key
    BY <2>1 DEF Has, UseRecords, IInv, State, Routed
  <2> QED BY <2>1, <2>2 DEF Senders
<1>1. CASE use[u].sender.conn \in closed
  <2>1. pool' = pool /\ Becomes(use, use', u, Using("dial", NoSender, use[u].key))
    BY <1>1 DEF AcquireSlot, Install, Becomes
  <2> QED BY <1>0, <2>1, SamePool, WithoutOK, ShrinksOne
<1>2. CASE use[u].sender.conn \notin closed
  <2>1. pool' = pool /\ Becomes(use, use', u, Using("lease", use[u].sender, use[u].key))
    BY <1>2 DEF AcquireSlot, Install, Becomes
  <2>2. use[u].at = "wait" /\ Cardinality(Streams(use, use[u].sender.conn)) < MaxStreams
    BY DEF AcquireSlot, SlotFree, InUse, Streams
  <2>3. State(pool, use')
    BY <2>1, <2>2, SlotGiven DEF IInv
  <2> QED BY <2>1, <2>3, PrimedState
<1> QED BY <1>1, <1>2

\* What the pool becomes when a sender that it does not hold joins it.
LEMMA CheckedInOK ==
  ASSUME IInv, NEW s \in Senders, OnlyOne(s, pool, use), Unpooled(s, pool),
         NEW q, q = CheckedIn(s.key, s)
  PROVE  /\ q \in [Keys -> Seq(Entries)]
         /\ \A k \in Keys \ {s.key} : Drawn(pool[k], q[k])
         /\ Drawn(pool[s.key], Swept(pool[s.key]))
         /\ q[s.key] = Joined(Swept(pool[s.key]), s)
<1> DEFINE swept == [k \in Keys |-> Swept(pool[k])]
           l == Swept(pool[s.key])
<1>1. s.key \in Keys
  BY DEF Senders
<1>2. l \in Seq(Entries) /\ Distinct(l) /\ Drawn(pool[s.key], l)
  BY <1>1, SweptPool
<1>3. \A k \in Keys : Swept(pool[k]) \in Seq(Entries) /\ Drawn(pool[k], Swept(pool[k]))
  BY SweptPool
<1>4. \A t \in In(l) : t.conn # s.conn
  <2> SUFFICES ASSUME NEW t \in In(l), t.conn = s.conn PROVE FALSE
    OBVIOUS
  <2>1. t \in In(pool[s.key]) /\ pool[s.key] \in Seq(Entries)
    BY <1>1, <1>2, SameDrawn DEF Drawn
  <2>2. t \in Senders
    BY <2>1, InSenders
  <2>3. t = s
    BY <1>1, <2>1, <2>2 DEF Known, OnlyOne
  <2> QED BY <1>1, <2>1, <2>3 DEF Unpooled
<1>5. Joined(l, s) \in Seq(Entries)
  BY <1>2, <1>4, JoinedOK
<1>6. swept \in [Keys -> Seq(Entries)] /\ swept[s.key] = l
  BY <1>1, <1>3
<1>7. q = [swept EXCEPT ![s.key] = Joined(l, s)]
  BY <1>6 DEF CheckedIn, Joined
<1>8. /\ q \in [Keys -> Seq(Entries)] /\ q[s.key] = Joined(l, s)
      /\ \A k \in Keys \ {s.key} : q[k] = swept[k]
  <2> HIDE DEF swept, l
  <2> QED BY <1>1, <1>5, <1>6, <1>7
<1>9. \A k \in Keys \ {s.key} : Drawn(pool[k], q[k])
  BY <1>3, <1>8
<1> QED BY <1>2, <1>8, <1>9

\* A connection that is dialed has a name that nobody knows.
LEMMA DialOK ==
  ASSUME IInv, NEW u \in Users, Dial(u)
  PROVE  IInv'
<1>1. PICK h2 \in Negotiated(use[u].key) :
        LET c == CHOOSE d \in Conns : d \notin Referenced(pool, use)
            s == Sender(c, use[u].key, h2) IN
        /\ pool' = IF h2 THEN CheckedIn(s.key, s) ELSE pool
        /\ use' = [use EXCEPT ![u] = Using("lease", s, @.key)]
  BY DEF Dial, Install
<1> DEFINE c == CHOOSE d \in Conns : d \notin Referenced(pool, use)
           s == Sender(c, use[u].key, h2)
<1>2. use[u].at = "dial" /\ ~Has(use, u) /\ use[u].key \in Keys
  BY DEF Dial, IInv, State, Types
<1>3. c \in Conns /\ c \notin Referenced(pool, use)
  <2>1. \E d \in Conns : d \notin Referenced(pool, use)
    BY DEF Dial
  <2> QED BY <2>1
<1> HIDE DEF c
<1>4. h2 \in BOOLEAN
  BY DEF Negotiated
<1>5. s \in Senders /\ s.key = use[u].key /\ s.conn = c /\ s.h2 = h2
  BY <1>2, <1>3, <1>4 DEF Sender, Senders
<1>6. /\ pool' = IF h2 THEN CheckedIn(s.key, s) ELSE pool
      /\ Becomes(use, use', u, Using("lease", s, s.key))
  <2>1. use' = [use EXCEPT ![u] = Using("lease", s, use[u].key)]
    BY <1>1 DEF c
  <2> QED BY <1>1, <1>5, <2>1 DEF c, Becomes
<1> HIDE DEF s
<1>7. \A t \in Senders : Known(t, pool, use) => t.conn # s.conn
  BY <1>3, <1>5, KnownReferenced
<1>8. OnlyOne(s, pool, use) /\ Unpooled(s, pool) /\ Unheld(s, use)
  BY <1>5, <1>7 DEF OnlyOne, Unpooled, Unheld, Known
<1>9. State(pool, use) /\ AllDrawn(pool, pool)
  BY SameDrawn DEF AllDrawn, IInv, State, Types
<1>10. State(pool, use')
  BY <1>2, <1>5, <1>6, <1>8, <1>9, Given
<1>11. OnlyOne(s, pool, use')
  <2> SUFFICES ASSUME NEW t \in Senders, Known(t, pool, use'), t.conn = s.conn, t # s
               PROVE  FALSE
    BY DEF OnlyOne
  <2>1. use'[u].sender = s /\ \A v \in Users \ {u} : use'[v] = use[v]
    BY <1>6, <1>9 DEF Becomes, Using, State, Types
  <2>2. Known(t, pool, use)
    BY <2>1 DEF Known
  <2> QED BY <1>7, <2>2
<1>12. State(pool', use')
  <2>1. CASE h2
    <3>1. pool' = CheckedIn(s.key, s) /\ s.h2
      BY <1>5, <1>6, <2>1
    <3>2. /\ pool' \in [Keys -> Seq(Entries)]
          /\ \A k \in Keys \ {s.key} : Drawn(pool[k], pool'[k])
          /\ Drawn(pool[s.key], Swept(pool[s.key]))
          /\ pool'[s.key] = Joined(Swept(pool[s.key]), s)
      BY <1>5, <1>8, <3>1, CheckedInOK
    <3> QED BY <1>5, <1>8, <1>10, <1>11, <3>1, <3>2, Pooled
  <2>2. CASE ~h2
    BY <1>6, <1>10, <2>2
  <2> QED BY <2>1, <2>2
<1> QED BY <1>12, PrimedState

\* An HTTP/1 sender goes from its user to the list of its key.
LEMMA ReleaseH1OK ==
  ASSUME IInv, NEW u \in Users, ReleaseH1(u)
  PROVE  IInv'
<1> DEFINE s == use[u].sender
<1>1. /\ use' = [use EXCEPT ![u] = Idle]
      /\ pool' = IF s.conn \in closed THEN pool ELSE CheckedIn(s.key, s)
      /\ ~s.h2 /\ use[u].at = "lease"
  BY DEF ReleaseH1, Install, KeyOf
<1>2. State(pool, use) /\ AllDrawn(pool, pool)
  BY SameDrawn DEF AllDrawn, IInv, State, Types
<1>3. Has(use, u) /\ s \in Senders
  <2>1. Has(use, u) /\ use[u] \in UseRecords
    BY <1>1, <1>2 DEF State, Types
  <2> QED BY <2>1 DEF Has, UseRecords
<1>4. Types(pool, use') /\ use'[u] = Idle /\ \A v \in Users \ {u} : use'[v] = use[v]
  <2>1. Types(pool, use) /\ Becomes(use, use', u, Idle)
    BY <1>1, <1>2 DEF State, Becomes
  <2>2. /\ Idle.sender # NoSender <=> Idle.at \notin {"idle", "dial"}
        /\ Idle.at = "dial" => Idle.key \in Keys
    BY WithoutOK
  <2> QED BY <2>1, <2>2, WithoutOK, BecomesTypes
<1>5. State(pool, use')
  <2>1. \A v \in Users : KeptOrDropped(use, use', v)
    BY <1>4, WithoutOK DEF KeptOrDropped, Has
  <2> QED BY <1>2, <1>4, <2>1, Shrinks
<1> HIDE DEF s
<1>6. /\ \A v \in Users : use[v].sender = s => v = u
      /\ \A k \in Keys : s \notin In(pool[k])
  BY <1>1, <1>2, <1>3 DEF State, Alone, s
<1>7. Unpooled(s, pool) /\ Unheld(s, use')
  <2>1. Unpooled(s, pool)
    BY <1>6 DEF Unpooled
  <2>2. ASSUME NEW v \in Users, use'[v].sender = s PROVE FALSE
    BY <1>3, <1>4, <1>6, <2>2, WithoutOK, NoSenderIsNone
  <2> QED BY <2>1, <2>2 DEF Unheld
<1>8. OnlyOne(s, pool, use)
  BY <1>2, <1>3 DEF s, OnlyOne, State, OneEach, Known
<1>9. OnlyOne(s, pool, use')
  <2> SUFFICES ASSUME NEW t \in Senders, Known(t, pool, use') PROVE Known(t, pool, use)
    BY <1>8 DEF OnlyOne
  <2> QED BY <1>4, WithoutOK, NoSenderIsNone DEF Known
<1>10. CASE s.conn \in closed
  BY <1>1, <1>5, <1>10, PrimedState DEF s
<1>11. CASE s.conn \notin closed
  <2>1. pool' = CheckedIn(s.key, s)
    BY <1>1, <1>11 DEF s
  <2>2. /\ pool' \in [Keys -> Seq(Entries)]
        /\ \A k \in Keys \ {s.key} : Drawn(pool[k], pool'[k])
        /\ Drawn(pool[s.key], Swept(pool[s.key]))
        /\ pool'[s.key] = Joined(Swept(pool[s.key]), s)
    BY <1>3, <1>7, <1>8, <2>1, CheckedInOK DEF s
  <2>3. State(pool', use')
    BY <1>3, <1>5, <1>7, <1>9, <2>2, Pooled DEF s
  <2> QED BY <2>3, PrimedState
<1> QED BY <1>10, <1>11

\* The handle of an HTTP/2 connection is fresh again.
LEMMA ReleaseH2OK ==
  ASSUME IInv, NEW u \in Users, ReleaseH2(u)
  PROVE  IInv'
<1> DEFINE s == use[u].sender
           fresh(e) == IF e.sender.conn = s.conn THEN [e EXCEPT !.old = FALSE] ELSE e
           l == [i \in DOMAIN pool[s.key] |-> fresh(pool[s.key][i])]
           r == [use[u] EXCEPT !.at = "drop"]
<1>1. Has(use, u) /\ use[u] \in UseRecords /\ use[u].at = "lease"
  BY DEF ReleaseH2, IInv, State, Types
<1>2. s \in Senders /\ s.key \in Keys
  BY <1>1 DEF Has, UseRecords, Senders
<1>3. pool' = [pool EXCEPT ![s.key] = l] /\ Becomes(use, use', u, r)
  BY <1>2 DEF ReleaseH2, Install, Becomes, IInv, State, Types
<1>4. /\ r \in UseRecords /\ r.at = "drop" /\ r.sender = s /\ r.key = use[u].key
      /\ r.sender # NoSender
  BY <1>1 DEF UseRecords, Has
<1>5. Drawn(pool[s.key], l)
  <2> DEFINE m == pool[s.key]
  <2>1. m \in Seq(Entries) /\ Distinct(m)
    BY <1>2, SameDrawn
  <2>2. \A e \in Entries : fresh(e) \in Entries /\ fresh(e).sender = e.sender
    BY DEF Entries
  <2> HIDE DEF m, fresh
  <2>3. l = [i \in 1..Len(m) |-> fresh(m[i])] /\ \A i \in 1..Len(m) : m[i] \in Entries
    BY <2>1 DEF m
  <2>4. l \in Seq(Entries) /\ Len(l) = Len(m)
    <3>1. l \in [1..Len(m) -> Entries] /\ Len(m) \in Nat
      BY <2>1, <2>2, <2>3
    <3> HIDE DEF l
    <3> QED BY <2>3, <3>1
  <2>5. \A i \in 1..Len(m) : l[i].sender = m[i].sender
    BY <2>2, <2>3
  <2> HIDE DEF l
  <2>6. Drawn(m, l)
    BY <2>1, <2>4, <2>5, SameSenders
  <2> QED BY <2>6 DEF m
<1> HIDE DEF l, r
<1>6. AllDrawn(pool, pool')
  BY <1>2, <1>3, <1>5, OneList
<1> QED BY <1>1, <1>3, <1>4, <1>6, ShrinksOne

\* A connection grows old.
LEMMA GrowOldOK ==
  ASSUME IInv, NEW k \in Keys, NEW i, GrowOld(k, i)
  PROVE  IInv'
<1> DEFINE l == [pool[k] EXCEPT ![i].old = TRUE]
<1>1. i \in 1..Len(pool[k]) /\ pool' = [pool EXCEPT ![k] = l] /\ use' = use
  BY SameDrawn DEF GrowOld, Install
<1>2. Drawn(pool[k], l)
  BY <1>1, SameDrawn, AgeChanged
<1> HIDE DEF l
<1>3. AllDrawn(pool, pool')
  BY <1>1, <1>2, OneList
<1>4. State(pool, use) /\ Types(pool', use')
  BY <1>1, <1>3 DEF IInv, State, Types, AllDrawn
<1>5. \A v \in Users : KeptOrDropped(use, use', v)
  BY <1>1 DEF KeptOrDropped
<1>6. State(pool', use')
  BY <1>3, <1>4, <1>5, Shrinks
<1> QED BY <1>6, PrimedState

-----------------------------------------------------------------------------
\* The steps of the server.
LEMMA PoolStepOK ==
  ASSUME IInv, NEW u \in Users, PoolStep(u)
  PROVE  IInv'
<1>1. CASE DialFails(u)
  BY <1>1, IdleAgain DEF DialFails, Install
<1>2. CASE GiveUp(u)
  BY <1>2, IdleAgain DEF GiveUp, Install
<1>3. CASE DropSlot(u)
  BY <1>3, IdleAgain DEF DropSlot, Install
<1> QED
  BY <1>1, <1>2, <1>3, AcquireSlotOK, DialOK, ReleaseH1OK, ReleaseH2OK DEF PoolStep

\* An upgraded connection stays its user's.
LEMMA UpgradeOK ==
  ASSUME IInv, NEW u \in Users, Upgrade(u)
  PROVE  IInv'
<1> DEFINE r == [use[u] EXCEPT !.at = "relay"]
<1>1. Has(use, u) /\ use[u] \in UseRecords
  BY DEF Upgrade, Handshake, IInv, State, Types
<1>2. pool' = pool /\ Becomes(use, use', u, r)
  BY DEF Upgrade, Becomes
<1>3. /\ r \in UseRecords /\ r.at = "relay" /\ r.sender = use[u].sender
      /\ r.key = use[u].key /\ r.sender # NoSender
  BY <1>1 DEF UseRecords, Has
<1> HIDE DEF r
<1> QED BY <1>2, <1>3, SamePool, ShrinksOne

\* What the listener's tasks used is dropped.
LEMMA DrainTimeoutOK ==
  ASSUME IInv, DrainTimeout
  PROVE  IInv'
<1>1. /\ pool' = pool
      /\ use' = [u \in Users |-> IF u \in Aborted THEN Idle ELSE use[u]]
  BY DEF DrainTimeout, Install, Clients
<1>2. State(pool, use) /\ AllDrawn(pool, pool')
  BY <1>1, SamePool DEF IInv
<1>3. \A u \in Users : use'[u] = Idle \/ use'[u] = use[u]
  BY <1>1
<1>4. Types(pool', use')
  <2>1. \A u \in Users : use[u] \in UseRecords
    BY <1>2 DEF State, Types
  <2>2. use' \in [Users -> UseRecords]
    BY <1>1, <2>1, WithoutOK
  <2>3. ASSUME NEW u \in Users
        PROVE  /\ Has(use', u) <=> use'[u].at \notin {"idle", "dial"}
               /\ use'[u].at = "dial" => use'[u].key \in Keys
    BY <1>2, <1>3, WithoutOK DEF State, Types, Has
  <2> QED BY <1>2, <2>2, <2>3 DEF Types, AllDrawn
<1>5. \A u \in Users : KeptOrDropped(use, use', u)
  BY <1>3, WithoutOK DEF KeptOrDropped, Has
<1>6. State(pool', use')
  BY <1>2, <1>4, <1>5, Shrinks
<1> QED BY <1>6, PrimedState

LEMMA UnchangedOK ==
  ASSUME IInv, UNCHANGED <<pool, use>>
  PROVE  IInv'
BY DEF IInv

LEMMA NextOK ==
  ASSUME IInv, [Next]_vars
  PROVE  IInv'
<1>1. CASE UNCHANGED vars
  BY <1>1, UnchangedOK DEF vars
<1>2. ASSUME NEW c \in Clients, ClientStep(c) PROVE IInv'
  <2>0. c \in Users
    BY DEF Clients
  <2>1. CASE Request(c)
    BY <2>0, <2>1, CheckoutOK DEF Request
  <2>2. CASE Upgrade(c)
    BY <2>0, <2>2, UpgradeOK
  <2>3. CASE Decline(c)
    BY <2>0, <2>3, IdleAgain DEF Decline, GiveUp, Install
  <2>4. CASE End(c)
    BY <2>0, <2>4, IdleAgain DEF End, Install
  <2>5. CASE Progress(c)
    BY <2>0, <2>5, PoolStepOK DEF Progress, Served
  <2>6. CASE \/ Accept(c) \/ Connect(c) \/ TunnelPlain(c) \/ TunnelBlind(c) \/ TunnelEnds(c)
             \/ (\E h \in Hosts : TunnelTls(c, h))
             \/ (\E size \in 0..MaxBytes : Relay(c, size))
    BY <2>6, UnchangedOK
       DEF Accept, Connect, TunnelPlain, TunnelBlind, TunnelEnds, TunnelTls, Relay
  <2> QED BY <1>2, <2>1, <2>2, <2>3, <2>4, <2>5, <2>6 DEF ClientStep
<1>3. CASE Outside
  <2>1. CASE \E k \in Keys : \E i \in 1..MaxIdle : GrowOld(k, i)
    BY <2>1, GrowOldOK
  <2>2. CASE \E c \in Conns : PeerCloses(c)
    BY <2>2, UnchangedOK DEF PeerCloses
  <2> QED BY <1>3, <2>1, <2>2 DEF Outside, Surroundings
<1>4. CASE Shutdown \/ Drained
  BY <1>4, UnchangedOK DEF Shutdown, Drained
<1>5. CASE DrainTimeout
  BY <1>5, DrainTimeoutOK
<1> QED BY <1>1, <1>2, <1>3, <1>4, <1>5 DEF Next

LEMMA Inductive == Spec => []IInv
<1>1. Init => IInv
  BY InitOK
<1>2. IInv /\ [Next]_vars => IInv'
  BY NextOK
<1> QED BY <1>1, <1>2, PTL DEF Spec

-----------------------------------------------------------------------------
\* The connection of a place of the pool is that of a sender of its list.
LEMMA PlaceSender ==
  ASSUME IInv, NEW c \in Conns, NEW p \in Places(c)
  PROVE  /\ p[1] \in Keys /\ p[2] \in 1..Len(pool[p[1]])
         /\ p = <<p[1], p[2]>>
         /\ pool[p[1]][p[2]].sender \in In(pool[p[1]])
         /\ pool[p[1]][p[2]].sender \in Senders
         /\ pool[p[1]][p[2]].sender.conn = c
<1>1. p[1] \in Keys /\ p[2] \in DOMAIN pool[p[1]] /\ p = <<p[1], p[2]>>
  BY DEF Places
<1>2. p[2] \in 1..Len(pool[p[1]])
  BY <1>1, SameDrawn
<1>3. pool[p[1]][p[2]].sender \in In(pool[p[1]])
  BY <1>2 DEF In
<1>4. pool[p[1]][p[2]].sender \in Senders
  BY <1>1, <1>3, SameDrawn, InSenders
<1> QED BY <1>1, <1>2, <1>3, <1>4 DEF Places

\* A set whose members are all the same is of at most one.
LEMMA AtMostOne ==
  ASSUME NEW S, \A x, y \in S : x = y
  PROVE  IsFiniteSet(S) /\ Cardinality(S) <= 1 /\ Cardinality(S) \in Nat
<1>1. CASE S = {}
  BY <1>1, FS_EmptySet
<1>2. CASE S # {}
  <2>1. PICK x \in S : TRUE
    BY <1>2
  <2>2. S = {x}
    BY <2>1
  <2>3. IsFiniteSet({x}) /\ Cardinality({x}) = 1
    BY FS_Singleton
  <2> QED BY <2>2, <2>3
<1> QED BY <1>1, <1>2

\* A connection is pooled at most once.
LEMMA OnePlace ==
  ASSUME IInv, NEW c \in Conns
  PROVE  \A p, q \in Places(c) : p = q
<1> SUFFICES ASSUME NEW p \in Places(c), NEW q \in Places(c) PROVE p = q
  OBVIOUS
<1> DEFINE s == pool[p[1]][p[2]].sender
           t == pool[q[1]][q[2]].sender
<1>1. /\ p[1] \in Keys /\ p[2] \in 1..Len(pool[p[1]]) /\ p = <<p[1], p[2]>>
      /\ s \in In(pool[p[1]]) /\ s \in Senders /\ s.conn = c
  BY PlaceSender
<1>2. /\ q[1] \in Keys /\ q[2] \in 1..Len(pool[q[1]]) /\ q = <<q[1], q[2]>>
      /\ t \in In(pool[q[1]]) /\ t \in Senders /\ t.conn = c
  BY PlaceSender
<1>3. s = t /\ p[1] = q[1]
  <2> HIDE DEF s, t
  <2>1. s = t
    BY <1>1, <1>2 DEF IInv, State, OneEach, Known
  <2>2. s.key = p[1] /\ t.key = q[1]
    BY <1>1, <1>2 DEF IInv, State, Routed
  <2> QED BY <2>1, <2>2
<1>4. p[2] = q[2]
  <2>1. Distinct(pool[p[1]])
    BY <1>1, SameDrawn
  <2> QED BY <1>1, <1>2, <1>3, <2>1 DEF Distinct
<1> QED BY <1>1, <1>2, <1>3, <1>4

\* An owner of a connection has the sender that every other reference is to.
LEMMA OwnerSender ==
  ASSUME IInv, NEW c \in Conns, NEW u \in Owners(c)
  PROVE  /\ u \in Users /\ Has(use, u) /\ use[u].sender \in Senders
         /\ use[u].sender.conn = c
         /\ \A t \in Senders : Known(t, pool, use) /\ t.conn = c => t = use[u].sender
<1>1. u \in Users /\ Has(use, u) /\ use[u] \in UseRecords /\ use[u].sender.conn = c
  BY DEF Owners, Holding, Has, IInv, State, Types
<1>2. use[u].sender \in Senders
  BY <1>1 DEF Has, UseRecords
<1> QED BY <1>1, <1>2 DEF IInv, State, OneEach, Known

\* Whoever holds an HTTP/1 connection, its own sender among them.
LEMMA NotShared == IInv => NoSharedH1
<1> SUFFICES ASSUME IInv, NEW c \in Conns
             PROVE  /\ Cardinality(Places(c)) <= 1
                    /\ ~SpeaksH2(c) => Cardinality(Owners(c)) + Cardinality(Places(c)) <= 1
  BY DEF NoSharedH1
<1>1. Cardinality(Places(c)) <= 1 /\ Cardinality(Places(c)) \in Nat
  BY OnePlace, AtMostOne
<1>2. ASSUME ~SpeaksH2(c)
      PROVE  Cardinality(Owners(c)) + Cardinality(Places(c)) <= 1
  <2>1. CASE Owners(c) = {}
    BY <1>1, <2>1, FS_EmptySet
  <2>2. CASE Owners(c) # {}
    <3>1. PICK u \in Owners(c) : TRUE
      BY <2>2
    <3>2. /\ u \in Users /\ Has(use, u) /\ use[u].sender \in Senders
          /\ \A t \in Senders : Known(t, pool, use) /\ t.conn = c => t = use[u].sender
      BY <3>1, OwnerSender
    <3>3. ~use[u].sender.h2
      BY <1>2, <3>1 DEF SpeaksH2
    <3>4. /\ \A v \in Users : use[v].sender = use[u].sender => v = u
          /\ \A k \in Keys : use[u].sender \notin In(pool[k])
      BY <3>2, <3>3 DEF IInv, State, Alone
    <3>5. \A v \in Owners(c) : v = u
      <4> SUFFICES ASSUME NEW v \in Owners(c) PROVE v = u
        OBVIOUS
      <4>1. v \in Users /\ use[v].sender \in Senders /\ use[v].sender.conn = c
        BY OwnerSender
      <4>2. use[v].sender = use[u].sender
        BY <3>2, <4>1 DEF Known
      <4> QED BY <3>4, <4>1, <4>2
    <3>6. Places(c) = {}
      <4> SUFFICES ASSUME NEW p \in Places(c) PROVE FALSE
        OBVIOUS
      <4> DEFINE t == pool[p[1]][p[2]].sender
      <4>1. p[1] \in Keys /\ t \in In(pool[p[1]]) /\ t \in Senders /\ t.conn = c
        BY PlaceSender
      <4> HIDE DEF t
      <4>2. t = use[u].sender
        BY <3>2, <4>1 DEF Known
      <4> QED BY <3>4, <4>1, <4>2
    <3>7. Cardinality(Owners(c)) <= 1 /\ Cardinality(Owners(c)) \in Nat
      BY <3>5, AtMostOne
    <3> QED BY <3>6, <3>7, FS_EmptySet
  <2> QED BY <2>1, <2>2
<1> QED BY <1>1, <1>2

\* However clients, upstreams, timeouts and the shutdown interleave, an HTTP/1
\* connection has one user or one place in the pool (Pool::checkout, checkin
\* and release), and no connection is pooled twice.
THEOREM ConnectionsAreNotShared == Spec => []NoSharedH1
<1>1. IInv => NoSharedH1
  BY NotShared
<1> QED BY <1>1, Inductive, PTL

\* No connection carries more streams than it has slots, and no key's list
\* grows beyond its limit.
THEOREM PoolStaysBounded == Spec => []PoolBounded
<1>1. IInv => PoolBounded
  <2> SUFFICES ASSUME IInv PROVE PoolBounded
    OBVIOUS
  <2>1. \A c \in Conns : InUse(c) = Streams(use, c)
    BY DEF InUse, Streams
  <2> QED BY <2>1 DEF IInv, State, Limits, PoolBounded
<1> QED BY <1>1, Inductive, PTL

\* A request goes over a connection made for its key, and a key's list holds
\* only those.
THEOREM RoutesAreRight == Spec => []RightRoute
<1>1. IInv => RightRoute
  <2> SUFFICES ASSUME IInv PROVE RightRoute
    OBVIOUS
  <2>1. \A u \in Users : Holding(u) => use[u].sender.key = use[u].key
    BY DEF IInv, State, Routed, Has, Holding
  <2>2. ASSUME NEW k \in Keys, NEW i \in DOMAIN pool[k] PROVE pool[k][i].sender.key = k
    <3>1. i \in 1..Len(pool[k])
      BY SameDrawn
    <3>2. pool[k][i].sender \in In(pool[k])
      BY <3>1 DEF In
    <3> QED BY <3>2 DEF IInv, State, Routed
  <2> QED BY <2>1, <2>2 DEF RightRoute
<1> QED BY <1>1, Inductive, PTL

-----------------------------------------------------------------------------
\* Open HTTP/2 connections on which a stream is in use, and that a list keeps
\* them while it has room.
Busy(s) == s.h2 /\ s.conn \notin closed /\ InUse(s.conn) # {}
Keeps(l, m) == Len(m) < MaxIdle => \A s \in In(l) : Busy(s) => s \in In(m)

LEMMA BusyIsKept ==
  ASSUME IInv, NEW e \in Entries, Busy(e.sender)
  PROVE  Kept(e)
<1> DEFINE c == e.sender.conn
           a == Cardinality(InUse(c))
           w == Cardinality(Waiters(c))
<1>1. IsFiniteSet(InUse(c)) /\ IsFiniteSet(Waiters(c))
  BY FS_Subset, PoolAssumption DEF InUse, Waiters
<1>2. a \in Nat /\ w \in Nat /\ a # 0
  BY <1>1, FS_CardinalityType, FS_EmptySet DEF Busy
<1>3. Available(c) = IF MaxStreams - a - w > 0 THEN MaxStreams - a - w ELSE 0
  BY DEF Available
<1> HIDE DEF a, w
<1>4. Available(c) < MaxStreams
  BY <1>2, <1>3, PoolAssumption
<1> QED BY <1>4 DEF Kept, Busy

LEMMA SweptKeeps ==
  ASSUME IInv, NEW k \in Keys
  PROVE  \A s \in In(pool[k]) : Busy(s) => s \in In(Swept(pool[k]))
<1> SUFFICES ASSUME NEW s \in In(pool[k]), Busy(s) PROVE s \in In(Swept(pool[k]))
  OBVIOUS
<1>1. pool[k] \in Seq(Entries) /\ Distinct(pool[k])
  BY SameDrawn
<1>2. PICK i \in 1..Len(pool[k]) : s = pool[k][i].sender
  BY DEF In
<1>3. pool[k][i] \in Entries
  BY <1>1, <1>2
<1>4. Kept(pool[k][i])
  BY <1>2, <1>3, BusyIsKept
<1> QED BY <1>1, <1>2, <1>4, SweptOK

\* Only the one that is taken out of a list is gone.
LEMMA OthersStay ==
  ASSUME NEW l \in Seq(Entries), NEW i \in 1..Len(l)
  PROVE  \A s \in In(l) : s # l[i].sender => s \in In(SwapRemove(l, i))
<1> SUFFICES ASSUME NEW j \in 1..Len(l), l[j].sender # l[i].sender
             PROVE  l[j].sender \in In(SwapRemove(l, i))
  BY DEF In
<1> DEFINE m == SwapRemove(l, i)
           n == Len(l)
           at == IF j = n THEN i ELSE j
<1>1. m = [x \in 1..(n - 1) |-> IF x = i THEN l[n] ELSE l[x]] /\ n \in Nat
  BY DEF SwapRemove
<1> HIDE DEF m
<1>2. j # i /\ at \in 1..(n - 1)
  OBVIOUS
<1>3. m[at] = l[j] /\ Len(m) = n - 1
  BY <1>1, <1>2
<1> QED BY <1>2, <1>3 DEF In, m

\* Ages change, and no sender.
LEMMA AgeKeeps ==
  ASSUME NEW l \in Seq(Entries), NEW i \in 1..Len(l), NEW b \in BOOLEAN
  PROVE  In([l EXCEPT ![i].old = b]) = In(l)
<1> DEFINE e == [l[i] EXCEPT !.old = b]
           m == [l EXCEPT ![i] = e]
<1>1. l[i] \in Entries
  OBVIOUS
<1>2. e \in Entries /\ e.sender = l[i].sender
  BY <1>1 DEF Entries
<1> HIDE DEF e
<1>3. /\ Len(m) = Len(l) /\ m[i] = e /\ \A j \in 1..Len(l) : j # i => m[j] = l[j]
  BY <1>2
<1> HIDE DEF m
<1>4. \A j \in 1..Len(l) : m[j].sender = l[j].sender
  BY <1>2, <1>3
<1>5. In(m) = In(l)
  BY <1>3, <1>4 DEF In
<1> QED BY <1>5 DEF m, e

AllKept == \A k \in Keys : Keeps(pool[k], pool'[k])

\* One list changes.
LEMMA OneKeeps ==
  ASSUME IInv, NEW k \in Keys, NEW l, Keeps(pool[k], l), pool' = [pool EXCEPT ![k] = l]
  PROVE  AllKept
<1>1. pool'[k] = l /\ \A x \in Keys \ {k} : pool'[x] = pool[x]
  BY DEF IInv, State, Types
<1> QED BY <1>1 DEF AllKept, Keeps

LEMMA CheckoutKeeps ==
  ASSUME IInv, NEW u \in Users, NEW k \in Keys, Checkout(u, k)
  PROVE  AllKept
<1> DEFINE list == Swept(pool[k])
           i == Choice(list)
           s == list[i].sender
<1>1. list \in Seq(Entries) /\ \A t \in In(pool[k]) : Busy(t) => t \in In(list)
  BY SweptPool, SweptKeeps
<1>2. CASE list = <<>>
  <2>1. pool' = [pool EXCEPT ![k] = list]
    BY <1>2 DEF Checkout, Install
  <2> QED BY <1>1, <2>1, OneKeeps DEF Keeps
<1>3. CASE list # <<>>
  <2>1. i \in 1..Len(list)
    BY <1>1, <1>3, ChoiceOK
  <2>2. CASE s.h2
    <3> DEFINE l == [list EXCEPT ![i].old = FALSE]
    <3>1. pool' = [pool EXCEPT ![k] = l]
      BY <1>3, <2>2 DEF Checkout, Install
    <3>2. In(l) = In(list)
      <4> HIDE DEF list, i
      <4> QED BY <1>1, <2>1, AgeKeeps
    <3> HIDE DEF l
    <3> QED BY <1>1, <3>1, <3>2, OneKeeps DEF Keeps
  <2>3. CASE ~s.h2
    <3> DEFINE l == SwapRemove(list, i)
    <3>1. pool' = [pool EXCEPT ![k] = l]
      BY <1>3, <2>3 DEF Checkout, Install, RemoveTaken
    <3>2. \A t \in In(list) : t # s => t \in In(l)
      BY <1>1, <2>1, OthersStay
    <3> HIDE DEF l
    <3>3. \A t \in In(pool[k]) : Busy(t) => t \in In(l)
      BY <1>1, <2>3, <3>2 DEF Busy
    <3> QED BY <3>1, <3>3, OneKeeps DEF Keeps
  <2> QED BY <2>2, <2>3
<1> QED BY <1>2, <1>3

\* A sender that the pool does not hold joins it.
LEMMA CheckedInKeeps ==
  ASSUME IInv, NEW s \in Senders, OnlyOne(s, pool, use), Unpooled(s, pool),
         pool' = CheckedIn(s.key, s)
  PROVE  AllKept
<1> SUFFICES ASSUME NEW k \in Keys PROVE Keeps(pool[k], pool'[k])
  BY DEF AllKept
<1> DEFINE list == Swept(pool[k])
<1>1. /\ list \in Seq(Entries) /\ Distinct(list) /\ Drawn(pool[k], list)
      /\ \A t \in In(pool[k]) : Busy(t) => t \in In(list)
  BY SweptPool, SweptKeeps
<1>2. pool' = [[x \in Keys |-> Swept(pool[x])] EXCEPT ![s.key] = Joined(Swept(pool[s.key]), s)]
  BY DEF CheckedIn, Joined, Senders
<1>3. CASE k # s.key
  <2>1. pool'[k] = list
    BY <1>2, <1>3
  <2> QED BY <1>1, <2>1 DEF Keeps
<1>4. CASE k = s.key
  <2>1. pool'[k] = Joined(list, s)
    BY <1>2, <1>4
  <2> HIDE DEF list
  <2>2. \A t \in In(list) : t.conn # s.conn
    <3> SUFFICES ASSUME NEW t \in In(list), t.conn = s.conn PROVE FALSE
      OBVIOUS
    <3>1. t \in In(pool[k]) /\ pool[k] \in Seq(Entries)
      BY <1>1, SameDrawn DEF Drawn
    <3>2. t \in Senders
      BY <3>1, InSenders
    <3> QED BY <3>1, <3>2 DEF Known, OnlyOne, Unpooled
  <2>3. Len(Joined(list, s)) < MaxIdle => In(Joined(list, s)) = In(list) \union {s}
    BY <1>1, <2>2, JoinedOK
  <2> QED BY <1>1, <2>1, <2>3 DEF Keeps
<1> QED BY <1>3, <1>4

LEMMA DialKeeps ==
  ASSUME IInv, NEW u \in Users, Dial(u)
  PROVE  AllKept
<1>1. PICK h2 \in Negotiated(use[u].key) :
        LET c == CHOOSE d \in Conns : d \notin Referenced(pool, use)
            s == Sender(c, use[u].key, h2) IN
        pool' = IF h2 THEN CheckedIn(s.key, s) ELSE pool
  BY DEF Dial, Install
<1> DEFINE c == CHOOSE d \in Conns : d \notin Referenced(pool, use)
           s == Sender(c, use[u].key, h2)
<1>2. c \in Conns /\ c \notin Referenced(pool, use)
  <2>1. \E d \in Conns : d \notin Referenced(pool, use)
    BY DEF Dial
  <2> QED BY <2>1
<1>3. pool' = IF h2 THEN CheckedIn(s.key, s) ELSE pool
  BY <1>1
<1> HIDE DEF c
<1>4. s \in Senders /\ s.conn = c
  <2>1. use[u].key \in Keys /\ h2 \in BOOLEAN
    BY DEF Dial, IInv, State, Types, Negotiated
  <2> QED BY <1>2, <2>1 DEF Sender, Senders
<1> HIDE DEF s
<1>5. \A t \in Senders : Known(t, pool, use) => t.conn # s.conn
  BY <1>2, <1>4, KnownReferenced
<1>6. OnlyOne(s, pool, use) /\ Unpooled(s, pool)
  BY <1>4, <1>5 DEF OnlyOne, Unpooled, Known
<1>7. CASE h2
  BY <1>3, <1>4, <1>6, <1>7, CheckedInKeeps
<1>8. CASE ~h2
  BY <1>3, <1>8 DEF AllKept, Keeps
<1> QED BY <1>7, <1>8

LEMMA ReleaseKeeps ==
  ASSUME IInv, NEW u \in Users, ReleaseH1(u)
  PROVE  AllKept
<1> DEFINE s == use[u].sender
<1>1. /\ pool' = IF s.conn \in closed THEN pool ELSE CheckedIn(s.key, s)
      /\ ~s.h2 /\ use[u].at = "lease"
  BY DEF ReleaseH1, Install, KeyOf
<1>2. Has(use, u) /\ use[u] \in UseRecords
  BY <1>1 DEF IInv, State, Types
<1>3. s \in Senders
  BY <1>2 DEF Has, UseRecords
<1>4. OnlyOne(s, pool, use) /\ Unpooled(s, pool)
  <2>1. OnlyOne(s, pool, use)
    BY <1>3 DEF OnlyOne, IInv, State, OneEach, Known
  <2>2. Unpooled(s, pool)
    BY <1>1, <1>2 DEF Unpooled, IInv, State, Alone
  <2> QED BY <2>1, <2>2
<1>5. CASE s.conn \in closed
  BY <1>1, <1>5 DEF AllKept, Keeps
<1>6. CASE s.conn \notin closed
  BY <1>1, <1>3, <1>4, <1>6, CheckedInKeeps
<1> QED BY <1>5, <1>6

LEMMA FreshAgainKeeps ==
  ASSUME IInv, NEW u \in Users, ReleaseH2(u)
  PROVE  AllKept
<1> DEFINE s == use[u].sender
           fresh(e) == IF e.sender.conn = s.conn THEN [e EXCEPT !.old = FALSE] ELSE e
           m == pool[s.key]
           l == [i \in DOMAIN m |-> fresh(m[i])]
<1>1. Has(use, u) /\ use[u] \in UseRecords
  BY DEF ReleaseH2, IInv, State, Types
<1>2. s.key \in Keys
  BY <1>1 DEF Has, UseRecords, Senders
<1>3. pool' = [pool EXCEPT ![s.key] = l]
  BY <1>2 DEF ReleaseH2, Install, IInv, State, Types
<1>4. m \in Seq(Entries)
  BY <1>2, SameDrawn
<1>5. \A e \in Entries : fresh(e).sender = e.sender
  BY DEF Entries
<1> HIDE DEF m, fresh
<1>6. /\ l = [i \in 1..Len(m) |-> fresh(m[i])] /\ Len(l) = Len(m)
      /\ \A i \in 1..Len(m) : m[i] \in Entries
  BY <1>4
<1>7. \A i \in 1..Len(m) : l[i].sender = m[i].sender
  BY <1>5, <1>6
<1> HIDE DEF l
<1>8. In(l) = In(m)
  BY <1>6, <1>7 DEF In
<1> QED BY <1>2, <1>3, <1>8, OneKeeps DEF Keeps, m

LEMMA GrowOldKeeps ==
  ASSUME IInv, NEW k \in Keys, NEW i, GrowOld(k, i)
  PROVE  AllKept
<1> DEFINE l == [pool[k] EXCEPT ![i].old = TRUE]
<1>1. i \in 1..Len(pool[k]) /\ pool' = [pool EXCEPT ![k] = l]
  BY SameDrawn DEF GrowOld, Install
<1>2. In(l) = In(pool[k])
  BY <1>1, SameDrawn, AgeKeeps
<1> HIDE DEF l
<1> QED BY <1>1, <1>2, OneKeeps DEF Keeps

LEMMA NextKeeps ==
  ASSUME IInv, [Next]_vars
  PROVE  AllKept
<1>1. pool' = pool => AllKept
  BY DEF AllKept, Keeps
<1>2. ASSUME NEW c \in Clients, ClientStep(c) PROVE AllKept
  <2>0. c \in Users
    BY DEF Clients
  <2>1. CASE Request(c)
    BY <2>0, <2>1, CheckoutKeeps DEF Request
  <2>2. CASE Progress(c)
    <3>1. PoolStep(c)
      BY <2>2 DEF Progress, Served
    <3>2. CASE AcquireSlot(c) \/ DialFails(c) \/ GiveUp(c) \/ DropSlot(c)
      BY <1>1, <3>2 DEF AcquireSlot, DialFails, GiveUp, DropSlot, Install
    <3> QED
      BY <2>0, <3>1, <3>2, DialKeeps, ReleaseKeeps, FreshAgainKeeps DEF PoolStep
  <2>3. CASE \/ Accept(c) \/ Upgrade(c) \/ Decline(c) \/ Connect(c) \/ TunnelPlain(c)
             \/ TunnelBlind(c) \/ TunnelEnds(c) \/ End(c)
             \/ (\E h \in Hosts : TunnelTls(c, h))
             \/ (\E size \in 0..MaxBytes : Relay(c, size))
    BY <1>1, <2>3
       DEF Accept, Upgrade, Decline, GiveUp, Install, Connect, TunnelPlain, TunnelBlind,
           TunnelEnds, End, TunnelTls, Relay
  <2> QED BY <1>2, <2>1, <2>2, <2>3 DEF ClientStep
<1>3. CASE Outside
  <2>1. CASE \E k \in Keys : \E i \in 1..MaxIdle : GrowOld(k, i)
    BY <2>1, GrowOldKeeps
  <2>2. CASE \E c \in Conns : PeerCloses(c)
    BY <1>1, <2>2 DEF PeerCloses
  <2> QED BY <1>3, <2>1, <2>2 DEF Outside, Surroundings
<1>4. CASE Shutdown \/ Drained \/ DrainTimeout \/ UNCHANGED vars
  BY <1>1, <1>4 DEF Shutdown, Drained, DrainTimeout, Install, vars
<1> QED BY <1>2, <1>3, <1>4 DEF Next

LEMMA StepKeeps ==
  ASSUME IInv, IInv', AllKept,
         NEW k \in Keys, NEW i \in DOMAIN pool[k], Busy(pool[k][i].sender),
         Len(pool'[k]) < MaxIdle
  PROVE  \E j \in DOMAIN pool'[k] : pool'[k][j].sender.conn = pool[k][i].sender.conn
<1> DEFINE s == pool[k][i].sender
<1>1. s \in In(pool[k])
  BY SameDrawn DEF In
<1>2. s \in In(pool'[k])
  BY <1>1 DEF AllKept, Keeps
<1>3. PICK j \in 1..Len(pool'[k]) : pool'[k][j].sender = s
  BY <1>2 DEF In
<1>4. pool'[k] \in Seq(Entries)
  BY DEF IInv, State, Types
<1>5. j \in DOMAIN pool'[k]
  BY <1>3, <1>4
<1> QED BY <1>3, <1>5

\* No sweep, under whichever key, throws out an open HTTP/2 connection on which
\* a stream is in use (what Pool::checkout and Pool::checkin retain).
THEOREM BusyConnectionsStay == Spec => InUseStaysPooled
<1>1. ASSUME IInv, IInv', [Next]_vars
      PROVE  [\A k \in Keys : \A i \in DOMAIN pool[k] :
                LET c == pool[k][i].sender.conn IN
                /\ pool[k][i].sender.h2 /\ c \notin closed /\ InUse(c) # {}
                /\ Len(pool'[k]) < MaxIdle
                => \E j \in DOMAIN pool'[k] : pool'[k][j].sender.conn = c]_poolVars
  BY <1>1, NextKeeps, StepKeeps DEF Busy
<1> QED BY <1>1, Inductive, PTL DEF Spec, InUseStaysPooled

-----------------------------------------------------------------------------
\* The listener.

\* A use of the pool is a record, and without a sender when it is idle.
UseOK(r) ==
  /\ r = [at |-> r.at, sender |-> r.sender, key |-> r.key]
  /\ r.at = "idle" => r.sender = NoSender

InPool(c) == use[c].at # "idle"

\* The inductive invariant about tasks.
ServedInv ==
  /\ DOMAIN use = Clients /\ DOMAIN task = Clients
  /\ phase \in {"accepting", "draining", "stopped"}
  /\ \A c \in Clients :
       /\ UseOK(use[c])
       /\ InPool(c) => task[c] \in {"listener", "tunnel", "relay"}
       /\ phase = "stopped" => task[c] # "listener"

LEMMA ServedInit == Init => ServedInv
BY DEF Init, PoolInit, ServedInv, UseOK, InPool, Idle, Clients

LEMMA ServedImplied == ServedInv => NothingLeftServed
BY DEF ServedInv, UseOK, InPool, Holding, NothingLeftServed, Clients

-----------------------------------------------------------------------------
\* The uses that the pool hands out.
LEMMA IdleOK == UseOK(Idle) /\ Idle.at = "idle"
BY DEF UseOK, Idle

LEMMA UseOfPool ==
  ASSUME NEW at, NEW s, NEW k, at # "idle"
  PROVE  UseOK(Using(at, s, k)) /\ Using(at, s, k).at = at
BY DEF UseOK, Using

\* What a step of a client in the pool makes of its use, and of no other's: no
\* relay.
OwnUse(c) == \E r : UseOK(r) /\ r.at # "relay" /\ use' = [use EXCEPT ![c] = r]

LEMMA CheckoutUses ==
  ASSUME NEW c, NEW k, Checkout(c, k)
  PROVE  OwnUse(c)
BY UseOfPool DEF Checkout, Install, OwnUse

LEMMA GiveUpUses ==
  ASSUME NEW c, GiveUp(c)
  PROVE  OwnUse(c)
BY IdleOK DEF GiveUp, Install, OwnUse

LEMMA DialUses ==
  ASSUME NEW c, c \in DOMAIN use, Dial(c)
  PROVE  OwnUse(c)
<1>1. PICK s : use' = [use EXCEPT ![c] = Using("lease", s, use[c].key)]
  BY DEF Dial, Install
<1> QED BY <1>1, UseOfPool DEF OwnUse

LEMMA AcquireUses ==
  ASSUME NEW c, c \in DOMAIN use, AcquireSlot(c)
  PROVE  OwnUse(c)
<1>1. CASE use[c].sender.conn \in closed
  <2>1. use' = [use EXCEPT ![c] = Using("dial", NoSender, use[c].key)]
    BY <1>1 DEF AcquireSlot, Install
  <2> QED BY <2>1, UseOfPool DEF OwnUse
<1>2. CASE use[c].sender.conn \notin closed
  <2>1. use' = [use EXCEPT ![c] = Using("lease", use[c].sender, use[c].key)]
    BY <1>2 DEF AcquireSlot, Install
  <2> QED BY <2>1, UseOfPool DEF OwnUse
<1> QED BY <1>1, <1>2

LEMMA ReleaseUses ==
  ASSUME ServedInv, NEW c \in Clients, ReleaseH1(c) \/ ReleaseH2(c)
  PROVE  OwnUse(c)
<1>1. CASE ReleaseH1(c)
  BY <1>1, IdleOK DEF ReleaseH1, Install, OwnUse
<1>2. CASE ReleaseH2(c)
  <2> DEFINE r == Using("drop", use[c].sender, use[c].key)
  <2>1. use[c] = [at |-> use[c].at, sender |-> use[c].sender, key |-> use[c].key]
    BY DEF ServedInv, UseOK
  <2>2. [use[c] EXCEPT !.at = "drop"] = r
    BY <2>1 DEF Using
  <2>3. use' = [use EXCEPT ![c].at = "drop"]
    BY <1>2 DEF ReleaseH2, Install
  <2>4. use' = [use EXCEPT ![c] = r]
    BY <2>2, <2>3
  <2> QED BY <2>4, UseOfPool DEF OwnUse
<1> QED BY <1>1, <1>2

LEMMA PoolStepUses ==
  ASSUME ServedInv, NEW c \in Clients, PoolStep(c)
  PROVE  OwnUse(c)
<1>1. c \in DOMAIN use
  BY DEF ServedInv
<1>2. CASE DialFails(c)
  BY <1>2, IdleOK DEF DialFails, Install, OwnUse
<1>3. CASE DropSlot(c)
  BY <1>3, IdleOK DEF DropSlot, Install, OwnUse
<1> QED BY <1>1, <1>2, <1>3, GiveUpUses, DialUses, AcquireUses, ReleaseUses DEF PoolStep

-----------------------------------------------------------------------------
\* A step of one client: its task serves if it uses the pool, and is none of
\* the listener's unless it was or the listener accepts.
LEMMA ClientSteps ==
  ASSUME ServedInv, NEW c \in Clients, UNCHANGED phase,
         DOMAIN use' = Clients, DOMAIN task' = Clients,
         \A d \in Clients \ {c} : use'[d] = use[d] /\ task'[d] = task[d],
         UseOK(use'[c]),
         use'[c].at # "idle" => task'[c] \in {"listener", "tunnel", "relay"},
         task'[c] = "listener" => task[c] = "listener" \/ phase = "accepting"
  PROVE  ServedInv'
BY DEF ServedInv, InPool, UseOK

\* A client that is served steps in the pool.
LEMMA ServedOK ==
  ASSUME ServedInv, NEW c \in Clients, task[c] \in {"listener", "tunnel"}, OwnUse(c),
         UNCHANGED <<phase, task>>
  PROVE  ServedInv'
<1>1. PICK r : UseOK(r) /\ use' = [use EXCEPT ![c] = r]
  BY DEF OwnUse
<1>2. /\ DOMAIN use' = Clients /\ use'[c] = r
      /\ \A d \in Clients \ {c} : use'[d] = use[d]
  BY <1>1 DEF ServedInv
<1>3. UseOK(use'[c])
  BY <1>1, <1>2
<1>4. DOMAIN task' = Clients
  BY DEF ServedInv
<1> QED BY <1>2, <1>3, <1>4, ClientSteps

\* The task of a client that uses nothing becomes another one.
LEMMA RetaskOK ==
  ASSUME ServedInv, NEW c \in Clients, ~InPool(c), NEW t, task' = [task EXCEPT ![c] = t],
         t = "listener" => phase = "accepting", UNCHANGED <<phase, use>>
  PROVE  ServedInv'
<1>1. DOMAIN use' = Clients /\ DOMAIN task' = Clients /\ task'[c] = t
  BY DEF ServedInv
<1>2. \A d \in Clients \ {c} : task'[d] = task[d]
  BY DEF ServedInv
<1>3. UseOK(use'[c]) /\ use'[c].at = "idle"
  BY DEF ServedInv, InPool
<1> QED BY <1>1, <1>2, <1>3, ClientSteps

LEMMA ServedUpgrade ==
  ASSUME ServedInv, NEW c \in Clients, Upgrade(c)
  PROVE  ServedInv'
<1> DEFINE r == Using("relay", use[c].sender, use[c].key)
<1>1. use[c] = [at |-> use[c].at, sender |-> use[c].sender, key |-> use[c].key]
  BY DEF ServedInv, UseOK
<1>2. [use[c] EXCEPT !.at = "relay"] = r
  BY <1>1 DEF Using
<1>3. use' = [use EXCEPT ![c] = r]
  BY <1>2 DEF Upgrade
<1>4. UseOK(r)
  BY UseOfPool
<1> HIDE DEF r
<1>5. /\ DOMAIN use' = Clients /\ DOMAIN task' = Clients /\ use'[c] = r /\ task'[c] = "relay"
      /\ \A d \in Clients \ {c} : use'[d] = use[d] /\ task'[d] = task[d]
  BY <1>3 DEF ServedInv, Upgrade
<1>6. UseOK(use'[c])
  BY <1>4, <1>5
<1> QED BY <1>5, <1>6, ClientSteps DEF Upgrade

LEMMA ServedEnd ==
  ASSUME ServedInv, NEW c \in Clients, End(c)
  PROVE  ServedInv'
<1>1. /\ DOMAIN use' = Clients /\ DOMAIN task' = Clients /\ use'[c] = Idle /\ task'[c] = "none"
      /\ \A d \in Clients \ {c} : use'[d] = use[d] /\ task'[d] = task[d]
  BY DEF ServedInv, End, Install
<1>2. UseOK(use'[c]) /\ use'[c].at = "idle"
  BY <1>1, IdleOK
<1> QED BY <1>1, <1>2, ClientSteps DEF End

\* Every step of a client.
LEMMA ClientStepOK ==
  ASSUME ServedInv, NEW c \in Clients, ClientStep(c)
  PROVE  ServedInv'
<1>1. task[c] \in {"none", "peek"} \/ Serving(c) => ~InPool(c)
  BY DEF ServedInv, InPool, Serving
<1>2. CASE Accept(c)
  BY <1>1, <1>2, RetaskOK DEF Accept
<1>3. CASE Request(c)
  <2>1. PICK k \in Keys \intersect asks[c] : Checkout(c, k)
    BY <1>3 DEF Request
  <2> QED BY <1>3, <2>1, CheckoutUses, ServedOK DEF Request, Serving, clientVars
<1>4. CASE Upgrade(c)
  BY <1>4, ServedUpgrade
<1>5. CASE Decline(c)
  BY <1>5, GiveUpUses, ServedOK DEF Decline, Handshake, clientVars
<1>6. CASE Connect(c)
  BY <1>1, <1>6, RetaskOK DEF Connect
<1>7. CASE TunnelPlain(c)
  BY <1>1, <1>7, RetaskOK DEF TunnelPlain
<1>8. CASE TunnelBlind(c)
  BY <1>1, <1>8, RetaskOK DEF TunnelBlind
<1>9. CASE TunnelEnds(c)
  BY <1>1, <1>9, RetaskOK DEF TunnelEnds
<1>10. CASE End(c)
  BY <1>10, ServedEnd
<1>11. CASE Progress(c)
  BY <1>11, PoolStepUses, ServedOK DEF Progress, Served, clientVars
<1>12. CASE \E h \in Hosts : TunnelTls(c, h)
  <2>1. /\ task[c] = "peek" /\ UNCHANGED <<phase, use>>
        /\ \E t \in {"tunnel", "none"} : task' = [task EXCEPT ![c] = t]
    BY <1>12 DEF TunnelTls
  <2> QED BY <1>1, <2>1, RetaskOK
<1>13. CASE \E size \in 0..MaxBytes : Relay(c, size)
  <2>1. UNCHANGED <<phase, use, task>>
    BY <1>13 DEF Relay
  <2> QED BY <2>1 DEF ServedInv, InPool, UseOK
<1> QED BY <1>2, <1>3, <1>4, <1>5, <1>6, <1>7, <1>8, <1>9, <1>10, <1>11, <1>12, <1>13
        DEF ClientStep

\* The drain's time is up: nothing of the listener is left.
LEMMA ServedDrainTimeout ==
  ASSUME ServedInv, DrainTimeout
  PROVE  ServedInv'
<1>1. /\ phase' = "stopped"
      /\ task' = [c \in Clients |-> IF c \in Listeners THEN "none" ELSE task[c]]
      /\ use' = [c \in Clients |-> IF c \in Listeners THEN Idle ELSE use[c]]
  BY DEF DrainTimeout, Aborted, Install
<1>2. ASSUME NEW c \in Clients
      PROVE  /\ UseOK(use'[c])
             /\ use'[c].at # "idle" => task'[c] \in {"listener", "tunnel", "relay"}
             /\ task'[c] # "listener"
  <2>1. CASE c \in Listeners
    BY <1>1, <2>1, IdleOK
  <2>2. CASE c \notin Listeners
    <3>1. use'[c] = use[c] /\ task'[c] = task[c] /\ task[c] # "listener"
      BY <1>1, <2>2 DEF Listeners
    <3>2. UseOK(use[c]) /\ (use[c].at # "idle" => task[c] \in {"listener", "tunnel", "relay"})
      BY DEF ServedInv, InPool
    <3> QED BY <3>1, <3>2
  <2> QED BY <2>1, <2>2
<1> QED BY <1>1, <1>2 DEF ServedInv, InPool, UseOK

LEMMA ServedNext == ServedInv /\ [Next]_vars => ServedInv'
<1> SUFFICES ASSUME ServedInv, [Next]_vars PROVE ServedInv'
  OBVIOUS
<1>1. ASSUME UNCHANGED <<use, task>>, phase' = "stopped" => phase = "stopped" \/ Listeners = {},
             phase' \in {"accepting", "draining", "stopped"}
      PROVE  ServedInv'
  BY <1>1 DEF ServedInv, InPool, UseOK, Listeners
<1>2. phase \in {"accepting", "draining", "stopped"}
  BY DEF ServedInv
<1>3. CASE Outside
  <2>1. UNCHANGED <<use, task, phase>>
    BY <1>3 DEF Outside, Surroundings, GrowOld, PeerCloses, Install, clientVars
  <2> QED BY <1>1, <1>2, <2>1
<1>4. CASE Shutdown
  BY <1>1, <1>4 DEF Shutdown, clientVars
<1>5. CASE Drained
  BY <1>1, <1>5 DEF Drained, clientVars
<1>6. CASE UNCHANGED vars
  BY <1>1, <1>2, <1>6 DEF vars
<1> QED BY <1>3, <1>4, <1>5, <1>6, ClientStepOK, ServedDrainTimeout DEF Next

\* When the listener has stopped, none of its tasks is left, nor any connection
\* or stream slot that one of them held, whatever clients and upstreams did.
THEOREM NothingIsLeftServed == Spec => []NothingLeftServed
BY ServedInit, ServedNext, ServedImplied, PTL DEF Spec

-----------------------------------------------------------------------------
\* The leaf cache: its order holds the hosts of its map, each once, and no
\* more of them than fit.
HostsOf(order) == {order[i] : i \in 1..Len(order)}
Once(order)    == \A i, j \in 1..Len(order) : order[i] = order[j] => i = j

Cache(map, order) ==
  /\ order \in Seq(Hosts) /\ Once(order) /\ Len(order) <= LeafCap
  /\ map = HostsOf(order)

LeafInv == Cache(leaves.map, leaves.order) /\ leaves = [map |-> leaves.map, order |-> leaves.order]

\* A host that is not in the order joins it at the end.
LEMMA HostJoins ==
  ASSUME NEW o \in Seq(Hosts), Once(o), NEW h \in Hosts \ HostsOf(o)
  PROVE  /\ Append(o, h) \in Seq(Hosts) /\ Len(Append(o, h)) = Len(o) + 1
         /\ HostsOf(Append(o, h)) = HostsOf(o) \union {h} /\ Once(Append(o, h))
<1> DEFINE a == Append(o, h)
           n == Len(o)
<1>1. /\ a \in Seq(Hosts) /\ n \in Nat /\ Len(a) = n + 1 /\ a[n + 1] = h
      /\ \A i \in 1..n : a[i] = o[i]
  OBVIOUS
<1> HIDE DEF a, n
<1>2. HostsOf(a) = {a[i] : i \in 1..(n + 1)} /\ HostsOf(o) = {o[i] : i \in 1..n}
  BY <1>1 DEF HostsOf, n
<1>3. HostsOf(a) = HostsOf(o) \union {h}
  BY <1>1, <1>2
<1>4. \A i, j \in 1..(n + 1) : a[i] = a[j] => i = j
  <2>1. \A i, j \in 1..n : o[i] = o[j] => i = j
    BY DEF Once, n
  <2>2. \A i \in 1..n : o[i] # h
    BY <1>2
  <2> QED BY <1>1, <2>1, <2>2
<1>5. Once(a)
  BY <1>1, <1>4 DEF Once
<1> QED BY <1>1, <1>3, <1>5 DEF a, n

\* The host at a place of the order leaves it.
LEMMA HostLeaves ==
  ASSUME NEW o \in Seq(Hosts), Once(o), NEW k \in 1..Len(o)
  PROVE  /\ RemoveAt(o, k) \in Seq(Hosts) /\ Len(RemoveAt(o, k)) = Len(o) - 1
         /\ HostsOf(RemoveAt(o, k)) = HostsOf(o) \ {o[k]} /\ Once(RemoveAt(o, k))
<1> DEFINE a == RemoveAt(o, k)
           n == Len(o)
           At(j) == IF j < k THEN j ELSE j + 1
<1>1. n \in Nat /\ k \in 1..n
  OBVIOUS
<1>2. a \in Seq(Hosts) /\ Len(a) = n - 1 /\ \A j \in 1..(n - 1) : a[j] = o[At(j)]
  <2> DEFINE b == SubSeq(o, 1, k - 1)
             c == SubSeq(o, k + 1, n)
  <2>1. b \in Seq(Hosts) /\ Len(b) = k - 1 /\ \A j \in 1..(k - 1) : b[j] = o[j]
    OBVIOUS
  <2>2. c \in Seq(Hosts) /\ Len(c) = n - k /\ \A j \in 1..(n - k) : c[j] = o[k + j]
    OBVIOUS
  <2>3. a = b \o c
    BY DEF RemoveAt
  <2> HIDE DEF a, b, c
  <2>4. a \in Seq(Hosts) /\ Len(a) = n - 1
    <3>1. b \o c \in Seq(Hosts) /\ Len(b \o c) = Len(b) + Len(c)
      BY <2>1, <2>2
    <3>2. (k - 1) + (n - k) = n - 1
      BY <1>1
    <3> QED BY <2>1, <2>2, <2>3, <3>1, <3>2
  <2>5. \A j \in 1..(n - 1) : a[j] = IF j <= k - 1 THEN b[j] ELSE c[j - (k - 1)]
    BY <1>1, <2>1, <2>2, <2>3
  <2>6. ASSUME NEW j \in 1..(n - 1) PROVE a[j] = o[At(j)]
    <3>1. CASE j < k
      <4>1. j \in 1..(k - 1)
        BY <1>1, <3>1
      <4> QED BY <2>1, <2>5, <3>1, <4>1
    <3>2. CASE ~(j < k)
      <4>1. j - (k - 1) \in 1..(n - k) /\ k + (j - (k - 1)) = j + 1 /\ ~(j <= k - 1)
        BY <1>1, <3>2
      <4>2. a[j] = c[j - (k - 1)] /\ c[j - (k - 1)] = o[k + (j - (k - 1))]
        BY <2>2, <2>5, <4>1
      <4> QED BY <3>2, <4>1, <4>2
    <3> QED BY <3>1, <3>2
  <2> QED BY <2>4, <2>6
<1> HIDE DEF a
<1>3. \A j \in 1..(n - 1) : At(j) \in 1..n /\ At(j) # k
  BY <1>1
<1>4. \A i \in 1..n : i # k => \E j \in 1..(n - 1) : At(j) = i
  <2> SUFFICES ASSUME NEW i \in 1..n, i # k PROVE \E j \in 1..(n - 1) : At(j) = i
    OBVIOUS
  <2>1. CASE i < k
    <3>1. i \in 1..(n - 1) /\ At(i) = i
      BY <1>1, <2>1
    <3> QED BY <3>1
  <2>2. CASE k < i
    <3>1. i - 1 \in 1..(n - 1) /\ At(i - 1) = i
      BY <1>1, <2>2
    <3> QED BY <3>1
  <2> QED BY <1>1, <2>1, <2>2
<1>5. \A i, j \in 1..(n - 1) : At(i) = At(j) => i = j
  BY <1>1
<1>6. \A i, j \in 1..n : o[i] = o[j] => i = j
  BY DEF Once
<1> HIDE DEF At
<1>7. HostsOf(a) = {a[j] : j \in 1..(n - 1)} /\ HostsOf(o) = {o[i] : i \in 1..n}
  BY <1>2 DEF HostsOf
<1> HIDE DEF n
<1>8. HostsOf(a) = HostsOf(o) \ {o[k]}
  <2>1. ASSUME NEW x \in HostsOf(a) PROVE x \in HostsOf(o) \ {o[k]}
    <3>1. PICK j \in 1..(n - 1) : x = a[j]
      BY <1>7
    <3>2. x = o[At(j)] /\ At(j) \in 1..n /\ At(j) # k
      BY <1>2, <1>3, <3>1
    <3> QED BY <1>1, <1>6, <1>7, <3>2
  <2>2. ASSUME NEW x \in HostsOf(o) \ {o[k]} PROVE x \in HostsOf(a)
    <3>1. PICK i \in 1..n : x = o[i]
      BY <1>7
    <3>2. PICK j \in 1..(n - 1) : At(j) = i
      BY <1>4, <3>1
    <3> QED BY <1>2, <1>7, <3>1, <3>2
  <2> QED BY <2>1, <2>2
<1>9. Once(a)
  <2> SUFFICES ASSUME NEW i \in 1..(n - 1), NEW j \in 1..(n - 1), a[i] = a[j] PROVE i = j
    BY <1>2 DEF Once
  <2>1. At(i) = At(j)
    BY <1>2, <1>3, <1>6
  <2> QED BY <1>5, <2>1
<1> QED BY <1>2, <1>8, <1>9 DEF a, n

\* The hosts after a place stay.
LEMMA HostsStay ==
  ASSUME NEW o \in Seq(Hosts), Once(o), NEW k \in 0..Len(o)
  PROVE  LET a == SubSeq(o, k + 1, Len(o)) IN
         /\ a \in Seq(Hosts) /\ Len(a) = Len(o) - k /\ Once(a)
         /\ HostsOf(a) = HostsOf(o) \ {o[i] : i \in 1..k}
<1> DEFINE a == SubSeq(o, k + 1, Len(o))
           n == Len(o)
<1>1. /\ n \in Nat /\ a \in Seq(Hosts) /\ Len(a) = n - k
      /\ \A j \in 1..(n - k) : a[j] = o[k + j]
  OBVIOUS
<1>2. k \in 0..n
  OBVIOUS
<1>3. \A i, j \in 1..n : o[i] = o[j] => i = j
  BY DEF Once
<1> HIDE DEF a
<1>4. HostsOf(a) = {a[j] : j \in 1..(n - k)} /\ HostsOf(o) = {o[i] : i \in 1..n}
  BY <1>1 DEF HostsOf
<1> HIDE DEF n
<1>5. HostsOf(a) = HostsOf(o) \ {o[i] : i \in 1..k}
  <2>1. ASSUME NEW x \in HostsOf(a) PROVE x \in HostsOf(o) \ {o[i] : i \in 1..k}
    <3>1. PICK j \in 1..(n - k) : x = a[j]
      BY <1>4
    <3>2. x = o[k + j] /\ k + j \in 1..n /\ k + j \notin 1..k /\ 1..k \subseteq 1..n
      BY <1>1, <1>2, <3>1
    <3>3. \A i \in 1..k : o[i] # x
      BY <1>3, <3>2
    <3> QED BY <1>4, <3>2, <3>3
  <2>2. ASSUME NEW x \in HostsOf(o) \ {o[i] : i \in 1..k} PROVE x \in HostsOf(a)
    <3>1. PICK i \in 1..n : x = o[i] /\ i \notin 1..k
      BY <1>4
    <3>2. i - k \in 1..(n - k) /\ k + (i - k) = i
      BY <1>1, <1>2, <3>1
    <3> QED BY <1>1, <1>4, <3>1, <3>2
  <2> QED BY <2>1, <2>2
<1>6. Once(a)
  <2> SUFFICES ASSUME NEW i \in 1..(n - k), NEW j \in 1..(n - k), a[i] = a[j] PROVE i = j
    BY <1>1 DEF Once
  <2>1. k + i \in 1..n /\ k + j \in 1..n /\ o[k + i] = o[k + j]
    BY <1>1, <1>2
  <2>2. k + i = k + j
    BY <1>3, <2>1
  <2> QED BY <1>1, <1>2, <2>2
<1> QED BY <1>1, <1>5, <1>6 DEF a, n

\* A host that is looked up is the newest of the cache.
LEMMA GetOrMintOK ==
  ASSUME LeafInv, NEW h \in Hosts
  PROVE  /\ Cache(GetOrMint(h).map, GetOrMint(h).order)
         /\ GetOrMint(h) = [map |-> GetOrMint(h).map, order |-> GetOrMint(h).order]
<1> DEFINE o == leaves.order
<1>1. /\ o \in Seq(Hosts) /\ Once(o) /\ Len(o) <= LeafCap /\ leaves.map = HostsOf(o)
      /\ leaves = [map |-> leaves.map, order |-> o]
  BY DEF LeafInv, Cache
<1>2. Len(o) \in Nat /\ LeafCap \in Nat \ {0}
  BY <1>1, ServerAssumption
<1>3. CASE h \in leaves.map
  <2> DEFINE k == CHOOSE i \in DOMAIN o : o[i] = h
             r == RemoveAt(o, k)
             a == Append(r, h)
  <2>1. \E i \in DOMAIN o : o[i] = h
    BY <1>1, <1>3 DEF HostsOf
  <2>2. k \in 1..Len(o) /\ o[k] = h
    BY <1>1, <2>1
  <2>3. GetOrMint(h) = [leaves EXCEPT !.order = a]
    BY <1>3 DEF GetOrMint, Touched
  <2>4. GetOrMint(h) = [map |-> leaves.map, order |-> a]
    BY <1>1, <2>3
  <2> HIDE DEF k, o
  <2>5. /\ r \in Seq(Hosts) /\ Len(r) = Len(o) - 1
        /\ HostsOf(r) = HostsOf(o) \ {o[k]} /\ Once(r)
    BY <1>1, <2>2, HostLeaves
  <2> HIDE DEF r
  <2>6. h \in Hosts \ HostsOf(r)
    BY <2>2, <2>5
  <2>7. /\ a \in Seq(Hosts) /\ Len(a) = Len(r) + 1
        /\ HostsOf(a) = HostsOf(r) \union {h} /\ Once(a)
    BY <2>5, <2>6, HostJoins
  <2> HIDE DEF a
  <2>8. HostsOf(a) = leaves.map
    BY <1>1, <1>3, <2>2, <2>5, <2>7
  <2>9. Len(a) <= LeafCap
    BY <1>1, <1>2, <2>5, <2>7
  <2>10. Cache(leaves.map, a)
    BY <2>7, <2>8, <2>9 DEF Cache
  <2> QED BY <2>4, <2>10
<1>4. CASE h \notin leaves.map
  <2> DEFINE a == Append(o, h)
             k == IF Len(a) > LeafCap THEN Len(a) - LeafCap ELSE 0
             b == SubSeq(a, k + 1, Len(a))
             m == (leaves.map \union {h}) \ {a[i] : i \in 1..k}
  <2>1. GetOrMint(h) = [map |-> m, order |-> b]
    BY <1>4 DEF GetOrMint
  <2>2. h \in Hosts \ HostsOf(o)
    BY <1>1, <1>4
  <2> HIDE DEF o
  <2>3. /\ a \in Seq(Hosts) /\ Len(a) = Len(o) + 1
        /\ HostsOf(a) = HostsOf(o) \union {h} /\ Once(a)
    BY <1>1, <2>2, HostJoins
  <2> HIDE DEF a
  <2>4. k \in 0..Len(a) /\ Len(a) - k <= LeafCap
    BY <1>2, <2>3
  <2> HIDE DEF k
  <2>5. /\ b \in Seq(Hosts) /\ Len(b) = Len(a) - k /\ Once(b)
        /\ HostsOf(b) = HostsOf(a) \ {a[i] : i \in 1..k}
    BY <2>3, <2>4, HostsStay
  <2>6. m = HostsOf(b)
    BY <1>1, <2>3, <2>5
  <2> HIDE DEF b, m
  <2>7. Cache(m, b)
    BY <2>4, <2>5, <2>6 DEF Cache
  <2> QED BY <2>1, <2>7
<1> QED BY <1>3, <1>4

LEMMA LeafInit == Init => LeafInv
<1> SUFFICES ASSUME Init PROVE LeafInv
  OBVIOUS
<1>1. leaves = [map |-> {}, order |-> <<>>]
  BY DEF Init
<1>2. <<>> \in Seq(Hosts)
  OBVIOUS
<1>3. Len(<<>>) = 0 /\ LeafCap \in Nat
  BY ServerAssumption
<1>4. HostsOf(<<>>) = {} /\ Once(<<>>)
  BY DEF HostsOf, Once
<1> QED BY <1>1, <1>2, <1>3, <1>4 DEF LeafInv, Cache

LEMMA LeafNext == LeafInv /\ [Next]_vars => LeafInv'
<1> SUFFICES ASSUME LeafInv, [Next]_vars PROVE LeafInv'
  OBVIOUS
<1>1. ASSUME UNCHANGED leaves PROVE LeafInv'
  BY <1>1 DEF LeafInv
<1>2. ASSUME NEW c \in Clients, NEW h \in Hosts, TunnelTls(c, h) PROVE LeafInv'
  <2>1. leaves' = GetOrMint(h)
    BY <1>2 DEF TunnelTls
  <2> QED BY <2>1, GetOrMintOK DEF LeafInv
<1>3. ASSUME NEW c \in Clients, ClientStep(c), ~ \E h \in Hosts : TunnelTls(c, h)
      PROVE  UNCHANGED leaves
  BY <1>3 DEF ClientStep, Accept, Request, Upgrade, Decline, Connect, TunnelPlain,
              TunnelBlind, TunnelEnds, End, Progress, Served, Relay
<1>4. Outside \/ Shutdown \/ Drained \/ DrainTimeout => UNCHANGED leaves
  BY DEF Outside, Shutdown, Drained, DrainTimeout
<1>5. UNCHANGED vars => UNCHANGED leaves
  BY DEF vars
<1> QED BY <1>1, <1>2, <1>3, <1>4, <1>5 DEF Next

\* A sequence without repetition has as many elements as places.
LEMMA AsManyHosts ==
  ASSUME NEW o \in Seq(Hosts), Once(o)
  PROVE  Cardinality(HostsOf(o)) = Len(o)
<1> DEFINE n == Len(o)
           f == [i \in 1..n |-> o[i]]
<1>1. n \in Nat /\ f \in [1..n -> HostsOf(o)]
  BY DEF HostsOf
<1>2. \A i, j \in 1..n : f[i] = f[j] => i = j
  BY DEF Once
<1>3. \A h \in HostsOf(o) : \E i \in 1..n : f[i] = h
  BY DEF HostsOf
<1> HIDE DEF f, n
<1>4. f \in Bijection(1..n, HostsOf(o))
  BY <1>1, <1>2, <1>3 DEF Bijection, Injection, Surjection, IsInjective
<1>5. ExistsBijection(1..n, HostsOf(o))
  BY <1>4 DEF ExistsBijection
<1>6. Cardinality(HostsOf(o)) = n
  BY <1>1, <1>5, FS_CountingElements
<1> QED BY <1>6 DEF n

\* "this lookup cannot fail" (ca.rs): the map and the order of the leaf cache
\* hold the same hosts, each once, and no more than fit, whatever is looked up.
THEOREM LeafCacheAgrees == Spec => []LeavesAgree
<1>1. LeafInv => LeavesAgree
  <2> SUFFICES ASSUME LeafInv PROVE LeavesAgree
    OBVIOUS
  <2> DEFINE o == leaves.order
  <2>1. o \in Seq(Hosts) /\ Once(o) /\ Len(o) <= LeafCap /\ leaves.map = HostsOf(o)
    BY DEF LeafInv, Cache
  <2>2. Range(o) = HostsOf(o)
    <3>1. DOMAIN o = 1..Len(o)
      BY <2>1
    <3> QED BY <3>1 DEF Range, HostsOf
  <2>3. Cardinality(leaves.map) = Len(o)
    BY <2>1, AsManyHosts
  <2> QED BY <2>1, <2>2, <2>3 DEF LeavesAgree
<1> QED BY <1>1, LeafInit, LeafNext, PTL DEF Spec

-----------------------------------------------------------------------------
\* The record of a relay: the newest messages, in their order.
Messages == [n : Nat, size : Nat]

Newest(log, seen) ==
  /\ log \in Seq(Messages) /\ Fits(log)
  /\ \A i \in 1..Len(log) : log[i].n = seen - Len(log) + i

RelayInv ==
  /\ ws \in [Clients -> Seq(Messages)] /\ relayed \in [Clients -> Nat]
  /\ \A c \in Clients : Newest(ws[c], relayed[c])

\* Nothing always fits.
LEMMA NothingFits == Fits(<<>>)
<1> DEFINE F(g) == [i \in 0..0 |-> IF i = 0 THEN 0 ELSE g[i - 1] + <<>>[i].size]
           f == CHOOSE g : g = F(g)
<1>1. Len(<<>>) = 0
  OBVIOUS
<1>2. TotalSize(<<>>) = f[0]
  BY <1>1 DEF TotalSize
<1>3. \E g : g = F(g)
  <2> DEFINE z == [i \in 0..0 |-> 0]
  <2>1. z = F(z)
    OBVIOUS
  <2> QED BY <2>1
<1>4. f = F(f)
  BY <1>3
<1> HIDE DEF f
<1>5. f[0] = 0
  BY <1>4
<1> QED BY <1>1, <1>2, <1>5, ServerAssumption DEF Fits

\* What is left of a log is an end of it that fits.
LEMMA TrimmedOK ==
  ASSUME NEW log \in Seq(Messages)
  PROVE  \E n \in 0..Len(log) : /\ Trimmed(log) = SubSeq(log, n + 1, Len(log))
                                /\ Fits(Trimmed(log))
<1> DEFINE T == {i \in 0..Len(log) : Fits(SubSeq(log, i + 1, Len(log)))}
           First(i) == /\ Fits(SubSeq(log, i + 1, Len(log)))
                       /\ \A j \in 0..(i - 1) : ~Fits(SubSeq(log, j + 1, Len(log)))
           n == CHOOSE i \in 0..Len(log) : First(i)
<1>1. Len(log) \in Nat
  OBVIOUS
<1>2. SubSeq(log, Len(log) + 1, Len(log)) = <<>>
  OBVIOUS
<1>3. Len(log) \in T
  <2>1. Fits(SubSeq(log, Len(log) + 1, Len(log)))
    BY <1>2, NothingFits
  <2> QED BY <1>1, <2>1
<1>4. T \subseteq Nat /\ T # {}
  BY <1>1, <1>3
<1>5. PICK x \in T : \A y \in T : x <= y
  <2> HIDE DEF T
  <2> QED BY <1>4, Ring!LeastNat
<1>6. First(x) /\ x \in 0..Len(log)
  <2>1. ASSUME NEW j \in 0..(x - 1) PROVE j \in 0..Len(log) /\ ~(x <= j)
    BY <1>1
  <2>2. \A j \in 0..(x - 1) : ~Fits(SubSeq(log, j + 1, Len(log)))
    BY <1>5, <2>1
  <2> QED BY <2>2
<1>7. First(n) /\ n \in 0..Len(log)
  <2> HIDE DEF First
  <2> QED BY <1>6
<1>8. Trimmed(log) = SubSeq(log, n + 1, Len(log))
  BY DEF Trimmed
<1> QED BY <1>7, <1>8

\* The next message is recorded.
LEMMA RecordedOK ==
  ASSUME NEW log, NEW seen \in Nat, Newest(log, seen), NEW size \in Nat
  PROVE  Newest(Trimmed(Append(log, [n |-> seen + 1, size |-> size])), seen + 1)
<1> DEFINE m == [n |-> seen + 1, size |-> size]
           a == Append(log, m)
           l == Len(log)
<1>1. log \in Seq(Messages) /\ m \in Messages /\ m.n = seen + 1
  BY DEF Newest, Messages
<1>2. \A i \in 1..l : log[i].n = seen - l + i
  BY DEF Newest
<1> HIDE DEF m
<1>3. /\ a \in Seq(Messages) /\ l \in Nat /\ Len(a) = l + 1 /\ a[l + 1] = m
      /\ \A i \in 1..l : a[i] = log[i]
  BY <1>1
<1> HIDE DEF a, l
<1>4. \A i \in 1..(l + 1) : a[i].n = (seen + 1) - (l + 1) + i
  BY <1>1, <1>2, <1>3
<1>5. PICK n \in 0..Len(a) : Trimmed(a) = SubSeq(a, n + 1, Len(a)) /\ Fits(Trimmed(a))
  BY <1>3, TrimmedOK
<1> DEFINE b == SubSeq(a, n + 1, Len(a))
<1>6. /\ b \in Seq(Messages) /\ Len(b) = Len(a) - n
      /\ \A i \in 1..(Len(a) - n) : b[i] = a[n + i]
  BY <1>3
<1> HIDE DEF b
<1>7. ASSUME NEW i \in 1..Len(b) PROVE b[i].n = (seen + 1) - Len(b) + i
  <2>1. Len(b) = l + 1 - n /\ i \in 1..(Len(a) - n) /\ n + i \in 1..(l + 1) /\ n \in Int
    BY <1>3, <1>5, <1>6
  <2>2. b[i] = a[n + i] /\ a[n + i].n = (seen + 1) - (l + 1) + (n + i)
    BY <1>4, <1>6, <2>1
  <2>3. (seen + 1) - (l + 1) + (n + i) = (seen + 1) - (l + 1 - n) + i
    BY <1>3, <2>1
  <2> QED BY <2>1, <2>2, <2>3
<1>8. Trimmed(a) = b
  BY <1>5 DEF b
<1>9. Newest(Trimmed(a), seen + 1)
  BY <1>5, <1>6, <1>7, <1>8 DEF Newest
<1> QED BY <1>9 DEF a, m

\* An empty record is that of a relay that has seen nothing.
LEMMA NothingNewest == Newest(<<>>, 0)
<1>1. <<>> \in Seq(Messages)
  OBVIOUS
<1>2. Len(<<>>) = 0
  OBVIOUS
<1>3. \A i \in 1..Len(<<>>) : <<>>[i].n = 0 - Len(<<>>) + i
  BY <1>2
<1> QED BY <1>1, <1>3, NothingFits DEF Newest

LEMMA RelayInit == Init => RelayInv
<1> SUFFICES ASSUME Init PROVE RelayInv
  OBVIOUS
<1>1. ws = [c \in Clients |-> <<>>] /\ relayed = [c \in Clients |-> 0]
  BY DEF Init
<1>2. <<>> \in Seq(Messages)
  OBVIOUS
<1> QED BY <1>1, <1>2, NothingNewest DEF RelayInv

\* One client's record changes.
LEMMA RelayBecomes ==
  ASSUME RelayInv, NEW c \in Clients, NEW log, NEW seen \in Nat, Newest(log, seen),
         ws' = [ws EXCEPT ![c] = log], relayed' = [relayed EXCEPT ![c] = seen]
  PROVE  RelayInv'
<1>1. log \in Seq(Messages)
  BY DEF Newest
<1>2. ws' \in [Clients -> Seq(Messages)] /\ relayed' \in [Clients -> Nat]
  BY <1>1 DEF RelayInv
<1>3. ASSUME NEW d \in Clients PROVE Newest(ws'[d], relayed'[d])
  <2>1. CASE d = c
    BY <2>1 DEF RelayInv
  <2>2. CASE d # c
    BY <2>2 DEF RelayInv
  <2> QED BY <2>1, <2>2
<1> QED BY <1>2, <1>3 DEF RelayInv, Newest, Fits, TotalSize

LEMMA RelayNext == RelayInv /\ [Next]_vars => RelayInv'
<1> SUFFICES ASSUME RelayInv, [Next]_vars PROVE RelayInv'
  OBVIOUS
<1>1. ASSUME UNCHANGED <<relayed, ws>> PROVE RelayInv'
  BY <1>1 DEF RelayInv
<1>2. ASSUME NEW c \in Clients, NEW size \in 0..MaxBytes, Relay(c, size) PROVE RelayInv'
  <2> DEFINE log == Trimmed(Append(ws[c], [n |-> relayed[c] + 1, size |-> size]))
  <2>1. /\ relayed[c] \in Nat /\ Newest(ws[c], relayed[c]) /\ size \in Nat
    BY ServerAssumption DEF RelayInv
  <2>2. Newest(log, relayed[c] + 1)
    BY <2>1, RecordedOK
  <2>3. ws' = [ws EXCEPT ![c] = log] /\ relayed' = [relayed EXCEPT ![c] = relayed[c] + 1]
    BY <1>2 DEF Relay, Recorded
  <2> HIDE DEF log
  <2>4. relayed[c] + 1 \in Nat
    BY <2>1
  <2> QED BY <2>2, <2>3, <2>4, RelayBecomes
<1>3. ASSUME NEW c \in Clients, End(c) PROVE RelayInv'
  BY <1>3, NothingNewest, RelayBecomes DEF End
<1>4. ASSUME NEW c \in Clients, ClientStep(c), ~End(c),
             ~ \E size \in 0..MaxBytes : Relay(c, size)
      PROVE  UNCHANGED <<relayed, ws>>
  BY <1>4 DEF ClientStep, Accept, Request, Upgrade, Decline, Connect, TunnelPlain,
              TunnelBlind, TunnelEnds, TunnelTls, Progress, Served, clientVars
<1>5. Outside \/ Shutdown \/ Drained \/ DrainTimeout => UNCHANGED <<relayed, ws>>
  BY DEF Outside, Shutdown, Drained, DrainTimeout, clientVars
<1>6. UNCHANGED vars => UNCHANGED <<relayed, ws>>
  BY DEF vars
<1> QED BY <1>1, <1>2, <1>3, <1>4, <1>5, <1>6 DEF Next

\* A relay's record keeps within its limits, however many messages there are of
\* whatever size, by dropping the oldest, and only them.
THEOREM RelaysKeepTheNewest == Spec => []RelayKeepsNewest
<1>1. RelayInv => RelayKeepsNewest
  <2> SUFFICES ASSUME RelayInv, NEW c \in Clients
               PROVE  /\ Fits(ws[c])
                      /\ \A i \in DOMAIN ws[c] : ws[c][i].n = relayed[c] - Len(ws[c]) + i
    BY DEF RelayKeepsNewest
  <2>1. ws[c] \in Seq(Messages) /\ Newest(ws[c], relayed[c])
    BY DEF RelayInv
  <2>2. DOMAIN ws[c] = 1..Len(ws[c])
    BY <2>1
  <2> QED BY <2>1, <2>2 DEF Newest
<1> QED BY <1>1, RelayInit, RelayNext, PTL DEF Spec

-----------------------------------------------------------------------------
\* The types: what is marked closed is still referred to, a client's task is a
\* relay as long as its use of the pool is, and an unfinished flow is that of a
\* tunnel or a relay.
Tasks == {"none", "listener", "peek", "tunnel", "blind", "relay"}

Matches(t, r, flowing) ==
  /\ t \in Tasks
  /\ r.at = "relay" <=> t = "relay"
  /\ flowing => t \in {"blind", "relay"}

TaskInv ==
  /\ closed \subseteq Referenced(pool, use)
  /\ \A c \in Clients : Matches(task[c], use[c], c \in flows)

LEMMA TaskInit == Init => TaskInv
<1> SUFFICES ASSUME Init PROVE TaskInv
  OBVIOUS
<1>1. ASSUME NEW c \in Clients PROVE task[c] = "none" /\ use[c] = Idle /\ c \notin flows
  BY DEF Init, PoolInit, Clients
<1>2. Idle.at = "idle"
  BY DEF Idle
<1>3. closed = {}
  BY DEF Init, PoolInit
<1> QED BY <1>1, <1>2, <1>3 DEF TaskInv, Matches, Tasks

\* A step of one client, and nothing is marked closed but what is referred to.
LEMMA TaskSteps ==
  ASSUME TaskInv, NEW c \in Clients, closed' \subseteq Referenced(pool', use'),
         \A d \in Clients \ {c} : /\ use'[d] = use[d] /\ task'[d] = task[d]
                                  /\ d \in flows' <=> d \in flows,
         Matches(task'[c], use'[c], c \in flows')
  PROVE  TaskInv'
<1>1. ASSUME NEW d \in Clients PROVE Matches(task'[d], use'[d], d \in flows')
  BY DEF TaskInv, Matches
<1> QED BY <1>1 DEF TaskInv, Matches

\* What a step of the pool leaves marked is referred to.
LEMMA StillReferenced ==
  ASSUME NEW p, NEW us, Install(p, us)
  PROVE  closed' \subseteq Referenced(pool', use')
BY DEF Install

LEMMA PoolStepReferenced ==
  ASSUME NEW c \in Clients, PoolStep(c) \/ \E k \in Keys : Checkout(c, k)
  PROVE  closed' \subseteq Referenced(pool', use')
<1>1. CASE \E k \in Keys : Checkout(c, k)
  BY <1>1, StillReferenced DEF Checkout
<1>2. CASE AcquireSlot(c)
  BY <1>2, StillReferenced DEF AcquireSlot
<1>3. CASE Dial(c)
  BY <1>3, StillReferenced DEF Dial
<1>4. CASE DialFails(c) \/ GiveUp(c) \/ DropSlot(c)
  BY <1>4, StillReferenced DEF DialFails, GiveUp, DropSlot
<1>5. CASE ReleaseH1(c)
  BY <1>5, StillReferenced DEF ReleaseH1
<1>6. CASE ReleaseH2(c)
  BY <1>6, StillReferenced DEF ReleaseH2
<1> QED BY <1>1, <1>2, <1>3, <1>4, <1>5, <1>6 DEF PoolStep

\* The pool is not touched.
LEMMA SameReferenced ==
  ASSUME TaskInv, UNCHANGED <<pool, closed, use>>
  PROVE  closed' \subseteq Referenced(pool', use')
BY DEF TaskInv

\* A client that is served steps in the pool.
LEMMA TaskServed ==
  ASSUME TaskInv, ServedInv, NEW c \in Clients, task[c] \in {"listener", "tunnel"}, OwnUse(c),
         UNCHANGED <<task, flows>>, closed' \subseteq Referenced(pool', use')
  PROVE  TaskInv'
<1>1. PICK r : r.at # "relay" /\ use' = [use EXCEPT ![c] = r]
  BY DEF OwnUse
<1>2. use'[c] = r /\ \A d \in Clients \ {c} : use'[d] = use[d]
  BY <1>1 DEF ServedInv
<1>3. Matches(task[c], use[c], c \in flows)
  BY DEF TaskInv
<1>4. Matches(task'[c], use'[c], c \in flows')
  BY <1>1, <1>2, <1>3 DEF Matches
<1> QED BY <1>2, <1>4, TaskSteps

\* A client that uses nothing gets another task.
LEMMA TaskRetask ==
  ASSUME TaskInv, ServedInv, NEW c \in Clients, task[c] \notin {"blind", "relay"},
         NEW t \in Tasks \ {"relay"}, task' = [task EXCEPT ![c] = t],
         UNCHANGED <<pool, closed, use>>,
         flows' = flows \/ (t = "blind" /\ flows' \in {flows, flows \union {c}})
  PROVE  TaskInv'
<1>1. task'[c] = t /\ \A d \in Clients \ {c} : task'[d] = task[d]
  BY DEF ServedInv
<1>2. Matches(task[c], use[c], c \in flows)
  BY DEF TaskInv
<1>3. use[c].at # "relay" /\ c \notin flows
  BY <1>2 DEF Matches
<1>4. c \in flows' => t = "blind"
  BY <1>3
<1>5. Matches(task'[c], use'[c], c \in flows')
  BY <1>1, <1>3, <1>4 DEF Matches
<1>6. \A d \in Clients \ {c} : d \in flows' <=> d \in flows
  OBVIOUS
<1> QED BY <1>1, <1>5, <1>6, SameReferenced, TaskSteps

LEMMA TaskUpgrade ==
  ASSUME TaskInv, ServedInv, NEW c \in Clients, Upgrade(c)
  PROVE  TaskInv'
<1>1. /\ use'[c] = [use[c] EXCEPT !.at = "relay"] /\ task'[c] = "relay"
      /\ \A d \in Clients \ {c} : use'[d] = use[d] /\ task'[d] = task[d]
  BY DEF ServedInv, Upgrade
<1>2. use[c] = [at |-> use[c].at, sender |-> use[c].sender, key |-> use[c].key]
  BY DEF ServedInv, UseOK
<1>3. use'[c].at = "relay" /\ use'[c].sender = use[c].sender
  BY <1>1, <1>2
<1>4. \A d \in Users : use'[d].sender = use[d].sender
  BY <1>1, <1>3 DEF Clients
<1>5. pool' = pool /\ closed' = closed
  BY DEF Upgrade
<1>6. Referenced(pool', use') = Referenced(pool, use)
  BY <1>4, <1>5 DEF Referenced
<1>7. closed' \subseteq Referenced(pool', use')
  BY <1>5, <1>6 DEF TaskInv
<1>8. \A d \in Clients \ {c} : d \in flows' <=> d \in flows
  BY DEF Upgrade
<1>9. Matches(task'[c], use'[c], c \in flows')
  BY <1>1, <1>3 DEF Matches, Tasks
<1> QED BY <1>1, <1>7, <1>8, <1>9, TaskSteps

LEMMA TaskEnd ==
  ASSUME TaskInv, ServedInv, NEW c \in Clients, End(c)
  PROVE  TaskInv'
<1>1. /\ use'[c] = Idle /\ task'[c] = "none" /\ flows' = flows \ {c}
      /\ \A d \in Clients \ {c} : use'[d] = use[d] /\ task'[d] = task[d]
  BY DEF ServedInv, End, Install, Finished
<1>2. closed' \subseteq Referenced(pool', use')
  BY StillReferenced DEF End
<1>3. Matches(task'[c], use'[c], c \in flows')
  BY <1>1, IdleOK DEF Matches, Tasks
<1> QED BY <1>1, <1>2, <1>3, TaskSteps

\* Every step of a client.
LEMMA TaskClientStep ==
  ASSUME TaskInv, ServedInv, NEW c \in Clients, ClientStep(c)
  PROVE  TaskInv'
<1>1. CASE Accept(c)
  BY <1>1, TaskRetask DEF Accept, Tasks
<1>2. CASE Request(c)
  <2>1. PICK k \in Keys \intersect asks[c] : Checkout(c, k)
    BY <1>2 DEF Request
  <2>2. closed' \subseteq Referenced(pool', use')
    BY <2>1, PoolStepReferenced
  <2> QED BY <1>2, <2>1, <2>2, CheckoutUses, TaskServed DEF Request, Serving, clientVars
<1>3. CASE Upgrade(c)
  BY <1>3, TaskUpgrade
<1>4. CASE Decline(c)
  <2>1. closed' \subseteq Referenced(pool', use')
    BY <1>4, PoolStepReferenced DEF Decline, PoolStep
  <2> QED BY <1>4, <2>1, GiveUpUses, TaskServed DEF Decline, Handshake, clientVars
<1>5. CASE Connect(c)
  BY <1>5, TaskRetask DEF Connect, Serving, Tasks
<1>6. CASE TunnelPlain(c)
  BY <1>6, TaskRetask DEF TunnelPlain, Tasks
<1>7. CASE TunnelBlind(c)
  <2>1. PICK captured \in SUBSET {c} : flows' = flows \union captured
    BY <1>7 DEF TunnelBlind
  <2>2. captured = {} \/ captured = {c}
    BY <2>1
  <2>3. flows' \in {flows, flows \union {c}}
    BY <2>1, <2>2
  <2> QED BY <1>7, <2>3, TaskRetask DEF TunnelBlind, Tasks
<1>8. CASE TunnelEnds(c)
  BY <1>8, TaskRetask DEF TunnelEnds, Tasks
<1>9. CASE End(c)
  BY <1>9, TaskEnd
<1>10. CASE Progress(c)
  <2>1. closed' \subseteq Referenced(pool', use')
    BY <1>10, PoolStepReferenced DEF Progress, Served
  <2> QED BY <1>10, <2>1, PoolStepUses, TaskServed DEF Progress, Served, clientVars
<1>11. CASE \E h \in Hosts : TunnelTls(c, h)
  <2>1. /\ task[c] = "peek" /\ UNCHANGED <<pool, closed, use, flows>>
        /\ \E t \in {"tunnel", "none"} : task' = [task EXCEPT ![c] = t]
    BY <1>11 DEF TunnelTls
  <2>2. PICK t \in {"tunnel", "none"} : task' = [task EXCEPT ![c] = t]
    BY <2>1
  <2> QED BY <2>1, <2>2, TaskRetask DEF Tasks
<1>12. CASE \E size \in 0..MaxBytes : Relay(c, size)
  <2>1. UNCHANGED <<pool, closed, use, task, flows>>
    BY <1>12 DEF Relay
  <2> QED BY <2>1, SameReferenced DEF TaskInv, Matches
<1> QED BY <1>1, <1>2, <1>3, <1>4, <1>5, <1>6, <1>7, <1>8, <1>9, <1>10, <1>11, <1>12
        DEF ClientStep

\* The listener's tasks are aborted: they had no flow.
LEMMA TaskDrainTimeout ==
  ASSUME TaskInv, ServedInv, DrainTimeout
  PROVE  TaskInv'
<1>1. /\ task' = [c \in Clients |-> IF c \in Listeners THEN "none" ELSE task[c]]
      /\ use' = [c \in Clients |-> IF c \in Listeners THEN Idle ELSE use[c]]
      /\ flows' = flows
  BY DEF DrainTimeout, Aborted, Install
<1>2. closed' \subseteq Referenced(pool', use')
  BY StillReferenced DEF DrainTimeout
<1>3. ASSUME NEW c \in Clients PROVE Matches(task'[c], use'[c], c \in flows')
  <2>0. Matches(task[c], use[c], c \in flows)
    BY DEF TaskInv
  <2>1. CASE c \in Listeners
    <3>1. task[c] = "listener" /\ task'[c] = "none" /\ use'[c] = Idle
      BY <1>1, <2>1 DEF Listeners
    <3> QED BY <1>1, <2>0, <3>1, IdleOK DEF Matches, Tasks
  <2>2. CASE c \notin Listeners
    BY <1>1, <2>0, <2>2 DEF Matches
  <2> QED BY <2>1, <2>2
<1> QED BY <1>2, <1>3 DEF TaskInv, Matches

\* A peer closes a connection that is referred to, or an entry grows old.
LEMMA TaskOutside ==
  ASSUME TaskInv, Outside
  PROVE  TaskInv'
<1>1. UNCHANGED <<use, task, flows>>
  BY DEF Outside, Surroundings, GrowOld, PeerCloses, Install, clientVars
<1>2. closed' \subseteq Referenced(pool', use')
  <2>1. CASE \E k \in Keys : \E i \in 1..MaxIdle : GrowOld(k, i)
    BY <2>1, StillReferenced DEF GrowOld
  <2>2. CASE \E c \in Conns : PeerCloses(c)
    BY <2>2 DEF PeerCloses, TaskInv
  <2> QED BY <2>1, <2>2 DEF Outside, Surroundings
<1> QED BY <1>1, <1>2 DEF TaskInv, Matches

LEMMA TaskNext == ServedInv /\ TaskInv /\ [Next]_vars => TaskInv'
<1> SUFFICES ASSUME ServedInv, TaskInv, [Next]_vars PROVE TaskInv'
  OBVIOUS
<1>1. ASSUME UNCHANGED <<pool, closed, use, task, flows>> PROVE TaskInv'
  BY <1>1 DEF TaskInv, Matches
<1>2. Shutdown \/ Drained \/ UNCHANGED vars => UNCHANGED <<pool, closed, use, task, flows>>
  BY DEF Shutdown, Drained, vars, clientVars
<1> QED BY <1>1, <1>2, TaskClientStep, TaskDrainTimeout, TaskOutside DEF Next

\* Each variable of the listener and its pool stays in its range; who uses the
\* pool is served by a task, and only tunnels and relays have unfinished flows.
THEOREM TypesHold == Spec => []TypeOK
<1>1. IInv /\ closed \subseteq Referenced(pool, use) => PoolTypeOK
  BY DEF IInv, State, Types, Has, Holding, UseRecords, PoolTypeOK
<1>2. LeafInv => leaves.map \subseteq Hosts
  BY DEF LeafInv, Cache, HostsOf
<1>3. IInv /\ ServedInv /\ LeafInv /\ TaskInv => TypeOK
  <2> SUFFICES ASSUME IInv, ServedInv, LeafInv, TaskInv PROVE TypeOK
    OBVIOUS
  <2>1. PoolTypeOK
    BY <1>1 DEF TaskInv
  <2>2. ASSUME NEW c \in Clients
        PROVE  /\ task[c] \in {"none", "listener", "peek", "tunnel", "blind", "relay"}
               /\ use[c].at # "idle" => task[c] \in {"listener", "tunnel", "relay"}
               /\ use[c].at = "relay" <=> task[c] = "relay"
               /\ c \in flows => task[c] \in {"blind", "relay"}
    <3>1. Matches(task[c], use[c], c \in flows)
      BY DEF TaskInv
    <3> QED BY <3>1 DEF Matches, Tasks, ServedInv, InPool
  <2>3. phase \in {"accepting", "draining", "stopped"}
    BY DEF ServedInv
  <2> QED BY <1>2, <2>1, <2>2, <2>3 DEF TypeOK
<1>4. Spec => []ServedInv
  BY ServedInit, ServedNext, PTL DEF Spec
<1>5. Spec => []LeafInv
  BY LeafInit, LeafNext, PTL DEF Spec
<1>6. Spec => []TaskInv
  BY <1>4, TaskInit, TaskNext, PTL DEF Spec
<1> QED BY <1>3, <1>4, <1>5, <1>6, Inductive, PTL
================================================================================
