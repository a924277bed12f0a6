--------------------------- MODULE LiveFeedProofs ---------------------------
(***************************************************************************)
(* What reaches the table of the UI (LiveFeed), for any number of flows,   *)
(* revisions, clears and disconnections, and any limits.                   *)
(*                                                                         *)
(* A summary is in one of five places: the channel, the buffer of          *)
(* handle_socket, the wire, the buffer of the UI, the table.  What is      *)
(* known of a flow is what comes last of it, and what comes last is in the *)
(* first of the places that mentions it (Pending); if none does, it is in  *)
(* the table (Spent).  So an invariant "a summary in S comes last" is kept *)
(* by every step that moves summaries along, in order (PendingKept), and   *)
(* restored by every announcement of a revision in S (BroadcastSays) and   *)
(* by a resynchronisation, which sends what is stored.                     *)
(*                                                                         *)
(* Converges needs it for S = {store[f]} (CurrentArrives), with a cleared  *)
(* event on its way always followed by a summary of a flow announced since *)
(* (Followed); InitialNotLast needs it for S = 2..MaxRev (UpdatedArrives). *)
(* The same is needed of the channel alone while there is no connection or *)
(* one that has not sent the recent flows (ChanCurrent, ChanUpdated).      *)
(* ClearedInOrder needs that a flow that is gone stays so, and is never    *)
(* announced again (GoneStays).                                            *)
(***************************************************************************)
EXTENDS LiveFeed, FiniteSetTheorems, SequenceTheorems, TLAPS

Ring == INSTANCE FlowRingProofs  \* for induction over naturals

-----------------------------------------------------------------------------
\* What chan and wire hold.
Messages == [kind : {"flow", "flows", "cleared"}, updates : Seq(Updates), gone : SUBSET Flows]

\* What message m says of flow f; everything it says of f is in S.
Mentions(m, f) == \E k \in 1..Len(m.updates) : m.updates[k].flow = f
Agrees(m, f, S) ==
  \A k \in 1..Len(m.updates) : m.updates[k].flow = f => m.updates[k].rev \in S

\* A sequence of messages says nothing of f; the last it says of f is in S.
Silent(s, f) == \A i \in 1..Len(s) : ~ Mentions(s[i], f)
Says(s, f, S) ==
  \E i \in 1..Len(s) : Mentions(s[i], f) /\ \A j \in i..Len(s) : Agrees(s[j], f, S)

\* Every cleared event of s is followed by a message about f.
Renewed(s, f) ==
  \A i \in 1..Len(s) :
    s[i].kind = "cleared" => \E j \in (i + 1)..Len(s) : Mentions(s[j], f)

\* A cleared event of s had f gone; no such event is followed by a message about f.
Marks(s, f) == \E i \in 1..Len(s) : f \in s[i].gone
Buried(s, f) ==
  \A i \in 1..Len(s) :
    f \in s[i].gone => \A j \in (i + 1)..Len(s) : ~ Mentions(s[j], f)

\* The same of a sequence of updates, as the UI buffers them.
Lacks(s, f) == \A i \in 1..Len(s) : s[i].flow # f
Ends(s, f, S) ==
  \E i \in 1..Len(s) : s[i].flow = f /\ \A j \in i..Len(s) : s[j].flow = f => s[j].rev \in S

\* Something of f is on its way to the table, in the channel q, the buffer c of
\* handle_socket, the wire w or the UI's buffer u, and what comes last is in S.
Pending(q, c, w, u, f, S) ==
  \/ Says(q, f, S)
  \/ Silent(q, f) /\ c[f] # 0 /\ c[f] \in S
  \/ Silent(q, f) /\ c[f] = 0 /\ Says(w, f, S)
  \/ Silent(q, f) /\ c[f] = 0 /\ Silent(w, f) /\ Ends(u, f, S)

\* Nothing of f is on its way to the table.
Spent(q, c, w, u, f) == Silent(q, f) /\ c[f] = 0 /\ Silent(w, f) /\ Lacks(u, f)

Settled(f) == \A t \in Tasks : unsent[t][f] = 0

\* The connection hears every event that is sent.
InSync == conn = "up" /\ ~ lagged

-----------------------------------------------------------------------------
\* The parts of the inductive invariant.
MessagesOK ==
  /\ limit \in Limits
  /\ chan \in Seq(Messages) /\ wire \in Seq(Messages)
  /\ \A i \in 1..Len(chan) :
        \/ chan[i].kind = "flow" /\ Len(chan[i].updates) = 1 /\ chan[i].gone = {}
        \/ chan[i].kind = "cleared" /\ chan[i].updates = <<>>
  /\ \A i \in 1..Len(wire) :
        \/ wire[i].kind = "flows" /\ wire[i].gone = {}
        \/ wire[i].kind = "cleared" /\ wire[i].updates = <<>>

Unconnected ==
  /\ conn = "down" => chan = <<>> /\ wire = <<>> /\ ~ lagged
  /\ conn # "up" => coalesced = Nothing

Stored ==
  /\ todo \subseteq {f \in Flows : limit.revs[f] # 0}
  /\ \A f \in Flows :
       /\ f \in ToSet(order) <=> store[f] # 0
       /\ f \in todo => store[f] = 0 /\ announced[f] = 0 /\ Settled(f)
       /\ store[f] # 0 => announced[f] <= store[f]
       /\ \A t \in Tasks :
            /\ store[f] # 0 => unsent[t][f] <= store[f]
            /\ unsent[t][f] = 1 => t = "handler" /\ store[f] <= 1

RowsKnown == \A f \in Flows : byId[f] # 0 => f \in ToSet(rows)

ChanCurrent ==
  \A f \in Flows : announced[f] # 0 =>
    /\ Silent(chan, f) \/ Says(chan, f, {announced[f]})
    /\ Renewed(chan, f)

ChanUpdated ==
  \A f \in Flows : store[f] \in 2..MaxRev /\ Settled(f) =>
    Silent(chan, f) \/ Says(chan, f, 2..MaxRev)

\* A cleared event on its way to the table is not the last that concerns f.
Followed(f) == ~ Silent(chan, f) \/ coalesced[f] # 0 \/ Renewed(wire, f)

CurrentArrives ==
  InSync /\ clearing # "asked" =>
    \A f \in Flows : Current(f) =>
      /\ Followed(f)
      /\ \/ Pending(chan, coalesced, wire, wsBuffer, f, {store[f]})
         \/ /\ Spent(chan, coalesced, wire, wsBuffer, f)
            /\ byId[f] = store[f] \/ ~ HasRoom

UpdatedArrives ==
  InSync =>
    \A f \in ToSet(Recent) : store[f] \in 2..MaxRev /\ Settled(f) =>
      \/ Pending(chan, coalesced, wire, wsBuffer, f, 2..MaxRev)
      \/ Spent(chan, coalesced, wire, wsBuffer, f) /\ byId[f] # 1

GoneStays ==
  \A f \in Flows :
    /\ Buried(chan, f) /\ Buried(wire, f)
    /\ Marks(chan, f) \/ Marks(wire, f) => Gone(f)
    /\ Marks(wire, f) => Silent(chan, f) /\ coalesced[f] = 0

IInv ==
  /\ TypeOK /\ MessagesOK /\ Unconnected /\ Stored /\ RowsKnown
  /\ ChanCurrent /\ ChanUpdated /\ CurrentArrives /\ UpdatedArrives /\ GoneStays

-----------------------------------------------------------------------------
\* One more message at the end of a sequence.
LEMMA Appended ==
  ASSUME NEW s \in Seq(Messages), NEW m \in Messages, NEW f, NEW S
  PROVE  /\ Append(s, m) \in Seq(Messages)
         /\ Silent(Append(s, m), f) <=> Silent(s, f) /\ ~ Mentions(m, f)
         /\ ~ Mentions(m, f) /\ Says(s, f, S) => Says(Append(s, m), f, S)
         /\ Mentions(m, f) /\ Agrees(m, f, S) => Says(Append(s, m), f, S)
<1> DEFINE t == Append(s, m)
           n == Len(s)
<1>1. n \in Nat /\ t \in Seq(Messages) /\ Len(t) = n + 1 /\ t[n + 1] = m
  OBVIOUS
<1>2. \A i \in 1..n : t[i] = s[i]
  OBVIOUS
<1> HIDE DEF t, n
<1>3. Silent(t, f) <=> Silent(s, f) /\ ~ Mentions(m, f)
  <2>1. \A i \in 1..(n + 1) : i \in 1..n \/ i = n + 1
    BY <1>1
  <2> QED BY <1>1, <1>2, <2>1 DEF Silent, n
<1>4. ASSUME ~ Mentions(m, f), Says(s, f, S) PROVE Says(t, f, S)
  <2>1. PICK i \in 1..n : Mentions(s[i], f) /\ \A j \in i..n : Agrees(s[j], f, S)
    BY <1>4 DEF Says, n
  <2>2. Agrees(m, f, S)
    BY <1>4 DEF Agrees, Mentions
  <2>3. \A j \in i..(n + 1) : Agrees(t[j], f, S)
    <3>1. \A j \in i..(n + 1) : j \in i..n \/ j = n + 1
      BY <1>1
    <3>2. i..n \subseteq 1..n
      BY <1>1
    <3> QED BY <1>1, <1>2, <2>1, <2>2, <3>1, <3>2
  <2>4. i \in 1..(n + 1) /\ Mentions(t[i], f)
    BY <1>1, <1>2, <2>1
  <2> QED BY <1>1, <2>3, <2>4 DEF Says
<1>5. ASSUME Mentions(m, f), Agrees(m, f, S) PROVE Says(t, f, S)
  <2>1. n + 1 \in 1..(n + 1) /\ \A j \in (n + 1)..(n + 1) : j = n + 1
    BY <1>1
  <2> QED BY <1>1, <1>5, <2>1 DEF Says
<1> QED BY <1>1, <1>3, <1>4, <1>5 DEF t

\* What remains of a sequence when its head is taken.
LEMMA Shifted ==
  ASSUME NEW D, NEW s \in Seq(D), s # <<>>
  PROVE  /\ Tail(s) \in Seq(D) /\ Head(s) \in D /\ Head(s) = s[1]
         /\ Len(s) \in Nat \ {0} /\ Len(Tail(s)) = Len(s) - 1
         /\ \A i \in 1..(Len(s) - 1) : i + 1 \in 1..Len(s) /\ Tail(s)[i] = s[i + 1]
         /\ \A i \in 2..Len(s) : i - 1 \in 1..(Len(s) - 1) /\ s[i] = Tail(s)[i - 1]
OBVIOUS

LEMMA Taken ==
  ASSUME NEW s \in Seq(Messages), s # <<>>, NEW f, NEW S
  PROVE  /\ Silent(s, f) <=> Silent(Tail(s), f) /\ ~ Mentions(Head(s), f)
         /\ Says(s, f, S) =>
              \/ Says(Tail(s), f, S)
              \/ Silent(Tail(s), f) /\ Mentions(Head(s), f) /\ Agrees(Head(s), f, S)
<1> DEFINE t == Tail(s)
           n == Len(s)
<1>1. /\ n \in Nat \ {0} /\ Len(t) = n - 1 /\ Head(s) = s[1]
      /\ \A i \in 1..(n - 1) : i + 1 \in 1..n /\ t[i] = s[i + 1]
      /\ \A i \in 2..n : i - 1 \in 1..(n - 1) /\ s[i] = t[i - 1]
  BY Shifted
<1> HIDE DEF t, n
<1>2. \A i \in 1..n : i = 1 \/ i \in 2..n
  BY <1>1
<1>3. Silent(s, f) <=> Silent(t, f) /\ ~ Mentions(s[1], f)
  <2>1. 1 \in 1..n
    BY <1>1
  <2> QED BY <1>1, <1>2, <2>1 DEF Silent, n
<1>4. ASSUME Says(s, f, S)
      PROVE  Says(t, f, S) \/ (Silent(t, f) /\ Mentions(s[1], f) /\ Agrees(s[1], f, S))
  <2>1. PICK i \in 1..n : Mentions(s[i], f) /\ \A j \in i..n : Agrees(s[j], f, S)
    BY <1>4 DEF Says, n
  <2>2. CASE i \in 2..n
    <3>1. i - 1 \in 1..(n - 1) /\ Mentions(t[i - 1], f)
      BY <1>1, <2>1, <2>2
    <3>2. \A j \in (i - 1)..(n - 1) : Agrees(t[j], f, S)
      <4> SUFFICES ASSUME NEW j \in (i - 1)..(n - 1) PROVE Agrees(t[j], f, S)
        OBVIOUS
      <4>1. j \in 1..(n - 1) /\ j + 1 \in i..n
        BY <1>1, <2>2
      <4> QED BY <1>1, <2>1, <4>1
    <3> QED BY <1>1, <3>1, <3>2 DEF Says
  <2>3. CASE i = 1 /\ ~ Silent(t, f)
    <3>1. PICK k \in 1..(n - 1) : Mentions(t[k], f)
      BY <1>1, <2>3 DEF Silent
    <3>2. \A j \in k..(n - 1) : Agrees(t[j], f, S)
      <4> SUFFICES ASSUME NEW j \in k..(n - 1) PROVE Agrees(t[j], f, S)
        OBVIOUS
      <4>1. j \in 1..(n - 1) /\ j + 1 \in 1..n
        BY <1>1
      <4> QED BY <1>1, <2>1, <2>3, <4>1
    <3> QED BY <1>1, <3>1, <3>2 DEF Says
  <2>4. CASE i = 1 /\ Silent(t, f)
    <3>1. 1 \in i..n
      BY <1>1, <2>4
    <3> QED BY <2>1, <2>4, <3>1
  <2> QED BY <1>2, <2>2, <2>3, <2>4
<1> QED BY <1>1, <1>3, <1>4 DEF t

\* A sequence that says something is not silent; what it says may be weakened.
LEMMA SaysNotSilent ==
  ASSUME NEW s, NEW f, NEW S
  PROVE  /\ Says(s, f, S) => ~ Silent(s, f)
         /\ \A T : S \subseteq T /\ Says(s, f, S) => Says(s, f, T)
BY DEF Says, Silent, Agrees

\* Renewed, Buried and Marks along the same two changes of a sequence.
LEMMA MarksAppended ==
  ASSUME NEW s \in Seq(Messages), NEW m \in Messages, NEW f
  PROVE  /\ m.kind # "cleared" /\ Renewed(s, f) => Renewed(Append(s, m), f)
         /\ m.kind # "cleared" /\ Mentions(m, f) => Renewed(Append(s, m), f)
         /\ Marks(Append(s, m), f) <=> Marks(s, f) \/ f \in m.gone
         /\ Buried(s, f) /\ (Marks(s, f) => ~ Mentions(m, f)) => Buried(Append(s, m), f)
<1> DEFINE t == Append(s, m)
           n == Len(s)
<1>1. n \in Nat /\ Len(t) = n + 1 /\ t[n + 1] = m
  OBVIOUS
<1>2. \A i \in 1..n : t[i] = s[i]
  OBVIOUS
<1> HIDE DEF t, n
<1>3. \A i \in 1..(n + 1) : i \in 1..n \/ i = n + 1
  BY <1>1
<1>4. ASSUME m.kind # "cleared", Renewed(s, f) PROVE Renewed(t, f)
  <2> SUFFICES ASSUME NEW i \in 1..(n + 1), t[i].kind = "cleared"
               PROVE  \E j \in (i + 1)..(n + 1) : Mentions(t[j], f)
    BY <1>1 DEF Renewed
  <2>1. i \in 1..n /\ s[i].kind = "cleared"
    BY <1>1, <1>2, <1>3, <1>4
  <2>2. PICK j \in (i + 1)..n : Mentions(s[j], f)
    BY <1>4, <2>1 DEF Renewed, n
  <2>3. j \in 1..n /\ j \in (i + 1)..(n + 1)
    BY <1>1, <2>1, <2>2
  <2> QED BY <1>2, <2>2, <2>3
<1>5. ASSUME Mentions(m, f) PROVE m.kind # "cleared" => Renewed(t, f)
  <2> SUFFICES ASSUME NEW i \in 1..(n + 1), t[i].kind = "cleared", m.kind # "cleared"
               PROVE  \E j \in (i + 1)..(n + 1) : Mentions(t[j], f)
    BY <1>1 DEF Renewed
  <2>1. i \in 1..n
    BY <1>1, <1>3
  <2>2. n + 1 \in (i + 1)..(n + 1)
    BY <1>1, <2>1
  <2> QED BY <1>1, <1>5, <2>2
<1>6. Marks(t, f) <=> Marks(s, f) \/ f \in m.gone
  <2>1. n + 1 \in 1..(n + 1) /\ \A i \in 1..n : i \in 1..(n + 1)
    BY <1>1
  <2> QED BY <1>1, <1>2, <1>3, <2>1 DEF Marks, n
<1>7. ASSUME Buried(s, f), Marks(s, f) => ~ Mentions(m, f) PROVE Buried(t, f)
  <2> SUFFICES ASSUME NEW i \in 1..(n + 1), f \in t[i].gone, NEW j \in (i + 1)..(n + 1)
               PROVE  ~ Mentions(t[j], f)
    BY <1>1 DEF Buried
  <2>1. i \in 1..n /\ f \in s[i].gone
    BY <1>1, <1>2, <1>3
  <2>2. Marks(s, f)
    BY <2>1 DEF Marks, n
  <2>3. CASE j = n + 1
    BY <1>1, <1>7, <2>2, <2>3
  <2>4. CASE j \in (i + 1)..n
    <3>1. j \in 1..n
      BY <1>1, <2>1, <2>4
    <3> QED BY <1>2, <1>7, <2>1, <2>4, <3>1 DEF Buried, n
  <2> QED BY <1>1, <2>3, <2>4
<1> QED BY <1>1, <1>4, <1>5, <1>6, <1>7 DEF t

LEMMA MarksTaken ==
  ASSUME NEW s \in Seq(Messages), s # <<>>, NEW f
  PROVE  /\ Renewed(s, f) => Renewed(Tail(s), f)
         /\ Renewed(s, f) /\ Head(s).kind = "cleared" => ~ Silent(Tail(s), f)
         /\ Marks(s, f) <=> Marks(Tail(s), f) \/ f \in Head(s).gone
         /\ Buried(s, f) => Buried(Tail(s), f)
         /\ Buried(s, f) /\ f \in Head(s).gone => Silent(Tail(s), f)
<1> DEFINE t == Tail(s)
           n == Len(s)
<1>1. /\ n \in Nat \ {0} /\ Len(t) = n - 1 /\ Head(s) = s[1]
      /\ \A i \in 1..(n - 1) : i + 1 \in 1..n /\ t[i] = s[i + 1]
      /\ \A i \in 2..n : i - 1 \in 1..(n - 1) /\ s[i] = t[i - 1]
  BY Shifted
<1> HIDE DEF t, n
<1>2. 1 \in 1..n /\ \A i \in 1..n : i = 1 \/ i \in 2..n
  BY <1>1
<1>3. ASSUME Renewed(s, f) PROVE Renewed(t, f)
  <2> SUFFICES ASSUME NEW i \in 1..(n - 1), t[i].kind = "cleared"
               PROVE  \E j \in (i + 1)..(n - 1) : Mentions(t[j], f)
    BY <1>1 DEF Renewed
  <2>1. PICK j \in ((i + 1) + 1)..n : Mentions(s[j], f)
    BY <1>1, <1>3 DEF Renewed, n
  <2>2. j \in 2..n /\ j - 1 \in (i + 1)..(n - 1)
    BY <1>1, <2>1
  <2> QED BY <1>1, <2>1, <2>2
<1>4. ASSUME Renewed(s, f), s[1].kind = "cleared" PROVE ~ Silent(t, f)
  <2>1. PICK j \in (1 + 1)..n : Mentions(s[j], f)
    BY <1>2, <1>4 DEF Renewed, n
  <2>2. j - 1 \in 1..(n - 1) /\ Mentions(t[j - 1], f)
    BY <1>1, <2>1
  <2> QED BY <1>1, <2>2 DEF Silent
<1>5. Marks(s, f) <=> Marks(t, f) \/ f \in s[1].gone
  BY <1>1, <1>2 DEF Marks, n
<1>6. ASSUME Buried(s, f) PROVE Buried(t, f)
  <2> SUFFICES ASSUME NEW i \in 1..(n - 1), f \in t[i].gone, NEW j \in (i + 1)..(n - 1)
               PROVE  ~ Mentions(t[j], f)
    BY <1>1 DEF Buried
  <2>1. j \in 1..(n - 1) /\ j + 1 \in ((i + 1) + 1)..n
    BY <1>1
  <2> QED BY <1>1, <1>6, <2>1 DEF Buried, n
<1>7. ASSUME Buried(s, f), f \in s[1].gone PROVE Silent(t, f)
  <2> SUFFICES ASSUME NEW i \in 1..(n - 1) PROVE ~ Mentions(t[i], f)
    BY <1>1 DEF Silent
  <2>1. i + 1 \in (1 + 1)..n
    BY <1>1
  <2> QED BY <1>1, <1>2, <1>7, <2>1 DEF Buried, n
<1> QED BY <1>1, <1>3, <1>4, <1>5, <1>6, <1>7 DEF t
-----------------------------------------------------------------------------
\* Every finite set of numbers can be listed in increasing order.
Listed(s, S) ==
  /\ S = {s[k] : k \in 1..Cardinality(S)}
  /\ \A i, j \in 1..Cardinality(S) : i < j => s[i] < s[j]

LEMMA SortedExists ==
  ASSUME NEW S, S \subseteq Nat, IsFiniteSet(S)
  PROVE  \E s \in [1..Cardinality(S) -> S] : Listed(s, S)
<1> DEFINE Good(T) == \E s \in [1..Cardinality(T) -> T] : Listed(s, T)
           N == {n \in Nat : \A T \in SUBSET Nat :
                   IsFiniteSet(T) /\ Cardinality(T) = n => Good(T)}
<1>1. 0 \in N
  <2> SUFFICES ASSUME NEW T \in SUBSET Nat, IsFiniteSet(T), Cardinality(T) = 0 PROVE Good(T)
    OBVIOUS
  <2>1. T = {}
    BY FS_EmptySet
  <2> DEFINE s == [k \in 1..0 |-> 0]
  <2>2. s \in [1..0 -> T] /\ T = {s[k] : k \in 1..0}
    BY <2>1
  <2>3. s \in [1..Cardinality(T) -> T]
    BY <2>2
  <2>4. Listed(s, T)
    BY <2>2 DEF Listed
  <2> HIDE DEF s
  <2> QED BY <2>3, <2>4
<1>2. ASSUME NEW n \in Nat, n \in N PROVE n + 1 \in N
  <2> SUFFICES ASSUME NEW T \in SUBSET Nat, IsFiniteSet(T), Cardinality(T) = n + 1 PROVE Good(T)
    OBVIOUS
  <2>1. T # {}
    <3>1. Cardinality({}) = 0
      BY FS_EmptySet
    <3> QED BY <3>1
  <2>2. PICK x \in T : \A y \in T : x <= y
    BY <2>1, Ring!LeastNat
  <2> DEFINE U == T \ {x}
  <2>3. IsFiniteSet(U) /\ Cardinality(U) = n /\ U \in SUBSET Nat
    BY FS_RemoveElement
  <2>4. Good(U)
    BY <1>2, <2>3
  <2>5. PICK u \in [1..n -> U] : Listed(u, U)
    BY <2>3, <2>4
  <2>6. U = {u[k] : k \in 1..n} /\ \A i, j \in 1..n : i < j => u[i] < u[j]
    BY <2>3, <2>5 DEF Listed
  <2>7. \A y \in U : x < y /\ y \in Nat
    BY <2>2
  <2> HIDE DEF U
  <2> DEFINE s == [k \in 1..(n + 1) |-> IF k = 1 THEN x ELSE u[k - 1]]
  <2>8. s[1] = x /\ \A k \in 2..(n + 1) : k - 1 \in 1..n /\ s[k] = u[k - 1]
    OBVIOUS
  <2>9. \A k \in 1..n : k + 1 \in 2..(n + 1) /\ s[k + 1] = u[k]
    OBVIOUS
  <2>10. T = U \union {x}
    BY DEF U
  <2>11. s \in [1..(n + 1) -> T]
    BY <2>10
  <2> HIDE DEF s
  <2>12. \A k \in 1..(n + 1) : k = 1 \/ k \in 2..(n + 1)
    OBVIOUS
  <2>13. 1 \in 1..(n + 1) /\ \A k \in 2..(n + 1) : k \in 1..(n + 1)
    OBVIOUS
  <2>14. T = {s[k] : k \in 1..(n + 1)}
    <3>1. ASSUME NEW y \in T PROVE \E k \in 1..(n + 1) : s[k] = y
      <4>1. CASE y = x
        BY <2>8, <2>13, <4>1
      <4>2. CASE y \in U
        <5>1. PICK k \in 1..n : u[k] = y
          BY <2>6, <4>2
        <5> QED BY <2>9, <2>13, <5>1
      <4> QED BY <2>10, <4>1, <4>2
    <3>2. \A k \in 1..(n + 1) : s[k] \in T
      BY <2>11
    <3> QED BY <3>1, <3>2
  <2>15. \A i, j \in 1..(n + 1) : i < j => s[i] < s[j]
    <3> SUFFICES ASSUME NEW i \in 1..(n + 1), NEW j \in 1..(n + 1), i < j PROVE s[i] < s[j]
      OBVIOUS
    <3>1. j \in 2..(n + 1) /\ s[j] = u[j - 1] /\ u[j - 1] \in U
      BY <2>6, <2>8
    <3>2. CASE i = 1
      BY <2>7, <2>8, <3>1, <3>2
    <3>3. CASE i \in 2..(n + 1)
      BY <2>6, <2>8, <3>1, <3>3
    <3> QED BY <2>12, <3>2, <3>3
  <2>16. Listed(s, T)
    BY <2>14, <2>15 DEF Listed
  <2> QED BY <2>11, <2>16
<1>3. \A n \in Nat : n \in N
  <2> HIDE DEF N
  <2> QED BY <1>1, <1>2, Ring!SetInduction
<1>4. Cardinality(S) \in Nat
  BY FS_CardinalityType
<1> QED BY <1>3, <1>4

LEMMA SortedOK ==
  ASSUME NEW S, S \subseteq Nat, IsFiniteSet(S)
  PROVE  /\ Sorted(S) \in Seq(S)
         /\ S = {Sorted(S)[k] : k \in 1..Len(Sorted(S))}
<1> DEFINE s == Sorted(S)
<1>1. s \in [1..Cardinality(S) -> S] /\ Listed(s, S)
  <2>1. \E x \in [1..Cardinality(S) -> S] : Listed(x, S)
    BY SortedExists
  <2>2. s = CHOOSE x \in [1..Cardinality(S) -> S] : Listed(x, S)
    BY Zenon DEF Sorted, Listed
  <2> HIDE DEF s
  <2> QED BY <2>1, <2>2
<1>2. Cardinality(S) \in Nat
  BY FS_CardinalityType
<1> HIDE DEF s
<1>3. s \in Seq(S) /\ Len(s) = Cardinality(S)
  BY <1>1, <1>2
<1> QED BY <1>1, <1>3 DEF s, Listed

\* A message that is no cleared event.
Carries(m) == m \in Messages /\ m.kind = "flows" /\ m.gone = {}

LEMMA UpdateTypes ==
  ASSUME NEW f \in Flows, NEW r \in 1..MaxRev
  PROVE  /\ Update(f, r) \in Updates /\ Update(f, r).flow = f /\ Update(f, r).rev = r
BY DEF Update, Updates

LEMMA FlowsMsgOK ==
  ASSUME NEW s \in Seq(Updates)
  PROVE  Carries(FlowsMsg(s)) /\ FlowsMsg(s).updates = s
BY DEF FlowsMsg, Messages, Carries

\* flush_coalesced sends what the buffer holds, one update a flow.
LEMMA FlushedOK ==
  ASSUME NEW c \in [Flows -> 0..MaxRev]
  PROVE  \/ Flushed(c) = <<>> /\ c = Nothing
         \/ \E m : /\ Flushed(c) = <<m>> /\ Carries(m)
                   /\ \A f \in Flows : /\ Mentions(m, f) <=> c[f] # 0
                                       /\ Agrees(m, f, {c[f]})
<1> DEFINE S == {f \in Flows : c[f] # 0}
           ids == Sorted(S)
           us == [k \in 1..Len(ids) |-> Update(ids[k], c[ids[k]])]
<1>1. S \subseteq Nat /\ IsFiniteSet(S)
  BY FlowsAssumption, FS_Subset
<1>2. ids \in Seq(S) /\ S = {ids[k] : k \in 1..Len(ids)}
  <2> HIDE DEF S
  <2> QED BY <1>1, SortedOK
<1>3. Flushed(c) = IF ids = <<>> THEN <<>> ELSE <<FlowsMsg(us)>>
  BY DEF Flushed
<1> HIDE DEF ids
<1>4. CASE ids = <<>>
  <2>1. S = {}
    BY <1>2, <1>4
  <2> QED BY <1>3, <1>4, <2>1 DEF Nothing
<1>5. CASE ids # <<>>
  <2>1. \A k \in 1..Len(ids) : ids[k] \in Flows /\ c[ids[k]] \in 1..MaxRev
    <3>1. \A k \in 1..Len(ids) : ids[k] \in S
      BY <1>2
    <3>2. \A r \in 0..MaxRev : r # 0 => r \in 1..MaxRev
      BY RevAssumption
    <3> QED BY <3>1, <3>2
  <2>2. \A k \in 1..Len(ids) : /\ us[k] \in Updates /\ us[k].flow = ids[k]
                               /\ us[k].rev = c[ids[k]]
    <3> SUFFICES ASSUME NEW k \in 1..Len(ids) PROVE us[k] \in Updates /\ us[k].flow = ids[k] /\ us[k].rev = c[ids[k]]
      OBVIOUS
    <3>1. us[k] = Update(ids[k], c[ids[k]])
      OBVIOUS
    <3> HIDE DEF us, S
    <3> QED BY <2>1, <3>1, UpdateTypes
  <2>3. us \in Seq(Updates) /\ Len(us) = Len(ids)
    <3>1. Len(ids) \in Nat /\ us = [k \in 1..Len(ids) |-> us[k]]
      BY <1>2
    <3> HIDE DEF us
    <3> QED BY <2>2, <3>1
  <2> HIDE DEF us
  <2>4. Carries(FlowsMsg(us)) /\ FlowsMsg(us).updates = us
    BY <2>3, FlowsMsgOK
  <2>5. ASSUME NEW f \in Flows
        PROVE  (Mentions(FlowsMsg(us), f) <=> c[f] # 0) /\ Agrees(FlowsMsg(us), f, {c[f]})
    <3>1. Mentions(FlowsMsg(us), f) <=> \E k \in 1..Len(ids) : ids[k] = f
      BY <2>2, <2>3, <2>4 DEF Mentions
    <3>2. (\E k \in 1..Len(ids) : ids[k] = f) <=> f \in S
      <4> HIDE DEF S
      <4> QED BY <1>2
    <3>3. Agrees(FlowsMsg(us), f, {c[f]})
      BY <2>2, <2>3, <2>4 DEF Agrees
    <3> QED BY <3>1, <3>2, <3>3
  <2> QED BY <1>3, <1>5, <2>4, <2>5
<1> QED BY <1>4, <1>5

\* The wire after a flush.
LEMMA FlushedWire ==
  ASSUME NEW w \in Seq(Messages), NEW c \in [Flows -> 0..MaxRev], NEW f \in Flows, NEW S
  PROVE  LET v == w \o Flushed(c) IN
         /\ v \in Seq(Messages)
         /\ Silent(v, f) <=> Silent(w, f) /\ c[f] = 0
         /\ c[f] = 0 /\ Says(w, f, S) => Says(v, f, S)
         /\ c[f] # 0 /\ c[f] \in S => Says(v, f, S)
         /\ c[f] # 0 \/ Renewed(w, f) => Renewed(v, f)
         /\ Marks(v, f) <=> Marks(w, f)
         /\ Buried(w, f) /\ (Marks(w, f) => c[f] = 0) => Buried(v, f)
<1> DEFINE v == w \o Flushed(c)
<1>1. CASE Flushed(c) = <<>> /\ c = Nothing
  <2>1. v = w /\ c[f] = 0
    BY <1>1 DEF Nothing
  <2> QED BY <2>1
<1>2. CASE \E m : /\ Flushed(c) = <<m>> /\ Carries(m)
                  /\ \A g \in Flows : /\ Mentions(m, g) <=> c[g] # 0
                                      /\ Agrees(m, g, {c[g]})
  <2>1. PICK m : /\ Flushed(c) = <<m>> /\ Carries(m)
                 /\ \A g \in Flows : /\ Mentions(m, g) <=> c[g] # 0
                                     /\ Agrees(m, g, {c[g]})
    BY <1>2
  <2>2. m \in Messages /\ m.kind # "cleared" /\ m.gone = {}
    BY <2>1 DEF Carries
  <2>3. v = Append(w, m)
    BY <2>1, <2>2
  <2>4. c[f] \in S => Agrees(m, f, S)
    BY <2>1 DEF Agrees
  <2> HIDE DEF v
  <2>5. /\ Append(w, m) \in Seq(Messages)
        /\ Silent(Append(w, m), f) <=> Silent(w, f) /\ ~ Mentions(m, f)
        /\ ~ Mentions(m, f) /\ Says(w, f, S) => Says(Append(w, m), f, S)
        /\ Mentions(m, f) /\ Agrees(m, f, S) => Says(Append(w, m), f, S)
    BY <2>2, Appended
  <2>6. /\ Renewed(w, f) => Renewed(Append(w, m), f)
        /\ Mentions(m, f) => Renewed(Append(w, m), f)
        /\ Marks(Append(w, m), f) <=> Marks(w, f)
        /\ Buried(w, f) /\ (Marks(w, f) => ~ Mentions(m, f)) => Buried(Append(w, m), f)
    BY <2>2, MarksAppended
  <2> QED BY <2>1, <2>3, <2>4, <2>5, <2>6 DEF v
<1> QED BY <1>1, <1>2, FlushedOK
-----------------------------------------------------------------------------
\* The last n entries of a sequence.
LEMMA LastOfOK ==
  ASSUME NEW D, NEW s \in Seq(D), NEW n \in Nat \ {0}
  PROVE  LET l == LastOf(s, n) IN
         /\ l \in Seq(D) /\ Len(l) <= n /\ Len(l) <= Len(s)
         /\ Len(s) <= n => l = s
         /\ Len(s) >= n => Len(l) = n
         /\ \A k \in 1..Len(l) : /\ k + (Len(s) - Len(l)) \in 1..Len(s)
                                 /\ l[k] = s[k + (Len(s) - Len(l))]
         /\ ToSet(l) \subseteq ToSet(s)
<1> DEFINE l == LastOf(s, n)
<1>1. Len(s) \in Nat
  OBVIOUS
<1>2. /\ l \in Seq(D) /\ Len(l) <= n /\ Len(l) <= Len(s)
      /\ Len(s) <= n => l = s
      /\ Len(s) >= n => Len(l) = n
      /\ \A k \in 1..Len(l) : k + (Len(s) - Len(l)) \in 1..Len(s) /\ l[k] = s[k + (Len(s) - Len(l))]
  <2>1. CASE Len(s) <= n
    <3>1. l = s
      BY <1>1, <2>1 DEF LastOf
    <3> HIDE DEF l
    <3> QED BY <1>1, <2>1, <3>1
  <2>2. CASE Len(s) > n
    <3> DEFINE a == Len(s) - n + 1
    <3>1. l = SubSeq(s, a, Len(s)) /\ a \in 1..Len(s)
      BY <1>1, <2>2 DEF LastOf
    <3> HIDE DEF l
    <3>2. /\ SubSeq(s, a, Len(s)) \in Seq(D) /\ Len(SubSeq(s, a, Len(s))) = n
          /\ \A k \in 1..n : SubSeq(s, a, Len(s))[k] = s[a + k - 1]
      BY <1>1, <2>2, <3>1
    <3>3. \A k \in 1..n : k + (Len(s) - n) \in 1..Len(s) /\ a + k - 1 = k + (Len(s) - n)
      BY <1>1, <2>2
    <3>4. Len(l) = n /\ l \in Seq(D)
      BY <3>1, <3>2
    <3> HIDE DEF a
    <3>5. \A k \in 1..n : l[k] = s[k + (Len(s) - n)] /\ k + (Len(s) - n) \in 1..Len(s)
      BY <3>1, <3>2, <3>3
    <3> QED BY <1>1, <2>2, <3>4, <3>5
  <2> QED BY <1>1, <2>1, <2>2
<1> HIDE DEF l
<1>3. ToSet(l) \subseteq ToSet(s)
  <2>1. DOMAIN l = 1..Len(l) /\ DOMAIN s = 1..Len(s)
    BY <1>2
  <2> QED BY <1>2, <2>1 DEF ToSet
<1> QED BY <1>2, <1>3 DEF l

\* A flow among the last r of the grown and cut order was among the last r.
LEMMA RecentShrinks ==
  ASSUME NEW o \in Seq(Flows), NEW f \in Flows, NEW n \in Nat \ {0}, NEW r \in Nat \ {0},
         NEW g, g # f, g \in ToSet(LastOf(LastOf(Append(o, f), n), r))
  PROVE  g \in ToSet(LastOf(o, r))
<1> DEFINE a == Append(o, f)
           c == LastOf(a, n)
           l == LastOf(c, r)
           m == LastOf(o, r)
<1>1. a \in Seq(Flows) /\ Len(a) = Len(o) + 1 /\ Len(o) \in Nat
  OBVIOUS
<1>2. \A i \in 1..Len(a) : a[i] # f => i \in 1..Len(o) /\ a[i] = o[i]
  OBVIOUS
<1> HIDE DEF a
<1>3. /\ c \in Seq(Flows)
      /\ \A k \in 1..Len(c) : k + (Len(a) - Len(c)) \in 1..Len(a) /\ c[k] = a[k + (Len(a) - Len(c))]
  BY <1>1, LastOfOK
<1> HIDE DEF c
<1>4. /\ l \in Seq(Flows) /\ Len(l) <= r
      /\ \A k \in 1..Len(l) : k + (Len(c) - Len(l)) \in 1..Len(c) /\ l[k] = c[k + (Len(c) - Len(l))]
  BY <1>3, LastOfOK
<1> HIDE DEF l
<1>5. PICK k \in 1..Len(l) : l[k] = g
  BY <1>4 DEF ToSet, a, c, l
<1> DEFINE i == k + (Len(c) - Len(l)) + (Len(a) - Len(c))
<1>6. i \in 1..Len(a) /\ a[i] = g
  BY <1>3, <1>4, <1>5
<1>7. i \in 1..Len(o) /\ o[i] = g
  BY <1>2, <1>6
<1>8. i > Len(a) - r
  <2>1. Len(a) \in Nat /\ Len(c) \in Nat /\ Len(l) \in Nat
    BY <1>1, <1>3, <1>4
  <2> QED BY <1>4, <2>1
<1> HIDE DEF i
<1>9. /\ m \in Seq(Flows) /\ Len(m) <= r
      /\ Len(o) <= r => m = o
      /\ Len(o) >= r => Len(m) = r
      /\ \A j \in 1..Len(m) : j + (Len(o) - Len(m)) \in 1..Len(o) /\ m[j] = o[j + (Len(o) - Len(m))]
  BY LastOfOK
<1> HIDE DEF m
<1>10. \E j \in 1..Len(m) : m[j] = g
  <2> DEFINE j == i - (Len(o) - Len(m))
  <2>1. Len(m) \in Nat /\ (Len(m) = Len(o) \/ Len(m) = r)
    BY <1>1, <1>9
  <2>2. j \in 1..Len(m) /\ j + (Len(o) - Len(m)) = i
    BY <1>1, <1>7, <1>8, <2>1
  <2> HIDE DEF j
  <2> QED BY <1>7, <1>9, <2>2
<1> QED BY <1>9, <1>10 DEF ToSet, m

-----------------------------------------------------------------------------
\* The table and the buffered updates.
Tables ==
  {t \in [rows : Seq(Flows), byId : [Flows -> 0..MaxRev]] :
     \A f \in Flows : t.byId[f] # 0 => f \in ToSet(t.rows)}

LEMMA UpsertOK ==
  ASSUME NEW t \in Tables, NEW u \in Updates
  PROVE  /\ Upsert(t, u) \in Tables
         /\ Len(Upsert(t, u).rows) >= Len(t.rows)
         /\ Upsert(t, u).byId = [t.byId EXCEPT ![u.flow] = u.rev]
<1> DEFINE n == Upsert(t, u)
<1>1. t.rows \in Seq(Flows) /\ t.byId \in [Flows -> 0..MaxRev] /\ Len(t.rows) \in Nat
  BY DEF Tables
<1>2. u.flow \in Flows /\ u.rev \in 0..MaxRev
  BY RevAssumption DEF Updates
<1>3. n.rows = IF u.flow \in ToSet(t.rows) THEN t.rows ELSE Append(t.rows, u.flow)
  BY DEF Upsert
<1>4. n.byId = [t.byId EXCEPT ![u.flow] = u.rev]
  BY DEF Upsert
<1>5. n = [rows |-> n.rows, byId |-> n.byId]
  BY DEF Upsert
<1> HIDE DEF n
<1>6. /\ n.rows \in Seq(Flows) /\ Len(n.rows) >= Len(t.rows)
      /\ u.flow \in ToSet(n.rows) /\ ToSet(t.rows) \subseteq ToSet(n.rows)
  <2>1. CASE u.flow \in ToSet(t.rows)
    BY <1>1, <1>3, <2>1
  <2>2. CASE u.flow \notin ToSet(t.rows)
    <3> DEFINE a == Append(t.rows, u.flow)
    <3>1. /\ a \in Seq(Flows) /\ Len(a) = Len(t.rows) + 1 /\ a[Len(t.rows) + 1] = u.flow
          /\ \A i \in 1..Len(t.rows) : i \in 1..Len(a) /\ a[i] = t.rows[i]
      BY <1>1, <1>2
    <3>2. Len(t.rows) + 1 \in 1..Len(a)
      BY <1>1, <3>1
    <3>3. DOMAIN a = 1..Len(a) /\ DOMAIN t.rows = 1..Len(t.rows)
      BY <1>1, <3>1
    <3>4. n.rows = a
      BY <1>3, <2>2
    <3> HIDE DEF a
    <3> QED BY <1>1, <3>1, <3>2, <3>3, <3>4 DEF ToSet
  <2> QED BY <2>1, <2>2
<1>7. n.byId \in [Flows -> 0..MaxRev]
  BY <1>1, <1>2, <1>4
<1>8. \A f \in Flows : n.byId[f] # 0 => f \in ToSet(n.rows)
  <2>1. \A f \in Flows : t.byId[f] # 0 => f \in ToSet(t.rows)
    BY DEF Tables
  <2> QED BY <1>1, <1>2, <1>4, <1>6, <2>1
<1>9. n \in Tables
  BY <1>5, <1>6, <1>7, <1>8 DEF Tables
<1> QED BY <1>4, <1>6, <1>9 DEF n

\* ingestFlows gives every flow the last update the buffer holds of it, leaves
\* the others alone and drops no row.
LEMMA IngestedOK ==
  ASSUME NEW t \in Tables, NEW us \in Seq(Updates)
  PROVE  /\ Ingested(t, us) \in Tables
         /\ Len(Ingested(t, us).rows) >= Len(t.rows)
         /\ \A f \in Flows :
              /\ Lacks(us, f) => Ingested(t, us).byId[f] = t.byId[f]
              /\ \A S : Ends(us, f, S) => Ingested(t, us).byId[f] \in S
<1> DEFINE n == Len(us)
           Is(f) == f = [k \in 0..n |-> IF k = 0 THEN t ELSE Upsert(f[k - 1], us[k])]
           g == CHOOSE f : f = [k \in 0..n |-> IF k = 0 THEN t ELSE Upsert(f[k - 1], us[k])]
<1>1. n \in Nat /\ \A k \in 1..n : us[k] \in Updates
  OBVIOUS
<1>2. \E f : Is(f)
  <2> DEFINE h == [k \in 1..n |-> [x \in Tables |-> Upsert(x, us[k])]]
  <2>1. \A x \in Tables, k \in 1..n : h[k][x] = Upsert(x, us[k])
    OBVIOUS
  <2>2. h \in [1..n -> [Tables -> Tables]]
    BY <1>1, UpsertOK
  <2> HIDE DEF h
  <2>3. PICK f \in [0..n -> Tables] : f[0] = t /\ \A k \in 1..n : f[k] = h[k][f[k - 1]]
    <3>1. n \in Nat
      OBVIOUS
    <3> HIDE DEF n, Is, g
    <3>2. \E f \in [0..n -> Tables] : f[0] = t /\ \A k \in 1..n : f[k] = h[k][f[k - 1]]
      BY <2>2, <3>1, Ring!PrimitiveRecursion, SMTT(20)
    <3> QED BY <3>2
  <2>4. \A k \in 1..n : f[k] = Upsert(f[k - 1], us[k])
    <3>1. \A k \in 1..n : k - 1 \in 0..n
      BY <1>1
    <3>2. \A k \in 1..n : f[k - 1] \in Tables
      BY <3>1
    <3> QED BY <2>1, <2>3, <3>2
  <2>5. \A k \in 0..n : f[k] = IF k = 0 THEN t ELSE Upsert(f[k - 1], us[k])
    <3>1. \A k \in 0..n : k = 0 \/ k \in 1..n
      BY <1>1
    <3> QED BY <2>3, <2>4, <3>1
  <2>6. f = [k \in 0..n |-> f[k]]
    OBVIOUS
  <2>7. Is(f)
    BY <2>5, <2>6
  <2> QED BY <2>7
<1>3. Is(g)
  BY <1>2
<1>4. Ingested(t, us) = g[n]
  BY DEF Ingested
<1> HIDE DEF g
<1>5. g[0] = t /\ \A k \in 1..n : g[k] = Upsert(g[k - 1], us[k])
  <2>1. 0 \in 0..n /\ \A k \in 1..n : k \in 0..n /\ k # 0
    BY <1>1
  <2> QED BY <1>3, <2>1
<1> DEFINE Silence(k, f) == (\A i \in 1..k : us[i].flow # f) => g[k].byId[f] = t.byId[f]
           Word(k, f, S) ==
             (\E i \in 1..k : us[i].flow = f /\ \A j \in i..k : us[j].flow = f => us[j].rev \in S)
               => g[k].byId[f] \in S
           Good(k) == /\ g[k] \in Tables /\ Len(g[k].rows) >= Len(t.rows)
                      /\ \A f \in Flows : Silence(k, f) /\ \A S : Word(k, f, S)
           N == {k \in Nat : k <= n => Good(k)}
<1>6. 0 \in N
  <2>1. Len(t.rows) \in Nat
    BY DEF Tables
  <2> QED BY <1>5, <2>1
<1>7. ASSUME NEW k \in Nat, k \in N PROVE k + 1 \in N
  <2> SUFFICES ASSUME k + 1 <= n PROVE Good(k + 1)
    OBVIOUS
  <2>1. Good(k)
    BY <1>1, <1>7
  <2> DEFINE u == us[k + 1]
  <2>2. k + 1 \in 1..n /\ u \in Updates
    BY <1>1
  <2>3. g[k + 1] = Upsert(g[k], u)
    BY <1>5, <2>2
  <2>4. /\ g[k + 1] \in Tables /\ Len(g[k + 1].rows) >= Len(g[k].rows)
        /\ g[k + 1].byId = [g[k].byId EXCEPT ![u.flow] = u.rev]
    <3>1. g[k] \in Tables
      BY <2>1
    <3> HIDE DEF u, g
    <3> QED BY <2>2, <2>3, <3>1, UpsertOK
  <2>5. Len(g[k + 1].rows) >= Len(t.rows)
    BY <2>1, <2>4 DEF Tables
  <2>6. \A f \in Flows : g[k + 1].byId[f] = IF f = u.flow THEN u.rev ELSE g[k].byId[f]
    <3>1. g[k].byId \in [Flows -> 0..MaxRev]
      BY <2>1 DEF Tables
    <3> QED BY <2>4, <3>1
  <2>7. \A i \in 1..(k + 1) : i \in 1..k \/ i = k + 1
    OBVIOUS
  <2>8. k + 1 \in 1..(k + 1) /\ \A i \in 1..k : i \in 1..(k + 1)
    OBVIOUS
  <2> HIDE DEF g
  <2>9. ASSUME NEW f \in Flows PROVE Silence(k + 1, f)
    <3> SUFFICES ASSUME \A i \in 1..(k + 1) : us[i].flow # f
                 PROVE  g[k + 1].byId[f] = t.byId[f]
      OBVIOUS
    <3>1. u.flow # f /\ Silence(k, f)
      BY <2>1, <2>8
    <3> QED BY <2>6, <2>8, <3>1
  <2>10. ASSUME NEW f \in Flows, NEW S PROVE Word(k + 1, f, S)
    <3> SUFFICES ASSUME NEW i \in 1..(k + 1), us[i].flow = f,
                        \A j \in i..(k + 1) : us[j].flow = f => us[j].rev \in S
                 PROVE  g[k + 1].byId[f] \in S
      OBVIOUS
    <3>1. CASE u.flow = f
      <4>1. k + 1 \in i..(k + 1)
        OBVIOUS
      <4> QED BY <2>6, <3>1, <4>1
    <3>2. CASE u.flow # f
      <4>1. i \in 1..k
        BY <2>7, <3>2
      <4>2. \A j \in i..k : j \in i..(k + 1)
        OBVIOUS
      <4>3. Word(k, f, S)
        BY <2>1
      <4>4. g[k].byId[f] \in S
        BY <4>1, <4>2, <4>3
      <4> QED BY <2>6, <3>2, <4>4
    <3> QED BY <3>1, <3>2
  <2> QED BY <2>4, <2>5, <2>9, <2>10
<1>8. Good(n)
  <2>1. \A k \in Nat : k \in N
    <3> HIDE DEF N
    <3> QED BY <1>6, <1>7, Ring!SetInduction
  <2> QED BY <1>1, <2>1
<1> HIDE DEF n
<1> QED BY <1>4, <1>8 DEF Lacks, Ends, n
-----------------------------------------------------------------------------
\* Along the way to the table, what comes last of a flow keeps coming last.
Feed(q, c, w, u) ==
  /\ q \in Seq(Messages) /\ w \in Seq(Messages) /\ u \in Seq(Updates)
  /\ c \in [Flows -> 0..MaxRev]

LEMMA BufferGrows ==
  ASSUME NEW u \in Seq(Updates), NEW m \in Messages, NEW f, NEW S
  PROVE  LET v == u \o m.updates IN
         /\ v \in Seq(Updates)
         /\ Lacks(v, f) <=> Lacks(u, f) /\ ~ Mentions(m, f)
         /\ ~ Mentions(m, f) /\ Ends(u, f, S) => Ends(v, f, S)
         /\ Mentions(m, f) /\ Agrees(m, f, S) => Ends(v, f, S)
<1> DEFINE x == m.updates
           v == u \o x
           n == Len(u)
           k == Len(x)
<1>1. x \in Seq(Updates)
  BY DEF Messages
<1>2. /\ n \in Nat /\ k \in Nat /\ v \in Seq(Updates) /\ Len(v) = n + k
      /\ \A i \in 1..n : v[i] = u[i]
      /\ \A i \in 1..k : v[n + i] = x[i]
  <2> HIDE DEF x
  <2> QED BY <1>1
<1> HIDE DEF v, n
<1>3. \A i \in 1..(n + k) : i \in 1..n \/ (i - n \in 1..k /\ v[i] = x[i - n])
  <2> SUFFICES ASSUME NEW i \in 1..(n + k), i \notin 1..n PROVE i - n \in 1..k /\ v[i] = x[i - n]
    OBVIOUS
  <2>1. i - n \in 1..k /\ n + (i - n) = i
    BY <1>2
  <2> QED BY <1>2, <2>1
<1>4. Lacks(v, f) <=> Lacks(u, f) /\ ~ Mentions(m, f)
  <2>1. \A i \in 1..k : n + i \in 1..(n + k)
    BY <1>2
  <2>2. \A i \in 1..n : i \in 1..(n + k)
    BY <1>2
  <2>3. ASSUME Lacks(v, f) PROVE Lacks(u, f) /\ ~ Mentions(m, f)
    <3>1. \A i \in 1..n : u[i].flow # f
      BY <1>2, <2>2, <2>3 DEF Lacks
    <3>2. \A i \in 1..k : x[i].flow # f
      BY <1>2, <2>1, <2>3 DEF Lacks
    <3> QED BY <3>1, <3>2 DEF Lacks, Mentions, n
  <2>4. ASSUME Lacks(u, f), ~ Mentions(m, f) PROVE Lacks(v, f)
    BY <1>2, <1>3, <2>4 DEF Lacks, Mentions, n
  <2> QED BY <2>3, <2>4
<1>5. ASSUME ~ Mentions(m, f), Ends(u, f, S) PROVE Ends(v, f, S)
  <2>1. PICK i \in 1..n : u[i].flow = f /\ \A j \in i..n : u[j].flow = f => u[j].rev \in S
    BY <1>5 DEF Ends, n
  <2>2. i \in 1..(n + k) /\ v[i].flow = f
    BY <1>2, <2>1
  <2>3. ASSUME NEW j \in i..(n + k), v[j].flow = f PROVE v[j].rev \in S
    <3>1. j \in 1..(n + k) /\ i <= j
      BY <1>2, <2>1
    <3>2. CASE j \in 1..n
      <4>1. j \in i..n
        BY <3>1, <3>2
      <4>2. v[j] = u[j]
        BY <1>2, <3>2
      <4> QED BY <2>1, <2>3, <4>1, <4>2
    <3>3. CASE j - n \in 1..k /\ v[j] = x[j - n]
      BY <1>5, <2>3, <3>3 DEF Mentions
    <3> QED BY <1>3, <3>1, <3>2, <3>3
  <2> QED BY <1>2, <2>2, <2>3 DEF Ends
<1>6. ASSUME Mentions(m, f), Agrees(m, f, S) PROVE Ends(v, f, S)
  <2>1. PICK i \in 1..k : x[i].flow = f
    BY <1>6 DEF Mentions
  <2>2. n + i \in 1..(n + k) /\ v[n + i].flow = f
    BY <1>2, <2>1
  <2>3. ASSUME NEW j \in (n + i)..(n + k), v[j].flow = f PROVE v[j].rev \in S
    <3>1. j \in 1..(n + k) /\ j \notin 1..n
      BY <1>2, <2>1
    <3>2. j - n \in 1..k /\ v[j] = x[j - n]
      BY <1>3, <3>1
    <3> QED BY <1>6, <2>3, <3>2 DEF Agrees
  <2> QED BY <1>2, <2>2, <2>3 DEF Ends
<1> QED BY <1>2, <1>4, <1>5, <1>6 DEF v

\* events.recv() returns a flow update.
LEMMA FlowTaken ==
  ASSUME NEW q, NEW c, NEW w, NEW u, Feed(q, c, w, u), q # <<>>,
         Len(Head(q).updates) = 1, NEW f \in Flows, NEW S
  PROVE  LET d == [g \in Flows |-> IF g = Head(q).updates[1].flow
                                   THEN Head(q).updates[1].rev ELSE c[g]] IN
         /\ Feed(Tail(q), d, w, u)
         /\ Pending(q, c, w, u, f, S) => Pending(Tail(q), d, w, u, f, S)
         /\ Spent(q, c, w, u, f) => Spent(Tail(q), d, w, u, f)
         /\ ~ Silent(q, f) => ~ Silent(Tail(q), f) \/ d[f] # 0
         /\ Mentions(Head(q), f) => d[f] # 0
         /\ ~ Mentions(Head(q), f) => d[f] = c[f]
<1> DEFINE h == Head(q)
           x == h.updates[1]
           d == [g \in Flows |-> IF g = x.flow THEN x.rev ELSE c[g]]
<1>1. q \in Seq(Messages) /\ c \in [Flows -> 0..MaxRev]
  BY DEF Feed
<1>2. h \in Messages /\ Tail(q) \in Seq(Messages)
  BY <1>1, Shifted
<1> HIDE DEF h
<1>3. Len(h.updates) = 1
  BY DEF h
<1>4. h.updates \in Seq(Updates) /\ x \in Updates
  <2>1. h.updates \in Seq(Updates)
    BY <1>2 DEF Messages
  <2> QED BY <1>3, <2>1
<1>5. x.flow \in Flows /\ x.rev \in 0..MaxRev /\ x.rev # 0
  BY <1>4, RevAssumption DEF Updates
<1>6. /\ Mentions(h, f) <=> x.flow = f
      /\ Mentions(h, f) => (Agrees(h, f, S) <=> x.rev \in S)
  BY <1>3 DEF Mentions, Agrees
<1>7. d \in [Flows -> 0..MaxRev] /\ d[f] = IF f = x.flow THEN x.rev ELSE c[f]
  BY <1>1, <1>5
<1> HIDE DEF d, x
<1>8. Feed(Tail(q), d, w, u)
  BY <1>2, <1>7 DEF Feed
<1>9. /\ Silent(q, f) <=> Silent(Tail(q), f) /\ ~ Mentions(h, f)
      /\ Says(q, f, S) =>
           \/ Says(Tail(q), f, S)
           \/ Silent(Tail(q), f) /\ Mentions(h, f) /\ Agrees(h, f, S)
  BY <1>1, Taken DEF h
<1>10. Pending(q, c, w, u, f, S) => Pending(Tail(q), d, w, u, f, S)
  BY <1>5, <1>6, <1>7, <1>9 DEF Pending
<1>11. Spent(q, c, w, u, f) => Spent(Tail(q), d, w, u, f)
  BY <1>6, <1>7, <1>9 DEF Spent
<1> QED BY <1>5, <1>6, <1>7, <1>8, <1>9, <1>10, <1>11 DEF d, x, h

LEMMA FlowKept ==
  ASSUME NEW q, NEW c, NEW w, NEW u, Feed(q, c, w, u), q # <<>>,
         Len(Head(q).updates) = 1, NEW f \in Flows
  PROVE  LET d == [g \in Flows |-> IF g = Head(q).updates[1].flow
                                   THEN Head(q).updates[1].rev ELSE c[g]] IN
         /\ ~ Silent(q, f) => ~ Silent(Tail(q), f) \/ d[f] # 0
         /\ Mentions(Head(q), f) => d[f] # 0
         /\ ~ Mentions(Head(q), f) => d[f] = c[f]
<1> DEFINE d == [g \in Flows |-> IF g = Head(q).updates[1].flow
                                 THEN Head(q).updates[1].rev ELSE c[g]]
<1>1. /\ Pending(q, c, w, u, f, {}) => Pending(Tail(q), d, w, u, f, {})
      /\ ~ Silent(q, f) => ~ Silent(Tail(q), f) \/ d[f] # 0
      /\ Mentions(Head(q), f) => d[f] # 0
      /\ ~ Mentions(Head(q), f) => d[f] = c[f]
  BY FlowTaken
<1> QED BY <1>1

\* A message that does not concern f leaves the channel, or reaches the wire.
LEMMA OtherTaken ==
  ASSUME NEW q, NEW c, NEW w, NEW u, Feed(q, c, w, u), q # <<>>, NEW f,
         ~ Mentions(Head(q), f), NEW S
  PROVE  /\ Feed(Tail(q), c, w, u)
         /\ Pending(q, c, w, u, f, S) => Pending(Tail(q), c, w, u, f, S)
         /\ Spent(q, c, w, u, f) => Spent(Tail(q), c, w, u, f)
<1>1. q \in Seq(Messages)
  BY DEF Feed
<1>2. Tail(q) \in Seq(Messages)
  BY <1>1
<1>3. /\ Silent(q, f) <=> Silent(Tail(q), f)
      /\ Says(q, f, S) => Says(Tail(q), f, S)
  BY <1>1, Taken
<1> QED BY <1>2, <1>3 DEF Feed, Pending, Spent

LEMMA OtherSent ==
  ASSUME NEW q, NEW c, NEW w, NEW u, Feed(q, c, w, u), NEW m \in Messages, NEW f,
         ~ Mentions(m, f), NEW S
  PROVE  /\ Feed(q, c, Append(w, m), u)
         /\ Pending(q, c, w, u, f, S) => Pending(q, c, Append(w, m), u, f, S)
         /\ Spent(q, c, w, u, f) => Spent(q, c, Append(w, m), u, f)
<1>1. w \in Seq(Messages)
  BY DEF Feed
<1>2. /\ Append(w, m) \in Seq(Messages)
      /\ Silent(Append(w, m), f) <=> Silent(w, f)
      /\ Says(w, f, S) => Says(Append(w, m), f, S)
  BY <1>1, Appended
<1> QED BY <1>2 DEF Feed, Pending, Spent

\* flush_coalesced
LEMMA BufferFlushed ==
  ASSUME NEW q, NEW c, NEW w, NEW u, Feed(q, c, w, u), NEW f \in Flows, NEW S
  PROVE  LET v == w \o Flushed(c) IN
         /\ Feed(q, Nothing, v, u)
         /\ Pending(q, c, w, u, f, S) => Pending(q, Nothing, v, u, f, S)
         /\ Spent(q, c, w, u, f) => Spent(q, Nothing, v, u, f)
<1> DEFINE v == w \o Flushed(c)
<1>1. Nothing \in [Flows -> 0..MaxRev] /\ Nothing[f] = 0
  BY RevAssumption DEF Nothing
<1>2. w \in Seq(Messages) /\ c \in [Flows -> 0..MaxRev]
  BY DEF Feed
<1>3. /\ v \in Seq(Messages)
      /\ Silent(v, f) <=> Silent(w, f) /\ c[f] = 0
      /\ c[f] = 0 /\ Says(w, f, S) => Says(v, f, S)
      /\ c[f] # 0 /\ c[f] \in S => Says(v, f, S)
  BY <1>2, FlushedWire
<1> HIDE DEF v
<1>4. Feed(q, Nothing, v, u)
  BY <1>1, <1>3 DEF Feed
<1>5. Pending(q, c, w, u, f, S) => Pending(q, Nothing, v, u, f, S)
  BY <1>1, <1>3 DEF Pending
<1>6. Spent(q, c, w, u, f) => Spent(q, Nothing, v, u, f)
  BY <1>1, <1>3 DEF Spent
<1> QED BY <1>4, <1>5, <1>6 DEF v

\* A message of the wire is delivered.
LEMMA MessageDelivered ==
  ASSUME NEW q, NEW c, NEW w, NEW u, Feed(q, c, w, u), w # <<>>, NEW f, NEW S
  PROVE  LET v == u \o Head(w).updates IN
         /\ Feed(q, c, Tail(w), v)
         /\ Pending(q, c, w, u, f, S) => Pending(q, c, Tail(w), v, f, S)
         /\ Spent(q, c, w, u, f) => Spent(q, c, Tail(w), v, f)
<1> DEFINE v == u \o Head(w).updates
<1>1. w \in Seq(Messages) /\ u \in Seq(Updates)
  BY DEF Feed
<1>2. Head(w) \in Messages /\ Tail(w) \in Seq(Messages)
  BY <1>1, Shifted
<1>3. /\ v \in Seq(Updates)
      /\ Lacks(v, f) <=> Lacks(u, f) /\ ~ Mentions(Head(w), f)
      /\ ~ Mentions(Head(w), f) /\ Ends(u, f, S) => Ends(v, f, S)
      /\ Mentions(Head(w), f) /\ Agrees(Head(w), f, S) => Ends(v, f, S)
  BY <1>1, <1>2, BufferGrows
<1> HIDE DEF v
<1>4. /\ Silent(w, f) <=> Silent(Tail(w), f) /\ ~ Mentions(Head(w), f)
      /\ Says(w, f, S) =>
           \/ Says(Tail(w), f, S)
           \/ Silent(Tail(w), f) /\ Mentions(Head(w), f) /\ Agrees(Head(w), f, S)
  BY <1>1, Taken
<1>5. Feed(q, c, Tail(w), v)
  BY <1>2, <1>3 DEF Feed
<1>6. Pending(q, c, w, u, f, S) => Pending(q, c, Tail(w), v, f, S)
  BY <1>3, <1>4 DEF Pending
<1>7. Spent(q, c, w, u, f) => Spent(q, c, Tail(w), v, f)
  BY <1>3, <1>4 DEF Spent
<1> QED BY <1>5, <1>6, <1>7 DEF v

LEMMA BufferIngested ==
  ASSUME NEW q, NEW c, NEW w, NEW u, NEW f, NEW S
  PROVE  /\ Pending(q, c, w, u, f, S) =>
              \/ Pending(q, c, w, <<>>, f, S)
              \/ Spent(q, c, w, <<>>, f) /\ Ends(u, f, S)
         /\ Spent(q, c, w, u, f) => Spent(q, c, w, <<>>, f) /\ Lacks(u, f)
<1>1. Lacks(<<>>, f)
  BY DEF Lacks
<1> QED BY <1>1 DEF Pending, Spent

\* The wire, the flushed buffer and the channel, one after the other.
LEMMA WireFlushedTyped ==
  ASSUME NEW w \in Seq(Messages), NEW c \in [Flows -> 0..MaxRev]
  PROVE  w \o Flushed(c) \in Seq(Messages)
<1>1. Flushed(c) \in Seq(Messages)
  <2>1. CASE Flushed(c) = <<>>
    BY <2>1
  <2>2. CASE \E m : Flushed(c) = <<m>> /\ Carries(m)
    BY <2>2 DEF Carries
  <2> QED BY <2>1, <2>2, FlushedOK
<1> QED BY <1>1

LEMMA BuriedJoined ==
  ASSUME NEW v \in Seq(Messages), NEW q \in Seq(Messages), NEW f,
         Buried(v, f), Buried(q, f), Marks(v, f) => Silent(q, f)
  PROVE  Buried(v \o q, f)
<1> DEFINE p == v \o q
           n == Len(v)
           k == Len(q)
<1>1. /\ n \in Nat /\ k \in Nat /\ Len(p) = n + k
      /\ \A i \in 1..n : p[i] = v[i]
      /\ \A i \in 1..k : p[n + i] = q[i]
  OBVIOUS
<1> HIDE DEF p, n, k
<1>2. \A i \in 1..(n + k) : i \in 1..n \/ (i - n \in 1..k /\ p[i] = q[i - n])
  <2> SUFFICES ASSUME NEW i \in 1..(n + k), i \notin 1..n PROVE i - n \in 1..k /\ p[i] = q[i - n]
    OBVIOUS
  <2>1. i - n \in 1..k /\ n + (i - n) = i
    BY <1>1
  <2> QED BY <1>1, <2>1
<1> SUFFICES ASSUME NEW i \in 1..(n + k), f \in p[i].gone, NEW j \in (i + 1)..(n + k)
             PROVE  ~ Mentions(p[j], f)
  BY <1>1 DEF Buried, p
<1>3. j \in 1..(n + k)
  BY <1>1
<1>4. CASE i \in 1..n /\ j \in 1..n
  <2>1. j \in (i + 1)..n /\ p[i] = v[i] /\ p[j] = v[j]
    BY <1>1, <1>4
  <2> QED BY <1>4, <2>1 DEF Buried, n
<1>5. CASE i \in 1..n /\ j - n \in 1..k /\ p[j] = q[j - n]
  <2>1. Marks(v, f)
    BY <1>1, <1>5 DEF Marks, n
  <2> QED BY <1>5, <2>1 DEF Silent, k
<1>6. CASE i \notin 1..n
  <2>1. i - n \in 1..k /\ p[i] = q[i - n]
    BY <1>2, <1>6
  <2>2. j \notin 1..n
    BY <1>1, <1>6
  <2>3. j - n \in 1..k /\ p[j] = q[j - n]
    BY <1>2, <1>3, <2>2
  <2>4. j - n \in ((i - n) + 1)..k
    BY <1>1, <2>1, <2>3
  <2> QED BY <2>1, <2>3, <2>4 DEF Buried, k
<1> QED BY <1>2, <1>3, <1>4, <1>5, <1>6
-----------------------------------------------------------------------------
\* What every action may rely on.
Base == TypeOK /\ MessagesOK /\ Unconnected /\ Stored /\ RowsKnown

LEMMA LimitOK ==
  ASSUME limit \in Limits
  PROVE  /\ limit.store \in Nat \ {0} /\ limit.table \in Nat \ {0}
         /\ limit.channel \in Nat \ {0} /\ limit.resync \in Nat \ {0}
         /\ limit.revs \in [Flows -> 0..MaxRev]
BY CapacityAssumption

LEMMA NothingOK == Nothing \in [Flows -> 0..MaxRev] /\ \A f \in Flows : Nothing[f] = 0
BY RevAssumption DEF Nothing

LEMMA FeedOK ==
  ASSUME Base
  PROVE  Feed(chan, coalesced, wire, wsBuffer)
BY DEF Base, TypeOK, MessagesOK, Feed

\* The recent flows are stored ones, and their message says what is stored.
LEMMA RecentOK ==
  ASSUME Base
  PROVE  /\ Recent \in Seq(Flows) /\ ToSet(Recent) \subseteq Flows
         /\ \A f \in ToSet(Recent) : store[f] # 0
         /\ Carries(RecentFlows)
         /\ \A f \in Flows : /\ Mentions(RecentFlows, f) <=> f \in ToSet(Recent)
                             /\ Agrees(RecentFlows, f, {store[f]})
<1>1. limit.resync \in Nat \ {0} /\ order \in Seq(Flows) /\ store \in [Flows -> 0..MaxRev]
  BY LimitOK DEF Base, TypeOK, MessagesOK
<1>2. Recent \in Seq(Flows) /\ ToSet(Recent) \subseteq ToSet(order)
  BY <1>1, LastOfOK DEF Recent
<1> DEFINE us == [k \in 1..Len(Recent) |-> Update(Recent[k], store[Recent[k]])]
<1>3. RecentFlows = FlowsMsg(us)
  BY DEF RecentFlows
<1> HIDE DEF Recent
<1>4. \A k \in 1..Len(Recent) : Recent[k] \in Flows
  BY <1>2
<1>5. ToSet(Recent) = {Recent[k] : k \in 1..Len(Recent)} /\ ToSet(Recent) \subseteq Flows
  <2>1. DOMAIN Recent = 1..Len(Recent)
    BY <1>2
  <2> QED BY <1>4, <2>1 DEF ToSet
<1>6. \A f \in ToSet(Recent) : store[f] \in 1..MaxRev /\ store[f] # 0
  <2>1. \A f \in ToSet(Recent) : f \in Flows /\ store[f] # 0
    BY <1>2, <1>5 DEF Base, Stored
  <2> QED BY <1>1, <2>1, RevAssumption
<1>7. \A k \in 1..Len(Recent) : us[k] \in Updates /\ us[k].flow = Recent[k] /\ us[k].rev = store[Recent[k]]
  <2> SUFFICES ASSUME NEW k \in 1..Len(Recent)
               PROVE  us[k] \in Updates /\ us[k].flow = Recent[k] /\ us[k].rev = store[Recent[k]]
    OBVIOUS
  <2>1. us[k] = Update(Recent[k], store[Recent[k]])
    OBVIOUS
  <2>2. Recent[k] \in Flows /\ store[Recent[k]] \in 1..MaxRev
    BY <1>4, <1>5, <1>6
  <2> HIDE DEF us
  <2> QED BY <2>1, <2>2, UpdateTypes
<1>8. us \in Seq(Updates) /\ Len(us) = Len(Recent)
  <2>1. Len(Recent) \in Nat /\ us = [k \in 1..Len(Recent) |-> us[k]]
    BY <1>2
  <2> HIDE DEF us
  <2> QED BY <1>7, <2>1
<1> HIDE DEF us
<1>9. Carries(FlowsMsg(us)) /\ FlowsMsg(us).updates = us
  BY <1>8, FlowsMsgOK
<1>10. ASSUME NEW f \in Flows
       PROVE  /\ Mentions(FlowsMsg(us), f) <=> f \in ToSet(Recent)
              /\ Agrees(FlowsMsg(us), f, {store[f]})
  <2>1. Mentions(FlowsMsg(us), f) <=> \E k \in 1..Len(Recent) : Recent[k] = f
    BY <1>7, <1>8, <1>9 DEF Mentions
  <2>2. Agrees(FlowsMsg(us), f, {store[f]})
    BY <1>7, <1>8, <1>9 DEF Agrees
  <2> QED BY <1>5, <2>1, <2>2
<1> QED BY <1>2, <1>3, <1>5, <1>6, <1>9, <1>10

\* What the channel may hold.
InChannel(m) ==
  /\ m \in Messages
  /\ \/ m.kind = "flow" /\ Len(m.updates) = 1 /\ m.gone = {}
     \/ m.kind = "cleared" /\ m.updates = <<>>

LEMMA EventsOK ==
  /\ \A f \in Flows, r \in 1..MaxRev :
       /\ InChannel(FlowEvent(f, r)) /\ FlowEvent(f, r).kind # "cleared"
       /\ FlowEvent(f, r).gone = {}
       /\ \A g : Mentions(FlowEvent(f, r), g) <=> g = f
       /\ \A g, S : r \in S => Agrees(FlowEvent(f, r), g, S)
  /\ \A F \in SUBSET Flows :
       /\ InChannel(Cleared(F)) /\ Cleared(F).kind = "cleared" /\ Cleared(F).gone = F
       /\ \A g : ~ Mentions(Cleared(F), g)
<1>1. ASSUME NEW f \in Flows, NEW r \in 1..MaxRev
      PROVE  /\ InChannel(FlowEvent(f, r)) /\ FlowEvent(f, r).kind # "cleared"
             /\ FlowEvent(f, r).gone = {}
             /\ \A g : Mentions(FlowEvent(f, r), g) <=> g = f
             /\ \A g, S : r \in S => Agrees(FlowEvent(f, r), g, S)
  <2> DEFINE u == Update(f, r)
  <2>1. u \in Updates /\ u.flow = f /\ u.rev = r
    BY UpdateTypes
  <2> HIDE DEF u
  <2>2. FlowEvent(f, r) = [kind |-> "flow", updates |-> <<u>>, gone |-> {}]
    BY DEF FlowEvent, u
  <2>3. <<u>> \in Seq(Updates) /\ Len(<<u>>) = 1 /\ <<u>>[1] = u
    BY <2>1
  <2>4. InChannel(FlowEvent(f, r))
    BY <2>2, <2>3 DEF InChannel, Messages
  <2>5. \A g : Mentions(FlowEvent(f, r), g) <=> g = f
    BY <2>1, <2>2, <2>3 DEF Mentions
  <2>6. \A g, S : r \in S => Agrees(FlowEvent(f, r), g, S)
    BY <2>1, <2>2, <2>3 DEF Agrees
  <2> QED BY <2>2, <2>4, <2>5, <2>6
<1>2. ASSUME NEW F \in SUBSET Flows
      PROVE  /\ InChannel(Cleared(F)) /\ Cleared(F).kind = "cleared" /\ Cleared(F).gone = F
             /\ \A g : ~ Mentions(Cleared(F), g)
  <2>1. <<>> \in Seq(Updates) /\ Len(<<>>) = 0
    OBVIOUS
  <2>2. /\ Cleared(F).updates = <<>> /\ Cleared(F).kind = "cleared" /\ Cleared(F).gone = F
        /\ Cleared(F) \in Messages
    BY <2>1 DEF Cleared, Messages
  <2> QED BY <2>1, <2>2 DEF InChannel, Mentions
<1> QED BY <1>1, <1>2

\* A broadcast: the connection hears it, unless there is none; when the channel
\* is full it forgets the oldest event and remembers that it did.
LEMMA BroadcastOK ==
  ASSUME Base, NEW m, InChannel(m), Broadcast(m)
  PROVE  /\ conn = "down" => chan' = chan /\ lagged' = lagged
         /\ conn # "down" =>
              \E q \in Seq(Messages) :
                /\ q = chan \/ (chan # <<>> /\ q = Tail(chan) /\ lagged')
                /\ Len(q) < limit.channel /\ chan' = Append(q, m)
         /\ lagged' \in BOOLEAN
         /\ lagged => lagged'
<1>1. chan \in Seq(Messages) /\ Len(chan) <= limit.channel /\ limit.channel \in Nat \ {0}
      /\ lagged \in BOOLEAN
  BY LimitOK DEF Base, TypeOK, MessagesOK
<1>2. /\ chan' = IF conn = "down" THEN chan
                 ELSE Append(IF Overwrites THEN Tail(chan) ELSE chan, m)
      /\ lagged' = (lagged \/ Overwrites)
  BY DEF Broadcast
<1>3. CASE conn = "down"
  BY <1>1, <1>2, <1>3 DEF Overwrites
<1>4. CASE conn # "down" /\ ~ Overwrites
  <2>1. Len(chan) < limit.channel
    BY <1>1, <1>4 DEF Overwrites
  <2>2. chan' = Append(chan, m)
    BY <1>2, <1>4
  <2>3. lagged' \in BOOLEAN /\ (lagged => lagged')
    BY <1>1, <1>2, <1>4
  <2> QED BY <1>1, <1>4, <2>1, <2>2, <2>3
<1>5. CASE conn # "down" /\ Overwrites
  <2>1. Len(chan) = limit.channel
    BY <1>5 DEF Overwrites
  <2>2. chan # <<>> /\ Tail(chan) \in Seq(Messages) /\ Len(Tail(chan)) < limit.channel
    BY <1>1, <2>1
  <2>3. chan' = Append(Tail(chan), m) /\ lagged'
    BY <1>2, <1>5
  <2> QED BY <1>5, <2>2, <2>3
<1> QED BY <1>3, <1>4, <1>5

\* What the channel says of f after a broadcast.
LEMMA BroadcastSays ==
  ASSUME Base, NEW m, InChannel(m), Broadcast(m), NEW f, NEW S
  PROVE  /\ ~ Mentions(m, f) /\ (Silent(chan, f) \/ Says(chan, f, S)) =>
              Silent(chan', f) \/ Says(chan', f, S)
         /\ Mentions(m, f) /\ Agrees(m, f, S) => Silent(chan', f) \/ Says(chan', f, S)
         /\ conn # "down" /\ Mentions(m, f) /\ Agrees(m, f, S) => Says(chan', f, S)
         /\ ~ Mentions(m, f) /\ Silent(chan, f) => Silent(chan', f)
         /\ conn # "down" /\ ~ lagged' /\ ~ Mentions(m, f) =>
              /\ Silent(chan', f) <=> Silent(chan, f)
              /\ Says(chan, f, S) => Says(chan', f, S)
         /\ m.kind # "cleared" /\ (Mentions(m, f) \/ Renewed(chan, f)) => Renewed(chan', f)
         /\ Marks(chan', f) => Marks(chan, f) \/ f \in m.gone
         /\ Buried(chan, f) /\ (Marks(chan, f) => ~ Mentions(m, f)) => Buried(chan', f)
<1>1. chan \in Seq(Messages) /\ m \in Messages
  BY DEF Base, MessagesOK, InChannel
<1>2. CASE conn = "down"
  <2>1. chan = <<>> /\ chan' = chan
    BY <1>2, BroadcastOK DEF Base, Unconnected
  <2>2. Silent(<<>>, f) /\ Renewed(<<>>, f)
    BY DEF Silent, Renewed
  <2> QED BY <1>2, <2>1, <2>2
<1>3. CASE conn # "down"
  <2>1. PICK q \in Seq(Messages) :
           /\ q = chan \/ (chan # <<>> /\ q = Tail(chan) /\ lagged')
           /\ chan' = Append(q, m)
    BY <1>3, BroadcastOK
  <2>2. /\ Silent(chan', f) <=> Silent(q, f) /\ ~ Mentions(m, f)
        /\ ~ Mentions(m, f) /\ Says(q, f, S) => Says(chan', f, S)
        /\ Mentions(m, f) /\ Agrees(m, f, S) => Says(chan', f, S)
    BY <1>1, <2>1, Appended
  <2>3. /\ m.kind # "cleared" /\ Renewed(q, f) => Renewed(chan', f)
        /\ m.kind # "cleared" /\ Mentions(m, f) => Renewed(chan', f)
        /\ Marks(chan', f) <=> Marks(q, f) \/ f \in m.gone
        /\ Buried(q, f) /\ (Marks(q, f) => ~ Mentions(m, f)) => Buried(chan', f)
    BY <1>1, <2>1, MarksAppended
  <2>4. /\ Silent(chan, f) => Silent(q, f)
        /\ Says(chan, f, S) => Says(q, f, S) \/ Silent(q, f)
        /\ Renewed(chan, f) => Renewed(q, f)
        /\ Marks(q, f) => Marks(chan, f)
        /\ Buried(chan, f) => Buried(q, f)
    <3>1. CASE q = chan
      BY <3>1
    <3>2. CASE chan # <<>> /\ q = Tail(chan)
      <4>1. /\ Silent(chan, f) <=> Silent(Tail(chan), f) /\ ~ Mentions(Head(chan), f)
            /\ Says(chan, f, S) => Says(Tail(chan), f, S) \/ Silent(Tail(chan), f)
        BY <1>1, <3>2, Taken
      <4>2. /\ Renewed(chan, f) => Renewed(Tail(chan), f)
            /\ Marks(chan, f) <=> Marks(Tail(chan), f) \/ f \in Head(chan).gone
            /\ Buried(chan, f) => Buried(Tail(chan), f)
        BY <1>1, <3>2, MarksTaken
      <4> QED BY <3>2, <4>1, <4>2
    <3> QED BY <2>1, <3>1, <3>2
  <2>5. ~ lagged' => q = chan
    BY <2>1
  <2> QED BY <1>3, <2>2, <2>3, <2>4, <2>5
<1> QED BY <1>2, <1>3

\* A frame: every flow gets the last update the buffer holds of it, or leaves a
\* table that is full.
LEMMA FrameOK ==
  ASSUME Base, Frame
  PROVE  /\ rows' \in Seq(Flows) /\ Len(rows') <= limit.table
         /\ byId' \in [Flows -> 0..MaxRev]
         /\ \A f \in Flows : byId'[f] # 0 => f \in ToSet(rows')
         /\ ~ HasRoom => ~ HasRoom'
         /\ \A f \in Flows :
              /\ Lacks(wsBuffer, f) => byId'[f] = byId[f] \/ (byId'[f] = 0 /\ ~ HasRoom')
              /\ \A S : Ends(wsBuffer, f, S) => byId'[f] \in S \/ (byId'[f] = 0 /\ ~ HasRoom')
<1> DEFINE o == [rows |-> rows, byId |-> byId]
           t == Ingested(o, wsBuffer)
<1>1. /\ rows \in Seq(Flows) /\ Len(rows) <= limit.table /\ byId \in [Flows -> 0..MaxRev]
      /\ wsBuffer \in Seq(Updates) /\ limit.table \in Nat \ {0}
  BY LimitOK DEF Base, TypeOK, MessagesOK
<1>2. o \in Tables /\ o.rows = rows /\ o.byId = byId
  <2>1. \A f \in Flows : byId[f] # 0 => f \in ToSet(rows)
    BY DEF Base, RowsKnown
  <2> QED BY <1>1, <2>1 DEF Tables
<1>3. /\ rows' = LastOf(t.rows, limit.table) /\ limit' = limit
      /\ byId' = [f \in Flows |-> IF f \in ToSet(rows') THEN t.byId[f] ELSE 0]
  BY DEF Frame
<1> HIDE DEF o
<1>4. /\ t \in Tables /\ Len(t.rows) >= Len(rows)
      /\ \A f \in Flows : /\ Lacks(wsBuffer, f) => t.byId[f] = byId[f]
                          /\ \A S : Ends(wsBuffer, f, S) => t.byId[f] \in S
  BY <1>1, <1>2, IngestedOK
<1> HIDE DEF t
<1>5. /\ t.rows \in Seq(Flows) /\ t.byId \in [Flows -> 0..MaxRev]
      /\ \A f \in Flows : t.byId[f] # 0 => f \in ToSet(t.rows)
  BY <1>4 DEF Tables
<1>6. /\ rows' \in Seq(Flows) /\ Len(rows') <= limit.table
      /\ Len(t.rows) <= limit.table => rows' = t.rows
      /\ Len(t.rows) >= limit.table => Len(rows') = limit.table
  BY <1>1, <1>3, <1>5, LastOfOK
<1>7. byId' \in [Flows -> 0..MaxRev]
  BY <1>3, <1>5, RevAssumption
<1>8. \A f \in Flows : byId'[f] = t.byId[f] \/ (byId'[f] = 0 /\ ~ HasRoom')
  <2> SUFFICES ASSUME NEW f \in Flows, byId'[f] # t.byId[f] PROVE byId'[f] = 0 /\ ~ HasRoom'
    OBVIOUS
  <2>1. f \notin ToSet(rows') /\ byId'[f] = 0 /\ t.byId[f] # 0
    BY <1>3
  <2>2. f \in ToSet(t.rows)
    BY <1>5, <2>1
  <2>3. ~ (Len(t.rows) <= limit.table)
    BY <1>6, <2>1, <2>2
  <2>4. Len(rows') = limit.table
    BY <1>1, <1>5, <1>6, <2>3
  <2> QED BY <1>1, <1>3, <2>1, <2>4 DEF HasRoom
<1>9. ~ HasRoom => ~ HasRoom'
  <2> SUFFICES ASSUME ~ HasRoom PROVE ~ HasRoom'
    OBVIOUS
  <2>1. Len(rows) \in Nat /\ Len(t.rows) \in Nat /\ Len(rows') \in Nat
    BY <1>1, <1>5, <1>6
  <2>2. Len(t.rows) >= limit.table
    BY <1>1, <1>4, <2>1 DEF HasRoom
  <2> QED BY <1>1, <1>3, <1>6, <2>2 DEF HasRoom
<1>10. \A f \in Flows : byId'[f] # 0 => f \in ToSet(rows')
  BY <1>3
<1> QED BY <1>4, <1>6, <1>7, <1>8, <1>9, <1>10
-----------------------------------------------------------------------------
\* Every action keeps what the others rely on.
LEMMA CaptureBase ==
  ASSUME Base, NEW f \in Flows, Capture(f)
  PROVE  /\ Base'
         /\ \A g \in Flows : g # f => store'[g] \in {0, store[g]} /\ (Settled(g)' <=> Settled(g))
         /\ \A g \in ToSet(Recent') : g # f => g \in ToSet(Recent) /\ store'[g] = store[g]
<1> DEFINE a == Append(order, f)
<1>1. /\ limit' = limit /\ limit.store \in Nat \ {0} /\ limit.resync \in Nat \ {0}
      /\ limit.revs \in [Flows -> 0..MaxRev]
  BY LimitOK DEF Base, MessagesOK, Capture, ui
<1>2. order \in Seq(Flows) /\ a \in Seq(Flows) /\ ToSet(a) = ToSet(order) \union {f}
  <2>1. order \in Seq(Flows)
    BY DEF Base, TypeOK
  <2>2. /\ a \in Seq(Flows) /\ Len(a) = Len(order) + 1 /\ a[Len(order) + 1] = f
        /\ \A i \in 1..Len(order) : a[i] = order[i]
    BY <2>1
  <2>3. DOMAIN a = 1..Len(a) /\ DOMAIN order = 1..Len(order) /\ Len(order) \in Nat
    BY <2>1, <2>2
  <2>4. \A i \in 1..Len(a) : i \in 1..Len(order) \/ i = Len(order) + 1
    BY <2>2, <2>3
  <2>5. Len(order) + 1 \in 1..Len(a) /\ \A i \in 1..Len(order) : i \in 1..Len(a)
    BY <2>2, <2>3
  <2> HIDE DEF a
  <2> QED BY <2>1, <2>2, <2>3, <2>4, <2>5 DEF ToSet
<1>3. order' = LastOf(a, limit.store)
  BY DEF Capture
<1> HIDE DEF a
<1>4. /\ order' \in Seq(Flows) /\ Len(order') <= limit.store
      /\ ToSet(order') \subseteq ToSet(order) \union {f}
  BY <1>1, <1>2, <1>3, LastOfOK
<1>5. /\ f \in todo /\ todo' = todo \ {f}
      /\ store' = [g \in Flows |-> IF g \notin ToSet(order') THEN 0
                                   ELSE IF g = f THEN 1 ELSE store[g]]
      /\ unsent' = [unsent EXCEPT !["handler"][f] = 1]
      /\ announced' = announced
  BY DEF Capture, history
<1>6. MaxRev >= 1 /\ "handler" \in Tasks
  <2>1. limit.revs[f] # 0
    BY <1>5 DEF Base, Stored
  <2> QED BY <1>1, <2>1, RevAssumption, TasksAssumption
<1>7. store \in [Flows -> 0..MaxRev] /\ unsent \in [Tasks -> [Flows -> 0..MaxRev]] /\ todo \subseteq Flows
  BY DEF Base, TypeOK
<1>8. store' \in [Flows -> 0..MaxRev] /\ unsent' \in [Tasks -> [Flows -> 0..MaxRev]]
  BY <1>5, <1>6, <1>7, RevAssumption
<1>9. \A t \in Tasks, g \in Flows :
         unsent'[t][g] = IF t = "handler" /\ g = f THEN 1 ELSE unsent[t][g]
  BY <1>5, <1>6, <1>7
<1>10. Settled(f) /\ store[f] = 0 /\ announced[f] = 0
  BY <1>5 DEF Base, Stored
<1>11. TypeOK'
  BY <1>1, <1>4, <1>7, <1>8 DEF Base, TypeOK, Capture, socket, ui, history
<1>12. MessagesOK' /\ Unconnected' /\ RowsKnown'
  BY DEF Base, MessagesOK, Unconnected, RowsKnown, Capture, socket, ui
<1>13. Stored'
  <2>1. todo' \subseteq {g \in Flows : limit'.revs[g] # 0}
    BY <1>1, <1>5 DEF Base, Stored
  <2>2. ASSUME NEW g \in Flows PROVE g \in ToSet(order') <=> store'[g] # 0
    BY <1>4, <1>5 DEF Base, Stored
  <2>3. ASSUME NEW g \in Flows, g \in todo' PROVE store'[g] = 0 /\ announced'[g] = 0 /\ Settled(g)'
    <3>1. g \in todo /\ g # f
      BY <1>5, <2>3
    <3>2. store[g] = 0 /\ announced[g] = 0 /\ Settled(g)
      BY <3>1 DEF Base, Stored
    <3>3. Settled(g)'
      BY <1>9, <3>1, <3>2 DEF Settled
    <3> QED BY <1>5, <3>1, <3>2, <3>3
  <2>4. ASSUME NEW g \in Flows, store'[g] # 0 PROVE announced'[g] <= store'[g]
    BY <1>5, <1>10, <2>4 DEF Base, Stored
  <2>5. ASSUME NEW g \in Flows, NEW t \in Tasks
        PROVE  /\ store'[g] # 0 => unsent'[t][g] <= store'[g]
               /\ unsent'[t][g] = 1 => t = "handler" /\ store'[g] <= 1
    <3>1. CASE g = f
      BY <1>5, <1>9, <1>10, <3>1 DEF Settled
    <3>2. CASE g # f
      <4>1. /\ store[g] # 0 => unsent[t][g] <= store[g]
            /\ unsent[t][g] = 1 => t = "handler" /\ store[g] <= 1
        BY DEF Base, Stored
      <4> QED BY <1>5, <1>9, <3>2, <4>1
    <3> QED BY <3>1, <3>2
  <2> QED BY <2>1, <2>2, <2>3, <2>4, <2>5 DEF Stored
<1>14. ASSUME NEW g \in Flows, g # f PROVE store'[g] \in {0, store[g]} /\ (Settled(g)' <=> Settled(g))
  BY <1>5, <1>9, <1>14 DEF Settled
<1>15. ASSUME NEW g \in ToSet(Recent'), g # f PROVE g \in ToSet(Recent) /\ store'[g] = store[g]
  <2>1. Recent' = LastOf(LastOf(Append(order, f), limit.store), limit.resync)
    BY <1>1, <1>3 DEF Recent, a
  <2>2. g \in ToSet(Recent)
    <3>1. g \in ToSet(LastOf(LastOf(Append(order, f), limit.store), limit.resync))
      BY <1>15, <2>1
    <3>2. g \in ToSet(LastOf(order, limit.resync))
      BY <1>1, <1>2, <1>15, <3>1, RecentShrinks
    <3> QED BY <3>2 DEF Recent
  <2>3. Recent' = LastOf(order', limit.resync)
    BY <1>1 DEF Recent
  <2>4. g \in ToSet(order')
    BY <1>1, <1>4, <1>15, <2>3, LastOfOK
  <2>5. g \in Flows
    BY <2>2, RecentOK
  <2> QED BY <1>5, <1>15, <2>2, <2>4, <2>5
<1> QED BY <1>11, <1>12, <1>13, <1>14, <1>15 DEF Base

LEMMA ChangeBase ==
  ASSUME Base, NEW t \in Tasks, NEW f \in Flows, Change(t, f)
  PROVE  Base'
<1>1. /\ store[f] # 0 /\ store[f] < limit.revs[f] /\ unsent[t][f] = 0 /\ MayUpdate(t, f)
      /\ store' = [store EXCEPT ![f] = @ + 1]
      /\ unsent' = [unsent EXCEPT ![t][f] = store[f] + 1]
      /\ UNCHANGED <<todo, order, limit, announced>>
  BY DEF Change, ui, history
<1>2. /\ store \in [Flows -> 0..MaxRev] /\ unsent \in [Tasks -> [Flows -> 0..MaxRev]]
      /\ limit.revs \in [Flows -> 0..MaxRev]
  BY LimitOK DEF Base, TypeOK, MessagesOK
<1>3. store[f] \in 1..MaxRev /\ store[f] + 1 \in 0..MaxRev
  <2>1. store[f] \in 0..MaxRev /\ limit.revs[f] \in 0..MaxRev
    BY <1>2
  <2> QED BY <1>1, <2>1, RevAssumption
<1>4. store' \in [Flows -> 0..MaxRev] /\ unsent' \in [Tasks -> [Flows -> 0..MaxRev]]
  BY <1>1, <1>2, <1>3
<1>5. /\ \A g \in Flows : store'[g] = IF g = f THEN store[f] + 1 ELSE store[g]
      /\ \A s \in Tasks, g \in Flows :
            unsent'[s][g] = IF s = t /\ g = f THEN store[f] + 1 ELSE unsent[s][g]
  BY <1>1, <1>2
<1>6. TypeOK'
  BY <1>4 DEF Base, TypeOK, Change, socket, ui, history
<1>7. MessagesOK' /\ Unconnected' /\ RowsKnown'
  BY DEF Base, MessagesOK, Unconnected, RowsKnown, Change, socket, ui
<1>8. Stored'
  <2>1. todo' \subseteq {g \in Flows : limit'.revs[g] # 0}
    BY <1>1 DEF Base, Stored
  <2>2. f \notin todo
    BY <1>1 DEF Base, Stored
  <2>3. ASSUME NEW g \in Flows PROVE g \in ToSet(order') <=> store'[g] # 0
    BY <1>1, <1>3, <1>5 DEF Base, Stored
  <2>4. ASSUME NEW g \in Flows, g \in todo' PROVE store'[g] = 0 /\ announced'[g] = 0 /\ Settled(g)'
    BY <1>1, <1>5, <2>2, <2>4 DEF Base, Stored, Settled
  <2>5. ASSUME NEW g \in Flows, store'[g] # 0 PROVE announced'[g] <= store'[g]
    <3>1. announced[f] <= store[f] /\ announced[f] \in 0..MaxRev
      BY <1>1 DEF Base, Stored, TypeOK
    <3> QED BY <1>1, <1>3, <1>5, <2>5, <3>1 DEF Base, Stored
  <2>6. ASSUME NEW g \in Flows, NEW s \in Tasks, g = f
        PROVE  /\ store'[g] # 0 => unsent'[s][g] <= store'[g]
               /\ unsent'[s][g] = 1 => s = "handler" /\ store'[g] <= 1
    <3>1. unsent[s][f] <= store[f] /\ unsent[s][f] \in 0..MaxRev
      BY <1>1, <1>2 DEF Base, Stored
    <3>2. unsent[s][f] = 1 => s = "handler"
      BY DEF Base, Stored
    <3>3. unsent["handler"][f] # 1
      BY <1>1, TasksAssumption DEF MayUpdate
    <3> QED BY <1>3, <1>5, <2>6, <3>1, <3>2, <3>3
  <2>7. ASSUME NEW g \in Flows, NEW s \in Tasks, g # f
        PROVE  /\ store'[g] # 0 => unsent'[s][g] <= store'[g]
               /\ unsent'[s][g] = 1 => s = "handler" /\ store'[g] <= 1
    BY <1>5, <2>7 DEF Base, Stored
  <2> QED BY <2>1, <2>3, <2>4, <2>5, <2>6, <2>7 DEF Stored
<1> QED BY <1>6, <1>7, <1>8 DEF Base

\* The parts of Base that speak of messages, after a broadcast.
LEMMA BroadcastBase ==
  ASSUME Base, NEW m, InChannel(m), Broadcast(m), UNCHANGED <<conn, coalesced, wire, limit>>
  PROVE  /\ MessagesOK' /\ Unconnected'
         /\ Len(chan') <= limit.channel /\ lagged' \in BOOLEAN
<1>1. chan \in Seq(Messages) /\ Len(chan) <= limit.channel /\ limit.channel \in Nat \ {0}
  BY LimitOK DEF Base, TypeOK, MessagesOK
<1>2. \A i \in 1..Len(chan) : InChannel(chan[i])
  BY <1>1 DEF Base, MessagesOK, InChannel
<1>3. /\ chan' \in Seq(Messages) /\ Len(chan') <= limit.channel
      /\ \A i \in 1..Len(chan') : InChannel(chan'[i])
  <2>1. CASE conn = "down"
    BY <1>1, <1>2, <2>1, BroadcastOK
  <2>2. CASE conn # "down"
    <3>1. PICK q \in Seq(Messages) :
             /\ q = chan \/ (chan # <<>> /\ q = Tail(chan) /\ lagged')
             /\ Len(q) < limit.channel /\ chan' = Append(q, m)
      BY <2>2, BroadcastOK
    <3>2. \A i \in 1..Len(q) : InChannel(q[i])
      <4>1. CASE q = chan
        BY <1>2, <4>1
      <4>2. CASE chan # <<>> /\ q = Tail(chan)
        BY <1>1, <1>2, <4>2, Shifted
      <4> QED BY <3>1, <4>1, <4>2
    <3>3. /\ Append(q, m) \in Seq(Messages) /\ Len(Append(q, m)) = Len(q) + 1
          /\ \A i \in 1..(Len(q) + 1) : Append(q, m)[i] = IF i = Len(q) + 1 THEN m ELSE q[i]
      BY <3>1 DEF InChannel
    <3>4. \A i \in 1..(Len(q) + 1) : i = Len(q) + 1 \/ i \in 1..Len(q)
      OBVIOUS
    <3>5. Len(q) \in Nat
      BY <3>1
    <3> QED BY <1>1, <3>1, <3>2, <3>3, <3>4, <3>5
  <2> QED BY <2>1, <2>2
<1>4. MessagesOK'
  BY <1>3 DEF Base, MessagesOK, InChannel
<1>5. Unconnected'
  BY BroadcastOK DEF Base, Unconnected
<1> QED BY <1>3, <1>4, <1>5, BroadcastOK

LEMMA AnnounceBase ==
  ASSUME Base, NEW t \in Tasks, NEW f \in Flows, Announce(t, f)
  PROVE  /\ Base'
         /\ unsent[t][f] \in 1..MaxRev
         /\ InChannel(FlowEvent(f, unsent[t][f]))
         /\ \A g \in Flows : g # f => announced'[g] = announced[g] /\ (Settled(g)' <=> Settled(g))
         /\ announced'[f] = unsent[t][f]
<1>1. /\ unsent \in [Tasks -> [Flows -> 0..MaxRev]] /\ announced \in [Flows -> 0..MaxRev]
      /\ store \in [Flows -> 0..MaxRev]
  BY DEF Base, TypeOK
<1>2. unsent[t][f] \in 1..MaxRev
  BY <1>1, RevAssumption DEF Announce
<1>3. InChannel(FlowEvent(f, unsent[t][f]))
  BY <1>2, EventsOK
<1>4. /\ announced' = [announced EXCEPT ![f] = unsent[t][f]]
      /\ unsent' = [unsent EXCEPT ![t][f] = 0]
      /\ UNCHANGED <<todo, store, order, limit, conn, coalesced, wire>>
      /\ Broadcast(FlowEvent(f, unsent[t][f]))
      /\ missed' = (missed \/ Misses(FlowEvent(f, unsent[t][f])))
  BY DEF Announce, ui
<1>5. /\ announced' \in [Flows -> 0..MaxRev] /\ unsent' \in [Tasks -> [Flows -> 0..MaxRev]]
      /\ announced'[f] = unsent[t][f] /\ \A g \in Flows : g # f => announced'[g] = announced[g]
      /\ \A s \in Tasks, g \in Flows :
            unsent'[s][g] = IF s = t /\ g = f THEN 0 ELSE unsent[s][g]
  BY <1>1, <1>2, <1>4, RevAssumption
<1>6. /\ MessagesOK' /\ Unconnected'
      /\ Len(chan') <= limit.channel /\ lagged' \in BOOLEAN
  BY <1>3, <1>4, BroadcastBase
<1>7. missed' \in BOOLEAN
  BY <1>4
<1>8. TypeOK'
  BY <1>5, <1>6, <1>7 DEF Base, TypeOK, Announce, ui
<1>9. RowsKnown'
  BY DEF Base, RowsKnown, Announce, ui
<1>10. Stored'
  <2>1. f \notin todo
    BY <1>2 DEF Base, Stored, Settled
  <2>2. todo' \subseteq {g \in Flows : limit'.revs[g] # 0}
    BY <1>4 DEF Base, Stored
  <2>3. ASSUME NEW g \in Flows
        PROVE  /\ g \in ToSet(order') <=> store'[g] # 0
               /\ g \in todo' => store'[g] = 0 /\ announced'[g] = 0 /\ Settled(g)'
               /\ store'[g] # 0 => announced'[g] <= store'[g]
    BY <1>4, <1>5, <2>1 DEF Base, Stored, Settled
  <2>4. ASSUME NEW g \in Flows, NEW s \in Tasks
        PROVE  /\ store'[g] # 0 => unsent'[s][g] <= store'[g]
               /\ unsent'[s][g] = 1 => s = "handler" /\ store'[g] <= 1
    BY <1>1, <1>4, <1>5 DEF Base, Stored
  <2> QED BY <2>2, <2>3, <2>4 DEF Stored
<1>11. ASSUME NEW g \in Flows, g # f PROVE Settled(g)' <=> Settled(g)
  BY <1>5, <1>11 DEF Settled
<1> QED BY <1>2, <1>3, <1>5, <1>6, <1>8, <1>9, <1>10, <1>11 DEF Base
\* The store's part of Base, when nobody changes it or it is emptied.
LEMMA StoredSame ==
  ASSUME Base, UNCHANGED <<todo, limit>>,
         announced' = announced \/ announced' = Nothing,
         UNCHANGED <<store, order, unsent>> \/ (store' = Nothing /\ order' = <<>> /\ unsent' = unsent)
  PROVE  Stored'
<1>1. todo' \subseteq {g \in Flows : limit'.revs[g] # 0}
  BY DEF Base, Stored
<1>2. ASSUME NEW g \in Flows PROVE announced'[g] = announced[g] \/ announced'[g] = 0
  BY NothingOK
<1>3. CASE UNCHANGED <<store, order, unsent>>
  <2>1. ASSUME NEW g \in Flows
        PROVE  /\ g \in ToSet(order') <=> store'[g] # 0
               /\ g \in todo' => store'[g] = 0 /\ announced'[g] = 0 /\ Settled(g)'
               /\ store'[g] # 0 => announced'[g] <= store'[g]
    <3>1. store[g] \in 0..MaxRev
      BY DEF Base, TypeOK
    <3> QED BY <1>2, <1>3, <3>1, RevAssumption DEF Base, Stored, Settled
  <2>2. ASSUME NEW g \in Flows, NEW s \in Tasks
        PROVE  /\ store'[g] # 0 => unsent'[s][g] <= store'[g]
               /\ unsent'[s][g] = 1 => s = "handler" /\ store'[g] <= 1
    BY <1>3 DEF Base, Stored
  <2> QED BY <1>1, <2>1, <2>2 DEF Stored
<1>4. CASE store' = Nothing /\ order' = <<>> /\ unsent' = unsent
  <2>1. ToSet(<<>>) = {}
    BY DEF ToSet
  <2>2. ASSUME NEW g \in Flows
        PROVE  /\ g \in ToSet(order') <=> store'[g] # 0
               /\ g \in todo' => store'[g] = 0 /\ announced'[g] = 0 /\ Settled(g)'
               /\ store'[g] # 0 => announced'[g] <= store'[g]
    BY <1>2, <1>4, <2>1, NothingOK DEF Base, Stored, Settled
  <2>3. ASSUME NEW g \in Flows, NEW s \in Tasks
        PROVE  /\ store'[g] # 0 => unsent'[s][g] <= store'[g]
               /\ unsent'[s][g] = 1 => s = "handler" /\ store'[g] <= 1
    BY <1>4, NothingOK DEF Base, Stored
  <2> QED BY <1>1, <2>2, <2>3 DEF Stored
<1> QED BY <1>3, <1>4

LEMMA ClearBase ==
  ASSUME Base, ClearStore \/ ClearFails \/ UserClear \/ Connect \/ ReceiveLagged
  PROVE  Base'
<1>1. Stored'
  <2>1. CASE ClearStore
    BY <2>1, StoredSame DEF ClearStore, ui, history
  <2>2. CASE ClearFails
    BY <2>2, StoredSame DEF ClearFails, ui, server
  <2>3. CASE UserClear \/ Connect \/ ReceiveLagged
    BY <2>3, StoredSame DEF UserClear, Connect, ReceiveLagged, ui, history, server
  <2> QED BY <2>1, <2>2, <2>3
<1>2. RowsKnown'
  <2>1. CASE UserClear
    BY <2>1, NothingOK DEF RowsKnown, UserClear, EmptyTable
  <2>2. CASE ClearStore \/ ClearFails \/ Connect \/ ReceiveLagged
    BY <2>2 DEF Base, RowsKnown, ClearStore, ClearFails, Connect, ReceiveLagged, ui
  <2> QED BY <2>1, <2>2
<1>3. MessagesOK' /\ Unconnected'
  <2>1. CASE ClearStore \/ ClearFails \/ UserClear
    BY <2>1 DEF Base, MessagesOK, Unconnected, ClearStore, ClearFails, UserClear, socket, ui
  <2>2. CASE Connect
    <3>1. Len(<<>>) = 0 /\ <<>> \in Seq(Messages)
      OBVIOUS
    <3> QED BY <2>2, <3>1 DEF Base, MessagesOK, Unconnected, Connect, ui
  <2>3. CASE ReceiveLagged
    BY <2>3 DEF Base, MessagesOK, Unconnected, ReceiveLagged, ui
  <2> QED BY <2>1, <2>2, <2>3
<1>4. TypeOK'
  <2>1. limit.table \in Nat \ {0} /\ limit.channel \in Nat \ {0} /\ limit.store \in Nat \ {0}
    BY LimitOK DEF Base, MessagesOK
  <2>2. Len(<<>>) = 0 /\ <<>> \in Seq(Flows)
    OBVIOUS
  <2>3. CASE ClearStore
    BY <2>1, <2>2, <2>3, NothingOK DEF Base, TypeOK, ClearStore, socket, ui, history
  <2>4. CASE ClearFails
    BY <2>4, NothingOK DEF Base, TypeOK, ClearFails, server, socket, ui
  <2>5. CASE UserClear
    BY <2>1, <2>2, <2>5, NothingOK DEF Base, TypeOK, UserClear, EmptyTable, server, socket, history
  <2>6. CASE Connect
    <3>1. Len(chan') <= limit.channel
      BY <2>1, <2>2, <2>6 DEF Connect
    <3> QED BY <2>6, <3>1, NothingOK DEF Base, TypeOK, Connect, server, ui, history
  <2>7. CASE ReceiveLagged
    BY <2>7, NothingOK DEF Base, TypeOK, ReceiveLagged, server, ui, history
  <2> QED BY <2>3, <2>4, <2>5, <2>6, <2>7
<1> QED BY <1>1, <1>2, <1>3, <1>4 DEF Base

LEMMA BroadcastClearedBase ==
  ASSUME Base, BroadcastCleared
  PROVE  Base' /\ \E F \in SUBSET Flows : /\ F = {f \in Flows : Gone(f)}
                                          /\ InChannel(Cleared(F)) /\ Broadcast(Cleared(F))
<1> DEFINE F == {f \in Flows : Gone(f)}
<1>1. /\ Broadcast(Cleared(F)) /\ missed' = (missed \/ Misses(Cleared(F)))
      /\ announced' = Nothing /\ clearing' = "idle"
      /\ UNCHANGED <<server, conn, coalesced, wire, ui>>
  BY DEF BroadcastCleared
<1>2. F \in SUBSET Flows
  OBVIOUS
<1> HIDE DEF F
<1>3. InChannel(Cleared(F))
  BY <1>2, EventsOK
<1>4. /\ MessagesOK' /\ Unconnected'
      /\ Len(chan') <= limit.channel /\ lagged' \in BOOLEAN
  BY <1>1, <1>3, BroadcastBase DEF ui
<1>5. Stored'
  BY <1>1, StoredSame DEF ui, server
<1>6. RowsKnown'
  BY <1>1 DEF Base, RowsKnown, ui
<1>7. missed' \in BOOLEAN
  BY <1>1
<1>8. TypeOK'
  BY <1>1, <1>4, <1>7, NothingOK DEF Base, TypeOK, server, ui
<1> QED BY <1>1, <1>2, <1>3, <1>4, <1>5, <1>6, <1>8 DEF Base, F

\* What the wire may hold, and what appending to it does.
OnWire(m) ==
  /\ m \in Messages
  /\ (m.kind = "flows" /\ m.gone = {}) \/ (m.kind = "cleared" /\ m.updates = <<>>)

WireOK(w) == w \in Seq(Messages) /\ \A i \in 1..Len(w) : OnWire(w[i])

LEMMA WireAppended ==
  ASSUME NEW w, WireOK(w), NEW m, OnWire(m)
  PROVE  WireOK(Append(w, m))
<1>1. w \in Seq(Messages) /\ m \in Messages
  BY DEF WireOK, OnWire
<1>2. /\ Append(w, m) \in Seq(Messages) /\ Len(Append(w, m)) = Len(w) + 1
      /\ \A i \in 1..(Len(w) + 1) : Append(w, m)[i] = IF i = Len(w) + 1 THEN m ELSE w[i]
      /\ \A i \in 1..(Len(w) + 1) : i = Len(w) + 1 \/ i \in 1..Len(w)
  BY <1>1
<1> QED BY <1>2 DEF WireOK

LEMMA WireFlushed ==
  ASSUME NEW w, WireOK(w), NEW c \in [Flows -> 0..MaxRev]
  PROVE  WireOK(w \o Flushed(c))
<1>1. w \in Seq(Messages)
  BY DEF WireOK
<1>2. CASE Flushed(c) = <<>>
  BY <1>1, <1>2
<1>3. CASE \E m : Flushed(c) = <<m>> /\ Carries(m)
  <2>1. PICK m : Flushed(c) = <<m>> /\ Carries(m)
    BY <1>3
  <2>2. m \in Messages /\ OnWire(m)
    BY <2>1 DEF Carries, OnWire
  <2>3. w \o Flushed(c) = Append(w, m)
    BY <1>1, <2>1, <2>2
  <2> QED BY <2>2, <2>3, WireAppended
<1> QED BY <1>2, <1>3, FlushedOK

LEMMA WireTaken ==
  ASSUME NEW w, WireOK(w), w # <<>>
  PROVE  WireOK(Tail(w)) /\ OnWire(Head(w))
<1>1. w \in Seq(Messages)
  BY DEF WireOK
<1>2. 1 \in 1..Len(w)
  BY <1>1
<1> QED BY <1>1, <1>2, Shifted DEF WireOK

\* Steps of the connection that change the wire or take from the channel.
LEMMA SocketBase ==
  ASSUME Base, SendRecent \/ ReceiveFlow \/ ReceiveOther \/ FlushTick \/ Disconnect
  PROVE  Base'
<1>1. Stored'
  BY StoredSame DEF SendRecent, ReceiveFlow, ReceiveOther, FlushTick, Disconnect,
                    ui, history, server
<1>2. RowsKnown'
  BY DEF Base, RowsKnown, SendRecent, ReceiveFlow, ReceiveOther, FlushTick, Disconnect, ui
<1>3. /\ chan \in Seq(Messages) /\ Len(chan) <= limit.channel /\ limit.channel \in Nat \ {0}
      /\ coalesced \in [Flows -> 0..MaxRev] /\ \A i \in 1..Len(chan) : InChannel(chan[i])
      /\ limit' = limit
  <2>1. chan \in Seq(Messages) /\ \A i \in 1..Len(chan) : InChannel(chan[i])
    BY DEF Base, MessagesOK, InChannel
  <2>2. limit' = limit
    BY DEF SendRecent, ReceiveFlow, ReceiveOther, FlushTick, Disconnect, ui
  <2> QED BY <2>1, <2>2, LimitOK DEF Base, TypeOK, MessagesOK
<1>4. WireOK(wire)
  BY DEF Base, MessagesOK, WireOK, OnWire
<1>5. chan # <<>> =>
        /\ InChannel(Head(chan)) /\ Tail(chan) \in Seq(Messages) /\ Len(Tail(chan)) <= limit.channel
        /\ \A i \in 1..Len(Tail(chan)) : InChannel(Tail(chan)[i])
  <2> SUFFICES ASSUME chan # <<>>
               PROVE  /\ InChannel(Head(chan)) /\ Tail(chan) \in Seq(Messages)
                      /\ Len(Tail(chan)) <= limit.channel
                      /\ \A i \in 1..Len(Tail(chan)) : InChannel(Tail(chan)[i])
    OBVIOUS
  <2>1. /\ Tail(chan) \in Seq(Messages) /\ Head(chan) = chan[1] /\ Len(Tail(chan)) = Len(chan) - 1
        /\ Len(chan) \in Nat \ {0}
        /\ \A i \in 1..(Len(chan) - 1) : i + 1 \in 1..Len(chan) /\ Tail(chan)[i] = chan[i + 1]
    BY <1>3, Shifted
  <2>2. 1 \in 1..Len(chan)
    BY <2>1
  <2> QED BY <1>3, <2>1, <2>2
<1>6. /\ chan' \in Seq(Messages) /\ Len(chan') <= limit.channel
      /\ \A i \in 1..Len(chan') : InChannel(chan'[i])
  <2>1. CASE SendRecent \/ FlushTick
    BY <1>3, <2>1 DEF SendRecent, FlushTick
  <2>2. CASE ReceiveFlow \/ ReceiveOther
    BY <1>5, <2>2 DEF ReceiveFlow, ReceiveOther
  <2>3. CASE Disconnect
    <3>1. Len(<<>>) = 0 /\ <<>> \in Seq(Messages) /\ chan' = <<>>
      BY <2>3 DEF Disconnect
    <3> QED BY <1>3, <3>1
  <2> QED BY <2>1, <2>2, <2>3
<1>7. WireOK(wire')
  <2>1. CASE SendRecent
    <3>1. OnWire(RecentFlows)
      BY RecentOK DEF Carries, OnWire
    <3> QED BY <1>4, <2>1, <3>1, WireAppended DEF SendRecent
  <2>2. CASE ReceiveFlow
    BY <1>4, <2>2 DEF ReceiveFlow
  <2>3. CASE ReceiveOther
    <3>1. chan # <<>> /\ OnWire(Head(chan)) /\ Head(chan) \in Messages
      BY <1>5, <2>3 DEF ReceiveOther, InChannel, OnWire
    <3>2. WireOK(wire \o Flushed(coalesced))
      BY <1>3, <1>4, WireFlushed
    <3> DEFINE v == wire \o Flushed(coalesced)
    <3>3. v \in Seq(Messages) /\ wire' = v \o <<Head(chan)>>
      BY <2>3, <3>2 DEF ReceiveOther, WireOK
    <3> HIDE DEF v
    <3>4. wire' = Append(v, Head(chan))
      BY <3>1, <3>3
    <3> QED BY <3>1, <3>2, <3>4, WireAppended DEF v
  <2>4. CASE FlushTick
    BY <1>3, <1>4, <2>4, WireFlushed DEF FlushTick
  <2>5. CASE Disconnect
    <3>1. <<>> \in Seq(Messages) /\ Len(<<>>) = 0 /\ wire' = <<>>
      BY <2>5 DEF Disconnect
    <3> QED BY <3>1 DEF WireOK
  <2> QED BY <2>1, <2>2, <2>3, <2>4, <2>5
<1>8. MessagesOK'
  BY <1>3, <1>6, <1>7 DEF Base, MessagesOK, InChannel, WireOK, OnWire
<1>9. Unconnected'
  <2>1. CASE SendRecent \/ Disconnect
    BY <2>1 DEF Base, Unconnected, SendRecent, Disconnect
  <2>2. CASE ReceiveFlow \/ ReceiveOther \/ FlushTick
    BY <2>2 DEF Base, Unconnected, ReceiveFlow, ReceiveOther, FlushTick
  <2> QED BY <2>1, <2>2
<1>10. coalesced' \in [Flows -> 0..MaxRev]
  <2>1. CASE ReceiveFlow
    <3>1. chan # <<>> /\ Len(Head(chan).updates) = 1
      BY <1>5, <2>1 DEF ReceiveFlow, InChannel
    <3>2. Feed(chan, coalesced, wire, wsBuffer)
      BY FeedOK
    <3>3. coalesced' = [g \in Flows |-> IF g = Head(chan).updates[1].flow
                                       THEN Head(chan).updates[1].rev ELSE coalesced[g]]
      BY <2>1 DEF ReceiveFlow
    <3>4. Head(chan).updates \in Seq(Updates)
      BY <1>5, <3>1 DEF InChannel, Messages
    <3>5. Head(chan).updates[1] \in Updates
      BY <3>1, <3>4
    <3>6. Head(chan).updates[1].rev \in 0..MaxRev
      BY <3>5, RevAssumption DEF Updates
    <3> QED BY <1>3, <3>3, <3>6
  <2>2. CASE SendRecent
    BY <1>3, <2>2 DEF SendRecent
  <2>3. CASE ReceiveOther \/ FlushTick \/ Disconnect
    BY <2>3, NothingOK DEF ReceiveOther, FlushTick, Disconnect
  <2> QED BY <2>1, <2>2, <2>3
<1>11. lagged' \in BOOLEAN /\ missed' \in BOOLEAN /\ conn' \in {"down", "syncing", "up"}
  BY DEF Base, TypeOK, SendRecent, ReceiveFlow, ReceiveOther, FlushTick, Disconnect, history
<1>12. TypeOK'
  <2>1. UNCHANGED <<todo, store, order, unsent, clearing, wsBuffer, frame, rows, byId, announced>>
    BY DEF SendRecent, ReceiveFlow, ReceiveOther, FlushTick, Disconnect, server, ui, history
  <2> QED BY <1>3, <1>6, <1>10, <1>11, <2>1 DEF Base, TypeOK
<1> QED BY <1>1, <1>2, <1>8, <1>9, <1>12 DEF Base

\* Steps of the browser.
LEMMA BrowserBase ==
  ASSUME Base, DeliverFlows \/ DeliverCleared \/ Frame
  PROVE  Base'
<1>1. Stored'
  BY StoredSame DEF DeliverFlows, DeliverCleared, Frame, ui, history, server
<1>2. /\ limit' = limit /\ limit.table \in Nat \ {0} /\ WireOK(wire)
      /\ UNCHANGED <<server, clearing, socket, history>>
  BY LimitOK DEF Base, MessagesOK, WireOK, OnWire, DeliverFlows, DeliverCleared, Frame, ui
<1>3. WireOK(wire')
  BY <1>2, WireTaken DEF DeliverFlows, DeliverCleared, Frame
<1>4. MessagesOK'
  BY <1>2, <1>3 DEF Base, MessagesOK, WireOK, OnWire, socket
<1>5. Unconnected'
  <2>1. conn = "down" => wire' = <<>>
    BY DEF Base, Unconnected, DeliverFlows, DeliverCleared, Frame
  <2> QED BY <1>2, <2>1 DEF Base, Unconnected, socket
<1>6. /\ RowsKnown' /\ byId' \in [Flows -> 0..MaxRev]
      /\ rows' \in Seq(Flows) /\ Len(rows') <= limit.table
  <2>1. CASE DeliverFlows
    BY <2>1 DEF Base, RowsKnown, TypeOK, DeliverFlows
  <2>2. CASE DeliverCleared
    <3>1. Len(<<>>) = 0 /\ <<>> \in Seq(Flows)
      OBVIOUS
    <3> QED BY <1>2, <2>2, <3>1, NothingOK DEF RowsKnown, DeliverCleared, EmptyTable
  <2>3. CASE Frame
    BY <2>3, FrameOK DEF RowsKnown
  <2> QED BY <2>1, <2>2, <2>3
<1>7. wsBuffer' \in Seq(Updates) /\ frame' \in BOOLEAN
  <2>1. wsBuffer \in Seq(Updates) /\ frame \in BOOLEAN
    BY DEF Base, TypeOK
  <2>2. CASE DeliverFlows
    <3>1. Head(wire) \in Messages
      BY <1>2, <2>2, WireTaken DEF DeliverFlows, OnWire
    <3>2. wsBuffer' \in Seq(Updates)
      BY <2>1, <2>2, <3>1, BufferGrows DEF DeliverFlows
    <3>3. frame' \in BOOLEAN
      BY <2>1, <2>2 DEF DeliverFlows, Requested
    <3> QED BY <3>2, <3>3
  <2>3. CASE DeliverCleared
    BY <2>1, <2>3 DEF DeliverCleared
  <2>4. CASE Frame
    <3>1. wsBuffer' = <<>> /\ frame' = FALSE
      BY <2>4 DEF Frame
    <3>2. <<>> \in Seq(Updates)
      OBVIOUS
    <3> QED BY <3>1, <3>2
  <2> QED BY <2>2, <2>3, <2>4
<1>8. TypeOK'
  BY <1>2, <1>6, <1>7 DEF Base, TypeOK, server, socket, history
<1> QED BY <1>1, <1>4, <1>5, <1>6, <1>8 DEF Base
-----------------------------------------------------------------------------
\* A flow that is gone stays gone.
LEMMA GoneForGood ==
  ASSUME Base, Next, NEW f \in Flows, Gone(f)
  PROVE  Gone(f)'
<1>1. unsent \in [Tasks -> [Flows -> 0..MaxRev]]
  BY DEF Base, TypeOK
<1>2. ASSUME NEW g \in Flows, Capture(g) PROVE Gone(f)'
  <2>1. g # f
    BY <1>2 DEF Gone, Capture
  <2> QED BY <1>2, <2>1, CaptureBase DEF Gone, Settled, Capture
<1>3. ASSUME NEW t \in Tasks, NEW g \in Flows, Change(t, g) PROVE Gone(f)'
  <2>1. g # f
    BY <1>3 DEF Gone, Change
  <2>2. store \in [Flows -> 0..MaxRev]
    BY DEF Base, TypeOK
  <2> QED BY <1>1, <1>3, <2>1, <2>2 DEF Gone, Change
<1>4. ASSUME NEW t \in Tasks, NEW g \in Flows, Announce(t, g) PROVE Gone(f)'
  <2>1. g # f
    BY <1>4 DEF Gone, Announce
  <2> QED BY <1>1, <1>4, <2>1 DEF Gone, Announce
<1>5. CASE ClearStore
  BY <1>5, NothingOK DEF Gone, ClearStore
<1>6. CASE UNCHANGED server
  BY <1>6 DEF Gone, server
<1>7. BroadcastCleared \/ Connect \/ SocketStep \/ FlushTick \/ Disconnect \/ Deliver \/ Frame
      \/ UserClear \/ ClearFails => UNCHANGED server
  BY DEF BroadcastCleared, Connect, SocketStep, SendRecent, ReceiveFlow, ReceiveOther,
         ReceiveLagged, FlushTick, Disconnect, Deliver, DeliverFlows, DeliverCleared, Frame,
         UserClear, ClearFails
<1> QED BY <1>2, <1>3, <1>4, <1>5, <1>6, <1>7 DEF Next, Announcing

\* No update of a flow that is gone overtakes a cleared event.
LEMMA GoneStep ==
  ASSUME Base, Next, GoneStays
  PROVE  GoneStays'
<1> SUFFICES ASSUME NEW f \in Flows
             PROVE  /\ Buried(chan', f) /\ Buried(wire', f)
                    /\ Marks(chan', f) \/ Marks(wire', f) => Gone(f)'
                    /\ Marks(wire', f) => Silent(chan', f) /\ coalesced'[f] = 0
  BY DEF GoneStays
<1> DEFINE Goal == /\ Buried(chan', f) /\ Buried(wire', f)
                   /\ Marks(chan', f) \/ Marks(wire', f) => Gone(f)'
                   /\ Marks(wire', f) => Silent(chan', f) /\ coalesced'[f] = 0
<1>1. /\ Buried(chan, f) /\ Buried(wire, f)
      /\ Marks(chan, f) \/ Marks(wire, f) => Gone(f)
      /\ Marks(wire, f) => Silent(chan, f) /\ coalesced[f] = 0
  BY DEF GoneStays
<1>2. Gone(f) => Gone(f)'
  BY GoneForGood
<1>3. chan \in Seq(Messages) /\ wire \in Seq(Messages) /\ coalesced \in [Flows -> 0..MaxRev]
  BY DEF Base, TypeOK, MessagesOK
<1>4. Buried(<<>>, f) /\ ~ Marks(<<>>, f) /\ Silent(<<>>, f)
  BY DEF Buried, Marks, Silent
<1>5. CASE UNCHANGED <<chan, coalesced, wire>>
  BY <1>1, <1>2, <1>5
<1>6. ASSUME NEW t \in Tasks, NEW g \in Flows, Announce(t, g) PROVE Goal
  <2> DEFINE m == FlowEvent(g, unsent[t][g])
  <2>1. InChannel(m) /\ unsent[t][g] \in 1..MaxRev
    BY <1>6, AnnounceBase
  <2>2. Broadcast(m) /\ UNCHANGED <<coalesced, wire>>
    BY <1>6 DEF Announce
  <2>3. m.gone = {} /\ (Mentions(m, f) <=> g = f)
    BY <2>1, EventsOK
  <2> HIDE DEF m
  <2>4. Gone(f) => ~ Mentions(m, f)
    BY <2>1, <2>3 DEF Gone
  <2>5. /\ ~ Mentions(m, f) /\ Silent(chan, f) => Silent(chan', f)
        /\ Marks(chan', f) => Marks(chan, f) \/ f \in m.gone
        /\ Buried(chan, f) /\ (Marks(chan, f) => ~ Mentions(m, f)) => Buried(chan', f)
    BY <2>1, <2>2, BroadcastSays
  <2> QED BY <1>1, <1>2, <2>2, <2>3, <2>4, <2>5
<1>7. CASE BroadcastCleared
  <2>1. PICK F \in SUBSET Flows : /\ F = {g \in Flows : Gone(g)}
                                  /\ InChannel(Cleared(F)) /\ Broadcast(Cleared(F))
    BY <1>7, BroadcastClearedBase
  <2>2. Cleared(F).gone = F /\ ~ Mentions(Cleared(F), f)
    BY EventsOK
  <2>3. UNCHANGED <<coalesced, wire>>
    BY <1>7 DEF BroadcastCleared
  <2>4. /\ Silent(chan, f) => Silent(chan', f)
        /\ Marks(chan', f) => Marks(chan, f) \/ f \in F
        /\ Buried(chan, f) => Buried(chan', f)
    BY <2>1, <2>2, BroadcastSays
  <2> QED BY <1>1, <1>2, <2>1, <2>3, <2>4
<1>8. CASE Connect
  <2>1. chan' = <<>> /\ coalesced' = Nothing /\ UNCHANGED wire
    BY <1>8 DEF Connect
  <2> QED BY <1>1, <1>2, <1>4, <2>1, NothingOK
<1>9. CASE SendRecent
  <2>1. wire' = Append(wire, RecentFlows) /\ UNCHANGED <<chan, coalesced>>
    BY <1>9 DEF SendRecent
  <2>2. RecentFlows \in Messages /\ RecentFlows.gone = {}
    BY RecentOK DEF Carries
  <2>3. Gone(f) => ~ Mentions(RecentFlows, f)
    BY RecentOK DEF Gone
  <2>4. /\ Marks(wire', f) <=> Marks(wire, f) \/ f \in RecentFlows.gone
        /\ Buried(wire, f) /\ (Marks(wire, f) => ~ Mentions(RecentFlows, f)) => Buried(wire', f)
    BY <1>3, <2>1, <2>2, MarksAppended
  <2> QED BY <1>1, <1>2, <2>1, <2>2, <2>3, <2>4
<1>10. ASSUME chan # <<>>
       PROVE  /\ Head(chan) \in Messages
              /\ Silent(chan, f) <=> Silent(Tail(chan), f) /\ ~ Mentions(Head(chan), f)
              /\ Marks(chan, f) <=> Marks(Tail(chan), f) \/ f \in Head(chan).gone
              /\ Buried(chan, f) => Buried(Tail(chan), f)
              /\ Buried(chan, f) /\ f \in Head(chan).gone => Silent(Tail(chan), f)
  BY <1>3, <1>10, Taken, MarksTaken, Shifted
<1>11. /\ Marks(wire \o Flushed(coalesced), f) <=> Marks(wire, f)
       /\ Buried(wire \o Flushed(coalesced), f)
       /\ wire \o Flushed(coalesced) \in Seq(Messages)
  BY <1>1, <1>3, FlushedWire
<1>12. CASE ReceiveFlow
  <2>1. chan # <<>> /\ chan' = Tail(chan) /\ wire' = wire
    BY <1>12 DEF ReceiveFlow
  <2>2. Head(chan).kind = "flow" /\ Len(Head(chan).updates) = 1
    <3>1. 1 \in 1..Len(chan) /\ Head(chan) = chan[1]
      BY <1>3, <2>1
    <3> QED BY <1>12, <3>1 DEF Base, MessagesOK, ReceiveFlow
  <2>3. ~ Mentions(Head(chan), f) => coalesced'[f] = coalesced[f]
    <3>1. Feed(chan, coalesced, wire, wsBuffer)
      BY FeedOK
    <3> QED BY <1>12, <2>1, <2>2, <3>1, FlowTaken DEF ReceiveFlow
  <2> QED BY <1>1, <1>2, <1>10, <2>1, <2>3
<1>13. CASE ReceiveOther
  <2>1. /\ chan # <<>> /\ chan' = Tail(chan) /\ coalesced' = Nothing
        /\ wire' = wire \o Flushed(coalesced) \o <<Head(chan)>>
    BY <1>13 DEF ReceiveOther
  <2>2. Head(chan).updates = <<>>
    <3>1. 1 \in 1..Len(chan) /\ Head(chan) = chan[1]
      BY <1>3, <2>1
    <3> QED BY <1>13, <3>1 DEF Base, MessagesOK, ReceiveOther
  <2>3. ~ Mentions(Head(chan), f)
    BY <2>2 DEF Mentions
  <2> DEFINE v == wire \o Flushed(coalesced)
  <2>4. v \in Seq(Messages) /\ Buried(v, f) /\ (Marks(v, f) <=> Marks(wire, f))
    BY <1>11
  <2>5. wire' = Append(v, Head(chan))
    BY <2>1, <2>4
  <2> HIDE DEF v
  <2>6. /\ Marks(wire', f) <=> Marks(v, f) \/ f \in Head(chan).gone
        /\ Buried(wire', f)
    BY <1>10, <2>1, <2>3, <2>4, <2>5, MarksAppended
  <2> QED BY <1>1, <1>2, <1>10, <2>1, <2>4, <2>6, NothingOK
<1>14. CASE ReceiveLagged
  <2>1. UNCHANGED <<chan, wire>> /\ coalesced' = Nothing
    BY <1>14 DEF ReceiveLagged
  <2> QED BY <1>1, <1>2, <2>1, NothingOK
<1>15. CASE FlushTick
  <2>1. chan' = chan /\ coalesced' = Nothing /\ wire' = wire \o Flushed(coalesced)
    BY <1>15 DEF FlushTick
  <2> QED BY <1>1, <1>2, <1>11, <2>1, NothingOK
<1>16. CASE Disconnect
  <2>1. chan' = <<>> /\ coalesced' = Nothing /\ wire' = <<>>
    BY <1>16 DEF Disconnect
  <2> QED BY <1>4, <2>1
<1>17. CASE Deliver
  <2>1. wire # <<>> /\ wire' = Tail(wire) /\ UNCHANGED <<chan, coalesced>>
    BY <1>17 DEF Deliver, DeliverFlows, DeliverCleared, socket
  <2>2. /\ Marks(wire, f) <=> Marks(Tail(wire), f) \/ f \in Head(wire).gone
        /\ Buried(wire, f) => Buried(Tail(wire), f)
    BY <1>3, <2>1, MarksTaken
  <2> QED BY <1>1, <1>2, <2>1, <2>2
<1>18. ASSUME \/ \E g \in Flows : Capture(g)
              \/ \E t \in Tasks, g \in Flows : Change(t, g)
              \/ ClearStore \/ Frame \/ UserClear \/ ClearFails
       PROVE  UNCHANGED <<chan, coalesced, wire>>
  BY <1>18 DEF Capture, Change, ClearStore, Frame, UserClear, ClearFails, socket
<1> QED
  BY <1>5, <1>6, <1>7, <1>8, <1>9, <1>12, <1>13, <1>14, <1>15, <1>16, <1>17, <1>18
     DEF Next, Announcing, SocketStep
-----------------------------------------------------------------------------
\* The connection's steps lose nothing that is on its way.
LEMMA HeadOfChan ==
  ASSUME Base, chan # <<>>
  PROVE  /\ chan \in Seq(Messages) /\ InChannel(Head(chan)) /\ Head(chan) \in Messages
         /\ Head(chan).kind = "flow" => Len(Head(chan).updates) = 1
         /\ Head(chan).kind # "flow" => /\ Head(chan).kind = "cleared"
                                        /\ \A f : ~ Mentions(Head(chan), f)
<1>1. chan \in Seq(Messages)
  BY DEF Base, MessagesOK
<1>2. 1 \in 1..Len(chan) /\ Head(chan) = chan[1] /\ Head(chan) \in Messages
  BY <1>1
<1>3. InChannel(Head(chan))
  BY <1>2 DEF Base, MessagesOK, InChannel
<1> QED BY <1>1, <1>2, <1>3 DEF InChannel, Mentions

LEMMA HeadOfWire ==
  ASSUME Base, wire # <<>>
  PROVE  /\ wire \in Seq(Messages) /\ Head(wire) \in Messages
         /\ Head(wire).kind = "cleared" => Head(wire).updates = <<>>
<1>1. wire \in Seq(Messages)
  BY DEF Base, MessagesOK
<1>2. 1 \in 1..Len(wire) /\ Head(wire) = wire[1] /\ Head(wire) \in Messages
  BY <1>1
<1> QED BY <1>1, <1>2 DEF Base, MessagesOK

LEMMA PendingKept ==
  ASSUME Base, ReceiveFlow \/ ReceiveOther \/ FlushTick \/ Deliver, NEW f \in Flows, NEW S
  PROVE  /\ Pending(chan, coalesced, wire, wsBuffer, f, S) =>
              Pending(chan', coalesced', wire', wsBuffer', f, S)
         /\ Spent(chan, coalesced, wire, wsBuffer, f) =>
              Spent(chan', coalesced', wire', wsBuffer', f)
<1>1. Feed(chan, coalesced, wire, wsBuffer)
  BY FeedOK
<1>2. CASE ReceiveFlow
  <2>1. chan # <<>> /\ chan' = Tail(chan) /\ UNCHANGED <<wire, wsBuffer>>
    BY <1>2 DEF ReceiveFlow, ui
  <2>2. Len(Head(chan).updates) = 1
    BY <1>2, <2>1, HeadOfChan DEF ReceiveFlow
  <2> QED BY <1>1, <1>2, <2>1, <2>2, FlowTaken DEF ReceiveFlow
<1>3. CASE ReceiveOther
  <2> DEFINE v == wire \o Flushed(coalesced)
             m == Head(chan)
  <2>1. /\ chan # <<>> /\ chan' = Tail(chan) /\ coalesced' = Nothing /\ wsBuffer' = wsBuffer
        /\ wire' = v \o <<m>>
    BY <1>3 DEF ReceiveOther, ui
  <2>2. m \in Messages /\ ~ Mentions(m, f)
    BY <1>3, <2>1, HeadOfChan DEF ReceiveOther
  <2>3. /\ Feed(chan, Nothing, v, wsBuffer)
        /\ Pending(chan, coalesced, wire, wsBuffer, f, S) => Pending(chan, Nothing, v, wsBuffer, f, S)
        /\ Spent(chan, coalesced, wire, wsBuffer, f) => Spent(chan, Nothing, v, wsBuffer, f)
    BY <1>1, BufferFlushed
  <2>4. v \in Seq(Messages)
    BY <2>3 DEF Feed
  <2> HIDE DEF v, m
  <2>5. wire' = Append(v, m)
    BY <2>1, <2>2, <2>4
  <2>6. /\ Feed(chan, Nothing, Append(v, m), wsBuffer)
        /\ Pending(chan, Nothing, v, wsBuffer, f, S) => Pending(chan, Nothing, Append(v, m), wsBuffer, f, S)
        /\ Spent(chan, Nothing, v, wsBuffer, f) => Spent(chan, Nothing, Append(v, m), wsBuffer, f)
    BY <2>2, <2>3, OtherSent
  <2>7. /\ Pending(chan, Nothing, Append(v, m), wsBuffer, f, S) =>
             Pending(Tail(chan), Nothing, Append(v, m), wsBuffer, f, S)
        /\ Spent(chan, Nothing, Append(v, m), wsBuffer, f) =>
             Spent(Tail(chan), Nothing, Append(v, m), wsBuffer, f)
    BY <2>1, <2>2, <2>6, OtherTaken DEF m
  <2> QED BY <2>1, <2>3, <2>5, <2>6, <2>7
<1>4. CASE FlushTick
  BY <1>1, <1>4, BufferFlushed DEF FlushTick, ui
<1>5. CASE Deliver
  <2>1. /\ wire # <<>> /\ wire' = Tail(wire) /\ UNCHANGED <<chan, coalesced>>
        /\ wsBuffer' = wsBuffer \o Head(wire).updates
    <3>1. CASE DeliverFlows
      BY <3>1 DEF DeliverFlows, socket
    <3>2. CASE DeliverCleared
      <4>1. Head(wire).updates = <<>>
        BY <3>2, HeadOfWire DEF DeliverCleared
      <4>2. wsBuffer \in Seq(Updates)
        BY DEF Base, TypeOK
      <4> QED BY <3>2, <4>1, <4>2 DEF DeliverCleared, socket
    <3> QED BY <1>5, <3>1, <3>2 DEF Deliver
  <2> QED BY <1>1, <2>1, MessageDelivered
<1> QED BY <1>2, <1>3, <1>4, <1>5

\* What was announced of a flow is the last the channel says of it.
LEMMA ChanCurrentStep ==
  ASSUME Base, Next, ChanCurrent
  PROVE  ChanCurrent'
<1> DEFINE Goal(f) == announced'[f] # 0 =>
              /\ Silent(chan', f) \/ Says(chan', f, {announced'[f]})
              /\ Renewed(chan', f)
<1> SUFFICES ASSUME NEW f \in Flows PROVE Goal(f)
  BY DEF ChanCurrent
<1>1. announced[f] # 0 =>
        /\ Silent(chan, f) \/ Says(chan, f, {announced[f]})
        /\ Renewed(chan, f)
  BY DEF ChanCurrent
<1>2. chan \in Seq(Messages)
  BY DEF Base, MessagesOK
<1>3. ASSUME NEW t \in Tasks, NEW g \in Flows, Announce(t, g) PROVE Goal(f)
  <2> DEFINE m == FlowEvent(g, unsent[t][g])
  <2>1. InChannel(m) /\ unsent[t][g] \in 1..MaxRev /\ Broadcast(m)
    BY <1>3, AnnounceBase DEF Announce
  <2>2. /\ m.kind # "cleared" /\ (Mentions(m, f) <=> g = f)
        /\ Agrees(m, f, {unsent[t][g]})
    BY <2>1, EventsOK
  <2> HIDE DEF m
  <2>3. IF g = f THEN announced'[f] = unsent[t][g] ELSE announced'[f] = announced[f]
    BY <1>3, AnnounceBase
  <2>4. m.kind # "cleared" /\ (Mentions(m, f) \/ Renewed(chan, f)) => Renewed(chan', f)
    BY <2>1, BroadcastSays
  <2>5. CASE g = f
    <3>1. Mentions(m, f) /\ Agrees(m, f, {unsent[t][g]}) =>
            Silent(chan', f) \/ Says(chan', f, {unsent[t][g]})
      BY <2>1, BroadcastSays
    <3> QED BY <2>2, <2>3, <2>4, <2>5, <3>1
  <2>6. CASE g # f
    <3>1. ~ Mentions(m, f) /\ (Silent(chan, f) \/ Says(chan, f, {announced[f]})) =>
            Silent(chan', f) \/ Says(chan', f, {announced[f]})
      BY <2>1, BroadcastSays
    <3> QED BY <1>1, <2>2, <2>3, <2>4, <2>6, <3>1
  <2> QED BY <2>5, <2>6
<1>4. CASE BroadcastCleared \/ ClearFails
  BY <1>4, NothingOK DEF BroadcastCleared, ClearFails
<1>5. CASE Connect \/ Disconnect
  <2>1. chan' = <<>>
    BY <1>5 DEF Connect, Disconnect
  <2> QED BY <2>1 DEF Silent, Renewed
<1>6. CASE ReceiveFlow \/ ReceiveOther
  <2>1. chan # <<>> /\ chan' = Tail(chan) /\ announced' = announced
    BY <1>6 DEF ReceiveFlow, ReceiveOther, history
  <2>2. /\ Silent(chan, f) <=> Silent(Tail(chan), f) /\ ~ Mentions(Head(chan), f)
        /\ Says(chan, f, {announced[f]}) =>
             Says(Tail(chan), f, {announced[f]}) \/ Silent(Tail(chan), f)
    BY <1>2, <2>1, Taken
  <2>3. Renewed(chan, f) => Renewed(Tail(chan), f)
    BY <1>2, <2>1, MarksTaken
  <2> QED BY <1>1, <2>1, <2>2, <2>3
<1>7. CASE UNCHANGED <<announced, chan>>
  BY <1>1, <1>7
<1>8. ASSUME \/ \E g \in Flows : Capture(g)
             \/ \E t \in Tasks, g \in Flows : Change(t, g)
             \/ ClearStore \/ SendRecent \/ ReceiveLagged \/ FlushTick \/ Deliver \/ Frame \/ UserClear
      PROVE  UNCHANGED <<announced, chan>>
  BY <1>8 DEF Capture, Change, ClearStore, SendRecent, ReceiveLagged, FlushTick, Deliver,
              DeliverFlows, DeliverCleared, Frame, UserClear, socket, history
<1> QED BY <1>3, <1>4, <1>5, <1>6, <1>7, <1>8 DEF Next, Announcing, SocketStep

\* The first summary of a flow that was updated is not the last the channel says.
LEMMA ChanUpdatedStep ==
  ASSUME Base, Next, ChanUpdated
  PROVE  ChanUpdated'
<1> DEFINE S == 2..MaxRev
           Goal(f) == store'[f] \in S /\ Settled(f)' => Silent(chan', f) \/ Says(chan', f, S)
<1> SUFFICES ASSUME NEW f \in Flows PROVE Goal(f)
  BY DEF ChanUpdated
<1>1. store[f] \in S /\ Settled(f) => Silent(chan, f) \/ Says(chan, f, S)
  BY DEF ChanUpdated
<1>2. chan \in Seq(Messages) /\ store \in [Flows -> 0..MaxRev]
      /\ unsent \in [Tasks -> [Flows -> 0..MaxRev]]
  BY DEF Base, TypeOK, MessagesOK
<1>3. ASSUME NEW g \in Flows, Capture(g) PROVE Goal(f)
  <2>1. chan' = chan
    BY <1>3 DEF Capture, socket
  <2>2. CASE g = f
    <3>1. store'[f] \in {0, 1}
      BY <1>3, <2>2 DEF Capture
    <3>2. store'[f] \notin S
      BY <3>1
    <3> QED BY <3>2
  <2>3. CASE g # f
    <3>1. store'[f] \in {0, store[f]} /\ (Settled(f)' <=> Settled(f))
      BY <1>3, <2>3, CaptureBase
    <3>2. 0 \notin S
      OBVIOUS
    <3> HIDE DEF S
    <3> QED BY <1>1, <2>1, <3>1, <3>2
  <2> QED BY <2>2, <2>3
<1>4. ASSUME NEW t \in Tasks, NEW g \in Flows, Change(t, g) PROVE Goal(f)
  <2>1. chan' = chan
    BY <1>4 DEF Change, socket
  <2>2. CASE g = f
    <3>1. unsent'[t][f] = store[f] + 1 /\ store[f] + 1 # 0
      BY <1>2, <1>4, <2>2 DEF Change
    <3>2. ~ Settled(f)'
      BY <3>1 DEF Settled
    <3> QED BY <3>2
  <2>3. CASE g # f
    <3>1. store'[f] = store[f] /\ (Settled(f)' <=> Settled(f))
      BY <1>2, <1>4, <2>3 DEF Change, Settled
    <3> QED BY <1>1, <2>1, <3>1
  <2> QED BY <2>2, <2>3
<1>5. ASSUME NEW t \in Tasks, NEW g \in Flows, Announce(t, g) PROVE Goal(f)
  <2> DEFINE m == FlowEvent(g, unsent[t][g])
  <2>1. InChannel(m) /\ unsent[t][g] \in 1..MaxRev /\ Broadcast(m) /\ store' = store
    BY <1>5, AnnounceBase DEF Announce
  <2>2. (Mentions(m, f) <=> g = f) /\ (unsent[t][g] \in S => Agrees(m, f, S))
    <3> HIDE DEF S
    <3> QED BY <2>1, EventsOK
  <2> HIDE DEF m
  <2>3. CASE g = f
    <3>1. store[f] \in S => unsent[t][g] \in S
      <4>1. unsent[t][f] = 1 => store[f] <= 1
        BY DEF Base, Stored
      <4> QED BY <1>2, <2>1, <2>3, <4>1, RevAssumption
    <3>2. Mentions(m, f) /\ Agrees(m, f, S) => Silent(chan', f) \/ Says(chan', f, S)
      BY <2>1, BroadcastSays
    <3> HIDE DEF S
    <3> QED BY <2>1, <2>2, <2>3, <3>1, <3>2
  <2>4. CASE g # f
    <3>1. ~ Mentions(m, f) /\ (Silent(chan, f) \/ Says(chan, f, S)) =>
            Silent(chan', f) \/ Says(chan', f, S)
      BY <2>1, BroadcastSays
    <3>2. Settled(f)' <=> Settled(f)
      BY <1>5, <2>4, AnnounceBase
    <3> HIDE DEF S
    <3> QED BY <1>1, <2>1, <2>2, <2>4, <3>1, <3>2
  <2> QED BY <2>3, <2>4
<1>6. CASE ClearStore
  <2>1. store'[f] = 0
    BY <1>6, NothingOK DEF ClearStore
  <2> QED BY <2>1
<1>7. CASE BroadcastCleared
  <2>1. PICK F \in SUBSET Flows : InChannel(Cleared(F)) /\ Broadcast(Cleared(F))
    BY <1>7, BroadcastClearedBase
  <2>2. ~ Mentions(Cleared(F), f)
    BY EventsOK
  <2>3. Silent(chan, f) \/ Says(chan, f, S) => Silent(chan', f) \/ Says(chan', f, S)
    BY <2>1, <2>2, BroadcastSays
  <2>4. UNCHANGED <<store, unsent>>
    BY <1>7 DEF BroadcastCleared, server
  <2> HIDE DEF S
  <2> QED BY <1>1, <2>3, <2>4 DEF Settled
<1>8. CASE Connect \/ Disconnect
  <2>1. chan' = <<>>
    BY <1>8 DEF Connect, Disconnect
  <2> QED BY <2>1 DEF Silent
<1>9. CASE ReceiveFlow \/ ReceiveOther
  <2>1. chan # <<>> /\ chan' = Tail(chan) /\ UNCHANGED <<store, unsent>>
    BY <1>9 DEF ReceiveFlow, ReceiveOther, server
  <2>2. /\ Silent(chan, f) <=> Silent(Tail(chan), f) /\ ~ Mentions(Head(chan), f)
        /\ Says(chan, f, S) => Says(Tail(chan), f, S) \/ Silent(Tail(chan), f)
    BY <1>2, <2>1, Taken
  <2> HIDE DEF S
  <2> QED BY <1>1, <2>1, <2>2 DEF Settled
<1>10. CASE UNCHANGED <<store, unsent, chan>>
  BY <1>1, <1>10 DEF Settled
<1>11. ASSUME SendRecent \/ ReceiveLagged \/ FlushTick \/ Deliver \/ Frame \/ UserClear \/ ClearFails
       PROVE  UNCHANGED <<store, unsent, chan>>
  BY <1>11 DEF SendRecent, ReceiveLagged, FlushTick, Deliver, DeliverFlows, DeliverCleared,
               Frame, UserClear, ClearFails, socket, server
<1> QED
  BY <1>3, <1>4, <1>5, <1>6, <1>7, <1>8, <1>9, <1>10, <1>11 DEF Next, Announcing, SocketStep
-----------------------------------------------------------------------------
\* Who is current after a step was current before it, with the same revision,
\* unless it is just announced.
LEMMA CurrentBefore ==
  ASSUME Base, Next, NEW f \in Flows, Current(f)',
         \A t \in Tasks : ~ Announce(t, f)
  PROVE  Current(f) /\ store'[f] = store[f] /\ announced[f] # 0
<1>1. /\ f \in ToSet(Recent') /\ announced'[f] = store'[f]
  BY DEF Current
<1>2. /\ store \in [Flows -> 0..MaxRev] /\ announced \in [Flows -> 0..MaxRev]
      /\ order \in Seq(Flows) /\ limit.resync \in Nat \ {0}
  BY LimitOK DEF Base, TypeOK, MessagesOK
<1>3. Current(f) => announced[f] # 0
  BY RecentOK DEF Current
<1>4. ASSUME NEW g \in Flows, Capture(g) PROVE Current(f) /\ store'[f] = store[f]
  <2>1. announced' = announced
    BY <1>4 DEF Capture, history
  <2>2. CASE f = g
    <3>1. announced[f] = 0
      BY <1>4, <2>2 DEF Base, Stored, Capture
    <3>2. Base'
      BY <1>4, CaptureBase
    <3>3. f \in ToSet(order')
      <4>1. limit'.resync \in Nat \ {0} /\ order' \in Seq(Flows)
        BY <1>2, <1>4, <3>2 DEF Base, TypeOK, Capture, ui
      <4> QED BY <1>1, <4>1, LastOfOK DEF Recent
    <3>4. store'[f] # 0
      BY <3>2, <3>3 DEF Base, Stored
    <3> QED BY <1>1, <2>1, <3>1, <3>4
  <2>3. CASE f # g
    BY <1>1, <1>4, <2>1, <2>3, CaptureBase DEF Current
  <2> QED BY <2>2, <2>3
<1>5. ASSUME NEW t \in Tasks, NEW g \in Flows, Change(t, g) PROVE Current(f) /\ store'[f] = store[f]
  <2>1. /\ announced' = announced /\ Recent' = Recent
        /\ store' = [store EXCEPT ![g] = @ + 1] /\ store[g] # 0
    BY <1>5 DEF Change, history, ui, Recent
  <2>2. CASE f = g
    <3>1. announced[f] <= store[f] /\ store'[f] = store[f] + 1
      BY <1>2, <2>1, <2>2 DEF Base, Stored
    <3> QED BY <1>1, <1>2, <2>1, <3>1
  <2>3. CASE f # g
    BY <1>1, <1>2, <2>1, <2>3 DEF Current
  <2> QED BY <2>2, <2>3
<1>6. ASSUME NEW t \in Tasks, NEW g \in Flows, Announce(t, g) PROVE Current(f) /\ store'[f] = store[f]
  <2>1. f # g
    BY <1>6
  <2>2. announced'[f] = announced[f] /\ UNCHANGED <<store, order, limit>>
    BY <1>6, <2>1, AnnounceBase DEF Announce, ui
  <2> QED BY <1>1, <2>2 DEF Current, Recent
<1>7. ASSUME ClearStore PROVE FALSE
  <2>1. ToSet(Recent') = {}
    <3>1. order' = <<>> /\ limit' = limit
      BY <1>7 DEF ClearStore, ui
    <3>2. Len(<<>>) = 0 /\ LastOf(<<>>, limit.resync) = <<>>
      BY <1>2 DEF LastOf
    <3> QED BY <3>1, <3>2 DEF Recent, ToSet
  <2> QED BY <1>1, <2>1
<1>8. ASSUME BroadcastCleared \/ ClearFails PROVE FALSE
  <2>1. announced' = Nothing /\ UNCHANGED <<store, order, limit>>
    BY <1>8 DEF BroadcastCleared, ClearFails, server, ui
  <2>2. Recent' = Recent
    BY <2>1 DEF Recent
  <2>3. store'[f] # 0
    BY <1>1, <2>1, <2>2, RecentOK
  <2> QED BY <1>1, <2>1, <2>3, NothingOK
<1>9. ASSUME UNCHANGED <<store, order, limit, announced>> PROVE Current(f) /\ store'[f] = store[f]
  BY <1>1, <1>9 DEF Current, Recent
<1>10. ASSUME \/ Connect \/ SocketStep \/ FlushTick \/ Disconnect \/ Deliver \/ Frame \/ UserClear
       PROVE  UNCHANGED <<store, order, limit, announced>>
  BY <1>10 DEF Connect, SocketStep, SendRecent, ReceiveFlow, ReceiveOther, ReceiveLagged,
               FlushTick, Disconnect, Deliver, DeliverFlows, DeliverCleared, Frame, UserClear,
               server, ui, history
<1> QED BY <1>3, <1>4, <1>5, <1>6, <1>7, <1>8, <1>9, <1>10 DEF Next, Announcing

\* Where a flow that is up to date in the feed has to be.
Arriving(f) ==
  \/ Pending(chan, coalesced, wire, wsBuffer, f, {store[f]})
  \/ Spent(chan, coalesced, wire, wsBuffer, f) /\ (byId[f] = store[f] \/ ~ HasRoom)

\* What is current arrives: nothing of it is lost, nothing older comes later,
\* and no cleared event removes it.
LEMMA CurrentArrivesStep ==
  ASSUME Base, Next, ChanCurrent, CurrentArrives
  PROVE  CurrentArrives'
<1> SUFFICES ASSUME InSync', clearing' # "asked", NEW f \in Flows, Current(f)'
             PROVE  Followed(f)' /\ Arriving(f)'
  BY DEF CurrentArrives, Arriving
<1> DEFINE Kept == Followed(f)' /\ Arriving(f)'
           r == store[f]
<1>0. chan \in Seq(Messages) /\ wire \in Seq(Messages)
  BY DEF Base, MessagesOK
<1>1. ASSUME NEW t \in Tasks, Announce(t, f) PROVE Kept
  <2> DEFINE m == FlowEvent(f, unsent[t][f])
  <2>1. /\ InChannel(m) /\ unsent[t][f] \in 1..MaxRev /\ Broadcast(m)
        /\ announced'[f] = unsent[t][f] /\ conn' = conn
    BY <1>1, AnnounceBase DEF Announce
  <2>2. Mentions(m, f) /\ Agrees(m, f, {unsent[t][f]})
    BY <2>1, EventsOK
  <2> HIDE DEF m
  <2>3. conn # "down"
    BY <2>1 DEF InSync
  <2>4. Says(chan', f, {unsent[t][f]})
    BY <2>1, <2>2, <2>3, BroadcastSays
  <2>5. Says(chan', f, {store'[f]})
    BY <2>1, <2>4 DEF Current
  <2>6. ~ Silent(chan', f)
    BY <2>5, SaysNotSilent
  <2>7. Followed(f)'
    BY <2>6 DEF Followed
  <2>8. Arriving(f)'
    BY <2>5 DEF Arriving, Pending
  <2> QED BY <2>7, <2>8
<1>2. CASE \A t \in Tasks : ~ Announce(t, f)
  <2>1. /\ Current(f) /\ store'[f] = r /\ announced[f] = r /\ r # 0
        /\ Silent(chan, f) \/ Says(chan, f, {r})
        /\ Renewed(chan, f)
    <3>1. Current(f) /\ store'[f] = r /\ announced[f] # 0
      BY <1>2, CurrentBefore
    <3>2. announced[f] = r
      BY <3>1 DEF Current
    <3> QED BY <3>1, <3>2 DEF ChanCurrent
  <2>2. InSync /\ clearing # "asked" =>
          /\ Followed(f)
          /\ \/ Pending(chan, coalesced, wire, wsBuffer, f, {r})
             \/ Spent(chan, coalesced, wire, wsBuffer, f) /\ (byId[f] = r \/ ~ HasRoom)
    BY <2>1 DEF CurrentArrives
  <2> HIDE DEF r
  <2>3. ASSUME UNCHANGED <<chan, coalesced, wire, wsBuffer, byId, rows, limit>>,
               InSync, clearing # "asked"
        PROVE  Kept
    BY <2>1, <2>2, <2>3 DEF Followed, Arriving, HasRoom
  <2>4. ASSUME \/ \E g \in Flows : Capture(g)
               \/ \E t \in Tasks, g \in Flows : Change(t, g)
        PROVE  /\ UNCHANGED <<chan, coalesced, wire, wsBuffer, byId, rows, limit>>
               /\ InSync /\ clearing # "asked"
    BY <2>4 DEF Capture, Change, socket, ui, InSync
  <2>5. ASSUME NEW t \in Tasks, NEW g \in Flows, Announce(t, g) PROVE Kept
    <3> DEFINE m == FlowEvent(g, unsent[t][g])
    <3>1. InChannel(m) /\ unsent[t][g] \in 1..MaxRev /\ Broadcast(m)
          /\ UNCHANGED <<conn, clearing, coalesced, wire, wsBuffer, byId, rows, limit>>
      BY <2>5, AnnounceBase DEF Announce, ui
    <3>2. ~ Mentions(m, f)
      BY <1>2, <2>5, <3>1, EventsOK
    <3> HIDE DEF m
    <3>3. conn = "up" /\ ~ lagged' /\ clearing # "asked"
      BY <3>1 DEF InSync
    <3>4. InSync
      BY <3>1, <3>3, BroadcastOK DEF InSync
    <3>5. /\ Silent(chan', f) <=> Silent(chan, f)
          /\ Says(chan, f, {r}) => Says(chan', f, {r})
      BY <3>1, <3>2, <3>3, BroadcastSays
    <3>6. Followed(f)'
      BY <2>2, <3>1, <3>3, <3>4, <3>5 DEF Followed
    <3>7. Arriving(f)'
      <4>1. CASE Pending(chan, coalesced, wire, wsBuffer, f, {r})
        BY <2>1, <3>1, <3>5, <4>1 DEF Arriving, Pending
      <4>2. CASE Spent(chan, coalesced, wire, wsBuffer, f) /\ (byId[f] = r \/ ~ HasRoom)
        BY <2>1, <3>1, <3>5, <4>2 DEF Arriving, Spent, HasRoom
      <4> QED BY <2>2, <3>3, <3>4, <4>1, <4>2
    <3> QED BY <3>6, <3>7
  <2>6. ASSUME ClearStore \/ BroadcastCleared \/ ClearFails PROVE FALSE
    <3>1. CASE ClearStore
      <4>1. ToSet(Recent') = {}
        <5>1. order' = <<>> /\ limit' = limit /\ limit.resync \in Nat \ {0}
          BY <3>1, LimitOK DEF Base, MessagesOK, ClearStore, ui
        <5>2. Len(<<>>) = 0 /\ LastOf(<<>>, limit.resync) = <<>>
          BY <5>1 DEF LastOf
        <5> QED BY <5>1, <5>2 DEF Recent, ToSet
      <4> QED BY <4>1 DEF Current
    <3>2. CASE BroadcastCleared \/ ClearFails
      <4>1. announced'[f] = 0
        BY <3>2, NothingOK DEF BroadcastCleared, ClearFails
      <4> QED BY <2>1, <4>1 DEF Current
    <3> QED BY <2>6, <3>1, <3>2
  <2>7. ASSUME Connect \/ ReceiveLagged \/ Disconnect \/ UserClear PROVE FALSE
    BY <2>7 DEF Connect, ReceiveLagged, Disconnect, UserClear, InSync
  <2>8. ASSUME SendRecent PROVE Kept
    <3>1. /\ wire' = Append(wire, RecentFlows) /\ UNCHANGED <<chan, coalesced>>
          /\ conn = "syncing"
      BY <2>8 DEF SendRecent
    <3>2. coalesced[f] = 0
      BY <3>1, NothingOK DEF Base, Unconnected
    <3>3. f \in ToSet(Recent)
      BY <2>1 DEF Current
    <3>4. /\ RecentFlows \in Messages /\ RecentFlows.kind # "cleared"
          /\ Mentions(RecentFlows, f) /\ Agrees(RecentFlows, f, {r})
      BY <3>3, RecentOK DEF Carries, r
    <3>5. Says(wire', f, {r})
      BY <1>0, <3>1, <3>4, Appended
    <3>6. Renewed(wire', f)
      BY <1>0, <3>1, <3>4, MarksAppended
    <3>7. Arriving(f)'
      BY <2>1, <3>1, <3>2, <3>5 DEF Arriving, Pending
    <3> QED BY <3>6, <3>7 DEF Followed
  <2>9. ASSUME ReceiveFlow \/ ReceiveOther \/ FlushTick \/ Deliver PROVE Kept
    <3>1. InSync /\ clearing # "asked" /\ UNCHANGED <<limit>>
      BY <2>9 DEF ReceiveFlow, ReceiveOther, FlushTick, Deliver, DeliverFlows, DeliverCleared,
                  socket, ui, InSync
    <3>2. /\ Pending(chan, coalesced, wire, wsBuffer, f, {r}) =>
               Pending(chan', coalesced', wire', wsBuffer', f, {r})
          /\ Spent(chan, coalesced, wire, wsBuffer, f) =>
               Spent(chan', coalesced', wire', wsBuffer', f)
      BY <2>9, PendingKept
    <3>3. Followed(f)'
      <4>1. CASE ReceiveFlow
        <5>1. chan # <<>> /\ chan' = Tail(chan) /\ wire' = wire
          BY <4>1 DEF ReceiveFlow
        <5>2. Len(Head(chan).updates) = 1 /\ Feed(chan, coalesced, wire, wsBuffer)
          BY <4>1, <5>1, HeadOfChan, FeedOK DEF ReceiveFlow
        <5> DEFINE d == [g \in Flows |-> IF g = Head(chan).updates[1].flow
                                          THEN Head(chan).updates[1].rev ELSE coalesced[g]]
        <5>3. /\ ~ Silent(chan, f) => ~ Silent(Tail(chan), f) \/ d[f] # 0
              /\ Mentions(Head(chan), f) => d[f] # 0
              /\ ~ Mentions(Head(chan), f) => d[f] = coalesced[f]
          <6> HIDE DEF Kept
          <6> QED BY <5>1, <5>2, FlowKept
        <5>4. coalesced' = d
          BY <4>1 DEF ReceiveFlow
        <5> HIDE DEF d
        <5> QED BY <2>2, <3>1, <5>1, <5>3, <5>4 DEF Followed
      <4>2. CASE ReceiveOther
        <5>1. chan # <<>> /\ chan' = Tail(chan) /\ Head(chan).kind = "cleared"
          BY <4>2, HeadOfChan DEF ReceiveOther
        <5>2. ~ Silent(chan', f)
          BY <1>0, <2>1, <5>1, MarksTaken
        <5> QED BY <5>2 DEF Followed
      <4>3. CASE FlushTick
        <5>1. wire' = wire \o Flushed(coalesced) /\ chan' = chan
          BY <4>3 DEF FlushTick
        <5>2. coalesced[f] # 0 \/ Renewed(wire, f) => Renewed(wire', f)
          BY <1>0, <5>1, FlushedWire DEF Base, TypeOK
        <5> QED BY <2>2, <3>1, <5>1, <5>2 DEF Followed
      <4>4. CASE Deliver
        <5>1. wire # <<>> /\ wire' = Tail(wire) /\ UNCHANGED <<chan, coalesced>>
          BY <4>4 DEF Deliver, DeliverFlows, DeliverCleared, socket
        <5>2. Renewed(wire, f) => Renewed(wire', f)
          BY <1>0, <5>1, MarksTaken
        <5> QED BY <2>2, <3>1, <5>1, <5>2 DEF Followed
      <4> QED BY <2>9, <4>1, <4>2, <4>3, <4>4
    <3>4. CASE Pending(chan, coalesced, wire, wsBuffer, f, {r})
      BY <2>1, <3>2, <3>3, <3>4 DEF Arriving
    <3>5. CASE Spent(chan, coalesced, wire, wsBuffer, f) /\ (byId[f] = r \/ ~ HasRoom)
      <4>1. CASE DeliverCleared
        <5>1. wire # <<>> /\ Head(wire).kind = "cleared"
          BY <4>1 DEF DeliverCleared
        <5>2. Renewed(wire, f)
          BY <2>2, <3>1, <3>5 DEF Followed, Spent
        <5>3. ~ Silent(Tail(wire), f)
          BY <1>0, <5>1, <5>2, MarksTaken
        <5>4. Silent(Tail(wire), f)
          BY <1>0, <3>5, <5>1, Taken DEF Spent
        <5> QED BY <5>3, <5>4
      <4>2. CASE ReceiveFlow \/ ReceiveOther \/ FlushTick \/ DeliverFlows
        <5>1. UNCHANGED <<byId, rows>>
          BY <4>2 DEF ReceiveFlow, ReceiveOther, FlushTick, DeliverFlows, ui
        <5> QED BY <2>1, <3>1, <3>2, <3>3, <3>5, <5>1 DEF Arriving, HasRoom
      <4> QED BY <2>9, <4>1, <4>2 DEF Deliver
    <3> QED BY <2>2, <3>1, <3>4, <3>5
  <2>10. ASSUME Frame PROVE Kept
    <3>1. UNCHANGED <<clearing, conn, chan, lagged, coalesced, wire>> /\ wsBuffer' = <<>>
      BY <2>10 DEF Frame, socket
    <3>2. InSync /\ clearing # "asked"
      BY <3>1 DEF InSync
    <3>3. Followed(f)'
      BY <2>2, <3>1, <3>2 DEF Followed
    <3>4. /\ ~ HasRoom => ~ HasRoom'
          /\ Lacks(wsBuffer, f) => byId'[f] = byId[f] \/ ~ HasRoom'
          /\ Ends(wsBuffer, f, {r}) => byId'[f] = r \/ ~ HasRoom'
      BY <2>10, FrameOK
    <3>5. CASE Pending(chan, coalesced, wire, wsBuffer, f, {r})
      <4>1. \/ Pending(chan, coalesced, wire, <<>>, f, {r})
            \/ Spent(chan, coalesced, wire, <<>>, f) /\ Ends(wsBuffer, f, {r})
        BY <3>5, BufferIngested
      <4> QED BY <2>1, <3>1, <3>3, <3>4, <4>1 DEF Arriving
    <3>6. CASE Spent(chan, coalesced, wire, wsBuffer, f) /\ (byId[f] = r \/ ~ HasRoom)
      <4>1. Spent(chan, coalesced, wire, <<>>, f) /\ Lacks(wsBuffer, f)
        BY <3>6, BufferIngested
      <4> QED BY <2>1, <3>1, <3>3, <3>4, <3>6, <4>1 DEF Arriving
    <3> QED BY <2>2, <3>2, <3>5, <3>6
  <2> QED BY <2>3, <2>4, <2>5, <2>6, <2>7, <2>8, <2>9, <2>10 DEF Next, Announcing, SocketStep
<1> QED BY <1>1, <1>2
\* An update that everyone has announced arrives, and the first summary does not
\* come after it.
LEMMA UpdatedArrivesStep ==
  ASSUME Base, Next, ChanUpdated, UpdatedArrives
  PROVE  UpdatedArrives'
<1> DEFINE S == 2..MaxRev
           Kept(f) == \/ Pending(chan', coalesced', wire', wsBuffer', f, S)
                      \/ Spent(chan', coalesced', wire', wsBuffer', f) /\ byId'[f] # 1
<1> SUFFICES ASSUME InSync', NEW f \in ToSet(Recent'), store'[f] \in S, Settled(f)'
             PROVE  Kept(f)
  BY DEF UpdatedArrives
<1>0. 0 \notin S /\ 1 \notin S
  OBVIOUS
<1> HIDE DEF S
<1>1. chan \in Seq(Messages) /\ wire \in Seq(Messages) /\ limit.resync \in Nat \ {0}
      /\ store \in [Flows -> 0..MaxRev] /\ unsent \in [Tasks -> [Flows -> 0..MaxRev]]
  BY LimitOK DEF Base, TypeOK, MessagesOK
<1>2. InSync /\ f \in ToSet(Recent) /\ store[f] \in S /\ Settled(f) =>
         \/ Pending(chan, coalesced, wire, wsBuffer, f, S)
         \/ Spent(chan, coalesced, wire, wsBuffer, f) /\ byId[f] # 1
  BY DEF UpdatedArrives, S
<1>3. ASSUME InSync, f \in ToSet(Recent), store[f] \in S, Settled(f),
             UNCHANGED <<chan, coalesced, wire, wsBuffer>>, byId' = byId \/ byId'[f] = 0
      PROVE  Kept(f)
  BY <1>2, <1>3
<1>4. ASSUME NEW g \in Flows, Capture(g) PROVE Kept(f)
  <2>1. UNCHANGED <<chan, coalesced, wire, wsBuffer, byId>> /\ InSync
    BY <1>4 DEF Capture, socket, ui, InSync
  <2>2. f # g
    <3>1. f = g => store'[f] \in {0, 1}
      BY <1>4 DEF Capture
    <3> QED BY <1>0, <3>1
  <2>3. f \in ToSet(Recent) /\ store'[f] = store[f]
    BY <1>4, <2>2, CaptureBase
  <2>4. f \in Flows
    BY <2>3, RecentOK
  <2>5. Settled(f)
    BY <1>4, <2>2, <2>4, CaptureBase
  <2> QED BY <1>3, <2>1, <2>3, <2>5
<1>5. ASSUME NEW t \in Tasks, NEW g \in Flows, Change(t, g) PROVE Kept(f)
  <2>1. UNCHANGED <<chan, coalesced, wire, wsBuffer, byId>> /\ InSync /\ Recent' = Recent
    BY <1>5 DEF Change, socket, ui, InSync, Recent
  <2>2. f \in Flows
    BY <2>1, RecentOK
  <2>3. f # g
    <3> SUFFICES ASSUME f = g PROVE FALSE
      OBVIOUS
    <3>1. unsent'[t][f] = store[f] + 1 /\ store[f] + 1 # 0
      BY <1>1, <1>5 DEF Change
    <3> QED BY <3>1 DEF Settled
  <2>4. store'[f] = store[f] /\ Settled(f)
    BY <1>1, <1>5, <2>2, <2>3 DEF Change, Settled
  <2> QED BY <1>3, <2>1, <2>4
<1>6. ASSUME NEW t \in Tasks, NEW g \in Flows, Announce(t, g) PROVE Kept(f)
  <2> DEFINE m == FlowEvent(g, unsent[t][g])
  <2>1. /\ InChannel(m) /\ unsent[t][g] \in 1..MaxRev /\ Broadcast(m)
        /\ UNCHANGED <<conn, coalesced, wire, wsBuffer, byId, store, order, limit>>
    BY <1>6, AnnounceBase DEF Announce, ui
  <2>2. Recent' = Recent /\ f \in Flows
    BY <2>1, RecentOK DEF Recent
  <2>3. (Mentions(m, f) <=> g = f) /\ (unsent[t][g] \in S => Agrees(m, f, S))
    BY <2>1, EventsOK
  <2> HIDE DEF m
  <2>4. conn = "up" /\ ~ lagged' /\ InSync
    BY <2>1, BroadcastOK DEF InSync
  <2>5. CASE g = f
    <3>1. unsent[t][f] \in S
      <4>1. unsent[t][f] = 1 => store[f] <= 1
        BY <2>2 DEF Base, Stored
      <4>2. store[f] \in 2..MaxRev
        BY <2>1 DEF S
      <4> QED BY <2>1, <2>5, <4>1, <4>2, RevAssumption DEF S
    <3>2. Says(chan', f, S)
      BY <2>1, <2>3, <2>4, <2>5, <3>1, BroadcastSays
    <3> QED BY <3>2 DEF Pending
  <2>6. CASE g # f
    <3>1. Settled(f) /\ store[f] \in S
      BY <1>6, <2>1, <2>2, <2>6, AnnounceBase
    <3>2. /\ Silent(chan', f) <=> Silent(chan, f)
          /\ Says(chan, f, S) => Says(chan', f, S)
      BY <2>1, <2>3, <2>4, <2>6, BroadcastSays
    <3> QED BY <1>2, <2>1, <2>2, <2>4, <3>1, <3>2 DEF Pending, Spent
  <2> QED BY <2>5, <2>6
<1>7. ASSUME ClearStore PROVE FALSE
  <2>1. order' = <<>> /\ limit' = limit
    BY <1>7 DEF ClearStore, ui
  <2>2. LastOf(<<>>, limit.resync) = <<>>
    BY <1>1 DEF LastOf
  <2> QED BY <2>1, <2>2 DEF Recent, ToSet
<1>8. ASSUME BroadcastCleared PROVE Kept(f)
  <2>1. PICK F \in SUBSET Flows : InChannel(Cleared(F)) /\ Broadcast(Cleared(F))
    BY <1>8, BroadcastClearedBase
  <2>2. UNCHANGED <<conn, coalesced, wire, wsBuffer, byId, store, order, limit, unsent>>
    BY <1>8 DEF BroadcastCleared, ui, server
  <2>3. conn = "up" /\ ~ lagged' /\ InSync /\ Recent' = Recent
    BY <2>1, <2>2, BroadcastOK DEF InSync, Recent
  <2>4. ~ Mentions(Cleared(F), f)
    BY EventsOK
  <2>5. /\ Silent(chan', f) <=> Silent(chan, f)
        /\ Says(chan, f, S) => Says(chan', f, S)
    BY <2>1, <2>3, <2>4, BroadcastSays
  <2> QED BY <1>2, <2>2, <2>3, <2>5 DEF Pending, Spent, Settled
<1>9. ASSUME Connect \/ ReceiveLagged \/ Disconnect PROVE FALSE
  BY <1>9 DEF Connect, ReceiveLagged, Disconnect, InSync
<1>10. ASSUME SocketStep \/ FlushTick \/ Deliver \/ Frame \/ UserClear \/ ClearFails
       PROVE  /\ f \in ToSet(Recent) /\ f \in Flows /\ store[f] \in S /\ Settled(f)
              /\ store' = store
  <2>1. UNCHANGED <<store, order, limit, unsent>>
    BY <1>10 DEF SocketStep, SendRecent, ReceiveFlow, ReceiveOther, ReceiveLagged, FlushTick,
                 Deliver, DeliverFlows, DeliverCleared, Frame, UserClear, ClearFails, server, ui
  <2>2. Recent' = Recent
    BY <2>1 DEF Recent
  <2> QED BY <2>1, <2>2, RecentOK DEF Settled
<1>11. ASSUME SendRecent PROVE Kept(f)
  <2>1. /\ wire' = Append(wire, RecentFlows) /\ UNCHANGED <<chan, coalesced>>
        /\ conn = "syncing"
    BY <1>11 DEF SendRecent
  <2>2. f \in ToSet(Recent) /\ f \in Flows /\ store[f] \in S /\ Settled(f)
    BY <1>10, <1>11 DEF SocketStep
  <2>3. coalesced[f] = 0
    BY <2>1, <2>2, NothingOK DEF Base, Unconnected
  <2>4. RecentFlows \in Messages /\ Mentions(RecentFlows, f) /\ Agrees(RecentFlows, f, S)
    BY <2>2, RecentOK DEF Carries, Agrees
  <2>5. Says(wire', f, S)
    BY <1>1, <2>1, <2>4, Appended
  <2>6. Silent(chan, f) \/ Says(chan, f, S)
    BY <2>2 DEF ChanUpdated, S
  <2> QED BY <2>1, <2>3, <2>5, <2>6 DEF Pending
<1>12. ASSUME ReceiveFlow \/ ReceiveOther \/ FlushTick \/ Deliver PROVE Kept(f)
  <2>1. f \in ToSet(Recent) /\ f \in Flows /\ store[f] \in S /\ Settled(f)
    BY <1>10, <1>12 DEF SocketStep
  <2>2. InSync /\ (byId' = byId \/ byId'[f] = 0)
    BY <1>12, <2>1, NothingOK DEF ReceiveFlow, ReceiveOther, FlushTick, Deliver, DeliverFlows,
       DeliverCleared, EmptyTable, socket, ui, InSync
  <2>3. /\ Pending(chan, coalesced, wire, wsBuffer, f, S) =>
             Pending(chan', coalesced', wire', wsBuffer', f, S)
        /\ Spent(chan, coalesced, wire, wsBuffer, f) =>
             Spent(chan', coalesced', wire', wsBuffer', f)
    BY <1>12, <2>1, PendingKept
  <2> QED BY <1>2, <2>1, <2>2, <2>3
<1>13. ASSUME Frame PROVE Kept(f)
  <2>1. f \in ToSet(Recent) /\ f \in Flows /\ store[f] \in S /\ Settled(f)
    BY <1>10, <1>13
  <2>2. UNCHANGED <<conn, chan, lagged, coalesced, wire>> /\ wsBuffer' = <<>> /\ InSync
    BY <1>13 DEF Frame, socket, InSync
  <2>3. /\ Lacks(wsBuffer, f) => byId'[f] = byId[f] \/ byId'[f] = 0
        /\ Ends(wsBuffer, f, S) => byId'[f] \in S \/ byId'[f] = 0
    BY <1>13, <2>1, FrameOK
  <2>4. CASE Pending(chan, coalesced, wire, wsBuffer, f, S)
    <3>1. \/ Pending(chan, coalesced, wire, <<>>, f, S)
          \/ Spent(chan, coalesced, wire, <<>>, f) /\ Ends(wsBuffer, f, S)
      BY <2>4, BufferIngested
    <3> QED BY <1>0, <2>2, <2>3, <3>1
  <2>5. CASE Spent(chan, coalesced, wire, wsBuffer, f) /\ byId[f] # 1
    <3>1. Spent(chan, coalesced, wire, <<>>, f) /\ Lacks(wsBuffer, f)
      BY <2>5, BufferIngested
    <3> QED BY <2>2, <2>3, <2>5, <3>1
  <2> QED BY <1>2, <2>1, <2>2, <2>4, <2>5
<1>14. ASSUME UserClear \/ ClearFails PROVE Kept(f)
  <2>1. f \in ToSet(Recent) /\ f \in Flows /\ store[f] \in S /\ Settled(f)
    BY <1>10, <1>14
  <2>2. /\ UNCHANGED <<chan, coalesced, wire, wsBuffer>> /\ InSync
        /\ byId' = byId \/ byId'[f] = 0
    BY <1>14, <2>1, NothingOK DEF UserClear, ClearFails, EmptyTable, socket, ui, InSync
  <2> QED BY <1>3, <2>1, <2>2
<1> QED
  BY <1>4, <1>5, <1>6, <1>7, <1>8, <1>9, <1>11, <1>12, <1>13, <1>14
     DEF Next, Announcing, SocketStep

-----------------------------------------------------------------------------
LEMMA BaseStep ==
  ASSUME Base, Next
  PROVE  Base'
<1>1. ASSUME NEW f \in Flows, Capture(f) PROVE Base'
  BY <1>1, CaptureBase
<1>2. ASSUME NEW t \in Tasks, NEW f \in Flows, Change(t, f) PROVE Base'
  BY <1>2, ChangeBase
<1>3. ASSUME NEW t \in Tasks, NEW f \in Flows, Announce(t, f) PROVE Base'
  BY <1>3, AnnounceBase
<1>4. CASE BroadcastCleared
  BY <1>4, BroadcastClearedBase
<1>5. CASE ClearStore \/ ClearFails \/ UserClear \/ Connect \/ ReceiveLagged
  BY <1>5, ClearBase
<1>6. CASE SendRecent \/ ReceiveFlow \/ ReceiveOther \/ FlushTick \/ Disconnect
  BY <1>6, SocketBase
<1>7. CASE Deliver \/ Frame
  BY <1>7, BrowserBase DEF Deliver
<1> QED BY <1>1, <1>2, <1>3, <1>4, <1>5, <1>6, <1>7 DEF Next, Announcing, SocketStep

LEMMA InitHolds == Init => IInv
<1> SUFFICES ASSUME Init PROVE IInv
  OBVIOUS
<1>1. /\ limit \in Limits /\ limit.store \in Nat \ {0} /\ limit.table \in Nat \ {0}
      /\ limit.channel \in Nat \ {0}
  BY LimitOK DEF Init
<1>2. /\ todo = {f \in Flows : limit.revs[f] # 0}
      /\ store = Nothing /\ order = <<>> /\ unsent = [t \in Tasks |-> Nothing]
      /\ clearing = "idle" /\ conn = "down" /\ chan = <<>> /\ lagged = FALSE
      /\ coalesced = Nothing /\ wire = <<>> /\ wsBuffer = <<>> /\ frame = FALSE
      /\ rows = <<>> /\ byId = Nothing /\ announced = Nothing /\ missed = FALSE
  BY DEF Init
<1>3. /\ <<>> \in Seq(Flows) /\ <<>> \in Seq(Updates) /\ <<>> \in Seq(Messages)
      /\ Len(<<>>) = 0 /\ ToSet(<<>>) = {}
  BY DEF ToSet
<1>4. TypeOK
  <2>1. /\ todo \subseteq Flows /\ unsent \in [Tasks -> [Flows -> 0..MaxRev]]
        /\ store \in [Flows -> 0..MaxRev] /\ coalesced \in [Flows -> 0..MaxRev]
        /\ byId \in [Flows -> 0..MaxRev] /\ announced \in [Flows -> 0..MaxRev]
    <3> HIDE DEF Nothing
    <3> QED BY <1>2, NothingOK
  <2>2. /\ order \in Seq(Flows) /\ rows \in Seq(Flows) /\ wsBuffer \in Seq(Updates)
    BY <1>2, <1>3
  <2>3. Len(order) <= limit.store /\ Len(chan) <= limit.channel /\ Len(rows) <= limit.table
    BY <1>1, <1>2, <1>3
  <2>4. /\ clearing \in {"idle", "asked", "cleared"} /\ conn \in {"down", "syncing", "up"}
        /\ lagged \in BOOLEAN /\ frame \in BOOLEAN /\ missed \in BOOLEAN
    BY <1>2
  <2> QED BY <2>1, <2>2, <2>3, <2>4 DEF TypeOK
<1>5. MessagesOK /\ Unconnected
  BY <1>1, <1>2, <1>3 DEF MessagesOK, Unconnected
<1>6. Stored /\ RowsKnown
  BY <1>2, <1>3, NothingOK DEF Stored, RowsKnown, Settled
<1>7. ChanCurrent /\ ChanUpdated
  BY <1>2, <1>3, NothingOK DEF ChanCurrent, ChanUpdated, Silent
<1>8. CurrentArrives /\ UpdatedArrives
  BY <1>2 DEF CurrentArrives, UpdatedArrives, InSync
<1>9. GoneStays
  BY <1>2, <1>3 DEF GoneStays, Buried, Marks
<1> QED BY <1>4, <1>5, <1>6, <1>7, <1>8, <1>9 DEF IInv

LEMMA StepHolds == IInv /\ [Next]_vars => IInv'
<1> SUFFICES ASSUME IInv, [Next]_vars PROVE IInv'
  OBVIOUS
<1>1. Base
  BY DEF IInv, Base
<1>2. CASE Next
  <2>1. Base'
    BY <1>1, <1>2, BaseStep
  <2>2. ChanCurrent' /\ ChanUpdated'
    BY <1>1, <1>2, ChanCurrentStep, ChanUpdatedStep DEF IInv
  <2>3. CurrentArrives' /\ UpdatedArrives'
    BY <1>1, <1>2, CurrentArrivesStep, UpdatedArrivesStep DEF IInv
  <2>4. GoneStays'
    BY <1>1, <1>2, GoneStep DEF IInv
  <2> QED BY <2>1, <2>2, <2>3, <2>4 DEF IInv, Base
<1>3. CASE UNCHANGED vars
  BY <1>3 DEF IInv, TypeOK, MessagesOK, Unconnected, Stored, Settled, RowsKnown, ChanCurrent,
     ChanUpdated, CurrentArrives, UpdatedArrives, GoneStays, Followed, InSync, Current, Recent,
     HasRoom, Gone, vars, server, socket, ui, history, bounds
<1> QED BY <1>2, <1>3

LEMMA Invariance == Spec => []IInv
BY InitHolds, StepHolds, PTL DEF Spec

-----------------------------------------------------------------------------
\* Every variable keeps its type, and the channel, the store and the table never
\* exceed their limits, whatever is captured, cleared, dropped and reconnected.
THEOREM TypesHold == Spec => []TypeOK
<1>1. IInv => TypeOK
  BY DEF IInv
<1> QED BY <1>1, Invariance, PTL

\* A feed at rest shows the current revision of every recent flow announced since
\* the last clear: coalescing, the buffers, evictions and the resynchronisation
\* lose nothing and let nothing older come last.
THEOREM FeedConverges == Spec => []Converges
<1>1. IInv => Converges
  <2> SUFFICES ASSUME IInv, Quiet, HasRoom, NEW f \in Flows, Current(f) PROVE Shown(f)
    BY DEF Converges
  <2>1. InSync /\ clearing # "asked"
    BY DEF Quiet, InSync
  <2>2. Arriving(f)
    BY <2>1 DEF IInv, CurrentArrives, Arriving
  <2>3. ~ Pending(chan, coalesced, wire, wsBuffer, f, {store[f]})
    BY NothingOK DEF Quiet, Pending, Says, Ends
  <2> QED BY <2>2, <2>3 DEF Arriving, Shown
<1> QED BY <1>1, Invariance, PTL

\* The first summary of a flow, sent by its handler, never has the last word over
\* an update that app attribution or the handler announced since.
THEOREM InitialIsNotLast == Spec => []InitialNotLast
<1>1. IInv => InitialNotLast
  <2> SUFFICES ASSUME IInv, Quiet, NEW f \in ToSet(Recent), Settled(f), byId[f] = 1
               PROVE  store[f] = 1
    BY DEF InitialNotLast, Settled
  <2>1. Base /\ InSync
    BY DEF IInv, Base, Quiet, InSync
  <2>2. f \in Flows /\ store[f] # 0 /\ store[f] \in 0..MaxRev
    BY <2>1, RecentOK DEF Base, TypeOK
  <2>3. ~ Pending(chan, coalesced, wire, wsBuffer, f, 2..MaxRev)
    BY <2>2, NothingOK DEF Quiet, Pending, Says, Ends
  <2>4. store[f] \notin 2..MaxRev
    BY <2>1, <2>3 DEF IInv, UpdatedArrives
  <2> QED BY <2>2, <2>4, RevAssumption
<1> QED BY <1>1, Invariance, PTL

\* After a cleared event the browser receives no update of a flow that was gone,
\* and wholly announced, when the event was sent: the buffer of handle_socket is
\* flushed before the event, and what is announced later is not of such a flow.
THEOREM ClearedComesInOrder == Spec => []ClearedInOrder
<1>1. IInv => ClearedInOrder
  <2> SUFFICES ASSUME IInv PROVE ClearedInOrder
    OBVIOUS
  <2> DEFINE v == wire \o Flushed(coalesced)
  <2>1. chan \in Seq(Messages) /\ wire \in Seq(Messages) /\ coalesced \in [Flows -> 0..MaxRev]
    BY DEF IInv, TypeOK, MessagesOK
  <2>2. v \in Seq(Messages)
    BY <2>1, WireFlushedTyped
  <2>3. ASSUME NEW f \in Flows
        PROVE  /\ Buried(v, f) /\ Buried(chan, f)
               /\ Marks(v, f) => Silent(chan, f)
    BY <2>1, FlushedWire DEF IInv, GoneStays
  <2>4. Pipeline = v \o chan
    BY DEF Pipeline
  <2> HIDE DEF v
  <2>5. ASSUME NEW f \in Flows PROVE Buried(v \o chan, f)
    BY <2>1, <2>2, <2>3, BuriedJoined
  <2>6. ASSUME NEW j \in 1..Len(Pipeline), NEW k \in 1..Len(Pipeline), j < k,
               NEW u \in ToSet(Pipeline[k].updates)
        PROVE  u.flow \notin Pipeline[j].gone
    <3>1. Pipeline \in Seq(Messages)
      BY <2>1, <2>2, <2>4
    <3>2. Pipeline[k] \in Messages /\ Pipeline[j] \in Messages
      BY <3>1
    <3>3. Pipeline[k].updates \in Seq(Updates) /\ Pipeline[j].gone \subseteq Flows
      BY <3>2 DEF Messages
    <3>4. PICK i \in 1..Len(Pipeline[k].updates) : Pipeline[k].updates[i] = u
      BY <3>3 DEF ToSet
    <3>5. Mentions(Pipeline[k], u.flow)
      BY <3>4 DEF Mentions
    <3>6. k \in (j + 1)..Len(Pipeline)
      BY <2>6, <3>1
    <3> QED BY <2>4, <2>5, <3>3, <3>5, <3>6 DEF Buried
  <2> QED BY <2>6 DEF ClearedInOrder
<1> QED BY <1>1, Invariance, PTL
=============================================================================
