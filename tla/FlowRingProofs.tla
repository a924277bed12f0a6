--------------------------- MODULE FlowRingProofs ---------------------------
(***************************************************************************)
(* Facts about the byte totals and the eviction count of FlowRing, for     *)
(* every queue and every size function.  The totals are defined by         *)
(* recursion on the length of the queue; the induction they need comes     *)
(* from the well-foundedness of < on the naturals.                         *)
(***************************************************************************)
EXTENDS FlowRing, WellFoundedInduction, SequenceTheorems, TLAPS

\* Every non-empty set of naturals has a least element.
LEMMA LeastNat ==
  ASSUME NEW T, T \subseteq Nat, T # {}
  PROVE  \E x \in T : \A y \in T : x <= y
<1> DEFINE R == {p \in Nat \X Nat : p[1] < p[2]}
<1>1. IsWellFoundedOn(R, Nat)
  BY NatLessThanWellFounded DEF OpToRel
<1>2. \E x \in T : \A y \in T : ~ (<<y, x>> \in R)
  <2> HIDE DEF R
  <2> QED BY <1>1, WFMin
<1>3. PICK x \in T : \A y \in T : ~ (<<y, x>> \in R)
  BY <1>2
<1>4. \A y \in T : x <= y
  <2> SUFFICES ASSUME NEW y \in T PROVE x <= y
    OBVIOUS
  <2>1. ~ (<<y, x>> \in R)
    BY <1>3
  <2>2. <<y, x>> \in Nat \X Nat
    OBVIOUS
  <2>3. ~ (y < x)
    BY <2>1, <2>2
  <2> QED BY <2>3
<1> QED BY <1>4

\* Induction over a set of naturals.
LEMMA SetInduction ==
  ASSUME NEW S, 0 \in S, \A n \in Nat : n \in S => n + 1 \in S
  PROVE  \A n \in Nat : n \in S
<1> DEFINE T == Nat \ S
<1>1. SUFFICES ASSUME T # {} PROVE FALSE
  OBVIOUS
<1>2. PICK x \in T : \A y \in T : x <= y
  BY <1>1, LeastNat
<1>3. x # 0 /\ x - 1 \in Nat
  BY <1>2
<1>4. x - 1 \in S
  BY <1>2, <1>3
<1> QED BY <1>2, <1>3, <1>4

\* A function defined along 1..n from a base and a step exists: what a recursive
\* definition over a sequence needs.
LEMMA PrimitiveRecursion ==
  ASSUME NEW D, NEW base \in D, NEW n \in Nat, NEW h \in [1..n -> [D -> D]]
  PROVE  \E f \in [0..n -> D] :
            f[0] = base /\ \A i \in 1..n : f[i] = h[i][f[i - 1]]
<1> DEFINE Upto(k) == \E f \in [0..k -> D] :
              f[0] = base /\ \A i \in 1..k : f[i] = h[i][f[i - 1]]
           S == {k \in Nat : k <= n => Upto(k)}
<1>1. 0 \in S
  <2> DEFINE f == [k \in 0..0 |-> base]
  <2>1. f \in [0..0 -> D] /\ f[0] = base /\ \A i \in 1..0 : f[i] = h[i][f[i - 1]]
    OBVIOUS
  <2> HIDE DEF f
  <2> QED BY <2>1
<1>2. ASSUME NEW k \in Nat, k \in S PROVE k + 1 \in S
  <2> SUFFICES ASSUME k + 1 <= n PROVE Upto(k + 1)
    OBVIOUS
  <2>1. PICK f \in [0..k -> D] : f[0] = base /\ \A i \in 1..k : f[i] = h[i][f[i - 1]]
    BY <1>2
  <2> DEFINE g == [i \in 0..(k + 1) |-> IF i <= k THEN f[i] ELSE h[k + 1][f[k]]]
  <2>2. f[k] \in D /\ k + 1 \in 1..n
    OBVIOUS
  <2>3. h[k + 1][f[k]] \in D
    BY <2>2
  <2>4. g \in [0..(k + 1) -> D] /\ g[0] = base
    BY <2>1, <2>3
  <2>5. \A i \in 0..k : g[i] = f[i]
    OBVIOUS
  <2>6. g[k + 1] = h[k + 1][f[k]]
    OBVIOUS
  <2> HIDE DEF g
  <2>7. ASSUME NEW i \in 1..(k + 1) PROVE g[i] = h[i][g[i - 1]]
    <3>1. CASE i \in 1..k
      <4>1. i - 1 \in 0..k /\ i \in 0..k
        BY <3>1
      <4> QED BY <2>1, <2>5, <3>1, <4>1
    <3>2. CASE i = k + 1
      <4>1. i - 1 = k /\ k \in 0..k
        BY <3>2
      <4> QED BY <2>5, <2>6, <3>2, <4>1
    <3> QED BY <3>1, <3>2
  <2> QED BY <2>4, <2>7
<1>3. \A k \in Nat : k \in S
  <2> HIDE DEF S
  <2> QED BY <1>1, <1>2, SetInduction
<1>4. Upto(n)
  <2> HIDE DEF Upto
  <2> QED BY <1>3
<1> QED BY <1>4

-----------------------------------------------------------------------------
\* p is the function of byte totals of queue o: what Prefix is meant to be.
IsPrefix(p, o, size) ==
  /\ p \in [0..Len(o) -> Nat]
  /\ p[0] = 0
  /\ \A k \in 1..Len(o) : p[k] = p[k - 1] + size[o[k]]

\* Such a function exists.
LEMMA PrefixExists ==
  ASSUME NEW I, NEW o \in Seq(I), NEW size \in [I -> Nat]
  PROVE  \E p : IsPrefix(p, o, size)
<1> DEFINE Upto(n) == \E p \in [0..n -> Nat] :
              p[0] = 0 /\ \A k \in 1..n : p[k] = p[k - 1] + size[o[k]]
           S == {n \in Nat : n <= Len(o) => Upto(n)}
<1>0. Len(o) \in Nat
  OBVIOUS
<1>1. Upto(0)
  <2> DEFINE q == [k \in 0..0 |-> 0]
  <2>1. q \in [0..0 -> Nat] /\ q[0] = 0 /\ \A k \in 1..0 : q[k] = q[k - 1] + size[o[k]]
    OBVIOUS
  <2> HIDE DEF q
  <2> QED BY <2>1
<1>2. ASSUME NEW n \in Nat, Upto(n), n + 1 <= Len(o)
      PROVE  Upto(n + 1)
  <2>2. PICK p \in [0..n -> Nat] :
           p[0] = 0 /\ \A k \in 1..n : p[k] = p[k - 1] + size[o[k]]
    BY <1>2
  <2>3. size[o[n + 1]] \in Nat
    BY <1>0, <1>2, ElementOfSeq
  <2> DEFINE q == [k \in 0..(n + 1) |-> IF k <= n THEN p[k] ELSE p[n] + size[o[n + 1]]]
  <2>4. q \in [0..(n + 1) -> Nat]
    BY <2>3
  <2>5. q[0] = 0
    BY <2>2
  <2>6. \A k \in 1..(n + 1) : q[k] = q[k - 1] + size[o[k]]
    BY <2>2
  <2> HIDE DEF q
  <2> QED BY <2>4, <2>5, <2>6
<1>3. Upto(Len(o))
  <2> HIDE DEF Upto
  <2>1. 0 \in S
    BY <1>1
  <2>2. \A n \in Nat : n \in S => n + 1 \in S
    BY <1>0, <1>2
  <2>3. \A n \in Nat : n \in S
    <3> HIDE DEF S
    <3> QED BY <2>1, <2>2, SetInduction
  <2> QED BY <1>0, <2>3
<1> QED BY <1>0, <1>3 DEF IsPrefix

\* Prefix is such a function, and the only one.
LEMMA PrefixUnique ==
  ASSUME NEW I, NEW o \in Seq(I), NEW size \in [I -> Nat],
         NEW p, IsPrefix(p, o, size)
  PROVE  Prefix(o, size) = p
<1> DEFINE n == Len(o)
           F(g) == [k \in 0..n |-> IF k = 0 THEN 0 ELSE g[k - 1] + size[o[k]]]
           f == CHOOSE g : g = F(g)
<1>0. n \in Nat
  OBVIOUS
<1>1. p = F(p)
  BY <1>0 DEF IsPrefix
<1>2. f = F(f)
  <2> HIDE DEF F
  <2> QED BY <1>1
<1>3. Prefix(o, size) = f
  BY DEF Prefix
<1>4. \A k \in Nat : k \in 0..n => f[k] = p[k]
  <2> DEFINE S == {k \in Nat : k \in 0..n => f[k] = p[k]}
  <2>1. 0 \in S
    BY <1>0, <1>2 DEF IsPrefix
  <2>2. ASSUME NEW k \in Nat, k \in S PROVE k + 1 \in S
    <3> HIDE DEF f
    <3> QED BY <1>0, <1>2, <2>2 DEF IsPrefix
  <2>3. \A k \in Nat : k \in S
    <3> HIDE DEF S
    <3> QED BY <2>1, <2>2, SetInduction
  <2> QED BY <2>3
<1>5. f = p
  <2> HIDE DEF f
  <2>1. DOMAIN f = 0..n /\ f = [k \in DOMAIN f |-> f[k]]
    BY <1>2
  <2>2. DOMAIN p = 0..n /\ p = [k \in DOMAIN p |-> p[k]]
    BY DEF IsPrefix
  <2> QED BY <1>0, <1>4, <2>1, <2>2
<1> QED BY <1>3, <1>5

LEMMA PrefixIs ==
  ASSUME NEW I, NEW o \in Seq(I), NEW size \in [I -> Nat]
  PROVE  IsPrefix(Prefix(o, size), o, size)
BY PrefixExists, PrefixUnique

\* What Prefix computes, spelled out.
LEMMA PrefixValues ==
  ASSUME NEW I, NEW o \in Seq(I), NEW size \in [I -> Nat]
  PROVE  /\ Prefix(o, size) \in [0..Len(o) -> Nat]
         /\ Prefix(o, size)[0] = 0
         /\ \A k \in 1..Len(o) : Prefix(o, size)[k] = Prefix(o, size)[k - 1] + size[o[k]]
         /\ RetainedBytes(o, size) \in Nat
<1> HIDE DEF Prefix
<1>1. IsPrefix(Prefix(o, size), o, size)
  BY PrefixIs
<1>2. Len(o) \in 0..Len(o)
  BY LenProperties
<1> QED BY <1>1, <1>2 DEF IsPrefix, RetainedBytes

\* The totals depend only on the sizes of the flows in the queue.
LEMMA PrefixCongruence ==
  ASSUME NEW I, NEW o \in Seq(I), NEW size \in [I -> Nat], NEW other \in [I -> Nat],
         \A k \in 1..Len(o) : size[o[k]] = other[o[k]]
  PROVE  /\ Prefix(o, size) = Prefix(o, other)
         /\ RetainedBytes(o, size) = RetainedBytes(o, other)
<1>1. IsPrefix(Prefix(o, size), o, other)
  BY PrefixIs DEF IsPrefix
<1>2. Prefix(o, other) = Prefix(o, size)
  BY <1>1, PrefixUnique
<1> QED BY <1>2 DEF RetainedBytes

\* A longer run of oldest flows retains at least as many bytes.
LEMMA PrefixMonotone ==
  ASSUME NEW I, NEW o \in Seq(I), NEW size \in [I -> Nat],
         NEW j \in 0..Len(o), NEW k \in j..Len(o)
  PROVE  Prefix(o, size)[j] <= Prefix(o, size)[k]
<1> DEFINE P == Prefix(o, size)
           S == {n \in Nat : j + n <= Len(o) => P[j] <= P[j + n]}
<1>0. /\ Len(o) \in Nat
      /\ P \in [0..Len(o) -> Nat]
      /\ \A m \in 1..Len(o) : P[m] = P[m - 1] + size[o[m]]
      /\ \A m \in 1..Len(o) : size[o[m]] \in Nat
  <2> HIDE DEF P
  <2>1. P \in [0..Len(o) -> Nat] /\ \A m \in 1..Len(o) : P[m] = P[m - 1] + size[o[m]]
    BY PrefixValues DEF P
  <2> QED BY <2>1, ElementOfSeq, LenProperties
<1> HIDE DEF P
<1>1. 0 \in S
  <2>1. j + 0 = j /\ j \in 0..Len(o)
    BY <1>0
  <2>2. P[j] \in Nat
    BY <1>0, <2>1
  <2>3. P[j] <= P[j + 0]
    BY <2>1, <2>2
  <2> QED BY <2>3
<1>2. ASSUME NEW n \in Nat, n \in S PROVE n + 1 \in S
  <2>1. SUFFICES ASSUME j + (n + 1) <= Len(o) PROVE P[j] <= P[j + (n + 1)]
    OBVIOUS
  <2>2. P[j] <= P[j + n]
    BY <1>0, <1>2, <2>1
  <2>3. P[j + (n + 1)] = P[j + n] + size[o[j + (n + 1)]]
    BY <1>0, <2>1
  <2>4. j + n \in 0..Len(o) /\ j \in 0..Len(o) /\ j + (n + 1) \in 1..Len(o)
    BY <1>0, <2>1
  <2>5. P[j + n] \in Nat /\ P[j] \in Nat /\ size[o[j + (n + 1)]] \in Nat
    BY <1>0, <2>4
  <2> QED BY <2>2, <2>3, <2>5
<1>3. \A n \in Nat : n \in S
  <2> HIDE DEF S
  <2> QED BY <1>1, <1>2, SetInduction
<1>4. k - j \in Nat /\ j + (k - j) = k /\ k <= Len(o)
  BY <1>0
<1>5. k - j \in S
  BY <1>3, <1>4
<1>6. P[j] <= P[k]
  BY <1>4, <1>5
<1> QED BY <1>6 DEF P

-----------------------------------------------------------------------------
\* Popping the k oldest flows leaves the others, in order, and takes exactly
\* their bytes off the total.
LEMMA NewestProperties ==
  ASSUME NEW I, NEW o \in Seq(I), NEW k \in 0..Len(o)
  PROVE  /\ Newest(o, k) \in Seq(I)
         /\ Len(Newest(o, k)) = Len(o) - k
         /\ \A j \in 1..(Len(o) - k) : Newest(o, k)[j] = o[j + k]
<1>1. Len(o) \in Nat /\ \A j \in 1..Len(o) : o[j] \in I
  BY LenProperties, ElementOfSeq
<1>2. \A j \in (k + 1)..Len(o) : o[j] \in I
  BY <1>1
<1>3. /\ SubSeq(o, k + 1, Len(o)) \in Seq(I)
      /\ Len(SubSeq(o, k + 1, Len(o))) = IF k + 1 <= Len(o) THEN Len(o) - (k + 1) + 1 ELSE 0
      /\ \A j \in 1..(Len(o) - (k + 1) + 1) : SubSeq(o, k + 1, Len(o))[j] = o[k + 1 + j - 1]
  BY <1>1, <1>2, SubSeqProperties
<1> QED BY <1>1, <1>3 DEF Newest

LEMMA RetainedNewest ==
  ASSUME NEW I, NEW o \in Seq(I), NEW size \in [I -> Nat], NEW k \in 0..Len(o)
  PROVE  RetainedBytes(Newest(o, k), size) = RetainedBytes(o, size) - Prefix(o, size)[k]
<1> DEFINE P == Prefix(o, size)
           t == Newest(o, k)
           q == [j \in 0..Len(t) |-> P[j + k] - P[k]]
<1>1. /\ Len(o) \in Nat
      /\ P \in [0..Len(o) -> Nat]
      /\ \A m \in 1..Len(o) : P[m] = P[m - 1] + size[o[m]]
  BY PrefixValues, LenProperties
<1>2. /\ t \in Seq(I) /\ Len(t) = Len(o) - k /\ Len(t) \in Nat
      /\ \A j \in 1..Len(t) : t[j] = o[j + k]
  BY <1>1, NewestProperties
<1>3. \A j \in 0..Len(t) : P[k] <= P[j + k]
  <2> SUFFICES ASSUME NEW j \in 0..Len(t) PROVE P[k] <= P[j + k]
    OBVIOUS
  <2> HIDE DEF t
  <2>1. j + k \in k..Len(o)
    BY <1>1, <1>2
  <2> QED BY <2>1, PrefixMonotone
<1> HIDE DEF P, t
<1>4. q \in [0..Len(t) -> Nat]
  <2>1. \A j \in 0..Len(t) : P[j + k] - P[k] \in Nat
    <3> SUFFICES ASSUME NEW j \in 0..Len(t) PROVE P[j + k] - P[k] \in Nat
      OBVIOUS
    <3>1. j + k \in 0..Len(o) /\ k \in 0..Len(o)
      BY <1>1, <1>2
    <3>2. P[j + k] \in Nat /\ P[k] \in Nat
      BY <1>1, <3>1
    <3> QED BY <1>3, <3>2
  <2> QED BY <2>1
<1>5. q[0] = 0
  BY <1>1, <1>2
<1>6. \A j \in 1..Len(t) : q[j] = q[j - 1] + size[t[j]]
  <2> SUFFICES ASSUME NEW j \in 1..Len(t) PROVE q[j] = q[j - 1] + size[t[j]]
    OBVIOUS
  <2>1. P[j + k] = P[j + k - 1] + size[o[j + k]]
    BY <1>1, <1>2
  <2>2. q[j] = P[j + k] - P[k] /\ q[j - 1] = P[j - 1 + k] - P[k]
    BY <1>2
  <2>3. /\ j + k \in 1..Len(o) /\ j - 1 + k = j + k - 1
        /\ j + k - 1 \in 0..Len(o) /\ k \in 0..Len(o)
    BY <1>1, <1>2
  <2>4. P[j + k - 1] \in Nat /\ P[k] \in Nat /\ size[o[j + k]] \in Nat
    BY <1>1, <2>3, ElementOfSeq
  <2>5. t[j] = o[j + k]
    BY <1>2
  <2> HIDE DEF q
  <2> QED BY <2>1, <2>2, <2>3, <2>4, <2>5
<1>7. Prefix(t, size) = q
  <2> HIDE DEF q
  <2>1. IsPrefix(q, t, size)
    BY <1>4, <1>5, <1>6 DEF IsPrefix
  <2> QED BY <1>2, <2>1, PrefixUnique
<1>8. RetainedBytes(t, size) = P[Len(o)] - P[k]
  BY <1>1, <1>2, <1>7 DEF RetainedBytes
<1> QED BY <1>8 DEF RetainedBytes, P, t

-----------------------------------------------------------------------------
\* Appending a flow adds its bytes.
LEMMA RetainedAppend ==
  ASSUME NEW I, NEW o \in Seq(I), NEW size \in [I -> Nat], NEW i \in I
  PROVE  /\ Append(o, i) \in Seq(I)
         /\ Len(Append(o, i)) = Len(o) + 1
         /\ RetainedBytes(Append(o, i), size) = RetainedBytes(o, size) + size[i]
<1> DEFINE P == Prefix(o, size)
           t == Append(o, i)
           q == [j \in 0..(Len(o) + 1) |-> IF j <= Len(o) THEN P[j] ELSE P[Len(o)] + size[i]]
<1>1. /\ Len(o) \in Nat
      /\ P \in [0..Len(o) -> Nat]
      /\ P[0] = 0
      /\ \A m \in 1..Len(o) : P[m] = P[m - 1] + size[o[m]]
  BY PrefixValues, LenProperties
<1>2. /\ t \in Seq(I) /\ Len(t) = Len(o) + 1
      /\ \A j \in 1..Len(o) : t[j] = o[j]
      /\ t[Len(o) + 1] = i
  BY AppendProperties
<1> HIDE DEF P, t
<1>3. P[Len(o)] \in Nat /\ size[i] \in Nat
  BY <1>1
<1>4. q \in [0..Len(t) -> Nat]
  BY <1>1, <1>2, <1>3
<1>5. q[0] = 0
  BY <1>1
<1>6. \A j \in 1..Len(t) : q[j] = q[j - 1] + size[t[j]]
  <2> SUFFICES ASSUME NEW j \in 1..Len(t) PROVE q[j] = q[j - 1] + size[t[j]]
    OBVIOUS
  <2>1. CASE j <= Len(o)
    <3>1. q[j] = P[j] /\ q[j - 1] = P[j - 1] /\ t[j] = o[j] /\ j \in 1..Len(o)
      BY <1>1, <1>2, <2>1
    <3> HIDE DEF q
    <3> QED BY <1>1, <3>1
  <2>2. CASE j = Len(o) + 1
    <3>1. q[j] = P[Len(o)] + size[i] /\ q[j - 1] = P[Len(o)] /\ t[j] = i
      BY <1>1, <1>2, <2>2
    <3> HIDE DEF q
    <3> QED BY <3>1
  <2> QED BY <1>1, <1>2, <2>1, <2>2
<1>7. Prefix(t, size) = q
  <2> HIDE DEF q
  <2>1. IsPrefix(q, t, size)
    BY <1>4, <1>5, <1>6 DEF IsPrefix
  <2> QED BY <1>2, <2>1, PrefixUnique
<1>8. q[Len(o) + 1] = P[Len(o)] + size[i]
  BY <1>1
<1>9. RetainedBytes(t, size) = P[Len(o)] + size[i]
  <2> HIDE DEF q
  <2> QED BY <1>2, <1>7, <1>8 DEF RetainedBytes
<1> QED BY <1>2, <1>9 DEF RetainedBytes, P, t

\* A flow that is queued once can change its size, and the total follows.
LEMMA RetainedChange ==
  ASSUME NEW I, NEW o \in Seq(I), NEW size \in [I -> Nat], NEW b \in Nat,
         NEW n \in 1..Len(o),
         \A j \in 1..Len(o) : o[j] = o[n] => j = n
  PROVE  /\ size[o[n]] <= RetainedBytes(o, size)
         /\ RetainedBytes(o, [size EXCEPT ![o[n]] = b])
              = RetainedBytes(o, size) - size[o[n]] + b
<1> DEFINE P == Prefix(o, size)
           i == o[n]
           other == [size EXCEPT ![i] = b]
           q == [j \in 0..Len(o) |-> IF j < n THEN P[j] ELSE P[j] - size[i] + b]
<1>1. /\ Len(o) \in Nat
      /\ P \in [0..Len(o) -> Nat]
      /\ P[0] = 0
      /\ \A m \in 1..Len(o) : P[m] = P[m - 1] + size[o[m]]
  BY PrefixValues, LenProperties
<1>2. i \in I /\ size[i] \in Nat /\ \A j \in 1..Len(o) : o[j] \in I
  BY ElementOfSeq
<1>3. /\ other \in [I -> Nat] /\ other[i] = b
      /\ \A j \in 1..Len(o) : j # n => other[o[j]] = size[o[j]]
  BY <1>2
<1>4. \A j \in 0..Len(o) : n <= j => size[i] <= P[j]
  <2> SUFFICES ASSUME NEW j \in 0..Len(o), n <= j PROVE size[i] <= P[j]
    OBVIOUS
  <2>1. P[n] <= P[j]
    <3>1. n \in 0..Len(o) /\ j \in n..Len(o)
      BY <1>1
    <3> QED BY <3>1, PrefixMonotone
  <2> HIDE DEF P
  <2>2. P[n] = P[n - 1] + size[i]
    BY <1>1
  <2>3. n - 1 \in 0..Len(o) /\ n \in 0..Len(o)
    BY <1>1
  <2>4. P[n - 1] \in Nat /\ P[n] \in Nat /\ P[j] \in Nat
    BY <1>1, <2>3
  <2> HIDE DEF i
  <2> QED BY <1>2, <2>1, <2>2, <2>4
<1> HIDE DEF P, other
<1>5. \A j \in 0..Len(o) : n <= j => P[j] - size[i] + b \in Nat
  <2> SUFFICES ASSUME NEW j \in 0..Len(o), n <= j PROVE P[j] - size[i] + b \in Nat
    OBVIOUS
  <2> HIDE DEF i, q
  <2>1. P[j] \in Nat /\ size[i] <= P[j]
    BY <1>1, <1>4
  <2> QED BY <1>2, <2>1
<1>6. q \in [0..Len(o) -> Nat]
  <2> HIDE DEF i
  <2> QED BY <1>1, <1>5
<1>7. q[0] = 0
  BY <1>1
<1>8. \A j \in 1..Len(o) : q[j] = q[j - 1] + other[o[j]]
  <2> SUFFICES ASSUME NEW j \in 1..Len(o) PROVE q[j] = q[j - 1] + other[o[j]]
    OBVIOUS
  <2>1. j \in 0..Len(o) /\ j - 1 \in 0..Len(o)
    BY <1>1
  <2>2. P[j] = P[j - 1] + size[o[j]] /\ P[j - 1] \in Nat /\ size[o[j]] \in Nat
    BY <1>1, <1>2, <2>1
  <2>3. CASE j < n
    <3>1. q[j] = P[j] /\ q[j - 1] = P[j - 1]
      BY <2>1, <2>3
    <3>2. other[o[j]] = size[o[j]]
      BY <1>3, <2>3
    <3> HIDE DEF q, i
    <3> QED BY <2>2, <3>1, <3>2
  <2>4. CASE j = n
    <3>1. q[j] = P[j] - size[i] + b /\ q[j - 1] = P[j - 1]
      BY <2>1, <2>4
    <3>2. other[o[j]] = b /\ size[o[j]] = size[i]
      BY <1>3, <2>4
    <3> HIDE DEF q, i
    <3> QED BY <1>2, <2>2, <3>1, <3>2
  <2>5. CASE j > n
    <3>1. q[j] = P[j] - size[i] + b /\ q[j - 1] = P[j - 1] - size[i] + b
      BY <2>1, <2>5
    <3>2. other[o[j]] = size[o[j]]
      BY <1>3, <2>5
    <3> HIDE DEF q, i
    <3> QED BY <1>2, <2>2, <3>1, <3>2
  <2> QED BY <2>3, <2>4, <2>5
<1>9. Prefix(o, other) = q
  <2> HIDE DEF q
  <2>1. IsPrefix(q, o, other)
    BY <1>6, <1>7, <1>8 DEF IsPrefix
  <2> QED BY <1>3, <2>1, PrefixUnique
<1>10. Len(o) \in 0..Len(o) /\ n <= Len(o)
  BY <1>1
<1>11. q[Len(o)] = P[Len(o)] - size[i] + b
  BY <1>10
<1>12. size[i] <= P[Len(o)]
  BY <1>4, <1>10
<1>13. RetainedBytes(o, other) = P[Len(o)] - size[i] + b
  <2> HIDE DEF q
  <2> QED BY <1>9, <1>11 DEF RetainedBytes
<1> QED BY <1>12, <1>13 DEF RetainedBytes, P, i, other

\* Taking out a flow that is queued once leaves the others, in order...
LEMMA WithoutProperties ==
  ASSUME NEW I, NEW o \in Seq(I), NEW n \in 1..Len(o),
         \A j \in 1..Len(o) : o[j] = o[n] => j = n
  PROVE  /\ Without(o, o[n]) \in Seq(I)
         /\ Len(Without(o, o[n])) = Len(o) - 1
         /\ \A j \in 1..(Len(o) - 1) :
              Without(o, o[n])[j] = IF j < n THEN o[j] ELSE o[j + 1]
<1> DEFINE a == SubSeq(o, 1, n - 1)
           c == SubSeq(o, n + 1, Len(o))
<1>1. Len(o) \in Nat /\ \A j \in 1..Len(o) : o[j] \in I
  BY LenProperties, ElementOfSeq
<1>2. Without(o, o[n]) = a \o c
  <2>1. (CHOOSE j \in 1..Len(o) : o[j] = o[n]) = n
    OBVIOUS
  <2> QED BY <2>1 DEF Without
<1>3. a \in Seq(I) /\ Len(a) = n - 1 /\ \A j \in 1..(n - 1) : a[j] = o[j]
  <2>1. \A j \in 1..(n - 1) : o[j] \in I
    BY <1>1
  <2>2. /\ a \in Seq(I)
        /\ Len(a) = IF 1 <= n - 1 THEN (n - 1) - 1 + 1 ELSE 0
        /\ \A j \in 1..((n - 1) - 1 + 1) : a[j] = o[1 + j - 1]
    BY <1>1, <2>1, SubSeqProperties
  <2> HIDE DEF a
  <2> QED BY <2>2
<1>4. /\ c \in Seq(I) /\ Len(c) = Len(o) - n
      /\ \A j \in 1..(Len(o) - n) : c[j] = o[n + j]
  <2>1. n \in 0..Len(o) /\ c = Newest(o, n)
    BY <1>1 DEF Newest
  <2>2. /\ c \in Seq(I) /\ Len(c) = Len(o) - n
        /\ \A j \in 1..(Len(o) - n) : c[j] = o[j + n]
    BY <2>1, NewestProperties
  <2> HIDE DEF c, a
  <2>3. \A j \in 1..(Len(o) - n) : j + n = n + j
    BY <1>1
  <2> QED BY <2>2, <2>3
<1> HIDE DEF a, c
<1>5. /\ a \o c \in Seq(I)
      /\ Len(a \o c) = Len(a) + Len(c)
      /\ \A j \in 1..(Len(a) + Len(c)) : (a \o c)[j] = IF j <= Len(a) THEN a[j] ELSE c[j - Len(a)]
  BY <1>3, <1>4, ConcatProperties
<1>6. Len(a) + Len(c) = Len(o) - 1
  BY <1>1, <1>3, <1>4
<1>7. ASSUME NEW j \in 1..(Len(o) - 1)
      PROVE  (a \o c)[j] = IF j < n THEN o[j] ELSE o[j + 1]
  <2>1. CASE j < n
    BY <1>1, <1>3, <1>5, <1>6, <2>1
  <2>2. CASE ~ (j < n)
    <3>1. j - (n - 1) \in 1..(Len(o) - n) /\ n + (j - (n - 1)) = j + 1
      BY <1>1, <2>2
    <3>2. (a \o c)[j] = c[j - (n - 1)]
      BY <1>1, <1>3, <1>5, <1>6, <2>2
    <3>3. c[j - (n - 1)] = o[j + 1]
      BY <1>4, <3>1
    <3> QED BY <2>2, <3>2, <3>3
  <2> QED BY <2>1, <2>2
<1> QED BY <1>2, <1>5, <1>6, <1>7

\* ... and takes its bytes off the total.
LEMMA RetainedWithout ==
  ASSUME NEW I, NEW o \in Seq(I), NEW size \in [I -> Nat], NEW n \in 1..Len(o),
         \A j \in 1..Len(o) : o[j] = o[n] => j = n
  PROVE  RetainedBytes(Without(o, o[n]), size) = RetainedBytes(o, size) - size[o[n]]
<1> DEFINE P == Prefix(o, size)
           i == o[n]
           t == Without(o, i)
           q == [j \in 0..(Len(o) - 1) |-> IF j < n THEN P[j] ELSE P[j + 1] - size[i]]
<1>1. /\ Len(o) \in Nat
      /\ P \in [0..Len(o) -> Nat]
      /\ P[0] = 0
      /\ \A m \in 1..Len(o) : P[m] = P[m - 1] + size[o[m]]
      /\ \A m \in 1..Len(o) : size[o[m]] \in Nat
  <2>1. \A m \in 1..Len(o) : size[o[m]] \in Nat
    BY ElementOfSeq
  <2> QED BY <2>1, PrefixValues, LenProperties
<1>2. /\ t \in Seq(I) /\ Len(t) = Len(o) - 1
      /\ \A j \in 1..(Len(o) - 1) : t[j] = IF j < n THEN o[j] ELSE o[j + 1]
  BY WithoutProperties
<1>3. size[i] \in Nat
  BY <1>1
<1>4. \A j \in 0..(Len(o) - 1) : n <= j => size[i] <= P[j + 1]
  <2> SUFFICES ASSUME NEW j \in 0..(Len(o) - 1), n <= j PROVE size[i] <= P[j + 1]
    OBVIOUS
  <2>1. n \in 0..Len(o) /\ j + 1 \in n..Len(o) /\ n - 1 \in 0..Len(o) /\ j + 1 \in 0..Len(o)
    BY <1>1
  <2>2. P[n] <= P[j + 1]
    BY <2>1, PrefixMonotone
  <2> HIDE DEF P, q, t
  <2>3. P[n] = P[n - 1] + size[i] /\ P[n - 1] \in Nat /\ P[n] \in Nat /\ P[j + 1] \in Nat
    BY <1>1, <2>1
  <2> HIDE DEF i
  <2> QED BY <1>3, <2>2, <2>3
<1> HIDE DEF P, t
<1>5. q \in [0..Len(t) -> Nat]
  <2>1. \A j \in 0..(Len(o) - 1) : q[j] \in Nat
    <3> SUFFICES ASSUME NEW j \in 0..(Len(o) - 1) PROVE q[j] \in Nat
      OBVIOUS
    <3>0. j \in 0..Len(o) /\ j + 1 \in 0..Len(o)
      BY <1>1
    <3>1. P[j] \in Nat /\ P[j + 1] \in Nat
      BY <1>1, <3>0
    <3>2. q[j] = IF j < n THEN P[j] ELSE P[j + 1] - size[i]
      OBVIOUS
    <3> HIDE DEF q, i
    <3> QED BY <1>3, <1>4, <3>1, <3>2
  <2>2. 0..Len(t) = 0..(Len(o) - 1)
    BY <1>2
  <2> QED BY <2>1, <2>2
<1>6. q[0] = 0
  BY <1>1
<1>7. \A j \in 1..Len(t) : q[j] = q[j - 1] + size[t[j]]
  <2> SUFFICES ASSUME NEW j \in 1..(Len(o) - 1) PROVE q[j] = q[j - 1] + size[t[j]]
    BY <1>2
  <2>1. /\ j \in 1..Len(o) /\ j + 1 \in 1..Len(o) /\ j - 1 \in 0..Len(o)
        /\ j - 1 \in 0..(Len(o) - 1) /\ j \in 0..(Len(o) - 1) /\ (j - 1) + 1 = j
        /\ (j + 1) - 1 = j
    BY <1>1
  <2>2. P[j] = P[j - 1] + size[o[j]] /\ P[j + 1] = P[j] + size[o[j + 1]]
    BY <1>1, <2>1
  <2>3. P[j - 1] \in Nat /\ size[o[j]] \in Nat /\ size[o[j + 1]] \in Nat
    BY <1>1, <2>1
  <2>4. CASE j < n
    <3>1. q[j] = P[j] /\ q[j - 1] = P[j - 1] /\ t[j] = o[j]
      BY <1>2, <2>1, <2>4
    <3> HIDE DEF q, i
    <3> QED BY <2>2, <3>1
  <2>5. CASE j = n
    <3>1. q[j] = P[j + 1] - size[i] /\ q[j - 1] = P[j - 1] /\ t[j] = o[j + 1] /\ size[o[j]] = size[i]
      BY <1>2, <2>1, <2>5
    <3> HIDE DEF q, i
    <3> QED BY <1>3, <2>2, <2>3, <3>1
  <2>6. CASE j > n
    <3>1. q[j] = P[j + 1] - size[i] /\ q[j - 1] = P[j] - size[i] /\ t[j] = o[j + 1]
      BY <1>2, <2>1, <2>6
    <3> HIDE DEF q, i
    <3> QED BY <1>3, <2>2, <2>3, <3>1
  <2> QED BY <2>4, <2>5, <2>6
<1>8. Prefix(t, size) = q
  <2> HIDE DEF q
  <2>1. IsPrefix(q, t, size)
    BY <1>5, <1>6, <1>7 DEF IsPrefix
  <2> QED BY <1>2, <2>1, PrefixUnique
<1>9. q[Len(o) - 1] = P[Len(o)] - size[i]
  <2>1. CASE Len(o) - 1 < n
    <3>1. Len(o) = n /\ Len(o) - 1 \in 0..(Len(o) - 1) /\ Len(o) - 1 \in 0..Len(o)
      BY <1>1, <2>1
    <3>2. q[Len(o) - 1] = P[Len(o) - 1] /\ P[Len(o)] = P[Len(o) - 1] + size[i]
      BY <1>1, <3>1
    <3>3. P[Len(o) - 1] \in Nat
      BY <1>1, <3>1
    <3> HIDE DEF q, i
    <3> QED BY <1>3, <3>2, <3>3
  <2>2. CASE ~ (Len(o) - 1 < n)
    BY <1>1, <2>2
  <2> QED BY <2>1, <2>2
<1>10. RetainedBytes(t, size) = P[Len(o)] - size[i]
  <2> HIDE DEF q
  <2> QED BY <1>2, <1>8, <1>9 DEF RetainedBytes
<1> QED BY <1>10 DEF RetainedBytes, P, i, t

-----------------------------------------------------------------------------
\* evict_if_needed stops at a count that settles the limits, or at the end.
LEMMA PoppedProperties ==
  ASSUME NEW o, Len(o) \in Nat, NEW size, NEW total, NEW cap, NEW max
  PROVE  LET k == Popped(o, size, total, cap, max)
         IN  k \in 0..Len(o) /\ (k = Len(o) \/ Settled(o, size, total, cap, max, k))
<1> DEFINE S == {k \in 0..Len(o) : k = Len(o) \/ Settled(o, size, total, cap, max, k)}
<1>1. S \subseteq Nat /\ S # {}
  BY DEF Settled
<1>2. \E x \in S : \A y \in S : x <= y
  <2> HIDE DEF S
  <2> QED BY <1>1, LeastNat
<1>3. Min(S) \in S
  <2> HIDE DEF S
  <2> QED BY <1>2 DEF Min
<1> QED BY <1>3 DEF Popped

\* While the counter is exact its saturation never bites, and the counter the
\* loop leaves is exact again, for the flows that are left.
LEMMA LeftAfterExact ==
  ASSUME NEW I, NEW o \in Seq(I), NEW size \in [I -> Nat], NEW k \in 0..Len(o)
  PROVE  LeftAfter(o, size, RetainedBytes(o, size), k) = RetainedBytes(Newest(o, k), size)
<1> DEFINE P == Prefix(o, size)
<1>1. Len(o) \in Nat /\ P \in [0..Len(o) -> Nat]
  BY PrefixValues, LenProperties
<1>2. Len(o) \in k..Len(o) /\ Len(o) \in 0..Len(o)
  BY <1>1
<1>3. P[k] <= P[Len(o)]
  BY <1>2, PrefixMonotone
<1>4. RetainedBytes(o, size) = P[Len(o)]
  BY DEF RetainedBytes
<1>5. RetainedBytes(Newest(o, k), size) = P[Len(o)] - P[k]
  BY <1>4, RetainedNewest
<1> HIDE DEF P
<1> QED BY <1>3, <1>4, <1>5 DEF LeftAfter, SaturatingSub, P
=============================================================================
