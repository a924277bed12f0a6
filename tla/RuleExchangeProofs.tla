-------------------------- MODULE RuleExchangeProofs --------------------------
(***************************************************************************)
(* Proofs about RuleExchange: whatever the rules are, whether a body was   *)
(* read or streamed past them cannot be told from what they did, an        *)
(* exchange that is not marked as modified is the original, a request      *)
(* claims the origin it is to claim, and a JSON patch stays where its path *)
(* leads.                                                                  *)
(*                                                                         *)
(* What one action of a rule does is proved by going through the types of  *)
(* actions; what a rule, and then all rules, do follows by induction over  *)
(* the turns of their loops.  An outcome of the request phase is a record  *)
(* with RequestFields, one of the response phase has ResponseFields.  The  *)
(* invariant IInv says that the outcomes that were recorded are what the   *)
(* rules make of the request and the response as they are, ClaimInv what   *)
(* Host the request that is sent has.  What is found in a document is      *)
(* followed down the paths, segment by segment.                            *)
(***************************************************************************)
EXTENDS RuleExchange, FiniteSetTheorems, SequenceTheorems, TLAPS

Ring == INSTANCE FlowRingProofs  \* for induction over naturals

-----------------------------------------------------------------------------
\* What a rule has in store for a state s of either phase: s is a record, and
\* so is what every action makes of it, with the same fields.
IsRecord(s) == s = [x \in DOMAIN s |-> s[x]]

Fields == {"headers", "body", "matched", "modified", "blocked", "mocked", "needsBody",
           "delay", "throttle"}
RequestFields  == Fields \union {"url", "method", "resourceType"}
ResponseFields == Fields \union {"status", "request"}

IsState(s, fields) == IsRecord(s) /\ fields \subseteq DOMAIN s

\* t is s with other values of some fields.
Like(s, t) == IsRecord(t) /\ DOMAIN t = DOMAIN s

\* s with another body, and with another request.
With(s, b)    == [s EXCEPT !.body = b]
About(s, q)   == [s EXCEPT !.request = q]

\* What a step that leaves a state unmodified leaves as it was.
SameRequestIn(s, t) ==
  /\ t.method = s.method /\ t.url = s.url /\ t.headers = s.headers /\ t.body = s.body
  /\ t.blocked = s.blocked /\ t.mocked = s.mocked
SameResponseIn(s, t) ==
  t.status = s.status /\ t.headers = s.headers /\ t.body = s.body

Unchanged(s, t)      == ~ t.modified => ~ s.modified /\ SameRequestIn(s, t)
ReplyUnchanged(s, t) == ~ t.modified => ~ s.modified /\ SameResponseIn(s, t)

-----------------------------------------------------------------------------
\* Lists.
LEMMA ListOf ==
  ASSUME NEW S, NEW s \in Seq(S)
  PROVE  IsList(s) /\ Range(s) \subseteq S /\ Range(s) = {s[i] : i \in 1..Len(s)}
<1>1. Len(s) \in Nat /\ DOMAIN s = 1..Len(s) /\ \A i \in 1..Len(s) : s[i] \in S
  OBVIOUS
<1>2. Range(s) = {s[i] : i \in 1..Len(s)}
  BY <1>1 DEF Range
<1>3. s \in Seq(Range(s))
  <2> DEFINE R == Range(s)
  <2>1. \A i \in 1..Len(s) : s[i] \in R
    BY <1>2
  <2> HIDE DEF R
  <2>2. s \in [1..Len(s) -> R]
    BY <1>1, <2>1
  <2>3. s \in Seq(R)
    BY <1>1, <2>2
  <2> QED BY <2>3 DEF R
<1> QED BY <1>1, <1>2, <1>3 DEF IsList

LEMMA ListIs ==
  ASSUME NEW s, IsList(s)
  PROVE  /\ Len(s) \in Nat /\ DOMAIN s = 1..Len(s) /\ s = [i \in 1..Len(s) |-> s[i]]
         /\ Range(s) = {s[i] : i \in 1..Len(s)}
<1> DEFINE R == Range(s)
<1>1. s \in Seq(R)
  BY DEF IsList
<1> HIDE DEF R
<1>2. Len(s) \in Nat /\ DOMAIN s = 1..Len(s) /\ s = [i \in 1..Len(s) |-> s[i]]
  BY <1>1
<1>3. Range(s) = {s[i] : i \in 1..Len(s)}
  BY <1>1, ListOf
<1> QED BY <1>2, <1>3

LEMMA ListIn ==
  ASSUME NEW S, NEW s, IsList(s), Range(s) \subseteq S
  PROVE  s \in Seq(S)
<1>1. Len(s) \in Nat /\ DOMAIN s = 1..Len(s) /\ s = [i \in 1..Len(s) |-> s[i]]
  BY ListIs
<1>2. \A i \in 1..Len(s) : s[i] \in S
  BY ListIs
<1>3. s \in [1..Len(s) -> S]
  BY <1>1, <1>2
<1> QED BY <1>1, <1>3

LEMMA NilIsList == IsList(<<>>) /\ Len(<<>>) = 0
<1>1. <<>> \in Seq({})
  OBVIOUS
<1> QED BY <1>1, ListOf

LEMMA ListAppend ==
  ASSUME NEW s, IsList(s), NEW x
  PROVE  /\ IsList(Append(s, x)) /\ Len(Append(s, x)) = Len(s) + 1
         /\ Append(s, x)[Len(s) + 1] = x /\ \A i \in 1..Len(s) : Append(s, x)[i] = s[i]
<1> DEFINE S == Range(s) \union {x}
<1>1. s \in Seq(S)
  <2>1. Range(s) \subseteq S
    OBVIOUS
  <2> HIDE DEF S
  <2> QED BY <2>1, ListIn
<1>2. x \in S
  OBVIOUS
<1> HIDE DEF S
<1>3. Append(s, x) \in Seq(S)
  BY <1>1, <1>2
<1>4. IsList(Append(s, x))
  BY <1>3, ListOf
<1> QED BY <1>1, <1>2, <1>4

LEMMA ListConcat ==
  ASSUME NEW s, IsList(s), NEW t, IsList(t)
  PROVE  IsList(s \o t) /\ <<>> \o s = s
<1> DEFINE S == Range(s) \union Range(t)
<1>1. s \in Seq(S) /\ t \in Seq(S)
  <2>1. Range(s) \subseteq S /\ Range(t) \subseteq S
    OBVIOUS
  <2> HIDE DEF S
  <2> QED BY <2>1, ListIn
<1> HIDE DEF S
<1>2. s \o t \in Seq(S)
  BY <1>1
<1>3. <<>> \o s = s
  BY <1>1
<1> QED BY <1>2, <1>3, ListOf

-----------------------------------------------------------------------------
\* The steps of loops over lists.
Nil         == <<>>
One(v)      == <<v>>
DropNext(list, places, before, i) == IF i \in places THEN before ELSE Append(before, list[i])
CookiesNext(headers, before, i) ==
  IF headers[i].name = "cookie" THEN before \o headers[i].value ELSE before

\* What is left of a list, element by element.
DroppedGoes(f, list, places) ==
  /\ f[0] = Nil
  /\ \A i \in 1..Len(list) : f[i] = DropNext(list, places, f[i - 1], i)
  /\ Dropped(list, places) = f[Len(list)]

LEMMA DroppedSteps ==
  ASSUME NEW list, NEW places, Len(list) \in Nat
  PROVE  \E f : DroppedGoes(f, list, places)
<1> DEFINE n == Len(list)
           F(k, f) == [i \in 0..k |-> IF i = 0 THEN Nil
                                      ELSE DropNext(list, places, f[i - 1], i)]
           S == {k \in Nat : \E f : f = F(k, f)}
           g == CHOOSE f : f = F(n, f)
<1>1. 0 \in S
  <2> DEFINE f == [i \in 0..0 |-> Nil]
  <2>1. f = F(0, f)
    OBVIOUS
  <2> QED BY <2>1
<1>2. ASSUME NEW k \in Nat, k \in S PROVE k + 1 \in S
  <2>1. PICK f : f = F(k, f)
    BY <1>2
  <2>2. /\ f[0] = Nil
        /\ \A i \in 1..k : f[i] = DropNext(list, places, f[i - 1], i)
    BY <2>1
  <2> DEFINE h == [i \in 0..(k + 1) |-> IF i <= k THEN f[i]
                                        ELSE DropNext(list, places, f[k], k + 1)]
  <2>3. /\ h[0] = f[0] /\ h[k] = f[k]
        /\ \A i \in 1..k : h[i] = f[i] /\ h[i - 1] = f[i - 1]
        /\ h[k + 1] = DropNext(list, places, f[k], (k + 1))
    OBVIOUS
  <2>4. h = [i \in 0..(k + 1) |-> h[i]]
    OBVIOUS
  <2> HIDE DEF h
  <2>5. ASSUME NEW i \in 0..(k + 1) PROVE h[i] = F(k + 1, h)[i]
    <3>1. CASE i = 0
      BY <2>2, <2>3, <3>1
    <3>2. CASE i \in 1..k
      BY <2>2, <2>3, <3>2
    <3>3. CASE i = k + 1
      BY <2>3, <3>3
    <3> QED BY <3>1, <3>2, <3>3
  <2>6. h = F(k + 1, h)
    BY <2>4, <2>5
  <2> QED BY <2>6
<1>3. n \in S
  <2> HIDE DEF S
  <2> QED BY <1>1, <1>2, Ring!SetInduction
<1>4. g = F(n, g)
  BY <1>3
<1>5. Dropped(list, places) = g[n]
  BY DEF Dropped, DropNext, Nil
<1> HIDE DEF g
<1>6. /\ g[0] = Nil
      /\ \A i \in 1..n : g[i] = DropNext(list, places, g[i - 1], i)
  BY <1>4
<1> QED BY <1>5, <1>6 DEF DroppedGoes

\* The cookies, header by header.
CookiesGoes(f, headers) ==
  /\ f[0] = Nil
  /\ \A i \in 1..Len(headers) : f[i] = CookiesNext(headers, f[i - 1], i)
  /\ Cookies(headers) = f[Len(headers)]

LEMMA CookiesSteps ==
  ASSUME NEW headers, Len(headers) \in Nat
  PROVE  \E f : CookiesGoes(f, headers)
<1> DEFINE n == Len(headers)
           F(k, f) == [i \in 0..k |-> IF i = 0 THEN Nil
                                      ELSE CookiesNext(headers, f[i - 1], i)]
           S == {k \in Nat : \E f : f = F(k, f)}
           g == CHOOSE f : f = F(n, f)
<1>1. 0 \in S
  <2> DEFINE f == [i \in 0..0 |-> Nil]
  <2>1. f = F(0, f)
    OBVIOUS
  <2> QED BY <2>1
<1>2. ASSUME NEW k \in Nat, k \in S PROVE k + 1 \in S
  <2>1. PICK f : f = F(k, f)
    BY <1>2
  <2>2. /\ f[0] = Nil
        /\ \A i \in 1..k : f[i] = CookiesNext(headers, f[i - 1], i)
    BY <2>1
  <2> DEFINE h == [i \in 0..(k + 1) |-> IF i <= k THEN f[i]
                                        ELSE CookiesNext(headers, f[k], k + 1)]
  <2>3. /\ h[0] = f[0] /\ h[k] = f[k]
        /\ \A i \in 1..k : h[i] = f[i] /\ h[i - 1] = f[i - 1]
        /\ h[k + 1] = CookiesNext(headers, f[k], (k + 1))
    OBVIOUS
  <2>4. h = [i \in 0..(k + 1) |-> h[i]]
    OBVIOUS
  <2> HIDE DEF h
  <2>5. ASSUME NEW i \in 0..(k + 1) PROVE h[i] = F(k + 1, h)[i]
    <3>1. CASE i = 0
      BY <2>2, <2>3, <3>1
    <3>2. CASE i \in 1..k
      BY <2>2, <2>3, <3>2
    <3>3. CASE i = k + 1
      BY <2>3, <3>3
    <3> QED BY <3>1, <3>2, <3>3
  <2>6. h = F(k + 1, h)
    BY <2>4, <2>5
  <2> QED BY <2>6
<1>3. n \in S
  <2> HIDE DEF S
  <2> QED BY <1>1, <1>2, Ring!SetInduction
<1>4. g = F(n, g)
  BY <1>3
<1>5. Cookies(headers) = g[n]
  BY DEF Cookies, CookiesNext, Nil
<1> HIDE DEF g
<1>6. /\ g[0] = Nil
      /\ \A i \in 1..n : g[i] = CookiesNext(headers, g[i - 1], i)
  BY <1>4
<1> QED BY <1>5, <1>6 DEF CookiesGoes

-----------------------------------------------------------------------------
\* Headers: the first Host and the cookies, as a header is added.
FirstHost(h, n) ==
  {h[i].value : i \in {j \in 1..n : /\ h[j].name = "host"
                                    /\ \A k \in 1..n : h[k].name = "host" => j <= k}}

LEMMA HostOfIs ==
  ASSUME NEW h, IsList(h)
  PROVE  HostOf(h) = FirstHost(h, Len(h))
<1>1. DOMAIN h = 1..Len(h)
  BY ListIs
<1>2. \A j : /\ j \in Hosts(h) /\ (\A k \in Hosts(h) : j <= k)
             <=> /\ j \in 1..Len(h) /\ h[j].name = "host"
                 /\ \A k \in 1..Len(h) : h[k].name = "host" => j <= k
  BY <1>1 DEF Hosts
<1>3. {j \in Hosts(h) : \A k \in Hosts(h) : j <= k}
        = {j \in 1..Len(h) : /\ h[j].name = "host"
                             /\ \A k \in 1..Len(h) : h[k].name = "host" => j <= k}
  BY <1>2
<1> QED BY <1>3 DEF HostOf, FirstHost

LEMMA FirstHostFound ==
  ASSUME NEW h, NEW n \in Nat, NEW i \in 1..n, h[i].name = "host",
         \A k \in 1..n : h[k].name = "host" => i <= k
  PROVE  FirstHost(h, n) = {h[i].value}
<1> DEFINE I == {j \in 1..n : h[j].name = "host" /\ \A k \in 1..n : h[k].name = "host" => j <= k}
<1>1. \A j \in I : j = i
  OBVIOUS
<1>2. I = {i}
  BY <1>1
<1>3. FirstHost(h, n) = {h[j].value : j \in I}
  BY DEF FirstHost
<1> HIDE DEF I
<1> QED BY <1>2, <1>3

LEMMA FirstHostNone ==
  ASSUME NEW h, NEW n \in Nat, \A k \in 1..n : h[k].name # "host"
  PROVE  FirstHost(h, n) = {}
BY DEF FirstHost

LEMMA FirstHostNext ==
  ASSUME NEW h, NEW n \in Nat
  PROVE  FirstHost(h, n + 1) = IF FirstHost(h, n) # {} THEN FirstHost(h, n)
                               ELSE IF h[n + 1].name = "host" THEN {h[n + 1].value} ELSE {}
<1> DEFINE T == {k \in 1..n : h[k].name = "host"}
<1>1. CASE T # {}
  <2>1. PICK i \in T : \A k \in T : i <= k
    <3>1. T \subseteq Nat
      OBVIOUS
    <3> HIDE DEF T
    <3> QED BY <1>1, <3>1, Ring!LeastNat
  <2>2. i \in 1..n /\ h[i].name = "host" /\ \A k \in 1..n : h[k].name = "host" => i <= k
    BY <2>1
  <2>3. FirstHost(h, n) = {h[i].value}
    BY <2>2, FirstHostFound
  <2>4. n + 1 \in Nat /\ i \in 1..(n + 1) /\ \A k \in 1..(n + 1) : h[k].name = "host" => i <= k
    BY <2>2
  <2>5. FirstHost(h, n + 1) = {h[i].value}
    BY <2>2, <2>4, FirstHostFound
  <2> QED BY <2>3, <2>5
<1>2. CASE T = {}
  <2>1. \A k \in 1..n : h[k].name # "host"
    BY <1>2
  <2>2. FirstHost(h, n) = {}
    BY <2>1, FirstHostNone
  <2>3. CASE h[n + 1].name = "host"
    <3>1. /\ n + 1 \in Nat /\ n + 1 \in 1..(n + 1)
          /\ \A k \in 1..(n + 1) : h[k].name = "host" => n + 1 <= k
      BY <2>1
    <3>2. FirstHost(h, n + 1) = {h[n + 1].value}
      BY <2>3, <3>1, FirstHostFound
    <3> QED BY <2>2, <2>3, <3>2
  <2>4. CASE h[n + 1].name # "host"
    <3>1. n + 1 \in Nat /\ \A k \in 1..(n + 1) : h[k].name # "host"
      BY <2>1, <2>4
    <3>2. FirstHost(h, n + 1) = {}
      BY <3>1, FirstHostNone
    <3> QED BY <2>2, <2>4, <3>2
  <2> QED BY <2>3, <2>4
<1> QED BY <1>1, <1>2

\* The first Host with one more header.
LEMMA HostAppend ==
  ASSUME NEW h, IsList(h), NEW x
  PROVE  HostOf(Append(h, x)) = IF HostOf(h) # {} THEN HostOf(h)
                                ELSE IF x.name = "host" THEN {x.value} ELSE {}
<1> DEFINE n == Len(h)
           a == Append(h, x)
<1>1. n \in Nat /\ IsList(a) /\ Len(a) = n + 1 /\ a[n + 1] = x /\ \A i \in 1..n : a[i] = h[i]
  BY ListIs, ListAppend
<1> HIDE DEF n, a
<1>2. FirstHost(a, n) = FirstHost(h, n)
  <2>1. {j \in 1..n : a[j].name = "host" /\ \A k \in 1..n : a[k].name = "host" => j <= k}
          = {j \in 1..n : h[j].name = "host" /\ \A k \in 1..n : h[k].name = "host" => j <= k}
    BY <1>1
  <2> QED BY <1>1, <2>1 DEF FirstHost
<1>3. HostOf(h) = FirstHost(h, n) /\ HostOf(a) = FirstHost(a, n + 1)
  BY <1>1, HostOfIs DEF n
<1>4. FirstHost(a, n + 1) = IF FirstHost(a, n) # {} THEN FirstHost(a, n)
                            ELSE IF a[n + 1].name = "host" THEN {a[n + 1].value} ELSE {}
  BY <1>1, FirstHostNext
<1>5. HostOf(a) = IF HostOf(h) # {} THEN HostOf(h) ELSE IF x.name = "host" THEN {x.value} ELSE {}
  BY <1>1, <1>2, <1>3, <1>4
<1> QED BY <1>5 DEF a

LEMMA HostOfNil == HostOf(<<>>) = {}
<1>1. Hosts(<<>>) = {}
  BY DEF Hosts
<1> QED BY <1>1 DEF HostOf

\* The cookies with one more header.
LEMMA CookiesAppend ==
  ASSUME NEW h, IsList(h), NEW x
  PROVE  Cookies(Append(h, x)) = IF x.name = "cookie" THEN Cookies(h) \o x.value ELSE Cookies(h)
<1> DEFINE n == Len(h)
           a == Append(h, x)
<1>1. n \in Nat /\ Len(a) = n + 1 /\ a[n + 1] = x /\ \A i \in 1..n : a[i] = h[i]
  BY ListIs, ListAppend
<1>2. PICK f : CookiesGoes(f, h)
  BY <1>1, CookiesSteps
<1>3. PICK g : CookiesGoes(g, a)
  BY <1>1, CookiesSteps
<1> HIDE DEF a
<1>4. f[0] = Nil /\ (\A i \in 1..n : f[i] = CookiesNext(h, f[i - 1], i)) /\ Cookies(h) = f[n]
  BY <1>2 DEF CookiesGoes
<1>5. /\ g[0] = Nil /\ (\A i \in 1..(n + 1) : g[i] = CookiesNext(a, g[i - 1], i))
      /\ Cookies(a) = g[n + 1]
  BY <1>1, <1>3 DEF CookiesGoes
<1> HIDE DEF n
<1>6. \A i \in 1..n : \A before : CookiesNext(a, before, i) = CookiesNext(h, before, i)
  BY <1>1 DEF CookiesNext
<1> DEFINE S == {i \in Nat : i <= n => g[i] = f[i]}
<1>7. 0 \in S
  BY <1>4, <1>5
<1>8. ASSUME NEW i \in Nat, i \in S PROVE i + 1 \in S
  <2> SUFFICES ASSUME i + 1 <= n PROVE g[i + 1] = f[i + 1]
    OBVIOUS
  <2>1. i + 1 \in 1..n /\ i + 1 \in 1..(n + 1) /\ (i + 1) - 1 = i /\ i <= n
    BY <1>1
  <2>2. g[i] = f[i]
    BY <1>8, <2>1
  <2>3. f[i + 1] = CookiesNext(h, f[i], i + 1) /\ g[i + 1] = CookiesNext(a, g[i], i + 1)
    BY <1>4, <1>5, <2>1
  <2> QED BY <1>6, <2>1, <2>2, <2>3
<1>9. g[n] = f[n]
  <2>1. \A i \in Nat : i \in S
    <3> HIDE DEF S
    <3> QED BY <1>7, <1>8, Ring!SetInduction
  <2> QED BY <1>1, <2>1
<1>10. n + 1 \in 1..(n + 1) /\ (n + 1) - 1 = n
  BY <1>1
<1>11. g[n + 1] = CookiesNext(a, g[n], n + 1)
  BY <1>5, <1>10
<1>12. Cookies(a) = IF x.name = "cookie" THEN Cookies(h) \o x.value ELSE Cookies(h)
  BY <1>1, <1>4, <1>5, <1>9, <1>11 DEF CookiesNext
<1> QED BY <1>12 DEF a

LEMMA CookiesOfNil == Cookies(<<>>) = <<>>
<1>1. Len(<<>>) = 0
  OBVIOUS
<1>2. PICK f : CookiesGoes(f, <<>>)
  BY <1>1, CookiesSteps
<1> QED BY <1>1, <1>2 DEF CookiesGoes, Nil

-----------------------------------------------------------------------------
\* What the operations on headers make of the first Host and of the cookies.
LEMMA HeadersAppend ==
  ASSUME NEW h, IsHeaders(h), NEW x, IsHeader(x)
  PROVE  IsHeaders(Append(h, x))
<1>1. IsList(h) /\ \A i \in 1..Len(h) : IsHeader(h[i])
  BY ListIs DEF IsHeaders
<1> DEFINE a == Append(h, x)
<1>2. IsList(a) /\ Len(a) = Len(h) + 1 /\ a[Len(h) + 1] = x /\ \A i \in 1..Len(h) : a[i] = h[i]
  BY <1>1, ListAppend
<1>3. Len(h) \in Nat
  BY <1>1, ListIs
<1> HIDE DEF a
<1>4. \A i \in 1..Len(a) : i \in 1..Len(h) \/ i = Len(h) + 1
  BY <1>2, <1>3
<1>5. \A i \in 1..Len(a) : IsHeader(a[i])
  BY <1>1, <1>2, <1>4
<1>6. Range(a) = {a[i] : i \in 1..Len(a)}
  BY <1>2, ListIs
<1>7. IsHeaders(a)
  BY <1>2, <1>5, <1>6 DEF IsHeaders
<1> QED BY <1>7 DEF a

LEMMA CookiesAreList ==
  ASSUME NEW h, IsHeaders(h)
  PROVE  IsList(Cookies(h))
<1> DEFINE n == Len(h)
<1>1. n \in Nat /\ \A i \in 1..n : IsHeader(h[i])
  BY ListIs DEF IsHeaders
<1>2. PICK f : CookiesGoes(f, h)
  BY <1>1, CookiesSteps
<1>3. f[0] = Nil /\ (\A i \in 1..n : f[i] = CookiesNext(h, f[i - 1], i)) /\ Cookies(h) = f[n]
  BY <1>2 DEF CookiesGoes
<1> HIDE DEF n
<1> DEFINE S == {i \in Nat : i <= n => IsList(f[i])}
<1>4. 0 \in S
  BY <1>3, NilIsList DEF Nil
<1>5. ASSUME NEW i \in Nat, i \in S PROVE i + 1 \in S
  <2> SUFFICES ASSUME i + 1 <= n PROVE IsList(f[i + 1])
    OBVIOUS
  <2>1. i + 1 \in 1..n /\ (i + 1) - 1 = i /\ i <= n
    BY <1>1
  <2>2. IsList(f[i]) /\ IsHeader(h[i + 1])
    BY <1>1, <1>5, <2>1
  <2>3. f[i + 1] = CookiesNext(h, f[i], i + 1)
    BY <1>3, <2>1
  <2>4. CASE h[i + 1].name = "cookie"
    <3>1. IsList(h[i + 1].value) /\ f[i + 1] = f[i] \o h[i + 1].value
      BY <2>2, <2>3, <2>4 DEF IsHeader, CookiesNext
    <3> QED BY <2>2, <3>1, ListConcat
  <2>5. CASE h[i + 1].name # "cookie"
    BY <2>2, <2>3, <2>5 DEF CookiesNext
  <2> QED BY <2>4, <2>5
<1>6. f[n] \in {f[n]} /\ IsList(f[n])
  <2>1. \A i \in Nat : i \in S
    <3> HIDE DEF S
    <3> QED BY <1>4, <1>5, Ring!SetInduction
  <2> QED BY <1>1, <2>1
<1> QED BY <1>3, <1>6

\* What is left of i headers when those with some names are dropped.
Left(w, h, i, c, names) ==
  /\ IsHeaders(w)
  /\ HostOf(w) = IF "host" \in names THEN {} ELSE FirstHost(h, i)
  /\ Cookies(w) = IF "cookie" \in names THEN <<>> ELSE c

LEMMA LeftNext ==
  ASSUME NEW h, IsHeaders(h), NEW i \in Nat, i + 1 <= Len(h), NEW names, NEW c, NEW w,
         Left(w, h, i, c, names)
  PROVE  Left(IF h[i + 1].name \in names THEN w ELSE Append(w, h[i + 1]),
              h, i + 1, CookiesNext(h, c, i + 1), names)
<1> DEFINE x == h[i + 1]
<1>1. IsHeader(x)
  <2>1. Len(h) \in Nat /\ \A j \in 1..Len(h) : IsHeader(h[j])
    BY ListIs DEF IsHeaders
  <2>2. i + 1 \in 1..Len(h)
    BY <2>1
  <2> QED BY <2>1, <2>2
<1>2. FirstHost(h, i + 1) = IF FirstHost(h, i) # {} THEN FirstHost(h, i)
                            ELSE IF x.name = "host" THEN {x.value} ELSE {}
  BY FirstHostNext
<1>3. CookiesNext(h, c, i + 1) = IF x.name = "cookie" THEN c \o x.value ELSE c
  BY DEF CookiesNext
<1>4. /\ IsHeaders(w) /\ IsList(w)
      /\ HostOf(w) = IF "host" \in names THEN {} ELSE FirstHost(h, i)
      /\ Cookies(w) = IF "cookie" \in names THEN <<>> ELSE c
  BY DEF Left, IsHeaders
<1> HIDE DEF x
<1>5. CASE x.name \in names
  <2>1. "host" \notin names => FirstHost(h, i + 1) = FirstHost(h, i)
    BY <1>2, <1>5
  <2>2. "cookie" \notin names => CookiesNext(h, c, i + 1) = c
    BY <1>3, <1>5
  <2>3. Left(w, h, i + 1, CookiesNext(h, c, i + 1), names)
    BY <1>4, <2>1, <2>2 DEF Left
  <2> QED BY <1>5, <2>3 DEF x
<1>6. CASE x.name \notin names
  <2> DEFINE a == Append(w, x)
  <2>1. IsHeaders(a)
    BY <1>1, <1>4, HeadersAppend
  <2>2. HostOf(a) = IF HostOf(w) # {} THEN HostOf(w)
                    ELSE IF x.name = "host" THEN {x.value} ELSE {}
    BY <1>4, HostAppend
  <2>3. Cookies(a) = IF x.name = "cookie" THEN Cookies(w) \o x.value ELSE Cookies(w)
    BY <1>4, CookiesAppend
  <2> HIDE DEF a
  <2>4. HostOf(a) = IF "host" \in names THEN {} ELSE FirstHost(h, i + 1)
    BY <1>2, <1>4, <1>6, <2>2
  <2>5. Cookies(a) = IF "cookie" \in names THEN <<>> ELSE CookiesNext(h, c, i + 1)
    BY <1>3, <1>4, <1>6, <2>3
  <2>6. Left(a, h, i + 1, CookiesNext(h, c, i + 1), names)
    BY <2>1, <2>4, <2>5 DEF Left
  <2> QED BY <1>6, <2>6 DEF a, x
<1> QED BY <1>5, <1>6

LEMMA WithoutOK ==
  ASSUME NEW h, IsHeaders(h), NEW names
  PROVE  LET w == WithoutHeaders(h, names) IN
         /\ IsHeaders(w)
         /\ HostOf(w) = IF "host" \in names THEN {} ELSE HostOf(h)
         /\ Cookies(w) = IF "cookie" \in names THEN <<>> ELSE Cookies(h)
<1> DEFINE n == Len(h)
           places == {i \in DOMAIN h : h[i].name \in names}
<1>1. n \in Nat /\ DOMAIN h = 1..n /\ IsList(h)
  BY ListIs DEF IsHeaders
<1>2. PICK f : DroppedGoes(f, h, places)
  BY <1>1, DroppedSteps
<1>3. PICK c : CookiesGoes(c, h)
  BY <1>1, CookiesSteps
<1>4. /\ f[0] = <<>> /\ WithoutHeaders(h, names) = f[n]
      /\ \A i \in 1..n : f[i] = DropNext(h, places, f[i - 1], i)
  BY <1>2 DEF DroppedGoes, WithoutHeaders, Nil
<1>5. /\ c[0] = <<>> /\ (\A i \in 1..n : c[i] = CookiesNext(h, c[i - 1], i)) /\ Cookies(h) = c[n]
  BY <1>3 DEF CookiesGoes, Nil
<1>6. \A i \in 1..n : \A w : DropNext(h, places, w, i)
                             = IF h[i].name \in names THEN w ELSE Append(w, h[i])
  BY <1>1 DEF DropNext
<1>7. HostOf(h) = FirstHost(h, n)
  BY <1>1, HostOfIs
<1> HIDE DEF n, places
<1> DEFINE S == {i \in Nat : i <= n => Left(f[i], h, i, c[i], names)}
<1>8. 0 \in S
  <2>1. IsHeaders(<<>>) /\ HostOf(<<>>) = {} /\ Cookies(<<>>) = <<>>
    <3>1. IsHeaders(<<>>)
      BY NilIsList, ListIs DEF IsHeaders
    <3> QED BY <3>1, HostOfNil, CookiesOfNil
  <2>2. FirstHost(h, 0) = {}
    BY FirstHostNone
  <2> QED BY <1>4, <1>5, <2>1, <2>2 DEF Left
<1>9. ASSUME NEW i \in Nat, i \in S PROVE i + 1 \in S
  <2> SUFFICES ASSUME i + 1 <= n PROVE Left(f[i + 1], h, i + 1, c[i + 1], names)
    OBVIOUS
  <2>1. i + 1 \in 1..n /\ (i + 1) - 1 = i /\ i <= n /\ i + 1 <= Len(h)
    BY <1>1 DEF n
  <2>2. Left(f[i], h, i, c[i], names)
    BY <1>9, <2>1
  <2>3. Left(IF h[i + 1].name \in names THEN f[i] ELSE Append(f[i], h[i + 1]),
             h, i + 1, CookiesNext(h, c[i], i + 1), names)
    BY <2>1, <2>2, LeftNext
  <2>4. f[i + 1] = IF h[i + 1].name \in names THEN f[i] ELSE Append(f[i], h[i + 1])
    BY <1>4, <1>6, <2>1
  <2>5. c[i + 1] = CookiesNext(h, c[i], i + 1)
    BY <1>5, <2>1
  <2> QED BY <2>3, <2>4, <2>5
<1>10. Left(f[n], h, n, c[n], names)
  <2>1. \A i \in Nat : i \in S
    <3> HIDE DEF S
    <3> QED BY <1>8, <1>9, Ring!SetInduction
  <2> QED BY <1>1, <2>1
<1> QED BY <1>4, <1>5, <1>7, <1>10 DEF Left

LEMMA SetHeaderOK ==
  ASSUME NEW h, IsHeaders(h), NEW name, NEW value, name = "cookie" => IsList(value)
  PROVE  LET w == SetHeader(h, name, value) IN
         /\ IsHeaders(w)
         /\ HostOf(w) = IF name = "host" THEN {value} ELSE HostOf(h)
         /\ Cookies(w) = IF name = "cookie" THEN value ELSE Cookies(h)
<1> DEFINE rest == WithoutHeader(h, name)
           x == [name |-> name, value |-> value]
           w == Append(rest, x)
<1>1. SetHeader(h, name, value) = w
  BY DEF SetHeader
<1>2. x.name = name /\ x.value = value
  OBVIOUS
<1>3. IsHeader(x)
  BY <1>2 DEF IsHeader
<1>4. /\ IsHeaders(rest)
      /\ HostOf(rest) = IF name = "host" THEN {} ELSE HostOf(h)
      /\ Cookies(rest) = IF name = "cookie" THEN <<>> ELSE Cookies(h)
  <2>1. rest = WithoutHeaders(h, {name})
    BY DEF WithoutHeader
  <2>2. ("host" \in {name} <=> name = "host") /\ ("cookie" \in {name} <=> name = "cookie")
    OBVIOUS
  <2> QED BY <2>1, <2>2, WithoutOK
<1> HIDE DEF rest, x
<1>5. IsHeaders(w)
  BY <1>3, <1>4, HeadersAppend
<1>6. IsList(rest)
  BY <1>4 DEF IsHeaders
<1>7. HostOf(w) = IF name = "host" THEN {value} ELSE HostOf(h)
  BY <1>2, <1>4, <1>6, HostAppend
<1>8. Cookies(w) = IF name = "cookie" THEN value ELSE Cookies(h)
  <2>1. Cookies(w) = IF name = "cookie" THEN Cookies(rest) \o value ELSE Cookies(rest)
    BY <1>2, <1>6, CookiesAppend
  <2>2. CASE name = "cookie"
    <3>1. <<>> \o value = value
      BY <2>2, ListConcat
    <3> QED BY <1>4, <2>1, <2>2, <3>1
  <2>3. CASE name # "cookie"
    BY <1>4, <2>1, <2>3
  <2> QED BY <2>2, <2>3
<1> HIDE DEF w
<1> QED BY <1>1, <1>5, <1>7, <1>8

-----------------------------------------------------------------------------
\* How a request is framed.
LEMMA HostOfOne ==
  ASSUME NEW h, IsHeaders(h)
  PROVE  HostOf(h) = {} \/ \E v : HostOf(h) = {v}
<1> DEFINE n == Len(h)
           T == {k \in 1..n : h[k].name = "host"}
<1>1. n \in Nat /\ HostOf(h) = FirstHost(h, n)
  BY ListIs, HostOfIs DEF IsHeaders
<1>2. CASE T = {}
  <2>1. \A k \in 1..n : h[k].name # "host"
    BY <1>2
  <2> HIDE DEF n, T
  <2> QED BY <1>1, <2>1, FirstHostNone
<1>3. CASE T # {}
  <2>1. PICK i \in T : \A k \in T : i <= k
    <3>1. T \subseteq Nat
      OBVIOUS
    <3> HIDE DEF T
    <3> QED BY <1>3, <3>1, Ring!LeastNat
  <2>2. i \in 1..n /\ h[i].name = "host" /\ \A k \in 1..n : h[k].name = "host" => i <= k
    BY <2>1
  <2> HIDE DEF n, T
  <2>3. FirstHost(h, n) = {h[i].value}
    BY <1>1, <2>2, FirstHostFound
  <2> QED BY <1>1, <2>3
<1> QED BY <1>2, <1>3

\* A request that HTTP/2 carries has its Host as authority.
LEMMA AlignedOK ==
  ASSUME NEW msg, IsHeaders(msg.headers),
         msg = [version |-> msg.version, authority |-> msg.authority, headers |-> msg.headers,
                form |-> msg.form]
  PROVE  LET w == Aligned(msg) IN
         /\ w = [version |-> msg.version, authority |-> w.authority, headers |-> w.headers,
                 form |-> msg.form]
         /\ IsHeaders(w.headers) /\ HostOf(w.headers) = {}
         /\ Cookies(w.headers) = Cookies(msg.headers)
         /\ {w.authority} = IF HostOf(msg.headers) = {} THEN {msg.authority} ELSE HostOf(msg.headers)
<1> DEFINE H == HostOf(msg.headers)
           a == IF H = {} THEN msg.authority ELSE CHOOSE h \in H : TRUE
           rest == WithoutHeader(msg.headers, "host")
<1>1. Aligned(msg) = [version |-> msg.version, authority |-> a, headers |-> rest, form |-> msg.form]
  <2>1. Aligned(msg) = [msg EXCEPT !.headers = rest, !.authority = a]
    BY Zenon DEF Aligned
  <2> HIDE DEF a, rest
  <2> QED BY <2>1
<1>2. IsHeaders(rest) /\ HostOf(rest) = {} /\ Cookies(rest) = Cookies(msg.headers)
  <2>1. rest = WithoutHeaders(msg.headers, {"host"})
    BY DEF WithoutHeader
  <2>2. "host" \in {"host"} /\ "cookie" \notin {"host"}
    OBVIOUS
  <2> QED BY <2>1, <2>2, WithoutOK
<1>3. {a} = IF H = {} THEN {msg.authority} ELSE H
  <2>1. H = {} \/ \E v : H = {v}
    BY HostOfOne
  <2> HIDE DEF H
  <2> QED BY <2>1
<1> HIDE DEF a, rest
<1> QED BY <1>1, <1>2, <1>3

LEMMA JoinedOK ==
  ASSUME NEW h, IsHeaders(h)
  PROVE  LET w == JoinCookies(h) IN
         IsHeaders(w) /\ HostOf(w) = HostOf(h) /\ Cookies(w) = Cookies(h)
<1>1. CASE Cookies(h) = <<>>
  BY <1>1 DEF JoinCookies
<1>2. CASE Cookies(h) # <<>>
  <2>1. JoinCookies(h) = SetHeader(h, "cookie", Cookies(h))
    BY <1>2 DEF JoinCookies
  <2>2. IsList(Cookies(h)) /\ "cookie" # "host"
    BY CookiesAreList
  <2> QED BY <2>1, <2>2, SetHeaderOK
<1> QED BY <1>1, <1>2

LEMMA WithHostOK ==
  ASSUME NEW h, IsHeaders(h), NEW host
  PROVE  LET w == WithHost(h, host) IN
         IsHeaders(w) /\ HostOf(w) = {host} /\ Cookies(w) = Cookies(h)
<1>1. "host" # "cookie"
  OBVIOUS
<1> QED BY <1>1, SetHeaderOK DEF WithHost

\* What is told of the origin, and where the message goes.
Framed(w, version, url, headers, via) ==
  /\ Told(w) = IF version = "h1" \/ HostOf(headers) # {} THEN HostOf(headers) ELSE {url.host}
  /\ Cookies(w.headers) = Cookies(headers)
  /\ Destination(w, url, via)
       \in IF version = "h2" /\ Proxied(url, via) THEN Told(w) ELSE {url.host}

LEMMA Framing ==
  ASSUME NEW version \in {"h1", "h2"}, NEW url, NEW headers, IsHeaders(headers), NEW via,
         NEW v \in Negotiable(version, url)
  PROVE  Framed(Adapted(BuildOutbound(version, url, headers, via), v, via, url),
                version, url, headers, via)
<1> DEFINE form == IF via \/ version = "h2" THEN "absolute" ELSE "origin"
           msg == [version |-> version, authority |-> url.host, headers |-> headers, form |-> form]
           out == BuildOutbound(version, url, headers, via)
           w == Adapted(out, v, via, url)
<1>1. CASE version = "h1"
  <2>1. out = msg /\ v = "h1"
    BY <1>1 DEF BuildOutbound, Negotiable
  <2>2. w = msg
    BY <1>1, <2>1 DEF Adapted
  <2>3. w.version = "h1" /\ w.headers = headers /\ w.authority = url.host
    BY <1>1, <2>2
  <2>4. Told(w) = HostOf(headers) /\ Destination(w, url, via) = url.host
    BY <2>3 DEF Told, Destination
  <2> QED BY <1>1, <2>3, <2>4 DEF Framed
<1>2. CASE version = "h2"
  <2>1. out = Aligned(msg)
    BY <1>2 DEF BuildOutbound
  <2>2. /\ msg = [version |-> msg.version, authority |-> msg.authority, headers |-> msg.headers,
                  form |-> msg.form]
        /\ msg.version = "h2" /\ msg.authority = url.host /\ msg.headers = headers
    BY <1>2
  <2> HIDE DEF msg, out
  <2>3. /\ out = [version |-> "h2", authority |-> out.authority, headers |-> out.headers,
                  form |-> msg.form]
        /\ IsHeaders(out.headers) /\ HostOf(out.headers) = {}
        /\ Cookies(out.headers) = Cookies(headers)
        /\ {out.authority} = IF HostOf(headers) = {} THEN {url.host} ELSE HostOf(headers)
    BY <2>1, <2>2, AlignedOK
  <2>4. v \in {"h1", "h2"} /\ (v = "h2" => url.scheme = "https")
    BY DEF Negotiable
  <2>5. CASE v = "h2"
    <3>1. w = out
      BY <2>3, <2>5 DEF Adapted
    <3>2. w.version = "h2"
      BY <2>3, <3>1
    <3>3. Told(w) = {out.authority}
      BY <3>1, <3>2 DEF Told
    <3>4. ~ Proxied(url, via)
      BY <2>4, <2>5 DEF Proxied
    <3>5. Destination(w, url, via) = url.host
      BY <3>4 DEF Destination
    <3> HIDE DEF w
    <3>6. Framed(w, version, url, headers, via)
      BY <1>2, <2>3, <3>1, <3>3, <3>4, <3>5 DEF Framed
    <3> QED BY <3>6 DEF w, out
  <2>6. CASE v = "h1"
    <3> DEFINE joined == JoinCookies(out.headers)
               h == WithHost(joined, out.authority)
    <3>1. IsHeaders(joined) /\ HostOf(joined) = {} /\ Cookies(joined) = Cookies(headers)
      BY <2>3, JoinedOK
    <3>2. HostOf(h) = {out.authority} /\ Cookies(h) = Cookies(headers)
      BY <3>1, WithHostOK
    <3>3. EnsureHost(joined, out.authority) = h
      BY <3>1 DEF EnsureHost
    <3>4. out.version = "h2"
      BY <2>3
    <3>5. w = [out EXCEPT !.version = "h1", !.form = IF via THEN @ ELSE "origin",
                          !.headers = EnsureHost(JoinCookies(@), AuthorityOf(out, url))]
      BY <2>6, <3>4 DEF Adapted
    <3>6. w = [version |-> "h1", authority |-> out.authority, headers |-> h,
               form |-> IF via THEN out.form ELSE "origin"]
      BY <2>3, <3>3, <3>5 DEF AuthorityOf
    <3> HIDE DEF h, w
    <3>7. w.version = "h1" /\ w.headers = h /\ w.authority = out.authority
      BY <3>6
    <3>8. Told(w) = {out.authority}
      BY <3>2, <3>7 DEF Told
    <3>9. Destination(w, url, via) = IF Proxied(url, via) THEN out.authority ELSE url.host
      BY <3>7 DEF Destination
    <3>10. Destination(w, url, via) \in IF version = "h2" /\ Proxied(url, via) THEN Told(w) ELSE {url.host}
      BY <1>2, <3>8, <3>9
    <3>11. Framed(w, version, url, headers, via)
      BY <1>2, <2>3, <3>2, <3>7, <3>8, <3>10 DEF Framed
    <3> QED BY <3>11 DEF w, out
  <2> QED BY <2>4, <2>5, <2>6
<1> QED BY <1>1, <1>2

-----------------------------------------------------------------------------
\* What an action of the request phase makes of a state.
LEMMA RequestActionOK ==
  ASSUME NEW s, IsState(s, RequestFields), NEW c, NEW a
  PROVE  LET t == RequestAction(c, s, a) IN
         Like(s, t) /\ t.resourceType = s.resourceType /\ Unchanged(s, t)
<1>1. RequestFields \subseteq DOMAIN s /\ IsRecord(s)
  BY DEF IsState
<1>2. CASE a.type = "redirect"
  BY <1>1, <1>2 DEF RequestAction, GoTo, Changed, Like, IsRecord, Unchanged, SameRequestIn, RequestFields, Fields
<1>3. CASE a.type = "rewriteUrl"
  BY <1>1, <1>3 DEF RequestAction, GoTo, Changed, Like, IsRecord, Unchanged, SameRequestIn, RequestFields, Fields
<1>4. CASE a.type = "setQueryParam"
  BY <1>1, <1>4 DEF RequestAction, Changed, Like, IsRecord, Unchanged, SameRequestIn, RequestFields, Fields
<1>5. CASE a.type = "removeQueryParam"
  BY <1>1, <1>5 DEF RequestAction, ParamRemoved, Changed, Like, IsRecord, Unchanged, SameRequestIn, RequestFields, Fields
<1>6. CASE a.type = "setRequestHeader"
  BY <1>1, <1>6 DEF RequestAction, WithHeader, Changed, Like, IsRecord, Unchanged, SameRequestIn, RequestFields, Fields
<1>7. CASE a.type = "removeRequestHeader"
  BY <1>1, <1>7 DEF RequestAction, DropHeader, Changed, Like, IsRecord, Unchanged, SameRequestIn, RequestFields, Fields
<1>8. CASE a.type = "setRequestBody"
  BY <1>1, <1>8 DEF RequestAction, NewBody, WithBody, WithHeader, Changed, Like, IsRecord, Unchanged, SameRequestIn, RequestFields, Fields
<1>9. CASE a.type = "replaceInRequestBody"
  BY <1>1, <1>9 DEF RequestAction, ReplaceBody, WithBody, Changed, Like, IsRecord, Unchanged, SameRequestIn, RequestFields, Fields
<1>10. CASE a.type = "jsonPatchRequest"
  BY <1>1, <1>10 DEF RequestAction, PatchBody, WithBody, Changed, Like, IsRecord, Unchanged, SameRequestIn, RequestFields, Fields
<1>11. CASE a.type = "mockResponse"
  BY <1>1, <1>11 DEF RequestAction, Changed, Like, IsRecord, Unchanged, SameRequestIn, RequestFields, Fields
<1>12. CASE a.type = "setMethod"
  BY <1>1, <1>12 DEF RequestAction, Changed, Like, IsRecord, Unchanged, SameRequestIn, RequestFields, Fields
<1>13. CASE a.type = "block"
  BY <1>1, <1>13 DEF RequestAction, Changed, Like, IsRecord, Unchanged, SameRequestIn, RequestFields, Fields
<1>14. CASE a.type \notin {"redirect", "rewriteUrl", "setQueryParam", "removeQueryParam", "setRequestHeader", "removeRequestHeader", "setRequestBody", "replaceInRequestBody", "jsonPatchRequest", "mockResponse", "setMethod", "block"}
  BY <1>1, <1>14 DEF RequestAction, Paced, Like, IsRecord, Unchanged, SameRequestIn, RequestFields, Fields
<1> QED BY <1>2, <1>3, <1>4, <1>5, <1>6, <1>7, <1>8, <1>9, <1>10, <1>11, <1>12, <1>13, <1>14

\* An action that is not about the body does the same whatever the body is.
LEMMA RequestActionIgnoresBody ==
  ASSUME NEW s, IsState(s, RequestFields), NEW c, NEW a, a.type \notin RequestBodyActions, NEW b
  PROVE  RequestAction(c, With(s, b), a) = With(RequestAction(c, s, a), b)
<1>1. RequestFields \subseteq DOMAIN s /\ IsRecord(s)
  BY DEF IsState
<1>2. CASE a.type = "redirect"
  BY <1>1, <1>2 DEF RequestAction, GoTo, Changed, With, IsRecord, RequestFields, Fields
<1>3. CASE a.type = "rewriteUrl"
  BY <1>1, <1>3 DEF RequestAction, GoTo, Changed, With, IsRecord, RequestFields, Fields
<1>4. CASE a.type = "setQueryParam"
  BY <1>1, <1>4 DEF RequestAction, Changed, With, IsRecord, RequestFields, Fields
<1>5. CASE a.type = "removeQueryParam"
  BY <1>1, <1>5 DEF RequestAction, ParamRemoved, Changed, With, IsRecord, RequestFields, Fields
<1>6. CASE a.type = "setRequestHeader"
  BY <1>1, <1>6 DEF RequestAction, WithHeader, Changed, With, IsRecord, RequestFields, Fields
<1>7. CASE a.type = "removeRequestHeader"
  BY <1>1, <1>7 DEF RequestAction, DropHeader, Changed, With, IsRecord, RequestFields, Fields
<1>8. CASE a.type = "mockResponse"
  BY <1>1, <1>8 DEF RequestAction, Changed, With, IsRecord, RequestFields, Fields
<1>9. CASE a.type = "setMethod"
  BY <1>1, <1>9 DEF RequestAction, Changed, With, IsRecord, RequestFields, Fields
<1>10. CASE a.type = "block"
  BY <1>1, <1>10 DEF RequestAction, Changed, With, IsRecord, RequestFields, Fields
<1>11. CASE a.type \notin {"redirect", "rewriteUrl", "setQueryParam", "removeQueryParam", "setRequestHeader", "removeRequestHeader", "setRequestBody", "replaceInRequestBody", "jsonPatchRequest", "mockResponse", "setMethod", "block"}
  BY <1>1, <1>11 DEF RequestAction, Paced, With, IsRecord, RequestFields, Fields
<1> QED BY <1>2, <1>3, <1>4, <1>5, <1>6, <1>7, <1>8, <1>9, <1>10, <1>11 DEF RequestBodyActions

\* Delays stay within their range.
LEMMA PacedDelay ==
  ASSUME NEW s, IsState(s, Fields), s.delay \in 0..MaxDelay, NEW a, a.type = "delay" => a.ms \in Nat
  PROVE  Paced(s, a).delay \in 0..MaxDelay
<1>1. Fields \subseteq DOMAIN s /\ IsRecord(s)
  BY DEF IsState
<1>2. CASE a.type = "delay"
  BY <1>1, <1>2, DelayAssumption DEF Paced, Saturated, Smaller, IsRecord, Fields
<1>3. CASE a.type = "throttle"
  BY <1>1, <1>3 DEF Paced, IsRecord, Fields
<1>4. CASE a.type \notin {"delay", "throttle"}
  BY <1>4 DEF Paced
<1> QED BY <1>2, <1>3, <1>4

LEMMA RequestActionDelay ==
  ASSUME NEW s, IsState(s, RequestFields), s.delay \in 0..MaxDelay, NEW c, NEW a,
         a.type = "delay" => a.ms \in Nat
  PROVE  RequestAction(c, s, a).delay \in 0..MaxDelay
<1>1. RequestFields \subseteq DOMAIN s /\ IsRecord(s)
  BY DEF IsState
<1>2. CASE a.type = "redirect"
  BY <1>1, <1>2 DEF RequestAction, GoTo, Changed, IsRecord, RequestFields, Fields
<1>3. CASE a.type = "rewriteUrl"
  BY <1>1, <1>3 DEF RequestAction, GoTo, Changed, IsRecord, RequestFields, Fields
<1>4. CASE a.type = "setQueryParam"
  BY <1>1, <1>4 DEF RequestAction, Changed, IsRecord, RequestFields, Fields
<1>5. CASE a.type = "removeQueryParam"
  BY <1>1, <1>5 DEF RequestAction, ParamRemoved, Changed, IsRecord, RequestFields, Fields
<1>6. CASE a.type = "setRequestHeader"
  BY <1>1, <1>6 DEF RequestAction, WithHeader, Changed, IsRecord, RequestFields, Fields
<1>7. CASE a.type = "removeRequestHeader"
  BY <1>1, <1>7 DEF RequestAction, DropHeader, Changed, IsRecord, RequestFields, Fields
<1>8. CASE a.type = "setRequestBody"
  BY <1>1, <1>8 DEF RequestAction, NewBody, WithBody, WithHeader, Changed, IsRecord, RequestFields, Fields
<1>9. CASE a.type = "replaceInRequestBody"
  BY <1>1, <1>9 DEF RequestAction, ReplaceBody, WithBody, Changed, IsRecord, RequestFields, Fields
<1>10. CASE a.type = "jsonPatchRequest"
  BY <1>1, <1>10 DEF RequestAction, PatchBody, WithBody, Changed, IsRecord, RequestFields, Fields
<1>11. CASE a.type = "mockResponse"
  BY <1>1, <1>11 DEF RequestAction, Changed, IsRecord, RequestFields, Fields
<1>12. CASE a.type = "setMethod"
  BY <1>1, <1>12 DEF RequestAction, Changed, IsRecord, RequestFields, Fields
<1>13. CASE a.type = "block"
  BY <1>1, <1>13 DEF RequestAction, Changed, IsRecord, RequestFields, Fields
<1>14. CASE a.type \notin {"redirect", "rewriteUrl", "setQueryParam", "removeQueryParam", "setRequestHeader", "removeRequestHeader", "setRequestBody", "replaceInRequestBody", "jsonPatchRequest", "mockResponse", "setMethod", "block"}
  <2>1. IsState(s, Fields)
    BY <1>1 DEF IsState, RequestFields
  <2>2. RequestAction(c, s, a) = Paced(s, a)
    BY <1>14 DEF RequestAction
  <2> QED BY <2>1, <2>2, PacedDelay
<1> QED BY <1>2, <1>3, <1>4, <1>5, <1>6, <1>7, <1>8, <1>9, <1>10, <1>11, <1>12, <1>13, <1>14

\* Headers stay headers.
LEMMA RequestActionHeaders ==
  ASSUME NEW s, IsState(s, RequestFields), IsHeaders(s.headers), NEW c, NEW a, ActionAssumption(a)
  PROVE  IsHeaders(RequestAction(c, s, a).headers)
<1>1. RequestFields \subseteq DOMAIN s /\ IsRecord(s)
  BY DEF IsState
<1>2. CASE a.type = "redirect"
  BY <1>1, <1>2 DEF RequestAction, GoTo, Changed, IsRecord, RequestFields, Fields
<1>3. CASE a.type = "rewriteUrl"
  BY <1>1, <1>3 DEF RequestAction, GoTo, Changed, IsRecord, RequestFields, Fields
<1>4. CASE a.type = "setQueryParam"
  BY <1>1, <1>4 DEF RequestAction, Changed, IsRecord, RequestFields, Fields
<1>5. CASE a.type = "removeQueryParam"
  BY <1>1, <1>5 DEF RequestAction, ParamRemoved, Changed, IsRecord, RequestFields, Fields
<1>6. CASE a.type = "setRequestHeader"
  <2>1. RequestAction(c, s, a).headers = SetHeader(s.headers, a.name, a.value)
    BY <1>1, <1>6 DEF RequestAction, WithHeader, Changed, IsRecord, RequestFields, Fields
  <2>2. a.name = "cookie" => IsList(a.value)
    BY <1>6 DEF ActionAssumption, IsHeader
  <2>3. IsHeaders(SetHeader(s.headers, a.name, a.value))
    BY <2>2, SetHeaderOK
  <2> QED BY <2>1, <2>3
<1>7. CASE a.type = "removeRequestHeader"
  <2> DEFINE rest == WithoutHeader(s.headers, a.name)
  <2>1. IsHeaders(rest)
    BY WithoutOK DEF WithoutHeader
  <2>2. DropHeader(s, a.name) = IF rest = s.headers THEN s ELSE Changed([s EXCEPT !.headers = rest])
    BY DEF DropHeader
  <2>3. RequestAction(c, s, a) = DropHeader(s, a.name)
    BY <1>7 DEF RequestAction
  <2> HIDE DEF rest
  <2>4. RequestAction(c, s, a).headers = rest \/ RequestAction(c, s, a) = s
    BY <1>1, <2>2, <2>3 DEF Changed, IsRecord, RequestFields, Fields
  <2> QED BY <2>1, <2>4
<1>8. CASE a.type = "setRequestBody"
  <2> DEFINE t == WithBody(s, a.body)
  <2>1. IsRecord(t) /\ DOMAIN t = DOMAIN s /\ t.headers = s.headers
    BY <1>1 DEF WithBody, Changed, IsRecord, RequestFields, Fields
  <2>2. RequestAction(c, s, a) = IF a.contentType = "" THEN t
                                 ELSE WithHeader(t, "content-type", a.contentType)
    BY <1>8 DEF RequestAction, NewBody
  <2> HIDE DEF t
  <2>3. WithHeader(t, "content-type", a.contentType).headers
          = SetHeader(t.headers, "content-type", a.contentType)
    BY <1>1, <2>1 DEF WithHeader, Changed, IsRecord, RequestFields, Fields
  <2>4. IsHeaders(SetHeader(t.headers, "content-type", a.contentType))
    <3>1. IsHeaders(t.headers) /\ "content-type" # "cookie"
      BY <2>1
    <3> QED BY <3>1, SetHeaderOK
  <2> QED BY <2>1, <2>2, <2>3, <2>4
<1>9. CASE a.type = "replaceInRequestBody"
  BY <1>1, <1>9 DEF RequestAction, ReplaceBody, WithBody, Changed, IsRecord, RequestFields, Fields
<1>10. CASE a.type = "jsonPatchRequest"
  BY <1>1, <1>10 DEF RequestAction, PatchBody, WithBody, Changed, IsRecord, RequestFields, Fields
<1>11. CASE a.type = "mockResponse"
  BY <1>1, <1>11 DEF RequestAction, Changed, IsRecord, RequestFields, Fields
<1>12. CASE a.type = "setMethod"
  BY <1>1, <1>12 DEF RequestAction, Changed, IsRecord, RequestFields, Fields
<1>13. CASE a.type = "block"
  BY <1>1, <1>13 DEF RequestAction, Changed, IsRecord, RequestFields, Fields
<1>14. CASE a.type \notin {"redirect", "rewriteUrl", "setQueryParam", "removeQueryParam", "setRequestHeader", "removeRequestHeader", "setRequestBody", "replaceInRequestBody", "jsonPatchRequest", "mockResponse", "setMethod", "block"}
  <2>1. RequestAction(c, s, a) = Paced(s, a)
    BY <1>14 DEF RequestAction
  <2>2. Paced(s, a).headers = s.headers
    BY <1>1 DEF Paced, IsRecord, RequestFields, Fields
  <2> QED BY <2>1, <2>2
<1> QED BY <1>2, <1>3, <1>4, <1>5, <1>6, <1>7, <1>8, <1>9, <1>10, <1>11, <1>12, <1>13, <1>14

-----------------------------------------------------------------------------
\* What an action of the response phase makes of a state.
LEMMA ResponseActionOK ==
  ASSUME NEW s, IsState(s, ResponseFields), NEW a
  PROVE  LET t == ResponseAction(s, a) IN
         Like(s, t) /\ t.request = s.request /\ ReplyUnchanged(s, t)
<1>1. ResponseFields \subseteq DOMAIN s /\ IsRecord(s)
  BY DEF IsState
<1>2. CASE a.type = "setResponseHeader"
  BY <1>1, <1>2 DEF ResponseAction, WithHeader, Changed, Like, IsRecord, ReplyUnchanged, SameResponseIn, ResponseFields, Fields
<1>3. CASE a.type = "removeResponseHeader"
  BY <1>1, <1>3 DEF ResponseAction, DropHeader, Changed, Like, IsRecord, ReplyUnchanged, SameResponseIn, ResponseFields, Fields
<1>4. CASE a.type = "setResponseBody"
  BY <1>1, <1>4 DEF ResponseAction, NewBody, WithBody, WithHeader, Changed, Like, IsRecord, ReplyUnchanged, SameResponseIn, ResponseFields, Fields
<1>5. CASE a.type = "replaceInResponseBody"
  BY <1>1, <1>5 DEF ResponseAction, ReplaceBody, WithBody, Changed, Like, IsRecord, ReplyUnchanged, SameResponseIn, ResponseFields, Fields
<1>6. CASE a.type = "jsonPatchResponse"
  BY <1>1, <1>6 DEF ResponseAction, PatchBody, WithBody, Changed, Like, IsRecord, ReplyUnchanged, SameResponseIn, ResponseFields, Fields
<1>7. CASE a.type = "setStatus"
  BY <1>1, <1>7 DEF ResponseAction, Changed, Like, IsRecord, ReplyUnchanged, SameResponseIn, ResponseFields, Fields
<1>8. CASE a.type = "block"
  BY <1>1, <1>8 DEF ResponseAction, Changed, Like, IsRecord, ReplyUnchanged, SameResponseIn, ResponseFields, Fields
<1>9. CASE a.type \notin {"setResponseHeader", "removeResponseHeader", "setResponseBody", "replaceInResponseBody", "jsonPatchResponse", "setStatus", "block"}
  BY <1>1, <1>9 DEF ResponseAction, Paced, Like, IsRecord, ReplyUnchanged, SameResponseIn, ResponseFields, Fields
<1> QED BY <1>2, <1>3, <1>4, <1>5, <1>6, <1>7, <1>8, <1>9

\* An action that is not about the body does the same whatever the body is.
LEMMA ResponseActionIgnoresBody ==
  ASSUME NEW s, IsState(s, ResponseFields), NEW a, a.type \notin ResponseBodyActions, NEW b
  PROVE  ResponseAction(With(s, b), a) = With(ResponseAction(s, a), b)
<1>1. ResponseFields \subseteq DOMAIN s /\ IsRecord(s)
  BY DEF IsState
<1>2. CASE a.type = "setResponseHeader"
  BY <1>1, <1>2 DEF ResponseAction, WithHeader, Changed, With, IsRecord, ResponseFields, Fields
<1>3. CASE a.type = "removeResponseHeader"
  BY <1>1, <1>3 DEF ResponseAction, DropHeader, Changed, With, IsRecord, ResponseFields, Fields
<1>4. CASE a.type = "setStatus"
  BY <1>1, <1>4 DEF ResponseAction, Changed, With, IsRecord, ResponseFields, Fields
<1>5. CASE a.type = "block"
  BY <1>1, <1>5 DEF ResponseAction, Changed, With, IsRecord, ResponseFields, Fields
<1>6. CASE a.type \notin {"setResponseHeader", "removeResponseHeader", "setResponseBody", "replaceInResponseBody", "jsonPatchResponse", "setStatus", "block"}
  BY <1>1, <1>6 DEF ResponseAction, Paced, With, IsRecord, ResponseFields, Fields
<1> QED BY <1>2, <1>3, <1>4, <1>5, <1>6 DEF ResponseBodyActions

\* No action of the response phase looks at the request.
LEMMA ResponseActionIgnoresRequest ==
  ASSUME NEW s, IsState(s, ResponseFields), NEW a, NEW q
  PROVE  ResponseAction(About(s, q), a) = About(ResponseAction(s, a), q)
<1>1. ResponseFields \subseteq DOMAIN s /\ IsRecord(s)
  BY DEF IsState
<1>2. CASE a.type = "setResponseHeader"
  BY <1>1, <1>2 DEF ResponseAction, WithHeader, Changed, About, IsRecord, ResponseFields, Fields
<1>3. CASE a.type = "removeResponseHeader"
  BY <1>1, <1>3 DEF ResponseAction, DropHeader, Changed, About, IsRecord, ResponseFields, Fields
<1>4. CASE a.type = "setResponseBody"
  BY <1>1, <1>4 DEF ResponseAction, NewBody, WithBody, WithHeader, Changed, About, IsRecord, ResponseFields, Fields
<1>5. CASE a.type = "replaceInResponseBody"
  BY <1>1, <1>5 DEF ResponseAction, ReplaceBody, WithBody, Changed, About, IsRecord, ResponseFields, Fields
<1>6. CASE a.type = "jsonPatchResponse"
  BY <1>1, <1>6 DEF ResponseAction, PatchBody, WithBody, Changed, About, IsRecord, ResponseFields, Fields
<1>7. CASE a.type = "setStatus"
  BY <1>1, <1>7 DEF ResponseAction, Changed, About, IsRecord, ResponseFields, Fields
<1>8. CASE a.type = "block"
  BY <1>1, <1>8 DEF ResponseAction, Changed, About, IsRecord, ResponseFields, Fields
<1>9. CASE a.type \notin {"setResponseHeader", "removeResponseHeader", "setResponseBody", "replaceInResponseBody", "jsonPatchResponse", "setStatus", "block"}
  BY <1>1, <1>9 DEF ResponseAction, Paced, About, IsRecord, ResponseFields, Fields
<1> QED BY <1>2, <1>3, <1>4, <1>5, <1>6, <1>7, <1>8, <1>9

LEMMA ResponseActionDelay ==
  ASSUME NEW s, IsState(s, ResponseFields), s.delay \in 0..MaxDelay, NEW a,
         a.type = "delay" => a.ms \in Nat
  PROVE  ResponseAction(s, a).delay \in 0..MaxDelay
<1>1. ResponseFields \subseteq DOMAIN s /\ IsRecord(s)
  BY DEF IsState
<1>2. CASE a.type = "setResponseHeader"
  BY <1>1, <1>2 DEF ResponseAction, WithHeader, Changed, IsRecord, ResponseFields, Fields
<1>3. CASE a.type = "removeResponseHeader"
  BY <1>1, <1>3 DEF ResponseAction, DropHeader, Changed, IsRecord, ResponseFields, Fields
<1>4. CASE a.type = "setResponseBody"
  BY <1>1, <1>4 DEF ResponseAction, NewBody, WithBody, WithHeader, Changed, IsRecord, ResponseFields, Fields
<1>5. CASE a.type = "replaceInResponseBody"
  BY <1>1, <1>5 DEF ResponseAction, ReplaceBody, WithBody, Changed, IsRecord, ResponseFields, Fields
<1>6. CASE a.type = "jsonPatchResponse"
  BY <1>1, <1>6 DEF ResponseAction, PatchBody, WithBody, Changed, IsRecord, ResponseFields, Fields
<1>7. CASE a.type = "setStatus"
  BY <1>1, <1>7 DEF ResponseAction, Changed, IsRecord, ResponseFields, Fields
<1>8. CASE a.type = "block"
  BY <1>1, <1>8 DEF ResponseAction, Changed, IsRecord, ResponseFields, Fields
<1>9. CASE a.type \notin {"setResponseHeader", "removeResponseHeader", "setResponseBody", "replaceInResponseBody", "jsonPatchResponse", "setStatus", "block"}
  <2>1. IsState(s, Fields)
    BY <1>1 DEF IsState, ResponseFields
  <2>2. ResponseAction(s, a) = Paced(s, a)
    BY <1>9 DEF ResponseAction
  <2> QED BY <2>1, <2>2, PacedDelay
<1> QED BY <1>2, <1>3, <1>4, <1>5, <1>6, <1>7, <1>8, <1>9

-----------------------------------------------------------------------------
\* The loops, step by step.
\* Over the actions of a rule.
RequestActionsGoes(f, r, s) ==
  /\ f[0] = Match(s, r)
  /\ \A i \in 1..Len(r.actions) : f[i] = RequestAction(Captured(r, s.url), f[i - 1], r.actions[i])
  /\ RequestActions(r, s) = f[Len(r.actions)]

LEMMA RequestActionsSteps ==
  ASSUME NEW r, NEW s, Len(r.actions) \in Nat
  PROVE  \E f : RequestActionsGoes(f, r, s)
<1> DEFINE n == Len(r.actions)
           F(k, f) == [i \in 0..k |-> IF i = 0 THEN Match(s, r)
                                      ELSE RequestAction(Captured(r, s.url), f[i - 1], r.actions[i])]
           S == {k \in Nat : \E f : f = F(k, f)}
           g == CHOOSE f : f = F(n, f)
<1>1. 0 \in S
  <2> DEFINE f == [i \in 0..0 |-> Match(s, r)]
  <2>1. f = F(0, f)
    OBVIOUS
  <2> QED BY <2>1
<1>2. ASSUME NEW k \in Nat, k \in S PROVE k + 1 \in S
  <2>1. PICK f : f = F(k, f)
    BY <1>2
  <2>2. /\ f[0] = Match(s, r)
        /\ \A i \in 1..k : f[i] = RequestAction(Captured(r, s.url), f[i - 1], r.actions[i])
    BY <2>1
  <2> DEFINE h == [i \in 0..(k + 1) |-> IF i <= k THEN f[i]
                                        ELSE RequestAction(Captured(r, s.url), f[k], r.actions[k + 1])]
  <2>3. /\ h[0] = f[0] /\ h[k] = f[k]
        /\ \A i \in 1..k : h[i] = f[i] /\ h[i - 1] = f[i - 1]
        /\ h[k + 1] = RequestAction(Captured(r, s.url), f[k], r.actions[(k + 1)])
    OBVIOUS
  <2>4. h = [i \in 0..(k + 1) |-> h[i]]
    OBVIOUS
  <2> HIDE DEF h
  <2>5. ASSUME NEW i \in 0..(k + 1) PROVE h[i] = F(k + 1, h)[i]
    <3>1. CASE i = 0
      BY <2>2, <2>3, <3>1
    <3>2. CASE i \in 1..k
      BY <2>2, <2>3, <3>2
    <3>3. CASE i = k + 1
      BY <2>3, <3>3
    <3> QED BY <3>1, <3>2, <3>3
  <2>6. h = F(k + 1, h)
    BY <2>4, <2>5
  <2> QED BY <2>6
<1>3. n \in S
  <2> HIDE DEF S
  <2> QED BY <1>1, <1>2, Ring!SetInduction
<1>4. g = F(n, g)
  BY <1>3
<1>5. RequestActions(r, s) = g[n]
  BY DEF RequestActions
<1> HIDE DEF g
<1>6. /\ g[0] = Match(s, r)
      /\ \A i \in 1..n : g[i] = RequestAction(Captured(r, s.url), g[i - 1], r.actions[i])
  BY <1>4
<1> QED BY <1>5, <1>6 DEF RequestActionsGoes

\* Over the actions of a rule in the response phase.
ResponseActionsGoes(f, r, s) ==
  /\ f[0] = Match(s, r)
  /\ \A i \in 1..Len(r.actions) : f[i] = ResponseAction(f[i - 1], r.actions[i])
  /\ ResponseActions(r, s) = f[Len(r.actions)]

LEMMA ResponseActionsSteps ==
  ASSUME NEW r, NEW s, Len(r.actions) \in Nat
  PROVE  \E f : ResponseActionsGoes(f, r, s)
<1> DEFINE n == Len(r.actions)
           F(k, f) == [i \in 0..k |-> IF i = 0 THEN Match(s, r)
                                      ELSE ResponseAction(f[i - 1], r.actions[i])]
           S == {k \in Nat : \E f : f = F(k, f)}
           g == CHOOSE f : f = F(n, f)
<1>1. 0 \in S
  <2> DEFINE f == [i \in 0..0 |-> Match(s, r)]
  <2>1. f = F(0, f)
    OBVIOUS
  <2> QED BY <2>1
<1>2. ASSUME NEW k \in Nat, k \in S PROVE k + 1 \in S
  <2>1. PICK f : f = F(k, f)
    BY <1>2
  <2>2. /\ f[0] = Match(s, r)
        /\ \A i \in 1..k : f[i] = ResponseAction(f[i - 1], r.actions[i])
    BY <2>1
  <2> DEFINE h == [i \in 0..(k + 1) |-> IF i <= k THEN f[i]
                                        ELSE ResponseAction(f[k], r.actions[k + 1])]
  <2>3. /\ h[0] = f[0] /\ h[k] = f[k]
        /\ \A i \in 1..k : h[i] = f[i] /\ h[i - 1] = f[i - 1]
        /\ h[k + 1] = ResponseAction(f[k], r.actions[(k + 1)])
    OBVIOUS
  <2>4. h = [i \in 0..(k + 1) |-> h[i]]
    OBVIOUS
  <2> HIDE DEF h
  <2>5. ASSUME NEW i \in 0..(k + 1) PROVE h[i] = F(k + 1, h)[i]
    <3>1. CASE i = 0
      BY <2>2, <2>3, <3>1
    <3>2. CASE i \in 1..k
      BY <2>2, <2>3, <3>2
    <3>3. CASE i = k + 1
      BY <2>3, <3>3
    <3> QED BY <3>1, <3>2, <3>3
  <2>6. h = F(k + 1, h)
    BY <2>4, <2>5
  <2> QED BY <2>6
<1>3. n \in S
  <2> HIDE DEF S
  <2> QED BY <1>1, <1>2, Ring!SetInduction
<1>4. g = F(n, g)
  BY <1>3
<1>5. ResponseActions(r, s) = g[n]
  BY DEF ResponseActions
<1> HIDE DEF g
<1>6. /\ g[0] = Match(s, r)
      /\ \A i \in 1..n : g[i] = ResponseAction(g[i - 1], r.actions[i])
  BY <1>4
<1> QED BY <1>5, <1>6 DEF ResponseActionsGoes

\* Over the rules.
RequestRunGoes(f, probe, list, ctx) ==
  /\ f[0] = Begin(ctx)
  /\ \A i \in 1..Len(list) : f[i] = ApplyToRequest(probe, f[i - 1], list[i])
  /\ RequestRun(probe, list, ctx) = f[Len(list)]

LEMMA RequestRunSteps ==
  ASSUME NEW probe, NEW list, NEW ctx, Len(list) \in Nat
  PROVE  \E f : RequestRunGoes(f, probe, list, ctx)
<1> DEFINE n == Len(list)
           F(k, f) == [i \in 0..k |-> IF i = 0 THEN Begin(ctx)
                                      ELSE ApplyToRequest(probe, f[i - 1], list[i])]
           S == {k \in Nat : \E f : f = F(k, f)}
           g == CHOOSE f : f = F(n, f)
<1>1. 0 \in S
  <2> DEFINE f == [i \in 0..0 |-> Begin(ctx)]
  <2>1. f = F(0, f)
    OBVIOUS
  <2> QED BY <2>1
<1>2. ASSUME NEW k \in Nat, k \in S PROVE k + 1 \in S
  <2>1. PICK f : f = F(k, f)
    BY <1>2
  <2>2. /\ f[0] = Begin(ctx)
        /\ \A i \in 1..k : f[i] = ApplyToRequest(probe, f[i - 1], list[i])
    BY <2>1
  <2> DEFINE h == [i \in 0..(k + 1) |-> IF i <= k THEN f[i]
                                        ELSE ApplyToRequest(probe, f[k], list[k + 1])]
  <2>3. /\ h[0] = f[0] /\ h[k] = f[k]
        /\ \A i \in 1..k : h[i] = f[i] /\ h[i - 1] = f[i - 1]
        /\ h[k + 1] = ApplyToRequest(probe, f[k], list[(k + 1)])
    OBVIOUS
  <2>4. h = [i \in 0..(k + 1) |-> h[i]]
    OBVIOUS
  <2> HIDE DEF h
  <2>5. ASSUME NEW i \in 0..(k + 1) PROVE h[i] = F(k + 1, h)[i]
    <3>1. CASE i = 0
      BY <2>2, <2>3, <3>1
    <3>2. CASE i \in 1..k
      BY <2>2, <2>3, <3>2
    <3>3. CASE i = k + 1
      BY <2>3, <3>3
    <3> QED BY <3>1, <3>2, <3>3
  <2>6. h = F(k + 1, h)
    BY <2>4, <2>5
  <2> QED BY <2>6
<1>3. n \in S
  <2> HIDE DEF S
  <2> QED BY <1>1, <1>2, Ring!SetInduction
<1>4. g = F(n, g)
  BY <1>3
<1>5. RequestRun(probe, list, ctx) = g[n]
  BY DEF RequestRun
<1> HIDE DEF g
<1>6. /\ g[0] = Begin(ctx)
      /\ \A i \in 1..n : g[i] = ApplyToRequest(probe, g[i - 1], list[i])
  BY <1>4
<1> QED BY <1>5, <1>6 DEF RequestRunGoes

\* Over the rules in the response phase.
ResponseRunGoes(f, probe, list, ctx) ==
  /\ f[0] = Begin(ctx)
  /\ \A i \in 1..Len(list) : f[i] = ApplyToResponse(probe, f[i - 1], list[i])
  /\ ResponseRun(probe, list, ctx) = f[Len(list)]

LEMMA ResponseRunSteps ==
  ASSUME NEW probe, NEW list, NEW ctx, Len(list) \in Nat
  PROVE  \E f : ResponseRunGoes(f, probe, list, ctx)
<1> DEFINE n == Len(list)
           F(k, f) == [i \in 0..k |-> IF i = 0 THEN Begin(ctx)
                                      ELSE ApplyToResponse(probe, f[i - 1], list[i])]
           S == {k \in Nat : \E f : f = F(k, f)}
           g == CHOOSE f : f = F(n, f)
<1>1. 0 \in S
  <2> DEFINE f == [i \in 0..0 |-> Begin(ctx)]
  <2>1. f = F(0, f)
    OBVIOUS
  <2> QED BY <2>1
<1>2. ASSUME NEW k \in Nat, k \in S PROVE k + 1 \in S
  <2>1. PICK f : f = F(k, f)
    BY <1>2
  <2>2. /\ f[0] = Begin(ctx)
        /\ \A i \in 1..k : f[i] = ApplyToResponse(probe, f[i - 1], list[i])
    BY <2>1
  <2> DEFINE h == [i \in 0..(k + 1) |-> IF i <= k THEN f[i]
                                        ELSE ApplyToResponse(probe, f[k], list[k + 1])]
  <2>3. /\ h[0] = f[0] /\ h[k] = f[k]
        /\ \A i \in 1..k : h[i] = f[i] /\ h[i - 1] = f[i - 1]
        /\ h[k + 1] = ApplyToResponse(probe, f[k], list[(k + 1)])
    OBVIOUS
  <2>4. h = [i \in 0..(k + 1) |-> h[i]]
    OBVIOUS
  <2> HIDE DEF h
  <2>5. ASSUME NEW i \in 0..(k + 1) PROVE h[i] = F(k + 1, h)[i]
    <3>1. CASE i = 0
      BY <2>2, <2>3, <3>1
    <3>2. CASE i \in 1..k
      BY <2>2, <2>3, <3>2
    <3>3. CASE i = k + 1
      BY <2>3, <3>3
    <3> QED BY <3>1, <3>2, <3>3
  <2>6. h = F(k + 1, h)
    BY <2>4, <2>5
  <2> QED BY <2>6
<1>3. n \in S
  <2> HIDE DEF S
  <2> QED BY <1>1, <1>2, Ring!SetInduction
<1>4. g = F(n, g)
  BY <1>3
<1>5. ResponseRun(probe, list, ctx) = g[n]
  BY DEF ResponseRun
<1> HIDE DEF g
<1>6. /\ g[0] = Begin(ctx)
      /\ \A i \in 1..n : g[i] = ApplyToResponse(probe, g[i - 1], list[i])
  BY <1>4
<1> QED BY <1>5, <1>6 DEF ResponseRunGoes

-----------------------------------------------------------------------------
\* What steps of the request phase keep, in whatever number.
Kept(s, t) ==
  /\ Like(s, t) /\ t.resourceType = s.resourceType /\ Unchanged(s, t)
  /\ s.delay \in 0..MaxDelay => t.delay \in 0..MaxDelay
  /\ IsHeaders(s.headers) => IsHeaders(t.headers)

LEMMA KeptOn ==
  ASSUME NEW s, IsState(s, RequestFields), NEW t, Kept(s, t)
  PROVE  /\ IsState(t, RequestFields)
         /\ \A u : Kept(t, u) => Kept(s, u)
BY DEF Kept, Like, IsState, Unchanged, SameRequestIn

LEMMA KeptSelf ==
  ASSUME NEW s, IsState(s, RequestFields)
  PROVE  Kept(s, s)
BY DEF Kept, Like, IsState, Unchanged, SameRequestIn

\* A step that changes nothing but what was matched, or what the probe found.
LEMMA KeptMarked ==
  ASSUME NEW s, IsState(s, RequestFields), NEW v
  PROVE  Kept(s, [s EXCEPT !.matched = v]) /\ Kept(s, [s EXCEPT !.needsBody = v])
<1>1. RequestFields \subseteq DOMAIN s /\ IsRecord(s)
  BY DEF IsState
<1> QED BY <1>1 DEF Kept, Like, IsRecord, Unchanged, SameRequestIn, RequestFields, Fields

\* The actions of a rule.
LEMMA ActionsOf ==
  ASSUME NEW r, RuleAssumption(r)
  PROVE  /\ Len(r.actions) \in Nat /\ DOMAIN r.actions = 1..Len(r.actions)
         /\ \A i \in 1..Len(r.actions) :
              /\ ActionAssumption(r.actions[i])
              /\ r.actions[i].type = "delay" => r.actions[i].ms \in Nat
<1>1. r.actions \in Seq(Range(r.actions))
  BY DEF RuleAssumption, IsList
<1>2. \A i \in 1..Len(r.actions) : r.actions[i] \in Range(r.actions)
  <2> DEFINE R == Range(r.actions)
  <2> HIDE DEF R
  <2> QED BY <1>1
<1>3. Len(r.actions) \in Nat /\ DOMAIN r.actions = 1..Len(r.actions)
  BY <1>1
<1>4. \A i \in 1..Len(r.actions) : ActionAssumption(r.actions[i])
  BY <1>2 DEF RuleAssumption
<1> QED BY <1>3, <1>4 DEF ActionAssumption

LEMMA RequestActionKept ==
  ASSUME NEW s, IsState(s, RequestFields), NEW c, NEW a, ActionAssumption(a)
  PROVE  Kept(s, RequestAction(c, s, a))
<1> DEFINE t == RequestAction(c, s, a)
<1>1. Like(s, t) /\ t.resourceType = s.resourceType /\ Unchanged(s, t)
  BY RequestActionOK
<1>2. s.delay \in 0..MaxDelay => t.delay \in 0..MaxDelay
  <2>1. a.type = "delay" => a.ms \in Nat
    BY DEF ActionAssumption
  <2> QED BY <2>1, RequestActionDelay
<1>3. IsHeaders(s.headers) => IsHeaders(t.headers)
  BY RequestActionHeaders
<1> QED BY <1>1, <1>2, <1>3 DEF Kept

LEMMA RequestActionsKept ==
  ASSUME NEW s, IsState(s, RequestFields), NEW r, RuleAssumption(r)
  PROVE  Kept(s, RequestActions(r, s))
<1> DEFINE n == Len(r.actions)
           c == Captured(r, s.url)
<1>1. n \in Nat /\ \A i \in 1..n : ActionAssumption(r.actions[i])
  BY ActionsOf
<1>2. PICK f : RequestActionsGoes(f, r, s)
  BY <1>1, RequestActionsSteps
<1>3. /\ f[0] = Match(s, r) /\ RequestActions(r, s) = f[n]
       /\ \A i \in 1..n : f[i] = RequestAction(c, f[i - 1], r.actions[i])
  BY <1>2 DEF RequestActionsGoes
<1> HIDE DEF n, c
<1> DEFINE S == {i \in Nat : i <= n => Kept(s, f[i])}
<1>4. 0 \in S
  <2>1. Kept(s, Match(s, r))
    BY KeptMarked DEF Match
  <2> QED BY <1>3, <2>1
<1>5. ASSUME NEW i \in Nat, i \in S PROVE i + 1 \in S
  <2> SUFFICES ASSUME i + 1 <= n PROVE Kept(s, f[i + 1])
    OBVIOUS
  <2> DEFINE u == f[i]
             a == r.actions[i + 1]
  <2>1. Kept(s, u) /\ f[i + 1] = RequestAction(c, u, a) /\ ActionAssumption(a)
    BY <1>1, <1>3, <1>5
  <2> HIDE DEF u, a
  <2>2. IsState(u, RequestFields)
    BY <2>1, KeptOn
  <2>3. Kept(u, RequestAction(c, u, a))
    BY <2>1, <2>2, RequestActionKept
  <2> QED BY <2>1, <2>3, KeptOn
<1>6. n \in S
  <2> HIDE DEF S
  <2> QED BY <1>1, <1>4, <1>5, Ring!SetInduction
<1> QED BY <1>1, <1>3, <1>6

LEMMA ApplyToRequestKept ==
  ASSUME NEW s, IsState(s, RequestFields), NEW r, RuleAssumption(r), NEW probe
  PROVE  Kept(s, ApplyToRequest(probe, s, r))
BY KeptSelf, KeptMarked, RequestActionsKept DEF ApplyToRequest

\* Rules that are as they are assumed to be.
RulesOK(list) ==
  /\ Len(list) \in Nat /\ DOMAIN list = 1..Len(list)
  /\ \A i \in 1..Len(list) : RuleAssumption(list[i])

LEMMA RequestRunKept ==
  ASSUME NEW ctx, IsState(Begin(ctx), RequestFields), NEW list, RulesOK(list), NEW probe,
         NEW f, RequestRunGoes(f, probe, list, ctx)
  PROVE  \A i \in Nat : i <= Len(list) => Kept(Begin(ctx), f[i])
<1> DEFINE n == Len(list)
           s == Begin(ctx)
<1>1. n \in Nat /\ \A i \in 1..n : RuleAssumption(list[i])
  BY DEF RulesOK
<1>2. f[0] = s /\ \A i \in 1..n : f[i] = ApplyToRequest(probe, f[i - 1], list[i])
  BY DEF RequestRunGoes
<1>3. IsState(s, RequestFields)
  OBVIOUS
<1> HIDE DEF n, s
<1> DEFINE S == {i \in Nat : i <= n => Kept(s, f[i])}
<1>4. 0 \in S
  BY <1>2, <1>3, KeptSelf
<1>5. ASSUME NEW i \in Nat, i \in S PROVE i + 1 \in S
  <2> SUFFICES ASSUME i + 1 <= n PROVE Kept(s, f[i + 1])
    OBVIOUS
  <2>1. /\ Kept(s, f[i]) /\ f[i + 1] = ApplyToRequest(probe, f[i], list[i + 1])
        /\ RuleAssumption(list[i + 1])
    BY <1>1, <1>2, <1>5
  <2>2. IsState(f[i], RequestFields)
    BY <1>3, <2>1, KeptOn
  <2>3. Kept(f[i], ApplyToRequest(probe, f[i], list[i + 1]))
    BY <2>1, <2>2, ApplyToRequestKept
  <2> QED BY <1>3, <2>1, <2>3, KeptOn
<1>6. \A i \in Nat : i \in S
  <2> HIDE DEF S
  <2> QED BY <1>4, <1>5, Ring!SetInduction
<1> QED BY <1>6 DEF n, s

LEMMA RequestOutcomeKept ==
  ASSUME NEW ctx, IsState(Begin(ctx), RequestFields), NEW list, RulesOK(list), NEW probe
  PROVE  Kept(Begin(ctx), RequestRun(probe, list, ctx))
<1>1. PICK f : RequestRunGoes(f, probe, list, ctx)
  BY RequestRunSteps DEF RulesOK
<1>2. Kept(Begin(ctx), f[Len(list)])
  BY <1>1, RequestRunKept DEF RulesOK
<1> QED BY <1>1, <1>2 DEF RequestRunGoes

-----------------------------------------------------------------------------
\* The body is not looked at by a rule that does not read it.
LEMMA RequestActionsIgnoreBody ==
  ASSUME NEW s, IsState(s, RequestFields), NEW r, RuleAssumption(r),
         ~ HasAction(r, RequestBodyActions), NEW b
  PROVE  RequestActions(r, With(s, b)) = With(RequestActions(r, s), b)
<1> DEFINE n == Len(r.actions)
           c == Captured(r, s.url)
           t == With(s, b)
<1>1. /\ n \in Nat /\ \A i \in 1..n : ActionAssumption(r.actions[i])
      /\ \A i \in 1..n : r.actions[i].type \notin RequestBodyActions
  BY ActionsOf DEF HasAction
<1>2. PICK f : RequestActionsGoes(f, r, s)
  BY <1>1, RequestActionsSteps
<1>3. /\ f[0] = Match(s, r) /\ RequestActions(r, s) = f[n]
       /\ \A i \in 1..n : f[i] = RequestAction(c, f[i - 1], r.actions[i])
  BY <1>2 DEF RequestActionsGoes
<1>4. RequestFields \subseteq DOMAIN s /\ IsRecord(s)
  BY DEF IsState
<1>5. t.url = s.url
  BY <1>4 DEF With, RequestFields
<1>6. PICK g : RequestActionsGoes(g, r, t)
  BY <1>1, RequestActionsSteps
<1>7. /\ g[0] = Match(t, r) /\ RequestActions(r, t) = g[n]
      /\ \A i \in 1..n : g[i] = RequestAction(c, g[i - 1], r.actions[i])
  BY <1>5, <1>6 DEF RequestActionsGoes
<1> HIDE DEF n, c
<1> DEFINE S == {i \in Nat : i <= n => Kept(s, f[i]) /\ g[i] = With(f[i], b)}
<1>8. 0 \in S
  <2>1. Kept(s, f[0])
    <3>1. Kept(s, Match(s, r))
      BY KeptMarked DEF Match
    <3> QED BY <1>3, <3>1
  <2>2. Match(With(s, b), r) = With(Match(s, r), b)
    BY <1>4 DEF Match, With, IsRecord, RequestFields, Fields
  <2> QED BY <1>3, <1>7, <2>1, <2>2
<1>9. ASSUME NEW i \in Nat, i \in S PROVE i + 1 \in S
  <2> SUFFICES ASSUME i + 1 <= n PROVE Kept(s, f[i + 1]) /\ g[i + 1] = With(f[i + 1], b)
    OBVIOUS
  <2> DEFINE u == f[i]
             a == r.actions[i + 1]
  <2>1. /\ Kept(s, u) /\ g[i] = With(u, b)
        /\ f[i + 1] = RequestAction(c, u, a) /\ g[i + 1] = RequestAction(c, g[i], a)
        /\ ActionAssumption(a) /\ a.type \notin RequestBodyActions
    BY <1>1, <1>3, <1>7, <1>9
  <2> HIDE DEF u, a
  <2>2. IsState(u, RequestFields)
    BY <2>1, KeptOn
  <2>3. Kept(u, RequestAction(c, u, a))
    BY <2>1, <2>2, RequestActionKept
  <2>4. RequestAction(c, With(u, b), a) = With(RequestAction(c, u, a), b)
    BY <2>1, <2>2, RequestActionIgnoresBody
  <2> QED BY <2>1, <2>3, <2>4, KeptOn
<1>10. n \in S
  <2> HIDE DEF S
  <2> QED BY <1>1, <1>8, <1>9, Ring!SetInduction
<1> QED BY <1>1, <1>3, <1>7, <1>10

\* Without a condition on the body, whether a request matches does not depend on
\* the body; with one, the probe finds out whether the rest matches.
LEMMA MatchIgnoresBody ==
  ASSUME NEW s, IsState(s, RequestFields), NEW r, NEW b
  PROVE  /\ MatchesRequest(r, With(s, b), TRUE) <=> MatchesRequest(r, s, TRUE)
         /\ MatchesRequest(r, s, FALSE) => MatchesRequest(r, s, TRUE)
         /\ r.match.requestBody = {} =>
              (MatchesRequest(r, s, FALSE) <=> MatchesRequest(r, s, TRUE))
<1>1. RequestFields \subseteq DOMAIN s /\ IsRecord(s)
  BY DEF IsState
<1>2. /\ With(s, b).url = s.url /\ With(s, b).method = s.method
      /\ With(s, b).resourceType = s.resourceType /\ With(s, b).headers = s.headers
  BY <1>1 DEF With, RequestFields, Fields
<1>3. r.match.requestBody = {} => BodyMatches(r.match.requestBody, s.body)
  BY DEF BodyMatches
<1> QED BY <1>2, <1>3 DEF MatchesRequest

\* A turn in which the probe does not stop is the same without the body and with
\* it.
LEMMA ProbedTurn ==
  ASSUME NEW s, IsState(s, RequestFields), NEW r, RuleAssumption(r), NEW b,
         ~ s.needsBody, ~ ApplyToRequest(TRUE, s, r).needsBody
  PROVE  /\ ApplyToRequest(FALSE, s, r) = ApplyToRequest(TRUE, s, r)
         /\ ApplyToRequest(FALSE, With(s, b), r) = With(ApplyToRequest(TRUE, s, r), b)
<1>1. RequestFields \subseteq DOMAIN s /\ IsRecord(s)
  BY DEF IsState
<1>2. Over(With(s, b)) <=> Over(s)
  BY <1>1 DEF With, Over, RequestFields, Fields
<1>3. IsState(With(s, b), RequestFields)
  BY <1>1 DEF With, IsState, IsRecord
<1>4. /\ MatchesRequest(r, With(s, b), TRUE) <=> MatchesRequest(r, s, TRUE)
      /\ MatchesRequest(r, s, FALSE) => MatchesRequest(r, s, TRUE)
      /\ MatchesRequest(r, With(s, b), FALSE) => MatchesRequest(r, With(s, b), TRUE)
  BY <1>3, MatchIgnoresBody
<1>5. CASE Over(s) \/ ~ MatchesRequest(r, s, TRUE)
  BY <1>2, <1>4, <1>5 DEF ApplyToRequest
<1>6. CASE ~ Over(s) /\ MatchesRequest(r, s, TRUE)
  <2>1. ~ ReadsRequestBody(r)
    <3> SUFFICES ASSUME ReadsRequestBody(r) PROVE FALSE
      OBVIOUS
    <3>1. ApplyToRequest(TRUE, s, r) = [s EXCEPT !.needsBody = TRUE]
      BY <1>6 DEF ApplyToRequest
    <3> QED BY <1>1, <3>1 DEF RequestFields, Fields
  <2>2. r.match.requestBody = {} /\ ~ HasAction(r, RequestBodyActions)
    BY <2>1 DEF ReadsRequestBody
  <2>3. MatchesRequest(r, s, FALSE) /\ MatchesRequest(r, With(s, b), FALSE)
    BY <1>3, <1>4, <1>6, <2>2, MatchIgnoresBody
  <2>4. RequestActions(r, With(s, b)) = With(RequestActions(r, s), b)
    BY <2>2, RequestActionsIgnoreBody
  <2> QED BY <1>2, <1>6, <2>1, <2>3, <2>4 DEF ApplyToRequest
<1> QED BY <1>5, <1>6

LEMMA BeginWith ==
  ASSUME NEW q, IsRecord(q), "body" \in DOMAIN q, NEW b
  PROVE  Begin(With(q, b)) = With(Begin(q), b)
BY DEF Begin, Extended, With, IsRecord

\* A probe that finds nothing to read for has done what the rules do, with the
\* body and without it.
LEMMA RequestStreams ==
  ASSUME NEW q, IsRecord(q), "body" \in DOMAIN q, IsState(Begin(With(q, NoBody)), RequestFields),
         NEW list, RulesOK(list), ~ RequestRun(TRUE, list, With(q, NoBody)).needsBody
  PROVE  LET p == RequestRun(TRUE, list, With(q, NoBody)) IN
         /\ RequestRun(FALSE, list, With(q, NoBody)) = p
         /\ RequestRun(FALSE, list, q) = With(p, q.body)
         /\ p.body = NoBody /\ IsState(p, RequestFields)
<1> DEFINE n == Len(list)
           w == With(q, NoBody)
<1>1. n \in Nat /\ \A i \in 1..n : RuleAssumption(list[i])
  BY DEF RulesOK
<1>2. PICK f : RequestRunGoes(f, TRUE, list, w)
  BY <1>1, RequestRunSteps
<1>3. PICK g : RequestRunGoes(g, FALSE, list, w)
  BY <1>1, RequestRunSteps
<1>4. PICK h : RequestRunGoes(h, FALSE, list, q)
  BY <1>1, RequestRunSteps
<1>5. \A i \in Nat : i <= n => IsState(f[i], RequestFields)
  <2>1. \A i \in Nat : i <= n => Kept(Begin(w), f[i])
    BY <1>2, RequestRunKept
  <2> QED BY <2>1, KeptOn
<1>6. /\ f[0] = Begin(w) /\ g[0] = Begin(w) /\ h[0] = Begin(q)
      /\ \A i \in 1..n : /\ f[i] = ApplyToRequest(TRUE, f[i - 1], list[i])
                         /\ g[i] = ApplyToRequest(FALSE, g[i - 1], list[i])
                         /\ h[i] = ApplyToRequest(FALSE, h[i - 1], list[i])
  BY <1>2, <1>3, <1>4 DEF RequestRunGoes
<1>7. \A i \in Nat : i + 1 <= n =>
         /\ f[i + 1] = ApplyToRequest(TRUE, f[i], list[i + 1])
         /\ g[i + 1] = ApplyToRequest(FALSE, g[i], list[i + 1])
         /\ h[i + 1] = ApplyToRequest(FALSE, h[i], list[i + 1])
         /\ RuleAssumption(list[i + 1])
  <2> SUFFICES ASSUME NEW i \in Nat, i + 1 <= n
               PROVE  /\ f[i + 1] = ApplyToRequest(TRUE, f[i], list[i + 1])
                      /\ g[i + 1] = ApplyToRequest(FALSE, g[i], list[i + 1])
                      /\ h[i + 1] = ApplyToRequest(FALSE, h[i], list[i + 1])
                      /\ RuleAssumption(list[i + 1])
    OBVIOUS
  <2>1. i + 1 \in 1..n /\ (i + 1) - 1 = i
    BY <1>1
  <2> HIDE DEF n
  <2> QED BY <1>1, <1>6, <2>1
<1>8. /\ RequestRun(TRUE, list, w) = f[n] /\ RequestRun(FALSE, list, w) = g[n]
      /\ RequestRun(FALSE, list, q) = h[n]
  BY <1>2, <1>3, <1>4 DEF RequestRunGoes
<1>9. Begin(w).body = NoBody /\ Begin(q) = With(Begin(w), q.body)
  BY DEF Begin, Extended, With, IsRecord
<1>10. ~ f[n].needsBody
  BY <1>8
<1> HIDE DEF n, w
<1> DEFINE Same(i) == g[i] = f[i] /\ h[i] = With(f[i], q.body) /\ f[i].body = NoBody
           S == {i \in Nat : i <= n /\ ~ f[i].needsBody => Same(i)}
<1>11. 0 \in S
  BY <1>6, <1>9
<1>12. ASSUME NEW i \in Nat, i \in S PROVE i + 1 \in S
  <2> SUFFICES ASSUME i + 1 <= n, ~ f[i + 1].needsBody PROVE Same(i + 1)
    OBVIOUS
  <2> DEFINE s == f[i]
             r == list[i + 1]
  <2>1. i <= n /\ i + 1 \in Nat /\ i + 1 <= n
    BY <1>1
  <2>2. ~ f[i].needsBody => Same(i)
    BY <1>12, <2>1
  <2>3. IsState(f[i], RequestFields) /\ IsState(f[i + 1], RequestFields)
    BY <1>5, <2>1
  <2> HIDE DEF Same, S
  <2>4. /\ f[i + 1] = ApplyToRequest(TRUE, s, r) /\ g[i + 1] = ApplyToRequest(FALSE, g[i], r)
        /\ h[i + 1] = ApplyToRequest(FALSE, h[i], r)
        /\ RuleAssumption(r)
    BY <1>7
  <2> HIDE DEF r
  <2>5. ~ f[i].needsBody
    <3>1. f[i].needsBody => f[i + 1] = f[i]
      BY <2>4 DEF ApplyToRequest, Over
    <3> QED BY <3>1
  <2>6. g[i] = s /\ h[i] = With(s, q.body) /\ s.body = NoBody
    BY <2>2, <2>5 DEF Same
  <2>7. IsState(s, RequestFields) /\ ~ s.needsBody
    BY <2>3, <2>5
  <2>8. ~ ApplyToRequest(TRUE, s, r).needsBody
    BY <2>4
  <2> HIDE DEF s
  <2>9. /\ ApplyToRequest(FALSE, s, r) = ApplyToRequest(TRUE, s, r)
         /\ ApplyToRequest(FALSE, With(s, q.body), r) = With(ApplyToRequest(TRUE, s, r), q.body)
         /\ ApplyToRequest(FALSE, With(s, NoBody), r) = With(ApplyToRequest(TRUE, s, r), NoBody)
    BY <2>4, <2>7, <2>8, ProbedTurn
  <2>10. /\ g[i + 1] = f[i + 1] /\ h[i + 1] = With(f[i + 1], q.body)
    BY <2>4, <2>6, <2>9
  <2>11. f[i + 1].body = NoBody
    <3>1. With(s, NoBody) = s
      BY <2>7, <2>6 DEF With, IsState, IsRecord
    <3>2. f[i + 1] = With(f[i + 1], NoBody)
      BY <2>4, <2>9, <3>1
    <3>3. "body" \in DOMAIN f[i + 1]
      BY <2>3 DEF IsState, RequestFields, Fields
    <3> QED BY <3>2, <3>3 DEF With
  <2> QED BY <2>10, <2>11 DEF Same
<1>13. \A i \in Nat : i \in S
  <2> HIDE DEF S
  <2> QED BY <1>11, <1>12, Ring!SetInduction
<1>14. n \in S /\ IsState(f[n], RequestFields)
  BY <1>1, <1>5, <1>13
<1>15. Same(n)
  BY <1>1, <1>10, <1>14
<1> QED BY <1>8, <1>14, <1>15 DEF w

-----------------------------------------------------------------------------
\* The response phase in the same way.
ReplyKept(s, t) ==
  /\ Like(s, t) /\ t.request = s.request /\ ReplyUnchanged(s, t)
  /\ s.delay \in 0..MaxDelay => t.delay \in 0..MaxDelay

LEMMA ReplyKeptOn ==
  ASSUME NEW s, IsState(s, ResponseFields), NEW t, ReplyKept(s, t)
  PROVE  /\ IsState(t, ResponseFields)
         /\ \A u : ReplyKept(t, u) => ReplyKept(s, u)
BY DEF ReplyKept, Like, IsState, ReplyUnchanged, SameResponseIn

LEMMA ReplyKeptSelf ==
  ASSUME NEW s, IsState(s, ResponseFields)
  PROVE  ReplyKept(s, s)
BY DEF ReplyKept, Like, IsState, ReplyUnchanged, SameResponseIn

LEMMA ReplyKeptMarked ==
  ASSUME NEW s, IsState(s, ResponseFields), NEW v
  PROVE  ReplyKept(s, [s EXCEPT !.matched = v]) /\ ReplyKept(s, [s EXCEPT !.needsBody = v])
<1>1. ResponseFields \subseteq DOMAIN s /\ IsRecord(s)
  BY DEF IsState
<1> QED BY <1>1 DEF ReplyKept, Like, IsRecord, ReplyUnchanged, SameResponseIn, ResponseFields, Fields

LEMMA ResponseActionsKept ==
  ASSUME NEW s, IsState(s, ResponseFields), NEW r, RuleAssumption(r)
  PROVE  ReplyKept(s, ResponseActions(r, s))
<1> DEFINE n == Len(r.actions)
<1>1. n \in Nat /\ \A i \in 1..n : r.actions[i].type = "delay" => r.actions[i].ms \in Nat
  BY ActionsOf
<1>2. PICK f : ResponseActionsGoes(f, r, s)
  BY <1>1, ResponseActionsSteps
<1>3. /\ f[0] = Match(s, r) /\ ResponseActions(r, s) = f[n]
       /\ \A i \in 1..n : f[i] = ResponseAction(f[i - 1], r.actions[i])
  BY <1>2 DEF ResponseActionsGoes
<1> HIDE DEF n
<1> DEFINE S == {i \in Nat : i <= n => ReplyKept(s, f[i])}
<1>4. 0 \in S
  <2>1. ReplyKept(s, Match(s, r))
    BY ReplyKeptMarked DEF Match
  <2> QED BY <1>3, <2>1
<1>5. ASSUME NEW i \in Nat, i \in S PROVE i + 1 \in S
  <2> SUFFICES ASSUME i + 1 <= n PROVE ReplyKept(s, f[i + 1])
    OBVIOUS
  <2> DEFINE u == f[i]
             a == r.actions[i + 1]
  <2>1. ReplyKept(s, u) /\ f[i + 1] = ResponseAction(u, a) /\ (a.type = "delay" => a.ms \in Nat)
    BY <1>1, <1>3, <1>5
  <2> HIDE DEF u, a
  <2>2. IsState(u, ResponseFields)
    BY <2>1, ReplyKeptOn
  <2>3. ReplyKept(u, ResponseAction(u, a))
    BY <2>1, <2>2, ResponseActionOK, ResponseActionDelay DEF ReplyKept
  <2> QED BY <2>1, <2>3, ReplyKeptOn
<1>6. n \in S
  <2> HIDE DEF S
  <2> QED BY <1>1, <1>4, <1>5, Ring!SetInduction
<1> QED BY <1>1, <1>3, <1>6

LEMMA ApplyToResponseKept ==
  ASSUME NEW s, IsState(s, ResponseFields), NEW r, RuleAssumption(r), NEW probe
  PROVE  ReplyKept(s, ApplyToResponse(probe, s, r))
BY ReplyKeptSelf, ReplyKeptMarked, ResponseActionsKept DEF ApplyToResponse

LEMMA ResponseRunKept ==
  ASSUME NEW ctx, IsState(Begin(ctx), ResponseFields), NEW list, RulesOK(list), NEW probe,
         NEW f, ResponseRunGoes(f, probe, list, ctx)
  PROVE  \A i \in Nat : i <= Len(list) => ReplyKept(Begin(ctx), f[i])
<1> DEFINE n == Len(list)
           s == Begin(ctx)
<1>1. n \in Nat /\ \A i \in 1..n : RuleAssumption(list[i])
  BY DEF RulesOK
<1>2. f[0] = s /\ \A i \in 1..n : f[i] = ApplyToResponse(probe, f[i - 1], list[i])
  BY DEF ResponseRunGoes
<1>3. IsState(s, ResponseFields)
  OBVIOUS
<1> HIDE DEF n, s
<1> DEFINE S == {i \in Nat : i <= n => ReplyKept(s, f[i])}
<1>4. 0 \in S
  BY <1>2, <1>3, ReplyKeptSelf
<1>5. ASSUME NEW i \in Nat, i \in S PROVE i + 1 \in S
  <2> SUFFICES ASSUME i + 1 <= n PROVE ReplyKept(s, f[i + 1])
    OBVIOUS
  <2>1. /\ ReplyKept(s, f[i]) /\ f[i + 1] = ApplyToResponse(probe, f[i], list[i + 1])
        /\ RuleAssumption(list[i + 1])
    BY <1>1, <1>2, <1>5
  <2>2. IsState(f[i], ResponseFields)
    BY <1>3, <2>1, ReplyKeptOn
  <2>3. ReplyKept(f[i], ApplyToResponse(probe, f[i], list[i + 1]))
    BY <2>1, <2>2, ApplyToResponseKept
  <2> QED BY <1>3, <2>1, <2>3, ReplyKeptOn
<1>6. \A i \in Nat : i \in S
  <2> HIDE DEF S
  <2> QED BY <1>4, <1>5, Ring!SetInduction
<1> QED BY <1>6 DEF n, s

LEMMA ResponseOutcomeKept ==
  ASSUME NEW ctx, IsState(Begin(ctx), ResponseFields), NEW list, RulesOK(list), NEW probe
  PROVE  ReplyKept(Begin(ctx), ResponseRun(probe, list, ctx))
<1>1. PICK f : ResponseRunGoes(f, probe, list, ctx)
  BY ResponseRunSteps DEF RulesOK
<1>2. ReplyKept(Begin(ctx), f[Len(list)])
  BY <1>1, ResponseRunKept DEF RulesOK
<1> QED BY <1>1, <1>2 DEF ResponseRunGoes

LEMMA ResponseActionsIgnoreBody ==
  ASSUME NEW s, IsState(s, ResponseFields), NEW r, RuleAssumption(r),
         ~ HasAction(r, ResponseBodyActions), NEW b
  PROVE  ResponseActions(r, With(s, b)) = With(ResponseActions(r, s), b)
<1> DEFINE n == Len(r.actions)
           t == With(s, b)
<1>1. /\ n \in Nat /\ \A i \in 1..n : r.actions[i].type = "delay" => r.actions[i].ms \in Nat
      /\ \A i \in 1..n : r.actions[i].type \notin ResponseBodyActions
  BY ActionsOf DEF HasAction
<1>2. PICK f : ResponseActionsGoes(f, r, s)
  BY <1>1, ResponseActionsSteps
<1>3. /\ f[0] = Match(s, r) /\ ResponseActions(r, s) = f[n]
       /\ \A i \in 1..n : f[i] = ResponseAction(f[i - 1], r.actions[i])
  BY <1>2 DEF ResponseActionsGoes
<1>4. ResponseFields \subseteq DOMAIN s /\ IsRecord(s)
  BY DEF IsState
<1>5. PICK g : ResponseActionsGoes(g, r, t)
  BY <1>1, ResponseActionsSteps
<1>6. /\ g[0] = Match(t, r) /\ ResponseActions(r, t) = g[n]
      /\ \A i \in 1..n : g[i] = ResponseAction(g[i - 1], r.actions[i])
  BY <1>5 DEF ResponseActionsGoes
<1> HIDE DEF n
<1> DEFINE S == {i \in Nat : i <= n => ReplyKept(s, f[i]) /\ g[i] = With(f[i], b)}
<1>7. 0 \in S
  <2>1. ReplyKept(s, f[0])
    <3>1. ReplyKept(s, Match(s, r))
      BY ReplyKeptMarked DEF Match
    <3> QED BY <1>3, <3>1
  <2>2. Match(With(s, b), r) = With(Match(s, r), b)
    BY <1>4 DEF Match, With, IsRecord, ResponseFields, Fields
  <2> QED BY <1>3, <1>6, <2>1, <2>2
<1>8. ASSUME NEW i \in Nat, i \in S PROVE i + 1 \in S
  <2> SUFFICES ASSUME i + 1 <= n PROVE ReplyKept(s, f[i + 1]) /\ g[i + 1] = With(f[i + 1], b)
    OBVIOUS
  <2> DEFINE u == f[i]
             a == r.actions[i + 1]
  <2>1. /\ ReplyKept(s, u) /\ g[i] = With(u, b)
        /\ f[i + 1] = ResponseAction(u, a) /\ g[i + 1] = ResponseAction(g[i], a)
        /\ (a.type = "delay" => a.ms \in Nat) /\ a.type \notin ResponseBodyActions
    BY <1>1, <1>3, <1>6, <1>8
  <2> HIDE DEF u, a
  <2>2. IsState(u, ResponseFields)
    BY <2>1, ReplyKeptOn
  <2>3. ReplyKept(u, ResponseAction(u, a))
    BY <2>1, <2>2, ResponseActionOK, ResponseActionDelay DEF ReplyKept
  <2>4. ResponseAction(With(u, b), a) = With(ResponseAction(u, a), b)
    BY <2>1, <2>2, ResponseActionIgnoresBody
  <2> QED BY <2>1, <2>3, <2>4, ReplyKeptOn
<1>9. n \in S
  <2> HIDE DEF S
  <2> QED BY <1>1, <1>7, <1>8, Ring!SetInduction
<1> QED BY <1>1, <1>3, <1>6, <1>9

LEMMA ReplyMatchIgnoresBody ==
  ASSUME NEW s, IsState(s, ResponseFields), NEW r, NEW b
  PROVE  /\ MatchesResponse(r, With(s, b), TRUE) <=> MatchesResponse(r, s, TRUE)
         /\ MatchesResponse(r, s, FALSE) => MatchesResponse(r, s, TRUE)
         /\ r.match.responseBody = {} =>
              (MatchesResponse(r, s, FALSE) <=> MatchesResponse(r, s, TRUE))
<1>1. ResponseFields \subseteq DOMAIN s /\ IsRecord(s)
  BY DEF IsState
<1>2. /\ With(s, b).request = s.request /\ With(s, b).status = s.status
      /\ With(s, b).headers = s.headers
  BY <1>1 DEF With, ResponseFields, Fields
<1>3. r.match.responseBody = {} => BodyMatches(r.match.responseBody, s.body)
  BY DEF BodyMatches
<1> QED BY <1>2, <1>3 DEF MatchesResponse

\* A turn in which the probe does not stop is the same without the body and with
\* it.
LEMMA ProbedReplyTurn ==
  ASSUME NEW s, IsState(s, ResponseFields), NEW r, RuleAssumption(r), NEW b,
         ~ s.needsBody, ~ ApplyToResponse(TRUE, s, r).needsBody
  PROVE  /\ ApplyToResponse(FALSE, s, r) = ApplyToResponse(TRUE, s, r)
         /\ ApplyToResponse(FALSE, With(s, b), r) = With(ApplyToResponse(TRUE, s, r), b)
<1>1. ResponseFields \subseteq DOMAIN s /\ IsRecord(s)
  BY DEF IsState
<1>2. Over(With(s, b)) <=> Over(s)
  BY <1>1 DEF With, Over, ResponseFields, Fields
<1>3. IsState(With(s, b), ResponseFields)
  BY <1>1 DEF With, IsState, IsRecord
<1>4. /\ MatchesResponse(r, With(s, b), TRUE) <=> MatchesResponse(r, s, TRUE)
      /\ MatchesResponse(r, s, FALSE) => MatchesResponse(r, s, TRUE)
      /\ MatchesResponse(r, With(s, b), FALSE) => MatchesResponse(r, With(s, b), TRUE)
  BY <1>3, ReplyMatchIgnoresBody
<1>5. CASE Over(s) \/ ~ MatchesResponse(r, s, TRUE)
  BY <1>2, <1>4, <1>5 DEF ApplyToResponse
<1>6. CASE ~ Over(s) /\ MatchesResponse(r, s, TRUE)
  <2>1. ~ ReadsResponseBody(r)
    <3> SUFFICES ASSUME ReadsResponseBody(r) PROVE FALSE
      OBVIOUS
    <3>1. ApplyToResponse(TRUE, s, r) = [s EXCEPT !.needsBody = TRUE]
      BY <1>6 DEF ApplyToResponse
    <3> QED BY <1>1, <3>1 DEF ResponseFields, Fields
  <2>2. r.match.responseBody = {} /\ ~ HasAction(r, ResponseBodyActions)
    BY <2>1 DEF ReadsResponseBody
  <2>3. MatchesResponse(r, s, FALSE) /\ MatchesResponse(r, With(s, b), FALSE)
    BY <1>3, <1>4, <1>6, <2>2, ReplyMatchIgnoresBody
  <2>4. ResponseActions(r, With(s, b)) = With(ResponseActions(r, s), b)
    BY <2>2, ResponseActionsIgnoreBody
  <2> QED BY <1>2, <1>6, <2>1, <2>3, <2>4 DEF ApplyToResponse
<1> QED BY <1>5, <1>6

\* A probe that finds nothing to read for has done what the rules do, with the
\* body and without it.
LEMMA ResponseStreams ==
  ASSUME NEW q, IsRecord(q), "body" \in DOMAIN q, IsState(Begin(With(q, NoBody)), ResponseFields),
         NEW list, RulesOK(list), ~ ResponseRun(TRUE, list, With(q, NoBody)).needsBody
  PROVE  LET p == ResponseRun(TRUE, list, With(q, NoBody)) IN
         /\ ResponseRun(FALSE, list, With(q, NoBody)) = p
         /\ ResponseRun(FALSE, list, q) = With(p, q.body)
         /\ p.body = NoBody /\ IsState(p, ResponseFields)
<1> DEFINE n == Len(list)
           w == With(q, NoBody)
<1>1. n \in Nat /\ \A i \in 1..n : RuleAssumption(list[i])
  BY DEF RulesOK
<1>2. PICK f : ResponseRunGoes(f, TRUE, list, w)
  BY <1>1, ResponseRunSteps
<1>3. PICK g : ResponseRunGoes(g, FALSE, list, w)
  BY <1>1, ResponseRunSteps
<1>4. PICK h : ResponseRunGoes(h, FALSE, list, q)
  BY <1>1, ResponseRunSteps
<1>5. \A i \in Nat : i <= n => IsState(f[i], ResponseFields)
  <2>1. \A i \in Nat : i <= n => ReplyKept(Begin(w), f[i])
    BY <1>2, ResponseRunKept
  <2> QED BY <2>1, ReplyKeptOn
<1>6. /\ f[0] = Begin(w) /\ g[0] = Begin(w) /\ h[0] = Begin(q)
      /\ \A i \in 1..n : /\ f[i] = ApplyToResponse(TRUE, f[i - 1], list[i])
                         /\ g[i] = ApplyToResponse(FALSE, g[i - 1], list[i])
                         /\ h[i] = ApplyToResponse(FALSE, h[i - 1], list[i])
  BY <1>2, <1>3, <1>4 DEF ResponseRunGoes
<1>7. \A i \in Nat : i + 1 <= n =>
         /\ f[i + 1] = ApplyToResponse(TRUE, f[i], list[i + 1])
         /\ g[i + 1] = ApplyToResponse(FALSE, g[i], list[i + 1])
         /\ h[i + 1] = ApplyToResponse(FALSE, h[i], list[i + 1])
         /\ RuleAssumption(list[i + 1])
  <2> SUFFICES ASSUME NEW i \in Nat, i + 1 <= n
               PROVE  /\ f[i + 1] = ApplyToResponse(TRUE, f[i], list[i + 1])
                      /\ g[i + 1] = ApplyToResponse(FALSE, g[i], list[i + 1])
                      /\ h[i + 1] = ApplyToResponse(FALSE, h[i], list[i + 1])
                      /\ RuleAssumption(list[i + 1])
    OBVIOUS
  <2>1. i + 1 \in 1..n /\ (i + 1) - 1 = i
    BY <1>1
  <2> HIDE DEF n
  <2> QED BY <1>1, <1>6, <2>1
<1>8. /\ ResponseRun(TRUE, list, w) = f[n] /\ ResponseRun(FALSE, list, w) = g[n]
      /\ ResponseRun(FALSE, list, q) = h[n]
  BY <1>2, <1>3, <1>4 DEF ResponseRunGoes
<1>9. Begin(w).body = NoBody /\ Begin(q) = With(Begin(w), q.body)
  BY DEF Begin, Extended, With, IsRecord
<1>10. ~ f[n].needsBody
  BY <1>8
<1> HIDE DEF n, w
<1> DEFINE Same(i) == g[i] = f[i] /\ h[i] = With(f[i], q.body) /\ f[i].body = NoBody
           S == {i \in Nat : i <= n /\ ~ f[i].needsBody => Same(i)}
<1>11. 0 \in S
  BY <1>6, <1>9
<1>12. ASSUME NEW i \in Nat, i \in S PROVE i + 1 \in S
  <2> SUFFICES ASSUME i + 1 <= n, ~ f[i + 1].needsBody PROVE Same(i + 1)
    OBVIOUS
  <2> DEFINE s == f[i]
             r == list[i + 1]
  <2>1. i <= n /\ i + 1 \in Nat /\ i + 1 <= n
    BY <1>1
  <2>2. ~ f[i].needsBody => Same(i)
    BY <1>12, <2>1
  <2>3. IsState(f[i], ResponseFields) /\ IsState(f[i + 1], ResponseFields)
    BY <1>5, <2>1
  <2> HIDE DEF Same, S
  <2>4. /\ f[i + 1] = ApplyToResponse(TRUE, s, r) /\ g[i + 1] = ApplyToResponse(FALSE, g[i], r)
        /\ h[i + 1] = ApplyToResponse(FALSE, h[i], r)
        /\ RuleAssumption(r)
    BY <1>7
  <2> HIDE DEF r
  <2>5. ~ f[i].needsBody
    <3>1. f[i].needsBody => f[i + 1] = f[i]
      BY <2>4 DEF ApplyToResponse, Over
    <3> QED BY <3>1
  <2>6. g[i] = s /\ h[i] = With(s, q.body) /\ s.body = NoBody
    BY <2>2, <2>5 DEF Same
  <2>7. IsState(s, ResponseFields) /\ ~ s.needsBody
    BY <2>3, <2>5
  <2>8. ~ ApplyToResponse(TRUE, s, r).needsBody
    BY <2>4
  <2> HIDE DEF s
  <2>9. /\ ApplyToResponse(FALSE, s, r) = ApplyToResponse(TRUE, s, r)
         /\ ApplyToResponse(FALSE, With(s, q.body), r) = With(ApplyToResponse(TRUE, s, r), q.body)
         /\ ApplyToResponse(FALSE, With(s, NoBody), r) = With(ApplyToResponse(TRUE, s, r), NoBody)
    BY <2>4, <2>7, <2>8, ProbedReplyTurn
  <2>10. /\ g[i + 1] = f[i + 1] /\ h[i + 1] = With(f[i + 1], q.body)
    BY <2>4, <2>6, <2>9
  <2>11. f[i + 1].body = NoBody
    <3>1. With(s, NoBody) = s
      BY <2>7, <2>6 DEF With, IsState, IsRecord
    <3>2. f[i + 1] = With(f[i + 1], NoBody)
      BY <2>4, <2>9, <3>1
    <3>3. "body" \in DOMAIN f[i + 1]
      BY <2>3 DEF IsState, ResponseFields, Fields
    <3> QED BY <3>2, <3>3 DEF With
  <2> QED BY <2>10, <2>11 DEF Same
<1>13. \A i \in Nat : i \in S
  <2> HIDE DEF S
  <2> QED BY <1>11, <1>12, Ring!SetInduction
<1>14. n \in S /\ IsState(f[n], ResponseFields)
  BY <1>1, <1>5, <1>13
<1>15. Same(n)
  BY <1>1, <1>10, <1>14
<1> QED BY <1>8, <1>14, <1>15 DEF w

-----------------------------------------------------------------------------
\* Of the request, the response phase sees what the matchers make of it.
LEMMA ResponseActionsIgnoreRequest ==
  ASSUME NEW s, IsState(s, ResponseFields), NEW r, RuleAssumption(r), NEW q
  PROVE  ResponseActions(r, About(s, q)) = About(ResponseActions(r, s), q)
<1> DEFINE n == Len(r.actions)
           t == About(s, q)
<1>1. /\ n \in Nat /\ \A i \in 1..n : r.actions[i].type = "delay" => r.actions[i].ms \in Nat
  BY ActionsOf
<1>2. PICK f : ResponseActionsGoes(f, r, s)
  BY <1>1, ResponseActionsSteps
<1>3. /\ f[0] = Match(s, r) /\ ResponseActions(r, s) = f[n]
       /\ \A i \in 1..n : f[i] = ResponseAction(f[i - 1], r.actions[i])
  BY <1>2 DEF ResponseActionsGoes
<1>4. ResponseFields \subseteq DOMAIN s /\ IsRecord(s)
  BY DEF IsState
<1>5. PICK g : ResponseActionsGoes(g, r, t)
  BY <1>1, ResponseActionsSteps
<1>6. /\ g[0] = Match(t, r) /\ ResponseActions(r, t) = g[n]
      /\ \A i \in 1..n : g[i] = ResponseAction(g[i - 1], r.actions[i])
  BY <1>5 DEF ResponseActionsGoes
<1> HIDE DEF n
<1> DEFINE S == {i \in Nat : i <= n => ReplyKept(s, f[i]) /\ g[i] = About(f[i], q)}
<1>7. 0 \in S
  <2>1. ReplyKept(s, f[0])
    <3>1. ReplyKept(s, Match(s, r))
      BY ReplyKeptMarked DEF Match
    <3> QED BY <1>3, <3>1
  <2>2. Match(About(s, q), r) = About(Match(s, r), q)
    BY <1>4 DEF Match, About, IsRecord, ResponseFields, Fields
  <2> QED BY <1>3, <1>6, <2>1, <2>2
<1>8. ASSUME NEW i \in Nat, i \in S PROVE i + 1 \in S
  <2> SUFFICES ASSUME i + 1 <= n PROVE ReplyKept(s, f[i + 1]) /\ g[i + 1] = About(f[i + 1], q)
    OBVIOUS
  <2> DEFINE u == f[i]
             a == r.actions[i + 1]
  <2>1. /\ ReplyKept(s, u) /\ g[i] = About(u, q)
        /\ f[i + 1] = ResponseAction(u, a) /\ g[i + 1] = ResponseAction(g[i], a)
        /\ (a.type = "delay" => a.ms \in Nat)
    BY <1>1, <1>3, <1>6, <1>8
  <2> HIDE DEF u, a
  <2>2. IsState(u, ResponseFields)
    BY <2>1, ReplyKeptOn
  <2>3. ReplyKept(u, ResponseAction(u, a))
    BY <2>1, <2>2, ResponseActionOK, ResponseActionDelay DEF ReplyKept
  <2>4. ResponseAction(About(u, q), a) = About(ResponseAction(u, a), q)
    BY <2>1, <2>2, ResponseActionIgnoresRequest
  <2> QED BY <2>1, <2>3, <2>4, ReplyKeptOn
<1>9. n \in S
  <2> HIDE DEF S
  <2> QED BY <1>1, <1>7, <1>8, Ring!SetInduction
<1> QED BY <1>1, <1>3, <1>6, <1>9


\* Two requests that a rule's matcher, or those of all rules, do not tell apart.
SameToRule(r, p, q) == MatchesRequest(r, p, FALSE) <=> MatchesRequest(r, q, FALSE)
SameToRules(list, p, q) == \A i \in 1..Len(list) : SameToRule(list[i], p, q)

\* One turn makes the same of either request.
SameTurn(s, r, q) == ApplyToResponse(FALSE, About(s, q), r) = About(ApplyToResponse(FALSE, s, r), q)

LEMMA TurnAbout ==
  ASSUME NEW s, IsState(s, ResponseFields), NEW r, RuleAssumption(r), NEW q,
         SameToRule(r, s.request, q)
  PROVE  SameTurn(s, r, q)
<1>1. ResponseFields \subseteq DOMAIN s /\ IsRecord(s)
  BY DEF IsState
<1>2. Over(About(s, q)) <=> Over(s)
  BY <1>1 DEF About, Over, ResponseFields, Fields
<1>3. /\ About(s, q).request = q /\ About(s, q).status = s.status
      /\ About(s, q).headers = s.headers /\ About(s, q).body = s.body
  BY <1>1 DEF About, ResponseFields, Fields
<1>4. MatchesResponse(r, About(s, q), FALSE) <=> MatchesResponse(r, s, FALSE)
  BY <1>3 DEF MatchesResponse, SameToRule
<1> QED BY <1>2, <1>4, ResponseActionsIgnoreRequest DEF ApplyToResponse, SameTurn

LEMMA RunAbout ==
  ASSUME NEW ctx, IsRecord(ctx), "request" \in DOMAIN ctx, IsState(Begin(ctx), ResponseFields),
         NEW list, RulesOK(list), NEW q, SameToRules(list, ctx.request, q)
  PROVE  ResponseRun(FALSE, list, About(ctx, q)) = About(ResponseRun(FALSE, list, ctx), q)
<1> DEFINE n == Len(list)
           w == About(ctx, q)
<1>1. /\ n \in Nat /\ \A i \in 1..n : RuleAssumption(list[i])
      /\ \A i \in 1..n : SameToRule(list[i], ctx.request, q)
  BY DEF RulesOK, SameToRules
<1>2. PICK f : ResponseRunGoes(f, FALSE, list, ctx)
  BY <1>1, ResponseRunSteps
<1>3. PICK g : ResponseRunGoes(g, FALSE, list, w)
  BY <1>1, ResponseRunSteps
<1>4. \A i \in Nat : i <= n => ReplyKept(Begin(ctx), f[i])
  BY <1>2, ResponseRunKept
<1>5. /\ f[0] = Begin(ctx) /\ g[0] = Begin(w)
      /\ \A i \in 1..n : /\ f[i] = ApplyToResponse(FALSE, f[i - 1], list[i])
                         /\ g[i] = ApplyToResponse(FALSE, g[i - 1], list[i])
      /\ ResponseRun(FALSE, list, ctx) = f[n] /\ ResponseRun(FALSE, list, w) = g[n]
  BY <1>2, <1>3 DEF ResponseRunGoes
<1>6. Begin(w) = About(Begin(ctx), q) /\ Begin(ctx).request = ctx.request
  BY DEF Begin, Extended, About, IsRecord
<1> HIDE DEF n, w
<1> DEFINE S == {i \in Nat : i <= n => g[i] = About(f[i], q)}
<1>7. 0 \in S
  BY <1>5, <1>6
<1>8. ASSUME NEW i \in Nat, i \in S PROVE i + 1 \in S
  <2> SUFFICES ASSUME i + 1 <= n PROVE g[i + 1] = About(f[i + 1], q)
    OBVIOUS
  <2> DEFINE s == f[i]
             r == list[i + 1]
  <2>1. i + 1 \in 1..n /\ (i + 1) - 1 = i /\ i <= n
    BY <1>1
  <2>2. /\ f[i + 1] = ApplyToResponse(FALSE, s, r) /\ g[i + 1] = ApplyToResponse(FALSE, g[i], r)
        /\ RuleAssumption(r)
        /\ SameToRule(r, ctx.request, q)
    BY <1>1, <1>5, <2>1
  <2>3. g[i] = About(s, q) /\ ReplyKept(Begin(ctx), s)
    BY <1>4, <1>8, <2>1
  <2> HIDE DEF r, s
  <2>4. IsState(s, ResponseFields) /\ s.request = ctx.request
    BY <1>6, <2>3, ReplyKeptOn DEF ReplyKept
  <2>5. SameToRule(r, s.request, q)
    BY <2>2, <2>4
  <2>6. IsState(s, ResponseFields) /\ RuleAssumption(r)
    BY <2>2, <2>4
  <2>7. SameTurn(s, r, q)
    BY <2>5, <2>6, TurnAbout
  <2> QED BY <2>2, <2>3, <2>7 DEF SameTurn
<1>9. n \in S
  <2> HIDE DEF S
  <2> QED BY <1>1, <1>7, <1>8, Ring!SetInduction
<1>10. ResponseRun(FALSE, list, w) = About(ResponseRun(FALSE, list, ctx), q)
  <2>1. n \in Nat /\ n <= n
    BY <1>1
  <2>2. g[n] = About(f[n], q)
    BY <1>9, <2>1
  <2> QED BY <1>5, <2>2
<1> QED BY <1>10 DEF w

-----------------------------------------------------------------------------
\* A finite set that a relation orders has a sequence of its elements in that
\* order.
Orders(R, S) ==
  /\ \A x, y \in S : x # y => <<x, y>> \in R \/ <<y, x>> \in R
  /\ \A x, y, z \in S : <<x, y>> \in R /\ <<y, z>> \in R => <<x, z>> \in R

LEMMA LeastExists ==
  ASSUME NEW S, IsFiniteSet(S), S # {}, NEW R, Orders(R, S)
  PROVE  \E x \in S : \A y \in S \ {x} : <<x, y>> \in R
<1> DEFINE Least(T) == \E x \in T : \A y \in T \ {x} : <<x, y>> \in R
           N == {n \in Nat : \A T \in SUBSET S :
                   IsFiniteSet(T) /\ Cardinality(T) = n /\ T # {} => Least(T)}
<1>1. 0 \in N
  BY FS_EmptySet
<1>2. ASSUME NEW n \in Nat, n \in N PROVE n + 1 \in N
  <2> SUFFICES ASSUME NEW T \in SUBSET S, IsFiniteSet(T), Cardinality(T) = n + 1, T # {}
               PROVE  Least(T)
    OBVIOUS
  <2>1. PICK x \in T : TRUE
    OBVIOUS
  <2> DEFINE U == T \ {x}
  <2>2. IsFiniteSet(U) /\ Cardinality(U) = n /\ U \in SUBSET S
    <3>1. IsFiniteSet(U) /\ Cardinality(U) = Cardinality(T) - 1
      BY FS_RemoveElement
    <3> QED BY <3>1
  <2>3. CASE U = {}
    BY <2>3
  <2>4. CASE U # {}
    <3>1. PICK y \in U : \A z \in U \ {y} : <<y, z>> \in R
      BY <1>2, <2>2, <2>4
    <3>2. x \in S /\ y \in S /\ x # y /\ T \ {x} = U /\ T \ {y} = (U \ {y}) \union {x} /\ y \in T
      OBVIOUS
    <3>3. CASE <<y, x>> \in R
      BY <3>1, <3>2, <3>3
    <3>4. CASE <<x, y>> \in R
      <4>1. ASSUME NEW z \in U PROVE <<x, z>> \in R
        BY <3>1, <3>2, <3>4 DEF Orders
      <4> QED BY <3>2, <4>1
    <3> QED BY <3>2, <3>3, <3>4 DEF Orders
  <2> QED BY <2>3, <2>4
<1>3. \A n \in Nat : n \in N
  <2> HIDE DEF N
  <2> QED BY <1>1, <1>2, Ring!SetInduction
<1>4. Cardinality(S) \in Nat
  BY FS_CardinalityType
<1> QED BY <1>3, <1>4

InOrder(o, n, R) == \A i, j \in 1..n : i < j => <<o[i], o[j]>> \in R

LEMMA OrderExists ==
  ASSUME NEW S, IsFiniteSet(S), NEW R, Orders(R, S)
  PROVE  \E o \in [1..Cardinality(S) -> S] : InOrder(o, Cardinality(S), R)
<1> DEFINE Good(T) == \E o \in [1..Cardinality(T) -> T] : InOrder(o, Cardinality(T), R)
           N == {n \in Nat : \A T \in SUBSET S :
                   IsFiniteSet(T) /\ Cardinality(T) = n => Good(T)}
<1>1. 0 \in N
  <2> SUFFICES ASSUME NEW T \in SUBSET S, IsFiniteSet(T), Cardinality(T) = 0 PROVE Good(T)
    OBVIOUS
  <2> DEFINE o == [k \in 1..0 |-> 0]
  <2>1. o \in [1..0 -> T] /\ InOrder(o, 0, R)
    BY DEF InOrder
  <2> HIDE DEF o
  <2> QED BY <2>1
<1>2. ASSUME NEW n \in Nat, n \in N PROVE n + 1 \in N
  <2> SUFFICES ASSUME NEW T \in SUBSET S, IsFiniteSet(T), Cardinality(T) = n + 1 PROVE Good(T)
    OBVIOUS
  <2>1. T # {}
    <3>1. Cardinality({}) = 0
      BY FS_EmptySet
    <3> QED BY <3>1
  <2>2. Orders(R, T)
    BY DEF Orders
  <2>3. PICK x \in T : \A y \in T \ {x} : <<x, y>> \in R
    BY <2>1, <2>2, LeastExists
  <2> DEFINE U == T \ {x}
  <2>4. IsFiniteSet(U) /\ Cardinality(U) = n /\ U \in SUBSET S /\ T = U \union {x}
    <3>1. IsFiniteSet(U) /\ Cardinality(U) = Cardinality(T) - 1
      BY FS_RemoveElement
    <3> QED BY <3>1
  <2>5. PICK u \in [1..n -> U] : InOrder(u, n, R)
    BY <1>2, <2>4
  <2>6. \A i \in 1..n : u[i] \in U /\ <<x, u[i]>> \in R
    BY <2>3
  <2> HIDE DEF U
  <2> DEFINE s == [k \in 1..(n + 1) |-> IF k = 1 THEN x ELSE u[k - 1]]
  <2>7. s[1] = x /\ \A k \in 2..(n + 1) : k - 1 \in 1..n /\ s[k] = u[k - 1]
    OBVIOUS
  <2>8. s \in [1..(n + 1) -> T]
    BY <2>4, <2>6
  <2> HIDE DEF s
  <2>9. ASSUME NEW i \in 1..(n + 1), NEW j \in 1..(n + 1), i < j PROVE <<s[i], s[j]>> \in R
    <3>1. j \in 2..(n + 1) /\ s[j] = u[j - 1] /\ j - 1 \in 1..n
      BY <2>7, <2>9
    <3>2. CASE i = 1
      BY <2>6, <2>7, <3>1, <3>2
    <3>3. CASE i \in 2..(n + 1)
      <4>1. s[i] = u[i - 1] /\ i - 1 \in 1..n /\ i - 1 < j - 1
        BY <2>7, <2>9, <3>1, <3>3
      <4> QED BY <2>5, <3>1, <4>1 DEF InOrder
    <3> QED BY <3>2, <3>3
  <2>10. InOrder(s, n + 1, R)
    BY <2>9 DEF InOrder
  <2> QED BY <2>8, <2>10
<1>3. \A n \in Nat : n \in N
  <2> HIDE DEF N
  <2> QED BY <1>1, <1>2, Ring!SetInduction
<1>4. Cardinality(S) \in Nat
  BY FS_CardinalityType
<1> QED BY <1>3, <1>4

\* Compiling a list of rules keeps those that are enabled and compile, in order
\* of priority and, among equals, as listed.
KeptOf(list) == {i \in DOMAIN list : list[i].enabled /\ Compiles(list[i])}

Sorts(o, list) ==
  LET size == Cardinality(KeptOf(list)) IN
  /\ o \in [1..size -> KeptOf(list)]
  /\ \A m, n \in 1..size : m < n => Before(list, o[m], o[n])
  /\ RuleSet(list) = [n \in 1..size |-> list[o[n]]]

LEMMA RuleSetSorts ==
  ASSUME NEW list \in RuleLists
  PROVE  /\ IsFiniteSet(KeptOf(list)) /\ Cardinality(KeptOf(list)) \in Nat
         /\ \E o : Sorts(o, list)
<1>1. /\ list \in Seq(Range(list))
      /\ \A r \in Range(list) : RuleAssumption(r)
  BY RulesAssumption DEF IsList
<1>2. Len(list) \in Nat /\ DOMAIN list = 1..Len(list)
  <2> DEFINE R == Range(list)
  <2> HIDE DEF R
  <2> QED BY <1>1
<1>3. \A i \in DOMAIN list : list[i].priority \in Int
  BY <1>1 DEF RuleAssumption, Range
<1> DEFINE kept == {i \in DOMAIN list : list[i].enabled /\ Compiles(list[i])}
           size == Cardinality(kept)
           Sorted(o) == \A m, n \in 1..size : m < n => Before(list, o[m], o[n])
           order == CHOOSE o \in [1..size -> kept] : Sorted(o)
           R == {p \in kept \X kept : Before(list, p[1], p[2])}
<1>4. kept = KeptOf(list)
  BY DEF KeptOf
<1>5. IsFiniteSet(kept) /\ size \in Nat
  <2>1. IsFiniteSet(DOMAIN list)
    BY <1>2, FS_Interval
  <2>2. kept \subseteq DOMAIN list
    OBVIOUS
  <2> QED BY <2>1, <2>2, FS_Subset, FS_CardinalityType
<1>6. \A i, j \in kept : <<i, j>> \in R <=> Before(list, i, j)
  OBVIOUS
<1>7. Orders(R, kept)
  <2>1. \A i \in kept : i \in Int /\ list[i].priority \in Int
    BY <1>2, <1>3
  <2> HIDE DEF R, kept
  <2>2. \A i, j \in kept : i # j => Before(list, i, j) \/ Before(list, j, i)
    BY <2>1 DEF Before
  <2>3. \A i, j, k \in kept : Before(list, i, j) /\ Before(list, j, k) => Before(list, i, k)
    BY <2>1 DEF Before
  <2> QED BY <1>6, <2>2, <2>3 DEF Orders
<1>8. \E o \in [1..size -> kept] : Sorted(o)
  <2>1. PICK o \in [1..size -> kept] : InOrder(o, size, R)
    BY <1>5, <1>7, OrderExists
  <2> HIDE DEF kept, R
  <2> QED BY <1>6, <2>1 DEF InOrder
<1>9. order \in [1..size -> kept] /\ Sorted(order)
  <2> HIDE DEF kept, size, Sorted
  <2> QED BY <1>8
<1>10. RuleSet(list) = [n \in 1..size |-> list[order[n]]]
  BY Zenon DEF RuleSet
<1>11. Sorts(order, list)
  <2> HIDE DEF kept, order
  <2> QED BY <1>4, <1>9, <1>10, Zenon DEF Sorts
<1> QED
  <2> HIDE DEF kept, order
  <2> QED BY <1>4, <1>5, <1>11

\* So the rules of an exchange are rules of the list.
LEMMA RuleSetOK ==
  ASSUME NEW list \in RuleLists
  PROVE  RulesOK(RuleSet(list)) /\ RuleSet(list) \in Seq(Range(list))
<1> DEFINE kept == KeptOf(list)
           size == Cardinality(kept)
           s == RuleSet(list)
           T == Range(list)
<1>1. PICK o : Sorts(o, list)
  BY RuleSetSorts
<1>2. /\ size \in Nat /\ o \in [1..size -> kept]
      /\ s = [n \in 1..size |-> list[o[n]]]
  BY <1>1, RuleSetSorts DEF Sorts
<1>3. \A i \in kept : list[i] \in T /\ RuleAssumption(list[i])
  BY RulesAssumption DEF KeptOf, Range
<1> HIDE DEF kept, size, s, T
<1>4. \A n \in 1..size : s[n] \in T /\ RuleAssumption(s[n])
  BY <1>2, <1>3
<1>5. s \in Seq(T) /\ Len(s) = size /\ DOMAIN s = 1..size
  <2>1. s = [n \in 1..size |-> s[n]]
    BY <1>2
  <2> QED BY <1>2, <1>4, <2>1
<1> QED BY <1>2, <1>4, <1>5 DEF RulesOK, s, T

\* The compiled rules are the enabled ones that compile, each once, and run in
\* order of priority, rules of one priority as the user listed them.
THEOREM RulesRunInOrder ==
  ASSUME NEW list \in RuleLists
  PROVE  LET s == RuleSet(list)
             kept == {i \in DOMAIN list : list[i].enabled /\ Compiles(list[i])}
         IN \E o \in [DOMAIN s -> kept] :
              /\ \A i \in kept : \E n \in DOMAIN s : o[n] = i
              /\ \A m, n \in DOMAIN s : m < n =>
                   \/ s[m].priority < s[n].priority
                   \/ s[m].priority = s[n].priority /\ o[m] < o[n]
              /\ \A n \in DOMAIN s : s[n] = list[o[n]]
<1> DEFINE s == RuleSet(list)
           kept == KeptOf(list)
           size == Cardinality(kept)
<1>1. PICK o : Sorts(o, list)
  BY RuleSetSorts
<1>2. /\ IsFiniteSet(kept) /\ size \in Nat /\ o \in [1..size -> kept]
      /\ \A m, n \in 1..size : m < n => Before(list, o[m], o[n])
      /\ s = [n \in 1..size |-> list[o[n]]]
  BY <1>1, RuleSetSorts DEF Sorts
<1>3. kept = {i \in DOMAIN list : list[i].enabled /\ Compiles(list[i])}
  BY DEF KeptOf
<1>4. \A i \in kept : i \in Int /\ list[i].priority \in Int
  <2>1. /\ list \in Seq(Range(list))
        /\ \A r \in Range(list) : RuleAssumption(r)
    BY RulesAssumption DEF IsList
  <2>2. DOMAIN list \subseteq Int
    <3> DEFINE R == Range(list)
    <3> HIDE DEF R
    <3> QED BY <2>1
  <2> QED BY <1>3, <2>1, <2>2 DEF RuleAssumption, Range
<1> HIDE DEF kept, size, s
<1>5. DOMAIN s = 1..size /\ \A n \in 1..size : s[n] = list[o[n]] /\ o[n] \in kept
  BY <1>2
<1>6. \A m, n \in 1..size : m < n =>
        \/ s[m].priority < s[n].priority
        \/ s[m].priority = s[n].priority /\ o[m] < o[n]
  BY <1>2, <1>5 DEF Before
<1>7. \A i \in kept : \E n \in 1..size : o[n] = i
  <2>1. ASSUME NEW m \in 1..size, NEW n \in 1..size, o[m] = o[n] PROVE m = n
    <3>1. CASE m < n
      BY <1>2, <1>4, <1>5, <2>1, <3>1 DEF Before
    <3>2. CASE n < m
      BY <1>2, <1>4, <1>5, <2>1, <3>2 DEF Before
    <3> QED BY <1>2, <3>1, <3>2
  <2>2. o \in Injection(1..size, kept)
    BY <1>2, <2>1 DEF Injection, IsInjective
  <2>3. IsFiniteSet(1..size) /\ Cardinality(1..size) = size
    BY <1>2, FS_Interval
  <2>4. o \in Surjection(1..size, kept)
    BY <1>2, <2>2, <2>3, FS_Injection DEF size
  <2> QED BY <2>4 DEF Surjection
<1> QED BY <1>2, <1>3, <1>5, <1>6, <1>7 DEF s

-----------------------------------------------------------------------------
\* What the rules make of the request, and what is sent then.
Read    == NeedsRequestBody(rules, Streamed(request))
Result  == ApplyRequest(rules, IF Read THEN request ELSE Streamed(request))
Edited  == Result.body \notin {NoBody, request.body}
Sending ==
  [method |-> Result.method, url |-> Result.url, buffered |-> Read,
   body |-> IF Edited THEN Result.body ELSE request.body,
   headers |-> IF Edited THEN Reencoded(Outbound(request, Result), Result.body)
               ELSE Outbound(request, Result)]

\* And of the response.
ReadReply == NeedsResponseBody(rules, ResponseContext(NoBody))
Reply     == ApplyResponse(rules, ResponseContext(IF ReadReply THEN response.body ELSE NoBody))

RequestKeys == {"conn", "uri", "method", "headers", "body", "resourceType"}

RequestShape ==
  /\ IsRecord(request)
  /\ RequestKeys \subseteq DOMAIN request /\ DOMAIN request \subseteq RequestKeys \union {"url"}
  /\ pc = "request" => "url" \in DOMAIN request

\* How far the exchange is.
Progress ==
  /\ pc \in {"arrived", "request", "sent", "waiting", "response", "answered"}
  /\ pc \in {"arrived", "request"} => ~ Ran /\ sent = Nothing
  /\ pc \in {"sent", "waiting", "response"} => sent # Nothing
  /\ pc = "response" => Ran /\ response \in Responses
  /\ Ended => pc = "answered"

\* What was recorded is what the rules, as they are, make of what there is.
RequestPhase ==
  Ran => /\ "url" \in DOMAIN request
         /\ outcome = Result
         /\ sent = IF Result.blocked \/ Result.mocked THEN Nothing ELSE Sending

ResponsePhase ==
  Ended => Ran /\ sent # Nothing /\ replied = [out |-> Reply, buffered |-> ReadReply]

IInv == RulesOK(rules) /\ RequestShape /\ Progress /\ RequestPhase /\ ResponsePhase

\* The context that an outcome begins with.
LEMMA BeginOK ==
  ASSUME NEW q, IsRecord(q), RequestKeys \subseteq DOMAIN q,
         DOMAIN q \subseteq RequestKeys \union {"url"}, "url" \in DOMAIN q
  PROVE  LET s == Begin(q) IN
         /\ IsState(s, RequestFields)
         /\ ~ s.modified /\ ~ s.blocked /\ ~ s.mocked /\ s.delay = 0
         /\ s.method = q.method /\ s.url = q.url /\ s.headers = q.headers /\ s.body = q.body
         /\ s.resourceType = q.resourceType
<1> DEFINE z == [matched |-> <<>>, modified |-> FALSE, blocked |-> FALSE, mocked |-> FALSE,
                 needsBody |-> FALSE, delay |-> 0, throttle |-> NoLimit]
<1>1. DOMAIN z = {"matched", "modified", "blocked", "mocked", "needsBody", "delay", "throttle"}
  OBVIOUS
<1>2. Begin(q) = [x \in DOMAIN q \union DOMAIN z |-> IF x \in DOMAIN q THEN q[x] ELSE z[x]]
  BY DEF Begin, Extended
<1>3. ~ z.modified /\ ~ z.blocked /\ ~ z.mocked /\ z.delay = 0
  OBVIOUS
<1> HIDE DEF z
<1>4. IsRecord(Begin(q)) /\ DOMAIN Begin(q) = DOMAIN q \union DOMAIN z
  BY <1>2 DEF IsRecord
<1>5. IsState(Begin(q), RequestFields)
  BY <1>1, <1>4 DEF IsState, RequestFields, Fields, RequestKeys
<1>6. {"method", "url", "headers", "body", "resourceType"} \subseteq DOMAIN q
  BY DEF RequestKeys
<1>7. \A x \in {"modified", "blocked", "mocked", "delay"} : x \in DOMAIN z /\ x \notin DOMAIN q
  BY <1>1 DEF RequestKeys
<1>8. /\ ~ Begin(q).modified /\ ~ Begin(q).blocked /\ ~ Begin(q).mocked /\ Begin(q).delay = 0
  BY <1>2, <1>3, <1>7
<1>9. /\ Begin(q).method = q.method /\ Begin(q).url = q.url /\ Begin(q).headers = q.headers
      /\ Begin(q).body = q.body /\ Begin(q).resourceType = q.resourceType
  BY <1>2, <1>6
<1> QED BY <1>5, <1>8, <1>9

LEMMA ReplyBeginOK ==
  ASSUME NEW b
  PROVE  LET c == ResponseContext(b)
             s == Begin(c) IN
         /\ IsRecord(c) /\ "request" \in DOMAIN c /\ "body" \in DOMAIN c
         /\ IsState(s, ResponseFields)
         /\ ~ s.modified /\ s.delay = 0
         /\ s.status = response.status /\ s.headers = response.headers /\ s.body = b
         /\ c = With(ResponseContext(response.body), b)
<1> DEFINE c == ResponseContext(b)
           z == [matched |-> <<>>, modified |-> FALSE, blocked |-> FALSE, mocked |-> FALSE,
                 needsBody |-> FALSE, delay |-> 0, throttle |-> NoLimit]
<1>1. DOMAIN z = {"matched", "modified", "blocked", "mocked", "needsBody", "delay", "throttle"}
  OBVIOUS
<1>2. Begin(c) = [x \in DOMAIN c \union DOMAIN z |-> IF x \in DOMAIN c THEN c[x] ELSE z[x]]
  BY DEF Begin, Extended
<1>3. ~ z.modified /\ z.delay = 0
  OBVIOUS
<1>4. /\ IsRecord(c) /\ DOMAIN c = {"status", "headers", "body", "request"}
      /\ c.status = response.status /\ c.headers = response.headers /\ c.body = b
      /\ c = With(ResponseContext(response.body), b)
  BY DEF ResponseContext, IsRecord, With
<1> HIDE DEF c, z
<1>5. IsRecord(Begin(c)) /\ DOMAIN Begin(c) = DOMAIN c \union DOMAIN z
  BY <1>2 DEF IsRecord
<1>6. IsState(Begin(c), ResponseFields)
  BY <1>1, <1>4, <1>5 DEF IsState, ResponseFields, Fields
<1>7. ~ Begin(c).modified /\ Begin(c).delay = 0
  BY <1>1, <1>2, <1>3, <1>4
<1>8. Begin(c).status = c.status /\ Begin(c).headers = c.headers /\ Begin(c).body = c.body
  BY <1>2, <1>4
<1> QED BY <1>4, <1>6, <1>7, <1>8 DEF c

-----------------------------------------------------------------------------
\* The invariant.
LEMMA InitInv == Init => IInv
<1> SUFFICES ASSUME Init PROVE IInv
  OBVIOUS
<1>1. RulesOK(rules)
  BY RuleSetOK DEF Init
<1>2. request \in Requests /\ pc = "arrived" /\ outcome = Nothing /\ sent = Nothing /\ replied = Nothing
  BY DEF Init
<1>3. RequestShape
  <2>1. request = [x \in RequestKeys |-> request[x]]
    BY <1>2, RequestsAssumption DEF RequestKeys
  <2> HIDE DEF RequestKeys
  <2>2. DOMAIN request = RequestKeys
    BY <2>1
  <2> QED BY <1>2, <2>1, <2>2 DEF RequestShape, IsRecord
<1>4. Progress /\ RequestPhase /\ ResponsePhase
  BY <1>2 DEF Progress, RequestPhase, ResponsePhase, Ran, Ended
<1> QED BY <1>1, <1>3, <1>4 DEF IInv

LEMMA ResultSame ==
  ASSUME UNCHANGED <<rules, request>>
  PROVE  Result' = Result /\ Read' = Read /\ Sending' = Sending
BY DEF Result, Read, Sending, Edited, Streamed, Reencoded

LEMMA RequestPhaseSame ==
  ASSUME UNCHANGED <<rules, request, outcome, sent>>, RequestPhase
  PROVE  RequestPhase'
BY ResultSame DEF RequestPhase, Ran

LEMMA ResponsePhaseSame ==
  ASSUME UNCHANGED <<rules, request, outcome, sent, response, replied>>, ResponsePhase
  PROVE  ResponsePhase'
BY DEF ResponsePhase, Ran, Ended, Reply, ReadReply, ResponseContext

LEMMA ReceivedShape ==
  ASSUME RequestShape, request' = Received
  PROVE  RequestShape'
<1> DEFINE u == [url |-> Target, headers |-> Stripped(request.headers)]
<1>1. DOMAIN u = {"url", "headers"}
  OBVIOUS
<1>2. request' = Extended(u, request)
  BY DEF Received
<1> HIDE DEF u
<1>3. IsRecord(request') /\ DOMAIN request' = DOMAIN u \union DOMAIN request
  BY <1>2 DEF Extended, IsRecord
<1> QED BY <1>1, <1>3 DEF RequestShape, RequestKeys

LEMMA NextInv == IInv /\ [Next]_vars => IInv'
<1> SUFFICES ASSUME IInv, [Next]_vars PROVE IInv'
  OBVIOUS
<1>1. RulesOK(rules) /\ RequestShape /\ Progress /\ RequestPhase /\ ResponsePhase
  BY DEF IInv
<1>2. rules' = rules
  BY DEF Next, vars, Refuse, ForwardUntouched, Capture, RunRequestRules, RequestUnreadable,
     Dispatch, Respond, Fail, RunResponseRules
<1>3. CASE UNCHANGED vars
  BY <1>1, <1>3, RequestPhaseSame, ResponsePhaseSame
     DEF IInv, vars, RulesOK, RequestShape, Progress, Ran, Ended
<1>4. CASE Refuse \/ RequestUnreadable \/ Dispatch \/ Fail
  <2>1. UNCHANGED <<rules, request, outcome, sent, response, replied>>
    BY <1>4 DEF Refuse, RequestUnreadable, Dispatch, Fail
  <2>2. RequestPhase' /\ ResponsePhase'
    BY <1>1, <2>1, RequestPhaseSame, ResponsePhaseSame
  <2>3. Progress' /\ pc' # "request"
    BY <1>1, <1>4, <2>1 DEF Refuse, RequestUnreadable, Dispatch, Fail, Progress, Ran, Ended
  <2>4. RequestShape'
    BY <1>1, <2>1, <2>3 DEF RequestShape
  <2> QED BY <1>1, <1>2, <2>2, <2>3, <2>4 DEF IInv
<1>5. CASE ForwardUntouched
  <2>1. /\ pc = "arrived" /\ pc' = "sent" /\ UNCHANGED <<outcome, replied, response>>
        /\ request' = Received
    BY <1>5 DEF ForwardUntouched, Admitted
  <2>2. sent' # Nothing
    <3>1. DOMAIN sent' = {"method", "url", "buffered", "body", "headers"}
      BY <1>5 DEF ForwardUntouched
    <3>2. DOMAIN Nothing = {"none"}
      BY DEF Nothing
    <3> QED BY <3>1, <3>2
  <2>3. ~ Ran' /\ ~ Ended'
    BY <1>1, <2>1 DEF Progress, Ran, Ended
  <2>4. Progress' /\ RequestPhase' /\ ResponsePhase'
    BY <2>1, <2>2, <2>3 DEF Progress, RequestPhase, ResponsePhase
  <2> QED BY <1>1, <1>2, <2>1, <2>4, ReceivedShape DEF IInv
<1>6. CASE Capture
  <2>1. /\ pc = "arrived" /\ pc' = "request" /\ UNCHANGED <<outcome, sent, replied, response>>
        /\ request' = Received
    BY <1>6 DEF Capture, Admitted
  <2>2. ~ Ran' /\ ~ Ended' /\ sent' = Nothing
    BY <1>1, <2>1 DEF Progress, Ran, Ended
  <2>3. Progress' /\ RequestPhase' /\ ResponsePhase'
    BY <2>1, <2>2 DEF Progress, RequestPhase, ResponsePhase
  <2> QED BY <1>1, <1>2, <2>1, <2>3, ReceivedShape DEF IInv
<1>7. CASE RunRequestRules
  <2>1. /\ pc = "request" /\ UNCHANGED <<rules, request, response, replied>>
        /\ outcome' = Result
        /\ IF Result.blocked \/ Result.mocked THEN pc' = "answered" /\ sent' = sent
           ELSE pc' = "sent" /\ sent' = Sending
    BY <1>7 DEF RunRequestRules, Result, Read, Sending, Edited
  <2>2. sent = Nothing /\ ~ Ended' /\ "url" \in DOMAIN request
    BY <1>1, <2>1 DEF Progress, Ended, RequestShape
  <2>3. Sending # Nothing
    <3>1. DOMAIN Sending = {"method", "url", "buffered", "body", "headers"}
      BY DEF Sending
    <3>2. DOMAIN Nothing = {"none"}
      BY DEF Nothing
    <3> QED BY <3>1, <3>2
  <2>4. RequestPhase' /\ ResponsePhase'
    BY <2>1, <2>2, ResultSame DEF RequestPhase, ResponsePhase
  <2>5. Progress' /\ pc' # "request"
    BY <2>1, <2>2, <2>3 DEF Progress
  <2>6. RequestShape'
    BY <1>1, <2>1, <2>5 DEF RequestShape
  <2> QED BY <1>1, <1>2, <2>4, <2>5, <2>6 DEF IInv
<1>8. CASE Respond
  <2>1. /\ pc = "waiting" /\ response' \in Responses /\ UNCHANGED <<rules, request, outcome, sent, replied>>
        /\ pc' = IF outcome = Nothing THEN "answered" ELSE "response"
    BY <1>8 DEF Respond
  <2>2. RequestPhase'
    BY <1>1, <2>1, RequestPhaseSame
  <2>3. Progress' /\ ~ Ended' /\ pc' # "request"
    BY <1>1, <2>1 DEF Progress, Ran, Ended
  <2>4. RequestShape' /\ ResponsePhase'
    BY <1>1, <2>1, <2>3 DEF RequestShape, ResponsePhase
  <2> QED BY <1>1, <1>2, <2>2, <2>3, <2>4 DEF IInv
<1>9. CASE RunResponseRules
  <2>1. /\ pc = "response" /\ pc' = "answered" /\ UNCHANGED <<rules, request, outcome, sent, response>>
        /\ replied' = [out |-> Reply, buffered |-> ReadReply]
    BY <1>9 DEF RunResponseRules, Reply, ReadReply
  <2>2. RequestPhase'
    BY <1>1, <2>1, RequestPhaseSame
  <2>3. Ran /\ sent # Nothing
    BY <1>1, <2>1 DEF Progress
  <2>4. ResponsePhase'
    <3>1. Reply' = Reply /\ ReadReply' = ReadReply
      BY <2>1 DEF Reply, ReadReply, ResponseContext
    <3> QED BY <2>1, <2>3, <3>1 DEF ResponsePhase, Ran
  <2>5. Progress'
    BY <2>1, <2>3 DEF Progress, Ran
  <2>6. RequestShape'
    BY <1>1, <2>1 DEF RequestShape
  <2> QED BY <1>1, <1>2, <2>2, <2>4, <2>5, <2>6 DEF IInv
<1> QED BY <1>3, <1>4, <1>5, <1>6, <1>7, <1>8, <1>9 DEF Next

LEMMA Invariant == Spec => []IInv
BY InitInv, NextInv, PTL DEF Spec

-----------------------------------------------------------------------------
\* The probe has found nothing to read for: then the rules do with the body
\* streamed past them what they would have done with it.
LEMMA StreamedResult ==
  ASSUME IInv, Ran, ~ Read
  PROVE  LET full == ApplyRequest(rules, request) IN
         /\ full.body = request.body
         /\ Streamed(full) = Result
         /\ Result = RequestRun(TRUE, rules, Streamed(request))
<1> DEFINE q == request
           w == Streamed(request)
           p == RequestRun(TRUE, rules, With(q, NoBody))
<1>1. /\ RulesOK(rules) /\ IsRecord(q) /\ "url" \in DOMAIN q
      /\ RequestKeys \subseteq DOMAIN q /\ DOMAIN q \subseteq RequestKeys \union {"url"}
  BY DEF IInv, RequestShape, RequestPhase
<1>2. w = With(q, NoBody) /\ "body" \in DOMAIN q
  BY <1>1 DEF Streamed, With, RequestKeys
<1>3. Result = RequestRun(FALSE, rules, w)
  BY DEF Result, ApplyRequest
<1>4. ~ RequestRun(TRUE, rules, w).needsBody
  BY DEF Read, NeedsRequestBody
<1>5. ApplyRequest(rules, request) = RequestRun(FALSE, rules, q)
  BY DEF ApplyRequest
<1> HIDE DEF q, w
<1>6. IsRecord(w) /\ DOMAIN w = DOMAIN q
  BY <1>1, <1>2 DEF With, IsRecord
<1>7. IsState(Begin(w), RequestFields)
  BY <1>1, <1>6, BeginOK
<1>8. IsState(Begin(With(q, NoBody)), RequestFields) /\ ~ RequestRun(TRUE, rules, With(q, NoBody)).needsBody
  BY <1>2, <1>4, <1>7
<1>9. /\ RequestRun(FALSE, rules, With(q, NoBody)) = p
      /\ RequestRun(FALSE, rules, q) = With(p, q.body)
      /\ p.body = NoBody /\ IsState(p, RequestFields)
  BY <1>1, <1>2, <1>8, RequestStreams
<1> HIDE DEF p
<1>10. IsRecord(p) /\ "body" \in DOMAIN p
  BY <1>9 DEF IsState, RequestFields, Fields
<1>11. With(p, q.body).body = q.body /\ Streamed(With(p, q.body)) = p
  BY <1>9, <1>10 DEF With, Streamed, IsRecord
<1>12. Result = p /\ p = RequestRun(TRUE, rules, w)
  BY <1>2, <1>3, <1>9 DEF p
<1> QED BY <1>5, <1>9, <1>11, <1>12 DEF q, w

\* The request's body is read only where the rules would show it: an exchange
\* whose body was streamed past them has the outcome that it would have had with
\* its body read, and none of the rules would have changed the body.
THEOREM RequestStreaming == Spec => []RequestStreamingUnseen
<1>1. IInv => RequestStreamingUnseen
  <2> SUFFICES ASSUME IInv, Ran, sent # Nothing, ~ sent.buffered
               PROVE  /\ ApplyRequest(rules, request).body = request.body
                      /\ Streamed(ApplyRequest(rules, request)) = outcome
    BY DEF RequestStreamingUnseen
  <2>1. outcome = Result /\ sent = Sending
    BY DEF IInv, RequestPhase
  <2>2. ~ Read
    BY <2>1 DEF Sending
  <2> QED BY <2>1, <2>2, StreamedResult
<1> QED BY <1>1, Invariant, PTL

-----------------------------------------------------------------------------
\* What the response phase is shown of the request, and what it would be shown
\* with the body read.
Shown == ResponseContext(NoBody).request
Whole == [Shown EXCEPT !.body = request.body]

LEMMA ShownIs ==
  /\ \A b : ResponseContext(b).request = Shown
  /\ Shown = [method |-> request.method, url |-> sent.url, headers |-> sent.headers,
              body |-> IF sent.buffered THEN request.body ELSE NoBody,
              resourceType |-> request.resourceType]
  /\ Whole = [method |-> request.method, url |-> sent.url, headers |-> sent.headers,
              body |-> request.body, resourceType |-> request.resourceType]
BY DEF Shown, Whole, ResponseContext

LEMMA MatchAlike ==
  ASSUME NEW r, NEW s, NEW t, t.url = s.url, t.method = s.method, t.headers = s.headers,
         t.resourceType = s.resourceType
  PROVE  /\ MatchesRequest(r, s, TRUE) <=> MatchesRequest(r, t, TRUE)
         /\ MatchesRequest(r, s, FALSE) => MatchesRequest(r, s, TRUE)
         /\ r.match.requestBody = {} =>
              (MatchesRequest(r, s, FALSE) <=> MatchesRequest(r, s, TRUE))
<1>1. r.match.requestBody = {} => BodyMatches(r.match.requestBody, s.body)
  BY DEF BodyMatches
<1> QED BY <1>1 DEF MatchesRequest

\* The rules do not tell the two apart: the probe of the request phase has seen
\* to it that the body was read where a rule's condition on it could be reached.
LEMMA ShownAsWhole ==
  ASSUME IInv, Ended, SameRequest \/ sent.buffered
  PROVE  SameToRules(rules, Shown, Whole)
<1>1. /\ RulesOK(rules) /\ Ran /\ sent # Nothing /\ outcome = Result /\ sent = Sending
      /\ ~ Result.blocked /\ ~ Result.mocked
      /\ IsRecord(request) /\ "url" \in DOMAIN request
      /\ RequestKeys \subseteq DOMAIN request /\ DOMAIN request \subseteq RequestKeys \union {"url"}
  BY DEF IInv, RequestShape, RequestPhase, ResponsePhase
<1>2. sent.buffered = Read /\ sent.url = outcome.url
  BY <1>1 DEF Sending
<1>3. CASE sent.buffered
  BY <1>3, ShownIs DEF SameToRules, SameToRule
<1>4. CASE ~ sent.buffered
  <2> DEFINE p == RequestRun(TRUE, rules, Streamed(request))
             w == Streamed(request)
  <2>1. outcome = p /\ ~ p.needsBody /\ ~ LaterReachable(rules, p)
    BY <1>1, <1>2, <1>4, StreamedResult DEF Read, NeedsRequestBody
  <2>2. ~ Over(p)
    BY <1>1, <2>1 DEF Over
  <2>3. IsRecord(w) /\ DOMAIN w = DOMAIN request /\ w.resourceType = request.resourceType
    BY <1>1 DEF Streamed, IsRecord, RequestKeys
  <2>4. p.resourceType = request.resourceType
    <3> HIDE DEF w
    <3>1. IsState(Begin(w), RequestFields) /\ Begin(w).resourceType = w.resourceType
      BY <1>1, <2>3, BeginOK
    <3>2. Kept(Begin(w), RequestRun(TRUE, rules, w))
      BY <1>1, <3>1, RequestOutcomeKept
    <3> QED BY <2>3, <3>1, <3>2 DEF Kept, w
  <2> HIDE DEF p, w
  <2>5. DOMAIN rules = 1..Len(rules)
    BY <1>1 DEF RulesOK
  <2>6. /\ p.url = sent.url /\ p.method = request.method /\ p.headers = sent.headers
    BY <1>2, <1>4, <2>1 DEF SameRequest
  <2>7. ASSUME NEW i \in 1..Len(rules)
        PROVE  SameToRule(rules[i], Shown, Whole)
    <3> DEFINE r == rules[i]
    <3>1. /\ Shown.url = p.url /\ Shown.method = p.method /\ Shown.headers = p.headers
          /\ Shown.resourceType = p.resourceType
          /\ Whole.url = p.url /\ Whole.method = p.method /\ Whole.headers = p.headers
          /\ Whole.resourceType = p.resourceType
      BY <2>4, <2>6, ShownIs
    <3>2. r.match.requestBody = {} \/ ~ MatchesRequest(r, p, TRUE)
      BY <2>1, <2>2, <2>5 DEF LaterReachable
    <3> HIDE DEF r
    <3>3. /\ MatchesRequest(r, Shown, TRUE) <=> MatchesRequest(r, p, TRUE)
          /\ MatchesRequest(r, Shown, FALSE) => MatchesRequest(r, Shown, TRUE)
          /\ r.match.requestBody = {} => (MatchesRequest(r, Shown, FALSE) <=> MatchesRequest(r, Shown, TRUE))
      BY <3>1, MatchAlike
    <3>4. /\ MatchesRequest(r, Whole, TRUE) <=> MatchesRequest(r, p, TRUE)
          /\ MatchesRequest(r, Whole, FALSE) => MatchesRequest(r, Whole, TRUE)
          /\ r.match.requestBody = {} => (MatchesRequest(r, Whole, FALSE) <=> MatchesRequest(r, Whole, TRUE))
      BY <3>1, MatchAlike
    <3>5. SameToRule(r, Shown, Whole)
      BY <3>2, <3>3, <3>4, Zenon DEF SameToRule
    <3> QED BY <3>5 DEF r
  <2> QED BY <2>7 DEF SameToRules
<1> QED BY <1>3, <1>4

\* The same of the response phase, as far as the request it is shown is the one
\* the probe ended with: whichever bodies were streamed, the reply has the
\* status, the headers and the delay that the rules would have given it with
\* both bodies read, and a body that was streamed is one they would have left.
THEOREM ResponseStreaming == Spec => []ResponseStreamingUnseen
<1>1. IInv => ResponseStreamingUnseen
  <2> SUFFICES ASSUME IInv, Ended, SameRequest \/ sent.buffered
               PROVE  /\ ~ replied.buffered => FullReply.body = response.body
                      /\ Done(FullReply) = Done(replied.out)
    BY DEF ResponseStreamingUnseen
  <2> DEFINE B    == response.body
             c(b) == ResponseContext(b)
             R(b) == ResponseRun(FALSE, rules, c(b))
             p    == ResponseRun(TRUE, rules, c(NoBody))
  <2>1. RulesOK(rules) /\ replied = [out |-> Reply, buffered |-> ReadReply]
    BY DEF IInv, ResponsePhase
  <2>2. SameToRules(rules, Shown, Whole)
    BY ShownAsWhole
  <2>3. /\ IsRecord(c(B)) /\ "request" \in DOMAIN c(B) /\ "body" \in DOMAIN c(B)
        /\ IsState(Begin(c(B)), ResponseFields) /\ IsState(Begin(c(NoBody)), ResponseFields)
        /\ c(NoBody) = With(c(B), NoBody) /\ c(B).body = B
    BY ReplyBeginOK DEF ResponseContext
  <2>4. FullReply = About(R(B), Whole)
    <3>1. [ResponseContext(response.body) EXCEPT !.request.body = request.body] = About(c(B), Whole)
      BY ShownIs DEF About, Whole, ResponseContext
    <3>2. FullReply = ResponseRun(FALSE, rules, About(c(B), Whole))
      BY <3>1 DEF FullReply, ApplyResponse
    <3>3. SameToRules(rules, c(B).request, Whole)
      BY <2>2, ShownIs
    <3> HIDE DEF c
    <3> QED BY <2>1, <2>3, <3>2, <3>3, RunAbout
  <2>5. Reply = R(IF ReadReply THEN B ELSE NoBody) /\ (ReadReply <=> p.needsBody)
    BY DEF Reply, ReadReply, ApplyResponse, NeedsResponseBody
  <2>6. IsState(R(B), ResponseFields)
    <3> HIDE DEF c
    <3>1. ReplyKept(Begin(c(B)), R(B))
      BY <2>1, <2>3, ResponseOutcomeKept
    <3> QED BY <2>3, <3>1, ReplyKeptOn
  <2>7. CASE ReadReply
    <3>1. Reply = R(B) /\ replied.buffered /\ replied.out = R(B)
      BY <2>1, <2>5, <2>7
    <3> HIDE DEF R, B
    <3> QED BY <2>4, <2>6, <3>1 DEF Done, About, IsState, IsRecord
  <2>8. CASE ~ ReadReply
    <3>1. Reply = R(NoBody) /\ replied.out = R(NoBody) /\ ~ p.needsBody
      BY <2>1, <2>5, <2>8
    <3> HIDE DEF c, B
    <3>2. /\ IsState(Begin(With(c(B), NoBody)), ResponseFields)
          /\ ~ ResponseRun(TRUE, rules, With(c(B), NoBody)).needsBody
      BY <2>3, <3>1
    <3>3. /\ ResponseRun(FALSE, rules, With(c(B), NoBody)) = ResponseRun(TRUE, rules, With(c(B), NoBody))
          /\ R(B) = With(ResponseRun(TRUE, rules, With(c(B), NoBody)), c(B).body)
          /\ IsState(ResponseRun(TRUE, rules, With(c(B), NoBody)), ResponseFields)
      BY <2>1, <2>3, <3>2, ResponseStreams
    <3>4. R(NoBody) = p /\ R(B) = With(p, B) /\ IsState(p, ResponseFields)
      BY <2>3, <3>3
    <3> HIDE DEF R, p
    <3>5. IsRecord(p) /\ "body" \in DOMAIN p /\ "request" \in DOMAIN p
      BY <3>4 DEF IsState, ResponseFields, Fields
    <3>6. FullReply = About(With(p, B), Whole)
      BY <2>4, <3>4
    <3>7. FullReply.body = B /\ Done(FullReply) = Done(p)
      BY <3>5, <3>6 DEF About, With, Done, IsRecord
    <3> QED BY <3>1, <3>4, <3>7 DEF B
  <2> QED BY <2>7, <2>8
<1> QED BY <1>1, Invariant, PTL

-----------------------------------------------------------------------------
\* The outcomes that are recorded, and what steps of either phase keep of their
\* contexts.
LEMMA RecordedOutcome ==
  ASSUME IInv, Ran
  PROVE  /\ outcome.delay \in 0..MaxDelay
         /\ ~ outcome.modified =>
              /\ outcome.method = request.method /\ outcome.url = request.url
              /\ outcome.headers = request.headers
              /\ sent.body = request.body /\ ~ outcome.blocked /\ ~ outcome.mocked
<1> DEFINE q == IF Read THEN request ELSE Streamed(request)
           s == Begin(q)
<1>1. /\ RulesOK(rules) /\ outcome = Result
      /\ sent = IF Result.blocked \/ Result.mocked THEN Nothing ELSE Sending
      /\ IsRecord(request) /\ "url" \in DOMAIN request
      /\ RequestKeys \subseteq DOMAIN request /\ DOMAIN request \subseteq RequestKeys \union {"url"}
  BY DEF IInv, RequestShape, RequestPhase
<1>2. Result = RequestRun(FALSE, rules, q)
  BY DEF Result, ApplyRequest
<1>3. /\ IsRecord(q) /\ DOMAIN q = DOMAIN request
      /\ q.method = request.method /\ q.url = request.url /\ q.headers = request.headers
      /\ q.body \in {NoBody, request.body}
  BY <1>1 DEF Streamed, IsRecord, RequestKeys
<1> HIDE DEF q
<1>4. /\ IsState(s, RequestFields)
      /\ ~ s.modified /\ ~ s.blocked /\ ~ s.mocked /\ s.delay = 0
      /\ s.method = q.method /\ s.url = q.url /\ s.headers = q.headers /\ s.body = q.body
  BY <1>1, <1>3, BeginOK
<1>5. Kept(s, Result)
  BY <1>1, <1>2, <1>4, RequestOutcomeKept
<1> HIDE DEF s
<1>6. outcome.delay \in 0..MaxDelay
  BY <1>1, <1>4, <1>5, DelayAssumption DEF Kept
<1>7. ASSUME ~ Result.modified
      PROVE  /\ Result.method = request.method /\ Result.url = request.url
             /\ Result.headers = request.headers /\ Result.body \in {NoBody, request.body}
             /\ ~ Result.blocked /\ ~ Result.mocked
  BY <1>3, <1>4, <1>5, <1>7 DEF Kept, Unchanged, SameRequestIn
<1>8. ASSUME ~ Result.modified PROVE sent.body = request.body
  <2>1. sent = Sending /\ ~ Edited
    BY <1>1, <1>7, <1>8 DEF Edited
  <2> QED BY <2>1 DEF Sending
<1> QED BY <1>1, <1>6, <1>7, <1>8

LEMMA RecordedReply ==
  ASSUME IInv, Ended
  PROVE  /\ replied.out.delay \in 0..MaxDelay
         /\ ~ replied.out.modified =>
              /\ replied.out.status = response.status /\ replied.out.headers = response.headers
              /\ replied.out.body \in {NoBody, response.body}
<1> DEFINE b == IF ReadReply THEN response.body ELSE NoBody
           c == ResponseContext(b)
           s == Begin(c)
<1>1. RulesOK(rules) /\ replied.out = Reply
  BY DEF IInv, ResponsePhase
<1>2. Reply = ResponseRun(FALSE, rules, c)
  BY DEF Reply, ApplyResponse
<1>3. b \in {NoBody, response.body}
  OBVIOUS
<1> HIDE DEF b
<1>4. /\ IsState(s, ResponseFields) /\ ~ s.modified /\ s.delay = 0
      /\ s.status = response.status /\ s.headers = response.headers /\ s.body = b
  BY ReplyBeginOK
<1> HIDE DEF c
<1>5. ReplyKept(s, Reply)
  BY <1>1, <1>2, <1>4, ResponseOutcomeKept
<1> HIDE DEF s
<1>6. Reply.delay \in 0..MaxDelay
  BY <1>4, <1>5, DelayAssumption DEF ReplyKept
<1>7. ~ Reply.modified =>
        /\ Reply.status = response.status /\ Reply.headers = response.headers
        /\ Reply.body \in {NoBody, response.body}
  BY <1>3, <1>4, <1>5 DEF ReplyKept, ReplyUnchanged, SameResponseIn
<1> QED BY <1>1, <1>6, <1>7

\* An exchange that is not marked as modified is what the client and the
\* upstream sent: its rules have left the method, the URL, the headers and the
\* body, and status, headers and body of the response.
THEOREM UnmodifiedMeansOriginal == Spec => []UnmodifiedIsOriginal
<1>1. IInv => UnmodifiedIsOriginal
  BY RecordedOutcome, RecordedReply DEF UnmodifiedIsOriginal
<1> QED BY <1>1, Invariant, PTL

\* What was recorded is where the exchange stands, the compiled rules are made
\* of what rules are made of, and no sum of delays leaves its integer's range.
THEOREM TypesHold == Spec => []TypeOK
<1>1. IInv => TypeOK
  <2> SUFFICES ASSUME IInv PROVE TypeOK
    OBVIOUS
  <2>1. Progress
    BY DEF IInv
  <2>2. Ran => outcome.delay \in 0..MaxDelay
    BY RecordedOutcome
  <2>3. Ended => replied.out.delay \in 0..MaxDelay
    BY RecordedReply
  <2>4. ASSUME NEW r \in Range(rules)
        PROVE  DOMAIN r.match = MatcherFields /\ \A a \in Range(r.actions) : a.type \in ActionTypes
    <3>1. \E i \in DOMAIN rules : r = rules[i]
      BY <2>4 DEF Range
    <3>2. /\ DOMAIN rules = 1..Len(rules)
          /\ \A i \in 1..Len(rules) : RuleAssumption(rules[i])
      BY DEF IInv, RulesOK
    <3>3. RuleAssumption(r)
      BY <3>1, <3>2
    <3> QED BY <3>3 DEF RuleAssumption, ActionAssumption
  <2> QED BY <2>1, <2>2, <2>3, <2>4 DEF TypeOK, Progress
<1> QED BY <1>1, Invariant, PTL

-----------------------------------------------------------------------------
\* The origin that a request claims.
Came ==
  /\ request.conn.version \in {"h1", "h2"} /\ IsHeaders(request.headers)
  /\ DOMAIN request.body = {"json"} => request.body.json \in Documents

\* The Host that the request has when it is given to dispatch.
Hosted ==
  IF ~ Ran THEN {request.url.host}
  ELSE IF HostOf(outcome.headers) # {} THEN HostOf(outcome.headers)
  ELSE IF outcome.url = request.url THEN {} ELSE {request.url.host}

SentHosted ==
  /\ IsHeaders(sent.headers) /\ HostOf(sent.headers) = Hosted
  /\ sent.url = IF Ran THEN outcome.url ELSE request.url

ClaimInv ==
  /\ Came
  /\ pc \in {"arrived", "request", "sent"} => wire = Nothing
  /\ sent # Nothing => SentHosted
  /\ ClaimsOrigin

LEMMA StrippedOK ==
  ASSUME NEW h, IsHeaders(h)
  PROVE  IsHeaders(Stripped(h)) /\ HostOf(Stripped(h)) = HostOf(h)
<1>1. "host" \notin HopByHop
  BY DEF HopByHop
<1> QED BY <1>1, WithoutOK DEF Stripped

LEMMA ReencodedOK ==
  ASSUME NEW h, IsHeaders(h), NEW b
  PROVE  IsHeaders(Reencoded(h, b)) /\ HostOf(Reencoded(h, b)) = HostOf(h)
<1> DEFINE rest == WithoutHeader(h, "content-encoding")
<1>1. "host" \notin {"content-encoding"}
  OBVIOUS
<1>2. IsHeaders(rest) /\ HostOf(rest) = HostOf(h)
  BY <1>1, WithoutOK DEF WithoutHeader
<1>3. Reencoded(h, b) = SetHeader(rest, "content-length", b)
  BY DEF Reencoded
<1>4. "content-length" # "host" /\ "content-length" # "cookie"
  OBVIOUS
<1> HIDE DEF rest
<1> QED BY <1>2, <1>3, <1>4, SetHeaderOK

LEMMA ResultHeaders ==
  ASSUME RulesOK(rules), RequestShape, "url" \in DOMAIN request, IsHeaders(request.headers)
  PROVE  IsHeaders(Result.headers) /\ Result # Nothing
<1> DEFINE q == IF Read THEN request ELSE Streamed(request)
           s == Begin(q)
<1>1. /\ IsRecord(request) /\ "url" \in DOMAIN request
      /\ RequestKeys \subseteq DOMAIN request /\ DOMAIN request \subseteq RequestKeys \union {"url"}
  BY DEF RequestShape
<1>2. Result = RequestRun(FALSE, rules, q)
  BY DEF Result, ApplyRequest
<1>3. IsRecord(q) /\ DOMAIN q = DOMAIN request /\ q.headers = request.headers
  BY <1>1 DEF Streamed, IsRecord, RequestKeys
<1> HIDE DEF q
<1>4. IsState(s, RequestFields) /\ s.headers = q.headers
  BY <1>1, <1>3, BeginOK
<1>5. Kept(s, Result)
  BY <1>2, <1>4, RequestOutcomeKept
<1> HIDE DEF s
<1>6. IsState(Result, RequestFields)
  BY <1>4, <1>5, KeptOn
<1>7. "headers" \in DOMAIN Result /\ "headers" \notin DOMAIN Nothing
  BY <1>6 DEF IsState, RequestFields, Fields, Nothing
<1>8. IsHeaders(Result.headers)
  BY <1>3, <1>4, <1>5 DEF Kept
<1> QED BY <1>7, <1>8

\* The Host of a request that the rules have run on.
LEMMA SendingHosted ==
  ASSUME IsHeaders(Result.headers)
  PROVE  /\ IsHeaders(Sending.headers) /\ Sending.url = Result.url
         /\ HostOf(Sending.headers) =
              IF HostOf(Result.headers) # {} THEN HostOf(Result.headers)
              ELSE IF Result.url = request.url THEN {} ELSE {request.url.host}
<1> DEFINE h == Stripped(Result.headers)
           o == Outbound(request, Result)
           hosts == IF HostOf(Result.headers) # {} THEN HostOf(Result.headers)
                    ELSE IF Result.url = request.url THEN {} ELSE {request.url.host}
<1>1. IsHeaders(h) /\ HostOf(h) = HostOf(Result.headers)
  BY StrippedOK
<1>2. o = IF Result.url # request.url /\ HostOf(h) = {} THEN WithHost(h, request.url.host) ELSE h
  BY DEF Outbound
<1>3. IsHeaders(WithHost(h, request.url.host)) /\ HostOf(WithHost(h, request.url.host)) = {request.url.host}
  BY <1>1, WithHostOK
<1>4. Sending.headers = (IF Edited THEN Reencoded(o, Result.body) ELSE o) /\ Sending.url = Result.url
  BY DEF Sending
<1> HIDE DEF h, o
<1>5. IsHeaders(o) /\ HostOf(o) = hosts
  BY <1>1, <1>2, <1>3
<1> HIDE DEF hosts
<1>6. IsHeaders(Reencoded(o, Result.body)) /\ HostOf(Reencoded(o, Result.body)) = hosts
  BY <1>5, ReencodedOK
<1>7. IsHeaders(Sending.headers) /\ HostOf(Sending.headers) = hosts
  BY <1>4, <1>5, <1>6
<1> QED BY <1>4, <1>7 DEF hosts

\* Framed for any protocol, it claims the origin it is to claim.
LEMMA FramedClaim ==
  ASSUME Came, SentHosted, NEW w,
         Framed(w, request.conn.version, sent.url, sent.headers, settings.proxy)
  PROVE  /\ Told(w) = Claimed
         /\ Cookies(w.headers) = Cookies(sent.headers)
         /\ Destination(w, sent.url, settings.proxy)
              \in IF Misrouted THEN Claimed ELSE {sent.url.host}
<1>1. /\ Told(w) = IF request.conn.version = "h1" \/ Hosted # {} THEN Hosted ELSE {sent.url.host}
      /\ Cookies(w.headers) = Cookies(sent.headers)
      /\ Destination(w, sent.url, settings.proxy) \in IF Misrouted THEN Told(w) ELSE {sent.url.host}
  BY DEF Framed, SentHosted, Misrouted
<1>2. Told(w) = Claimed
  <2>1. CASE ~ Ran
    <3>1. Hosted = {request.url.host} /\ Claimed = {request.url.host}
      BY <2>1 DEF Hosted, Claimed, Ran
    <3> QED BY <1>1, <3>1
  <2>2. CASE Ran /\ HostOf(outcome.headers) # {}
    <3>1. Hosted = HostOf(outcome.headers) /\ Claimed = HostOf(outcome.headers)
      BY <2>2 DEF Hosted, Claimed, Ran
    <3> QED BY <1>1, <2>2, <3>1
  <2>3. CASE Ran /\ HostOf(outcome.headers) = {}
    <3>1. /\ Hosted = IF outcome.url = request.url THEN {} ELSE {request.url.host}
          /\ Claimed = IF request.conn.version = "h1" /\ outcome.url = request.url THEN {}
                       ELSE {request.url.host}
      BY <2>3 DEF Hosted, Claimed, Ran
    <3>2. sent.url = outcome.url /\ request.conn.version \in {"h1", "h2"}
      BY <2>3 DEF SentHosted, Came
    <3> QED BY <1>1, <3>1, <3>2
  <2> QED BY <2>1, <2>2, <2>3
<1> QED BY <1>1, <1>2

LEMMA ReceivedIs ==
  ASSUME RequestShape, Came, request' = Received
  PROVE  request'.url = Target /\ request'.headers = Stripped(request.headers) /\ Came'
<1> DEFINE u == [url |-> Target, headers |-> Stripped(request.headers)]
<1>1. DOMAIN u = {"url", "headers"} /\ u.url = Target /\ u.headers = Stripped(request.headers)
  OBVIOUS
<1>2. request' = Extended(u, request)
  BY DEF Received
<1> HIDE DEF u
<1>3. \A x \in DOMAIN u : request'[x] = u[x]
  BY <1>2 DEF Extended
<1>4. \A x \in DOMAIN request \ DOMAIN u : request'[x] = request[x]
  BY <1>2 DEF Extended
<1>5. request'.url = Target /\ request'.headers = Stripped(request.headers)
  BY <1>1, <1>3
<1>6. "conn" \in DOMAIN request \ DOMAIN u /\ "body" \in DOMAIN request \ DOMAIN u
  BY <1>1 DEF RequestShape, RequestKeys
<1>7. request'.conn = request.conn /\ request'.body = request.body
  BY <1>4, <1>6
<1>8. IsHeaders(request'.headers)
  BY <1>5, StrippedOK DEF Came
<1> QED BY <1>5, <1>7, <1>8 DEF Came

\* What does not touch any of it.
LEMMA ClaimSame ==
  ASSUME ClaimInv, UNCHANGED <<settings, request, outcome, sent, wire>>,
         pc' \in {"arrived", "request", "sent"} => pc \in {"arrived", "request", "sent"}
  PROVE  ClaimInv'
<1>1. Came' /\ ClaimsOrigin'
  BY DEF ClaimInv, Came, ClaimsOrigin, Claimed, Misrouted
<1>2. sent' # Nothing => SentHosted'
  BY DEF ClaimInv, SentHosted, Hosted, Ran
<1>3. pc' \in {"arrived", "request", "sent"} => wire' = Nothing
  BY DEF ClaimInv
<1> QED BY <1>1, <1>2, <1>3 DEF ClaimInv

LEMMA ClaimInit == Init => ClaimInv
<1> SUFFICES ASSUME Init PROVE ClaimInv
  OBVIOUS
<1>1. request \in Requests /\ sent = Nothing /\ wire = Nothing
  BY DEF Init
<1>2. Came
  BY <1>1, RequestsAssumption DEF Came
<1> QED BY <1>1, <1>2 DEF ClaimInv, ClaimsOrigin

LEMMA ClaimNext == IInv /\ ClaimInv /\ [Next]_vars => ClaimInv'
<1> SUFFICES ASSUME IInv, ClaimInv, [Next]_vars PROVE ClaimInv'
  OBVIOUS
<1>1. RulesOK(rules) /\ RequestShape /\ Progress /\ Came
  BY DEF IInv, ClaimInv
<1>2. CASE UNCHANGED vars
  BY <1>2, ClaimSame DEF vars
<1>3. CASE Refuse \/ RequestUnreadable \/ Respond \/ Fail \/ RunResponseRules
  <2>1. UNCHANGED <<settings, request, outcome, sent, wire>> /\ pc' \in {"answered", "response"}
    BY <1>3 DEF Refuse, RequestUnreadable, Respond, Fail, RunResponseRules
  <2> QED BY <2>1, ClaimSame
<1>4. CASE ForwardUntouched
  <2>1. /\ pc = "arrived" /\ UNCHANGED <<outcome, wire>> /\ request' = Received
        /\ sent'.headers = WithHost(Stripped(request.headers), Target.host) /\ sent'.url = Target
    BY <1>4 DEF ForwardUntouched, Admitted
  <2>2. request'.url = Target /\ Came'
    BY <1>1, <2>1, ReceivedIs
  <2>3. ~ Ran' /\ wire' = Nothing
    BY <1>1, <2>1 DEF ClaimInv, Progress, Ran
  <2>4. IsHeaders(Stripped(request.headers))
    BY <1>1, StrippedOK DEF Came
  <2>5. IsHeaders(sent'.headers) /\ HostOf(sent'.headers) = {Target.host}
    BY <2>1, <2>4, WithHostOK
  <2>6. SentHosted'
    BY <2>1, <2>2, <2>3, <2>5 DEF SentHosted, Hosted
  <2> QED BY <2>2, <2>3, <2>6 DEF ClaimInv, ClaimsOrigin
<1>5. CASE Capture
  <2>1. /\ pc = "arrived" /\ UNCHANGED <<sent, wire>> /\ request' = Received
    BY <1>5 DEF Capture, Admitted
  <2>2. Came'
    BY <1>1, <2>1, ReceivedIs
  <2>3. sent' = Nothing /\ wire' = Nothing
    BY <1>1, <2>1 DEF ClaimInv, Progress
  <2> QED BY <2>2, <2>3 DEF ClaimInv, ClaimsOrigin
<1>6. CASE RunRequestRules
  <2>1. /\ pc = "request" /\ UNCHANGED <<rules, request, wire>>
        /\ outcome' = Result
        /\ sent' = sent \/ sent' = Sending
    BY <1>6 DEF RunRequestRules, Result, Read, Sending, Edited
  <2>2. sent = Nothing /\ wire' = Nothing /\ Came' /\ "url" \in DOMAIN request
    BY <1>1, <2>1 DEF ClaimInv, Progress, RequestShape, Came
  <2>3. IsHeaders(Result.headers) /\ Result # Nothing
    BY <1>1, <2>2, ResultHeaders DEF Came
  <2>4. ASSUME sent' = Sending PROVE SentHosted'
    <3>1. Ran' /\ outcome' = Result /\ request' = request
      BY <2>1, <2>3 DEF Ran
    <3>2. /\ IsHeaders(Sending.headers) /\ Sending.url = Result.url
          /\ HostOf(Sending.headers) =
               IF HostOf(Result.headers) # {} THEN HostOf(Result.headers)
               ELSE IF Result.url = request.url THEN {} ELSE {request.url.host}
      BY <2>3, SendingHosted
    <3>3. Hosted' = IF HostOf(Result.headers) # {} THEN HostOf(Result.headers)
                    ELSE IF Result.url = request.url THEN {} ELSE {request.url.host}
      BY <3>1 DEF Hosted
    <3> QED BY <2>4, <3>1, <3>2, <3>3 DEF SentHosted
  <2> QED BY <2>1, <2>2, <2>4 DEF ClaimInv, ClaimsOrigin
<1>7. CASE Dispatch
  <2> DEFINE via == settings.proxy
             version == request.conn.version
  <2>1. /\ pc = "sent" /\ pc' = "waiting" /\ UNCHANGED <<settings, request, outcome, sent>>
        /\ \E v \in Negotiable(version, sent.url) :
             wire' = Adapted(BuildOutbound(version, sent.url, sent.headers, via), v, via, sent.url)
    BY <1>7 DEF Dispatch
  <2>2. sent # Nothing /\ SentHosted
    BY <1>1, <2>1 DEF ClaimInv, Progress
  <2>3. version \in {"h1", "h2"} /\ IsHeaders(sent.headers)
    BY <1>1, <2>2 DEF Came, SentHosted
  <2>4. Framed(wire', version, sent.url, sent.headers, via)
    BY <2>1, <2>3, Framing
  <2>5. /\ Told(wire') = Claimed
        /\ Cookies(wire'.headers) = Cookies(sent.headers)
        /\ Destination(wire', sent.url, via) \in IF Misrouted THEN Claimed ELSE {sent.url.host}
    BY <1>1, <2>2, <2>4, FramedClaim
  <2>6. Claimed' = Claimed /\ (Misrouted' <=> Misrouted) /\ Came' /\ SentHosted'
    BY <1>1, <2>1, <2>2 DEF Claimed, Misrouted, Came, SentHosted, Hosted, Ran
  <2>7. ClaimsOrigin'
    BY <2>1, <2>5, <2>6 DEF ClaimsOrigin
  <2> QED BY <2>1, <2>6, <2>7 DEF ClaimInv
<1> QED BY <1>2, <1>3, <1>4, <1>5, <1>6, <1>7 DEF Next

LEMMA ClaimInvariant == Spec => [](IInv /\ ClaimInv)
<1>1. Init => IInv /\ ClaimInv
  BY InitInv, ClaimInit
<1>2. IInv /\ ClaimInv /\ [Next]_vars => (IInv /\ ClaimInv)'
  BY NextInv, ClaimNext
<1> QED BY <1>1, <1>2, PTL DEF Spec

\* Whatever protocols the client and the upstream speak, and whatever the rules
\* have made of the request, the origin is told the Host that the client sent or
\* a rule set, or else the host that the request was made to; every cookie
\* reaches it in its order; and the message ends up at the host of the URL that
\* the rules left, except for the one kind of request that ClaimsOrigin names.
THEOREM OriginIsClaimed == Spec => []ClaimsOrigin
<1>1. IInv /\ ClaimInv => ClaimsOrigin
  BY DEF ClaimInv
<1> QED BY <1>1, ClaimInvariant, PTL

-----------------------------------------------------------------------------
\* JSON patches.  The steps of Lookup and of JsonSet.
\* The way down a document, segment by segment.
LookupGoes(f, doc, segments) ==
  /\ f[0] = One(doc)
  /\ \A i \in 1..Len(segments) : f[i] = Step(f[i - 1], segments[i])
  /\ Lookup(doc, segments) = f[Len(segments)]

LEMMA LookupSteps ==
  ASSUME NEW doc, NEW segments, Len(segments) \in Nat
  PROVE  \E f : LookupGoes(f, doc, segments)
<1> DEFINE n == Len(segments)
           F(k, f) == [i \in 0..k |-> IF i = 0 THEN One(doc)
                                      ELSE Step(f[i - 1], segments[i])]
           S == {k \in Nat : \E f : f = F(k, f)}
           g == CHOOSE f : f = F(n, f)
<1>1. 0 \in S
  <2> DEFINE f == [i \in 0..0 |-> One(doc)]
  <2>1. f = F(0, f)
    OBVIOUS
  <2> QED BY <2>1
<1>2. ASSUME NEW k \in Nat, k \in S PROVE k + 1 \in S
  <2>1. PICK f : f = F(k, f)
    BY <1>2
  <2>2. /\ f[0] = One(doc)
        /\ \A i \in 1..k : f[i] = Step(f[i - 1], segments[i])
    BY <2>1
  <2> DEFINE h == [i \in 0..(k + 1) |-> IF i <= k THEN f[i]
                                        ELSE Step(f[k], segments[k + 1])]
  <2>3. /\ h[0] = f[0] /\ h[k] = f[k]
        /\ \A i \in 1..k : h[i] = f[i] /\ h[i - 1] = f[i - 1]
        /\ h[k + 1] = Step(f[k], segments[(k + 1)])
    OBVIOUS
  <2>4. h = [i \in 0..(k + 1) |-> h[i]]
    OBVIOUS
  <2> HIDE DEF h
  <2>5. ASSUME NEW i \in 0..(k + 1) PROVE h[i] = F(k + 1, h)[i]
    <3>1. CASE i = 0
      BY <2>2, <2>3, <3>1
    <3>2. CASE i \in 1..k
      BY <2>2, <2>3, <3>2
    <3>3. CASE i = k + 1
      BY <2>3, <3>3
    <3> QED BY <3>1, <3>2, <3>3
  <2>6. h = F(k + 1, h)
    BY <2>4, <2>5
  <2> QED BY <2>6
<1>3. n \in S
  <2> HIDE DEF S
  <2> QED BY <1>1, <1>2, Ring!SetInduction
<1>4. g = F(n, g)
  BY <1>3
<1>5. Lookup(doc, segments) = g[n]
  BY DEF Lookup, One
<1> HIDE DEF g
<1>6. /\ g[0] = One(doc)
      /\ \A i \in 1..n : g[i] = Step(g[i - 1], segments[i])
  BY <1>4
<1> QED BY <1>5, <1>6 DEF LookupGoes

\* What is below a place of a document that is written to, from the end of its
\* path upwards.
There(found) == IF found = <<>> THEN Null ELSE found[1]
BelowNext(doc, path, before, k) ==
  Put(There(Lookup(doc, SubSeq(path, 1, Len(path) - k))), path[Len(path) - k + 1], before)

\* A place of a document is written to.
BelowGoes(f, doc, path, value) ==
  /\ f[0] = value
  /\ \A i \in 1..Len(path) : f[i] = BelowNext(doc, path, f[i - 1], i)
  /\ JsonSet(doc, path, value) = f[Len(path)]

LEMMA BelowSteps ==
  ASSUME NEW doc, NEW path, NEW value, Len(path) \in Nat
  PROVE  \E f : BelowGoes(f, doc, path, value)
<1> DEFINE n == Len(path)
           F(k, f) == [i \in 0..k |-> IF i = 0 THEN value
                                      ELSE BelowNext(doc, path, f[i - 1], i)]
           S == {k \in Nat : \E f : f = F(k, f)}
           g == CHOOSE f : f = F(n, f)
<1>1. 0 \in S
  <2> DEFINE f == [i \in 0..0 |-> value]
  <2>1. f = F(0, f)
    OBVIOUS
  <2> QED BY <2>1
<1>2. ASSUME NEW k \in Nat, k \in S PROVE k + 1 \in S
  <2>1. PICK f : f = F(k, f)
    BY <1>2
  <2>2. /\ f[0] = value
        /\ \A i \in 1..k : f[i] = BelowNext(doc, path, f[i - 1], i)
    BY <2>1
  <2> DEFINE h == [i \in 0..(k + 1) |-> IF i <= k THEN f[i]
                                        ELSE BelowNext(doc, path, f[k], k + 1)]
  <2>3. /\ h[0] = f[0] /\ h[k] = f[k]
        /\ \A i \in 1..k : h[i] = f[i] /\ h[i - 1] = f[i - 1]
        /\ h[k + 1] = BelowNext(doc, path, f[k], (k + 1))
    OBVIOUS
  <2>4. h = [i \in 0..(k + 1) |-> h[i]]
    OBVIOUS
  <2> HIDE DEF h
  <2>5. ASSUME NEW i \in 0..(k + 1) PROVE h[i] = F(k + 1, h)[i]
    <3>1. CASE i = 0
      BY <2>2, <2>3, <3>1
    <3>2. CASE i \in 1..k
      BY <2>2, <2>3, <3>2
    <3>3. CASE i = k + 1
      BY <2>3, <3>3
    <3> QED BY <3>1, <3>2, <3>3
  <2>6. h = F(k + 1, h)
    BY <2>4, <2>5
  <2> QED BY <2>6
<1>3. n \in S
  <2> HIDE DEF S
  <2> QED BY <1>1, <1>2, Ring!SetInduction
<1>4. g = F(n, g)
  BY <1>3
<1>5. JsonSet(doc, path, value) = g[n]
  BY DEF JsonSet, BelowNext, There
<1> HIDE DEF g
<1>6. /\ g[0] = value
      /\ \A i \in 1..n : g[i] = BelowNext(doc, path, g[i - 1], i)
  BY <1>4
<1> QED BY <1>5, <1>6 DEF BelowGoes

-----------------------------------------------------------------------------
\* Documents and paths.
Solid(v) == IsArr(v) => IsList(v.arr)

IsStep(seg) ==
  IF IsKey(seg) THEN seg = Key(seg.key) ELSE seg = Index(seg.index) /\ seg.index \in Nat
IsWay(p) == IsList(p) /\ \A i \in 1..Len(p) : IsStep(p[i])

LEMMA OneIs ==
  ASSUME NEW v
  PROVE  One(v) # Nil /\ One(v)[1] = v /\ There(One(v)) = v /\ There(Nil) = Null
BY DEF One, Nil, There

LEMMA StepOne ==
  ASSUME NEW v, NEW seg
  PROVE  Step(One(v), seg) =
           IF IsKey(seg)
           THEN IF IsObj(v) /\ seg.key \in DOMAIN v.obj THEN One(v.obj[seg.key]) ELSE Nil
           ELSE IF IsArr(v) /\ seg.index < Len(v.arr) THEN One(v.arr[seg.index + 1]) ELSE Nil
<1>1. <<v>> # <<>> /\ <<v>>[1] = v
  OBVIOUS
<1> QED BY <1>1 DEF Step, One, Nil

LEMMA StepNil ==
  ASSUME NEW seg
  PROVE  Step(Nil, seg) = Nil
BY DEF Step, Nil

LEMMA Kinds ==
  /\ \A f : IsObj(Obj(f)) /\ ~ IsArr(Obj(f)) /\ Obj(f).obj = f
  /\ \A s : IsArr(Arr(s)) /\ ~ IsObj(Arr(s)) /\ Arr(s).arr = s
  /\ \A v : ~ (IsObj(v) /\ IsArr(v))
  /\ ~ IsObj(Null) /\ ~ IsArr(Null)
BY DEF IsObj, IsArr, Obj, Arr, Null

LEMMA LenOfList ==
  ASSUME NEW m \in Nat, NEW e, e = [i \in 1..m |-> e[i]]
  PROVE  IsList(e) /\ Len(e) = m
<1> DEFINE S == {e[i] : i \in 1..m}
<1>1. \A i \in 1..m : e[i] \in S
  OBVIOUS
<1> HIDE DEF S
<1>2. e \in [1..m -> S]
  BY <1>1
<1>3. e \in Seq(S) /\ DOMAIN e = 1..m
  BY <1>2
<1>4. IsList(e)
  BY <1>3, ListOf
<1>5. Len(e) \in Nat /\ DOMAIN e = 1..Len(e)
  BY <1>3
<1>6. Len(e) = m
  <2> DEFINE l == Len(e)
  <2>1. l \in Nat /\ 1..l = 1..m
    BY <1>3, <1>5
  <2> HIDE DEF l
  <2>2. l \in 1..m \/ l = 0
    BY <2>1
  <2>3. m \in 1..l \/ m = 0
    BY <2>1
  <2>4. l = m
    BY <2>1, <2>2, <2>3
  <2> QED BY <2>4 DEF l
<1> QED BY <1>4, <1>6

\* An element is put in its place, and nothing else moves.
LEMMA PutElementOK ==
  ASSUME NEW s, IsList(s), NEW i \in Nat, NEW x
  PROVE  LET e == PutElement(s, i, x) IN
         /\ IsList(e) /\ i < Len(e) /\ e[i + 1] = x
         /\ \A j \in Nat : j # i /\ j < Len(s) => j < Len(e) /\ e[j + 1] = s[j + 1]
<1> DEFINE m == IF Len(s) > i THEN Len(s) ELSE i + 1
           e == PutElement(s, i, x)
<1>1. Len(s) \in Nat
  BY ListIs
<1>2. m \in Nat /\ i + 1 \in 1..m /\ \A j \in Nat : j < Len(s) => j + 1 \in 1..m
  BY <1>1
<1>3. e = [n \in 1..m |-> IF n = i + 1 THEN x ELSE IF n <= Len(s) THEN s[n] ELSE Null]
  BY DEF PutElement
<1> HIDE DEF m, e
<1>4. e = [n \in 1..m |-> e[n]]
  BY <1>3
<1>5. IsList(e) /\ Len(e) = m
  BY <1>2, <1>4, LenOfList
<1>6. e[i + 1] = x
  BY <1>2, <1>3
<1>7. ASSUME NEW j \in Nat, j # i, j < Len(s) PROVE e[j + 1] = s[j + 1]
  <2>1. j + 1 \in 1..m /\ j + 1 # i + 1 /\ j + 1 <= Len(s)
    BY <1>1, <1>2, <1>7
  <2> QED BY <1>3, <2>1
<1>8. i < m /\ \A j \in Nat : j < Len(s) => j < m
  BY <1>1, <1>2
<1> QED BY <1>5, <1>6, <1>7, <1>8 DEF e

\* What is put below v is found there.
LEMMA PutGet ==
  ASSUME NEW v, Solid(v), NEW seg, IsStep(seg), NEW x
  PROVE  Step(One(Put(v, seg, x)), seg) = One(x)
<1>1. CASE IsKey(seg)
  <2> DEFINE m == PutMember(Members(v), seg.key, x)
  <2>1. seg.key \in DOMAIN m /\ m[seg.key] = x
    BY DEF PutMember
  <2> HIDE DEF m
  <2>2. Put(v, seg, x) = Obj(m)
    BY <1>1 DEF Put, m
  <2> QED BY <1>1, <2>1, <2>2, StepOne, Kinds
<1>2. CASE ~ IsKey(seg)
  <2> DEFINE e == PutElement(Elements(v), seg.index, x)
  <2>1. IsList(Elements(v)) /\ seg.index \in Nat
    BY <1>2, NilIsList DEF Elements, Solid, IsStep
  <2>2. seg.index < Len(e) /\ e[seg.index + 1] = x
    BY <2>1, PutElementOK
  <2> HIDE DEF e
  <2>3. Put(v, seg, x) = Arr(e)
    BY <1>2 DEF Put, e
  <2> QED BY <1>2, <2>2, <2>3, StepOne, Kinds
<1> QED BY <1>1, <1>2

\* What else there is below v stays, if v is of the kind that is put below.
LEMMA PutOther ==
  ASSUME NEW v, Solid(v), NEW seg, IsStep(seg), NEW x, NEW other, IsStep(other), other # seg,
         IF IsKey(seg) THEN IsObj(v) ELSE IsArr(v), Step(One(v), other) # Nil
  PROVE  Step(One(Put(v, seg, x)), other) = Step(One(v), other)
<1>1. CASE IsKey(seg)
  <2> DEFINE m == PutMember(v.obj, seg.key, x)
  <2>1. IsObj(v) /\ ~ IsArr(v) /\ Members(v) = v.obj
    BY <1>1, Kinds DEF Members
  <2>2. IsKey(other) /\ other.key \in DOMAIN v.obj
    BY <2>1, StepOne
  <2>3. other.key # seg.key
    BY <1>1, <2>2 DEF IsStep
  <2>4. other.key \in DOMAIN m /\ m[other.key] = v.obj[other.key]
    BY <2>2, <2>3 DEF PutMember
  <2> HIDE DEF m
  <2>5. Put(v, seg, x) = Obj(m)
    BY <1>1, <2>1 DEF Put, m
  <2>6. Step(One(Put(v, seg, x)), other) = One(v.obj[other.key])
    BY <2>2, <2>4, <2>5, StepOne, Kinds
  <2>7. Step(One(v), other) = One(v.obj[other.key])
    BY <2>1, <2>2, StepOne
  <2> QED BY <2>6, <2>7
<1>2. CASE ~ IsKey(seg)
  <2> DEFINE e == PutElement(v.arr, seg.index, x)
             j == other.index
  <2>1. IsArr(v) /\ ~ IsObj(v) /\ Elements(v) = v.arr /\ IsList(v.arr)
    BY <1>2, Kinds DEF Elements, Solid
  <2>2. ~ IsKey(other) /\ j < Len(v.arr)
    BY <2>1, StepOne
  <2>3. j # seg.index /\ j \in Nat /\ seg.index \in Nat
    BY <1>2, <2>2 DEF IsStep
  <2>4. j < Len(e) /\ e[j + 1] = v.arr[j + 1]
    BY <2>1, <2>2, <2>3, PutElementOK
  <2> HIDE DEF e
  <2>5. Put(v, seg, x) = Arr(e)
    BY <1>2, <2>1 DEF Put, e
  <2>6. Step(One(Put(v, seg, x)), other) = One(v.arr[j + 1])
    BY <2>2, <2>4, <2>5, StepOne, Kinds
  <2>7. Step(One(v), other) = One(v.arr[j + 1])
    BY <2>1, <2>2, StepOne
  <2> QED BY <2>6, <2>7
<1> QED BY <1>1, <1>2

\* A member that is removed is not there, and the other members are.
LEMMA WithoutGet ==
  ASSUME NEW v, NEW seg, IsKey(seg)
  PROVE  Step(One(WithoutChild(v, seg)), seg) = Nil
<1>1. CASE Step(One(v), seg) = Nil
  <2>1. WithoutChild(v, seg) = v
    BY <1>1 DEF WithoutChild, One, Nil
  <2> QED BY <1>1, <2>1
<1>2. CASE Step(One(v), seg) # Nil
  <2> DEFINE m == [k \in DOMAIN v.obj \ {seg.key} |-> v.obj[k]]
  <2>1. WithoutChild(v, seg) = Obj(m)
    BY <1>2 DEF WithoutChild, One, Nil
  <2>2. seg.key \notin DOMAIN m
    OBVIOUS
  <2> HIDE DEF m
  <2> QED BY <2>1, <2>2, StepOne, Kinds
<1> QED BY <1>1, <1>2

LEMMA WithoutOther ==
  ASSUME NEW v, NEW seg, IsKey(seg), IsStep(seg), NEW other, IsStep(other), other # seg
  PROVE  Step(One(WithoutChild(v, seg)), other) = Step(One(v), other)
<1>1. CASE Step(One(v), seg) = Nil
  <2>1. WithoutChild(v, seg) = v
    BY <1>1 DEF WithoutChild, One, Nil
  <2> QED BY <2>1
<1>2. CASE Step(One(v), seg) # Nil
  <2> DEFINE m == [k \in DOMAIN v.obj \ {seg.key} |-> v.obj[k]]
  <2>1. WithoutChild(v, seg) = Obj(m)
    BY <1>2 DEF WithoutChild, One, Nil
  <2>2. IsObj(v) /\ ~ IsArr(v)
    BY <1>2, StepOne, Kinds
  <2>3. CASE IsKey(other)
    <3>1. other.key # seg.key
      BY <2>3 DEF IsStep
    <3>2. /\ other.key \in DOMAIN m <=> other.key \in DOMAIN v.obj
          /\ other.key \in DOMAIN m => m[other.key] = v.obj[other.key]
      BY <3>1
    <3> HIDE DEF m
    <3> QED BY <2>1, <2>2, <2>3, <3>2, StepOne, Kinds
  <2>4. CASE ~ IsKey(other)
    <3> HIDE DEF m
    <3> QED BY <2>1, <2>2, <2>4, StepOne, Kinds
  <2> QED BY <2>3, <2>4
<1> QED BY <1>1, <1>2

-----------------------------------------------------------------------------
\* The ways down two documents.
LEMMA WayTo ==
  ASSUME NEW p, IsWay(p), NEW k \in 0..Len(p)
  PROVE  LET s == SubSeq(p, 1, k) IN
         IsWay(s) /\ Len(s) = k /\ \A i \in 1..k : s[i] = p[i]
<1> DEFINE S == Range(p)
           s == SubSeq(p, 1, k)
<1>1. p \in Seq(S) /\ Len(p) \in Nat
  BY ListIs DEF IsWay, IsList
<1> HIDE DEF S
<1>2. k \in Nat /\ k <= Len(p)
  BY <1>1
<1>3. s \in Seq(S) /\ Len(s) = k /\ \A i \in 1..k : s[i] = p[i]
  BY <1>1, <1>2
<1> HIDE DEF s
<1>4. IsList(s)
  BY <1>3, ListOf
<1>5. \A i \in 1..k : IsStep(s[i])
  BY <1>1, <1>2, <1>3 DEF IsWay
<1>6. IsWay(s)
  BY <1>3, <1>4, <1>5 DEF IsWay
<1> QED BY <1>3, <1>6 DEF s

\* Two ways that take the same steps from the same place.
Together(f, p, g, q, a, b) ==
  \A i \in (a + 1)..b : f[i] = Step(f[i - 1], p[i]) /\ g[i] = Step(g[i - 1], q[i]) /\ p[i] = q[i]
Alike(f, g, a, b) == \A i \in a..b : f[i] = g[i]

LEMMA SameOnward ==
  ASSUME NEW a \in Nat, NEW b \in Nat, a <= b, NEW f, NEW g, NEW p, NEW q, f[a] = g[a],
         Together(f, p, g, q, a, b)
  PROVE  Alike(f, g, a, b)
<1> DEFINE S == {k \in Nat : a + k <= b => f[a + k] = g[a + k]}
<1>1. 0 \in S
  OBVIOUS
<1>2. ASSUME NEW k \in Nat, k \in S PROVE k + 1 \in S
  <2> SUFFICES ASSUME a + (k + 1) <= b PROVE f[a + (k + 1)] = g[a + (k + 1)]
    OBVIOUS
  <2> DEFINE i == a + (k + 1)
  <2>1. i \in (a + 1)..b /\ i - 1 = a + k /\ a + k <= b
    OBVIOUS
  <2>2. f[a + k] = g[a + k]
    BY <1>2, <2>1
  <2> HIDE DEF i
  <2>3. f[i] = g[i]
    BY <2>1, <2>2 DEF Together
  <2> QED BY <2>3 DEF i
<1>3. \A k \in Nat : k \in S
  <2> HIDE DEF S
  <2> QED BY <1>1, <1>2, Ring!SetInduction
<1>4. ASSUME NEW i \in a..b PROVE f[i] = g[i]
  <2>1. i - a \in Nat /\ a + (i - a) = i /\ i <= b
    OBVIOUS
  <2>2. i - a \in S
    BY <1>3, <2>1
  <2> QED BY <2>1, <2>2
<1> QED BY <1>4 DEF Alike

\* The way to a place on the way.
LEMMA FoundTo ==
  ASSUME NEW doc, NEW p, IsWay(p), NEW f, LookupGoes(f, doc, p), NEW k \in 0..Len(p)
  PROVE  Lookup(doc, SubSeq(p, 1, k)) = f[k]
<1> DEFINE s == SubSeq(p, 1, k)
<1>1. IsWay(s) /\ Len(s) = k /\ \A i \in 1..k : s[i] = p[i]
  BY WayTo
<1>2. Len(p) \in Nat
  BY ListIs DEF IsWay
<1>3. k \in Nat /\ k <= Len(p) /\ 0 <= k /\ k \in 0..k
  BY <1>2
<1> HIDE DEF s
<1>4. PICK g : LookupGoes(g, doc, s)
  BY <1>1, <1>3, LookupSteps
<1>5. /\ g[0] = One(doc) /\ Lookup(doc, s) = g[k]
      /\ \A i \in 1..k : g[i] = Step(g[i - 1], s[i])
  BY <1>1, <1>4 DEF LookupGoes
<1>6. f[0] = One(doc) /\ \A i \in 1..k : f[i] = Step(f[i - 1], p[i])
  BY <1>2, <1>3 DEF LookupGoes
<1>7. Together(f, p, g, s, 0, k)
  <2>1. 0 + 1 = 1
    OBVIOUS
  <2> QED BY <1>1, <1>5, <1>6, <2>1 DEF Together
<1>8. 0 \in Nat /\ f[0] = g[0]
  BY <1>5, <1>6
<1>9. Alike(f, g, 0, k)
  BY <1>3, <1>7, <1>8, SameOnward
<1>10. f[k] = g[k]
  BY <1>3, <1>9 DEF Alike
<1> QED BY <1>5, <1>10 DEF s

\* What is found in a document is a document.
IsFound(x) == x = Nil \/ \E v \in Documents : x = One(v)

LEMMA FoundIn ==
  ASSUME NEW doc \in Documents, NEW p, IsWay(p), NEW f, LookupGoes(f, doc, p)
  PROVE  \A k \in 0..Len(p) : IsFound(f[k])
<1>1. Len(p) \in Nat
  BY ListIs DEF IsWay
<1>2. /\ f[0] = One(doc)
      /\ \A i \in 1..Len(p) : f[i] = Step(f[i - 1], p[i]) /\ IsStep(p[i])
  BY DEF LookupGoes, IsWay
<1> DEFINE n == Len(p)
           S == {k \in Nat : k <= n => IsFound(f[k])}
<1> HIDE DEF n
<1>3. 0 \in S
  BY <1>2 DEF IsFound
<1>4. ASSUME NEW k \in Nat, k \in S PROVE k + 1 \in S
  <2> SUFFICES ASSUME k + 1 <= n PROVE IsFound(f[k + 1])
    OBVIOUS
  <2> DEFINE seg == p[k + 1]
  <2>1. IsFound(f[k]) /\ f[k + 1] = Step(f[k], seg) /\ IsStep(seg)
    BY <1>1, <1>2, <1>4 DEF n
  <2> HIDE DEF seg
  <2>2. CASE f[k] = Nil
    BY <2>1, <2>2, StepNil DEF IsFound
  <2>3. CASE f[k] # Nil
    <3>1. PICK v \in Documents : f[k] = One(v)
      BY <2>1, <2>3 DEF IsFound
    <3>2. CASE IsKey(seg) /\ IsObj(v) /\ seg.key \in DOMAIN v.obj
      <4>1. v.obj[seg.key] \in Documents
        BY <3>2, DocumentsAssumption DEF Range
      <4>2. f[k + 1] = One(v.obj[seg.key])
        BY <2>1, <3>1, <3>2, StepOne
      <4> QED BY <4>1, <4>2 DEF IsFound
    <3>3. CASE ~ IsKey(seg) /\ IsArr(v) /\ seg.index < Len(v.arr)
      <4>1. v.arr \in Seq(Documents) /\ seg.index \in Nat
        BY <2>1, <3>3, DocumentsAssumption DEF IsStep
      <4>2. v.arr[seg.index + 1] \in Documents
        BY <3>3, <4>1
      <4>3. f[k + 1] = One(v.arr[seg.index + 1])
        BY <2>1, <3>1, <3>3, StepOne
      <4> QED BY <4>2, <4>3 DEF IsFound
    <3>4. CASE ~ (IsKey(seg) /\ IsObj(v) /\ seg.key \in DOMAIN v.obj)
               /\ ~ (~ IsKey(seg) /\ IsArr(v) /\ seg.index < Len(v.arr))
      <4>1. f[k + 1] = Nil
        BY <2>1, <3>1, <3>4, StepOne
      <4> QED BY <4>1 DEF IsFound
    <3> QED BY <3>2, <3>3, <3>4
  <2> QED BY <2>2, <2>3
<1>5. \A k \in Nat : k \in S
  <2> HIDE DEF S
  <2> QED BY <1>3, <1>4, Ring!SetInduction
<1> QED BY <1>1, <1>5 DEF n

LEMMA FoundSolid ==
  ASSUME NEW x, IsFound(x)
  PROVE  Solid(There(x)) /\ (x # Nil => x = One(There(x)))
<1>1. CASE x = Nil
  BY <1>1, OneIs, Kinds DEF Solid
<1>2. CASE x # Nil
  <2>1. PICK v \in Documents : x = One(v)
    BY <1>2 DEF IsFound
  <2>2. IsArr(v) => IsList(v.arr)
    BY DocumentsAssumption, ListOf
  <2> QED BY <2>1, <2>2, OneIs DEF Solid
<1> QED BY <1>1, <1>2

\* Below nothing there is nothing.
LEMMA NilOnward ==
  ASSUME NEW doc, NEW p, IsWay(p), NEW f, LookupGoes(f, doc, p), NEW k \in 0..Len(p),
         f[k] = Nil
  PROVE  Lookup(doc, p) = Nil
<1> DEFINE n == Len(p)
           S == {j \in Nat : k + j <= n => f[k + j] = Nil}
<1>1. n \in Nat /\ f[n] = Lookup(doc, p) /\ \A i \in 1..n : f[i] = Step(f[i - 1], p[i])
  BY ListIs DEF IsWay, LookupGoes
<1> HIDE DEF n
<1>2. k \in Nat /\ k <= n
  BY <1>1 DEF n
<1>3. 0 \in S
  BY <1>2
<1>4. ASSUME NEW j \in Nat, j \in S PROVE j + 1 \in S
  <2> SUFFICES ASSUME k + (j + 1) <= n PROVE f[k + (j + 1)] = Nil
    OBVIOUS
  <2>1. k + (j + 1) \in 1..n /\ (k + (j + 1)) - 1 = k + j /\ k + j <= n
    BY <1>1, <1>2
  <2>2. f[k + j] = Nil
    BY <1>4, <2>1
  <2>3. f[k + (j + 1)] = Step(f[k + j], p[k + (j + 1)])
    BY <1>1, <2>1
  <2> QED BY <2>2, <2>3, StepNil
<1>5. \A j \in Nat : j \in S
  <2> HIDE DEF S
  <2> QED BY <1>3, <1>4, Ring!SetInduction
<1>6. n - k \in Nat /\ k + (n - k) = n
  BY <1>1, <1>2
<1>7. n - k \in S
  BY <1>5, <1>6
<1> QED BY <1>1, <1>6, <1>7

\* Two documents in which a way meets.
LEMMA Rejoin ==
  ASSUME NEW doc, NEW new, NEW q, IsWay(q), NEW h, LookupGoes(h, doc, q),
         NEW g, LookupGoes(g, new, q), NEW k \in 0..Len(q), g[k] = h[k]
  PROVE  Lookup(new, q) = Lookup(doc, q)
<1> DEFINE n == Len(q)
<1>1. /\ n \in Nat /\ h[n] = Lookup(doc, q) /\ g[n] = Lookup(new, q)
      /\ \A i \in 1..n : h[i] = Step(h[i - 1], q[i]) /\ g[i] = Step(g[i - 1], q[i])
  BY ListIs DEF IsWay, LookupGoes
<1> HIDE DEF n
<1>2. k \in Nat /\ k <= n
  BY <1>1 DEF n
<1>3. Together(g, q, h, q, k, n)
  <2>1. \A i \in (k + 1)..n : i \in 1..n
    BY <1>1, <1>2
  <2> QED BY <1>1, <2>1 DEF Together
<1>4. Alike(g, h, k, n)
  BY <1>1, <1>2, <1>3, SameOnward
<1>5. n \in k..n
  BY <1>1, <1>2
<1>6. g[n] = h[n]
  BY <1>4, <1>5 DEF Alike
<1> QED BY <1>1, <1>6

\* Two ways in the same document, as long as they are the same.
LEMMA SameWay ==
  ASSUME NEW doc, NEW p, IsWay(p), NEW q, IsWay(q), NEW f, LookupGoes(f, doc, p),
         NEW h, LookupGoes(h, doc, q), NEW d \in Nat, d <= Len(p), d <= Len(q),
         \A i \in 1..d : q[i] = p[i]
  PROVE  Alike(h, f, 0, d)
<1>1. Len(p) \in Nat /\ Len(q) \in Nat
  BY ListIs DEF IsWay
<1>2. /\ h[0] = f[0]
      /\ \A i \in 1..Len(p) : f[i] = Step(f[i - 1], p[i])
      /\ \A i \in 1..Len(q) : h[i] = Step(h[i - 1], q[i])
  BY DEF LookupGoes
<1>3. Together(h, q, f, p, 0, d)
  <2>1. \A i \in (0 + 1)..d : i \in 1..d /\ i \in 1..Len(p) /\ i \in 1..Len(q)
    BY <1>1
  <2> QED BY <1>2, <2>1 DEF Together
<1>4. 0 \in Nat /\ 0 <= d
  OBVIOUS
<1> QED BY <1>2, <1>3, <1>4, SameOnward

-----------------------------------------------------------------------------
\* What is written at the places on a path, from the document down.
WrittenGoes(c, f, p, value) ==
  /\ c[Len(p)] = value
  /\ \A j \in 0..(Len(p) - 1) : c[j] = Put(There(f[j]), p[j + 1], c[j + 1])

LEMMA Written ==
  ASSUME NEW doc, NEW p, IsWay(p), NEW value, NEW f, LookupGoes(f, doc, p)
  PROVE  \E c : WrittenGoes(c, f, p, value) /\ JsonSet(doc, p, value) = c[0]
<1> DEFINE n == Len(p)
<1>1. n \in Nat
  BY ListIs DEF IsWay
<1>2. PICK b : BelowGoes(b, doc, p, value)
  BY <1>1, BelowSteps
<1>3. /\ b[0] = value /\ JsonSet(doc, p, value) = b[n]
      /\ \A k \in 1..n : b[k] = BelowNext(doc, p, b[k - 1], k)
  BY <1>2 DEF BelowGoes
<1> DEFINE c == [j \in 0..n |-> b[n - j]]
<1>4. c[0] = b[n] /\ c[n] = b[0] /\ \A j \in 0..n : c[j] = b[n - j]
  BY <1>1
<1> HIDE DEF c
<1>5. ASSUME NEW j \in 0..(n - 1) PROVE c[j] = Put(There(f[j]), p[j + 1], c[j + 1])
  <2> DEFINE k == n - j
  <2>1. k \in 1..n /\ n - k = j /\ n - k + 1 = j + 1 /\ k - 1 = n - (j + 1) /\ j \in 0..n
        /\ j + 1 \in 0..n
    BY <1>1
  <2>2. c[j] = b[k] /\ c[j + 1] = b[k - 1]
    BY <1>4, <2>1
  <2> HIDE DEF k
  <2>3. b[k] = BelowNext(doc, p, b[k - 1], k)
    BY <1>3, <2>1
  <2>4. b[k] = Put(There(Lookup(doc, SubSeq(p, 1, n - k))), p[n - k + 1], b[k - 1])
    BY <2>3 DEF BelowNext
  <2>5. Lookup(doc, SubSeq(p, 1, j)) = f[j]
    BY <2>1, FoundTo
  <2> QED BY <2>1, <2>2, <2>4, <2>5
<1>6. WrittenGoes(c, f, p, value)
  BY <1>3, <1>4, <1>5 DEF WrittenGoes
<1> QED BY <1>3, <1>4, <1>6

\* It is found there.
LEMMA WrittenFound ==
  ASSUME NEW doc \in Documents, NEW p, IsWay(p), NEW value, NEW f, LookupGoes(f, doc, p),
         NEW c, WrittenGoes(c, f, p, value), NEW g, LookupGoes(g, c[0], p)
  PROVE  \A j \in 0..Len(p) : g[j] = One(c[j])
<1> DEFINE n == Len(p)
           S == {j \in Nat : j <= n => g[j] = One(c[j])}
<1>1. /\ n \in Nat /\ g[0] = One(c[0])
      /\ \A i \in 1..n : g[i] = Step(g[i - 1], p[i]) /\ IsStep(p[i])
      /\ \A j \in 0..(n - 1) : c[j] = Put(There(f[j]), p[j + 1], c[j + 1])
  BY ListIs DEF IsWay, LookupGoes, WrittenGoes
<1>2. \A k \in 0..n : IsFound(f[k])
  BY FoundIn
<1> HIDE DEF n
<1>3. 0 \in S
  BY <1>1
<1>4. ASSUME NEW j \in Nat, j \in S PROVE j + 1 \in S
  <2> SUFFICES ASSUME j + 1 <= n PROVE g[j + 1] = One(c[j + 1])
    OBVIOUS
  <2>1. j + 1 \in 1..n /\ (j + 1) - 1 = j /\ j \in 0..(n - 1) /\ j \in 0..n /\ j <= n
    BY <1>1
  <2>2. g[j] = One(c[j]) /\ c[j] = Put(There(f[j]), p[j + 1], c[j + 1])
    BY <1>1, <1>4, <2>1
  <2>3. g[j + 1] = Step(g[j], p[j + 1]) /\ IsStep(p[j + 1])
    BY <1>1, <2>1
  <2>4. Solid(There(f[j]))
    BY <1>2, <2>1, FoundSolid
  <2> QED BY <2>2, <2>3, <2>4, PutGet
<1>5. \A j \in Nat : j \in S
  <2> HIDE DEF S
  <2> QED BY <1>3, <1>4, Ring!SetInduction
<1> QED BY <1>1, <1>5 DEF n

LEMMA SetFound ==
  ASSUME NEW doc \in Documents, NEW p, IsWay(p), NEW value
  PROVE  Lookup(JsonSet(doc, p, value), p) = One(value)
<1>1. Len(p) \in Nat /\ Len(p) \in 0..Len(p)
  BY ListIs DEF IsWay
<1>2. PICK f : LookupGoes(f, doc, p)
  BY <1>1, LookupSteps
<1>3. PICK c : WrittenGoes(c, f, p, value) /\ JsonSet(doc, p, value) = c[0]
  BY <1>2, Written
<1>4. PICK g : LookupGoes(g, c[0], p)
  BY <1>1, LookupSteps
<1>5. g[Len(p)] = One(c[Len(p)])
  BY <1>1, <1>2, <1>3, <1>4, WrittenFound
<1> QED BY <1>3, <1>4, <1>5 DEF LookupGoes, WrittenGoes

\* Where a path leads through containers.
LEMMA ContainerAt ==
  ASSUME NEW doc \in Documents, NEW p, IsWay(p), NEW f, LookupGoes(f, doc, p),
         Containers(doc, p), NEW d \in Nat, d < Len(p), f[d] # Nil
  PROVE  IF IsKey(p[d + 1]) THEN IsObj(There(f[d])) ELSE IsArr(There(f[d]))
<1>1. d \in 0..(Len(p) - 1) /\ d \in 0..Len(p)
  BY ListIs DEF IsWay
<1>2. Lookup(doc, SubSeq(p, 1, d)) = f[d]
  BY <1>1, FoundTo
<1>3. f[d] # <<>> /\ There(f[d]) = f[d][1]
  BY DEF Nil, There
<1> QED BY <1>1, <1>2, <1>3 DEF Containers

\* Two ways part at d.
Part(p, q, d) ==
  /\ d \in Nat /\ d < Len(p) /\ d < Len(q)
  /\ \A i \in 1..d : q[i] = p[i]
  /\ q[d + 1] # p[d + 1]

\* What is found where a way leads elsewhere is what was there.
LEMMA SetLocal ==
  ASSUME NEW doc \in Documents, NEW p, IsWay(p), NEW q, IsWay(q), NEW value, NEW d,
         Part(p, q, d), Lookup(doc, q) # Nil, Containers(doc, p)
  PROVE  Lookup(JsonSet(doc, p, value), q) = Lookup(doc, q)
<1>1. Len(p) \in Nat /\ Len(q) \in Nat
  BY ListIs DEF IsWay
<1>2. /\ d \in Nat /\ d < Len(p) /\ d < Len(q) /\ (\A i \in 1..d : q[i] = p[i])
      /\ q[d + 1] # p[d + 1]
  BY DEF Part
<1>3. /\ d \in 0..Len(p) /\ d \in 0..(Len(p) - 1) /\ d \in 0..Len(q) /\ d + 1 \in 0..Len(q) /\ d + 1 \in 1..Len(q)
      /\ d + 1 \in 1..Len(p) /\ (d + 1) - 1 = d /\ d \in 0..d /\ d <= Len(p) /\ d <= Len(q)
  BY <1>1, <1>2
<1>4. PICK f : LookupGoes(f, doc, p)
  BY <1>1, LookupSteps
<1>5. PICK h : LookupGoes(h, doc, q)
  BY <1>1, LookupSteps
<1>6. PICK c : WrittenGoes(c, f, p, value) /\ JsonSet(doc, p, value) = c[0]
  BY <1>4, Written
<1>7. PICK g : LookupGoes(g, c[0], p)
  BY <1>1, LookupSteps
<1>8. PICK k : LookupGoes(k, c[0], q)
  BY <1>1, LookupSteps
<1>9. h[d] = f[d]
  <2>1. Alike(h, f, 0, d)
    BY <1>2, <1>3, <1>4, <1>5, SameWay
  <2> QED BY <1>3, <2>1 DEF Alike
<1>10. k[d] = g[d]
  <2>1. Alike(k, g, 0, d)
    BY <1>2, <1>3, <1>7, <1>8, SameWay
  <2> QED BY <1>3, <2>1 DEF Alike
<1>11. g[d] = One(c[d]) /\ c[d] = Put(There(f[d]), p[d + 1], c[d + 1])
  <2>1. g[d] = One(c[d])
    BY <1>3, <1>4, <1>6, <1>7, WrittenFound
  <2> QED BY <1>3, <1>6, <2>1 DEF WrittenGoes
<1>12. h[d] # Nil /\ h[d + 1] # Nil
  BY <1>3, <1>5, NilOnward
<1>13. /\ h[d + 1] = Step(h[d], q[d + 1]) /\ k[d + 1] = Step(k[d], q[d + 1])
       /\ IsStep(p[d + 1]) /\ IsStep(q[d + 1])
  BY <1>3, <1>5, <1>8 DEF LookupGoes, IsWay
<1> DEFINE v == There(f[d])
<1>14. Solid(v) /\ h[d] = One(v)
  <2>1. IsFound(f[d])
    BY <1>3, <1>4, FoundIn
  <2> QED BY <1>9, <1>12, <2>1, FoundSolid
<1>15. IF IsKey(p[d + 1]) THEN IsObj(v) ELSE IsArr(v)
  BY <1>2, <1>4, <1>9, <1>12, ContainerAt
<1> HIDE DEF v
<1>16. k[d] = One(Put(v, p[d + 1], c[d + 1]))
  BY <1>10, <1>11 DEF v
<1>17. k[d + 1] = h[d + 1]
  <2>1. Step(One(v), q[d + 1]) # Nil
    BY <1>12, <1>13, <1>14
  <2>2. Step(One(Put(v, p[d + 1], c[d + 1])), q[d + 1]) = Step(One(v), q[d + 1])
    BY <1>2, <1>13, <1>14, <1>15, <2>1, PutOther
  <2> QED BY <1>13, <1>14, <1>16, <2>2
<1>18. Lookup(c[0], q) = Lookup(doc, q)
  BY <1>3, <1>5, <1>8, <1>17, Rejoin
<1> QED BY <1>6, <1>18

\* What one path is of another.
LEMMA PrefixIs ==
  ASSUME NEW s, IsWay(s), NEW t, IsWay(t), Len(s) <= Len(t), \A i \in 1..Len(s) : s[i] = t[i]
  PROVE  IsPrefix(s, t)
<1> DEFINE n == Len(s)
           a == SubSeq(s, 1, n)
           b == SubSeq(t, 1, n)
<1>1. n \in Nat /\ Len(t) \in Nat
  BY ListIs DEF IsWay
<1>2. n \in 0..Len(s) /\ n \in 0..Len(t)
  BY <1>1
<1>3. /\ IsList(a) /\ Len(a) = n /\ \A i \in 1..n : a[i] = s[i]
      /\ IsList(b) /\ Len(b) = n /\ \A i \in 1..n : b[i] = t[i]
  BY <1>2, WayTo DEF IsWay
<1> HIDE DEF a, b
<1>4. a = [i \in 1..n |-> a[i]] /\ b = [i \in 1..n |-> b[i]]
  BY <1>3, ListIs
<1> HIDE DEF n
<1>5. \A i \in 1..n : a[i] = b[i]
  BY <1>3 DEF n
<1>6. a = b
  BY <1>4, <1>5
<1> QED BY <1>6 DEF IsPrefix, a, b, n

\* Paths of which neither leads to the other part somewhere.
LEMMA Parting ==
  ASSUME NEW p, IsWay(p), NEW q, IsWay(q), ~ Related(p, q)
  PROVE  \E d : Part(p, q, d)
<1> DEFINE T == {d \in Nat : d < Len(p) /\ d < Len(q) /\ q[d + 1] # p[d + 1]}
<1>1. Len(p) \in Nat /\ Len(q) \in Nat
  BY ListIs DEF IsWay
<1>2. CASE T = {}
  <2>1. ASSUME NEW i \in Nat, i \in 1..Len(p), i \in 1..Len(q) PROVE p[i] = q[i]
    <3>1. i - 1 \in Nat /\ i - 1 < Len(p) /\ i - 1 < Len(q) /\ (i - 1) + 1 = i
      BY <1>1, <2>1
    <3>2. i - 1 \notin T
      BY <1>2
    <3> QED BY <3>1, <3>2
  <2> HIDE DEF T
  <2>2. CASE Len(p) <= Len(q)
    <3>1. \A i \in 1..Len(p) : p[i] = q[i]
      BY <1>1, <2>1, <2>2
    <3>2. IsPrefix(p, q)
      BY <2>2, <3>1, PrefixIs
    <3> QED BY <3>2 DEF Related
  <2>3. CASE Len(q) <= Len(p)
    <3>1. \A i \in 1..Len(q) : q[i] = p[i]
      BY <1>1, <2>1, <2>3
    <3>2. IsPrefix(q, p)
      BY <2>3, <3>1, PrefixIs
    <3> QED BY <3>2 DEF Related
  <2> QED BY <1>1, <2>2, <2>3
<1>3. CASE T # {}
  <2>1. PICK d \in T : \A e \in T : d <= e
    <3>1. T \subseteq Nat
      OBVIOUS
    <3> HIDE DEF T
    <3> QED BY <1>3, <3>1, Ring!LeastNat
  <2>2. ASSUME NEW i \in 1..d PROVE q[i] = p[i]
    <3>1. i - 1 \in Nat /\ i - 1 < d /\ (i - 1) + 1 = i /\ i - 1 < Len(p) /\ i - 1 < Len(q)
      BY <1>1, <2>1
    <3>2. i - 1 \notin T
      BY <2>1, <3>1
    <3> QED BY <3>1, <3>2
  <2> QED BY <2>1, <2>2 DEF Part
<1> QED BY <1>2, <1>3

\* The last step of a way.
LEMMA LastStep ==
  ASSUME NEW p, IsWay(p), p # <<>>
  PROVE  LET r == Front(p) IN
         /\ IsWay(r) /\ Len(p) = Len(r) + 1 /\ Len(r) \in Nat
         /\ \A i \in 1..Len(r) : r[i] = p[i]
         /\ Last(p) = p[Len(r) + 1] /\ IsStep(Last(p))
         /\ \A doc : Lookup(doc, p) = Step(Lookup(doc, r), Last(p))
<1> DEFINE n == Len(p)
           r == Front(p)
<1>1. n \in Nat
  BY ListIs DEF IsWay
<1>2. n # 0
  <2> DEFINE S == Range(p)
  <2>1. p \in Seq(S)
    BY DEF IsWay, IsList
  <2> HIDE DEF S
  <2> QED BY <2>1
<1>3. n - 1 \in 0..n /\ n \in 1..n
  BY <1>1, <1>2
<1>4. r = SubSeq(p, 1, n - 1)
  BY DEF Front
<1>5. IsWay(r) /\ Len(r) = n - 1 /\ \A i \in 1..(n - 1) : r[i] = p[i]
  BY <1>3, <1>4, WayTo
<1>6. Last(p) = p[n] /\ IsStep(p[n])
  BY <1>3 DEF Last, IsWay
<1>7. ASSUME NEW doc PROVE Lookup(doc, p) = Step(Lookup(doc, r), Last(p))
  <2>1. PICK f : LookupGoes(f, doc, p)
    BY <1>1, LookupSteps
  <2>2. f[n] = Step(f[n - 1], p[n]) /\ Lookup(doc, p) = f[n]
    BY <1>3, <2>1 DEF LookupGoes
  <2>3. Lookup(doc, r) = f[n - 1]
    BY <1>3, <1>4, <2>1, FoundTo
  <2> QED BY <1>6, <2>2, <2>3
<1> HIDE DEF n, r
<1>8. n = Len(r) + 1 /\ Len(r) \in Nat /\ \A i \in 1..Len(r) : r[i] = p[i]
  BY <1>1, <1>2, <1>5
<1> QED BY <1>5, <1>6, <1>7, <1>8 DEF n, r

LEMMA ContainersFront ==
  ASSUME NEW doc, NEW p, IsWay(p), p # <<>>, Containers(doc, p)
  PROVE  Containers(doc, Front(p))
<1> DEFINE r == Front(p)
<1>1. IsWay(r) /\ Len(p) = Len(r) + 1 /\ Len(r) \in Nat /\ \A i \in 1..Len(r) : r[i] = p[i]
  BY LastStep
<1> HIDE DEF r
<1>2. PICK f : LookupGoes(f, doc, p)
  <2>1. Len(p) \in Nat
    BY <1>1
  <2> QED BY <2>1, LookupSteps
<1>3. PICK g : LookupGoes(g, doc, r)
  BY <1>1, LookupSteps
<1>4. Alike(g, f, 0, Len(r))
  <2>1. Len(r) <= Len(p) /\ Len(r) <= Len(r)
    BY <1>1
  <2> QED BY <1>1, <1>2, <1>3, <2>1, SameWay
<1>5. ASSUME NEW n \in 0..(Len(r) - 1)
      PROVE  LET at == Lookup(doc, SubSeq(r, 1, n)) IN
             at = <<>> \/ (IF IsKey(r[n + 1]) THEN IsObj(at[1]) ELSE IsArr(at[1]))
  <2>1. n \in 0..Len(r) /\ n \in 0..Len(p) /\ n \in 0..(Len(p) - 1) /\ n + 1 \in 1..Len(r)
    BY <1>1
  <2>2. Lookup(doc, SubSeq(r, 1, n)) = g[n] /\ Lookup(doc, SubSeq(p, 1, n)) = f[n]
    BY <1>1, <1>2, <1>3, <2>1, FoundTo
  <2>3. g[n] = f[n] /\ r[n + 1] = p[n + 1]
    BY <1>1, <1>4, <2>1 DEF Alike
  <2>4. f[n] = <<>> \/ (IF IsKey(p[n + 1]) THEN IsObj(f[n][1]) ELSE IsArr(f[n][1]))
    BY <2>1, <2>2 DEF Containers
  <2> QED BY <2>2, <2>3, <2>4
<1>6. Containers(doc, r)
  BY <1>5 DEF Containers
<1> QED BY <1>6 DEF r

\* A member that is removed is gone.
LEMMA RemoveGone ==
  ASSUME NEW doc \in Documents, NEW p, IsWay(p), p # <<>>, IsKey(Last(p))
  PROVE  Lookup(JsonRemove(doc, p), p) = Nil
<1> DEFINE r == Front(p)
           v == Lookup(doc, r)[1]
           new == JsonSet(doc, r, WithoutChild(v, Last(p)))
<1>1. IsWay(r) /\ \A x : Lookup(x, p) = Step(Lookup(x, r), Last(p))
  BY LastStep
<1>2. JsonRemove(doc, p) = IF Lookup(doc, r) = Nil THEN doc ELSE new
  BY DEF JsonRemove, Nil
<1> HIDE DEF r, v
<1>3. CASE Lookup(doc, r) = Nil
  BY <1>1, <1>2, <1>3, StepNil
<1>4. CASE Lookup(doc, r) # Nil
  <2>1. Lookup(new, r) = One(WithoutChild(v, Last(p)))
    BY <1>1, SetFound
  <2> HIDE DEF new
  <2> QED BY <1>1, <1>2, <1>4, <2>1, WithoutGet
<1> QED BY <1>3, <1>4

\* What else there is stays, if it does not move.
LEMMA RemoveLocal ==
  ASSUME NEW doc \in Documents, NEW p, IsWay(p), NEW q, IsWay(q), Lookup(doc, q) # Nil,
         Containers(doc, p), Elsewhere(p, "remove", q)
  PROVE  Lookup(JsonRemove(doc, p), q) = Lookup(doc, q)
<1> DEFINE r == Front(p)
           v == Lookup(doc, r)[1]
           w == WithoutChild(v, Last(p))
           new == JsonSet(doc, r, w)
<1>1. ~ Related(p, q) /\ (p # <<>> /\ ~ IsKey(Last(p)) => ~ IsPrefix(r, q))
  BY DEF Elsewhere
<1>2. CASE p = <<>> \/ Lookup(doc, r) = Nil
  BY <1>2 DEF JsonRemove, Nil
<1>3. CASE p # <<>> /\ Lookup(doc, r) # Nil
  <2>1. JsonRemove(doc, p) = new
    BY <1>3 DEF JsonRemove, Nil
  <2>2. /\ IsWay(r) /\ Len(p) = Len(r) + 1 /\ Len(r) \in Nat /\ (\A i \in 1..Len(r) : r[i] = p[i])
        /\ Last(p) = p[Len(r) + 1] /\ IsStep(Last(p))
    BY <1>3, LastStep
  <2>3. PICK d : Part(p, q, d)
    BY <1>1, Parting
  <2>4. /\ d \in Nat /\ d < Len(p) /\ d < Len(q) /\ (\A i \in 1..d : q[i] = p[i])
        /\ q[d + 1] # p[d + 1]
    BY <2>3 DEF Part
  <2>5. Len(q) \in Nat
    BY ListIs DEF IsWay
  <2>6. CASE d < Len(r)
    <3>1. d + 1 \in 1..Len(r) /\ \A i \in 1..d : i \in 1..Len(r)
      BY <2>2, <2>4, <2>6
    <3> HIDE DEF r
    <3>2. Part(r, q, d)
      BY <2>2, <2>4, <2>6, <3>1 DEF Part
    <3>3. Containers(doc, r)
      BY <1>3, ContainersFront DEF r
    <3> HIDE DEF w
    <3>4. Lookup(new, q) = Lookup(doc, q)
      BY <2>2, <3>2, <3>3, SetLocal
    <3> QED BY <2>1, <3>4 DEF r, w
  <2>7. CASE d >= Len(r)
    <3>1. d = Len(r) /\ d + 1 \in 1..Len(q) /\ d \in 0..d /\ d <= Len(r) /\ d <= Len(q)
          /\ d + 1 \in 0..Len(q) /\ (d + 1) - 1 = d
      BY <2>2, <2>4, <2>5, <2>7
    <3>2. \A i \in 1..d : q[i] = r[i]
      BY <2>2, <2>4, <3>1
    <3>3. IsKey(Last(p))
      <4>1. Len(r) <= Len(q) /\ \A i \in 1..Len(r) : r[i] = q[i]
        BY <3>1, <3>2
      <4>2. IsPrefix(r, q)
        BY <2>2, <4>1, PrefixIs
      <4> QED BY <1>1, <1>3, <4>2
    <3>4. PICK f : LookupGoes(f, doc, r)
      BY <2>2, LookupSteps
    <3>5. PICK h : LookupGoes(h, doc, q)
      BY <2>5, LookupSteps
    <3>6. PICK g : LookupGoes(g, new, r)
      BY <2>2, LookupSteps
    <3>7. PICK k : LookupGoes(k, new, q)
      BY <2>5, LookupSteps
    <3>8. Lookup(new, r) = One(w)
      BY <2>2, SetFound
    <3> HIDE DEF r, v, w, new
    <3>9. Alike(h, f, 0, d) /\ Alike(k, g, 0, d)
      BY <2>2, <2>4, <3>1, <3>2, <3>4, <3>5, <3>6, <3>7, SameWay
    <3>10. h[d] = f[d] /\ k[d] = g[d]
      BY <3>1, <3>9 DEF Alike
    <3>11. f[d] = Lookup(doc, r) /\ g[d] = One(w)
      BY <3>1, <3>4, <3>6, <3>8 DEF LookupGoes
    <3>12. IsFound(f[d])
      <4>1. d \in 0..Len(r)
        BY <2>4, <3>1
      <4> QED BY <2>2, <3>4, <4>1, FoundIn
    <3>13. f[d] = One(v)
      BY <1>3, <3>11, <3>12, OneIs DEF IsFound, v
    <3>14. /\ h[d + 1] = Step(h[d], q[d + 1]) /\ k[d + 1] = Step(k[d], q[d + 1]) /\ IsStep(q[d + 1])
      BY <3>1, <3>5, <3>7 DEF LookupGoes, IsWay
    <3>15. Step(One(w), q[d + 1]) = Step(One(v), q[d + 1])
      <4>1. q[d + 1] # Last(p)
        BY <2>2, <2>4, <3>1
      <4> QED BY <2>2, <3>3, <3>14, <4>1, WithoutOther DEF w
    <3>16. k[d + 1] = h[d + 1]
      BY <3>10, <3>11, <3>13, <3>14, <3>15
    <3>17. Lookup(new, q) = Lookup(doc, q)
      BY <3>1, <3>5, <3>7, <3>16, Rejoin
    <3> QED BY <2>1, <3>17
  <2> QED BY <2>2, <2>4, <2>6, <2>7
<1> QED BY <1>2, <1>3

-----------------------------------------------------------------------------
\* What the text of a path consists of leads a way.
LEMMA WayAppend ==
  ASSUME NEW s, IsWay(s), NEW seg, IsStep(seg)
  PROVE  IsWay(Append(s, seg))
<1> DEFINE t == Append(s, seg)
<1>1. /\ IsList(t) /\ Len(t) = Len(s) + 1 /\ t[Len(s) + 1] = seg /\ Len(s) \in Nat
      /\ \A i \in 1..Len(s) : t[i] = s[i] /\ IsStep(s[i])
  BY ListAppend, ListIs DEF IsWay
<1> HIDE DEF t
<1>2. ASSUME NEW i \in 1..Len(t) PROVE IsStep(t[i])
  <2>1. i \in 1..Len(s) \/ i = Len(s) + 1
    BY <1>1
  <2> QED BY <1>1, <2>1
<1>3. IsWay(t)
  BY <1>1, <1>2 DEF IsWay
<1> QED BY <1>3 DEF t

LEMMA SegmentStep ==
  ASSUME NEW seg, IsSegment(seg), seg # BadIndex
  PROVE  IsStep(seg)
BY DEF IsSegment, BadIndex, IsStep

LEMMA SegmentsWay ==
  ASSUME NEW path, IsPath(path)
  PROVE  IsWay(Segments(path))
<1> DEFINE n == Len(path)
           places == {i \in DOMAIN path : path[i] \in {Key(""), BadIndex}}
<1>1. n \in Nat /\ DOMAIN path = 1..n /\ \A i \in 1..n : IsSegment(path[i])
  BY ListIs DEF IsPath
<1>2. ASSUME NEW i \in 1..n, i \notin places PROVE IsStep(path[i])
  <2>1. path[i] # BadIndex
    BY <1>1, <1>2
  <2> QED BY <1>1, <2>1, SegmentStep
<1> HIDE DEF places
<1>3. PICK f : DroppedGoes(f, path, places)
  BY <1>1, DroppedSteps
<1>4. /\ f[0] = Nil /\ Dropped(path, places) = f[n]
      /\ \A i \in 1..n : f[i] = DropNext(path, places, f[i - 1], i)
  BY <1>3 DEF DroppedGoes
<1> HIDE DEF n
<1> DEFINE S == {i \in Nat : i <= n => IsWay(f[i])}
<1>5. 0 \in S
  BY <1>4, NilIsList DEF IsWay, Nil
<1>6. ASSUME NEW i \in Nat, i \in S PROVE i + 1 \in S
  <2> SUFFICES ASSUME i + 1 <= n PROVE IsWay(f[i + 1])
    OBVIOUS
  <2>1. i + 1 \in 1..n /\ (i + 1) - 1 = i /\ i <= n
    BY <1>1
  <2>2. IsWay(f[i])
    BY <1>6, <2>1
  <2>3. f[i + 1] = IF i + 1 \in places THEN f[i] ELSE Append(f[i], path[i + 1])
    BY <1>4, <2>1 DEF DropNext
  <2>4. i + 1 \notin places => IsStep(path[i + 1])
    BY <1>2, <2>1
  <2> QED BY <2>2, <2>3, <2>4, WayAppend
<1>7. IsWay(f[n])
  <2>1. \A i \in Nat : i \in S
    <3> HIDE DEF S
    <3> QED BY <1>5, <1>6, Ring!SetInduction
  <2> QED BY <1>1, <2>1
<1> QED BY <1>4, <1>7 DEF Segments, places

\* What one operation of a patch does.
PatchIsLocal(doc, op) ==
  LET p   == Segments(op.path)
      new == JsonApply(doc, op)
  IN /\ \A q \in Paths :
          Lookup(doc, q) # <<>> /\ Containers(doc, p) /\ Elsewhere(p, op.op, q)
            => Lookup(new, q) = Lookup(doc, q)
     /\ op.op = "set" => Lookup(new, p) = <<op.value>>
     /\ op.op = "remove" /\ p # <<>> /\ IsKey(Last(p)) => Lookup(new, p) = <<>>

LEMMA WrittenLocally ==
  ASSUME NEW doc \in Documents, NEW p, IsWay(p), NEW q, IsWay(q), NEW value, NEW op,
         Lookup(doc, q) # Nil, Containers(doc, p), Elsewhere(p, op, q)
  PROVE  Lookup(JsonSet(doc, p, value), q) = Lookup(doc, q)
<1>1. PICK d : Part(p, q, d)
  BY Parting DEF Elsewhere
<1> QED BY <1>1, SetLocal

LEMMA OperationLocal ==
  ASSUME NEW doc \in Documents, NEW op, op.op \in JsonOps, IsPath(op.path)
  PROVE  PatchIsLocal(doc, op)
<1> DEFINE p == Segments(op.path)
           new == JsonApply(doc, op)
<1>1. IsWay(p)
  BY SegmentsWay
<1>2. ASSUME NEW q \in Paths PROVE IsWay(q)
  <2>1. IsPath(q) /\ BadIndex \notin Range(q)
    BY PathsAssumption
  <2>2. Range(q) = {q[i] : i \in 1..Len(q)} /\ IsList(q)
    BY <2>1, ListIs DEF IsPath
  <2>3. ASSUME NEW i \in 1..Len(q) PROVE IsStep(q[i])
    <3>1. q[i] \in Range(q)
      BY <2>2
    <3>2. IsSegment(q[i]) /\ q[i] # BadIndex
      BY <2>1, <3>1 DEF IsPath
    <3> QED BY <3>2, SegmentStep
  <2> QED BY <2>2, <2>3 DEF IsWay
<1> HIDE DEF p
<1>3. CASE op.op = "remove"
  <2>1. new = JsonRemove(doc, p)
    BY <1>3 DEF JsonApply, p
  <2> HIDE DEF new
  <2>2. ASSUME NEW q \in Paths, Lookup(doc, q) # Nil, Containers(doc, p), Elsewhere(p, op.op, q)
        PROVE  Lookup(new, q) = Lookup(doc, q)
    BY <1>1, <1>2, <1>3, <2>1, <2>2, RemoveLocal
  <2>3. ASSUME p # <<>>, IsKey(Last(p)) PROVE Lookup(new, p) = Nil
    BY <1>1, <2>1, <2>3, RemoveGone
  <2> QED BY <1>3, <2>2, <2>3 DEF PatchIsLocal, p, new, Nil
<1>4. CASE op.op \in {"set", "merge", "append"}
  <2>1. /\ \E value : new = JsonSet(doc, p, value)
        /\ op.op = "set" => new = JsonSet(doc, p, op.value)
    BY <1>4 DEF JsonApply, JsonMerge, JsonAppend, p
  <2> HIDE DEF new
  <2>2. ASSUME NEW q \in Paths, Lookup(doc, q) # Nil, Containers(doc, p), Elsewhere(p, op.op, q)
        PROVE  Lookup(new, q) = Lookup(doc, q)
    BY <1>1, <1>2, <2>1, <2>2, WrittenLocally
  <2>3. ASSUME op.op = "set" PROVE Lookup(new, p) = One(op.value)
    BY <1>1, <2>1, <2>3, SetFound
  <2> QED BY <1>4, <2>2, <2>3 DEF PatchIsLocal, p, new, Nil, One
<1> QED BY <1>3, <1>4 DEF JsonOps

\* A JSON operation of a rule writes where its path leads, and leaves alone what
\* is not on the path, unless it had to replace a value of another kind on the
\* way or moved the elements of an array by removing one; what is set is found,
\* and a member that is removed is not.
THEOREM PatchesStayLocal == Spec => []PatchesAreLocal
<1>1. IInv /\ ClaimInv => PatchesAreLocal
  <2> SUFFICES ASSUME IInv, ClaimInv, DOMAIN request.body = {"json"},
                      NEW i \in DOMAIN rules, NEW a \in Range(rules[i].actions),
                      a.type = "jsonPatchRequest", NEW op \in Range(a.ops)
               PROVE  PatchIsLocal(request.body.json, op)
    BY DEF PatchesAreLocal, PatchIsLocal
  <2>1. request.body.json \in Documents
    BY DEF ClaimInv, Came
  <2>2. RuleAssumption(rules[i])
    BY DEF IInv, RulesOK
  <2>3. ActionAssumption(a)
    BY <2>2 DEF RuleAssumption
  <2>4. op.op \in JsonOps /\ IsPath(op.path)
    BY <2>3 DEF ActionAssumption
  <2> QED BY <2>1, <2>4, OperationLocal
<1> QED BY <1>1, ClaimInvariant, PTL
-----------------------------------------------------------------------------
LEMMA ConcatIs ==
  ASSUME NEW s, IsList(s), NEW t, IsList(t)
  PROVE  /\ Len(s \o t) = Len(s) + Len(t)
         /\ \A i \in 1..Len(s) : (s \o t)[i] = s[i]
<1> DEFINE S == Range(s) \union Range(t)
<1>1. s \in Seq(S) /\ t \in Seq(S)
  <2>1. Range(s) \subseteq S /\ Range(t) \subseteq S
    OBVIOUS
  <2> HIDE DEF S
  <2> QED BY <2>1, ListIn
<1> HIDE DEF S
<1> QED BY <1>1

\* A block or a mock ends the request phase: whatever rules of less priority
\* follow, the outcome is the one at the rule that ended it, and a probe that
\* asks for the body does so whatever follows.
THEOREM StopEndsRequest ==
  ASSUME NEW probe, NEW ctx, NEW first, IsList(first), NEW more, IsList(more),
         Over(RequestRun(probe, first, ctx))
  PROVE  RequestRun(probe, first \o more, ctx) = RequestRun(probe, first, ctx)
<1> DEFINE n == Len(first)
           all == first \o more
           k == Len(more)
<1>1. n \in Nat /\ k \in Nat /\ IsList(all) /\ Len(all) = n + k
      /\ \A i \in 1..n : all[i] = first[i]
  <2>1. n \in Nat /\ k \in Nat
    BY ListIs
  <2>2. IsList(all)
    BY ListConcat
  <2>3. Len(all) = n + k /\ \A i \in 1..n : all[i] = first[i]
    BY ConcatIs
  <2> HIDE DEF n, all, k
  <2> QED BY <2>1, <2>2, <2>3
<1> HIDE DEF n, all, k
<1>2. PICK f : RequestRunGoes(f, probe, first, ctx)
  BY <1>1, RequestRunSteps DEF n
<1>3. PICK g : RequestRunGoes(g, probe, all, ctx)
  <2>1. Len(all) \in Nat
    BY <1>1
  <2> QED BY <2>1, RequestRunSteps, Zenon
<1>4. /\ f[0] = Begin(ctx) /\ g[0] = Begin(ctx)
      /\ \A i \in 1..n : f[i] = ApplyToRequest(probe, f[i - 1], first[i])
      /\ \A i \in 1..(n + k) : g[i] = ApplyToRequest(probe, g[i - 1], all[i])
      /\ RequestRun(probe, first, ctx) = f[n] /\ RequestRun(probe, all, ctx) = g[n + k]
  BY <1>1, <1>2, <1>3 DEF RequestRunGoes, n
<1> DEFINE S == {i \in Nat : i <= n => g[i] = f[i]}
           T == {i \in Nat : i <= k => g[n + i] = f[n]}
<1>5. g[n] = f[n]
  <2>1. 0 \in S
    BY <1>4
  <2>2. ASSUME NEW i \in Nat, i \in S PROVE i + 1 \in S
    <3> SUFFICES ASSUME i + 1 <= n PROVE g[i + 1] = f[i + 1]
      OBVIOUS
    <3>1. i + 1 \in 1..n /\ i + 1 \in 1..(n + k) /\ (i + 1) - 1 = i /\ g[i] = f[i]
      BY <1>1, <2>2
    <3>2. f[i + 1] = ApplyToRequest(probe, f[i], first[i + 1])
      BY <1>4, <3>1
    <3>3. g[i + 1] = ApplyToRequest(probe, g[i], all[i + 1])
      BY <1>4, <3>1
    <3> QED BY <1>1, <3>1, <3>2, <3>3
  <2>3. \A i \in Nat : i \in S
    <3> HIDE DEF S
    <3> QED BY <2>1, <2>2, Ring!SetInduction
  <2> QED BY <1>1, <2>3
<1>6. 0 \in T
  BY <1>1, <1>5
<1>7. ASSUME NEW i \in Nat, i \in T PROVE i + 1 \in T
  <2> SUFFICES ASSUME i + 1 <= k PROVE g[n + (i + 1)] = f[n]
    OBVIOUS
  <2>1. n + (i + 1) \in 1..(n + k) /\ (n + (i + 1)) - 1 = n + i /\ g[n + i] = f[n]
    BY <1>1, <1>7
  <2>2. g[n + (i + 1)] = ApplyToRequest(probe, f[n], all[n + (i + 1)])
    BY <1>4, <2>1
  <2>3. Over(f[n])
    BY <1>4
  <2> QED BY <2>2, <2>3 DEF ApplyToRequest
<1>8. \A i \in Nat : i \in T
  <2> HIDE DEF T
  <2> QED BY <1>6, <1>7, Ring!SetInduction
<1>9. g[n + k] = f[n]
  BY <1>1, <1>8
<1> QED BY <1>4, <1>9 DEF all

\* In the response phase a block ends the rules in the same way.
THEOREM StopEndsResponse ==
  ASSUME NEW probe, NEW ctx, NEW first, IsList(first), NEW more, IsList(more),
         Over(ResponseRun(probe, first, ctx))
  PROVE  ResponseRun(probe, first \o more, ctx) = ResponseRun(probe, first, ctx)
<1> DEFINE n == Len(first)
           all == first \o more
           k == Len(more)
<1>1. n \in Nat /\ k \in Nat /\ IsList(all) /\ Len(all) = n + k
      /\ \A i \in 1..n : all[i] = first[i]
  <2>1. n \in Nat /\ k \in Nat
    BY ListIs
  <2>2. IsList(all)
    BY ListConcat
  <2>3. Len(all) = n + k /\ \A i \in 1..n : all[i] = first[i]
    BY ConcatIs
  <2> HIDE DEF n, all, k
  <2> QED BY <2>1, <2>2, <2>3
<1> HIDE DEF n, all, k
<1>2. PICK f : ResponseRunGoes(f, probe, first, ctx)
  BY <1>1, ResponseRunSteps DEF n
<1>3. PICK g : ResponseRunGoes(g, probe, all, ctx)
  <2>1. Len(all) \in Nat
    BY <1>1
  <2> QED BY <2>1, ResponseRunSteps, Zenon
<1>4. /\ f[0] = Begin(ctx) /\ g[0] = Begin(ctx)
      /\ \A i \in 1..n : f[i] = ApplyToResponse(probe, f[i - 1], first[i])
      /\ \A i \in 1..(n + k) : g[i] = ApplyToResponse(probe, g[i - 1], all[i])
      /\ ResponseRun(probe, first, ctx) = f[n] /\ ResponseRun(probe, all, ctx) = g[n + k]
  BY <1>1, <1>2, <1>3 DEF ResponseRunGoes, n
<1> DEFINE S == {i \in Nat : i <= n => g[i] = f[i]}
           T == {i \in Nat : i <= k => g[n + i] = f[n]}
<1>5. g[n] = f[n]
  <2>1. 0 \in S
    BY <1>4
  <2>2. ASSUME NEW i \in Nat, i \in S PROVE i + 1 \in S
    <3> SUFFICES ASSUME i + 1 <= n PROVE g[i + 1] = f[i + 1]
      OBVIOUS
    <3>1. i + 1 \in 1..n /\ i + 1 \in 1..(n + k) /\ (i + 1) - 1 = i /\ g[i] = f[i]
      BY <1>1, <2>2
    <3>2. f[i + 1] = ApplyToResponse(probe, f[i], first[i + 1])
      BY <1>4, <3>1
    <3>3. g[i + 1] = ApplyToResponse(probe, g[i], all[i + 1])
      BY <1>4, <3>1
    <3> QED BY <1>1, <3>1, <3>2, <3>3
  <2>3. \A i \in Nat : i \in S
    <3> HIDE DEF S
    <3> QED BY <2>1, <2>2, Ring!SetInduction
  <2> QED BY <1>1, <2>3
<1>6. 0 \in T
  BY <1>1, <1>5
<1>7. ASSUME NEW i \in Nat, i \in T PROVE i + 1 \in T
  <2> SUFFICES ASSUME i + 1 <= k PROVE g[n + (i + 1)] = f[n]
    OBVIOUS
  <2>1. n + (i + 1) \in 1..(n + k) /\ (n + (i + 1)) - 1 = n + i /\ g[n + i] = f[n]
    BY <1>1, <1>7
  <2>2. g[n + (i + 1)] = ApplyToResponse(probe, f[n], all[n + (i + 1)])
    BY <1>4, <2>1
  <2>3. Over(f[n])
    BY <1>4
  <2> QED BY <2>2, <2>3 DEF ApplyToResponse
<1>8. \A i \in Nat : i \in T
  <2> HIDE DEF T
  <2> QED BY <1>6, <1>7, Ring!SetInduction
<1>9. g[n + k] = f[n]
  BY <1>1, <1>8
<1> QED BY <1>4, <1>9 DEF all
=============================================================================
