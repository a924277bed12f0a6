-------------------------- MODULE SystemProxyProofs --------------------------
(***************************************************************************)
(* The safety of SystemProxy, for any network services, instances, callers *)
(* and bounds, and any settings of a user on any platform.                 *)
(*                                                                         *)
(* The lists of commands are the substance.  What a list makes of the      *)
(* settings is proved by induction over it: it steers every value it       *)
(* writes to a set of values, if the first command that writes the value   *)
(* brings it there and the later ones keep it there (Steers).  So enable   *)
(* points the machine at an instance, and restore, from wherever the       *)
(* settings are, brings back the effect of what was captured               *)
(* (RestoreKeeps).  Around them the invariant (HeldInv) says at each step  *)
(* of the one call in progress where the user's settings are.              *)
(***************************************************************************)
EXTENDS SystemProxy, FiniteSetTheorems, SequenceTheorems, TLAPS

Ring == INSTANCE FlowRingProofs  \* for induction over naturals

-----------------------------------------------------------------------------
\* The recursive functions of SystemSettings are there.
AfterGoes(f, values, commands) ==
  /\ f[0] = values
  /\ \A i \in 1..Len(commands) : f[i] = Perform(f[i - 1], commands[i])

LEMMA AfterSteps ==
  ASSUME NEW values, NEW commands, Len(commands) \in Nat
  PROVE  AfterGoes(After(values, commands), values, commands)
<1> DEFINE n == Len(commands)
           F(k, f) == [i \in 0..k |-> IF i = 0 THEN values
                                      ELSE Perform(f[i - 1], commands[i])]
           S == {k \in Nat : \E f : f = F(k, f)}
           g == CHOOSE f : f = F(n, f)
<1>1. 0 \in S
  <2> DEFINE f == [i \in 0..0 |-> values]
  <2>1. f = F(0, f)
    OBVIOUS
  <2> QED BY <2>1
<1>2. ASSUME NEW k \in Nat, k \in S PROVE k + 1 \in S
  <2>1. PICK f : f = F(k, f)
    BY <1>2
  <2>2. /\ f[0] = values
        /\ \A i \in 1..k : f[i] = Perform(f[i - 1], commands[i])
    BY <2>1
  <2> DEFINE h == [i \in 0..(k + 1) |-> IF i <= k THEN f[i]
                                        ELSE Perform(f[k], commands[k + 1])]
  <2>3. /\ h[0] = f[0] /\ h[k] = f[k]
        /\ \A i \in 1..k : h[i] = f[i] /\ h[i - 1] = f[i - 1]
        /\ h[k + 1] = Perform(f[k], commands[(k + 1)])
    OBVIOUS
  <2>4. h = [i \in 0..(k + 1) |-> h[i]]
    OBVIOUS
  <2> HIDE DEF h
  <2>5. ASSUME NEW i \in 0..(k + 1) PROVE h[i] = F(k + 1, h)[i]
    <3>1. CASE i = 0
      BY <2>2, <2>3, <3>1
    <3>2. CASE i \in 1..k
      BY <2>2, <2>3, <3>2
    <3>3. CASE i = k + 1
      BY <2>3, <3>3
    <3> QED BY <3>1, <3>2, <3>3
  <2>6. h = F(k + 1, h)
    BY <2>4, <2>5
  <2> QED BY <2>6
<1>3. n \in S
  <2> HIDE DEF S
  <2> QED BY <1>1, <1>2, Ring!SetInduction
<1>4. g = F(n, g)
  BY <1>3
<1>5. After(values, commands) = g
  BY DEF After
<1> HIDE DEF g
<1>6. /\ g[0] = values
      /\ \A i \in 1..n : g[i] = Perform(g[i - 1], commands[i])
  BY <1>4
<1> QED BY <1>5, <1>6 DEF AfterGoes

\* The provers do better without the concatenation in sight.
Joined(s, t) == s \o t

EachGoes(f, list, commands) ==
  /\ f[0] = <<>>
  /\ \A i \in 1..Len(list) : f[i] = f[i - 1] \o commands[list[i]]
  /\ Each(list, commands) = f[Len(list)]

LEMMA EachSteps ==
  ASSUME NEW list, NEW commands, Len(list) \in Nat
  PROVE  \E f : EachGoes(f, list, commands)
<1> DEFINE n == Len(list)
           F(k, f) == [i \in 0..k |-> IF i = 0 THEN <<>>
                                      ELSE Joined(f[i - 1], commands[list[i]])]
           S == {k \in Nat : \E f : f = F(k, f)}
           g == CHOOSE f : f = F(n, f)
<1>1. 0 \in S
  <2> DEFINE f == [i \in 0..0 |-> <<>>]
  <2>1. f = F(0, f)
    OBVIOUS
  <2> QED BY <2>1
<1>2. ASSUME NEW k \in Nat, k \in S PROVE k + 1 \in S
  <2>1. PICK f : f = F(k, f)
    BY <1>2
  <2>2. /\ f[0] = <<>>
        /\ \A i \in 1..k : f[i] = Joined(f[i - 1], commands[list[i]])
    BY <2>1
  <2> DEFINE h == [i \in 0..(k + 1) |-> IF i <= k THEN f[i]
                                        ELSE Joined(f[k], commands[list[k + 1]])]
  <2>3. /\ h[0] = f[0] /\ h[k] = f[k]
        /\ \A i \in 1..k : h[i] = f[i] /\ h[i - 1] = f[i - 1]
        /\ h[k + 1] = Joined(f[k], commands[list[(k + 1)]])
    OBVIOUS
  <2>4. h = [i \in 0..(k + 1) |-> h[i]]
    OBVIOUS
  <2> HIDE DEF h
  <2>5. ASSUME NEW i \in 0..(k + 1) PROVE h[i] = F(k + 1, h)[i]
    <3>1. CASE i = 0
      BY <2>2, <2>3, <3>1
    <3>2. CASE i \in 1..k
      BY <2>2, <2>3, <3>2
    <3>3. CASE i = k + 1
      BY <2>3, <3>3
    <3> QED BY <3>1, <3>2, <3>3
  <2>6. h = F(k + 1, h)
    BY <2>4, <2>5
  <2> QED BY <2>6
<1>3. n \in S
  <2> HIDE DEF S
  <2> QED BY <1>1, <1>2, Ring!SetInduction
<1>4. g = F(n, g)
  BY <1>3
<1>5. Each(list, commands) = g[n]
  BY DEF Each, Joined
<1> HIDE DEF g
<1>6. /\ g[0] = <<>>
      /\ \A i \in 1..n : g[i] = Joined(g[i - 1], commands[list[i]])
  BY <1>4
<1> QED BY <1>5, <1>6 DEF EachGoes, Joined

-----------------------------------------------------------------------------
\* What the values of a platform are, and commands that keep them so.
Platforms == {"macos", "windows", "linux"}

Fits(v, p) ==
  v = [k \in Keys(p) |-> v[k]] /\ \A k \in Keys(p) : v[k] \in Values(p, k)

Proper(c, p) == \A x \in Values(p, c.key) : Written(x, c) \in Values(p, c.key)
Commands(p) ==
  {c \in [key : Keys(p), value : STRING \union Proxies] \union [key : Keys(p), on : BOOLEAN] :
     Proper(c, p)}

LEMMA SettingsFit ==
  ASSUME NEW o
  PROVE  IsSettings(o) <=> /\ o.platform \in Platforms
                           /\ o = Settings(o.platform, o.values)
                           /\ Fits(o.values, o.platform)
BY DEF IsSettings, Settings, Platforms, Fits

LEMMA PerformOne ==
  ASSUME NEW p, NEW v, Fits(v, p), NEW c \in Commands(p)
  PROVE  /\ Fits(Perform(v, c), p)
         /\ c.key \in Keys(p) /\ v[c.key] \in Values(p, c.key)
         /\ Perform(v, c)[c.key] = Written(v[c.key], c)
         /\ \A k \in Keys(p) : k # c.key => Perform(v, c)[k] = v[k]
<1>1. c.key \in Keys(p) /\ Proper(c, p)
  BY DEF Commands
<1> DEFINE w == Perform(v, c)
<1>2. DOMAIN v = Keys(p) /\ \A k \in Keys(p) : v[k] \in Values(p, k)
  BY DEF Fits
<1>3. /\ w = [k \in Keys(p) |-> w[k]]
      /\ w[c.key] = Written(v[c.key], c)
      /\ \A k \in Keys(p) : k # c.key => w[k] = v[k]
  BY <1>1, <1>2 DEF Perform
<1>4. Written(v[c.key], c) \in Values(p, c.key)
  BY <1>1, <1>2 DEF Proper
<1> QED BY <1>1, <1>2, <1>3, <1>4 DEF Fits

\* A list of commands steers to G when, for every key it writes, the first
\* command that does brings its value into G[key], whatever it was, and the
\* others keep it there.
Forces(c, p, G) == \A x \in Values(p, c.key) : Written(x, c) \in G[c.key]
Saves(c, G)     == \A x \in G[c.key] : Written(x, c) \in G[c.key]
Writes(s, k)    == \E n \in 1..Len(s) : s[n].key = k

Steers(s, p, G) ==
  /\ s \in Seq(Commands(p))
  /\ \A n \in 1..Len(s) :
       \/ Forces(s[n], p, G)
       \/ Saves(s[n], G) /\ \E m \in 1..(n - 1) : s[m].key = s[n].key

LEMMA AfterSteering ==
  ASSUME NEW p, NEW v, Fits(v, p), NEW G, NEW s, Steers(s, p, G)
  PROVE  \A n \in 0..Len(s) :
           /\ Fits(After(v, s)[n], p)
           /\ \A k \in Keys(p) :
                IF \E m \in 1..n : s[m].key = k
                THEN After(v, s)[n][k] \in G[k] ELSE After(v, s)[n][k] = v[k]
<1> DEFINE f == After(v, s)
           Holds(n) ==
             /\ Fits(f[n], p)
             /\ \A k \in Keys(p) :
                  IF \E m \in 1..n : s[m].key = k THEN f[n][k] \in G[k] ELSE f[n][k] = v[k]
           S == {n \in Nat : n <= Len(s) => Holds(n)}
<1>1. s \in Seq(Commands(p)) /\ Len(s) \in Nat
  BY DEF Steers
<1>2. f[0] = v /\ \A i \in 1..Len(s) : f[i] = Perform(f[i - 1], s[i])
  BY <1>1, AfterSteps DEF AfterGoes
<1> HIDE DEF f
<1>3. 0 \in S
  BY <1>2
<1>4. ASSUME NEW n \in Nat, n \in S PROVE n + 1 \in S
  <2> SUFFICES ASSUME n + 1 <= Len(s) PROVE Holds(n + 1)
    OBVIOUS
  <2> DEFINE c == s[n + 1]
  <2>1. n + 1 \in 1..Len(s) /\ (n + 1) - 1 = n /\ n <= Len(s)
    BY <1>1
  <2>2. c \in Commands(p) /\ f[n + 1] = Perform(f[n], c)
    BY <1>1, <1>2, <2>1
  <2>3. \/ Forces(c, p, G)
        \/ Saves(c, G) /\ \E m \in 1..n : s[m].key = c.key
    BY <2>1 DEF Steers
  <2>4. Holds(n)
    BY <1>4, <2>1
  <2>5. /\ Fits(f[n + 1], p)
        /\ c.key \in Keys(p) /\ f[n][c.key] \in Values(p, c.key)
        /\ f[n + 1][c.key] = Written(f[n][c.key], c)
        /\ \A k \in Keys(p) : k # c.key => f[n + 1][k] = f[n][k]
    BY <2>2, <2>4, PerformOne
  <2>6. f[n + 1][c.key] \in G[c.key]
    BY <2>3, <2>4, <2>5 DEF Forces, Saves
  <2>7. ASSUME NEW k \in Keys(p)
        PROVE  IF \E m \in 1..(n + 1) : s[m].key = k
               THEN f[n + 1][k] \in G[k] ELSE f[n + 1][k] = v[k]
    <3>1. CASE k = c.key
      BY <2>1, <2>6, <3>1
    <3>2. CASE k # c.key
      <4>1. (\E m \in 1..(n + 1) : s[m].key = k) <=> \E m \in 1..n : s[m].key = k
        BY <3>2
      <4> QED BY <2>4, <2>5, <3>2, <4>1
    <3> QED BY <3>1, <3>2
  <2> QED BY <2>5, <2>7
<1>5. \A n \in Nat : n \in S
  <2> HIDE DEF S
  <2> QED BY <1>3, <1>4, Ring!SetInduction
<1> QED BY <1>1, <1>5 DEF f

LEMMA SteersTogether ==
  ASSUME NEW p, NEW G, NEW s, Steers(s, p, G), NEW t, Steers(t, p, G)
  PROVE  /\ Steers(s \o t, p, G)
         /\ \A k : Writes(s \o t, k) <=> Writes(s, k) \/ Writes(t, k)
<1> DEFINE u == s \o t
<1>1. s \in Seq(Commands(p)) /\ t \in Seq(Commands(p)) /\ Len(s) \in Nat /\ Len(t) \in Nat
  BY DEF Steers
<1>2. /\ u \in Seq(Commands(p)) /\ Len(u) = Len(s) + Len(t)
      /\ \A i \in 1..Len(u) : u[i] = IF i <= Len(s) THEN s[i] ELSE t[i - Len(s)]
  BY <1>1, ConcatProperties
<1> HIDE DEF u
<1>3. \A i \in 1..Len(s) : i \in 1..Len(u) /\ u[i] = s[i]
  BY <1>1, <1>2
<1>4. ASSUME NEW i \in 1..Len(t) PROVE i + Len(s) \in 1..Len(u) /\ u[i + Len(s)] = t[i]
  <2> DEFINE j == i + Len(s)
  <2>1. j \in 1..Len(u) /\ ~(j <= Len(s)) /\ j - Len(s) = i
    BY <1>1, <1>2
  <2> HIDE DEF j
  <2>2. u[j] = t[i]
    BY <1>2, <2>1
  <2> QED BY <2>1, <2>2 DEF j
<1>5. \A i \in 1..Len(u) : i \in 1..Len(s) \/ (i - Len(s) \in 1..Len(t) /\ (i - Len(s)) + Len(s) = i)
  BY <1>1, <1>2
<1>6. ASSUME NEW n \in 1..Len(u)
      PROVE  \/ Forces(u[n], p, G)
             \/ Saves(u[n], G) /\ \E m \in 1..(n - 1) : u[m].key = u[n].key
  <2>1. CASE n \in 1..Len(s)
    <3>1. u[n] = s[n] /\ \A m \in 1..(n - 1) : u[m] = s[m]
      BY <1>1, <1>3, <2>1
    <3> QED BY <2>1, <3>1 DEF Steers
  <2>2. CASE n - Len(s) \in 1..Len(t)
    <3> DEFINE i == n - Len(s)
    <3>1. u[n] = t[i] /\ i \in 1..Len(t)
      BY <1>1, <1>4, <1>5, <2>2
    <3>2. \A m \in 1..(i - 1) : m + Len(s) \in 1..(n - 1) /\ u[m + Len(s)] = t[m]
      BY <1>1, <1>4, <2>2
    <3> HIDE DEF i
    <3> QED BY <3>1, <3>2 DEF Steers
  <2> QED BY <1>5, <2>1, <2>2
<1>7. ASSUME NEW k PROVE Writes(u, k) <=> Writes(s, k) \/ Writes(t, k)
  <2>1. ASSUME Writes(u, k) PROVE Writes(s, k) \/ Writes(t, k)
    <3>1. PICK n \in 1..Len(u) : u[n].key = k
      BY <2>1 DEF Writes
    <3> QED BY <1>3, <1>4, <1>5, <3>1 DEF Writes
  <2>2. ASSUME Writes(s, k) PROVE Writes(u, k)
    BY <1>3, <2>2 DEF Writes
  <2>3. ASSUME Writes(t, k) PROVE Writes(u, k)
    BY <1>4, <2>3 DEF Writes
  <2> QED BY <2>1, <2>2, <2>3
<1> QED BY <1>2, <1>6, <1>7 DEF Steers, u

LEMMA SteersEach ==
  ASSUME NEW p, NEW G, NEW list, Len(list) \in Nat, NEW blocks,
         \A i \in 1..Len(list) : Steers(blocks[list[i]], p, G)
  PROVE  /\ Steers(Each(list, blocks), p, G)
         /\ \A i \in 1..Len(list) : \A k :
              Writes(blocks[list[i]], k) => Writes(Each(list, blocks), k)
<1>1. PICK f : EachGoes(f, list, blocks)
  BY EachSteps
<1>2. /\ f[0] = <<>>
      /\ \A i \in 1..Len(list) : f[i] = f[i - 1] \o blocks[list[i]]
      /\ Each(list, blocks) = f[Len(list)]
  BY <1>1 DEF EachGoes
<1> DEFINE Holds(n) ==
             /\ Steers(f[n], p, G)
             /\ \A i \in 1..n : \A k : Writes(blocks[list[i]], k) => Writes(f[n], k)
           S == {n \in Nat : n <= Len(list) => Holds(n)}
<1>3. 0 \in S
  <2>1. <<>> \in Seq(Commands(p)) /\ Len(<<>>) = 0
    OBVIOUS
  <2>2. Steers(<<>>, p, G)
    BY <2>1 DEF Steers
  <2> QED BY <1>2, <2>2
<1>4. ASSUME NEW n \in Nat, n \in S PROVE n + 1 \in S
  <2> SUFFICES ASSUME n + 1 <= Len(list) PROVE Holds(n + 1)
    OBVIOUS
  <2> DEFINE b == blocks[list[n + 1]]
  <2>1. n + 1 \in 1..Len(list) /\ (n + 1) - 1 = n /\ n <= Len(list)
    OBVIOUS
  <2>2. f[n + 1] = f[n] \o b /\ Steers(b, p, G)
    BY <1>2, <2>1
  <2>3. Holds(n)
    BY <1>4, <2>1
  <2> HIDE DEF b
  <2>4. /\ Steers(f[n] \o b, p, G)
        /\ \A k : Writes(f[n] \o b, k) <=> Writes(f[n], k) \/ Writes(b, k)
    BY <2>2, <2>3, SteersTogether
  <2>5. \A i \in 1..(n + 1) : i \in 1..n \/ i = n + 1
    OBVIOUS
  <2> QED BY <2>2, <2>3, <2>4, <2>5 DEF b
<1>5. Len(list) \in S
  <2> HIDE DEF S
  <2> QED BY <1>3, <1>4, Ring!SetInduction
<1> QED BY <1>2, <1>5

-----------------------------------------------------------------------------
\* Typed commands give typed settings, whichever of them fails.
LEMMA TypedSteers ==
  ASSUME NEW p, NEW s \in Seq(Commands(p))
  PROVE  Steers(s, p, [k \in Keys(p) |-> Values(p, k)])
<1>1. \A n \in 1..Len(s) : s[n] \in Commands(p)
  OBVIOUS
<1>2. \A n \in 1..Len(s) : Forces(s[n], p, [k \in Keys(p) |-> Values(p, k)])
  BY <1>1 DEF Forces, Commands, Proper
<1> QED BY <1>2 DEF Steers

\* Commands of which some are ignored are as typed.
LEMMA IgnoringFits ==
  ASSUME NEW o, IsSettings(o), NEW s \in Seq(Commands(o.platform)), NEW ignored
  PROVE  Ignoring(o, s, ignored) \in Seq(Commands(o.platform)) /\ Len(Ignoring(o, s, ignored)) = Len(s)
<1> DEFINE p == o.platform
           c(n) == LET key == s[n].key IN IF n \in ignored THEN Assign(key, o.values[key]) ELSE s[n]
<1>1. Ignoring(o, s, ignored) = [n \in 1..Len(s) |-> c(n)]
  BY DEF Ignoring
<1>2. \A n \in 1..Len(s) : c(n) \in Commands(p)
  <2> SUFFICES ASSUME NEW n \in 1..Len(s), n \in ignored PROVE c(n) \in Commands(p)
    OBVIOUS
  <2> DEFINE k == s[n].key
             v == o.values[k]
  <2>1. s[n] \in Commands(p)
    OBVIOUS
  <2>2. k \in Keys(p)
    BY <2>1 DEF Commands
  <2>3. v \in Values(p, k)
    BY <2>2 DEF IsSettings
  <2> HIDE DEF k, v
  <2>4. v \in STRING \union Proxies
    BY <2>3 DEF Values
  <2>5. Assign(k, v) = [key |-> k, value |-> v] /\ DOMAIN Assign(k, v) = {"key", "value"}
    BY DEF Assign
  <2>6. Proper(Assign(k, v), p)
    BY <2>3, <2>5 DEF Proper, Written
  <2>7. Assign(k, v) \in Commands(p)
    BY <2>2, <2>4, <2>5, <2>6 DEF Commands
  <2> QED BY <2>7 DEF k, v
<1> HIDE DEF c
<1> QED BY <1>1, <1>2

LEMMA OutcomesFit ==
  ASSUME NEW o, IsSettings(o), NEW s \in Seq(Commands(o.platform)), NEW failed \in BOOLEAN,
         NEW r \in Outcomes(o, s, failed)
  PROVE  IsSettings(r) /\ r.platform = o.platform
<1> DEFINE p == o.platform
<1>1. p \in Platforms /\ Fits(o.values, p)
  BY SettingsFit
<1>2. PICK q \in Seq(Commands(p)) : \E n \in 0..Len(q) : r = Settings(p, After(o.values, q)[n])
  <2>1. CASE ~failed
    BY <2>1 DEF Outcomes, Done
  <2>2. CASE failed
    <3>1. PICK ignored \in SUBSET Deletes(o, s), n \in 0..Len(s) :
            r = Settings(p, After(o.values, Ignoring(o, s, ignored))[n])
      BY <2>2 DEF Outcomes
    <3> QED BY <3>1, IgnoringFits
  <2> QED BY <2>1, <2>2
<1> DEFINE f == After(o.values, q)
<1>3. \A m \in 0..Len(q) : Fits(f[m], p)
  BY <1>1, <1>2, TypedSteers, AfterSteering
<1> HIDE DEF f
<1>4. PICK n \in 0..Len(q) : r = Settings(p, f[n])
  BY <1>2 DEF f
<1>5. r.platform = p /\ r.values = f[n] /\ Fits(f[n], p)
  BY <1>3, <1>4 DEF Settings
<1>6. r = Settings(r.platform, r.values)
  BY <1>4, <1>5
<1> QED BY <1>1, <1>5, <1>6, SettingsFit

LEMMA DoneIsOutcome ==
  ASSUME NEW o, NEW s PROVE Done(o, s) \in Outcomes(o, s, FALSE)
BY DEF Outcomes

\* What is written is where it was steered to, the rest is as it was.
LEMMA DoneSteered ==
  ASSUME NEW o, IsSettings(o), NEW G, NEW s, Steers(s, o.platform, G)
  PROVE  /\ IsSettings(Done(o, s)) /\ Done(o, s).platform = o.platform
         /\ \A k \in Keys(o.platform) :
              IF Writes(s, k) THEN Done(o, s).values[k] \in G[k]
              ELSE Done(o, s).values[k] = o.values[k]
<1> DEFINE p == o.platform
           f == After(o.values, s)
<1>1. p \in Platforms /\ Fits(o.values, p)
  BY SettingsFit
<1>2. s \in Seq(Commands(p)) /\ Len(s) \in 0..Len(s)
  BY DEF Steers
<1>3. \A k \in Keys(p) :
        IF \E m \in 1..Len(s) : s[m].key = k THEN f[Len(s)][k] \in G[k]
        ELSE f[Len(s)][k] = o.values[k]
  BY <1>1, <1>2, AfterSteering
<1> HIDE DEF f
<1>4. Done(o, s).values = f[Len(s)]
  BY DEF Done, Settings, f
<1>5. IsSettings(Done(o, s)) /\ Done(o, s).platform = p
  BY <1>2, DoneIsOutcome, OutcomesFit
<1> QED BY <1>3, <1>4, <1>5 DEF Writes

-----------------------------------------------------------------------------
\* The commands one by one.
LEMMA AssignFits ==
  ASSUME NEW p, NEW k \in Keys(p), NEW x \in Values(p, k)
  PROVE  /\ Assign(k, x) \in Commands(p) /\ Assign(k, x).key = k
         /\ \A y : Written(y, Assign(k, x)) = x
<1> DEFINE c == Assign(k, x)
<1>1. x \in STRING \union Proxies
  BY DEF Values
<1>2. c.key = k /\ c.value = x /\ DOMAIN c = {"key", "value"}
  BY DEF Assign
<1>3. c \in [key : Keys(p), value : STRING \union Proxies]
  BY <1>1 DEF Assign
<1> HIDE DEF c
<1>4. "on" \notin DOMAIN c
  BY <1>2
<1>5. \A y : Written(y, c) = x
  BY <1>2, <1>4 DEF Written
<1>6. Proper(c, p)
  BY <1>2, <1>5 DEF Proper
<1> QED BY <1>2, <1>3, <1>5, <1>6 DEF Commands, c

LEMMA MacKey ==
  ASSUME NEW s \in AllServices
  PROVE  /\ \A kind \in {"web", "secure", "bypass"} : <<s, kind>> \in Keys("macos")
         /\ \A kind \in {"web", "secure"} : Values("macos", <<s, kind>>) = Proxies
         /\ Values("macos", <<s, "bypass">>) = STRING
BY DEF Keys, MacKeys, Values

LEMMA SwitchFits ==
  ASSUME NEW s \in AllServices, NEW kind \in {"web", "secure"}, NEW b \in BOOLEAN
  PROVE  /\ State(s, kind, b) \in Commands("macos") /\ State(s, kind, b).key = <<s, kind>>
         /\ \A y : Written(y, State(s, kind, b)) = [y EXCEPT !.on = b]
<1> DEFINE c == State(s, kind, b)
<1>1. <<s, kind>> \in Keys("macos") /\ Values("macos", <<s, kind>>) = Proxies
  BY MacKey
<1>2. c.key = <<s, kind>> /\ \A y : Written(y, c) = [y EXCEPT !.on = b]
  BY DEF State, Switch, Written
<1>3. c \in [key : Keys("macos"), on : BOOLEAN]
  BY <1>1 DEF State, Switch
<1> HIDE DEF c
<1>4. \A y \in Proxies : [y EXCEPT !.on = b] \in Proxies
  BY DEF Proxies
<1>5. Proper(c, "macos")
  BY <1>1, <1>2, <1>4 DEF Proper
<1> QED BY <1>2, <1>3, <1>5 DEF Commands, c

LEMMA PointFits ==
  ASSUME NEW s \in AllServices, NEW kind \in {"web", "secure"}, NEW server \in STRING
  PROVE  /\ Point(s, kind, server) \in Commands("macos")
         /\ Point(s, kind, server).key = <<s, kind>>
         /\ \A y : Written(y, Point(s, kind, server)) = [server |-> server, on |-> TRUE]
<1> DEFINE k == <<s, kind>>
           x == [server |-> server, on |-> TRUE]
<1>1. x \in Proxies
  BY DEF Proxies
<1>2. k \in Keys("macos") /\ Values("macos", k) = Proxies
  BY MacKey
<1>3. Point(s, kind, server) = Assign(k, x)
  BY DEF Point
<1> HIDE DEF k, x
<1>4. x \in Values("macos", k)
  BY <1>1, <1>2
<1>5. /\ Assign(k, x) \in Commands("macos") /\ Assign(k, x).key = k
      /\ \A y : Written(y, Assign(k, x)) = x
  BY <1>2, <1>4, AssignFits
<1> QED BY <1>3, <1>5 DEF k, x

LEMMA ExemptFits ==
  ASSUME NEW s \in AllServices, NEW list \in STRING
  PROVE  /\ Exempt(s, list) \in Commands("macos")
         /\ Exempt(s, list).key = <<s, "bypass">>
         /\ \A y : Written(y, Exempt(s, list)) = list
<1> DEFINE k == <<s, "bypass">>
<1>1. k \in Keys("macos") /\ list \in Values("macos", k)
  BY MacKey
<1> HIDE DEF k
<1>2. /\ Assign(k, list) \in Commands("macos") /\ Assign(k, list).key = k
      /\ \A y : Written(y, Assign(k, list)) = list
  BY <1>1, AssignFits
<1> QED BY <1>2 DEF Exempt, k

\* A command that always brings its value into G steers there on its own.
LEMMA SteersOne ==
  ASSUME NEW p, NEW G, NEW c \in Commands(p), Forces(c, p, G)
  PROVE  Steers(<<c>>, p, G) /\ Writes(<<c>>, c.key)
<1>1. <<c>> \in Seq(Commands(p)) /\ Len(<<c>>) = 1 /\ <<c>>[1] = c
  OBVIOUS
<1> QED BY <1>1 DEF Steers, Writes

LEMMA SteersNothing ==
  ASSUME NEW p, NEW G PROVE Steers(<<>>, p, G)
<1>1. <<>> \in Seq(Commands(p)) /\ Len(<<>>) = 0
  OBVIOUS
<1> QED BY <1>1 DEF Steers

-----------------------------------------------------------------------------
\* enable and disable.
LEMMA MacList ==
  /\ Len(Services) \in Nat /\ Len(Services) >= 1 /\ Services[1] \in AllServices
  /\ \A i \in 1..Len(Services) : Services[i] \in AllServices
  /\ \A s \in AllServices : \E i \in 1..Len(Services) : s = Services[i]
BY ServicesAssumption DEF AllServices

\* Commands for every network service steer where each service's do.
LEMMA SteersServices ==
  ASSUME NEW G, NEW blocks, \A s \in AllServices : Steers(blocks[s], "macos", G)
  PROVE  /\ Steers(Each(Services, blocks), "macos", G)
         /\ \A s \in AllServices : \A k :
              Writes(blocks[s], k) => Writes(Each(Services, blocks), k)
<1>1. \A i \in 1..Len(Services) : Steers(blocks[Services[i]], "macos", G)
  BY MacList
<1>2. /\ Steers(Each(Services, blocks), "macos", G)
      /\ \A i \in 1..Len(Services) : \A k :
           Writes(blocks[Services[i]], k) => Writes(Each(Services, blocks), k)
  BY <1>1, MacList, SteersEach
<1> QED BY <1>2, MacList

AtServer(server) == [server |-> server, on |-> TRUE]
MacPointing(server) ==
  [k \in Keys("macos") |-> IF k[2] = "bypass" THEN STRING ELSE {AtServer(server)}]

LEMMA MacEnableSteers ==
  ASSUME NEW server \in STRING
  PROVE  /\ Steers(MacEnable(server), "macos", MacPointing(server))
         /\ Writes(MacEnable(server), <<Services[1], "web">>)
<1> DEFINE G == MacPointing(server)
           B(s) == <<Point(s, "web", server), Point(s, "secure", server), Exempt(s, Bypass),
                     State(s, "web", TRUE), State(s, "secure", TRUE)>>
           blocks == [s \in AllServices |-> B(s)]
<1>1. ASSUME NEW s \in AllServices
      PROVE  Steers(B(s), "macos", G) /\ Writes(B(s), <<s, "web">>)
  <2> DEFINE c1 == Point(s, "web", server)
             c2 == Point(s, "secure", server)
             c3 == Exempt(s, Bypass)
             c4 == State(s, "web", TRUE)
             c5 == State(s, "secure", TRUE)
             b == <<c1, c2, c3, c4, c5>>
  <2>1. /\ G[<<s, "web">>] = {AtServer(server)} /\ G[<<s, "secure">>] = {AtServer(server)}
        /\ G[<<s, "bypass">>] = STRING
    BY MacKey DEF MacPointing
  <2>2. /\ c1 \in Commands("macos") /\ c1.key = <<s, "web">>
        /\ \A y : Written(y, c1) = AtServer(server)
    BY PointFits DEF AtServer
  <2>3. /\ c2 \in Commands("macos") /\ c2.key = <<s, "secure">>
        /\ \A y : Written(y, c2) = AtServer(server)
    BY PointFits DEF AtServer
  <2>4. /\ c3 \in Commands("macos") /\ c3.key = <<s, "bypass">>
        /\ \A y : Written(y, c3) = Bypass
    BY ValuesAssumption, ExemptFits
  <2>5. /\ c4 \in Commands("macos") /\ c4.key = <<s, "web">>
        /\ \A y : Written(y, c4) = [y EXCEPT !.on = TRUE]
    BY SwitchFits
  <2>6. /\ c5 \in Commands("macos") /\ c5.key = <<s, "secure">>
        /\ \A y : Written(y, c5) = [y EXCEPT !.on = TRUE]
    BY SwitchFits
  <2>7. [AtServer(server) EXCEPT !.on = TRUE] = AtServer(server)
    <3> DEFINE r == AtServer(server)
               t == [r EXCEPT !.on = TRUE]
    <3>1. r \in Proxies /\ r.on = TRUE
      BY DEF AtServer, Proxies
    <3>2. t \in Proxies /\ t.server = r.server /\ t.on = TRUE
      BY <3>1 DEF Proxies
    <3> HIDE DEF r, t
    <3>3. t = r
      BY <3>1, <3>2 DEF Proxies
    <3> QED BY <3>3 DEF r, t
  <2> HIDE DEF G, c1, c2, c3, c4, c5
  <2>8. Forces(c1, "macos", G) /\ Forces(c2, "macos", G) /\ Forces(c3, "macos", G)
    BY <2>1, <2>2, <2>3, <2>4, ValuesAssumption DEF Forces
  <2>9. Saves(c4, G) /\ Saves(c5, G)
    BY <2>1, <2>5, <2>6, <2>7 DEF Saves
  <2>10. /\ b \in Seq(Commands("macos")) /\ Len(b) = 5
         /\ b[1] = c1 /\ b[2] = c2 /\ b[3] = c3 /\ b[4] = c4 /\ b[5] = c5
    BY <2>2, <2>3, <2>4, <2>5, <2>6
  <2>11. b = B(s)
    BY DEF c1, c2, c3, c4, c5
  <2> HIDE DEF b, B
  <2>12. Writes(b, <<s, "web">>)
    BY <2>2, <2>10 DEF Writes
  <2>13. ASSUME NEW n \in 1..5
         PROVE  \/ Forces(b[n], "macos", G)
                \/ Saves(b[n], G) /\ \E m \in 1..(n - 1) : b[m].key = b[n].key
    <3>1. CASE n \in 1..3
      BY <2>8, <2>10, <3>1
    <3>2. CASE n = 4
      <4>1. b[1].key = b[4].key
        BY <2>2, <2>5, <2>10
      <4>2. 1 \in 1..(n - 1)
        BY <3>2
      <4> QED BY <2>9, <2>10, <3>2, <4>1, <4>2
    <3>3. CASE n = 5
      <4>1. b[2].key = b[5].key
        BY <2>3, <2>6, <2>10
      <4>2. 2 \in 1..(n - 1)
        BY <3>3
      <4> QED BY <2>9, <2>10, <3>3, <4>1, <4>2
    <3> QED BY <3>1, <3>2, <3>3
  <2>14. Steers(b, "macos", G)
    BY <2>10, <2>13 DEF Steers
  <2> QED BY <2>11, <2>12, <2>14
<1> HIDE DEF G, B
<1>2. /\ Steers(Each(Services, blocks), "macos", G)
      /\ \A s \in AllServices : \A k :
           Writes(blocks[s], k) => Writes(Each(Services, blocks), k)
  BY <1>1, SteersServices
<1>3. MacEnable(server) = Each(Services, blocks)
  BY DEF MacEnable, B
<1>4. Writes(blocks[Services[1]], <<Services[1], "web">>)
  BY <1>1, MacList
<1> HIDE DEF blocks
<1> QED BY <1>2, <1>3, <1>4, MacList DEF G

LEMMA MacDisableTyped == MacDisable \in Seq(Commands("macos"))
<1> DEFINE G == [k \in Keys("macos") |-> Values("macos", k)]
           B(s) == <<State(s, "web", FALSE), State(s, "secure", FALSE)>>
           blocks == [s \in AllServices |-> B(s)]
<1>1. ASSUME NEW s \in AllServices PROVE Steers(B(s), "macos", G)
  <2> DEFINE c1 == State(s, "web", FALSE)
             c2 == State(s, "secure", FALSE)
  <2>1. c1 \in Commands("macos")
    BY SwitchFits
  <2>2. c2 \in Commands("macos")
    BY SwitchFits
  <2>3. B(s) = <<c1, c2>>
    OBVIOUS
  <2> HIDE DEF c1, c2, B
  <2>4. B(s) \in Seq(Commands("macos"))
    BY <2>1, <2>2, <2>3
  <2> QED BY <2>4, TypedSteers
<1> HIDE DEF G, B
<1>2. Steers(Each(Services, blocks), "macos", G)
  BY <1>1, SteersServices
<1>3. MacDisable = Each(Services, blocks)
  BY DEF MacDisable, B
<1> QED BY <1>2, <1>3 DEF Steers

\* A list of assignments.
LEMMA AssignsSteer ==
  ASSUME NEW p, NEW G, NEW s,
         \A n \in 1..Len(s) : \E k \in Keys(p) : \E x \in Values(p, k) :
           s[n] = Assign(k, x) /\ x \in G[k],
         \E X : s \in Seq(X)
  PROVE  Steers(s, p, G)
<1>1. PICK X : s \in Seq(X)
  OBVIOUS
<1>2. ASSUME NEW n \in 1..Len(s) PROVE s[n] \in Commands(p) /\ Forces(s[n], p, G)
  <2>0. PICK k \in Keys(p) : \E x \in Values(p, k) : s[n] = Assign(k, x) /\ x \in G[k]
    OBVIOUS
  <2>1. PICK x \in Values(p, k) : s[n] = Assign(k, x) /\ x \in G[k]
    BY <2>0
  <2>2. /\ Assign(k, x) \in Commands(p) /\ Assign(k, x).key = k
        /\ \A y : Written(y, Assign(k, x)) = x
    BY AssignFits
  <2> QED BY <2>1, <2>2 DEF Forces
<1>3. s \in Seq(Commands(p))
  BY <1>1, <1>2
<1> QED BY <1>2, <1>3 DEF Steers

WinPointing(server) ==
  [k \in Keys("windows") |->
     CASE k = Reg("ProxyEnable") -> {"0x1"} [] k = Reg("ProxyServer") -> {server}
       [] OTHER -> STRING]

LEMMA WinKey ==
  /\ \A name \in {"ProxyEnable", "ProxyServer", "ProxyOverride"} : Reg(name) \in Keys("windows")
  /\ \A k \in Keys("windows") : \E name \in {"ProxyEnable", "ProxyServer", "ProxyOverride"} :
       k = Reg(name)
  /\ \A k \in Keys("windows") : Values("windows", k) = STRING
  /\ Reg("ProxyEnable") # Reg("ProxyServer")
  /\ Reg("ProxyEnable") # Reg("ProxyOverride")
  /\ Reg("ProxyServer") # Reg("ProxyOverride")
BY DEF Keys, WinKeys, Values, Reg

LEMMA WinEnableSteers ==
  ASSUME NEW server \in STRING
  PROVE  /\ Steers(WinEnable(server), "windows", WinPointing(server))
         /\ Writes(WinEnable(server), Reg("ProxyEnable"))
         /\ Writes(WinEnable(server), Reg("ProxyServer"))
<1> DEFINE G == WinPointing(server)
           s == WinEnable(server)
           c1 == Assign(Reg("ProxyEnable"), "0x1")
           c2 == Assign(Reg("ProxyServer"), server)
           c3 == Assign(Reg("ProxyOverride"), Bypass)
<1>1. G[Reg("ProxyEnable")] = {"0x1"} /\ G[Reg("ProxyServer")] = {server}
      /\ G[Reg("ProxyOverride")] = STRING
  BY WinKey DEF WinPointing
<1>2. s = <<c1, c2, c3>>
  BY DEF WinEnable
<1>3. /\ c1.key = Reg("ProxyEnable") /\ c2.key = Reg("ProxyServer")
  BY DEF Assign
<1> HIDE DEF G, s
<1>4. /\ \E k \in Keys("windows") : \E x \in Values("windows", k) : c1 = Assign(k, x) /\ x \in G[k]
      /\ \E k \in Keys("windows") : \E x \in Values("windows", k) : c2 = Assign(k, x) /\ x \in G[k]
      /\ \E k \in Keys("windows") : \E x \in Values("windows", k) : c3 = Assign(k, x) /\ x \in G[k]
  BY <1>1, WinKey, ValuesAssumption, WordsAssumption
<1> HIDE DEF c1, c2, c3
<1>5. Len(s) = 3 /\ s[1] = c1 /\ s[2] = c2 /\ s[3] = c3
  BY <1>2
<1>6. s \in Seq({c1, c2, c3})
  BY <1>2
<1>7. \A n \in 1..Len(s) : \E k \in Keys("windows") : \E x \in Values("windows", k) :
        s[n] = Assign(k, x) /\ x \in G[k]
  <2> SUFFICES ASSUME NEW n \in 1..3
               PROVE  \E k \in Keys("windows") : \E x \in Values("windows", k) :
                        s[n] = Assign(k, x) /\ x \in G[k]
    BY <1>5
  <2>1. s[n] = c1 \/ s[n] = c2 \/ s[n] = c3
    BY <1>5
  <2> QED BY <1>4, <2>1
<1>8. Steers(s, "windows", G)
  BY <1>6, <1>7, AssignsSteer
<1> QED BY <1>3, <1>5, <1>8 DEF Writes, G, s

LEMMA WinDisableTyped == WinDisable \in Seq(Commands("windows"))
<1>1. Reg("ProxyEnable") \in Keys("windows")
      /\ "0x0" \in Values("windows", Reg("ProxyEnable"))
  BY WinKey, WordsAssumption
<1>2. Assign(Reg("ProxyEnable"), "0x0") \in Commands("windows")
  BY <1>1, AssignFits
<1> QED BY <1>2 DEF WinDisable

LinuxPointing(server) ==
  [k \in Keys("linux") |->
     CASE k = Mode -> {"manual"} [] k = <<"http", "host">> -> {Loopback}
       [] k = <<"http", "port">> -> {server} [] OTHER -> STRING]

LEMMA LinuxKey ==
  /\ Mode \in Keys("linux") /\ Ignored \in Keys("linux")
  /\ <<"http", "host">> \in Keys("linux") /\ <<"http", "port">> \in Keys("linux")
  /\ <<"https", "host">> \in Keys("linux") /\ <<"https", "port">> \in Keys("linux")
  /\ \A k \in Keys("linux") : Values("linux", k) = STRING
  /\ Len(LinuxOrder) = 6
  /\ \A k \in Keys("linux") : \E n \in 1..6 : k = LinuxOrder[n]
  /\ \A n \in 1..6 : LinuxOrder[n] \in Keys("linux")
<1>1. /\ Len(LinuxOrder) = 6 /\ LinuxOrder[1] = Mode
      /\ LinuxOrder[2] = <<"http", "host">> /\ LinuxOrder[3] = <<"http", "port">>
      /\ LinuxOrder[4] = <<"https", "host">> /\ LinuxOrder[5] = <<"https", "port">>
      /\ LinuxOrder[6] = Ignored
  BY DEF LinuxOrder
<1>2. Keys("linux") = {LinuxOrder[n] : n \in 1..6}
  BY DEF Keys, LinuxKeys
<1>3. \A k \in Keys("linux") : Values("linux", k) = STRING
  BY DEF Values
<1> QED BY <1>1, <1>2, <1>3

LEMMA LinuxEnableSteers ==
  ASSUME NEW server \in STRING
  PROVE  /\ Steers(LinuxEnable(server), "linux", LinuxPointing(server))
         /\ Writes(LinuxEnable(server), Mode)
         /\ Writes(LinuxEnable(server), <<"http", "host">>)
         /\ Writes(LinuxEnable(server), <<"http", "port">>)
<1> DEFINE G == LinuxPointing(server)
           s == LinuxEnable(server)
           c1 == Assign(Mode, "manual")
           c2 == Assign(<<"http", "host">>, Loopback)
           c3 == Assign(<<"http", "port">>, server)
           c4 == Assign(<<"https", "host">>, Loopback)
           c5 == Assign(<<"https", "port">>, server)
           c6 == Assign(Ignored, Bypass)
           In(c) == \E k \in Keys("linux") : \E x \in Values("linux", k) :
                      c = Assign(k, x) /\ x \in G[k]
<1>1. /\ G[Mode] = {"manual"} /\ G[<<"http", "host">>] = {Loopback}
      /\ G[<<"http", "port">>] = {server} /\ G[<<"https", "host">>] = STRING
      /\ G[<<"https", "port">>] = STRING /\ G[Ignored] = STRING
  BY LinuxKey DEF LinuxPointing, Mode, Ignored
<1>2. s = <<c1, c2, c3, c4, c5, c6>>
  BY DEF LinuxEnable
<1>3. /\ c1.key = Mode /\ c2.key = <<"http", "host">> /\ c3.key = <<"http", "port">>
  BY DEF Assign
<1> HIDE DEF G, s
<1>4. Loopback \in STRING
  BY WordsAssumption
<1>5. In(c1) /\ In(c2) /\ In(c3)
  <2>1. "manual" \in STRING
    BY WordsAssumption
  <2>2. In(c1)
    BY <1>1, <2>1, LinuxKey
  <2>3. In(c2)
    BY <1>1, <1>4, LinuxKey
  <2>4. In(c3)
    BY <1>1, LinuxKey
  <2> QED BY <2>2, <2>3, <2>4
<1>6. In(c4) /\ In(c5) /\ In(c6)
  BY <1>1, <1>4, LinuxKey, ValuesAssumption
<1> HIDE DEF c1, c2, c3, c4, c5, c6
<1>7. /\ Len(s) = 6 /\ s[1] = c1 /\ s[2] = c2 /\ s[3] = c3
      /\ s[4] = c4 /\ s[5] = c5 /\ s[6] = c6
  BY <1>2
<1>8. s \in Seq({c1, c2, c3, c4, c5, c6})
  BY <1>2
<1>9. \A n \in 1..Len(s) : In(s[n])
  <2> SUFFICES ASSUME NEW n \in 1..6 PROVE In(s[n])
    BY <1>7
  <2> HIDE DEF In
  <2>1. s[n] \in {c1, c2, c3, c4, c5, c6}
    BY <1>7
  <2> QED BY <1>5, <1>6, <2>1
<1>10. Steers(s, "linux", G)
  BY <1>8, <1>9, AssignsSteer
<1> HIDE DEF In
<1> QED BY <1>3, <1>7, <1>10 DEF Writes, G, s

LEMMA LinuxDisableTyped == LinuxDisable \in Seq(Commands("linux"))
<1>1. Mode \in Keys("linux") /\ "none" \in Values("linux", Mode)
  BY LinuxKey, WordsAssumption
<1>2. Assign(Mode, "none") \in Commands("linux")
  BY <1>1, AssignFits
<1> QED BY <1>2 DEF LinuxDisable

-----------------------------------------------------------------------------
\* restore brings every value that a snapshot has to what has its effect.
Back(w, k) == IF w[k] = None THEN Absent ELSE w[k]
Target(p, w) ==
  [k \in Keys(p) |-> {x \in Values(p, k) : Effective(p, k, x) = Effective(p, k, Back(w, k))}]

ReadValues(p, w) ==
  \A k \in Keys(p) : w[k] \in Values(p, k) \/ (p # "macos" /\ w[k] = None)

\* What a proxy of a network service has an effect as.
Serving(x) == IF x.on /\ x.server # "" THEN x ELSE [server |-> "", on |-> FALSE]

ServesAs(G, k, was) ==
  was \in Proxies /\ G[k] = {x \in Proxies : Serving(x) = Serving(was)}

LEMMA MacRestoreKindSteers ==
  ASSUME NEW s \in AllServices, NEW kind \in {"web", "secure"}, NEW was, NEW G,
         ServesAs(G, <<s, kind>>, was)
  PROVE  /\ Steers(MacRestoreKind(s, kind, was), "macos", G)
         /\ Writes(MacRestoreKind(s, kind, was), <<s, kind>>)
<1> DEFINE key == <<s, kind>>
           b == MacRestoreKind(s, kind, was)
<1>0. was \in Proxies /\ G[<<s, kind>>] = {x \in Proxies : Serving(x) = Serving(was)}
  BY DEF ServesAs
<1>1. /\ was = [server |-> was.server, on |-> was.on]
      /\ was.server \in STRING /\ was.on \in BOOLEAN
  BY <1>0 DEF Proxies
<1>2. CASE was.on /\ was.server # ""
  <2> DEFINE c1 == Point(s, kind, was.server)
             c2 == State(s, kind, TRUE)
  <2>1. /\ c1 \in Commands("macos") /\ c1.key = key
        /\ \A y : Written(y, c1) = [server |-> was.server, on |-> TRUE]
    BY <1>1, PointFits
  <2>2. /\ c2 \in Commands("macos") /\ c2.key = key
        /\ \A y : Written(y, c2) = [y EXCEPT !.on = TRUE]
    BY SwitchFits
  <2>3. b = <<c1, c2>>
    BY <1>2 DEF MacRestoreKind
  <2>4. [server |-> was.server, on |-> TRUE] = was
    BY <1>1, <1>2
  <2>5. ASSUME NEW x \in G[key] PROVE [x EXCEPT !.on = TRUE] = x
    <3>1. x \in Proxies /\ x.on
      <4>1. Serving(was) = was
        BY <1>2 DEF Serving
      <4>2. x \in Proxies /\ Serving(x) = was
        BY <1>0, <4>1
      <4>3. CASE ~x.on
        <5>1. Serving(x) = [server |-> "", on |-> FALSE]
          BY <4>3 DEF Serving
        <5>2. was = [server |-> "", on |-> FALSE]
          BY <4>2, <5>1
        <5>3. ~[server |-> "", on |-> FALSE].on
          OBVIOUS
        <5> QED BY <1>2, <5>2, <5>3
      <4> QED BY <4>2, <4>3
    <3> DEFINE t == [x EXCEPT !.on = TRUE]
    <3>2. t \in Proxies /\ t.server = x.server /\ t.on = TRUE
      BY <3>1 DEF Proxies
    <3>3. x.on = TRUE
      BY <3>1 DEF Proxies
    <3> HIDE DEF t
    <3>4. t = x
      BY <3>1, <3>2, <3>3 DEF Proxies
    <3> QED BY <3>4 DEF t
  <2> HIDE DEF c1, c2, b, key
  <2>6. Forces(c1, "macos", G)
    BY <1>0, <2>1, <2>4 DEF Forces, key
  <2>7. Saves(c2, G)
    BY <2>2, <2>5 DEF Saves
  <2>8. b \in Seq(Commands("macos")) /\ Len(b) = 2 /\ b[1] = c1 /\ b[2] = c2
    BY <2>1, <2>2, <2>3
  <2>9. ASSUME NEW n \in 1..2
        PROVE  \/ Forces(b[n], "macos", G)
               \/ Saves(b[n], G) /\ \E m \in 1..(n - 1) : b[m].key = b[n].key
    <3>1. CASE n = 1
      BY <2>6, <2>8, <3>1
    <3>2. CASE n = 2
      <4>1. b[1].key = b[2].key /\ 1 \in 1..(2 - 1)
        BY <2>1, <2>2, <2>8
      <4> QED BY <2>7, <2>8, <3>2, <4>1
    <3> QED BY <3>1, <3>2
  <2>10. Steers(b, "macos", G)
    BY <2>8, <2>9 DEF Steers
  <2>11. Writes(b, key)
    BY <2>1, <2>8 DEF Writes
  <2> QED BY <2>10, <2>11 DEF b, key
<1>3. CASE ~(was.on /\ was.server # "")
  <2> DEFINE c == State(s, kind, FALSE)
  <2>1. /\ c \in Commands("macos") /\ c.key = key
        /\ \A y : Written(y, c) = [y EXCEPT !.on = FALSE]
    BY SwitchFits
  <2>2. b = <<c>>
    BY <1>3 DEF MacRestoreKind
  <2>3. Serving(was) = [server |-> "", on |-> FALSE]
    BY <1>3 DEF Serving
  <2>4. ASSUME NEW x \in Proxies PROVE [x EXCEPT !.on = FALSE] \in G[key]
    <3> DEFINE t == [x EXCEPT !.on = FALSE]
    <3>1. t \in Proxies /\ ~t.on
      BY DEF Proxies
    <3> HIDE DEF t
    <3>2. Serving(t) = [server |-> "", on |-> FALSE]
      BY <3>1 DEF Serving
    <3>3. t \in G[key]
      BY <1>0, <2>3, <3>1, <3>2
    <3> QED BY <3>3 DEF t
  <2>5. Values("macos", key) = Proxies
    BY MacKey
  <2> HIDE DEF c, b, key
  <2>6. Forces(c, "macos", G)
    BY <2>1, <2>4, <2>5 DEF Forces
  <2>7. Steers(b, "macos", G) /\ Writes(b, key)
    BY <2>1, <2>2, <2>6, SteersOne
  <2> QED BY <2>7 DEF b, key
<1> QED BY <1>2, <1>3

LEMMA MacTarget ==
  ASSUME NEW w, ReadValues("macos", w), NEW s \in AllServices
  PROVE  /\ w[<<s, "bypass">>] \in STRING
         /\ w[<<s, "bypass">>] \in Target("macos", w)[<<s, "bypass">>]
         /\ \A kind \in {"web", "secure"} :
              ServesAs(Target("macos", w), <<s, kind>>, w[<<s, kind>>])
<1>1. ASSUME NEW kind \in {"web", "secure"}
      PROVE  ServesAs(Target("macos", w), <<s, kind>>, w[<<s, kind>>])
  <2> DEFINE k == <<s, kind>>
  <2>1. k \in Keys("macos") /\ Values("macos", k) = Proxies /\ k[2] # "bypass"
    BY MacKey
  <2> HIDE DEF k
  <2>2. w[k] \in Proxies
    BY <2>1 DEF ReadValues
  <2>3. Back(w, k) = w[k]
    BY <2>2, ValuesAssumption DEF Back
  <2>4. \A x : Effective("macos", k, x) = Serving(x)
    BY <2>1 DEF Effective, Serving
  <2>5. Target("macos", w)[k] = {x \in Proxies : Serving(x) = Serving(w[k])}
    BY <2>1, <2>3, <2>4 DEF Target
  <2> QED BY <2>2, <2>5 DEF k, ServesAs
<1>2. w[<<s, "bypass">>] \in STRING /\ w[<<s, "bypass">>] \in Target("macos", w)[<<s, "bypass">>]
  <2> DEFINE k == <<s, "bypass">>
  <2>1. k \in Keys("macos") /\ Values("macos", k) = STRING
    BY MacKey
  <2> HIDE DEF k
  <2>2. w[k] \in STRING
    BY <2>1 DEF ReadValues
  <2>3. Back(w, k) = w[k]
    BY <2>2, ValuesAssumption DEF Back
  <2>4. w[k] \in Target("macos", w)[k]
    BY <2>1, <2>2, <2>3 DEF Target
  <2> QED BY <2>2, <2>4 DEF k
<1> QED BY <1>1, <1>2

LEMMA MacRestoreSteers ==
  ASSUME NEW w, ReadValues("macos", w)
  PROVE  /\ Steers(MacRestore(w), "macos", Target("macos", w))
         /\ \A k \in Keys("macos") : Writes(MacRestore(w), k)
<1> DEFINE G == Target("macos", w)
           E(s) == <<Exempt(s, w[<<s, "bypass">>])>>
           W(s) == MacRestoreKind(s, "web", w[<<s, "web">>])
           X(s) == MacRestoreKind(s, "secure", w[<<s, "secure">>])
           blocks == [s \in AllServices |-> E(s) \o W(s) \o X(s)]
<1>1. ASSUME NEW s \in AllServices
      PROVE  /\ Steers(blocks[s], "macos", G)
             /\ \A kind \in {"web", "secure", "bypass"} : Writes(blocks[s], <<s, kind>>)
  <2>1. Steers(W(s), "macos", G) /\ Writes(W(s), <<s, "web">>)
    <3> DEFINE was == w[<<s, "web">>]
    <3>1. ServesAs(G, <<s, "web">>, was)
      BY MacTarget
    <3> HIDE DEF was, G
    <3>2. /\ Steers(MacRestoreKind(s, "web", was), "macos", G)
          /\ Writes(MacRestoreKind(s, "web", was), <<s, "web">>)
      BY <3>1, MacRestoreKindSteers
    <3> QED BY <3>2 DEF was
  <2>2. Steers(X(s), "macos", G) /\ Writes(X(s), <<s, "secure">>)
    <3> DEFINE was == w[<<s, "secure">>]
    <3>1. ServesAs(G, <<s, "secure">>, was)
      BY MacTarget
    <3> HIDE DEF was, G
    <3>2. /\ Steers(MacRestoreKind(s, "secure", was), "macos", G)
          /\ Writes(MacRestoreKind(s, "secure", was), <<s, "secure">>)
      BY <3>1, MacRestoreKindSteers
    <3> QED BY <3>2 DEF was
  <2>3. Steers(E(s), "macos", G) /\ Writes(E(s), <<s, "bypass">>)
    <3> DEFINE v == w[<<s, "bypass">>]
               c == Exempt(s, v)
    <3>1. v \in STRING /\ v \in G[<<s, "bypass">>]
      BY MacTarget
    <3>2. /\ c \in Commands("macos") /\ c.key = <<s, "bypass">>
          /\ \A y : Written(y, c) = v
      BY <3>1, ExemptFits
    <3>3. E(s) = <<c>>
      OBVIOUS
    <3> HIDE DEF v, c, G, E
    <3>4. Forces(c, "macos", G)
      BY <3>1, <3>2 DEF Forces
    <3> QED BY <3>2, <3>3, <3>4, SteersOne
  <2>4. blocks[s] = (E(s) \o W(s)) \o X(s)
    OBVIOUS
  <2> HIDE DEF blocks, E, W, X, G
  <2>5. /\ Steers(E(s) \o W(s), "macos", G)
        /\ \A k : Writes(E(s) \o W(s), k) <=> Writes(E(s), k) \/ Writes(W(s), k)
    BY <2>1, <2>3, SteersTogether
  <2>6. /\ Steers((E(s) \o W(s)) \o X(s), "macos", G)
        /\ \A k : Writes((E(s) \o W(s)) \o X(s), k) <=> Writes(E(s) \o W(s), k) \/ Writes(X(s), k)
    BY <2>2, <2>5, SteersTogether
  <2>7. /\ Writes(blocks[s], <<s, "web">>) /\ Writes(blocks[s], <<s, "secure">>)
        /\ Writes(blocks[s], <<s, "bypass">>)
    BY <2>1, <2>2, <2>3, <2>4, <2>5, <2>6
  <2> QED BY <2>4, <2>6, <2>7
<1>2. MacRestore(w) = Each(Services, blocks)
  BY DEF MacRestore
<1> HIDE DEF G, blocks
<1>3. /\ Steers(Each(Services, blocks), "macos", G)
      /\ \A s \in AllServices : \A k :
           Writes(blocks[s], k) => Writes(Each(Services, blocks), k)
  BY <1>1, SteersServices
<1>4. \A k \in Keys("macos") : \E s \in AllServices : \E kind \in {"web", "secure", "bypass"} :
        k = <<s, kind>>
  BY DEF Keys, MacKeys
<1>5. ASSUME NEW k \in Keys("macos") PROVE Writes(Each(Services, blocks), k)
  <2>1. PICK s \in AllServices : \E kind \in {"web", "secure", "bypass"} : k = <<s, kind>>
    BY <1>4
  <2>2. PICK kind \in {"web", "secure", "bypass"} : k = <<s, kind>>
    BY <2>1
  <2>3. Writes(blocks[s], k)
    BY <1>1, <2>2
  <2> QED BY <1>3, <2>3
<1> QED BY <1>2, <1>3, <1>5 DEF G

LEMMA TargetOf ==
  ASSUME NEW p, NEW w, NEW k \in Keys(p), Back(w, k) \in Values(p, k)
  PROVE  Back(w, k) \in Target(p, w)[k]
BY DEF Target

LEMMA WinRestoreSteers ==
  ASSUME NEW w, ReadValues("windows", w)
  PROVE  /\ Steers(WinRestore(w), "windows", Target("windows", w))
         /\ \A k \in Keys("windows") : Writes(WinRestore(w), k)
<1> DEFINE G == Target("windows", w)
           s == WinRestore(w)
           c1 == PutBack("ProxyEnable", w[Reg("ProxyEnable")])
           c2 == PutBack("ProxyServer", w[Reg("ProxyServer")])
           c3 == PutBack("ProxyOverride", w[Reg("ProxyOverride")])
           In(c, k) == /\ c.key = k
                       /\ \E x \in Values("windows", k) : c = Assign(k, x) /\ x \in G[k]
<1>1. ASSUME NEW name \in {"ProxyEnable", "ProxyServer", "ProxyOverride"}
      PROVE  In(PutBack(name, w[Reg(name)]), Reg(name))
  <2> DEFINE k == Reg(name)
             x == Back(w, k)
  <2>1. k \in Keys("windows") /\ Values("windows", k) = STRING
    BY WinKey
  <2>2. PutBack(name, w[k]) = Assign(k, x)
    BY DEF PutBack, Back
  <2> HIDE DEF k
  <2>3. x \in STRING
    BY <2>1, WordsAssumption DEF Back, ReadValues
  <2>4. x \in G[k]
    BY <2>1, <2>3, TargetOf
  <2>5. Assign(k, x).key = k
    BY DEF Assign
  <2> HIDE DEF G, x
  <2> QED BY <2>1, <2>2, <2>3, <2>4, <2>5 DEF k
<1> HIDE DEF In
<1>2. In(c1, Reg("ProxyEnable")) /\ In(c2, Reg("ProxyServer")) /\ In(c3, Reg("ProxyOverride"))
  BY <1>1
<1>3. s = <<c1, c2, c3>>
  BY DEF WinRestore
<1> HIDE DEF s, c1, c2, c3, G
<1>4. Len(s) = 3 /\ s[1] = c1 /\ s[2] = c2 /\ s[3] = c3
  BY <1>3
<1>5. s \in Seq({c1, c2, c3})
  BY <1>3
<1>6. ASSUME NEW n \in 1..Len(s)
      PROVE  \E k \in Keys("windows") : \E x \in Values("windows", k) :
               s[n] = Assign(k, x) /\ x \in G[k]
  <2>1. PICK k \in Keys("windows") : In(s[n], k)
    BY <1>2, <1>4, WinKey
  <2> QED BY <2>1 DEF In
<1>7. Steers(s, "windows", G)
  BY <1>5, <1>6, AssignsSteer
<1>8. /\ c1.key = Reg("ProxyEnable") /\ c2.key = Reg("ProxyServer")
      /\ c3.key = Reg("ProxyOverride")
  BY <1>2 DEF In
<1>9. /\ Writes(s, Reg("ProxyEnable")) /\ Writes(s, Reg("ProxyServer"))
      /\ Writes(s, Reg("ProxyOverride"))
  BY <1>4, <1>8 DEF Writes
<1>10. \A k \in Keys("windows") : Writes(s, k)
  BY <1>9, WinKey
<1> QED BY <1>7, <1>10 DEF s, G

LEMMA LinuxRestoreSteers ==
  ASSUME NEW w, ReadValues("linux", w)
  PROVE  /\ Steers(LinuxRestore(w), "linux", Target("linux", w))
         /\ \A k \in Keys("linux") : w[k] # None => Writes(LinuxRestore(w), k)
<1> DEFINE G == Target("linux", w)
           blocks == [k \in LinuxKeys |-> IF w[k] = None THEN <<>> ELSE <<Assign(k, w[k])>>]
<1>1. LinuxKeys = Keys("linux")
  BY DEF Keys
<1>2. ASSUME NEW k \in Keys("linux")
      PROVE  Steers(blocks[k], "linux", G) /\ (w[k] # None => Writes(blocks[k], k))
  <2>1. CASE w[k] = None
    BY <1>1, <2>1, SteersNothing
  <2>2. CASE w[k] # None
    <3> DEFINE c == Assign(k, w[k])
    <3>1. w[k] \in Values("linux", k)
      BY <2>2 DEF ReadValues
    <3>2. Back(w, k) = w[k]
      BY <2>2 DEF Back
    <3>3. w[k] \in G[k]
      BY <3>1, <3>2, TargetOf
    <3>4. c \in Commands("linux") /\ c.key = k /\ \A y : Written(y, c) = w[k]
      BY <3>1, AssignFits
    <3>5. blocks[k] = <<c>>
      BY <1>1, <2>2
    <3> HIDE DEF c, G, blocks
    <3>6. Forces(c, "linux", G)
      BY <3>3, <3>4 DEF Forces
    <3> QED BY <3>4, <3>5, <3>6, SteersOne
  <2> QED BY <2>1, <2>2
<1>3. LinuxRestore(w) = Each(LinuxOrder, blocks)
  BY DEF LinuxRestore
<1> HIDE DEF G, blocks
<1>4. \A i \in 1..Len(LinuxOrder) : Steers(blocks[LinuxOrder[i]], "linux", G)
  BY <1>2, LinuxKey
<1>7. Len(LinuxOrder) \in Nat
  BY LinuxKey
<1>5. /\ Steers(Each(LinuxOrder, blocks), "linux", G)
      /\ \A i \in 1..Len(LinuxOrder) : \A k :
           Writes(blocks[LinuxOrder[i]], k) => Writes(Each(LinuxOrder, blocks), k)
  BY <1>4, <1>7, SteersEach
<1>6. ASSUME NEW k \in Keys("linux"), w[k] # None PROVE Writes(Each(LinuxOrder, blocks), k)
  <2>1. PICK n \in 1..6 : k = LinuxOrder[n]
    BY LinuxKey
  <2>2. Writes(blocks[LinuxOrder[n]], k)
    BY <1>2, <1>6, <2>1
  <2> QED BY <1>5, <2>2, LinuxKey
<1> QED BY <1>3, <1>5, <1>6 DEF G

LEMMA RestoreSteers ==
  ASSUME NEW o, NEW p \in Platforms, NEW w, ReadValues(p, w)
  PROVE  /\ Steers(RestoreCommands(o, Settings(p, w)), p, Target(p, w))
         /\ \A k \in Keys(p) : w[k] # None \/ p = "windows" =>
              Writes(RestoreCommands(o, Settings(p, w)), k)
<1> DEFINE s == RestoreCommands(o, Settings(p, w))
<1>1. Settings(p, w).platform = p /\ Settings(p, w).values = w
  BY DEF Settings
<1>2. CASE p = "macos"
  <2>1. s = MacRestore(w)
    BY <1>1, <1>2 DEF RestoreCommands
  <2> QED BY <1>2, <2>1, MacRestoreSteers
<1>3. CASE p = "windows"
  <2>1. s = WinRestore(w)
    BY <1>1, <1>3 DEF RestoreCommands
  <2> QED BY <1>3, <2>1, WinRestoreSteers
<1>4. CASE p = "linux"
  <2>1. s = LinuxRestore(w)
    BY <1>1, <1>4 DEF RestoreCommands
  <2> QED BY <1>4, <2>1, LinuxRestoreSteers
<1> QED BY <1>2, <1>3, <1>4 DEF Platforms

-----------------------------------------------------------------------------
\* Snapshots.
Unknown == Settings("unknown", <<>>)

LEMMA SnapshotValues ==
  ASSUME NEW o, IsSettings(o)
  PROVE  /\ SnapshotOf(o).platform = o.platform
         /\ SnapshotOf(o) = Settings(o.platform, SnapshotOf(o).values)
         /\ SnapshotOf(o).values = [k \in Keys(o.platform) |-> Read(o, o.values[k])]
         /\ ReadValues(o.platform, SnapshotOf(o).values)
         /\ \A k \in Keys(o.platform) :
              /\ SnapshotOf(o).values[k] # None \/ o.platform = "windows"
              /\ Effective(o.platform, k, Back(SnapshotOf(o).values, k))
                   = Effective(o.platform, k, o.values[k])
<1> DEFINE p == o.platform
           w == SnapshotOf(o).values
<1>1. /\ SnapshotOf(o).platform = p /\ SnapshotOf(o) = Settings(p, w)
      /\ w = [k \in Keys(p) |-> Read(o, o.values[k])]
  BY DEF SnapshotOf, Settings
<1>2. p \in Platforms /\ \A k \in Keys(p) : o.values[k] \in Values(p, k)
  BY DEF IsSettings, Platforms
<1> HIDE DEF w
<1>3. \A k \in Keys(p) : w[k] = Read(o, o.values[k])
  BY <1>1
<1>4. ASSUME NEW k \in Keys(p)
      PROVE  /\ w[k] \in Values(p, k) \/ (p # "macos" /\ w[k] = None)
             /\ w[k] # None \/ p = "windows"
             /\ Effective(p, k, Back(w, k)) = Effective(p, k, o.values[k])
  <2> DEFINE v == o.values[k]
  <2>1. CASE p = "windows"
    <3>1. w[k] = WinRead(v) /\ v \in STRING /\ Values(p, k) = STRING
      BY <1>2, <1>3, <2>1, WinKey DEF Read
    <3> HIDE DEF v
    <3>2. v # None
      BY <3>1, ValuesAssumption
    <3>3. CASE v = Absent
      <4>1. w[k] = None
        BY <3>1, <3>3 DEF WinRead, Absent
      <4> QED BY <2>1, <3>3, <4>1 DEF Back, v
    <3>4. CASE v = "" /\ v # Absent
      <4>1. w[k] = "REG_SZ" /\ "REG_SZ" \in STRING
        BY <3>1, <3>4, WordsAssumption DEF WinRead, Absent
      <4>2. "REG_SZ" # None
        BY <4>1, ValuesAssumption
      <4>3. Back(w, k) = "REG_SZ"
        BY <4>1, <4>2 DEF Back
      <4>4. Effective(p, k, "REG_SZ") = "" /\ Effective(p, k, v) = ""
        BY <2>1, <3>4 DEF Effective
      <4> QED BY <2>1, <3>1, <4>1, <4>3, <4>4 DEF v
    <3>5. CASE v # "" /\ v # Absent
      <4>1. w[k] = v
        BY <3>1, <3>5 DEF WinRead, Absent
      <4>2. Back(w, k) = v
        BY <3>2, <4>1 DEF Back
      <4> QED BY <2>1, <3>1, <4>1, <4>2 DEF v
    <3> QED BY <3>3, <3>4, <3>5
  <2>2. CASE p # "windows"
    <3>1. w[k] = v /\ v \in Values(p, k)
      BY <1>2, <1>3, <2>2 DEF Read
    <3>2. v # None
      BY <3>1, ValuesAssumption DEF Values
    <3>3. Back(w, k) = v
      BY <3>1, <3>2 DEF Back
    <3> QED BY <3>1, <3>2, <3>3
  <2> QED BY <2>1, <2>2
<1>5. ReadValues(p, w)
  BY <1>4 DEF ReadValues
<1> QED BY <1>1, <1>4, <1>5 DEF w

\* What is captured has the effect of what was there, restored from anywhere.
LEMMA RestoreKeeps ==
  ASSUME NEW o, IsSettings(o), NEW u, IsSettings(u), o.platform = u.platform
  PROVE  Effect(Applied(o, SnapshotOf(u))) = Effect(u)
<1> DEFINE p == u.platform
           w == SnapshotOf(u).values
           s == RestoreCommands(o, SnapshotOf(u))
           d == Done(o, s)
<1>1. /\ SnapshotOf(u) = Settings(p, w) /\ ReadValues(p, w)
      /\ \A k \in Keys(p) : w[k] # None \/ p = "windows"
      /\ \A k \in Keys(p) : Effective(p, k, Back(w, k)) = Effective(p, k, u.values[k])
  BY SnapshotValues
<1>2. p \in Platforms
  BY DEF IsSettings, Platforms
<1> HIDE DEF w
<1>3. Steers(s, p, Target(p, w)) /\ \A k \in Keys(p) : Writes(s, k)
  BY <1>1, <1>2, RestoreSteers
<1> HIDE DEF s
<1>4. /\ d.platform = p
      /\ \A k \in Keys(p) : d.values[k] \in Target(p, w)[k]
  BY <1>3, DoneSteered
<1> HIDE DEF d
<1>5. \A k \in Keys(p) : Effective(p, k, d.values[k]) = Effective(p, k, u.values[k])
  BY <1>1, <1>4 DEF Target
<1>6. Effect(d) = Effect(u)
  BY <1>4, <1>5 DEF Effect
<1> QED BY <1>6 DEF Applied, d, s

LEMMA SnapshotsFit ==
  ASSUME NEW o, IsSettings(o)
  PROVE  /\ IsSnapshot(SnapshotOf(o), o)
         /\ \A s \in FailedSnapshots(o) : IsSnapshot(s, o)
         /\ SnapshotOf(o) # Nothing /\ \A s \in FailedSnapshots(o) : s # Nothing
<1> DEFINE p == o.platform
           w == SnapshotOf(o).values
<1>1. /\ SnapshotOf(o).platform = p /\ SnapshotOf(o) = Settings(p, w)
      /\ w = [k \in Keys(p) |-> Read(o, o.values[k])] /\ ReadValues(p, w)
  BY SnapshotValues
<1> HIDE DEF w
<1>2. w = [k \in Keys(p) |-> w[k]]
  BY <1>1
<1>3. IsSnapshot(SnapshotOf(o), o)
  BY <1>1, <1>2 DEF IsSnapshot, ReadValues, Settings
<1>4. IsSnapshot(Unknown, o)
  BY DEF IsSnapshot, Unknown
<1>5. ASSUME p # "macos", NEW k \in Keys(p) PROVE IsSnapshot(Without(SnapshotOf(o), k), o)
  <2> DEFINE x == [w EXCEPT ![k] = None]
             s == Without(SnapshotOf(o), k)
  <2>1. s = Settings(p, x)
    BY <1>1 DEF Without, Settings
  <2>2. x = [j \in Keys(p) |-> x[j]] /\ x[k] = None /\ \A j \in Keys(p) : j # k => x[j] = w[j]
    BY <1>2, <1>5
  <2> HIDE DEF x, s
  <2>3. s.values = x
    BY <2>1 DEF Settings
  <2>4. \A j \in Keys(p) : x[j] \in Values(p, j) \/ x[j] = None
    BY <1>1, <2>2 DEF ReadValues
  <2>5. s = Settings(p, [j \in Keys(p) |-> s.values[j]])
    BY <2>1, <2>2, <2>3
  <2> QED BY <1>5, <2>3, <2>4, <2>5 DEF IsSnapshot, s
<1>6. \A s \in FailedSnapshots(o) : IsSnapshot(s, o)
  BY <1>4, <1>5 DEF FailedSnapshots, Unknown
<1>7. \A q, v : Settings(q, v) # Nothing
  BY DEF Settings, Nothing
<1>8. \A s : IsSnapshot(s, o) => s # Nothing
  BY <1>7 DEF IsSnapshot
<1> QED BY <1>3, <1>6, <1>8

LEMMA EffectFits ==
  ASSUME NEW o, IsSettings(o)
  PROVE  IsSettings(Effect(o)) /\ Effect(o).platform = o.platform
<1> DEFINE p == o.platform
           e == [k \in Keys(p) |-> Effective(p, k, o.values[k])]
<1>1. p \in Platforms /\ \A k \in Keys(p) : o.values[k] \in Values(p, k)
  BY DEF IsSettings, Platforms
<1>2. Effect(o) = Settings(p, e) /\ Effect(o).platform = p /\ Effect(o).values = e
  BY DEF Effect, Settings
<1>3. ASSUME NEW k \in Keys(p), NEW x \in Values(p, k) PROVE Effective(p, k, x) \in Values(p, k)
  <2>1. "" \in STRING
    BY WordsAssumption
  <2>2. [server |-> "", on |-> FALSE] \in Proxies
    BY <2>1 DEF Proxies
  <2>3. CASE p = "macos" /\ k[2] # "bypass"
    BY <2>2, <2>3 DEF Effective, Values
  <2>4. CASE ~(p = "macos" /\ k[2] # "bypass")
    <3>1. Values(p, k) = STRING
      BY <2>4 DEF Values
    <3> QED BY <2>1, <2>4, <3>1 DEF Effective
  <2> QED BY <2>3, <2>4
<1>4. \A k \in Keys(p) : e[k] \in Values(p, k)
  BY <1>1, <1>3
<1>5. e = [k \in Keys(p) |-> e[k]]
  OBVIOUS
<1> HIDE DEF e
<1>6. Fits(e, p)
  BY <1>4, <1>5 DEF Fits
<1>7. Effect(o) = Settings(Effect(o).platform, Effect(o).values)
  BY <1>2
<1> QED BY <1>1, <1>2, <1>6, <1>7, SettingsFit

-----------------------------------------------------------------------------
\* The commands of a call are commands of the platform; after enable the machine
\* is pointed at the instance.
LEMMA EnableFits ==
  ASSUME NEW o, IsSettings(o), NEW server \in STRING
  PROVE  /\ EnableCommands(o, server) \in Seq(Commands(o.platform))
         /\ StatusFor(Done(o, EnableCommands(o, server)), server)
<1> DEFINE s == EnableCommands(o, server)
           d == Done(o, s)
<1>1. o.platform \in Platforms
  BY DEF IsSettings, Platforms
<1>2. CASE o.platform = "macos"
  <2> DEFINE G == MacPointing(server)
             k == <<Services[1], "web">>
  <2>1. s = MacEnable(server)
    BY <1>2 DEF EnableCommands
  <2>2. Steers(s, "macos", G) /\ Writes(s, k)
    BY <2>1, MacEnableSteers
  <2>3. k \in Keys("macos") /\ G[k] = {AtServer(server)}
    BY MacList, MacKey DEF MacPointing
  <2> HIDE DEF s, G
  <2>4. d.platform = "macos" /\ d.values[k] \in G[k]
    BY <1>2, <2>2, <2>3, DoneSteered
  <2> HIDE DEF d
  <2>5. d.values[k] = AtServer(server)
    BY <2>3, <2>4
  <2>6. AtServer(server).on /\ AtServer(server).server = server
    BY DEF AtServer
  <2>7. StatusFor(d, server)
    BY <2>4, <2>5, <2>6 DEF StatusFor, MacStatusFor
  <2> QED BY <1>2, <2>2, <2>7 DEF d, s, Steers
<1>3. CASE o.platform = "windows"
  <2> DEFINE G == WinPointing(server)
  <2>1. s = WinEnable(server)
    BY <1>3 DEF EnableCommands
  <2>2. /\ Steers(s, "windows", G)
        /\ Writes(s, Reg("ProxyEnable")) /\ Writes(s, Reg("ProxyServer"))
    BY <2>1, WinEnableSteers
  <2>3. G[Reg("ProxyEnable")] = {"0x1"} /\ G[Reg("ProxyServer")] = {server}
    BY WinKey DEF WinPointing
  <2> HIDE DEF s, G
  <2>4. /\ d.platform = "windows"
        /\ d.values[Reg("ProxyEnable")] \in G[Reg("ProxyEnable")]
        /\ d.values[Reg("ProxyServer")] \in G[Reg("ProxyServer")]
    BY <1>3, <2>2, WinKey, DoneSteered
  <2> HIDE DEF d
  <2>5. StatusFor(d, server)
    BY <2>3, <2>4 DEF StatusFor, WinStatusFor
  <2> QED BY <1>3, <2>2, <2>5 DEF d, s, Steers
<1>4. CASE o.platform = "linux"
  <2> DEFINE G == LinuxPointing(server)
             h == <<"http", "host">>
             t == <<"http", "port">>
  <2>1. s = LinuxEnable(server)
    BY <1>4 DEF EnableCommands
  <2>2. Steers(s, "linux", G) /\ Writes(s, Mode) /\ Writes(s, h) /\ Writes(s, t)
    BY <2>1, LinuxEnableSteers
  <2>3. G[Mode] = {"manual"} /\ G[h] = {Loopback} /\ G[t] = {server}
    BY LinuxKey DEF LinuxPointing, Mode
  <2>4. Mode \in Keys("linux") /\ h \in Keys("linux") /\ t \in Keys("linux")
    BY LinuxKey
  <2> HIDE DEF s, G, h, t
  <2>5. /\ d.platform = "linux"
        /\ d.values[Mode] \in G[Mode] /\ d.values[h] \in G[h] /\ d.values[t] \in G[t]
    BY <1>4, <2>2, <2>4, DoneSteered
  <2> HIDE DEF d
  <2>6. StatusFor(d, server)
    BY <2>3, <2>5 DEF StatusFor, LinuxStatusFor, h, t
  <2> QED BY <1>4, <2>2, <2>6 DEF d, s, Steers
<1> QED BY <1>1, <1>2, <1>3, <1>4 DEF Platforms

LEMMA DisableFits ==
  ASSUME NEW o, IsSettings(o)
  PROVE  DisableCommands(o) \in Seq(Commands(o.platform))
<1>1. o.platform \in Platforms
  BY DEF IsSettings, Platforms
<1>2. CASE o.platform = "macos"
  BY <1>2, MacDisableTyped DEF DisableCommands
<1>3. CASE o.platform = "windows"
  BY <1>3, WinDisableTyped DEF DisableCommands
<1>4. CASE o.platform = "linux"
  BY <1>4, LinuxDisableTyped DEF DisableCommands
<1> QED BY <1>1, <1>2, <1>3, <1>4 DEF Platforms

LEMMA RestoreFits ==
  ASSUME NEW o, IsSettings(o), NEW s, IsSnapshot(s, o)
  PROVE  RestoreCommands(o, s) \in Seq(Commands(o.platform))
<1> DEFINE p == o.platform
           w == s.values
<1>1. p \in Platforms
  BY DEF IsSettings, Platforms
<1>2. CASE s = Unknown
  <2>1. s.platform = "unknown"
    BY <1>2 DEF Unknown, Settings
  <2>2. RestoreCommands(o, s) = DisableCommands(o)
    BY <2>1 DEF RestoreCommands
  <2> QED BY <2>2, DisableFits
<1>3. CASE s # Unknown
  <2>1. s = Settings(p, [k \in Keys(p) |-> w[k]]) /\ ReadValues(p, w)
    BY <1>3 DEF IsSnapshot, Unknown, ReadValues
  <2>2. s = Settings(p, w)
    BY <2>1 DEF Settings
  <2> HIDE DEF w
  <2>3. Steers(RestoreCommands(o, Settings(p, w)), p, Target(p, w))
    BY <1>1, <2>1, RestoreSteers
  <2> QED BY <2>2, <2>3 DEF Steers
<1> QED BY <1>2, <1>3

-----------------------------------------------------------------------------
\* Every variable stays in its range, and a call that is about to use the
\* snapshot it holds, holds one.
Steps  == {"idle", "read", "remove", "restore", "disable", "snapshot", "enable", "write"}
Ops    == {"none", "recover", "restoreIfMarked", "release", "acquire"}
Stands == {"down", "recovering", "up", "restoring", "draining", "dead"}
Holding == {"remove", "restore", "enable", "write"}

MaybeSnapshot(s, o) == s = Nothing \/ IsSnapshot(s, o)

SettingsOK == IsSettings(os) /\ IsSettings(original) /\ original.platform = os.platform
SnapshotsOK ==
  /\ MaybeSnapshot(marker, os)
  /\ saved = [c \in Callers |-> saved[c]]
  /\ \A c \in Callers : MaybeSnapshot(saved[c], os)
ControlOK ==
  /\ inst \in [Instances -> Stands] /\ pc \in [Callers -> Steps] /\ op \in [Callers -> Ops]
  /\ acquired \subseteq Instances /\ torn \in BOOLEAN /\ faults \in 0..MaxFaults
HoldsOK == \A c \in Callers : pc[c] \in Holding => saved[c] # Nothing

TypeInv == SettingsOK /\ SnapshotsOK /\ ControlOK /\ HoldsOK

LEMMA TypeInvTypes ==
  ASSUME TypeInv PROVE TypeOK
<1>1. \A s \in {marker} \union {saved[c] : c \in Callers} : s = Nothing \/ IsSnapshot(s, os)
  BY DEF TypeInv, SnapshotsOK, MaybeSnapshot
<1> QED BY <1>1 DEF TypeInv, SettingsOK, ControlOK, TypeOK, Steps, Ops, Stands

LEMMA SnapshotMoves ==
  ASSUME NEW o, NEW r, o.platform = r.platform, NEW s, MaybeSnapshot(s, o)
  PROVE  MaybeSnapshot(s, r)
BY DEF MaybeSnapshot, IsSnapshot

LEMMA CallerIs ==
  /\ \A c \in Callers : c.who \in Instances /\ c.who \in STRING
  /\ \A i \in Instances : Main(i) \in Callers
BY CallersAssumption, ConfigsAssumption DEF Main

LEMMA InitTyped ==
  ASSUME Init PROVE TypeInv
<1>1. IsSettings(os)
  BY ConfigsAssumption DEF Init
<1>2. SettingsOK
  BY <1>1, EffectFits DEF Init, SettingsOK
<1>3. SnapshotsOK
  BY DEF Init, SnapshotsOK, MaybeSnapshot
<1>4. ControlOK
  <2>1. inst \in [Instances -> Stands] /\ pc \in [Callers -> Steps] /\ op \in [Callers -> Ops]
    BY DEF Init, Steps, Ops, Stands
  <2>2. acquired \subseteq Instances /\ torn \in BOOLEAN
    BY DEF Init
  <2>3. faults \in 0..MaxFaults
    BY BoundsAssumption DEF Init
  <2> QED BY <2>1, <2>2, <2>3 DEF ControlOK
<1>5. HoldsOK
  BY DEF Init, HoldsOK, Holding
<1> QED BY <1>2, <1>3, <1>4, <1>5 DEF TypeInv

\* What the parts of an action leave typed.
LEMMA BeginTyped ==
  ASSUME TypeInv, NEW c \in Callers, NEW f \in Ops, Begin(c, f)
  PROVE  /\ pc' \in [Callers -> Steps] /\ op' \in [Callers -> Ops] /\ torn' \in BOOLEAN
         /\ saved' = saved /\ HoldsOK'
<1>1. pc' = [pc EXCEPT ![c] = "read"] /\ op' = [op EXCEPT ![c] = f] /\ saved' = saved
  BY DEF Begin, FirstStep
<1>2. pc \in [Callers -> Steps] /\ op \in [Callers -> Ops] /\ torn \in BOOLEAN
  BY DEF TypeInv, ControlOK
<1>3. pc' \in [Callers -> Steps] /\ op' \in [Callers -> Ops]
  BY <1>1, <1>2 DEF Steps
<1>4. torn' \in BOOLEAN
  BY <1>2 DEF Begin
<1>5. \A d \in Callers : pc'[d] = IF d = c THEN "read" ELSE pc[d]
  BY <1>1, <1>2
<1>6. HoldsOK'
  BY <1>1, <1>5 DEF TypeInv, HoldsOK, Holding
<1> QED BY <1>1, <1>3, <1>4, <1>6

LEMMA GoTyped ==
  ASSUME TypeInv, NEW c \in Callers, NEW step \in Steps, Go(c, step)
  PROVE  /\ pc' \in [Callers -> Steps] /\ op' \in [Callers -> Ops]
         /\ \A d \in Callers : pc'[d] = IF d = c THEN step ELSE pc[d]
BY DEF TypeInv, ControlOK, Go, Ops

LEMMA FailsTyped ==
  ASSUME TypeInv, NEW failed \in BOOLEAN, Fails(failed)
  PROVE  torn' \in BOOLEAN /\ faults' \in 0..MaxFaults
<1>1. torn \in BOOLEAN /\ faults \in 0..MaxFaults
  BY DEF TypeInv, ControlOK
<1>2. torn' \in BOOLEAN
  BY <1>1 DEF Fails
<1>3. CASE failed
  <2>1. faults < MaxFaults /\ faults' = faults + 1
    BY <1>3 DEF Fails
  <2> QED BY <1>1, <1>2, <2>1, BoundsAssumption
<1>4. CASE ~failed
  <2>1. faults' = faults
    BY <1>4 DEF Fails
  <2> QED BY <1>1, <1>2, <2>1
<1> QED BY <1>3, <1>4

LEMMA SaveTyped ==
  ASSUME TypeInv, NEW c \in Callers, NEW s, MaybeSnapshot(s, os),
         saved' = [saved EXCEPT ![c] = s], os'.platform = os.platform,
         MaybeSnapshot(marker', os)
  PROVE  SnapshotsOK' /\ \A d \in Callers : saved'[d] = IF d = c THEN s ELSE saved[d]
<1>1. saved = [d \in Callers |-> saved[d]] /\ \A d \in Callers : MaybeSnapshot(saved[d], os)
  BY DEF TypeInv, SnapshotsOK
<1>2. /\ saved' = [d \in Callers |-> saved'[d]]
      /\ \A d \in Callers : saved'[d] = IF d = c THEN s ELSE saved[d]
  BY <1>1
<1>3. \A d \in Callers : MaybeSnapshot(saved'[d], os)
  BY <1>1, <1>2
<1>4. \A t : MaybeSnapshot(t, os) => MaybeSnapshot(t, os')
  BY SnapshotMoves
<1>5. MaybeSnapshot(marker', os') /\ \A d \in Callers : MaybeSnapshot(saved'[d], os')
  BY <1>3, <1>4
<1> QED BY <1>2, <1>5 DEF SnapshotsOK

LEMMA KeptTyped ==
  ASSUME TypeInv, saved' = saved, os'.platform = os.platform, MaybeSnapshot(marker', os)
  PROVE  SnapshotsOK'
<1>1. \A t : MaybeSnapshot(t, os) => MaybeSnapshot(t, os')
  BY SnapshotMoves
<1>2. saved = [d \in Callers |-> saved[d]] /\ \A d \in Callers : MaybeSnapshot(saved[d], os)
  BY DEF TypeInv, SnapshotsOK
<1>3. MaybeSnapshot(marker', os') /\ \A d \in Callers : MaybeSnapshot(saved'[d], os')
  BY <1>1, <1>2
<1> QED BY <1>2, <1>3 DEF SnapshotsOK

LEMMA CommandsFit ==
  ASSUME TypeInv, NEW c \in Callers, NEW failed \in BOOLEAN, NEW r,
         \/ r \in Outcomes(os, EnableCommands(os, c.who), failed)
         \/ r \in Outcomes(os, DisableCommands(os), failed)
         \/ pc[c] = "restore" /\ r \in Outcomes(os, RestoreCommands(os, saved[c]), failed)
  PROVE  IsSettings(r) /\ r.platform = os.platform
<1>1. IsSettings(os)
  BY DEF TypeInv, SettingsOK
<1>2. CASE r \in Outcomes(os, EnableCommands(os, c.who), failed)
  <2>1. EnableCommands(os, c.who) \in Seq(Commands(os.platform))
    BY <1>1, CallerIs, EnableFits
  <2> QED BY <1>1, <1>2, <2>1, OutcomesFit
<1>3. CASE r \in Outcomes(os, DisableCommands(os), failed)
  <2>1. DisableCommands(os) \in Seq(Commands(os.platform))
    BY <1>1, DisableFits
  <2> QED BY <1>1, <1>3, <2>1, OutcomesFit
<1>4. CASE pc[c] = "restore" /\ r \in Outcomes(os, RestoreCommands(os, saved[c]), failed)
  <2>1. IsSnapshot(saved[c], os)
    BY <1>4 DEF TypeInv, HoldsOK, Holding, SnapshotsOK, MaybeSnapshot
  <2>2. RestoreCommands(os, saved[c]) \in Seq(Commands(os.platform))
    BY <1>1, <2>1, RestoreFits
  <2> QED BY <1>1, <1>4, <2>2, OutcomesFit
<1> QED BY <1>2, <1>3, <1>4

\* The steps of a call.
LEMMA CallTyped ==
  ASSUME TypeInv, NEW c \in Callers, CallStep(c) PROVE TypeInv'
<1>1. /\ IsSettings(os) /\ IsSettings(original) /\ original.platform = os.platform
      /\ MaybeSnapshot(marker, os) /\ \A d \in Callers : MaybeSnapshot(saved[d], os)
      /\ \A d \in Callers : pc[d] \in Holding => saved[d] # Nothing
      /\ pc[c] \in Steps /\ op[c] \in Ops
  BY DEF TypeInv, SettingsOK, SnapshotsOK, HoldsOK, ControlOK
<1>2. /\ inst \in [Instances -> Stands] /\ acquired \subseteq Instances
      /\ torn \in BOOLEAN /\ faults \in 0..MaxFaults
  BY DEF TypeInv, ControlOK
<1>3. MaybeSnapshot(Nothing, os)
  BY DEF MaybeSnapshot
<1>4. CASE ReadMarker(c)
  <2> DEFINE step == IF marker = Nothing THEN Unmarked(op[c]) ELSE "remove"
  <2>1. step \in Steps /\ (step \in Holding => marker # Nothing)
    BY DEF Unmarked, Steps, Holding
  <2>2. Go(c, step) /\ saved' = [saved EXCEPT ![c] = marker]
        /\ UNCHANGED <<os, marker, inst, history, torn, faults>>
    BY <1>4 DEF ReadMarker
  <2> HIDE DEF step
  <2>3. /\ pc' \in [Callers -> Steps] /\ op' \in [Callers -> Ops]
        /\ \A d \in Callers : pc'[d] = IF d = c THEN step ELSE pc[d]
    BY <2>1, <2>2, GoTyped
  <2>4. SnapshotsOK' /\ \A d \in Callers : saved'[d] = IF d = c THEN marker ELSE saved[d]
    <3>1. os'.platform = os.platform /\ MaybeSnapshot(marker', os)
      BY <1>1, <2>2
    <3> QED BY <1>1, <2>2, <3>1, SaveTyped
  <2>5. SettingsOK' /\ ControlOK'
    BY <1>1, <1>2, <2>2, <2>3 DEF SettingsOK, ControlOK, history
  <2>6. HoldsOK'
    BY <1>1, <2>1, <2>3, <2>4 DEF HoldsOK
  <2> QED BY <2>4, <2>5, <2>6 DEF TypeInv
<1>5. CASE RemoveMarker(c)
  <2>1. Go(c, "restore") /\ saved' = saved /\ pc[c] = "remove" /\ UNCHANGED <<os, inst, history>>
    BY <1>5 DEF RemoveMarker
  <2>2. PICK failed \in BOOLEAN : Fails(failed) /\ marker' = IF failed THEN marker ELSE Nothing
    BY <1>5 DEF RemoveMarker
  <2>3. "restore" \in Steps
    BY DEF Steps
  <2>4. /\ pc' \in [Callers -> Steps] /\ op' \in [Callers -> Ops]
        /\ \A d \in Callers : pc'[d] = IF d = c THEN "restore" ELSE pc[d]
    BY <2>1, <2>3, GoTyped
  <2>5. torn' \in BOOLEAN /\ faults' \in 0..MaxFaults
    BY <2>2, FailsTyped
  <2>6. SnapshotsOK'
    BY <1>1, <1>3, <2>1, <2>2, KeptTyped
  <2>7. SettingsOK' /\ ControlOK'
    BY <1>1, <1>2, <2>1, <2>4, <2>5 DEF SettingsOK, ControlOK, history
  <2>8. HoldsOK'
    BY <1>1, <2>1, <2>4 DEF HoldsOK, Holding
  <2> QED BY <2>6, <2>7, <2>8 DEF TypeInv
<1>6. CASE Restore(c)
  <2>1. PICK failed \in BOOLEAN :
          Fails(failed) /\ os' \in Outcomes(os, RestoreCommands(os, saved[c]), failed)
    BY <1>6 DEF Restore
  <2>2. /\ pc[c] = "restore" /\ Go(c, Restored(op[c]))
        /\ saved' = [saved EXCEPT ![c] = Nothing]
        /\ UNCHANGED <<marker, inst, history>>
    BY <1>6 DEF Restore
  <2>3. IsSettings(os') /\ os'.platform = os.platform
    BY <2>1, <2>2, CommandsFit
  <2>4. Restored(op[c]) \in Steps \ Holding
    BY DEF Restored, Steps, Holding
  <2>5. /\ pc' \in [Callers -> Steps] /\ op' \in [Callers -> Ops]
        /\ \A d \in Callers : pc'[d] = IF d = c THEN Restored(op[c]) ELSE pc[d]
    BY <2>2, <2>4, GoTyped
  <2>6. torn' \in BOOLEAN /\ faults' \in 0..MaxFaults
    BY <2>1, FailsTyped
  <2>7. SnapshotsOK' /\ \A d \in Callers : saved'[d] = IF d = c THEN Nothing ELSE saved[d]
    BY <1>1, <1>3, <2>2, <2>3, SaveTyped
  <2>8. SettingsOK' /\ ControlOK'
    BY <1>1, <1>2, <2>2, <2>3, <2>5, <2>6 DEF SettingsOK, ControlOK, history
  <2>9. HoldsOK'
    BY <1>1, <2>4, <2>5, <2>7 DEF HoldsOK
  <2> QED BY <2>7, <2>8, <2>9 DEF TypeInv
<1>7. CASE Disable(c)
  <2>1. PICK failed \in BOOLEAN :
          /\ Fails(failed)
          /\ os' \in Outcomes(os, DisableCommands(os), failed)
          /\ original' = IF failed \/ torn THEN original ELSE Effect(os')
    BY <1>7 DEF Disable
  <2>2. /\ Go(c, "idle") /\ UNCHANGED <<marker, inst, saved, acquired>>
    BY <1>7 DEF Disable
  <2>3. IsSettings(os') /\ os'.platform = os.platform
    BY <2>1, CommandsFit
  <2>4. "idle" \in Steps \ Holding
    BY DEF Steps, Holding
  <2>5. /\ pc' \in [Callers -> Steps] /\ op' \in [Callers -> Ops]
        /\ \A d \in Callers : pc'[d] = IF d = c THEN "idle" ELSE pc[d]
    BY <2>2, <2>4, GoTyped
  <2>6. torn' \in BOOLEAN /\ faults' \in 0..MaxFaults
    BY <2>1, FailsTyped
  <2>7. IsSettings(original') /\ original'.platform = os'.platform
    BY <1>1, <2>1, <2>3, EffectFits
  <2>8. SnapshotsOK'
    BY <1>1, <2>2, <2>3, KeptTyped
  <2>9. SettingsOK' /\ ControlOK'
    BY <1>2, <2>2, <2>3, <2>5, <2>6, <2>7 DEF SettingsOK, ControlOK
  <2>10. HoldsOK'
    BY <1>1, <2>2, <2>4, <2>5 DEF HoldsOK
  <2> QED BY <2>8, <2>9, <2>10 DEF TypeInv
<1>8. CASE TakeSnapshot(c)
  <2>1. PICK failed \in BOOLEAN :
          /\ Fails(failed)
          /\ \E s \in IF failed THEN FailedSnapshots(os) ELSE {SnapshotOf(os)} :
               saved' = [saved EXCEPT ![c] = s]
    BY <1>8 DEF TakeSnapshot
  <2>2. PICK s \in IF failed THEN FailedSnapshots(os) ELSE {SnapshotOf(os)} :
          saved' = [saved EXCEPT ![c] = s]
    BY <2>1
  <2>3. Go(c, "enable") /\ UNCHANGED <<os, marker, inst, history>>
    BY <1>8 DEF TakeSnapshot
  <2>4. MaybeSnapshot(s, os) /\ s # Nothing
    BY <1>1, SnapshotsFit DEF MaybeSnapshot
  <2>5. "enable" \in Steps
    BY DEF Steps
  <2>6. /\ pc' \in [Callers -> Steps] /\ op' \in [Callers -> Ops]
        /\ \A d \in Callers : pc'[d] = IF d = c THEN "enable" ELSE pc[d]
    BY <2>3, <2>5, GoTyped
  <2>7. torn' \in BOOLEAN /\ faults' \in 0..MaxFaults
    BY <2>1, FailsTyped
  <2>8. SnapshotsOK' /\ \A d \in Callers : saved'[d] = IF d = c THEN s ELSE saved[d]
    <3>1. os'.platform = os.platform /\ MaybeSnapshot(marker', os)
      BY <1>1, <2>3
    <3> QED BY <2>2, <2>4, <3>1, SaveTyped
  <2>9. SettingsOK' /\ ControlOK'
    BY <1>1, <1>2, <2>3, <2>6, <2>7 DEF SettingsOK, ControlOK, history
  <2>10. HoldsOK'
    BY <1>1, <2>4, <2>6, <2>8 DEF HoldsOK
  <2> QED BY <2>8, <2>9, <2>10 DEF TypeInv
<1>9. CASE Enable(c)
  <2>1. PICK failed \in BOOLEAN :
          /\ Fails(failed)
          /\ os' \in Outcomes(os, EnableCommands(os, c.who), failed)
          /\ Go(c, IF failed THEN "idle" ELSE "write")
          /\ saved' = [saved EXCEPT ![c] = IF failed THEN Nothing ELSE @]
    BY <1>9 DEF Enable
  <2> DEFINE step == IF failed THEN "idle" ELSE "write"
             s == IF failed THEN Nothing ELSE saved[c]
  <2>2. pc[c] = "enable" /\ UNCHANGED <<marker, inst, history>>
    BY <1>9 DEF Enable
  <2>3. IsSettings(os') /\ os'.platform = os.platform
    BY <2>1, CommandsFit
  <2>4. step \in Steps /\ (step \in Holding => s # Nothing)
    BY <1>1, <2>2 DEF Steps, Holding
  <2>5. MaybeSnapshot(s, os)
    BY <1>1, <1>3
  <2>6. Go(c, step) /\ saved' = [saved EXCEPT ![c] = s]
    BY <2>1
  <2> HIDE DEF step, s
  <2>7. /\ pc' \in [Callers -> Steps] /\ op' \in [Callers -> Ops]
        /\ \A d \in Callers : pc'[d] = IF d = c THEN step ELSE pc[d]
    BY <2>4, <2>6, GoTyped
  <2>8. torn' \in BOOLEAN /\ faults' \in 0..MaxFaults
    BY <2>1, FailsTyped
  <2>9. SnapshotsOK' /\ \A d \in Callers : saved'[d] = IF d = c THEN s ELSE saved[d]
    BY <1>1, <2>2, <2>3, <2>5, <2>6, SaveTyped
  <2>10. SettingsOK' /\ ControlOK'
    BY <1>1, <1>2, <2>2, <2>3, <2>7, <2>8 DEF SettingsOK, ControlOK, history
  <2>11. HoldsOK'
    BY <1>1, <2>4, <2>7, <2>9 DEF HoldsOK
  <2> QED BY <2>9, <2>10, <2>11 DEF TypeInv
<1>10. CASE WriteMarker(c)
  <2>1. PICK failed \in BOOLEAN : Fails(failed) /\ marker' = IF failed THEN marker ELSE saved[c]
    BY <1>10 DEF WriteMarker
  <2>2. /\ Go(c, "idle") /\ saved' = [saved EXCEPT ![c] = Nothing]
        /\ UNCHANGED <<os, inst, history>>
    BY <1>10 DEF WriteMarker
  <2>3. "idle" \in Steps \ Holding
    BY DEF Steps, Holding
  <2>4. /\ pc' \in [Callers -> Steps] /\ op' \in [Callers -> Ops]
        /\ \A d \in Callers : pc'[d] = IF d = c THEN "idle" ELSE pc[d]
    BY <2>2, <2>3, GoTyped
  <2>5. torn' \in BOOLEAN /\ faults' \in 0..MaxFaults
    BY <2>1, FailsTyped
  <2>6. MaybeSnapshot(marker', os)
    BY <1>1, <2>1
  <2>7. SnapshotsOK' /\ \A d \in Callers : saved'[d] = IF d = c THEN Nothing ELSE saved[d]
    BY <1>3, <2>2, <2>6, SaveTyped
  <2>8. SettingsOK' /\ ControlOK'
    BY <1>1, <1>2, <2>2, <2>4, <2>5 DEF SettingsOK, ControlOK, history
  <2>9. HoldsOK'
    BY <1>1, <2>3, <2>4, <2>7 DEF HoldsOK
  <2> QED BY <2>7, <2>8, <2>9 DEF TypeInv
<1> QED BY <1>4, <1>5, <1>6, <1>7, <1>8, <1>9, <1>10 DEF CallStep

\* A process that ends: the rest is as a step of its calls may have left it.
LEMMA DieTyped ==
  ASSUME TypeInv, NEW i \in Instances, NEW state \in Stands, Die(i, state),
         faults' \in 0..MaxFaults
  PROVE  TypeInv'
<1>1. /\ IsSettings(os) /\ IsSettings(original) /\ original.platform = os.platform
      /\ MaybeSnapshot(marker, os) /\ \A d \in Callers : MaybeSnapshot(saved[d], os)
      /\ \A d \in Callers : pc[d] \in Holding => saved[d] # Nothing
      /\ inst \in [Instances -> Stands] /\ acquired \subseteq Instances
      /\ pc \in [Callers -> Steps] /\ op \in [Callers -> Ops] /\ torn \in BOOLEAN
  BY DEF TypeInv, SettingsOK, SnapshotsOK, HoldsOK, ControlOK
<1>2. /\ os' \in {os} \union UNION {UnderWay(c) : c \in Cut(i)}
      /\ torn' = (torn \/ \E c \in Cut(i) : pc[c] \in {"restore", "disable", "enable", "write"})
      /\ pc' = [c \in Callers |-> IF c \in Cut(i) THEN "idle" ELSE pc[c]]
      /\ saved' = [c \in Callers |-> IF c \in Cut(i) THEN Nothing ELSE saved[c]]
      /\ op' = [c \in Callers |-> IF c \in Cut(i) THEN "none" ELSE op[c]]
      /\ inst' = [inst EXCEPT ![i] = state]
      /\ acquired' = acquired \ {i} /\ marker' = marker /\ original' = original
  BY DEF Die
<1>3. IsSettings(os') /\ os'.platform = os.platform
  <2>1. CASE os' = os
    BY <1>1, <2>1
  <2>2. ASSUME NEW c \in Cut(i), os' \in UnderWay(c)
        PROVE  IsSettings(os') /\ os'.platform = os.platform
    <3>1. c \in Callers
      BY DEF Cut
    <3>2. \/ os' \in Outcomes(os, EnableCommands(os, c.who), TRUE)
          \/ os' \in Outcomes(os, DisableCommands(os), TRUE)
          \/ pc[c] = "restore" /\ os' \in Outcomes(os, RestoreCommands(os, saved[c]), TRUE)
          \/ os' = os
      BY <2>2 DEF UnderWay
    <3> QED BY <1>1, <3>1, <3>2, CommandsFit
  <2> QED BY <1>2, <2>1, <2>2
<1>4. SettingsOK'
  BY <1>1, <1>2, <1>3 DEF SettingsOK
<1>5. SnapshotsOK'
  <2>1. \A s : MaybeSnapshot(s, os) => MaybeSnapshot(s, os')
    BY <1>3, SnapshotMoves
  <2>2. MaybeSnapshot(Nothing, os')
    BY DEF MaybeSnapshot
  <2>3. saved' = [c \in Callers |-> saved'[c]]
    BY <1>2
  <2>4. \A c \in Callers : saved'[c] = IF c \in Cut(i) THEN Nothing ELSE saved[c]
    BY <1>2
  <2>5. \A c \in Callers : MaybeSnapshot(saved'[c], os')
    BY <1>1, <2>1, <2>2, <2>4
  <2> QED BY <1>1, <1>2, <2>1, <2>3, <2>5 DEF SnapshotsOK
<1>6. ControlOK'
  <2>1. pc' \in [Callers -> Steps] /\ op' \in [Callers -> Ops]
    <3>1. "idle" \in Steps /\ "none" \in Ops
      BY DEF Steps, Ops
    <3> QED BY <1>1, <1>2, <3>1
  <2>2. inst' \in [Instances -> Stands] /\ acquired' \subseteq Instances
    BY <1>1, <1>2
  <2>3. torn' \in BOOLEAN
    BY <1>2
  <2> QED BY <2>1, <2>2, <2>3 DEF ControlOK
<1>7. HoldsOK'
  <2>1. "idle" \notin Holding
    BY DEF Holding
  <2> QED BY <1>1, <1>2, <2>1 DEF HoldsOK
<1> QED BY <1>4, <1>5, <1>6, <1>7 DEF TypeInv

\* An action that begins a call, and changes neither settings nor snapshots.
LEMMA CallBegins ==
  ASSUME TypeInv, NEW c \in Callers, NEW f \in Ops, Begin(c, f),
         UNCHANGED <<os, marker, original, faults>>,
         inst' \in [Instances -> Stands], acquired' \subseteq Instances
  PROVE  TypeInv'
<1>1. /\ pc' \in [Callers -> Steps] /\ op' \in [Callers -> Ops] /\ torn' \in BOOLEAN
      /\ saved' = saved /\ HoldsOK'
  BY BeginTyped
<1>2. SettingsOK'
  BY DEF TypeInv, SettingsOK
<1>3. SnapshotsOK'
  BY <1>1 DEF TypeInv, SnapshotsOK
<1>4. ControlOK'
  BY <1>1 DEF TypeInv, ControlOK
<1> QED BY <1>1, <1>2, <1>3, <1>4 DEF TypeInv

LEMMA NextTyped ==
  ASSUME TypeInv, [Next]_vars PROVE TypeInv'
<1>1. CASE UNCHANGED vars
  BY <1>1 DEF TypeInv, SettingsOK, SnapshotsOK, ControlOK, HoldsOK, vars, calls, history
<1>2. /\ inst \in [Instances -> Stands] /\ acquired \subseteq Instances
      /\ faults \in 0..MaxFaults
  BY DEF TypeInv, ControlOK
<1>3. ASSUME NEW c \in Callers, CallStep(c) PROVE TypeInv'
  BY <1>3, CallTyped
<1>4. ASSUME NEW c \in Callers, TurnOn(c) PROVE TypeInv'
  <2>1. /\ Begin(c, "acquire") /\ "acquire" \in Ops
        /\ UNCHANGED <<os, marker, inst, original, faults>>
        /\ acquired' = IF c.role = "api" THEN acquired \union {c.who} ELSE acquired
    BY <1>4 DEF TurnOn, Ops
  <2>2. inst' \in [Instances -> Stands] /\ acquired' \subseteq Instances
    BY <1>2, <2>1, CallerIs
  <2> QED BY <2>1, <2>2, CallBegins
<1>5. ASSUME NEW c \in Callers, TurnOff(c) PROVE TypeInv'
  <2>1. /\ Begin(c, "release") /\ "release" \in Ops
        /\ UNCHANGED <<os, marker, inst, original, acquired, faults>>
    BY <1>5 DEF TurnOff, Ops, history
  <2> QED BY <1>2, <2>1, CallBegins
<1>6. ASSUME NEW c \in Callers, PanicHook(c) PROVE TypeInv'
  <2>1. /\ Begin(c, "restoreIfMarked") /\ "restoreIfMarked" \in Ops
        /\ UNCHANGED <<os, marker, inst, original, acquired, faults>>
    BY <1>6 DEF PanicHook, Ops, history
  <2> QED BY <1>2, <2>1, CallBegins
<1>7. ASSUME NEW i \in Instances, Start(i) PROVE TypeInv'
  <2>1. /\ Begin(Main(i), "recover") /\ "recover" \in Ops
        /\ inst' = [inst EXCEPT ![i] = "recovering"] /\ "recovering" \in Stands
        /\ UNCHANGED <<os, marker, original, acquired, faults>>
    BY <1>7 DEF Start, Ops, Stands, history
  <2>2. inst' \in [Instances -> Stands]
    BY <1>2, <2>1
  <2> QED BY <1>2, <2>1, <2>2, CallBegins, CallerIs
<1>8. ASSUME NEW i \in Instances, EnableAtStart(i) PROVE TypeInv'
  <2>1. /\ Begin(Main(i), "acquire") /\ "acquire" \in Ops
        /\ inst' = [inst EXCEPT ![i] = "up"] /\ "up" \in Stands
        /\ acquired' = acquired \union {i}
        /\ UNCHANGED <<os, marker, original, faults>>
    BY <1>8 DEF EnableAtStart, Proceed, Ops, Stands
  <2>2. inst' \in [Instances -> Stands] /\ acquired' \subseteq Instances
    BY <1>2, <2>1
  <2> QED BY <2>1, <2>2, CallBegins, CallerIs
<1>9. ASSUME NEW i \in Instances, AbortStart(i) \/ Signal(i) PROVE TypeInv'
  <2>1. PICK state \in Stands : inst' = [inst EXCEPT ![i] = state]
    BY <1>9 DEF AbortStart, Signal, Proceed, Stands
  <2>2. /\ Begin(Main(i), "restoreIfMarked") /\ "restoreIfMarked" \in Ops
        /\ UNCHANGED <<os, marker, original, acquired, faults>>
    BY <1>9 DEF AbortStart, Signal, Ops, history
  <2>3. inst' \in [Instances -> Stands]
    BY <1>2, <2>1
  <2> QED BY <1>2, <2>2, <2>3, CallBegins, CallerIs
<1>10. ASSUME NEW i \in Instances, StartManual(i) \/ Exit(i) \/ Drain(i) PROVE TypeInv'
  <2>1. PICK state \in Stands : inst' = [inst EXCEPT ![i] = state]
    BY <1>10 DEF StartManual, Exit, Drain, Proceed, Stands
  <2>2. /\ UNCHANGED <<os, marker, calls, original, torn, faults>>
        /\ acquired' = acquired \/ acquired' = acquired \ {i}
    BY <1>10 DEF StartManual, Exit, Drain, history
  <2>3. inst' \in [Instances -> Stands] /\ acquired' \subseteq Instances
    BY <1>2, <2>1, <2>2
  <2> QED BY <2>2, <2>3 DEF TypeInv, SettingsOK, SnapshotsOK, ControlOK, HoldsOK, calls
<1>11. ASSUME NEW i \in Instances, SecondSignal(i) PROVE TypeInv'
  <2>1. Die(i, "down") /\ "down" \in Stands /\ faults' = faults
    BY <1>11 DEF SecondSignal, Stands
  <2> QED BY <1>2, <2>1, DieTyped
<1>12. ASSUME NEW i \in Instances, Kill(i) PROVE TypeInv'
  <2>1. Die(i, "dead") /\ "dead" \in Stands /\ faults < MaxFaults /\ faults' = faults + 1
    BY <1>12 DEF Kill, Stands
  <2>2. faults' \in 0..MaxFaults
    BY <1>2, <2>1, BoundsAssumption
  <2> QED BY <2>1, <2>2, DieTyped
<1> QED
  BY <1>1, <1>3, <1>4, <1>5, <1>6, <1>7, <1>8, <1>9, <1>10, <1>11, <1>12 DEF Next, RunStep

\* Whatever calls overlap, whichever of their commands fail and wherever a kill
\* cuts them, what the machine's settings are made of, and what is kept of them
\* in the marker and in memory, are values that sysproxy.rs reads and writes;
\* no command is given what a snapshot could not read.
THEOREM TypesHold == Spec => []TypeOK
<1>1. Init => TypeInv
  BY InitTyped
<1>2. TypeInv /\ [Next]_vars => TypeInv'
  BY NextTyped
<1>3. TypeInv => TypeOK
  BY TypeInvTypes
<1> QED BY <1>1, <1>2, <1>3, PTL DEF Spec

-----------------------------------------------------------------------------
\* As long as no two calls overlap, nothing fails and no kill cuts a call, the
\* settings, the marker and what the one call in progress holds tell at each of
\* its steps where the user's settings are: in force, or in a snapshot of
\* settings that had their effect.
Snap(s) ==
  \E o : /\ IsSettings(o) /\ o.platform = os.platform
         /\ Effect(o) = original /\ s = SnapshotOf(o)

Pointed == \E i \in Instances : StatusFor(os, i)
InForce == marker = Nothing /\ Effect(os) = original
AtRest  == InForce \/ (Snap(marker) /\ Pointed)

CallHeld(c) ==
  CASE pc[c] = "read" -> AtRest
    [] pc[c] = "remove" -> Snap(marker) /\ Pointed /\ saved[c] = marker
    [] pc[c] = "restore" -> marker = Nothing /\ Snap(saved[c])
    [] pc[c] \in {"disable", "snapshot"} -> InForce
    [] pc[c] = "enable" -> InForce /\ Snap(saved[c])
    [] pc[c] = "write" -> marker = Nothing /\ Snap(saved[c]) /\ Pointed
    [] OTHER -> TRUE

OneCall == \A c, d \in Callers : Busy(c) /\ Busy(d) => c = d
RestHeld == (\A c \in Callers : ~Busy(c)) => AtRest
CallsHeld == \A c \in Callers : CallHeld(c)
HeldInv == torn \/ (OneCall /\ RestHeld /\ CallsHeld)

LEMMA SnapIsThere ==
  ASSUME NEW s, Snap(s) PROVE s # Nothing
BY SnapshotsFit DEF Snap

LEMMA SnapKeeps ==
  ASSUME TypeInv, NEW s, Snap(s) PROVE Keeps(s)
<1>1. PICK o : /\ IsSettings(o) /\ o.platform = os.platform
               /\ Effect(o) = original /\ s = SnapshotOf(o)
  BY DEF Snap
<1>2. IsSettings(os)
  BY DEF TypeInv, SettingsOK
<1>3. Effect(Applied(os, SnapshotOf(o))) = Effect(o)
  BY <1>1, <1>2, RestoreKeeps
<1> QED BY <1>1, <1>3, SnapIsThere DEF Keeps

LEMMA SnapStays ==
  ASSUME NEW s, Snap(s), os'.platform = os.platform, original' = original
  PROVE  Snap(s)'
BY DEF Snap

LEMMA InitHeld ==
  ASSUME Init PROVE HeldInv
<1>1. \A c \in Callers : pc[c] = "idle"
  BY DEF Init
<1>2. marker = Nothing /\ Effect(os) = original
  BY DEF Init
<1>3. OneCall /\ RestHeld
  BY <1>1, <1>2 DEF OneCall, RestHeld, AtRest, InForce, Busy
<1>4. CallsHeld
  BY <1>1 DEF CallsHeld, CallHeld
<1> QED BY <1>3, <1>4 DEF HeldInv

\* The one call in progress goes from one step to the next.
LEMMA GoHeld ==
  ASSUME TypeInv, OneCall, NEW c \in Callers, Busy(c), NEW step \in Steps, Go(c, step),
         step = "idle" => AtRest', CallHeld(c)'
  PROVE  HeldInv'
<1>1. \A d \in Callers : pc'[d] = IF d = c THEN step ELSE pc[d]
  BY GoTyped
<1>2. \A d \in Callers : d # c => pc[d] = "idle"
  BY DEF OneCall, Busy
<1>3. OneCall'
  BY <1>1, <1>2 DEF OneCall, Busy
<1>4. RestHeld'
  BY <1>1, <1>2 DEF RestHeld, Busy
<1>5. ASSUME NEW d \in Callers PROVE CallHeld(d)'
  <2>1. CASE d = c
    BY <2>1
  <2>2. CASE d # c
    <3>1. pc'[d] = "idle"
      BY <1>1, <1>2, <2>2
    <3> QED BY <3>1 DEF CallHeld
  <2> QED BY <2>1, <2>2
<1> QED BY <1>3, <1>4, <1>5 DEF HeldInv, CallsHeld

LEMMA CallHolds ==
  ASSUME TypeInv, HeldInv, NEW c \in Callers, CallStep(c) PROVE HeldInv'
<1> SUFFICES ASSUME ~torn' PROVE HeldInv'
  BY DEF HeldInv
<1>1. torn \in BOOLEAN /\ IsSettings(os)
  BY DEF TypeInv, ControlOK, SettingsOK
<1>2. \A failed \in BOOLEAN : Fails(failed) => ~failed /\ ~torn
  BY <1>1 DEF Fails
<1>3. CASE ReadMarker(c)
  <2> DEFINE step == IF marker = Nothing THEN Unmarked(op[c]) ELSE "remove"
  <2>1. /\ Go(c, step) /\ saved' = [saved EXCEPT ![c] = marker] /\ pc[c] = "read"
        /\ os' = os /\ marker' = marker /\ original' = original /\ torn' = torn
    BY <1>3 DEF ReadMarker, history
  <2>2. OneCall /\ CallHeld(c)
    BY <2>1 DEF HeldInv, CallsHeld
  <2>3. AtRest
    BY <2>1, <2>2 DEF CallHeld
  <2>4. AtRest'
    BY <2>1, <2>3 DEF AtRest, InForce, Pointed, Snap
  <2>5. step \in Steps /\ (step = "remove" => marker # Nothing)
        /\ (step # "remove" => marker = Nothing /\ step \in {"idle", "snapshot", "disable"})
    BY DEF Unmarked, Steps
  <2> HIDE DEF step
  <2>6. pc'[c] = step
    BY <2>1, <2>5, GoTyped
  <2>7. saved'[c] = marker
    BY <2>1 DEF TypeInv, SnapshotsOK
  <2>8. CallHeld(c)'
    <3>1. CASE step = "remove"
      <4>1. marker' # Nothing
        BY <2>1, <2>5, <3>1
      <4>2. Snap(marker)' /\ Pointed'
        BY <2>4, <4>1 DEF AtRest, InForce
      <4>3. saved'[c] = marker'
        BY <2>1, <2>7
      <4>4. pc'[c] = "remove"
        BY <2>6, <3>1
      <4> QED BY <4>2, <4>3, <4>4 DEF CallHeld
    <3>2. CASE step # "remove"
      <4>1. marker' = Nothing
        BY <2>1, <2>5, <3>2
      <4>2. InForce'
        <5>1. ~Snap(marker)'
          <6>1. ASSUME Snap(marker)' PROVE FALSE
            <7>1. Snap(marker)
              BY <2>1, <6>1 DEF Snap
            <7> QED BY <2>1, <4>1, <7>1, SnapIsThere
          <6> QED BY <6>1
        <5> QED BY <2>4, <5>1 DEF AtRest
      <4>3. pc'[c] \in {"idle", "snapshot", "disable"}
        BY <2>5, <2>6, <3>2
      <4> QED BY <4>2, <4>3 DEF CallHeld
    <3> QED BY <3>1, <3>2
  <2> QED BY <2>1, <2>2, <2>4, <2>5, <2>8, GoHeld DEF Busy
<1>4. CASE RemoveMarker(c)
  <2>0. PICK failed \in BOOLEAN : Fails(failed) /\ marker' = IF failed THEN marker ELSE Nothing
    BY <1>4 DEF RemoveMarker
  <2>1. /\ Go(c, "restore") /\ saved' = saved /\ marker' = Nothing /\ pc[c] = "remove"
        /\ os' = os /\ original' = original /\ ~torn
    BY <1>2, <1>4, <2>0 DEF RemoveMarker, history
  <2>2. OneCall /\ CallHeld(c)
    BY <2>1 DEF HeldInv, CallsHeld
  <2>3. Snap(saved[c])
    BY <2>1, <2>2 DEF CallHeld
  <2>4. Snap(saved[c])'
    BY <2>1, <2>3 DEF Snap
  <2>5. "restore" \in Steps /\ "restore" # "idle"
    BY DEF Steps
  <2>6. pc'[c] = "restore"
    BY <2>1, <2>5, GoTyped
  <2>7. CallHeld(c)'
    BY <2>1, <2>4, <2>6 DEF CallHeld
  <2> QED BY <2>1, <2>2, <2>5, <2>7, GoHeld DEF Busy
<1>5. CASE Restore(c)
  <2>1. PICK failed \in BOOLEAN :
          Fails(failed) /\ os' \in Outcomes(os, RestoreCommands(os, saved[c]), failed)
    BY <1>5 DEF Restore
  <2>2. /\ pc[c] = "restore" /\ Go(c, Restored(op[c]))
        /\ marker' = marker /\ original' = original
    BY <1>5 DEF Restore, history
  <2>3. ~failed /\ ~torn
    BY <1>2, <2>1
  <2>4. os' = Applied(os, saved[c])
    BY <2>1, <2>3 DEF Outcomes, Applied
  <2>5. OneCall /\ CallHeld(c)
    BY <2>3 DEF HeldInv, CallsHeld
  <2>6. marker = Nothing /\ Snap(saved[c])
    BY <2>2, <2>5 DEF CallHeld
  <2>7. Effect(Applied(os, saved[c])) = original
    BY <2>6, SnapKeeps DEF Keeps
  <2>8. InForce'
    BY <2>2, <2>4, <2>6, <2>7 DEF InForce
  <2>9. Restored(op[c]) \in Steps /\ Restored(op[c]) \in {"snapshot", "idle"}
    BY DEF Restored, Steps
  <2>10. pc'[c] = Restored(op[c])
    BY <2>2, <2>9, GoTyped
  <2>11. CallHeld(c)' /\ AtRest'
    BY <2>8, <2>9, <2>10 DEF CallHeld, AtRest
  <2> QED BY <2>2, <2>5, <2>9, <2>11, GoHeld DEF Busy
<1>6. CASE Disable(c)
  <2>1. PICK failed \in BOOLEAN :
          /\ Fails(failed)
          /\ os' \in Outcomes(os, DisableCommands(os), failed)
          /\ original' = IF failed \/ torn THEN original ELSE Effect(os')
    BY <1>6 DEF Disable
  <2>2. pc[c] = "disable" /\ Go(c, "idle") /\ marker' = marker
    BY <1>6 DEF Disable
  <2>3. ~failed /\ ~torn
    BY <1>2, <2>1
  <2>4. OneCall /\ CallHeld(c)
    BY <2>3 DEF HeldInv, CallsHeld
  <2>5. marker = Nothing
    BY <2>2, <2>4 DEF CallHeld, InForce
  <2>6. InForce'
    BY <2>1, <2>2, <2>3, <2>5 DEF InForce
  <2>7. "idle" \in Steps
    BY DEF Steps
  <2>8. pc'[c] = "idle"
    BY <2>2, <2>7, GoTyped
  <2>9. CallHeld(c)' /\ AtRest'
    BY <2>6, <2>8 DEF CallHeld, AtRest
  <2> QED BY <2>2, <2>4, <2>7, <2>9, GoHeld DEF Busy
<1>7. CASE TakeSnapshot(c)
  <2>1. PICK failed \in BOOLEAN :
          /\ Fails(failed)
          /\ \E s \in IF failed THEN FailedSnapshots(os) ELSE {SnapshotOf(os)} :
               saved' = [saved EXCEPT ![c] = s]
    BY <1>7 DEF TakeSnapshot
  <2>2. /\ pc[c] = "snapshot" /\ Go(c, "enable")
        /\ os' = os /\ marker' = marker /\ original' = original
    BY <1>7 DEF TakeSnapshot, history
  <2>3. ~failed /\ ~torn
    BY <1>2, <2>1
  <2>4. saved'[c] = SnapshotOf(os)
    BY <2>1, <2>3 DEF TypeInv, SnapshotsOK
  <2>5. OneCall /\ CallHeld(c)
    BY <2>3 DEF HeldInv, CallsHeld
  <2>6. InForce
    BY <2>2, <2>5 DEF CallHeld
  <2>7. InForce' /\ Snap(saved[c])'
    BY <1>1, <2>2, <2>4, <2>6 DEF InForce, Snap
  <2>8. "enable" \in Steps /\ "enable" # "idle"
    BY DEF Steps
  <2>9. pc'[c] = "enable"
    BY <2>2, <2>8, GoTyped
  <2>10. CallHeld(c)'
    BY <2>7, <2>9 DEF CallHeld
  <2> QED BY <2>2, <2>5, <2>8, <2>10, GoHeld DEF Busy
<1>8. CASE Enable(c)
  <2>1. PICK failed \in BOOLEAN :
          /\ Fails(failed)
          /\ os' \in Outcomes(os, EnableCommands(os, c.who), failed)
          /\ Go(c, IF failed THEN "idle" ELSE "write")
          /\ saved' = [saved EXCEPT ![c] = IF failed THEN Nothing ELSE @]
    BY <1>8 DEF Enable
  <2>2. pc[c] = "enable" /\ marker' = marker /\ original' = original
    BY <1>8 DEF Enable, history
  <2>3. ~failed /\ ~torn
    BY <1>2, <2>1
  <2>4. os' = Done(os, EnableCommands(os, c.who)) /\ Go(c, "write") /\ saved'[c] = saved[c]
    BY <2>1, <2>3 DEF Outcomes, TypeInv, SnapshotsOK
  <2>5. OneCall /\ CallHeld(c)
    BY <2>3 DEF HeldInv, CallsHeld
  <2>6. marker = Nothing /\ Snap(saved[c])
    BY <2>2, <2>5 DEF CallHeld, InForce
  <2>7. os'.platform = os.platform
    BY <2>1, CommandsFit
  <2>8. Snap(saved[c])'
    BY <2>2, <2>4, <2>6, <2>7 DEF Snap
  <2>9. StatusFor(os', c.who)
    BY <1>1, <2>4, CallerIs, EnableFits
  <2>10. Pointed'
    BY <2>9, CallerIs DEF Pointed
  <2>11. "write" \in Steps /\ "write" # "idle"
    BY DEF Steps
  <2>12. pc'[c] = "write"
    BY <2>4, <2>11, GoTyped
  <2>13. CallHeld(c)'
    BY <2>2, <2>6, <2>8, <2>10, <2>12 DEF CallHeld
  <2> QED BY <2>2, <2>4, <2>5, <2>11, <2>13, GoHeld DEF Busy
<1>9. CASE WriteMarker(c)
  <2>1. PICK failed \in BOOLEAN : Fails(failed) /\ marker' = IF failed THEN marker ELSE saved[c]
    BY <1>9 DEF WriteMarker
  <2>2. pc[c] = "write" /\ Go(c, "idle") /\ os' = os /\ original' = original
    BY <1>9 DEF WriteMarker, history
  <2>3. ~failed /\ ~torn
    BY <1>2, <2>1
  <2>4. OneCall /\ CallHeld(c)
    BY <2>3 DEF HeldInv, CallsHeld
  <2>5. Snap(saved[c]) /\ Pointed
    BY <2>2, <2>4 DEF CallHeld
  <2>6. Snap(marker)' /\ Pointed'
    BY <2>1, <2>2, <2>3, <2>5 DEF Snap, Pointed
  <2>7. "idle" \in Steps
    BY DEF Steps
  <2>8. pc'[c] = "idle"
    BY <2>2, <2>7, GoTyped
  <2>9. CallHeld(c)' /\ AtRest'
    BY <2>6, <2>8 DEF CallHeld, AtRest
  <2> QED BY <2>2, <2>4, <2>7, <2>9, GoHeld DEF Busy
<1> QED BY <1>3, <1>4, <1>5, <1>6, <1>7, <1>8, <1>9 DEF CallStep

LEMMA BeginHeld ==
  ASSUME TypeInv, HeldInv, NEW c \in Callers, NEW f, Begin(c, f),
         UNCHANGED <<os, marker, original>>
  PROVE  HeldInv'
<1> SUFFICES ASSUME ~torn' PROVE HeldInv'
  BY DEF HeldInv
<1>1. ~torn /\ \A d \in Callers : ~Busy(d)
  BY DEF Begin
<1>2. AtRest
  BY <1>1 DEF HeldInv, RestHeld
<1>3. AtRest'
  BY <1>2 DEF AtRest, InForce, Pointed, Snap
<1>4. \A d \in Callers : pc'[d] = IF d = c THEN "read" ELSE "idle"
  BY <1>1 DEF Begin, FirstStep, Busy, TypeInv, ControlOK
<1>5. OneCall' /\ RestHeld'
  BY <1>4 DEF OneCall, RestHeld, Busy
<1>6. CallsHeld'
  BY <1>3, <1>4 DEF CallsHeld, CallHeld
<1> QED BY <1>5, <1>6 DEF HeldInv

\* A kill that cuts no change of the settings leaves the settings, and the
\* marker, as they are.
LEMMA DieHeld ==
  ASSUME TypeInv, HeldInv, NEW i \in Instances, NEW state, Die(i, state)
  PROVE  HeldInv'
<1> SUFFICES ASSUME ~torn' PROVE HeldInv'
  BY DEF HeldInv
<1>1. /\ os' \in {os} \union UNION {UnderWay(c) : c \in Cut(i)}
      /\ torn' = (torn \/ \E c \in Cut(i) : pc[c] \in {"restore", "disable", "enable", "write"})
      /\ pc' = [c \in Callers |-> IF c \in Cut(i) THEN "idle" ELSE pc[c]]
      /\ saved' = [c \in Callers |-> IF c \in Cut(i) THEN Nothing ELSE saved[c]]
      /\ marker' = marker /\ original' = original
  BY DEF Die
<1>2. ~torn /\ \A c \in Cut(i) : pc[c] \notin {"restore", "disable", "enable", "write"}
  BY <1>1
<1>3. OneCall /\ RestHeld /\ CallsHeld
  BY <1>2 DEF HeldInv
<1>4. \A c \in Cut(i) : UnderWay(c) = {os}
  BY <1>2 DEF UnderWay
<1>5. os' = os
  BY <1>1, <1>4
<1>6. \A c \in Cut(i) : c \in Callers /\ Busy(c)
  BY DEF Cut
<1>7. CASE \A c \in Callers : c \notin Cut(i)
  <2>1. \A c \in Callers : pc'[c] = pc[c] /\ saved'[c] = saved[c]
    BY <1>1, <1>7
  <2>2. OneCall'
    BY <1>3, <2>1 DEF OneCall, Busy
  <2>3. RestHeld'
    BY <1>1, <1>3, <1>5, <2>1 DEF RestHeld, Busy, AtRest, InForce, Pointed, Snap
  <2>4. ASSUME NEW c \in Callers PROVE CallHeld(c)'
    <3>1. CallHeld(c) /\ pc'[c] = pc[c] /\ saved'[c] = saved[c]
      BY <1>3, <2>1 DEF CallsHeld
    <3>2. /\ AtRest' <=> AtRest
          /\ InForce' <=> InForce
          /\ Pointed' <=> Pointed
          /\ Snap(marker)' <=> Snap(marker)
      BY <1>1, <1>5 DEF AtRest, InForce, Pointed, Snap
    <3>3. Snap(saved[c])' <=> Snap(saved[c])
      BY <1>1, <1>5, <3>1 DEF Snap
    <3> QED BY <1>1, <3>1, <3>2, <3>3 DEF CallHeld
  <2> QED BY <2>2, <2>3, <2>4 DEF HeldInv, CallsHeld
<1>8. ASSUME NEW c \in Cut(i) PROVE HeldInv'
  <2>1. \A d \in Callers : d # c => ~Busy(d)
    BY <1>3, <1>6 DEF OneCall
  <2>2. \A d \in Callers : pc'[d] = "idle"
    BY <1>1, <2>1 DEF Busy
  <2>3. pc[c] \in {"read", "remove", "snapshot"} /\ CallHeld(c)
    BY <1>2, <1>3, <1>6 DEF TypeInv, ControlOK, Steps, Busy, CallsHeld
  <2>4. AtRest
    BY <2>3 DEF CallHeld, AtRest
  <2>5. AtRest'
    BY <1>1, <1>5, <2>4 DEF AtRest, InForce, Pointed, Snap
  <2>6. OneCall' /\ RestHeld'
    BY <2>2, <2>5 DEF OneCall, RestHeld, Busy
  <2>7. CallsHeld'
    BY <2>2 DEF CallsHeld, CallHeld
  <2> QED BY <2>6, <2>7 DEF HeldInv
<1> QED BY <1>6, <1>7, <1>8

LEMMA NextHeld ==
  ASSUME TypeInv, HeldInv, [Next]_vars PROVE HeldInv'
<1>1. ASSUME UNCHANGED <<os, marker, calls, original, torn>> PROVE HeldInv'
  BY <1>1 DEF HeldInv, OneCall, RestHeld, CallsHeld, CallHeld, AtRest, InForce, Pointed, Snap,
              Busy, calls
<1>2. CASE UNCHANGED vars
  BY <1>1, <1>2 DEF vars, history
<1>3. ASSUME NEW c \in Callers, CallStep(c) PROVE HeldInv'
  BY <1>3, CallHolds
<1>4. ASSUME NEW c \in Callers, TurnOn(c) \/ TurnOff(c) \/ PanicHook(c) PROVE HeldInv'
  <2>1. (\E f : Begin(c, f)) /\ UNCHANGED <<os, marker, original>>
    BY <1>4 DEF TurnOn, TurnOff, PanicHook, history
  <2> QED BY <2>1, BeginHeld
<1>5. ASSUME NEW i \in Instances, Start(i) \/ EnableAtStart(i) \/ AbortStart(i) \/ Signal(i)
      PROVE  HeldInv'
  <2>1. (\E f : Begin(Main(i), f)) /\ UNCHANGED <<os, marker, original>>
    BY <1>5 DEF Start, EnableAtStart, AbortStart, Signal, history
  <2> QED BY <2>1, CallerIs, BeginHeld
<1>6. ASSUME NEW i \in Instances, StartManual(i) \/ Exit(i) \/ Drain(i) PROVE HeldInv'
  BY <1>1, <1>6 DEF StartManual, Exit, Drain, history
<1>7. ASSUME NEW i \in Instances, SecondSignal(i) \/ Kill(i) PROVE HeldInv'
  <2>1. \E state : Die(i, state)
    BY <1>7 DEF SecondSignal, Kill
  <2> QED BY <2>1, DieHeld
<1> QED BY <1>2, <1>3, <1>4, <1>5, <1>6, <1>7 DEF Next, RunStep

LEMMA InvHolds == Spec => [](TypeInv /\ HeldInv)
<1>1. Init => TypeInv /\ HeldInv
  BY InitTyped, InitHeld
<1>2. TypeInv /\ HeldInv /\ [Next]_vars => (TypeInv /\ HeldInv)'
  BY NextTyped, NextHeld
<1> QED BY <1>1, <1>2, PTL DEF Spec

\* The user's settings are never lost by starting, stopping, toggling or
\* killing: while no two calls overlap, nothing fails and no kill cuts a change,
\* they are in force, or restoring the marker, or what a call in progress holds,
\* brings back what had an effect of them, on every platform.
THEOREM OriginalIsKept == Spec => []OriginalKept
<1>1. TypeInv /\ HeldInv => OriginalKept
  <2> SUFFICES ASSUME TypeInv, HeldInv, ~torn PROVE OriginalKept
    BY DEF OriginalKept
  <2>1. RestHeld /\ CallsHeld
    BY DEF HeldInv
  <2>2. ASSUME AtRest PROVE OriginalKept
    BY <2>2, SnapKeeps DEF AtRest, InForce, OriginalKept
  <2>3. CASE \A c \in Callers : ~Busy(c)
    BY <2>1, <2>2, <2>3 DEF RestHeld
  <2>4. ASSUME NEW c \in Callers, Busy(c) PROVE OriginalKept
    <3>1. CallHeld(c) /\ pc[c] \in Steps \ {"idle"}
      BY <2>1, <2>4 DEF CallsHeld, Busy, TypeInv, ControlOK
    <3>2. AtRest \/ Snap(saved[c])
      BY <3>1 DEF CallHeld, AtRest, Steps
    <3>3. CASE Snap(saved[c])
      BY <3>3, SnapKeeps DEF OriginalKept
    <3> QED BY <2>2, <3>2, <3>3
  <2> QED BY <2>3, <2>4
<1> QED BY <1>1, InvHolds, PTL

\* Between calls the marker on disk tells who owns the setting: with a marker
\* the machine is pointed at an instance, and restoring the marker brings back
\* what the user had; without one the settings are the user's.
THEOREM MarkerTells == Spec => []MarkerOwns
<1>1. TypeInv /\ HeldInv => MarkerOwns
  <2> SUFFICES ASSUME TypeInv, HeldInv, ~torn, \A c \in Callers : ~Busy(c)
               PROVE  IF marker = Nothing THEN Effect(os) = original
                      ELSE Keeps(marker) /\ \E i \in Instances : StatusFor(os, i)
    BY DEF MarkerOwns
  <2>1. AtRest
    BY DEF HeldInv, RestHeld
  <2>2. CASE InForce
    BY <2>2 DEF InForce
  <2>3. CASE Snap(marker) /\ Pointed
    <3>1. Keeps(marker) /\ marker # Nothing
      BY <2>3, SnapKeeps, SnapIsThere
    <3> QED BY <2>3, <3>1 DEF Pointed
  <2> QED BY <2>1, <2>2, <2>3 DEF AtRest
<1> QED BY <1>1, InvHolds, PTL
=============================================================================
