----------------------------- MODULE UpstreamPool -----------------------------
(***************************************************************************)
(* The pool of upstream connections and the requests that use them:        *)
(* Pool, Connector and ReleaseOnComplete (hamsy-proxy/src/upstream.rs),    *)
(* and dispatch (hamsy-proxy/src/http.rs).                                 *)
(*                                                                         *)
(* The pool is a list of senders for each key, which says what is dialed,  *)
(* which protocols are offered and by which route.  An HTTP/1 sender is    *)
(* taken out for the request that uses it; an HTTP/2 sender stays, and     *)
(* requests take one of its stream slots.  Each critical section of the    *)
(* pool's lock is a step.                                                  *)
(***************************************************************************)
EXTENDS Integers, Sequences, FiniteSets, SequencesExt

CONSTANTS Users,      \* those who send requests upstream, one at a time
          Conns,      \* names of upstream connections, which are used again;
                      \* more than users and pool refer to at a time
          Keys,       \* PoolKey: destination, ALPN policy and route
          H2Keys,     \* the keys for which HTTP/2 is offered (mirror_h2)
          MaxStreams, \* MAX_H2_STREAMS
          MaxIdle     \* MAX_IDLE_PER_KEY

ASSUME PoolAssumption ==
  /\ H2Keys \subseteq Keys
  /\ MaxStreams \in Nat \ {0} /\ MaxIdle \in Nat \ {0}
  /\ IsFiniteSet(Users) /\ IsFiniteSet(Conns)

VARIABLES
  pool,    \* for each key, what is pooled: a sender, idle past IDLE_TIMEOUT or not
  closed,  \* connections that have been closed and are still referred to
  use      \* what each user does, with which sender and for which key

poolVars == <<pool, closed, use>>

-----------------------------------------------------------------------------
Sender(c, k, h2) == [conn |-> c, key |-> k, h2 |-> h2]
NoSender == [none |-> TRUE]
Idle     == [at |-> "idle", sender |-> NoSender, key |-> "none"]

Using(at, s, k) == [at |-> at, sender |-> s, key |-> k]
Holding(u) == use[u].sender # NoSender

Referenced(p, us) ==
  (UNION {{p[k][i].sender.conn : i \in DOMAIN p[k]} : k \in Keys})
    \union {us[u].sender.conn : u \in {v \in Users : us[v].sender # NoSender}}

\* The stream slots of an HTTP/2 connection: those in use, and those that who
\* waits will be given.
InUse(c)  == {u \in Users : use[u].at \in {"lease", "drop"} /\ use[u].sender.conn = c}
Waiters(c) == {u \in Users : use[u].at = "wait" /\ use[u].sender.conn = c}
Available(c) ==
  LET left == MaxStreams - Cardinality(InUse(c)) - Cardinality(Waiters(c))
  IN IF left > 0 THEN left ELSE 0

\* Nobody refers to a connection any more: its task ends and it is gone.
Install(p, us) ==
  /\ pool' = p
  /\ use' = us
  /\ closed' = closed \intersect Referenced(p, us)

-----------------------------------------------------------------------------
\* What is kept of a list: connections that are open and are in use or have not
\* been idle for long.  Mutant: whether streams are in use is not asked.
Fresh(p) == p.sender.conn \notin closed /\ ~p.old
Kept(p)  == /\ p.sender.conn \notin closed
            /\ ~p.old \/ (p.sender.h2 /\ Available(p.sender.conn) < MaxStreams)

Swept(list) ==
  LET upto[i \in 0..Len(list)] ==
        IF i = 0 THEN <<>>
        ELSE IF Kept(list[i]) THEN Append(upto[i - 1], list[i]) ELSE upto[i - 1]
  IN upto[Len(list)]

\* Pool::checkin, under key, of a sender whose connection is open: every list
\* is swept, and the oldest of the list it joins make room.  Mutant: all stay.
NoExcess(list) == 0
Excess(list)   == IF Len(list) > MaxIdle THEN Len(list) - MaxIdle ELSE 0

CheckedIn(key, s) ==
  LET swept == [k \in Keys |-> Swept(pool[k])]
      list  == Append(swept[key], [sender |-> s, old |-> FALSE])
  IN [swept EXCEPT ![key] = SubSeq(list, Excess(list) + 1, Len(list))]

SwapRemove(list, i) ==
  [j \in 1..(Len(list) - 1) |-> IF j = i THEN list[Len(list)] ELSE list[j]]

\* The last entry with a free slot, or the last one.
HasSlot(p) == ~p.sender.h2 \/ Available(p.sender.conn) > 0
Choice(list) ==
  LET free == {i \in DOMAIN list : HasSlot(list[i])}
  IN IF free = {} THEN Len(list) ELSE CHOOSE i \in free : \A j \in free : j <= i

-----------------------------------------------------------------------------
PoolInit ==
  /\ pool = [k \in Keys |-> <<>>]
  /\ closed = {}
  /\ use = [u \in Users |-> Idle]

\* Pool::checkout.  Who takes an HTTP/2 connection waits for a slot; who finds
\* nothing dials.  Mutant: an HTTP/1 sender stays in the pool.
LeaveTaken(list, i)  == list
RemoveTaken(list, i) == SwapRemove(list, i)

Checkout(u, k) ==
  /\ use[u].at = "idle"
  /\ LET list == Swept(pool[k]) IN
     IF list = <<>>
     THEN Install([pool EXCEPT ![k] = list],
                  [use EXCEPT ![u] = Using("dial", NoSender, k)])
     ELSE LET i == Choice(list)
              s == list[i].sender IN
          IF s.h2
          THEN Install([pool EXCEPT ![k] = [list EXCEPT ![i].old = FALSE]],
                       [use EXCEPT ![u] = Using("wait", s, k)])
          ELSE Install([pool EXCEPT ![k] = RemoveTaken(list, i)],
                       [use EXCEPT ![u] = Using("lease", s, k)])

\* A slot is free: it is taken, or given back if the connection was closed
\* while u waited.
SlotFree(c) == Cardinality(InUse(c)) < MaxStreams

AcquireSlot(u) ==
  /\ use[u].at = "wait"
  /\ SlotFree(use[u].sender.conn)
  /\ Install(pool, [use EXCEPT ![u] =
                      IF @.sender.conn \in closed THEN Using("dial", NoSender, @.key)
                      ELSE Using("lease", @.sender, @.key)])

\* handshake: HTTP/2 if it was offered and the peer chose it.
Negotiated(k) == IF k \in H2Keys THEN BOOLEAN ELSE {FALSE}

\* Connector::obtain has dialed and tunnelled; an HTTP/2 connection is shared
\* before its first response.  Bound: a name is free.
Dial(u) ==
  /\ use[u].at = "dial" /\ Conns \ Referenced(pool, use) # {}
  /\ \E h2 \in Negotiated(use[u].key) :
       LET c == CHOOSE d \in Conns : d \notin Referenced(pool, use)
           s == Sender(c, use[u].key, h2) IN
       Install(IF h2 THEN CheckedIn(s.key, s) ELSE pool,
               [use EXCEPT ![u] = Using("lease", s, @.key)])

\* No address answers in time, or the upstream proxy refuses the tunnel.
DialFails(u) ==
  /\ use[u].at = "dial"
  /\ Install(pool, [use EXCEPT ![u] = Idle])

\* Whatever u waits for or holds is dropped: the request cannot be sent, the
\* response breaks off, or its body is dropped before its end.  A sender of
\* HTTP/1 is not pooled again.
GiveUp(u) ==
  /\ use[u].at \in {"wait", "lease"}
  /\ Install(pool, [use EXCEPT ![u] = Idle])

\* The response's body has ended: Connector::release, under the key that the
\* sender was made for.  Mutant: under the one for which HTTP/2 is not offered.
PlainKey(s) == CHOOSE k \in Keys : k \notin H2Keys
KeyOf(s)    == s.key

ReleaseH1(u) ==
  /\ use[u].at = "lease" /\ ~use[u].sender.h2
  /\ LET s == use[u].sender IN
     Install(IF s.conn \in closed THEN pool ELSE CheckedIn(KeyOf(s), s),
             [use EXCEPT ![u] = Idle])

\* The pooled handle of an HTTP/2 connection is fresh again, ...
ReleaseH2(u) ==
  /\ use[u].at = "lease" /\ use[u].sender.h2
  /\ LET s == use[u].sender IN
     Install([pool EXCEPT ![s.key] =
                [i \in DOMAIN @ |-> IF @[i].sender.conn = s.conn
                                    THEN [@[i] EXCEPT !.old = FALSE] ELSE @[i]]],
             [use EXCEPT ![u].at = "drop"])

\* ... and then the slot is free.  Mutant: the permit is forgotten.
SlotLeaked(u) == FALSE
DropSlot(u) ==
  /\ use[u].at = "drop"
  /\ Install(pool, [use EXCEPT ![u] = Idle])

\* A connection has been idle past IDLE_TIMEOUT.
GrowOld(k, i) ==
  /\ i \in DOMAIN pool[k] /\ ~pool[k][i].old
  /\ Install([pool EXCEPT ![k][i].old = TRUE], use)

\* The peer closes a connection.
PeerCloses(c) ==
  /\ c \in Referenced(pool, use) \ closed
  /\ closed' = closed \union {c}
  /\ UNCHANGED <<pool, use>>

PoolStep(u) ==
  \/ AcquireSlot(u)
  \/ Dial(u) \/ DialFails(u) \/ GiveUp(u) \/ ReleaseH1(u) \/ ReleaseH2(u) \/ DropSlot(u)

Surroundings ==
  \/ \E k \in Keys : \E i \in 1..MaxIdle : GrowOld(k, i)
  \/ \E c \in Conns : PeerCloses(c)

-----------------------------------------------------------------------------
PoolTypeOK ==
  /\ DOMAIN pool = Keys
  /\ closed \subseteq Referenced(pool, use)
  /\ \A u \in Users : /\ use[u].at \in {"idle", "wait", "dial", "lease", "drop", "relay"}
                      /\ Holding(u) <=> use[u].at \notin {"idle", "dial"}

\* Who and what refers to a connection: users, and places of the pool.
Owners(c) == {u \in Users : Holding(u) /\ use[u].sender.conn = c}
Places(c) == {p \in Keys \X (1..MaxIdle) : p[2] \in DOMAIN pool[p[1]]
                                     /\ pool[p[1]][p[2]].sender.conn = c}
SpeaksH2(c) ==
  \/ \E u \in Owners(c) : use[u].sender.h2
  \/ \E p \in Places(c) : pool[p[1]][p[2]].sender.h2

\* "H1 is removed exclusively; H2 is cloned while its pool handle stays
\* available" (upstream.rs): an HTTP/1 connection has one user or one place in
\* the pool, never both, or two responses would be mixed up on it; an HTTP/2
\* connection carries no more streams than it has slots, and is pooled once.
NoSharedH1 ==
  \A c \in Conns :
    /\ Cardinality(Places(c)) <= 1
    /\ ~SpeaksH2(c) => Cardinality(Owners(c)) + Cardinality(Places(c)) <= 1

\* No connection has more streams than slots, and no key more connections than
\* its list may hold.
PoolBounded ==
  /\ \A c \in Conns : SpeaksH2(c) => Cardinality(InUse(c)) <= MaxStreams
  /\ \A k \in Keys : Len(pool[k]) <= MaxIdle

\* A request goes over a connection that was made for its key, whoever used it
\* before, and what is pooled under a key was made for it: no request reaches
\* another destination, or evades the proxy that is configured for it.
RightRoute ==
  /\ \A u \in Users : Holding(u) => use[u].sender.key = use[u].key
  /\ \A k \in Keys : \A i \in DOMAIN pool[k] : pool[k][i].sender.key = k

\* The idle sweep, of whichever key, never throws out an open HTTP/2 connection
\* on which a stream is in use; only newer connections of its key do.
InUseStaysPooled ==
  [][\A k \in Keys : \A i \in DOMAIN pool[k] :
       LET c == pool[k][i].sender.conn IN
       /\ pool[k][i].sender.h2 /\ c \notin closed /\ InUse(c) # {}
       /\ Len(pool'[k]) < MaxIdle
       => \E j \in DOMAIN pool'[k] : pool'[k][j].sender.conn = c]_poolVars

\* A request that waits for a slot of a connection goes on, unless responses
\* that are still being read keep every slot: none is lost with the request
\* that had it, nor with the connection.
SlotsComeFree ==
  \A u \in Users :
    []<>(use[u].at = "wait" =>
           \E v \in InUse(use[u].sender.conn) : use[v].at = "lease")
=============================================================================
