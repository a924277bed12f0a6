------------------------------ MODULE ProxyServer ------------------------------
(***************************************************************************)
(* The connections of clients: the listener and its shutdown               *)
(* (hamsy-proxy/src/server.rs), CONNECT tunnels (connect.rs), leaf         *)
(* certificates (ca.rs) and WebSocket relays (websocket.rs), over the pool *)
(* of upstream connections, in which a client is a user.                   *)
(*                                                                         *)
(* A client sends one request at a time; the requests of one HTTP/2        *)
(* connection are those of several clients.  What a CONNECT or an upgrade  *)
(* leaves behind is a task of its own, which the listener does not know.   *)
(***************************************************************************)
EXTENDS UpstreamPool

CONSTANTS Hosts,        \* names that certificates are made for
          LeafCap,      \* LEAF_CACHE_CAPACITY
          MaxMessages,  \* MAX_WS_MESSAGES_PER_FLOW
          MaxBytes,     \* MAX_WS_PAYLOAD_BYTES_PER_FLOW
          MaxRelayed,   \* bound: messages of one relay
          Scenarios     \* bound: what each client may ask for: requests with
                      \* certain keys, "connect", "upgrade"

ASSUME ServerAssumption ==
  /\ LeafCap \in Nat \ {0} /\ MaxMessages \in Nat /\ MaxBytes \in Nat
  /\ H2Keys # Keys

Clients == Users

VARIABLES
  phase,   \* of the listener
  task,    \* what serves a client: a task of the listener's set, or one of its own
  leaves,  \* HostCache: the hosts of its map, and its order
  flows,   \* the clients whose tunnel or relay has an unfinished flow
  relayed, \* history: how many messages a client's relay has seen
  ws,      \* the recorded messages, oldest first
  asks     \* what each client may ask for

vars == <<pool, closed, use, phase, task, leaves, flows, relayed, ws, asks>>

clientVars == <<task, flows, relayed, ws, asks>>

Init ==
  /\ PoolInit
  /\ phase = "accepting"
  /\ task = [c \in Clients |-> "none"]
  /\ leaves = [map |-> {}, order |-> <<>>]
  /\ flows = {}
  /\ relayed = [c \in Clients |-> 0]
  /\ ws = [c \in Clients |-> <<>>]
  /\ asks \in Scenarios

-----------------------------------------------------------------------------
\* The accept loop.
Accept(c) ==
  /\ phase = "accepting" /\ task[c] = "none"
  /\ task' = [task EXCEPT ![c] = "listener"]
  /\ UNCHANGED <<pool, closed, use, phase, leaves, flows, relayed, ws, asks>>

\* Tasks that serve HTTP: the listener's, and those of decrypted or plain
\* tunnels.
Serving(c) == task[c] \in {"listener", "tunnel"} /\ use[c].at = "idle"

\* route: a request for the pipeline.  It may be answered without an upstream.
Request(c) ==
  /\ Serving(c)
  /\ \E k \in Keys \intersect asks[c] : Checkout(c, k)
  /\ UNCHANGED <<phase, leaves>> /\ UNCHANGED clientVars

\* handle_upgrade: never over HTTP/2.
Handshake(c) ==
  /\ task[c] \in {"listener", "tunnel"} /\ use[c].at = "lease"
  /\ use[c].key \notin H2Keys /\ "upgrade" \in asks[c]

\* The origin switches protocols: the connection is a relay's from now on, and
\* the relay a task of its own.  It is captured or not.
Upgrade(c) ==
  /\ Handshake(c)
  /\ task' = [task EXCEPT ![c] = "relay"]
  /\ use' = [use EXCEPT ![c].at = "relay"]
  /\ \E captured \in SUBSET {c} : flows' = flows \union captured
  /\ UNCHANGED <<pool, closed, phase, leaves, relayed, ws, asks>>

\* It declines: its answer is passed on, and the sender dropped.
Decline(c) ==
  /\ Handshake(c) /\ GiveUp(c)
  /\ UNCHANGED <<phase, leaves>> /\ UNCHANGED clientVars

-----------------------------------------------------------------------------
\* handle_connect: 200, and a task of its own waits for the client's bytes.
Connect(c) ==
  /\ Serving(c) /\ "connect" \in asks[c]
  /\ task' = [task EXCEPT ![c] = "peek"]
  /\ UNCHANGED <<pool, closed, use, phase, leaves, flows, relayed, ws, asks>>

\* handle_tunnel: plain HTTP is served.
TunnelPlain(c) ==
  /\ task[c] = "peek"
  /\ task' = [task EXCEPT ![c] = "tunnel"]
  /\ UNCHANGED <<pool, closed, use, phase, leaves, flows, relayed, ws, asks>>

\* Other bytes go through blindly, and so does TLS that is not intercepted,
\* which run_passthrough_flow may record.
TunnelBlind(c) ==
  /\ task[c] = "peek"
  /\ task' = [task EXCEPT ![c] = "blind"]
  /\ \E captured \in SUBSET {c} : flows' = flows \union captured
  /\ UNCHANGED <<pool, closed, use, phase, leaves, relayed, ws, asks>>

\* HostCache::touch.  Mutant: the host keeps its old place, too.
TouchedTwice(order, h) == Append(order, h)
Touched(order, h) ==
  LET pos == CHOOSE i \in DOMAIN order : order[i] = h
  IN Append(RemoveAt(order, pos), h)

\* HostCache::get_or_mint, in one critical section of the cache's lock.
GetOrMint(h) ==
  IF h \in leaves.map THEN [leaves EXCEPT !.order = Touched(@, h)]
  ELSE LET order  == Append(leaves.order, h)
           excess == IF Len(order) > LeafCap THEN Len(order) - LeafCap ELSE 0
       IN [map   |-> (leaves.map \union {h}) \ {order[i] : i \in 1..excess},
           order |-> SubSeq(order, excess + 1, Len(order))]

\* TLS is intercepted, with a certificate for the name the client asks for;
\* the handshake may fail.
TunnelTls(c, h) ==
  /\ task[c] = "peek"
  /\ leaves' = GetOrMint(h)
  /\ \E t \in {"tunnel", "none"} : task' = [task EXCEPT ![c] = t]
  /\ UNCHANGED <<pool, closed, use, phase, flows, relayed, ws, asks>>

\* Nothing was sent, the upgrade failed, or no certificate can be made.
TunnelEnds(c) ==
  /\ task[c] = "peek"
  /\ task' = [task EXCEPT ![c] = "none"]
  /\ UNCHANGED <<pool, closed, use, phase, leaves, flows, relayed, ws, asks>>

-----------------------------------------------------------------------------
\* cap_ws_messages.  Mutant: it drops one message at most.
TotalSize(log) ==
  LET upto[i \in 0..Len(log)] == IF i = 0 THEN 0 ELSE upto[i - 1] + log[i].size
  IN upto[Len(log)]
Fits(log)      == Len(log) <= MaxMessages /\ TotalSize(log) <= MaxBytes
TrimmedOnce(log) == IF Fits(log) THEN log ELSE Tail(log)
Trimmed(log) ==
  LET n == CHOOSE i \in 0..Len(log) :
             /\ Fits(SubSeq(log, i + 1, Len(log)))
             /\ \A j \in 0..(i - 1) : ~Fits(SubSeq(log, j + 1, Len(log)))
  IN SubSeq(log, n + 1, Len(log))

\* record_message, of the next message.
Recorded(c, size) == Trimmed(Append(ws[c], [n |-> relayed[c] + 1, size |-> size]))

\* A message is recorded, and then sent on.
Relay(c, size) ==
  /\ task[c] = "relay" /\ c \in flows /\ relayed[c] < MaxRelayed
  /\ relayed' = [relayed EXCEPT ![c] = @ + 1]
  /\ ws' = [ws EXCEPT ![c] = Recorded(c, size)]
  /\ UNCHANGED <<pool, closed, use, phase, task, leaves, flows, asks>>

\* The task that serves a client ends, because either side closes or fails:
\* what it uses is dropped, and the flow of a tunnel or a relay completed.
\* Mutant: it is not.
Unfinished(c) == flows
Finished(c)   == flows \ {c}

End(c) ==
  /\ task[c] \in {"listener", "tunnel", "blind", "relay"}
  /\ task' = [task EXCEPT ![c] = "none"]
  /\ Install(pool, [use EXCEPT ![c] = Idle])
  /\ flows' = Finished(c)
  /\ relayed' = [relayed EXCEPT ![c] = 0]
  /\ ws' = [ws EXCEPT ![c] = <<>>]
  /\ UNCHANGED <<phase, leaves, asks>>

\* What a request does in the pool.
Served(c, Step) ==
  /\ task[c] \in {"listener", "tunnel"} /\ Step
  /\ UNCHANGED <<phase, leaves>> /\ UNCHANGED clientVars

Progress(c) == Served(c, PoolStep(c))

Outside ==
  Surroundings /\ UNCHANGED <<phase, leaves>> /\ UNCHANGED clientVars

-----------------------------------------------------------------------------
Listeners == {c \in Clients : task[c] = "listener"}

\* shutdown resolves.
Shutdown ==
  /\ phase = "accepting"
  /\ phase' = "draining"
  /\ UNCHANGED <<pool, closed, use, leaves>> /\ UNCHANGED clientVars

\* The listener's tasks have ended.
Drained ==
  /\ phase = "draining" /\ Listeners = {}
  /\ phase' = "stopped"
  /\ UNCHANGED <<pool, closed, use, leaves>> /\ UNCHANGED clientVars

\* SHUTDOWN_DRAIN_TIMEOUT: those that are left are aborted, whatever they do,
\* and waited for.  Mutant: they are not.
NoneAborted == {}
Aborted == Listeners

\* Mutant: the drain waits for as long as clients stay.
NoDeadline == FALSE
DrainTimeout ==
  /\ phase = "draining" /\ Listeners # {}
  /\ phase' = "stopped"
  /\ task' = [c \in Clients |-> IF c \in Aborted THEN "none" ELSE task[c]]
  /\ Install(pool, [c \in Clients |-> IF c \in Aborted THEN Idle ELSE use[c]])
  /\ UNCHANGED <<leaves, flows, relayed, ws, asks>>

ClientStep(c) ==
  \/ Accept(c) \/ Request(c) \/ Upgrade(c) \/ Decline(c)
  \/ Connect(c) \/ TunnelPlain(c) \/ TunnelBlind(c) \/ TunnelEnds(c)
  \/ End(c) \/ Progress(c)
  \/ \E h \in Hosts : TunnelTls(c, h)
  \/ \E size \in 0..MaxBytes : Relay(c, size)

Next ==
  \/ \E c \in Clients : ClientStep(c)
  \/ Outside \/ Shutdown \/ Drained \/ DrainTimeout

Spec == Init /\ [][Next]_vars

\* A task that can take a slot is polled; once it is given, a slot's sender is
\* dropped; the timer of the drain fires.  Clients and upstreams do as they
\* please.
FairSpec ==
  /\ Spec
  /\ \A c \in Clients :
       /\ WF_vars(Served(c, AcquireSlot(c)))
       /\ WF_vars(Served(c, DropSlot(c)))
  /\ WF_vars(Drained \/ DrainTimeout)

-----------------------------------------------------------------------------
\* Each variable stays in its range; users of the pool are clients served.
TypeOK ==
  /\ PoolTypeOK
  /\ phase \in {"accepting", "draining", "stopped"}
  /\ \A c \in Clients :
       /\ task[c] \in {"none", "listener", "peek", "tunnel", "blind", "relay"}
       /\ use[c].at # "idle" => task[c] \in {"listener", "tunnel", "relay"}
       /\ use[c].at = "relay" <=> task[c] = "relay"
       /\ c \in flows => task[c] \in {"blind", "relay"}
  /\ leaves.map \subseteq Hosts

\* "this lookup cannot fail" (ca.rs): the map and the order of the leaf cache
\* hold the same hosts, each once, and no more than fit.
LeavesAgree ==
  /\ leaves.map = Range(leaves.order)
  /\ Cardinality(leaves.map) = Len(leaves.order) /\ Len(leaves.order) <= LeafCap

\* A relay's record keeps within its limits by dropping the oldest messages,
\* and only them: it ends with the newest, and has no gap.
RelayKeepsNewest ==
  \A c \in Clients :
    /\ Fits(ws[c])
    /\ \A i \in DOMAIN ws[c] : ws[c][i].n = relayed[c] - Len(ws[c]) + i

\* "waits (with a bounded timeout) for already-accepted connections" (server.rs):
\* when the listener has stopped, none of its tasks is left, nor any connection
\* or stream slot that one of them held; only tunnels and relays live on.
NothingLeftServed ==
  phase = "stopped" =>
    \A c \in Clients :
      /\ task[c] # "listener"
      /\ Holding(c) => task[c] \in {"tunnel", "relay"}

\* Whatever clients and upstreams do, the drain ends.
DrainEnds == phase = "draining" ~> phase = "stopped"
=============================================================================
