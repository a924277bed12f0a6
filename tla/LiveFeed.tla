------------------------------ MODULE LiveFeed ------------------------------
(***************************************************************************)
(* How a captured flow reaches a row of the web UI: the tasks that change  *)
(* the store and then announce the change (hamsy-proxy), the broadcast     *)
(* channel, the WebSocket loop that coalesces and resynchronises           *)
(* (hamsy-api/src/routes/ws.rs), the wire, and the client's buffer and     *)
(* table (ui/src/stores/flows.ts, ui/src/lib/ws.ts).                       *)
(*                                                                         *)
(* A flow is known by its sequence number and a summary of it by the       *)
(* revision it describes.  Changing the store and sending the event are    *)
(* two steps of a task, as they are in the code: the store's lock is       *)
(* released in between, and other tasks run.                               *)
(***************************************************************************)
EXTENDS Integers, Sequences, FiniteSets, SequencesExt

CONSTANTS Flows,          \* sequence numbers of the flows captured
          Tasks,          \* what updates a flow: its handler, and app attribution
          Limits,         \* what a behaviour is limited to, see below
          MaxRev          \* bound: revisions of a flow

ASSUME FlowsAssumption == Flows \subseteq Nat /\ IsFiniteSet(Flows)
ASSUME TasksAssumption ==
  {"handler"} \subseteq Tasks /\ Tasks \subseteq {"handler", "appid"}
ASSUME RevAssumption == MaxRev \in Nat
ASSUME CapacityAssumption ==
  Limits \subseteq
    [store   : Nat \ {0},     \* settings.maxFlows, as the store knows it,
     table   : Nat \ {0},     \* and as the UI does
     channel : Nat \ {0},     \* EVENT_CHANNEL_CAPACITY
     resync  : Nat \ {0},     \* RESYNC_LIMIT
     revs    : [Flows -> 0..MaxRev], \* bound: revisions of a flow; 0: not captured
     clears  : Nat,           \* bound: times the flows are cleared
     drops   : Nat]           \* bound: times the connection breaks

VARIABLES
  todo,       \* flows not captured yet
  store,      \* flow -> revision held by the FlowStore, 0 if none
  order,      \* the store's insertion order
  unsent,     \* task -> flow -> revision it stored and has not announced, or 0
  clearing,   \* a clear: "idle", "asked" (by this UI), "cleared" (not announced)
  conn,       \* handle_socket: "down", "syncing" (recent flows not sent), "up"
  chan,       \* events this connection has not received
  lagged,     \* the channel overwrote some of them
  coalesced,  \* handle_socket's buffer: flow -> revision, 0 if none
  wire,       \* messages on their way to the browser
  wsBuffer,   \* the UI's buffer, drained by an animation frame
  frame,      \* an animation frame is requested
  rows,       \* ids of the table, in the order they are shown
  byId,       \* flow -> revision the table shows, 0 if none
  limit,      \* the choice of Limits
  announced,  \* history: flow -> revision last announced since the last clear
  missed,     \* history: a cleared event was sent that this UI never receives
  clears,     \* bound
  drops       \* bound

server == <<todo, store, order, unsent>>
socket == <<conn, chan, lagged, coalesced>>
ui     == <<wsBuffer, frame, rows, byId, limit>>
history == <<announced, missed>>
bounds == <<clears, drops>>
vars   == <<server, clearing, socket, wire, ui, history, bounds>>

-----------------------------------------------------------------------------
Update(f, r)   == [flow |-> f, rev |-> r]
FlowEvent(f, r) == [kind |-> "flow", updates |-> <<Update(f, r)>>, gone |-> {}]
FlowsMsg(s)    == [kind |-> "flows", updates |-> s, gone |-> {}]

\* The field gone is history: the flows that were cleared when it was sent.
Cleared(flows) == [kind |-> "cleared", updates |-> <<>>, gone |-> flows]

Nothing == [f \in Flows |-> 0]

\* f was captured once, is not stored any more, and no task is about to
\* announce it.
Gone(f) ==
  f \notin todo /\ store[f] = 0 /\ \A t \in Tasks : unsent[t][f] = 0

\* The elements of a set of numbers in increasing order.
Sorted(S) ==
  CHOOSE s \in [1..Cardinality(S) -> S] :
    /\ S = {s[k] : k \in 1..Cardinality(S)}
    /\ \A i, j \in 1..Cardinality(S) : i < j => s[i] < s[j]

\* flush_coalesced: the buffer as one message, sorted by seq; none if empty.
Flushed(buffer) ==
  LET ids == Sorted({f \in Flows : buffer[f] # 0})
  IN  IF ids = <<>> THEN <<>>
      ELSE <<FlowsMsg([k \in 1..Len(ids) |-> Update(ids[k], buffer[ids[k]])])>>

\* The last n entries of s.  Mutant: the excess is not dropped.
LastOfUnbounded(s, n) == s
LastOf(s, n) == IF Len(s) > n THEN SubSeq(s, Len(s) - n + 1, Len(s)) ELSE s

\* recent_flows_event: the newest stored flows, in insertion order.
Recent == LastOf(order, limit.resync)
RecentFlows == FlowsMsg([k \in 1..Len(Recent) |-> Update(Recent[k], store[Recent[k]])])

\* broadcast::Sender::send: a receiver that is limit.channel events behind loses
\* the oldest; without a connection nobody receives.
Overwrites == conn # "down" /\ Len(chan) = limit.channel

Broadcast(event) ==
  /\ chan' = IF conn = "down" THEN chan
             ELSE Append(IF Overwrites THEN Tail(chan) ELSE chan, event)
  /\ lagged' = (lagged \/ Overwrites)

\* What the broadcast of event makes this UI miss for ever.
Misses(event) ==
  \/ conn = "down" /\ event.kind = "cleared"
  \/ Overwrites /\ Head(chan).kind = "cleared"

-----------------------------------------------------------------------------
Init ==
  /\ limit \in Limits
  /\ todo = {f \in Flows : limit.revs[f] # 0}
  /\ store = Nothing
  /\ order = <<>>
  /\ unsent = [t \in Tasks |-> Nothing]
  /\ clearing = "idle"
  /\ conn = "down"
  /\ chan = <<>>
  /\ lagged = FALSE
  /\ coalesced = Nothing
  /\ wire = <<>>
  /\ wsBuffer = <<>>
  /\ frame = FALSE
  /\ rows = <<>>
  /\ byId = Nothing
  /\ announced = Nothing
  /\ missed = FALSE
  /\ clears = 0
  /\ drops = 0

\* handle_captured_request: the seq was allocated before the request body was
\* read, so flows are inserted in any order of their seqs.  At capacity the
\* store drops its oldest flow, and tells nobody.
Capture(f) ==
  /\ f \in todo
  /\ todo' = todo \ {f}
  /\ order' = LastOf(Append(order, f), limit.store)
  /\ store' = [g \in Flows |-> IF g \notin ToSet(order') THEN 0
                               ELSE IF g = f THEN 1 ELSE store[g]]
  /\ unsent' = [unsent EXCEPT !["handler"][f] = 1]
  /\ UNCHANGED <<clearing, socket, wire, ui, history, bounds>>

\* AppIdentity::attach is called after the flow's first event is sent.  Mutant:
\* attached as soon as the flow is inserted.
MayUpdateAtOnce(t, f) == TRUE
MayUpdate(t, f) == t = "appid" => unsent["handler"][f] # 1

\* FlowStore::update returned a summary, which the task is about to send.  An
\* update of a flow that is gone returns none, and the task sends nothing.
Change(t, f) ==
  /\ store[f] # 0 /\ store[f] < limit.revs[f]
  /\ unsent[t][f] = 0
  /\ MayUpdate(t, f)
  /\ store' = [store EXCEPT ![f] = @ + 1]
  /\ unsent' = [unsent EXCEPT ![t][f] = store[f] + 1]
  /\ UNCHANGED <<todo, order, clearing, socket, wire, ui, history, bounds>>

\* ctx.events.send(ServerEvent::Flow { flow: summary })
Announce(t, f) ==
  /\ unsent[t][f] # 0
  /\ Broadcast(FlowEvent(f, unsent[t][f]))
  /\ announced' = [announced EXCEPT ![f] = unsent[t][f]]
  /\ missed' = (missed \/ Misses(FlowEvent(f, unsent[t][f])))
  /\ unsent' = [unsent EXCEPT ![t][f] = 0]
  /\ UNCHANGED <<todo, store, order, clearing, conn, coalesced, wire, ui, bounds>>

\* The clear handlers: state.flows().clear() ...
ClearStore ==
  /\ clearing \in {"idle", "asked"}
  /\ clears < limit.clears
  /\ clears' = clears + 1
  /\ clearing' = "cleared"
  /\ store' = Nothing
  /\ order' = <<>>
  /\ UNCHANGED <<todo, unsent, socket, wire, ui, history, drops>>

\* ... and state.broadcast(ServerEvent::Cleared).
BroadcastCleared ==
  /\ clearing = "cleared"
  /\ clearing' = "idle"
  /\ LET event == Cleared({f \in Flows : Gone(f)})
     IN  Broadcast(event) /\ missed' = (missed \/ Misses(event))
  /\ announced' = Nothing
  /\ UNCHANGED <<server, conn, coalesced, wire, ui, bounds>>

-----------------------------------------------------------------------------
\* ws.ts opens a socket (again), and handle_socket subscribes.
Connect ==
  /\ conn = "down"
  /\ conn' = "syncing"
  /\ chan' = <<>>
  /\ lagged' = FALSE
  /\ coalesced' = Nothing
  /\ UNCHANGED <<server, clearing, wire, ui, history, bounds>>

\* The recent flows are listed and sent: after the state snapshot of a new
\* connection, or after the notice that events were dropped.
SendRecent ==
  /\ conn = "syncing"
  /\ conn' = "up"
  /\ wire' = Append(wire, RecentFlows)
  /\ UNCHANGED <<server, clearing, chan, lagged, coalesced, ui, history, bounds>>

\* events.recv() returns a flow update: it is buffered, last write wins.
ReceiveFlow ==
  /\ conn = "up" /\ ~lagged
  /\ chan # <<>> /\ Head(chan).kind = "flow"
  /\ coalesced' = [f \in Flows |->
        IF f = Head(chan).updates[1].flow THEN Head(chan).updates[1].rev ELSE coalesced[f]]
  /\ chan' = Tail(chan)
  /\ UNCHANGED <<server, clearing, conn, lagged, wire, ui, history, bounds>>

\* Mutant: another event is sent on without flushing the buffer first.
ReceiveOtherUnflushed ==
  /\ conn = "up" /\ ~lagged
  /\ chan # <<>> /\ Head(chan).kind # "flow"
  /\ wire' = Append(wire, Head(chan))
  /\ chan' = Tail(chan)
  /\ UNCHANGED <<server, clearing, conn, lagged, coalesced, ui, history, bounds>>

\* events.recv() returns anything else: flush first, then send it on.
ReceiveOther ==
  /\ conn = "up" /\ ~lagged
  /\ chan # <<>> /\ Head(chan).kind # "flow"
  /\ wire' = wire \o Flushed(coalesced) \o <<Head(chan)>>
  /\ coalesced' = Nothing
  /\ chan' = Tail(chan)
  /\ UNCHANGED <<server, clearing, conn, lagged, ui, history, bounds>>

\* Mutant: after Lagged the loop goes on with what is left in the channel.
ReceiveLaggedUnsynced ==
  /\ conn = "up" /\ lagged
  /\ coalesced' = Nothing
  /\ lagged' = FALSE
  /\ UNCHANGED <<server, clearing, conn, chan, wire, ui, history, bounds>>

\* events.recv() returns Lagged: a notice is sent (a toast, not modelled), the
\* buffer is forgotten, and the recent flows are about to be sent.
ReceiveLagged ==
  /\ conn = "up" /\ lagged
  /\ coalesced' = Nothing
  /\ lagged' = FALSE
  /\ conn' = "syncing"
  /\ UNCHANGED <<server, clearing, chan, wire, ui, history, bounds>>

\* flush_tick
FlushTick ==
  /\ conn = "up"
  /\ coalesced # Nothing
  /\ wire' = wire \o Flushed(coalesced)
  /\ coalesced' = Nothing
  /\ UNCHANGED <<server, clearing, conn, chan, lagged, ui, history, bounds>>

\* The connection breaks; what was on its way is lost, and so is what
\* handle_socket held.  The UI keeps its table and its buffer.
Disconnect ==
  /\ conn # "down"
  /\ drops < limit.drops
  /\ drops' = drops + 1
  /\ conn' = "down"
  /\ chan' = <<>>
  /\ lagged' = FALSE
  /\ coalesced' = Nothing
  /\ wire' = <<>>
  /\ missed' = (missed \/ \E m \in ToSet(chan \o wire) : m.kind = "cleared")
  /\ UNCHANGED <<server, clearing, ui, announced, clears>>

-----------------------------------------------------------------------------
\* clearFlows: the table is emptied, the buffer of the WebSocket is not.
EmptyTable ==
  /\ rows' = <<>>
  /\ byId' = Nothing

\* bufferIncomingFlows: a frame is requested when the buffer was empty.  Mutant:
\* the test the wrong way round.
RequestedLate(buffer) == frame \/ buffer # <<>>
Requested(buffer) == frame \/ buffer = <<>>

\* onMessage "flow", "flows"
DeliverFlows ==
  /\ wire # <<>> /\ Head(wire).kind = "flows"
  /\ wsBuffer' = wsBuffer \o Head(wire).updates
  /\ frame' = IF Head(wire).updates = <<>> THEN frame ELSE Requested(wsBuffer)
  /\ wire' = Tail(wire)
  /\ UNCHANGED <<server, clearing, socket, rows, byId, limit, history, bounds>>

\* onMessage "cleared"
DeliverCleared ==
  /\ wire # <<>> /\ Head(wire).kind = "cleared"
  /\ EmptyTable
  /\ wire' = Tail(wire)
  /\ UNCHANGED <<server, clearing, socket, wsBuffer, frame, limit, history, bounds>>

\* One flow of ingestFlows: a known row is updated in place, a new one is
\* appended.
Upsert(table, u) ==
  [rows |-> IF u.flow \in ToSet(table.rows) THEN table.rows ELSE Append(table.rows, u.flow),
   byId |-> [table.byId EXCEPT ![u.flow] = u.rev]]

\* ingestFlows: the updates in their order.
Ingested(table, updates) ==
  LET upto[k \in 0..Len(updates)] ==
        IF k = 0 THEN table ELSE Upsert(upto[k - 1], updates[k])
  IN  upto[Len(updates)]

\* flushWsBuffer, ingestFlows: the whole buffer goes into the table, then the
\* oldest rows above the limit are dropped.
Frame ==
  /\ frame
  /\ frame' = FALSE
  /\ LET t == Ingested([rows |-> rows, byId |-> byId], wsBuffer)
     IN  /\ rows' = LastOf(t.rows, limit.table)
         /\ byId' = [f \in Flows |-> IF f \in ToSet(rows') THEN t.byId[f] ELSE 0]
  /\ wsBuffer' = <<>>
  /\ UNCHANGED <<server, clearing, socket, wire, limit, history, bounds>>

\* The toolbar's clear: empty the table at once, then ask the server to clear.
UserClear ==
  /\ clearing = "idle"
  /\ clears < limit.clears
  /\ clearing' = "asked"
  /\ EmptyTable
  /\ UNCHANGED <<server, socket, wire, wsBuffer, frame, limit, history, bounds>>

\* The request fails; the UI shows an error and leaves the table empty.
ClearFails ==
  /\ clearing = "asked"
  /\ clears' = clears + 1
  /\ clearing' = "idle"
  /\ announced' = Nothing
  /\ UNCHANGED <<server, socket, wire, ui, missed, drops>>

-----------------------------------------------------------------------------
Announcing == (\E t \in Tasks, f \in Flows : Announce(t, f)) \/ BroadcastCleared
Answering  == clearing = "asked" /\ (ClearStore \/ ClearFails)
SocketStep == SendRecent \/ ReceiveFlow \/ ReceiveOther \/ ReceiveLagged
Deliver    == DeliverFlows \/ DeliverCleared

Next ==
  \/ \E f \in Flows : Capture(f)
  \/ \E t \in Tasks, f \in Flows : Change(t, f)
  \/ Announcing
  \/ ClearStore
  \/ Connect
  \/ SocketStep
  \/ FlushTick
  \/ Disconnect
  \/ Deliver
  \/ Frame
  \/ UserClear
  \/ ClearFails

Spec == Init /\ [][Next]_vars

\* The proxy's tasks run on; ws.ts reconnects for ever and the loop of
\* handle_socket serves the channel and its tick; the browser receives messages
\* and renders frames, and a clear it asked for is carried out or fails.
\* Nobody has to capture, change or clear anything, or to lose a connection.
FairSpec ==
  /\ Spec
  /\ WF_vars(Announcing)
  /\ WF_vars(Answering)
  /\ WF_vars(Connect \/ SocketStep \/ FlushTick)
  /\ WF_vars(Deliver \/ Frame)

-----------------------------------------------------------------------------
Updates == [flow : Flows, rev : 1..MaxRev]

\* Every variable stays in its range; the channel never exceeds its capacity,
\* nor the store and the table theirs.
TypeOK ==
  /\ todo \subseteq Flows
  /\ store \in [Flows -> 0..MaxRev]
  /\ order \in Seq(Flows) /\ Len(order) <= limit.store
  /\ unsent \in [Tasks -> [Flows -> 0..MaxRev]]
  /\ clearing \in {"idle", "asked", "cleared"}
  /\ conn \in {"down", "syncing", "up"}
  /\ Len(chan) <= limit.channel
  /\ lagged \in BOOLEAN
  /\ coalesced \in [Flows -> 0..MaxRev]
  /\ wsBuffer \in Seq(Updates)
  /\ frame \in BOOLEAN
  /\ rows \in Seq(Flows) /\ Len(rows) <= limit.table
  /\ byId \in [Flows -> 0..MaxRev]
  /\ announced \in [Flows -> 0..MaxRev]
  /\ missed \in BOOLEAN

\* No clear is under way and nothing is on its way to the table any more.
Quiet ==
  /\ clearing = "idle"
  /\ conn = "up" /\ ~lagged
  /\ chan = <<>> /\ coalesced = Nothing /\ wire = <<>> /\ wsBuffer = <<>>

\* A flow is stored, among those a resynchronisation sends, and the last that
\* was announced of it is what is stored.
Current(f) == f \in ToSet(Recent) /\ announced[f] = store[f]

Shown(f) == byId[f] = store[f]

HasRoom == Len(rows) < limit.table

\* When the feed has come to rest and the table is not full, it shows the
\* current revision of every recent flow announced since the last clear:
\* coalescing, resynchronisation after a lag or a reconnection, and the two
\* buffers lose nothing and never let an older revision have the last word.
Converges == Quiet /\ HasRoom => \A f \in Flows : Current(f) => Shown(f)

\* "so a late result cannot be overwritten by the initial unattributed
\* summary" (appid.rs): once everyone has announced what they stored, the
\* first summary of a flow is not what the table shows of a flow updated since.
InitialNotLast ==
  Quiet /\ HasRoom =>
    \A f \in ToSet(Recent) :
      (\A t \in Tasks : unsent[t][f] = 0) /\ byId[f] = 1 => store[f] = 1

\* From some moment on the table with room shows what is current: no event is
\* left in the channel, no update in a buffer, no frame is forgotten and no
\* resynchronisation is left out, although events keep being dropped until the
\* proxy's tasks have done their (bounded) work.
CatchesUp == <>[](HasRoom => \A f \in Flows : Current(f) => Shown(f))

\* All that this connection has not handed to the UI, in the order it will.
Pipeline == wire \o Flushed(coalesced) \o chan

\* "Every other event type is sent immediately, after first flushing any
\* buffered flow updates (to preserve relative ordering)" (docs/API.md): after
\* a cleared event the browser receives no update of a flow that was gone, and
\* wholly announced, when the event was sent.
ClearedInOrder ==
  \A j, k \in 1..Len(Pipeline) :
    j < k => \A u \in ToSet(Pipeline[k].updates) : u.flow \notin Pipeline[j].gone

\* f was announced since the last clear, or the store still holds it, or its
\* announcement raced with the clear.
Fresh(f) ==
  announced[f] # 0 \/ store[f] # 0 \/ \E t \in Tasks : unsent[t][f] # 0

\* A row left over from before the last clear.
Ghost(f) == byId[f] # 0 /\ ~Fresh(f)

\* The same order, seen in the table: when the feed is at rest, a flow that was
\* cleared and not announced since is not shown.  The UI does not keep it: the
\* updates it has buffered for the next frame survive clearFlows.
ClearedStaysCleared == Quiet /\ ~missed => \A f \in Flows : ~Ghost(f)

\* "so the client's flow list can catch back up without a full page reload"
\* (docs/API.md): also when the event that was dropped is a cleared event.  It
\* cannot: a resynchronisation only adds rows and updates them.
ResyncCatchesUp == Quiet /\ missed => \A f \in Flows : ~Ghost(f)
=============================================================================
