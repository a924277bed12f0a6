# hamsy-proxy in TLA+

TLA+ specifications of the parts of hamsy-proxy whose correctness depends on
order: what tasks, threads, processes and a browser do to state they share.
Modelled and model-checked with TLC are the flow store, the pool of upstream
connections, the rule engine, rules and settings with their files, and the
system proxy, and of the capture pipeline, the live feed, the listener with its
tunnels and the WebSocket relay the parts named below. Most of their safety
properties are also proved with TLAPS, for every value of the constants. Every definition that
models code has an entry in `PROJECT.json` ("map") with the lines it stands for.

Contents: [the system](#the-system) · [modules](#modules) ·
[runs](#runs-bounds-and-what-they-show) · [fairness](#fairness) ·
[proofs](#proofs) · [disagreements](#where-code-and-documents-disagree) ·
[not modelled](#what-is-not-modelled) · [plan](#plan)

## The system

hamsy-proxy is one process (`hamsy run`) with two listeners, a proxy and an
API, and a web UI in the browser. Its parts, their state and what makes each
correct:

| Part (source) | State | Operations | Hard behaviour | Correct when |
|---|---|---|---|---|
| **Flow store** (`hamsy-core/store.rs`) | map id → `Arc<Flow>`, insertion queue, two limits, a running byte counter, next seq; one `RwLock` | `next_seq`, `insert`, `update`, `snapshots`/`get`/`all`, `clear`, `set_capacity`, `set_max_total_bytes` | `update` copies a shared flow outside the lock and compares handles by address when it comes back; eviction in every operation | queue, map and counter agree; limits hold; snapshots do not change; every operation is atomic |
| **Capture pipeline** (`hamsy-proxy/http.rs`, `tee.rs`, `replay.rs`) | the handler's local state; flow records in the store; 4 body-work permits and 32 capture permits | collect, decode, record, rules, dispatch, respond, stream, finalize | the handler and two finalizers update one flow from different tasks; clients leave at any await; bounded workers | a flow is finished once; bodies are not lost; the end of a response follows its record; nobody waits for ever |
| **Live feed** (`hamsy-api/routes/ws.rs`, `routes/flows.rs`, `state.rs`, `ui/stores/flows.ts`, `ui/lib/ws.ts`) | broadcast channel, coalescing buffer, the UI's buffer, table | change and announce, coalesce, flush, resynchronise, reconnect, clear | store and announcement are two steps; the channel overwrites; two buffers and a reconnecting socket | the table ends at the current revision; updates do not overtake a clear |
| **System proxy ownership** (`hamsy-api/sysproxy_state.rs`, `sysproxy.rs`, `hamsy-cli/run.rs`, `main.rs`, `sysproxy_cmd.rs`) | the setting of the machine, the marker file, snapshots in memory | acquire, release, restore if marked, recover | several processes, no lock, kills between any two steps, commands that fail half way | the user's own setting is never lost, and is back in the end |
| **App attribution** (`appid.rs`) | cache, 128 permits | resolve, attach to a flow | a slow lookup racing the flow's events | the first event of a flow is not the last word |
| **Upstream pool** (`upstream.rs`) | for each key idle HTTP/1 and shared HTTP/2 connections, 8 at most; 100 slots per HTTP/2 connection | checkout, dial, share, checkin, release on completion | connections that close between checkout and use; waiting for a slot outside the lock; a check-in that sweeps every key's list; clients that leave at any time | an HTTP/1 connection has one user; slots are returned; a request goes over a connection made for its key |
| **Rules and settings** (`rules_store.rs`, `settings.rs`, `routes/rules.rs`, `routes/settings.rs`, `run.rs`) | list and compiled set, settings, the store's capacity, two files and their temporary files | create, update, delete, toggle, reorder, import, put settings, pause, load | memory changes before the file is written; one temporary path per file; settings are saved with nothing locked; `hamsy rules import` and other processes write the same files; kills | a file is never torn unless saves of several processes overlap; memory and file agree once no call is left, if they were last saved here |
| **Rule engine** (`rule.rs`, JSON patches) | none | match, apply in two phases, probe for a body | order of rules and short circuits; a probe that must foresee what rules will read after others have rewritten the request | streaming a body past the rules changes nothing they do |
| **Forwarding** (`http.rs`) | none | find the target, refuse, capture or not, adapt to the upstream's protocol | Host, `:authority` and cookies are rewritten for each protocol, after the rules | the origin that a request claims survives rewrites and adaptation |
| **Listener, CONNECT, TLS** (`server.rs`, `connect.rs`, `ca.rs`) | tasks of the listener; tasks of tunnels; leaf cache | accept, peek, intercept or pass, mint, drain, abort | tunnels outlive the listener; a drain among clients that stay | the drain ends and leaves nothing served; map and order of the cache agree |
| **WebSocket relay** (`websocket.rs`) | a capped record of messages | upgrade or refuse, relay, end | the cap by count and by bytes at once | the newest messages are kept, and only they |
| **UI stores** (HAR sessions, settings, rules, selection) | IndexedDB, signals | load, save, search | worker answers out of order | the last request wins |

How they interact. A handler task inserts a flow into the store, then sends an
event on the broadcast channel; it updates and announces the flow as the
exchange goes on. Finalizers of streamed bodies and the app resolver do the
same from their own tasks. Each WebSocket connection of the API has a receiver
of the channel, coalesces flow updates for 50 ms and sends them to the browser,
which collects them for the next animation frame. Exports hold `Arc` handles to
flows while captures go on. Clears come from the API, that is from the UI
itself. The handler asks the rule engine, twice, with the rule set and the
settings as they are when it begins, and takes its upstream connection from the
pool, to which whoever drops the response returns it. Calls of the API change
rules and settings in memory and on disk. The system proxy is changed by `run` at its start and stop, by the API,
by the panic hook, and by `hamsy proxy on|off` in other processes; what ties
them together is a marker file.

`PROJECT.json` lists all components ("components") and, line by line, what is
hard to test in them ("hazards").

## Modules

| Module | Models | State ↔ code | Actions ↔ code |
|---|---|---|---|
| `FlowRing` | arithmetic of the ring | — | `Popped`, `Settled`: the loop of `evict_if_needed`; `Without`: `order.retain` |
| `FlowStore` | the store with its addresses | `flows`, `order`, `capacity`, `nextSeq`, `totalBytes`, `maxTotalBytes`: the fields of `Inner`; `heap`: what `Arc`s point to; `pc`, `target`, `snapshot`, `before`, `detached`: the locals of `update`; `held`: handles of exporters | one per critical section; `update` is `UpdateMissing`, `UpdateInPlace`, `UpdateShare`, `Detach`, `Install`, `Retry` |
| `AtomicFlowStore` | what the store promises: flows are values, every operation is one step | `store`, `order`, `view`, `outcome` | one per operation |
| `CapturedExchange` | when things happen in an exchange, from request to answer | `pc`: where the handler awaits; `flow`: the stored record; `capture`: the two `CaptureBody`s; `cpu`: permits of `body_cpu` | one per stretch of the handler between two awaits, plus `Start`, `EndCaptureJob`, `EndSeen` of `tee.rs` |
| `LiveFeed` | from the store to a row of the table | `unsent`: an update stored and not announced; `chan`, `lagged`: the connection's receiver; `coalesced`: buffer of `handle_socket`; `wsBuffer`, `frame`, `rows`, `byId`: `flows.ts` | one per arm of the `select!` of `handle_socket`, per message handler of the client, per frame |
| `SystemSettings` | the settings of macOS, Windows and Linux, and the commands on them | values of a platform, by key; a proxy of a macOS service is a server that is remembered and whether it is on | `Perform`: one command; `After`, `Done`, `Outcomes`: a list of them, of which any may fail; snapshot, enable, disable, restore of each platform |
| `SystemProxy` | marker and settings | `os`, `marker`; `pc`, `op`, `saved`: a call in progress; `inst`: where `run` stands | one per file access or function of `sysproxy.rs` in `acquire`, `release`, `restore_if_marked`, `recover_stale` |
| `UpstreamPool` | the pool | `pool`: key → list of senders; `closed`: connections that are; `use`: what each request does with which sender | one per critical section of the pool's lock; `AcquireSlot`, `Dial`, `DropSlot` outside it |
| `ProxyServer` | the listener and what it starts, over `UpstreamPool` | `phase`: the accept loop; `task`: what serves a client; `leaves`: `HostCache`; `flows`, `ws`: records of tunnels and relays | accept, request, upgrade, CONNECT and its outcomes, relay, end; shutdown, drained, drain timeout |
| `JsonPatch` | JSON documents, paths, patch operations | — | recursive functions over a path |
| `RuleEngine` | `RuleSet::new`, `apply_request`, `apply_response`, the probes | — | `ApplyRequest`, `ApplyResponse`, `NeedsRequestBody`, `NeedsResponseBody`: loops over the list of rules and over a rule's actions, as recursive functions |
| `Forwarding` | target URL, own listeners, capture lists, framing per protocol | — | one operator per function of `http.rs` |
| `RuleExchange` | what happens to one exchange, over the two | `outcome`, `sent`, `wire`, `replied`: what each stage produced | refuse, forward untouched or capture; request phase; dispatch; respond or fail; response phase |
| `Configuration` | rules and settings, memory and files | `disk`: content and temporary file of each file; `settings`, `capacity`, `rules`, `ruleset`; `call`: a call in progress | open, write, rename of a file, each able to fail; the changes in memory around them; kill and start; `ImportElsewhere`, `StartElsewhere`, `RenameElsewhere`: a command that writes the same files from a process of its own |
| `…Proofs` | theorems | | |
| `MC…` | the instances TLC checks | | |

`FlowStore` implements `AtomicFlowStore`, checked (`ActsAtomically`) and proved
(`Implements`). `CapturedExchange` and `LiveFeed` use the store as
`AtomicFlowStore` describes it: a map with atomic updates, where an update of a
flow that is gone does nothing. `ProxyServer` extends `UpstreamPool`, so that a
client's end is also the end of what it holds in the pool. `RuleExchange` stands
beside `CapturedExchange`: the one is about what the handler does, the other
about when.

Choices worth knowing:

- *Addresses.* `update` compares `Arc`s by address. The model reuses addresses,
  with the allocator as a constant (`Allocate`), so that the comparison could be
  fooled; it is not, because the copy's source stays alive until the comparison.
  The copy's own `Arc` is made outside the lock in the code and at `Install` in
  the model; the source is still held at both moments.
- *Data.* A flow is its seq, the bytes it retains and the writers whose callbacks
  edited it (`FlowStore`); its revision number (`LiveFeed`); its state and which
  of its bodies are there (`CapturedExchange`). Values of system settings are
  kept as read back, where that differs from what was written; those of Windows
  are one word or empty. A macOS proxy without a server counts as one without
  effect (`Effect`). Instances are told apart by their ports.
- *Patterns.* A condition on text is the set of texts it accepts, whatever its
  operator; a template, and a replacement, is a function. So no glob or regular
  expression is interpreted, and one that does not compile is a value of its own.
- *Files.* A save opens the file's one temporary path, which empties it, writes
  through the descriptor it got, and renames. The descriptor goes on pointing at
  what it opened when another save renames it, so a late write lands in the file
  itself (`fd`).
- *Connections.* Names of connections are used again once nothing refers to them,
  which keeps the state finite; that a dialed one is new is `Dial`'s choice of a
  free name.
- *Recursion.* Loops over lists are recursive functions where something is
  proved about what they compute (`Swept` and `Dropped`, each a `retain` in the
  code, `TotalSize`, `Reorder`, `Merge`, `Cookies`, `Lookup`,
  `JsonSet`, the loops of the rule engine), folds and
  `SelectSeq` elsewhere: the provers cannot instantiate an operator that takes an
  operator.
- *What was cleared.* A cleared event carries, as history, the flows that were
  gone and wholly announced when it was sent (`gone`). `ClearedInOrder` speaks of
  those: a flow whose announcement was still to be sent may follow the event.
- *Bodies.* hyper drops a body without polling its end when it has all the bytes
  the content length announced, when a peer breaks off and when a handler is
  dropped. `Start` covers them all; `EndSeen` is a peer that waits for the end
  of the stream.
- *History.* `announced`, `missed`, `original`, `acquired`, `torn` and `ended`
  record what happened for the properties, as do `acked`, `failed`, `alone` and
  `last` of `Configuration`; no guard reads them.
- *Who saves a file.* `alone` has the calls and commands that save a file with
  no rival since they began: nobody else saves it whom the lock of the rules does
  not keep away. `last` says of each file whether the last save was one of those,
  of this process (`"here"`) or of another (`"elsewhere"`), or whether rivals
  saved it (`"mixed"`). A start makes what it loads the process's own.
- *The store's limit.* `maxFlows` may be 0: nothing validates it. `capacity` is
  what the store keeps, at least 1 (`AtLeastOne`).

## Runs, bounds and what they show

| Run | Instance | Shows |
|---|---|---|
| `flow_store` | 2 ids, 2 updating tasks, 1 exporter, 1 inserter of 2 flows, 5 addresses, sizes 0 and 2, capacities 0 and 2, budgets 1 and 3 | `TypeOK`; `OrderExact`, `AccountingExact`, `WithinLimits` after every step; `SnapshotsFrozen`; `ActsAtomically` (refinement); `UpdatesReturn` |
| `captured_exchange` | 2 exchanges, 1 worker, 1 place in the capture queue | `TypeOK`; `FinishedIsFinal`, `BackfillKept`, `EndAfterRecord`; `Proceeds` |
| `exchange_original` | 1 exchange | violation of `OriginalBodyKept` |
| `live_feed` | six instances (`AnyOf`): 2 flows of 2 revisions, a channel of 1 event and resynchronisations of 1 flow, with room or with eviction, each also with a disconnection and 1 revision less; 1 flow of 3 revisions with a channel of 2, a clear and a disconnection; 2 flows of 1 revision with eviction, a channel of 2 and 2 clears | `TypeOK`, `Converges`, `InitialNotLast`, `ClearedInOrder`, `CatchesUp` |
| `feed_ghost`, `feed_resync` | as small as shows it | violations of `ClearedStaysCleared`, `ResyncCatchesUp` |
| `system_proxy` | 2 instances, the API of one, the command line of the other; a user's settings on macOS (2 services), Windows and Linux; 1 call at a time, 1 kill or failure | `TypeOK`, `OriginalKept`, `MarkerOwns`, `RestoresInTheEnd` |
| `system_proxy_drain`, `system_proxy_manual` | 2 calls at a time, no kill, no failure | violations of `NotLeftPointed`, `HandsOff` |
| `rule_engine` | every list of none, one or two of 21 rules, and every triple of 9 of them, on requests over HTTP/1 and HTTP/2 in a tunnel, plain, with two Host headers, to hamsy's own ports and without a URL; 3 bodies, 5 settings, 2 responses | `TypeOK`; `RequestStreamingUnseen`, `ResponseStreamingUnseen`, `ClaimsOrigin`, `UnmodifiedIsOriginal`, `PatchesAreLocal` |
| `connections` | 2 clients, 4 connections, 2 keys (one offers HTTP/2), 1 slot, 1 place per list; 2 hosts, a leaf cache of 1; relays of 3 messages of up to 2 bytes with caps of 2; 3 scenarios: two that use the pool, one of them over both keys; pool and tunnels; pool, tunnels and upgrades | `TypeOK`; `NoSharedH1`, `PoolBounded`, `RightRoute`, `InUseStaysPooled`, `SlotsComeFree`; `LeavesAgree`, `RelayKeepsNewest`, `NothingLeftServed`, `DrainEnds` |
| `configuration` | 2 calls, or a call and a command of another process, on the settings or on the rules; 2 ids, lists of 1 rule, sizes 0 and 2; 2 failed writes or kills | `TypeOK`; `RulesSurvive`, `SettingsAgree` |

Why the bounds suffice.

- *flow_store.* Two ids are enough for one flow to evict or replace another;
  two writers for an update in the middle of a copy; budget 1 is smaller than a
  flow and budget 3 than two; capacity 0 is the one the code corrects. At most
  two stored, one held and two copied handles are live, so five addresses leave
  one free, and `LowestFree` gives it out at once.
- *captured_exchange.* One worker and one place make two exchanges compete for
  both limits (4 and 32 in the code): a full queue, a job left behind by a
  dropped handler and a finalizer behind a handler's own job all occur.
- *live_feed.* A channel of one event lags at the second (4096 in the code). A
  resynchronisation of one of two flows is one that leaves flows out, as 2000 of
  5000 do.
- *system_proxy.* A kill or a failure can fall on any step, and a second start
  follows it. With calls that overlap the original is lost, since nothing locks
  marker or setting; the pass run is therefore stated for calls one at a time
  (`MaxOverlap`), and what overlapping does is in the violation runs and in the
  hazards. `torn` marks runs in which a step failed, calls overlapped or a kill
  cut a call between removing the marker and restoring: in those the code has
  no record of the original left, and the properties promise nothing.

- *rule_engine.* What one rule does to another shows in pairs; that a third sees
  what two did, in triples. The 21 rules use every condition and every action
  between them, and include what does not compile or is disabled; each request
  meets rules that match it, that do not, and that make it match others.
- *connections.* One slot and one place make two clients compete for both: one
  waits for a slot of a connection that closes meanwhile, and a check-in pushes
  another out. Four names leave one free with two clients and two lists of one.
  Every limit of 1 or 2 is one that the code has larger.
- *configuration.* Two callers are enough to share a temporary file: two calls
  of the API, or one and a command. A third start follows two kills. What is done
  to the settings and to the rules shares nothing, so a behaviour has callers of
  one kind (`Scenarios`). A list of one rule that is there or not, enabled or
  not, under either id, tells the versions of a file apart; 0 is the size that
  the code corrects. `MaxFaults` of 2: a write that fails and a kill, or two of
  either. Lists of two rules are beyond the time of a run; the theorems hold for
  lists of any length, and any number of callers and faults.

Deadlock checking is off where work is bounded and the system may rest
(`LiveFeed`, `CapturedExchange`, `RuleExchange`, `ProxyServer`): when every event
is delivered, every exchange is over or the listener has stopped, nothing is left
to do. Every property of a passing run has a
mutant ("mutants"): a plausible bug in a mapped definition that TLC finds it
violated by.

## Fairness

- `FlowStore`: a thread inside `update` is scheduled (weak fairness of its
  steps). Readers, inserters and the API owe nothing. `UpdatesReturn` holds
  because inserts and updates are finite in number: the loop is lock-free, not
  wait-free.
- `CapturedExchange`: a free permit goes to a waiting job (tokio's semaphore is
  fair), a job ends, a task that can run is polled. Clients and upstreams owe
  nothing, and there is no timeout on them in the handler: `Proceeds` says that
  whoever waits, waits for a peer.
- `LiveFeed`: tasks send what they stored, the loop of `handle_socket` and its
  tick run, `ws.ts` reconnects for ever, the browser delivers messages and
  frames. Nobody has to capture, clear or disconnect.
- `SystemProxy`: a call that began goes on unless its process is killed, and so
  does `run`. Nobody has to start, stop or call anything.

- `ProxyServer`: a request that can take a slot does, a slot that is given up is
  freed, and the timer of the drain fires. Clients and upstreams owe nothing: who
  keeps reading a response keeps its slot (`SlotsComeFree` says so), and a client
  that never leaves is aborted (`DrainEnds`).
- `RuleExchange` and `Configuration` state safety only.

## Proofs

Each module of proofs names its inductive invariant `IInv` and the argument in
its head comment. The assumptions are those named in the modules they are about;
ids, tasks, clients, exchanges, keys and limits are arbitrary, except that the
clients and connections of the pool and the exchanges are finite sets where they
are counted.

| Module | Theorem | Property |
|---|---|---|
| `FlowStoreProofs` | `TypeCorrect` | `TypeOK` |
| | `OrderIsExact` | `OrderExact` |
| | `AccountingIsExact` | `AccountingExact` |
| | `LimitsHold` | `WithinLimits` |
| | `SnapshotsStayFrozen` | `SnapshotsFrozen` |
| | `Implements` | `ActsAtomically`: `Spec => Atomic!Spec` |
| `CapturedExchangeProofs` | `TypeCorrect` | `TypeOK` |
| | `BackfillIsKept` | `BackfillKept` |
| | `EndIsAfterRecord` | `EndAfterRecord` |
| | `FinishedStaysFinal` | `FinishedIsFinal` |
| `ConfigurationProofs` | `TypesHold` | `TypeOK` |
| | `RulesAreKept` | `RulesSurvive` |
| | `SettingsComeToAgree` | `SettingsAgree` |
| `ProxyServerProofs` | `TypesHold` | `TypeOK` |
| | `ConnectionsAreNotShared` | `NoSharedH1` |
| | `PoolStaysBounded` | `PoolBounded` |
| | `RoutesAreRight` | `RightRoute` |
| | `BusyConnectionsStay` | `InUseStaysPooled` |
| | `NothingIsLeftServed` | `NothingLeftServed` |
| | `LeafCacheAgrees` | `LeavesAgree` |
| | `RelaysKeepTheNewest` | `RelayKeepsNewest` |
| `LiveFeedProofs` | `TypesHold` | `TypeOK` |
| | `FeedConverges` | `Converges` |
| | `InitialIsNotLast` | `InitialNotLast` |
| | `ClearedComesInOrder` | `ClearedInOrder` |
| `SystemProxyProofs` | `TypesHold` | `TypeOK` |
| | `OriginalIsKept` | `OriginalKept` |
| | `MarkerTells` | `MarkerOwns` |
| `RuleExchangeProofs` | `TypesHold` | `TypeOK` |
| | `RequestStreaming` | `RequestStreamingUnseen` |
| | `ResponseStreaming` | `ResponseStreamingUnseen` |
| | `UnmodifiedMeansOriginal` | `UnmodifiedIsOriginal` |
| | `OriginIsClaimed` | `ClaimsOrigin` |
| | `PatchesStayLocal` | `PatchesAreLocal` |
| | `RulesRunInOrder` | (no run) `RuleSet` sorts what it keeps |
| | `StopEndsRequest`, `StopEndsResponse` | (no run) a block or a mock ends its phase |

### The flow store

The inductive invariant `IInv` is `TypeOK`, `Ready`, `WithinLimits` and
`CallsOK`. `Ready` says that map, queue and counter describe the same flows, and
that no two ids share a flow: without that an update of one would change the
bytes counted for the other. `CallsOK` says that the flow a writer copies
outside the lock has not changed since it looked it up, which is what makes the
bytes it measured then right to subtract later. Every operation hands `Settle` a
map, a queue and a counter that are `Ready` and may exceed the limits;
`SettleKeeps` shows that eviction restores the limits and keeps the agreement.
It rests on lemmas of `FlowRingProofs` about prefix sums, removal and eviction
(`PoppedProperties`, `LeftAfterExact`: a saturating counter that is exact never
saturates). The sums are recursive functions (`CHOOSE` of a fixed point); that
the fixed point exists and is unique (`PrefixUnique`) is proved by an induction
stated over a set of naturals (`SetInduction`). No `RECURSIVE` operator is used.

The refinement maps addresses to the flows behind them. `Detach`, `Retry` and
`UpdateShare` are stutters; `Install` is the atomic update, because the stored
handle is the one that was copied and the flow behind a live handle does not
change.

### The pool

`ProxyServerProofs` proves about `ProxyServer`, in which the pool is used. All
that refers to a connection refers to it by one and the same sender (`OneEach`);
a key's list holds no sender twice (`Distinct`), so that one that is taken out is
gone from the pool; and an HTTP/1 sender that somebody has is in no list and with
nobody else (`Alone`). Without `OneEach` the key and the protocol of two
references could differ, and without `Distinct` a connection taken out could
still be there. What a step does to the lists is one of three things: they are
drawn from what they were (`Shrinks`), a sender that is known goes to a user
(`Given`), or one that nobody else has joins a list (`Pooled`). What the sweep
keeps and drops is proved by an induction over the list (`SweptOK`).
`BusyConnectionsStay` adds that a connection with a stream in use has fewer slots
than all (`BusyIsKept`), for which slots and waiters have to be counted together.

### The listener

`NothingLeftServed` (`ServedInv`) needs that a client uses the pool only while a task of the
listener, a tunnel or a relay is there to give up what it has, and that no task
of the listener is left, or made, once it has stopped. `TypesHold` (`TaskInv`)
rests on the same correspondence between a task and its client's use of the pool,
and on `Install`, which forgets that a connection is closed when nobody refers to
it any more.

The leaf cache (`LeafInv`): the order of use holds each host once and the hosts of
the map, so that the host taken out to make room is one that was in both, and the
one that is looked up again moves to the end of the order without a second place.
The record of a relay (`RelayInv`): its messages are numbered without a gap up to
the last one that was relayed, and an end of such a list is such a list; the
shortest cut that fits exists because nothing always fits (`NothingFits`), which
is all that is used of the sum of sizes. So the caps may be any naturals.

### Captured exchanges

`LocalOK` speaks of one exchange at a time: a finalizer runs only for a capture
that is queued, a capture exists only once the handler has come to dispatch, or,
for the response, has returned, and only a handler that has returned leaves a
finished flow. `Limits` counts permits and queued captures.

### Rules and settings

Two things interfere: calls of this process, which for the rules a lock keeps
apart, and other processes, which nothing does. A save without rivals is the only
one of its file, so it finds the temporary file as it left it, and what it renames
is what it saves (`OwnOK`); and unless rivals saved a file last, every save of it
that is left is such a save (`HistoryOK`). That is why the file of the rules holds
what was saved last (`RulesOK`). The compiled rules are those of the call that has
the lock (`MemoryOK`) or, when the file was saved here and no call failed, those
of the file (`InForce`). The settings agree (`SettingsOK`), because a save without
rivals tells the store and the memory of what its file still holds.

For the types: a file, and what a descriptor points at, is missing, empty, torn or
a value of its type, a call carries a list of rules or settings, what is loaded is
what a file holds or the default, and the store's limit is at least one
(`TypeInv`). That a list stays one
through `reorder` and `import` is proved by an induction over the loop
(`ReorderOK`, `MergeOK`); a rule that is looked for is found because a set of
places has a least one. Of the sizes the proofs need
that they are naturals and one is not 0, to be the default.

### The live feed

A summary on its way is in one of four places: the channel, the buffer of
`handle_socket`, the wire, the buffer of the UI; the fifth is the table. What is
known of a flow is what comes last of it, in the first of the places that
mentions it (`Pending`), or, when none does, in the table (`Spent`). So "a
summary in S comes last" is kept by every step that moves summaries along in
their order, and restored by every announcement of a revision in S and by every
resynchronisation. `Converges` needs it for what the store holds
(`CurrentArrives`), together with `Followed`: behind a cleared event comes a
summary of whatever was announced since. `InitialNotLast` needs it for every
revision but the first (`UpdatedArrives`). Both need the same of the channel
alone (`ChanCurrent`, `ChanUpdated`) while there is no connection, or one that has not
sent the recent flows. `ClearedInOrder` needs `GoneStays`: nothing that is gone is
announced again. An earlier form of it spoke of all flows that were cleared; the
proof showed that larger instances break that one (an announcement that races
with the clear), hence the instance `Twice` and the history field `gone`.

### The system proxy

What a list of commands makes of the settings is proved by induction over the
list (`AfterSteering`): it steers each value it writes into a set, if the first
command that writes the value brings it there from anywhere and the later ones
keep it there. From this follow that enable points the machine at the instance
(`EnableFits`), and that restoring a snapshot, from wherever the settings are,
brings back the effect of what was captured (`RestoreKeeps`), for each
platform. The invariant has two parts. `TypeInv` adds to `TypeOK` that a call
about to use a snapshot holds one. `HeldInv` says, while no calls overlap,
nothing fails and no kill cuts a change, what is so at each step of the one call
in progress: before it looks at the marker the settings are in force, or the
marker keeps them and the machine is pointed at an instance (`AtRest`); once it
has removed the marker it holds what was in it; while it enables, they are in
force and it holds a snapshot of them. A snapshot "keeps" the settings if it is
one of some settings with their effect (`Snap`): that, other than that restoring
it works from where the settings are now, survives a change of them. The
assumptions are that there is a network service (without one, `enable` is an error and
changes nothing), that ports and lists of exceptions are strings, that a user's
settings are ones of a platform that do not point at an instance, and that the
words of the commands are strings (`WordsAssumption`, which TLC evaluates; the
provers do not know it).

### The rule engine

What an action does to an outcome is proved type by type; what a rule and a list
of rules do, by induction over the turns of the two loops. Three facts about
them carry the theorems. A probe that reaches the end of the list without asking for
the body has made the same turns as a run that was given it, and the run leaves
the body as it was (`RequestStreams`, `ResponseStreams`), since a rule that
matches and reads or edits the body stops the probe, and one that does not match
without its body condition does not match with it. An outcome that is unmodified
agrees with its context in all that is shown (`Unchanged`). And once the loop is through, a
rule with a body condition that could still match makes the probe ask after all
(`LaterReachable`), so that the response phase sees the same request with the
body or without (`ShownAsWhole`, `RunAbout`). The invariant `IInv` says that
each recorded outcome is what the rules make of the request and the response as
they came. It assumes that a rule has the fields of a rule, its actions are ones
that there are and its delays are numbers (`RulesAssumption`), and that a
request has the fields of one (`RequestsAssumption`); that the compiled set has
these too needs that a list has an order by priority and position (`RuleSetOK`).

`OriginIsClaimed` needs to know what becomes of a list of headers in rules of any
kind and on the way out. Lemmas by induction over the list say that the first
Host of a list is that of the part it begins in (`HostAppend`), that dropping
other headers keeps it (`WithoutOK`), that setting one gives it that value
(`SetHeaderOK`), and that cookies are those of the parts (`CookiesAppend`), so
that to strip, reencode or join them loses none. `ClaimInv` says that the request
that is given to `dispatch` has the Host of the outcome, or of the URL it was
made to (`Hosted`), and that nothing is on the wire before; the theorem is then
about `BuildOutbound` and `Adapted`, for each pair of protocols of client and
upstream. It assumes that headers are lists of headers, a Cookie's value being
a list of cookies, and that a client speaks HTTP/1 or HTTP/2
(`RequestsAssumption`).

`PatchesStayLocal` follows a path into a document. What is written under a
segment is found under it (`PutGet`) and what is found under others stays
(`PutOther`). If neither of two paths leads to the other, they part at a first
segment (`Part`): up to there the document is written on the way to both, behind
it nothing of the other path is (`Rejoin`). `WrittenFound` and `SetLocal` follow
by induction over the path; remove, merge and append are a `set` of a value made
from what was there (`RemoveLocal`). The theorem
assumes that arrays and objects consist of documents (`DocumentsAssumption`), that
paths are lists of keys and indices (`PathsAssumption`), and that the operations
of a rule are ones there are (`ActionAssumption`).

Three theorems are about the engine for every list, outside any run.
`RulesRunInOrder`: the compiled rules are the enabled ones that compile, each
once, by priority and then as listed; `RuleSet` chooses an order, and the theorem
rests on the proof that a finite, ordered set has one (`OrderExists`).
`StopEndsRequest` and `StopEndsResponse`: what follows the rule that blocks, mocks
or asks for the body changes nothing (`apply_request`'s "short-circuits any
remaining rules").

The attempt found two faults of the model, both mended. With several Host
headers the model took any, `HeaderMap::get` takes the first; requests with two
are now among those of `rule_engine`. And two cases of `WithoutChild` overlapped,
which TLC does not mind and a proof does.

### Model-checked only

Liveness (`UpdatesReturn`, `Proceeds`, `CatchesUp`, `RestoresInTheEnd`,
`SlotsComeFree`, `DrainEnds`), which needs fairness and `ENABLED`. Every other
property of a passing run is stated by a theorem.

## Where code and documents disagree

Found while modelling, each shown by a run ("findings"):

- `feed_ghost`: updates buffered for the next frame survive `clearFlows` and put
  cleared flows back into the table.
- `feed_resync`: a lag that swallows the cleared event leaves the cleared rows.
- `system_proxy_drain`: the API accepts an acquire while the shutdown restores.
- `system_proxy_manual`: a manual run that stops restores another instance's
  setting.
- `exchange_original`: the original request of a rewritten, streamed exchange
  loses its body when the request ends before the response.

Met while modelling, without a run of their own:

- `settings.rs:254`: "so readers never observe a partial write". Saves of the
  settings share one temporary path and hold no lock. Two that overlap can leave
  a partly written `settings.json`, which the next start takes for the defaults,
  or one renames the other's file and the other fails; memory, file and the
  store's capacity may then disagree. `SettingsAgree` is stated for settings
  that were last saved by a call that did not overlap another. The rules are safe
  from this within one process, because of their lock, but not from another one:
  a `hamsy rules import` and a save of the API that overlap share `rules.tmp`,
  and `rules.json` can end up empty or torn, which the next start takes for no
  rules at all. `RulesSurvive` excepts such overlaps (`"mixed"`).
- `docs/RULES.md:169`: changes made through the API "(or `hamsy rules import`)
  take effect immediately on the next request". Those of `hamsy rules import` do
  not: it has "no IPC with a running `hamsy run` process"
  (`hamsy-cli/src/rules.rs:4`), which goes on with the rules it has until it is
  started again, and whose next save of the rules overwrites the import.
  `RulesSurvive` says that requests meet what the file holds only when the file
  was saved here, or before the start.
- `http.rs:723`: what is done to the claimed origin "does not change *where* the
  request" is sent. An HTTP/2 request that a rule rewrites to another `http://` host goes,
  behind an upstream proxy, to the host it claims, because the request line for
  the proxy is made from the claimed authority (`adapt_request_to_sender`). The
  model has it, and `ClaimsOrigin` excepts it (`Misrouted`).
- A Host-less HTTP/1 request is sent without one although the comment on
  `apply_outcome` leaves that to `ensure_host_header`, which runs only when a
  request goes down from HTTP/2.
- `own_listener` is asked before the rules, so a rule that rewrites to the
  proxy's own port makes it send requests to itself.
- The probe of the response phase uses the method that the rules set
  (`rule.rs:1366`), the response phase the client's (`http.rs:1276`): a condition
  on the request's body may then be tested against an empty one.
  `ResponseStreamingUnseen` is stated for the others (`SameRequest`).
- Tunnels and relays are tasks that neither the drain nor the abort of
  `server.rs` reaches; `NothingLeftServed` says so.
- `upstream.rs` drives HTTP/1 connections without `with_upgrades`: whether an
  origin's upgrade succeeds is left open (`Upgrade` or `Decline`).
- `sysproxy.rs:107`: "put things back exactly as they were". On macOS a proxy
  that was remembered but off keeps hamsy-proxy's server; on Windows an empty
  value is read back as its type's name, and a failed query is taken for an
  absent value. `Effect`, and so `OriginalKept`, leaves out the first two.
- An import with `replace: false` lists, merges and saves in separate sections: a
  rule created in between is lost. `put_settings` and the pause command can lose
  each other's change in the same way.

Known, and not contradicted by a document: two writers of one flow may announce
their summaries in the opposite order, and a client that leaves before its
response begins leaves its flow unfinished. Close to `exchange_original`: a
streamed exchange never gets an original response either, because
`ResponseFinal` copies the flow's response before there is one.

## What is not modelled

- *Data*: certificates, HAR documents, encodings, the syntax of URLs, globs and
  regular expressions, filters, rendering. Pure conversions without shared state.
- *Other processes*: of a second `hamsy run` in the same directory, its start up to
  the point where it finds its ports taken; one that has ports of its own, and its
  API, would be another writer of both files, as those commands are.
- *Within modelled components*: notices, ping and pong, flow details, settings
  and rules events of the WebSocket; throttling and replay in the pipeline; the
  lookup of a process by its socket; the parsing of ClientHello (a tunnel asks
  for any host), bypass lists, and the checks of `connect.rs` and `websocket.rs`
  for hamsy's own listeners; a relay whose flow has been evicted; invalid
  authorities; the files of the certificate authority.
- *HAR sessions of the UI*: IndexedDB and a search worker, the next candidate.
- *Never*: platform commands themselves, TLS, the trust store, update downloads,
  static assets: I/O.

## Plan

Done, in this order: `FlowStore` with its abstraction, refinement and proofs;
`LiveFeed`; `SystemProxy`, with the settings of the platforms; `CapturedExchange`
and its proofs; `UpstreamPool` and `ProxyServer` with their proofs;
`Configuration` with its proofs; `JsonPatch`, `RuleEngine`, `Forwarding` and
`RuleExchange`; the proofs of `LiveFeed`, `RuleExchange` and `SystemProxy`. All
safety properties of the passing runs are proved.

Left:

1. Replay, as another client of the pipeline.
2. The HAR sessions of the UI: saves and searches whose answers come out of order.
