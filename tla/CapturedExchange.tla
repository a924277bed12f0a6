--------------------------- MODULE CapturedExchange ---------------------------
(***************************************************************************)
(* The life of a captured exchange: handle_captured_request                *)
(* (hamsy-proxy/src/http.rs), which inserts a flow, runs the rules, sends  *)
(* the request and answers the client, and the capture of streamed bodies  *)
(* (hamsy-proxy/src/tee.rs), whose finalizers update the flow from another *)
(* task when a body ends or is dropped.                                    *)
(*                                                                         *)
(* A step of the handler ends where the code awaits; the client may leave  *)
(* there, and then the handler is dropped.  Work on bodies (body_cpu) runs *)
(* on a few workers, and what a dropped handler left running runs on.  The *)
(* flow store is what FlowStore makes of it: a map with atomic updates.    *)
(***************************************************************************)
EXTENDS Integers, FiniteSets

CONSTANTS Exchanges,  \* requests that are captured
          Workers,    \* permits of body_cpu_budget
          QueueCap,   \* permits of the capture queue
          None        \* no flow, no record

ASSUME LimitsAssumption == Workers \in Nat \ {0} /\ QueueCap \in Nat

VARIABLES
  pc,        \* where the handler stands
  buffered,  \* need_req_body: the rules read the request body
  modified,  \* outcome.modified, and resp_outcome.modified
  flow,      \* the stored flow
  capture,   \* CaptureBody of the streamed request and of the streamed response
  cpu,       \* jobs of body_cpu that hold a permit
  ended      \* history: exchanges whose client saw the end of its response

vars == <<pc, buffered, modified, flow, capture, cpu, ended>>

-----------------------------------------------------------------------------
\* A recorded body: the default payload, the bytes captured, or their size.
Bodies == {"empty", "bytes", "size"}

Flow == [state : {"requesting", "responding", "complete", "error"},
         request : Bodies, originalRequest : Bodies \union {None},
         response : Bodies \union {None}, originalResponse : Bodies \union {None}]

ASSUME NoneAssumption == None \notin Bodies \union Flow

Streams == {"request", "response"}
Jobs    == Exchanges \X ({"handler"} \union Streams)

\* req_record.body: what is known of the request's body when it is inserted.
Recorded(x) == IF buffered[x] THEN "bytes" ELSE "empty"

\* FlowStore::update: nothing happens to a flow that is gone.
UpdateFlow(x, f) == flow' = [flow EXCEPT ![x] = IF @ = None THEN None ELSE f]

\* original_request, in every way a handler ends.
OriginalRequest(x) == IF modified[x].request THEN Recorded(x) ELSE None

Completed(x, body, original) ==
  [flow[x] EXCEPT !.state = "complete", !.response = body,
                  !.originalRequest = OriginalRequest(x), !.originalResponse = original]

\* The steps that wait for body_cpu, and those at which the handler awaits
\* anything.  Without a body the rules run at once.
Computing(x) ==
  pc[x] \in {"decode", "record", "mock", "effective", "transform", "payload"}
             \union (IF buffered[x] THEN {"rules"} ELSE {})
Awaiting(x) == Computing(x) \/ pc[x] \in {"collect", "dispatch", "read", "reply"}

Go(x, step) == pc' = [pc EXCEPT ![x] = step]

\* The request's CaptureBody is made after the effective request is recorded,
\* when dispatch is next.  Mutant: before.
CapturesEarly(x, step) == ~buffered[x] /\ step \in {"effective", "dispatch"}
Captures(x, step)      == ~buffered[x] /\ step = "dispatch"

GoOn(x, step) ==
  /\ Go(x, step)
  /\ capture' = IF Captures(x, step) /\ capture[x].request = "none"
                THEN [capture EXCEPT ![x].request = "open"] ELSE capture

-----------------------------------------------------------------------------
Init ==
  /\ pc = [x \in Exchanges |-> "new"]
  /\ buffered = [x \in Exchanges |-> FALSE]
  /\ modified = [x \in Exchanges |-> [request |-> FALSE, response |-> FALSE]]
  /\ flow = [x \in Exchanges |-> None]
  /\ capture = [x \in Exchanges |-> [s \in Streams |-> "none"]]
  /\ cpu = {}
  /\ ended = {}

\* ctx.flows.insert
Insert(x) ==
  /\ flow' = [flow EXCEPT ![x] = [state |-> "requesting",
                                  request |-> IF buffered'[x] THEN "bytes" ELSE "empty",
                                  originalRequest |-> None,
                                  response |-> None, originalResponse |-> None]]
  /\ Go(x, "rules")

\* A request arrives: no rule needs its body, and the flow is inserted ...
AcceptStreamed(x) ==
  /\ pc[x] = "new"
  /\ UNCHANGED buffered
  /\ Insert(x)
  /\ UNCHANGED <<modified, capture, cpu, ended>>

\* ... or the body is collected first.
AcceptBuffered(x) ==
  /\ pc[x] = "new"
  /\ buffered' = [buffered EXCEPT ![x] = TRUE]
  /\ Go(x, "collect")
  /\ UNCHANGED <<modified, flow, capture, cpu, ended>>

\* collect_for_rules: the client sent its body, or too much of it (413), or
\* its connection broke.
CollectRequest(x) ==
  /\ pc[x] = "collect"
  /\ \/ Go(x, "decode") /\ UNCHANGED ended
     \/ Go(x, "done") /\ ended' = ended \union {x}
  /\ UNCHANGED <<buffered, modified, flow, capture, cpu>>

-----------------------------------------------------------------------------
\* What the handler does with the result of a job, or of the rules.

\* The handler returns a response that is not streamed.
Return(x) ==
  /\ Go(x, "done")
  /\ ended' = ended \union {x}

\* finalize_error
FinalizeError(x) ==
  /\ Return(x)
  /\ UpdateFlow(x, [flow[x] EXCEPT !.state = "error", !.originalRequest = OriginalRequest(x)])
  /\ UNCHANGED <<buffered, modified, capture>>

\* decode_for_rules; it may fail (502), and nothing is captured.
Decoded(x) ==
  /\ pc[x] = "decode"
  /\ \/ Go(x, "record") /\ UNCHANGED ended
     \/ Return(x)
  /\ UNCHANGED <<buffered, modified, flow, capture>>

Inserted(x) ==
  /\ pc[x] = "record"
  /\ UNCHANGED buffered
  /\ Insert(x)
  /\ UNCHANGED <<modified, capture, ended>>

\* A rule blocks the request: 403, recorded as the response.
Blocked(x) ==
  /\ UpdateFlow(x, [flow[x] EXCEPT !.state = "complete", !.response = "bytes",
                                   !.originalRequest = Recorded(x)])
  /\ Return(x)
  /\ UNCHANGED <<modified, capture>>

\* Rules mock the response, change the request, or leave it alone.
Ruled(x) ==
  \E step \in {"mock", "effective", "dispatch"} :
    /\ modified' = [modified EXCEPT ![x].request = step # "dispatch"]
    /\ GoOn(x, step)
    /\ UNCHANGED <<flow, ended>>

Rules(x) == pc[x] = "rules" /\ (Blocked(x) \/ Ruled(x)) /\ UNCHANGED buffered

\* respond_mocked
Mocked(x) ==
  /\ pc[x] = "mock"
  /\ UpdateFlow(x, Completed(x, "bytes", flow[x].originalResponse))
  /\ Return(x)
  /\ UNCHANGED <<buffered, modified, capture>>

\* The request as it will be sent replaces the recorded one.
EffectiveRecorded(x) ==
  /\ pc[x] = "effective"
  /\ UpdateFlow(x, [flow[x] EXCEPT !.request = Recorded(x)])
  /\ GoOn(x, "dispatch")
  /\ UNCHANGED <<buffered, modified, ended>>

\* The response is decoded and given to the rules; decoding may fail.
Transformed(x) ==
  /\ pc[x] = "transform"
  /\ \/ /\ \E m \in BOOLEAN : modified' = [modified EXCEPT ![x].response = m]
        /\ Go(x, "payload")
        /\ UNCHANGED <<buffered, flow, capture, ended>>
     \/ FinalizeError(x)

BufferedCompleted(x) ==
  /\ pc[x] = "payload"
  /\ UpdateFlow(x, Completed(x, "bytes", IF modified[x].response THEN "bytes" ELSE None))
  /\ Return(x)
  /\ UNCHANGED <<buffered, modified, capture>>

\* What follows the job of a handler.
Continue(x) ==
  \/ Decoded(x) \/ Inserted(x) \/ Rules(x) \/ Mocked(x) \/ EffectiveRecorded(x)
  \/ Transformed(x) \/ BufferedCompleted(x)

RulesAtOnce(x) == ~buffered[x] /\ Rules(x) /\ UNCHANGED cpu

-----------------------------------------------------------------------------
\* dispatch returns a response: recorded as Responding, then read for the
\* rules, or streamed once its delay has passed.
Respond(x) ==
  /\ pc[x] = "dispatch"
  /\ UpdateFlow(x, [flow[x] EXCEPT !.state = "responding"])
  /\ \E step \in {"read", "reply"} : Go(x, step)
  /\ UNCHANGED <<buffered, modified, capture, cpu, ended>>

\* The request cannot be built or sent.
DispatchFails(x) == pc[x] = "dispatch" /\ FinalizeError(x) /\ UNCHANGED cpu

\* collect_for_rules of the response
ReadResponse(x) ==
  /\ pc[x] = "read"
  /\ Go(x, "transform")
  /\ UNCHANGED <<buffered, modified, flow, capture, cpu, ended>>

ReadFails(x) == pc[x] = "read" /\ FinalizeError(x) /\ UNCHANGED cpu

\* The handler returns the streamed response, wrapped in a CaptureBody.
Reply(x) ==
  /\ pc[x] = "reply"
  /\ \E m \in BOOLEAN : modified' = [modified EXCEPT ![x].response = m]
  /\ capture' = [capture EXCEPT ![x].response = "open"]
  /\ Go(x, "done")
  /\ UNCHANGED <<buffered, flow, cpu, ended>>

\* The client leaves: hyper drops the handler wherever it awaits.
ClientLeaves(x) ==
  /\ Awaiting(x)
  /\ Go(x, "dropped")
  /\ UNCHANGED <<buffered, modified, flow, capture, cpu, ended>>

\* The flow is evicted or cleared.
Forget(x) ==
  /\ flow[x] # None
  /\ flow' = [flow EXCEPT ![x] = None]
  /\ UNCHANGED <<pc, buffered, modified, capture, cpu, ended>>

-----------------------------------------------------------------------------
\* The finalizers.  A request's: backfill the body, and the snapshot's if there
\* is one.  Mutant: the request is sent, the flow is responding now.
RequestSent(x, body) ==
  [flow[x] EXCEPT !.request = body, !.state = "responding"]
RequestFinal(x, body) ==
  [flow[x] EXCEPT !.request = body,
                  !.originalRequest = IF modified[x].request /\ @ # None THEN body ELSE @]

\* A response's: complete the flow.
ResponseFinal(x, body) ==
  Completed(x, body,
            IF modified[x].request \/ modified[x].response
            THEN flow[x].response ELSE flow[x].originalResponse)

Final(x, s, body) == IF s = "request" THEN RequestFinal(x, body) ELSE ResponseFinal(x, body)

\* The capture queue has a permit.  Mutant: one more.
QueueLax == Cardinality({j \in Exchanges \X Streams : capture[j[1]][j[2]] = "queued"}) <= QueueCap
QueueFree == Cardinality({j \in Exchanges \X Streams : capture[j[1]][j[2]] = "queued"}) < QueueCap

\* Mutant: when the queue is full, there is no finalization.
StartOrSkip(x, s) ==
  /\ capture[x][s] = "open"
  /\ capture' = [capture EXCEPT ![x][s] = IF QueueFree THEN "queued" ELSE "done"]
  /\ UNCHANGED <<pc, buffered, modified, flow, cpu, ended>>

\* CaptureBody::start, when the body is polled to its end or dropped (the peer
\* broke off, the handler was dropped, or hyper has all the bytes that the
\* content length announced): a job is queued, or the body's size is recorded
\* at once.
Start(x, s) ==
  /\ capture[x][s] = "open"
  /\ \/ /\ QueueFree
        /\ capture' = [capture EXCEPT ![x][s] = "queued"]
        /\ UNCHANGED flow
     \/ /\ ~QueueFree
        /\ capture' = [capture EXCEPT ![x][s] = "done"]
        /\ UpdateFlow(x, Final(x, s, "size"))
  /\ UNCHANGED <<pc, buffered, modified, cpu, ended>>

\* poll_frame returns the end of a response once the job is done.  Mutant:
\* without waiting for it.
EndSeenEarly(x) ==
  /\ capture[x].response \in {"queued", "done"}
  /\ ended' = ended \union {x}
  /\ UNCHANGED <<pc, buffered, modified, flow, capture, cpu>>

EndSeen(x) ==
  /\ capture[x].response = "done"
  /\ ended' = ended \union {x}
  /\ UNCHANGED <<pc, buffered, modified, flow, capture, cpu>>

-----------------------------------------------------------------------------
\* body_cpu: a job waits for a permit ...
Waits(j) == IF j[2] = "handler" THEN Computing(j[1]) ELSE capture[j[1]][j[2]] = "queued"

StartJob(j) ==
  /\ j \notin cpu /\ Waits(j)
  /\ Cardinality(cpu) < Workers
  /\ cpu' = cpu \union {j}
  /\ UNCHANGED <<pc, buffered, modified, flow, capture, ended>>

\* ... and gives it back when it is done: its handler goes on, ...
EndHandlerJob(x) ==
  /\ <<x, "handler">> \in cpu
  /\ cpu' = cpu \ {<<x, "handler">>}
  /\ Continue(x)

\* ... unless it has been dropped.
EndOrphan(x) ==
  /\ <<x, "handler">> \in cpu
  /\ pc[x] = "dropped"
  /\ cpu' = cpu \ {<<x, "handler">>}
  /\ UNCHANGED <<pc, buffered, modified, flow, capture, ended>>

\* A finalizer runs as a job of its own.
EndCaptureJob(x, s) ==
  /\ <<x, s>> \in cpu
  /\ cpu' = cpu \ {<<x, s>>}
  /\ capture' = [capture EXCEPT ![x][s] = "done"]
  /\ UpdateFlow(x, Final(x, s, "bytes"))
  /\ UNCHANGED <<pc, buffered, modified, ended>>

EndJob(x) ==
  \/ EndHandlerJob(x) \/ EndOrphan(x) \/ \E s \in Streams : EndCaptureJob(x, s)

-----------------------------------------------------------------------------
Peers(x) ==
  \/ AcceptStreamed(x) \/ AcceptBuffered(x) \/ CollectRequest(x)
  \/ Respond(x) \/ DispatchFails(x) \/ ReadResponse(x) \/ ReadFails(x)
  \/ ClientLeaves(x) \/ EndSeen(x)
  \/ \E s \in Streams : Start(x, s)

Next ==
  \/ \E x \in Exchanges :
       Peers(x) \/ RulesAtOnce(x) \/ Reply(x) \/ EndJob(x) \/ Forget(x)
  \/ \E j \in Jobs : StartJob(j)

Spec == Init /\ [][Next]_vars

\* The proxy's own steps are taken: a task that can run is polled, a permit
\* that is free is given to a job that waits, and a job ends.  Nothing obliges
\* a client or an upstream to send, to read or to leave.
FairSpec ==
  /\ Spec
  /\ WF_vars(\E j \in Jobs : StartJob(j))
  /\ \A x \in Exchanges : WF_vars(RulesAtOnce(x) \/ Reply(x)) /\ WF_vars(EndJob(x))

-----------------------------------------------------------------------------
\* Every variable stays in its range; at most Workers jobs run and at most
\* QueueCap finalizers are queued.
TypeOK ==
  /\ pc \in [Exchanges -> {"new", "collect", "decode", "record", "rules", "mock", "effective",
                           "dispatch", "read", "transform", "payload", "reply", "done",
                           "dropped"}]
  /\ buffered \in [Exchanges -> BOOLEAN]
  /\ modified \in [Exchanges -> [request : BOOLEAN, response : BOOLEAN]]
  /\ flow \in [Exchanges -> Flow \union {None}]
  /\ capture \in [Exchanges -> [Streams -> {"none", "open", "queued", "done"}]]
  /\ cpu \subseteq Jobs /\ Cardinality(cpu) <= Workers
  /\ Cardinality({j \in Exchanges \X Streams : capture[j[1]][j[2]] = "queued"}) <= QueueCap
  /\ ended \subseteq Exchanges

Finished(f) == f.state \in {"complete", "error"}

\* Once a flow is complete or failed it stays so, with the response it has: a
\* finalizer of the request that comes late fills in bodies and nothing else,
\* and no flow is finished twice.
FinishedIsFinal ==
  [][\A x \in Exchanges :
       flow[x] # None /\ flow'[x] # None /\ Finished(flow[x])
         => /\ flow'[x].state = flow[x].state
            /\ flow'[x].response = flow[x].response
            /\ flow'[x].originalResponse = flow[x].originalResponse
            /\ flow'[x].originalRequest = None <=> flow[x].originalRequest = None]_vars

\* The request's body, once captured, is in the flow: the record of the
\* effective request "can never race the streamed-body backfill" (http.rs).
BackfillKept ==
  \A x \in Exchanges :
    capture[x].request = "done" /\ flow[x] # None => flow[x].request # "empty"

\* "Normal EOF waits asynchronously for its capture job" (tee.rs): who reads a
\* response to its end finds the exchange finished in the store.
EndAfterRecord ==
  \A x \in ended : flow[x] = None \/ Finished(flow[x])

\* The proxy itself never holds a flow up: whatever the workers and the queue
\* are busy with, and whoever left, every exchange again and again has no
\* capture pending and either waits for a peer or has finished its flow; only
\* a client that leaves before its response begins leaves an unfinished one.
WaitsForPeer(x) ==
  pc[x] \in {"new", "collect", "dispatch", "read"} \/ capture[x].response = "open"
Settled(x) == pc[x] = "dropped" \/ flow[x] = None \/ Finished(flow[x])

Proceeds ==
  \A x \in Exchanges :
    []<>(/\ \A s \in Streams : capture[x][s] # "queued"
         /\ WaitsForPeer(x) \/ Settled(x))

\* "backfill the flow's recorded request body (and its original-request
\* snapshot ...)" (http.rs): when both bodies of an exchange are captured, the
\* original request has the body that was sent.  It has none when the request
\* ends before the response does, as it usually does.
OriginalBodyKept ==
  \A x \in Exchanges :
    /\ capture[x].request = "done" /\ capture[x].response = "done"
    /\ flow[x] # None /\ modified[x].request
    => flow[x].originalRequest = flow[x].request
=============================================================================
