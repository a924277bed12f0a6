------------------------ MODULE CapturedExchangeProofs ------------------------
(***************************************************************************)
(* The safety properties of CapturedExchange for any number of exchanges,  *)
(* workers and places in the queue.                                        *)
(*                                                                         *)
(* The argument is about one exchange at a time (LocalOK): a finalizer     *)
(* runs only for a capture that is queued, captures exist only after the   *)
(* handler has come to dispatch, or for a response has returned, and only  *)
(* a handler that has returned leaves a finished flow.                     *)
(***************************************************************************)
EXTENDS CapturedExchange, FiniteSetTheorems, TLAPS

\* Where the handler is before it inserts the flow, and once its request's
\* capture may exist.
Before == {"new", "collect", "decode", "record"}
Sent   == {"dispatch", "read", "transform", "payload", "reply", "done", "dropped"}

Steps == Before \union Sent \union {"rules", "mock", "effective"}

Types ==
  /\ pc \in [Exchanges -> Steps]
  /\ buffered \in [Exchanges -> BOOLEAN]
  /\ modified \in [Exchanges -> [request : BOOLEAN, response : BOOLEAN]]
  /\ flow \in [Exchanges -> Flow \union {None}]
  /\ capture \in [Exchanges -> [Streams -> {"none", "open", "queued", "done"}]]
  /\ cpu \subseteq Jobs
  /\ ended \subseteq Exchanges

Unfinished(x) == flow[x] # None /\ ~Finished(flow[x])

LocalOK(x) ==
  /\ pc[x] \in Before => flow[x] = None
  /\ capture[x]["request"] # "none" => ~buffered[x] /\ pc[x] \in Sent
  /\ capture[x]["response"] # "none" => pc[x] = "done"
  /\ x \in ended => pc[x] = "done" /\ ~Unfinished(x)
  /\ capture[x]["response"] = "done" => ~Unfinished(x)
  /\ flow[x] # None /\ Finished(flow[x]) =>
       pc[x] = "done" /\ capture[x]["response"] \in {"none", "done"}
  /\ capture[x]["request"] = "done" /\ flow[x] # None => flow[x].request # "empty"
  /\ \A s \in Streams : <<x, s>> \in cpu => capture[x][s] = "queued"

Queued == {j \in Exchanges \X Streams : capture[j[1]][j[2]] = "queued"}

Limits ==
  /\ IsFiniteSet(cpu) /\ Cardinality(cpu) <= Workers
  /\ IsFiniteSet(Queued) /\ Cardinality(Queued) <= QueueCap

\* The inductive invariant.
IInv == Types /\ Limits /\ \A x \in Exchanges : LocalOK(x)

-----------------------------------------------------------------------------
\* An exchange that a step leaves alone stays as it was.
LEMMA Untouched ==
  ASSUME NEW y \in Exchanges, LocalOK(y),
         UNCHANGED <<pc[y], buffered[y], flow[y], capture[y]>>,
         y \in ended' <=> y \in ended,
         \A s \in Streams : <<y, s>> \in cpu' => <<y, s>> \in cpu
  PROVE  LocalOK(y)'
BY DEF LocalOK, Unfinished, Finished

LEMMA InitOK == Init => IInv
<1> SUFFICES ASSUME Init PROVE IInv
  OBVIOUS
<1>1. Types
  BY DEF Init, Types, Streams, Steps, Before
<1>2. Queued = {}
  BY DEF Init, Queued, Streams
<1>3. Limits
  BY <1>2, FS_EmptySet, LimitsAssumption DEF Init, Limits
<1>4. ASSUME NEW x \in Exchanges PROVE LocalOK(x)
  BY DEF Init, LocalOK, Streams, Before
<1> QED BY <1>1, <1>3, <1>4 DEF IInv

\* What the invariant implies.
LEMMA TypesOK == IInv => TypeOK
BY DEF IInv, Types, Limits, Queued, TypeOK, Steps, Before, Sent

LEMMA BackfillOK == IInv => BackfillKept
BY DEF IInv, LocalOK, BackfillKept

LEMMA EndOK == IInv => EndAfterRecord
BY DEF IInv, Types, LocalOK, Unfinished, EndAfterRecord

-----------------------------------------------------------------------------
\* The updates of a stored flow, each of which gives a flow.
LEMMA Updates ==
  ASSUME Types, NEW x \in Exchanges, flow[x] # None
  PROVE  /\ flow[x] \in Flow
         /\ OriginalRequest(x) \in Bodies \union {None}
         /\ Recorded(x) \in Bodies \ {"size"}
<1>1. flow[x] \in Flow /\ buffered[x] \in BOOLEAN
  BY DEF Types
<1> QED BY <1>1 DEF OriginalRequest, Recorded, Bodies

\* An update that gives a flow.
LEMMA Updated ==
  ASSUME Types, NEW x \in Exchanges, NEW f, UpdateFlow(x, f), flow[x] # None => f \in Flow
  PROVE  /\ flow' \in [Exchanges -> Flow \union {None}]
         /\ flow'[x] = IF flow[x] = None THEN None ELSE f
         /\ \A y \in Exchanges \ {x} : flow'[y] = flow[y]
BY DEF Types, UpdateFlow

-----------------------------------------------------------------------------
\* A step of one exchange, and of none of the others.
LEMMA OneSteps ==
  ASSUME IInv, NEW x \in Exchanges, Types', Limits', LocalOK(x)',
         \A y \in Exchanges \ {x} :
           /\ UNCHANGED <<pc[y], buffered[y], flow[y], capture[y]>>
           /\ y \in ended' <=> y \in ended
           /\ \A s \in Streams : <<y, s>> \in cpu' => <<y, s>> \in cpu
  PROVE  IInv'
<1>1. ASSUME NEW y \in Exchanges \ {x} PROVE LocalOK(y)'
  BY <1>1, Untouched DEF IInv
<1> QED BY <1>1 DEF IInv

\* A finite set within a limit stays within it when it loses an element ...
LEMMA Shrinks ==
  ASSUME NEW S, NEW e, IsFiniteSet(S), NEW n \in Nat, Cardinality(S) <= n
  PROVE  IsFiniteSet(S \ {e}) /\ Cardinality(S \ {e}) <= n
<1>1. /\ IsFiniteSet(S \ {e})
      /\ Cardinality(S \ {e}) = IF e \in S THEN Cardinality(S) - 1 ELSE Cardinality(S)
  BY FS_RemoveElement
<1>2. Cardinality(S) \in Nat
  BY FS_CardinalityType
<1> QED BY <1>1, <1>2

\* ... and, when there is room, when it gains one.
LEMMA Grows ==
  ASSUME NEW S, NEW e, IsFiniteSet(S), NEW n \in Nat, Cardinality(S) < n
  PROVE  IsFiniteSet(S \union {e}) /\ Cardinality(S \union {e}) <= n
<1>1. /\ IsFiniteSet(S \union {e})
      /\ Cardinality(S \union {e}) = IF e \in S THEN Cardinality(S) ELSE Cardinality(S) + 1
  BY FS_AddElement
<1>2. Cardinality(S) \in Nat
  BY FS_CardinalityType
<1> QED BY <1>1, <1>2

\* A step of the handler of x may give back the permit of its job, and no other.
HandlerCpu(x) == cpu' \in {cpu, cpu \ {<<x, "handler">>}}

\* Such a step, and a queue that stays as it is, keep the limits.
LEMMA SameLimits ==
  ASSUME IInv, NEW x \in Exchanges, HandlerCpu(x), Queued' = Queued
  PROVE  /\ Limits'
         /\ cpu' \subseteq Jobs
         /\ \A y \in Exchanges, s \in Streams : <<y, s>> \in cpu' => <<y, s>> \in cpu
<1>1. /\ IsFiniteSet(cpu) /\ Cardinality(cpu) <= Workers
      /\ IsFiniteSet(cpu \ {<<x, "handler">>})
      /\ Cardinality(cpu \ {<<x, "handler">>}) <= Workers
  BY Shrinks, LimitsAssumption DEF IInv, Limits
<1>3. cpu' \subseteq cpu /\ cpu \subseteq Jobs
  BY DEF HandlerCpu, IInv, Types
<1>4. IsFiniteSet(cpu') /\ Cardinality(cpu') <= Workers
  BY <1>1 DEF HandlerCpu
<1>5. IsFiniteSet(Queued') /\ Cardinality(Queued') <= QueueCap
  BY DEF IInv, Limits
<1> QED BY <1>3, <1>4, <1>5 DEF Limits

\* An update that puts back what is stored is none.
LEMMA NoUpdate ==
  ASSUME Types, NEW x \in Exchanges, UNCHANGED flow
  PROVE  UpdateFlow(x, flow[x])
BY DEF Types, UpdateFlow

-----------------------------------------------------------------------------
\* The kinds of steps a handler takes.  It inserts its flow ...
LEMMA InsertOK ==
  ASSUME IInv, NEW x \in Exchanges, pc[x] \in {"new", "record"}, Insert(x), HandlerCpu(x),
         UNCHANGED <<buffered, modified, capture, ended>>
  PROVE  IInv'
<1>1. flow[x] = None
  BY DEF IInv, LocalOK, Before
<1>2. flow'[x] \in Flow /\ flow'[x].state = "requesting"
  BY DEF Insert, IInv, Types, Flow, Bodies
<1>3. Queued' = Queued
  BY DEF Queued
<1>4. Types'
  BY <1>2, <1>3, SameLimits DEF Insert, Go, IInv, Types, Steps
<1>5. LocalOK(x)'
  <2>1. pc'[x] = "rules" /\ UNCHANGED <<buffered, capture, ended>>
    BY DEF Insert, Go, IInv, Types
  <2>2. /\ LocalOK(x) /\ capture[x]["request"] = "none" /\ capture[x]["response"] = "none"
        /\ x \notin ended
    BY DEF IInv, LocalOK, Sent
  <2>3. \A s \in Streams : <<x, s>> \in cpu' => <<x, s>> \in cpu
    BY <1>3, SameLimits
  <2> QED BY <1>2, <2>1, <2>2, <2>3 DEF LocalOK, Before, Sent, Finished, Unfinished
<1>6. \A y \in Exchanges \ {x} :
        /\ UNCHANGED <<pc[y], buffered[y], flow[y], capture[y]>>
        /\ y \in ended' <=> y \in ended
        /\ \A s \in Streams : <<y, s>> \in cpu' => <<y, s>> \in cpu
  BY <1>3, SameLimits DEF Insert, Go, IInv, Types
<1> QED BY <1>3, <1>4, <1>5, <1>6, SameLimits, OneSteps

\* ... moves on before there is one ...
LEMMA EarlyOK ==
  ASSUME IInv, NEW x \in Exchanges, pc[x] \in Before, NEW step \in Before, Go(x, step),
         buffered' \in [Exchanges -> BOOLEAN],
         \A y \in Exchanges \ {x} : buffered'[y] = buffered[y],
         UNCHANGED <<modified, flow, capture, ended>>, HandlerCpu(x)
  PROVE  IInv'
<1>1. Queued' = Queued
  BY DEF Queued
<1>2. Types'
  BY <1>1, SameLimits DEF Go, IInv, Types, Steps
<1>3. LocalOK(x)'
  <2>1. pc'[x] = step /\ UNCHANGED <<flow, capture, ended>>
    BY DEF Go, IInv, Types
  <2>2. /\ LocalOK(x) /\ capture[x]["request"] = "none" /\ capture[x]["response"] = "none"
        /\ x \notin ended /\ flow[x] = None
    BY DEF IInv, LocalOK, Sent, Before
  <2>3. \A s \in Streams : <<x, s>> \in cpu' => <<x, s>> \in cpu
    BY <1>1, SameLimits
  <2> QED BY <2>1, <2>2, <2>3 DEF LocalOK, Finished, Unfinished
<1>4. \A y \in Exchanges \ {x} :
        /\ UNCHANGED <<pc[y], buffered[y], flow[y], capture[y]>>
        /\ y \in ended' <=> y \in ended
        /\ \A s \in Streams : <<y, s>> \in cpu' => <<y, s>> \in cpu
  BY <1>1, SameLimits DEF Go, IInv, Types
<1> QED BY <1>1, <1>2, <1>3, <1>4, SameLimits, OneSteps

\* ... goes on, and may make its request's capture ...
LEMMA MoveOK ==
  ASSUME IInv, NEW x \in Exchanges, pc[x] # "done",
         NEW step \in Steps \ (Before \union {"done"}),
         pc[x] \in Sent => step \in Sent,
         Go(x, step), NEW f, UpdateFlow(x, f),
         flow[x] # None => f \in Flow /\ ~Finished(f),
         flow[x] # None /\ pc[x] \in Sent => f.request = flow[x].request,
         \/ UNCHANGED capture
         \/ /\ step = "dispatch" /\ ~buffered[x] /\ capture[x]["request"] = "none"
            /\ capture' = [capture EXCEPT ![x]["request"] = "open"],
         modified' \in [Exchanges -> [request : BOOLEAN, response : BOOLEAN]],
         UNCHANGED <<buffered, ended>>, HandlerCpu(x)
  PROVE  IInv'
<1>0. Types
  BY DEF IInv
<1>1. /\ capture' \in [Exchanges -> [Streams -> {"none", "open", "queued", "done"}]]
      /\ \A y \in Exchanges \ {x} : capture'[y] = capture[y]
      /\ capture'[x]["response"] = capture[x]["response"]
      /\ \/ capture'[x]["request"] = capture[x]["request"]
         \/ /\ step = "dispatch" /\ ~buffered[x] /\ capture[x]["request"] = "none"
            /\ capture'[x]["request"] = "open"
  BY <1>0 DEF Types, Streams
<1>2. Queued' = Queued
  BY <1>1 DEF Queued, Streams
<1>3. /\ flow' \in [Exchanges -> Flow \union {None}]
      /\ flow'[x] = IF flow[x] = None THEN None ELSE f
      /\ \A y \in Exchanges \ {x} : flow'[y] = flow[y]
  BY <1>0, Updated
<1>4. pc' \in [Exchanges -> Steps] /\ pc'[x] = step /\ \A y \in Exchanges \ {x} : pc'[y] = pc[y]
  BY <1>0 DEF Types, Go
<1>5. Types'
  BY <1>0, <1>1, <1>2, <1>3, <1>4, SameLimits DEF Types
<1>6. LocalOK(x)'
  <2>1. /\ LocalOK(x) /\ capture[x]["response"] = "none" /\ x \notin ended
        /\ flow[x] # None => ~Finished(flow[x])
    BY DEF IInv, LocalOK
  <2>2. \A s \in Streams : <<x, s>> \in cpu' => capture'[x][s] = "queued"
    BY <1>1, <1>2, <2>1, SameLimits DEF LocalOK, Streams
  <2>3. capture'[x]["request"] # "none" => ~buffered'[x] /\ pc'[x] \in Sent
    BY <1>1, <1>4, <2>1 DEF LocalOK, Sent
  <2>4. capture'[x]["request"] = "done" /\ flow'[x] # None => flow'[x].request # "empty"
    BY <1>1, <1>3, <2>1 DEF LocalOK
  <2>5. flow'[x] # None => ~Finished(flow'[x])
    BY <1>3
  <2>6. pc'[x] \notin Before /\ capture'[x]["response"] = "none" /\ x \notin ended'
    BY <1>1, <1>4, <2>1
  <2> QED BY <2>2, <2>3, <2>4, <2>5, <2>6 DEF LocalOK, Finished
<1>7. \A y \in Exchanges \ {x} :
        /\ UNCHANGED <<pc[y], buffered[y], flow[y], capture[y]>>
        /\ y \in ended' <=> y \in ended
        /\ \A s \in Streams : <<y, s>> \in cpu' => <<y, s>> \in cpu
  BY <1>1, <1>2, <1>3, <1>4, SameLimits
<1> QED BY <1>2, <1>5, <1>6, <1>7, SameLimits, OneSteps

\* ... and returns an answer that is not streamed, with its flow finished.
LEMMA ReturnOK ==
  ASSUME IInv, NEW x \in Exchanges, pc[x] # "done", Return(x),
         NEW f, UpdateFlow(x, f),
         flow[x] # None => f \in Flow /\ Finished(f) /\ f.request = flow[x].request,
         pc[x] \in Sent \/ capture[x]["request"] = "none",
         UNCHANGED <<buffered, modified, capture>>, HandlerCpu(x)
  PROVE  IInv'
<1>0. Types
  BY DEF IInv
<1>1. Queued' = Queued
  BY DEF Queued
<1>2. /\ flow' \in [Exchanges -> Flow \union {None}]
      /\ flow'[x] = IF flow[x] = None THEN None ELSE f
      /\ \A y \in Exchanges \ {x} : flow'[y] = flow[y]
  BY <1>0, Updated
<1>3. /\ pc' \in [Exchanges -> Steps] /\ pc'[x] = "done"
      /\ \A y \in Exchanges \ {x} : pc'[y] = pc[y]
      /\ ended' = ended \union {x}
  BY <1>0 DEF Types, Return, Go, Steps, Sent
<1>4. Types'
  BY <1>0, <1>1, <1>2, <1>3, SameLimits DEF Types
<1>5. LocalOK(x)'
  <2>1. LocalOK(x) /\ capture[x]["response"] = "none"
    BY DEF IInv, LocalOK
  <2>2. \A s \in Streams : <<x, s>> \in cpu' => capture'[x][s] = "queued"
    BY <1>1, <2>1, SameLimits DEF LocalOK
  <2>3. flow'[x] # None => Finished(flow'[x]) /\ flow'[x].request = flow[x].request
    BY <1>2
  <2>4. capture'[x] = capture[x] /\ buffered'[x] = buffered[x]
    OBVIOUS
  <2>5. flow'[x] # None => flow[x] # None
    BY <1>2
  <2>6. capture'[x]["request"] = "done" /\ flow'[x] # None => flow'[x].request # "empty"
    BY <2>1, <2>3, <2>4, <2>5 DEF LocalOK
  <2> QED BY <1>3, <2>1, <2>2, <2>3, <2>4, <2>6 DEF LocalOK, Before, Sent, Unfinished
<1>6. \A y \in Exchanges \ {x} :
        /\ UNCHANGED <<pc[y], buffered[y], flow[y], capture[y]>>
        /\ y \in ended' <=> y \in ended
        /\ \A s \in Streams : <<y, s>> \in cpu' => <<y, s>> \in cpu
  BY <1>1, <1>2, <1>3, SameLimits
<1> QED BY <1>1, <1>4, <1>5, <1>6, SameLimits, OneSteps

-----------------------------------------------------------------------------
\* The steps before the flow is there.
LEMMA AcceptStreamedOK ==
  ASSUME IInv, NEW x \in Exchanges, AcceptStreamed(x)
  PROVE  IInv'
BY InsertOK DEF AcceptStreamed, HandlerCpu

LEMMA AcceptBufferedOK ==
  ASSUME IInv, NEW x \in Exchanges, AcceptBuffered(x)
  PROVE  IInv'
<1>1. /\ buffered' \in [Exchanges -> BOOLEAN]
      /\ \A y \in Exchanges \ {x} : buffered'[y] = buffered[y]
  BY DEF AcceptBuffered, IInv, Types
<1>2. pc[x] \in Before /\ "collect" \in Before
  BY DEF AcceptBuffered, Before
<1> QED BY <1>1, <1>2, EarlyOK DEF AcceptBuffered, HandlerCpu

\* A handler may return without ever having a flow.
LEMMA NoFlowReturnOK ==
  ASSUME IInv, NEW x \in Exchanges, pc[x] \in Before, Return(x),
         UNCHANGED <<buffered, modified, flow, capture>>, HandlerCpu(x)
  PROVE  IInv'
<1>1. flow[x] = None /\ capture[x]["request"] = "none" /\ pc[x] # "done"
  BY DEF IInv, LocalOK, Before, Sent
<1>2. UpdateFlow(x, flow[x])
  BY NoUpdate DEF IInv
<1> QED BY <1>1, <1>2, ReturnOK

LEMMA CollectRequestOK ==
  ASSUME IInv, NEW x \in Exchanges, CollectRequest(x)
  PROVE  IInv'
<1>1. pc[x] \in Before /\ "decode" \in Before
  BY DEF CollectRequest, Before
<1>2. CASE Go(x, "decode") /\ UNCHANGED ended
  <2>1. buffered' \in [Exchanges -> BOOLEAN] /\ UNCHANGED buffered
    BY DEF CollectRequest, IInv, Types
  <2> QED BY <1>1, <1>2, <2>1, EarlyOK DEF CollectRequest, HandlerCpu
<1>3. CASE Go(x, "done") /\ ended' = ended \union {x}
  BY <1>1, <1>3, NoFlowReturnOK DEF CollectRequest, Return, HandlerCpu
<1> QED BY <1>2, <1>3 DEF CollectRequest

-----------------------------------------------------------------------------
\* What follows a job of the handler, or the rules when there is none.
LEMMA DecodedOK ==
  ASSUME IInv, NEW x \in Exchanges, Decoded(x), HandlerCpu(x)
  PROVE  IInv'
<1>1. pc[x] \in Before /\ "record" \in Before
  BY DEF Decoded, Before
<1>2. CASE Go(x, "record") /\ UNCHANGED ended
  <2>1. buffered' \in [Exchanges -> BOOLEAN] /\ UNCHANGED buffered
    BY DEF Decoded, IInv, Types
  <2> QED BY <1>1, <1>2, <2>1, EarlyOK DEF Decoded
<1>3. CASE Return(x)
  BY <1>1, <1>3, NoFlowReturnOK DEF Decoded
<1> QED BY <1>2, <1>3 DEF Decoded

\* finalize_error
LEMMA FinalizeErrorOK ==
  ASSUME IInv, NEW x \in Exchanges, pc[x] \in Sent \ {"done"}, FinalizeError(x), HandlerCpu(x)
  PROVE  IInv'
<1> DEFINE f == [flow[x] EXCEPT !.state = "error", !.originalRequest = OriginalRequest(x)]
<1>1. flow[x] # None => f \in Flow /\ Finished(f) /\ f.request = flow[x].request
  BY Updates DEF IInv, Flow, Finished
<1> HIDE DEF f
<1> QED BY <1>1, ReturnOK DEF FinalizeError, f

\* A flow that is completed is one, and keeps the request it has.
LEMMA CompletedFlow ==
  ASSUME Types, NEW x \in Exchanges, flow[x] # None,
         NEW body \in Bodies, NEW original \in Bodies \union {None}
  PROVE  /\ Completed(x, body, original) \in Flow
         /\ Finished(Completed(x, body, original))
         /\ Completed(x, body, original).request = flow[x].request
BY Updates DEF Completed, Flow, Finished

LEMMA BlockedOK ==
  ASSUME IInv, NEW x \in Exchanges, pc[x] = "rules", Blocked(x), UNCHANGED buffered,
         HandlerCpu(x)
  PROVE  IInv'
<1> DEFINE f == [flow[x] EXCEPT !.state = "complete", !.response = "bytes",
                                !.originalRequest = Recorded(x)]
<1>1. flow[x] # None => f \in Flow /\ Finished(f) /\ f.request = flow[x].request
  BY Updates DEF IInv, Flow, Finished, Bodies
<1>2. capture[x]["request"] = "none"
  BY DEF IInv, LocalOK, Sent
<1> HIDE DEF f
<1> QED BY <1>1, <1>2, ReturnOK DEF Blocked, f

\* The capture of the request that GoOn makes.
LEMMA GoesOn ==
  ASSUME IInv, NEW x \in Exchanges, NEW step, GoOn(x, step)
  PROVE  /\ Go(x, step)
         /\ \/ UNCHANGED capture
            \/ /\ step = "dispatch" /\ ~buffered[x] /\ capture[x]["request"] = "none"
               /\ capture' = [capture EXCEPT ![x]["request"] = "open"]
BY DEF GoOn, Captures

LEMMA RuledOK ==
  ASSUME IInv, NEW x \in Exchanges, pc[x] = "rules", Ruled(x), UNCHANGED buffered,
         HandlerCpu(x)
  PROVE  IInv'
<1>1. PICK step \in {"mock", "effective", "dispatch"} :
        /\ modified' = [modified EXCEPT ![x].request = step # "dispatch"]
        /\ GoOn(x, step)
        /\ UNCHANGED <<flow, ended>>
  BY DEF Ruled
<1>2. modified' \in [Exchanges -> [request : BOOLEAN, response : BOOLEAN]]
  BY <1>1 DEF IInv, Types
<1>3. UpdateFlow(x, flow[x])
  BY <1>1, NoUpdate DEF IInv
<1>4. flow[x] # None => flow[x] \in Flow /\ ~Finished(flow[x])
  BY DEF IInv, Types, LocalOK
<1>5. step \in Steps \ (Before \union {"done"}) /\ pc[x] \notin Sent
  BY DEF Steps, Before, Sent
<1> QED BY <1>1, <1>2, <1>3, <1>4, <1>5, GoesOn, MoveOK

LEMMA MockedOK ==
  ASSUME IInv, NEW x \in Exchanges, Mocked(x), HandlerCpu(x)
  PROVE  IInv'
<1> DEFINE f == Completed(x, "bytes", flow[x].originalResponse)
<1>1. flow[x] # None => flow[x].originalResponse \in Bodies \union {None}
  BY DEF IInv, Types, Flow
<1>2. flow[x] # None => f \in Flow /\ Finished(f) /\ f.request = flow[x].request
  BY <1>1, CompletedFlow DEF IInv, Bodies
<1>3. capture[x]["request"] = "none" /\ pc[x] # "done"
  BY DEF Mocked, IInv, LocalOK, Sent
<1> HIDE DEF f
<1> QED BY <1>2, <1>3, ReturnOK DEF Mocked, f

LEMMA EffectiveRecordedOK ==
  ASSUME IInv, NEW x \in Exchanges, EffectiveRecorded(x), HandlerCpu(x)
  PROVE  IInv'
<1> DEFINE f == [flow[x] EXCEPT !.request = Recorded(x)]
<1>1. flow[x] # None => flow[x] \in Flow /\ ~Finished(flow[x])
  BY DEF IInv, Types, LocalOK, EffectiveRecorded
<1>2. flow[x] # None => f \in Flow /\ ~Finished(f)
  BY <1>1, Updates DEF IInv, Flow, Finished, Bodies
<1>3. /\ "dispatch" \in Steps \ (Before \union {"done"})
      /\ pc[x] # "done" /\ pc[x] \notin Sent
  BY DEF EffectiveRecorded, Steps, Before, Sent
<1>4. modified' \in [Exchanges -> [request : BOOLEAN, response : BOOLEAN]]
  BY DEF IInv, Types, EffectiveRecorded
<1> HIDE DEF f
<1> QED BY <1>2, <1>3, <1>4, GoesOn, MoveOK DEF EffectiveRecorded, f

LEMMA TransformedOK ==
  ASSUME IInv, NEW x \in Exchanges, Transformed(x), HandlerCpu(x)
  PROVE  IInv'
<1>1. CASE FinalizeError(x)
  BY <1>1, FinalizeErrorOK DEF Transformed, Sent
<1>2. CASE /\ \E m \in BOOLEAN : modified' = [modified EXCEPT ![x].response = m]
           /\ Go(x, "payload")
           /\ UNCHANGED <<buffered, flow, capture, ended>>
  <2>1. modified' \in [Exchanges -> [request : BOOLEAN, response : BOOLEAN]]
    BY <1>2 DEF IInv, Types
  <2>2. UpdateFlow(x, flow[x])
    BY <1>2, NoUpdate DEF IInv
  <2>3. flow[x] # None => flow[x] \in Flow /\ ~Finished(flow[x])
    BY DEF IInv, Types, LocalOK, Transformed
  <2>4. "payload" \in Steps \ (Before \union {"done"}) /\ "payload" \in Sent /\ pc[x] # "done"
    BY DEF Transformed, Steps, Before, Sent
  <2> QED BY <1>2, <2>1, <2>2, <2>3, <2>4, MoveOK
<1> QED BY <1>1, <1>2 DEF Transformed

LEMMA BufferedCompletedOK ==
  ASSUME IInv, NEW x \in Exchanges, BufferedCompleted(x), HandlerCpu(x)
  PROVE  IInv'
<1> DEFINE original == IF modified[x].response THEN "bytes" ELSE None
           f == Completed(x, "bytes", original)
<1>1. original \in Bodies \union {None}
  BY DEF Bodies
<1> HIDE DEF original
<1>2. flow[x] # None => f \in Flow /\ Finished(f) /\ f.request = flow[x].request
  BY <1>1, CompletedFlow DEF IInv, Bodies
<1>3. pc[x] \in Sent /\ pc[x] # "done"
  BY DEF BufferedCompleted, Sent
<1> HIDE DEF f
<1> QED BY <1>2, <1>3, ReturnOK DEF BufferedCompleted, f, original

LEMMA RulesOK ==
  ASSUME IInv, NEW x \in Exchanges, Rules(x), HandlerCpu(x)
  PROVE  IInv'
BY BlockedOK, RuledOK DEF Rules

LEMMA ContinueOK ==
  ASSUME IInv, NEW x \in Exchanges, Continue(x), HandlerCpu(x)
  PROVE  IInv'
<1>1. CASE Inserted(x)
  BY <1>1, InsertOK DEF Inserted
<1> QED BY <1>1, DecodedOK, RulesOK, MockedOK, EffectiveRecordedOK, TransformedOK,
           BufferedCompletedOK DEF Continue

-----------------------------------------------------------------------------
\* The other steps of a handler.
LEMMA RulesAtOnceOK ==
  ASSUME IInv, NEW x \in Exchanges, RulesAtOnce(x)
  PROVE  IInv'
BY RulesOK DEF RulesAtOnce, HandlerCpu

LEMMA RespondOK ==
  ASSUME IInv, NEW x \in Exchanges, Respond(x)
  PROVE  IInv'
<1> DEFINE f == [flow[x] EXCEPT !.state = "responding"]
<1>1. flow[x] # None => f \in Flow /\ ~Finished(f) /\ f.request = flow[x].request
  BY Updates DEF IInv, Flow, Finished
<1>2. PICK step \in {"read", "reply"} : Go(x, step)
  BY DEF Respond
<1>3. step \in Steps \ (Before \union {"done"}) /\ step \in Sent /\ pc[x] # "done"
  BY DEF Respond, Steps, Before, Sent
<1>4. modified' \in [Exchanges -> [request : BOOLEAN, response : BOOLEAN]]
  BY DEF IInv, Types, Respond
<1> HIDE DEF f
<1> QED BY <1>1, <1>2, <1>3, <1>4, MoveOK DEF Respond, HandlerCpu, f

LEMMA DispatchFailsOK ==
  ASSUME IInv, NEW x \in Exchanges, DispatchFails(x)
  PROVE  IInv'
BY FinalizeErrorOK DEF DispatchFails, HandlerCpu, Sent

LEMMA ReadResponseOK ==
  ASSUME IInv, NEW x \in Exchanges, ReadResponse(x)
  PROVE  IInv'
<1>1. UpdateFlow(x, flow[x])
  BY NoUpdate DEF IInv, ReadResponse
<1>2. flow[x] # None => flow[x] \in Flow /\ ~Finished(flow[x])
  BY DEF IInv, Types, LocalOK, ReadResponse
<1>3. /\ "transform" \in Steps \ (Before \union {"done"}) /\ "transform" \in Sent
      /\ pc[x] # "done"
  BY DEF ReadResponse, Steps, Before, Sent
<1>4. modified' \in [Exchanges -> [request : BOOLEAN, response : BOOLEAN]]
  BY DEF IInv, Types, ReadResponse
<1> QED BY <1>1, <1>2, <1>3, <1>4, MoveOK DEF ReadResponse, HandlerCpu

LEMMA ReadFailsOK ==
  ASSUME IInv, NEW x \in Exchanges, ReadFails(x)
  PROVE  IInv'
BY FinalizeErrorOK DEF ReadFails, HandlerCpu, Sent

LEMMA ClientLeavesOK ==
  ASSUME IInv, NEW x \in Exchanges, ClientLeaves(x)
  PROVE  IInv'
<1>1. UpdateFlow(x, flow[x])
  BY NoUpdate DEF IInv, ClientLeaves
<1>2. pc[x] # "done"
  BY DEF ClientLeaves, Awaiting, Computing
<1>3. flow[x] # None => flow[x] \in Flow /\ ~Finished(flow[x])
  BY <1>2 DEF IInv, Types, LocalOK
<1>4. "dropped" \in Steps \ (Before \union {"done"}) /\ "dropped" \in Sent
  BY DEF Steps, Before, Sent
<1>5. modified' \in [Exchanges -> [request : BOOLEAN, response : BOOLEAN]]
  BY DEF IInv, Types, ClientLeaves
<1> QED BY <1>1, <1>2, <1>3, <1>4, <1>5, MoveOK DEF ClientLeaves, HandlerCpu

LEMMA ReplyOK ==
  ASSUME IInv, NEW x \in Exchanges, Reply(x)
  PROVE  IInv'
<1>0. Types
  BY DEF IInv
<1>1. /\ LocalOK(x) /\ capture[x]["response"] = "none" /\ x \notin ended
      /\ flow[x] # None => ~Finished(flow[x])
  BY DEF IInv, LocalOK, Reply
<1>2. /\ capture' \in [Exchanges -> [Streams -> {"none", "open", "queued", "done"}]]
      /\ \A y \in Exchanges \ {x} : capture'[y] = capture[y]
      /\ capture'[x]["request"] = capture[x]["request"]
      /\ capture'[x]["response"] = "open"
  BY <1>0 DEF Types, Streams, Reply
<1>3. Queued' = Queued
  BY <1>1, <1>2 DEF Queued, Streams
<1>4. /\ pc' \in [Exchanges -> Steps] /\ pc'[x] = "done"
      /\ \A y \in Exchanges \ {x} : pc'[y] = pc[y]
  BY <1>0 DEF Types, Reply, Go, Steps, Sent
<1>5. modified' \in [Exchanges -> [request : BOOLEAN, response : BOOLEAN]]
  BY <1>0 DEF Types, Reply
<1>6. UNCHANGED <<buffered, flow, cpu, ended>>
  BY DEF Reply
<1>7. Types' /\ Limits'
  BY <1>0, <1>2, <1>3, <1>4, <1>5, <1>6, SameLimits DEF Types, HandlerCpu
<1>8. LocalOK(x)'
  <2>1. \A s \in Streams : <<x, s>> \in cpu' => capture'[x][s] = "queued"
    BY <1>1, <1>2, <1>6 DEF LocalOK, Streams
  <2>2. capture'[x]["request"] # "none" => ~buffered'[x]
    BY <1>1, <1>2, <1>6 DEF LocalOK
  <2>3. capture'[x]["request"] = "done" /\ flow'[x] # None => flow'[x].request # "empty"
    BY <1>1, <1>2, <1>6 DEF LocalOK
  <2> QED BY <1>1, <1>2, <1>4, <1>6, <2>1, <2>2, <2>3
          DEF LocalOK, Before, Sent, Finished
<1>9. \A y \in Exchanges \ {x} :
        /\ UNCHANGED <<pc[y], buffered[y], flow[y], capture[y]>>
        /\ y \in ended' <=> y \in ended
        /\ \A s \in Streams : <<y, s>> \in cpu' => <<y, s>> \in cpu
  BY <1>2, <1>4, <1>6
<1> QED BY <1>7, <1>8, <1>9, OneSteps

LEMMA EndHandlerJobOK ==
  ASSUME IInv, NEW x \in Exchanges, EndHandlerJob(x)
  PROVE  IInv'
BY ContinueOK DEF EndHandlerJob, HandlerCpu

-----------------------------------------------------------------------------
\* Steps that leave the handler where it is: all but the flow, the captures,
\* the jobs and the history stay.
LEMMA AsideOK ==
  ASSUME IInv, NEW x \in Exchanges, UNCHANGED <<pc, buffered, modified>>,
         flow' \in [Exchanges -> Flow \union {None}],
         capture' \in [Exchanges -> [Streams -> {"none", "open", "queued", "done"}]],
         cpu' \subseteq Jobs, ended' \subseteq Exchanges, Limits', LocalOK(x)',
         \A y \in Exchanges \ {x} :
           /\ UNCHANGED <<flow[y], capture[y]>>
           /\ y \in ended' <=> y \in ended
           /\ \A s \in Streams : <<y, s>> \in cpu' => <<y, s>> \in cpu
  PROVE  IInv'
<1>1. Types'
  BY DEF IInv, Types
<1> QED BY <1>1, OneSteps

LEMMA EndOrphanOK ==
  ASSUME IInv, NEW x \in Exchanges, EndOrphan(x)
  PROVE  IInv'
<1>1. HandlerCpu(x) /\ Queued' = Queued
  BY DEF EndOrphan, HandlerCpu, Queued
<1>2. LocalOK(x)'
  <2>1. \A s \in Streams : <<x, s>> \in cpu' => <<x, s>> \in cpu
    BY <1>1, SameLimits
  <2>2. LocalOK(x) /\ UNCHANGED <<pc[x], buffered[x], flow[x], capture[x], ended>>
    BY DEF IInv, EndOrphan
  <2> QED BY <2>1, <2>2, Untouched
<1> QED BY <1>1, <1>2, SameLimits, AsideOK DEF EndOrphan, IInv, Types

LEMMA ForgetOK ==
  ASSUME IInv, NEW x \in Exchanges, Forget(x)
  PROVE  IInv'
<1>1. HandlerCpu(x) /\ Queued' = Queued
  BY DEF Forget, HandlerCpu, Queued
<1>2. /\ flow' \in [Exchanges -> Flow \union {None}] /\ flow'[x] = None
      /\ \A y \in Exchanges \ {x} : flow'[y] = flow[y]
  BY DEF IInv, Types, Forget
<1>3. LocalOK(x)'
  BY <1>2 DEF IInv, LocalOK, Unfinished, Forget
<1> QED BY <1>1, <1>2, <1>3, SameLimits, AsideOK DEF Forget, IInv, Types

LEMMA EndSeenOK ==
  ASSUME IInv, NEW x \in Exchanges, EndSeen(x)
  PROVE  IInv'
<1>1. HandlerCpu(x) /\ Queued' = Queued
  BY DEF EndSeen, HandlerCpu, Queued
<1>2. LocalOK(x)'
  BY DEF IInv, LocalOK, Unfinished, Finished, EndSeen
<1> QED BY <1>1, <1>2, SameLimits, AsideOK DEF EndSeen, IInv, Types

LEMMA StartJobOK ==
  ASSUME IInv, NEW j \in Jobs, StartJob(j)
  PROVE  IInv'
<1> DEFINE x == j[1]
           kind == j[2]
<1>0. x \in Exchanges /\ kind \in {"handler"} \union Streams /\ j = <<x, kind>>
  BY DEF Jobs
<1> HIDE DEF x, kind
<1>1. /\ IsFiniteSet(cpu) /\ cpu' = cpu \union {j}
      /\ j \notin cpu /\ Cardinality(cpu) < Workers
  BY DEF IInv, Limits, StartJob
<1>2. IsFiniteSet(cpu') /\ Cardinality(cpu') <= Workers
  <2>1. IsFiniteSet(cpu \union {j}) /\ Cardinality(cpu \union {j}) <= Workers
    BY <1>1, Grows, LimitsAssumption
  <2> QED BY <1>1, <2>1
<1>3. Queued' = Queued
  BY DEF StartJob, Queued
<1>4. Limits'
  BY <1>2, <1>3 DEF IInv, Limits
<1>5. LocalOK(x)'
  <2>1. LocalOK(x) /\ UNCHANGED <<pc, buffered, flow, capture, ended>>
    BY <1>0 DEF IInv, StartJob
  <2>2. kind \in Streams => capture[x][kind] = "queued"
    BY DEF StartJob, Waits, Streams, x, kind
  <2>3. \A s \in Streams : <<x, s>> \in cpu' => capture'[x][s] = "queued"
    BY <1>0, <1>1, <2>1, <2>2 DEF LocalOK
  <2> QED BY <2>1, <2>3 DEF LocalOK, Unfinished, Finished
<1>6. cpu' \subseteq Jobs
  BY <1>1 DEF IInv, Types
<1>7. UNCHANGED <<pc, buffered, modified, flow, capture, ended>>
  BY DEF StartJob
<1> QED BY <1>0, <1>1, <1>4, <1>5, <1>6, <1>7, AsideOK DEF IInv, Types

-----------------------------------------------------------------------------
\* The finalizers.  What they make of a flow is a flow, with a body; the
\* request's leaves the rest alone, the response's completes it.
LEMMA FinalFlow ==
  ASSUME Types, NEW x \in Exchanges, flow[x] # None, NEW s \in Streams,
         NEW body \in Bodies \ {"empty"}
  PROVE  /\ Final(x, s, body) \in Flow
         /\ s = "request" => /\ Final(x, s, body).request = body
                             /\ Final(x, s, body).state = flow[x].state
                             /\ Final(x, s, body).response = flow[x].response
                             /\ Final(x, s, body).originalResponse = flow[x].originalResponse
                             /\ Final(x, s, body).originalRequest = None
                                  <=> flow[x].originalRequest = None
         /\ s = "response" => /\ Final(x, s, body).request = flow[x].request
                              /\ Finished(Final(x, s, body))
<1>1. flow[x] \in Flow /\ body \in Bodies /\ body # None
  BY NoneAssumption DEF Types
<1>2. CASE s = "request"
  BY <1>1, <1>2 DEF Final, RequestFinal, Flow
<1>3. CASE s = "response"
  <2> DEFINE original == IF modified[x].request \/ modified[x].response
                         THEN flow[x].response ELSE flow[x].originalResponse
  <2>1. original \in Bodies \union {None}
    BY <1>1 DEF Flow
  <2>2. Final(x, s, body) = Completed(x, body, original)
    BY <1>3 DEF Final, ResponseFinal
  <2> HIDE DEF original
  <2> QED BY <1>1, <1>3, <2>1, <2>2, CompletedFlow
<1> QED BY <1>2, <1>3 DEF Streams

\* A finalizer runs, with its job or without one.
LEMMA FinalOK ==
  ASSUME IInv, NEW x \in Exchanges, NEW s \in Streams, capture[x][s] \in {"open", "queued"},
         capture' = [capture EXCEPT ![x][s] = "done"],
         NEW body \in Bodies \ {"empty"}, UpdateFlow(x, Final(x, s, body)),
         cpu' = cpu \ {<<x, s>>}, UNCHANGED <<pc, buffered, modified, ended>>
  PROVE  IInv'
<1>0. Types /\ LocalOK(x)
  BY DEF IInv
<1>1. /\ capture' \in [Exchanges -> [Streams -> {"none", "open", "queued", "done"}]]
      /\ \A y \in Exchanges \ {x} : capture'[y] = capture[y]
      /\ \A t \in Streams \ {s} : capture'[x][t] = capture[x][t]
      /\ capture'[x][s] = "done"
  BY <1>0 DEF Types
<1>2. /\ flow' \in [Exchanges -> Flow \union {None}]
      /\ flow'[x] = IF flow[x] = None THEN None ELSE Final(x, s, body)
      /\ \A y \in Exchanges \ {x} : flow'[y] = flow[y]
  BY <1>0, Updated, FinalFlow
<1>3. Limits'
  <2>1. Queued' = Queued \ {<<x, s>>}
    BY <1>0, <1>1 DEF Queued
  <2>2. /\ IsFiniteSet(cpu) /\ Cardinality(cpu) <= Workers
        /\ IsFiniteSet(Queued) /\ Cardinality(Queued) <= QueueCap
    BY DEF IInv, Limits
  <2>3. IsFiniteSet(cpu') /\ Cardinality(cpu') <= Workers
    <3>1. IsFiniteSet(cpu \ {<<x, s>>}) /\ Cardinality(cpu \ {<<x, s>>}) <= Workers
      BY <2>2, Shrinks, LimitsAssumption
    <3> QED BY <3>1
  <2>4. IsFiniteSet(Queued') /\ Cardinality(Queued') <= QueueCap
    <3>1. IsFiniteSet(Queued \ {<<x, s>>}) /\ Cardinality(Queued \ {<<x, s>>}) <= QueueCap
      BY <2>2, Shrinks, LimitsAssumption
    <3> QED BY <2>1, <3>1
  <2> QED BY <2>3, <2>4 DEF Limits
<1>4. LocalOK(x)'
  <2>1. \A t \in Streams : <<x, t>> \in cpu' => capture'[x][t] = "queued"
    BY <1>0, <1>1 DEF LocalOK
  <2>2. flow'[x] # None => flow[x] # None /\ flow'[x] = Final(x, s, body)
    BY <1>2
  <2>3. CASE s = "request"
    <3>1. capture'[x]["response"] = capture[x]["response"] /\ capture[x]["request"] # "none"
      BY <1>1, <2>3 DEF Streams
    <3>2. flow'[x] # None => /\ flow'[x].request # "empty" /\ flow'[x].state = flow[x].state
                             /\ flow[x] # None
      BY <1>0, <2>2, <2>3, FinalFlow
    <3> QED BY <1>0, <1>1, <2>1, <2>3, <3>1, <3>2 DEF LocalOK, Before, Sent, Finished, Unfinished
  <2>4. CASE s = "response"
    <3>1. /\ capture'[x]["request"] = capture[x]["request"] /\ capture'[x]["response"] = "done"
          /\ capture[x]["response"] # "none"
      BY <1>1, <2>4 DEF Streams
    <3>2. flow'[x] # None => /\ flow'[x].request = flow[x].request /\ Finished(flow'[x])
                             /\ flow[x] # None
      BY <1>0, <2>2, <2>4, FinalFlow
    <3> QED BY <1>0, <2>1, <3>1, <3>2 DEF LocalOK, Before, Sent, Unfinished
  <2> QED BY <2>3, <2>4 DEF Streams
<1>5. cpu' \subseteq Jobs /\ ended' \subseteq Exchanges
  BY <1>0 DEF Types
<1> QED BY <1>1, <1>2, <1>3, <1>4, <1>5, AsideOK

LEMMA StartOK ==
  ASSUME IInv, NEW x \in Exchanges, NEW s \in Streams, Start(x, s)
  PROVE  IInv'
<1>0. Types /\ LocalOK(x) /\ capture[x][s] = "open"
  BY DEF IInv, Start
<1>1. CASE /\ QueueFree
           /\ capture' = [capture EXCEPT ![x][s] = "queued"]
           /\ UNCHANGED flow
  <2>1. /\ capture' \in [Exchanges -> [Streams -> {"none", "open", "queued", "done"}]]
        /\ \A y \in Exchanges \ {x} : capture'[y] = capture[y]
        /\ \A t \in Streams \ {s} : capture'[x][t] = capture[x][t]
        /\ capture'[x][s] = "queued"
    BY <1>0, <1>1 DEF Types
  <2>2. Queued' = Queued \union {<<x, s>>}
    BY <1>0, <2>1 DEF Queued
  <2>3. IsFiniteSet(Queued) /\ Cardinality(Queued) < QueueCap
    BY <1>1 DEF IInv, Limits, QueueFree, Queued
  <2>4. Limits'
    <3>1. /\ IsFiniteSet(Queued \union {<<x, s>>})
          /\ Cardinality(Queued \union {<<x, s>>}) <= QueueCap
      BY <2>3, Grows, LimitsAssumption
    <3>2. IsFiniteSet(Queued') /\ Cardinality(Queued') <= QueueCap
      BY <2>2, <3>1
    <3> QED BY <3>2 DEF IInv, Limits, Start
  <2>5. LocalOK(x)'
    <3>1. UNCHANGED <<pc, buffered, flow, cpu, ended>>
      BY <1>1 DEF Start
    <3>2. \A t \in Streams : <<x, t>> \in cpu' => capture'[x][t] = "queued"
      BY <1>0, <2>1, <3>1 DEF LocalOK
    <3>3. CASE s = "request"
      <4>1. capture'[x]["response"] = capture[x]["response"] /\ capture'[x]["request"] = "queued"
        BY <2>1, <3>3 DEF Streams
      <4> QED BY <1>0, <3>1, <3>2, <3>3, <4>1 DEF LocalOK, Unfinished, Finished
    <3>4. CASE s = "response"
      <4>1. capture'[x]["request"] = capture[x]["request"] /\ capture'[x]["response"] = "queued"
        BY <2>1, <3>4 DEF Streams
      <4> QED BY <1>0, <3>1, <3>2, <3>4, <4>1 DEF LocalOK, Unfinished, Finished
    <3> QED BY <3>3, <3>4 DEF Streams
  <2> QED BY <1>1, <2>1, <2>4, <2>5, AsideOK DEF IInv, Types, Start
<1>2. CASE /\ capture' = [capture EXCEPT ![x][s] = "done"]
           /\ UpdateFlow(x, Final(x, s, "size"))
  <2>1. cpu' = cpu \ {<<x, s>>}
    BY <1>0 DEF Start, LocalOK
  <2>2. "size" \in Bodies \ {"empty"}
    BY DEF Bodies
  <2> QED BY <1>0, <1>2, <2>1, <2>2, FinalOK DEF Start
<1> QED BY <1>1, <1>2 DEF Start

LEMMA EndCaptureJobOK ==
  ASSUME IInv, NEW x \in Exchanges, NEW s \in Streams, EndCaptureJob(x, s)
  PROVE  IInv'
<1>1. capture[x][s] = "queued"
  BY DEF IInv, LocalOK, EndCaptureJob
<1>2. "bytes" \in Bodies \ {"empty"}
  BY DEF Bodies
<1> QED BY <1>1, <1>2, FinalOK DEF EndCaptureJob

-----------------------------------------------------------------------------
LEMMA StutterOK == IInv /\ UNCHANGED vars => IInv'
BY DEF IInv, Types, Limits, Queued, LocalOK, Unfinished, Finished, vars

LEMMA NextOK == IInv /\ [Next]_vars => IInv'
<1> SUFFICES ASSUME IInv, [Next]_vars PROVE IInv'
  OBVIOUS
<1>1. ASSUME NEW x \in Exchanges, Peers(x) PROVE IInv'
  BY <1>1, AcceptStreamedOK, AcceptBufferedOK, CollectRequestOK, RespondOK, DispatchFailsOK,
     ReadResponseOK, ReadFailsOK, ClientLeavesOK, EndSeenOK, StartOK DEF Peers
<1>2. ASSUME NEW x \in Exchanges, EndJob(x) PROVE IInv'
  BY <1>2, EndHandlerJobOK, EndOrphanOK, EndCaptureJobOK DEF EndJob
<1> QED BY <1>1, <1>2, RulesAtOnceOK, ReplyOK, ForgetOK, StartJobOK, StutterOK DEF Next

LEMMA Invariant == Spec => []IInv
BY InitOK, NextOK, PTL DEF Spec

-----------------------------------------------------------------------------
\* Every variable stays in its range; at most Workers jobs run and at most
\* QueueCap finalizers are queued.
THEOREM TypeCorrect == Spec => []TypeOK
BY Invariant, TypesOK, PTL

\* A request's body, once captured, is in the flow: nothing the handler records
\* later can take it out again.
THEOREM BackfillIsKept == Spec => []BackfillKept
BY Invariant, BackfillOK, PTL

\* Who reads a response to its end finds the exchange finished in the store.
THEOREM EndIsAfterRecord == Spec => []EndAfterRecord
BY Invariant, EndOK, PTL

-----------------------------------------------------------------------------
\* What a step may do to a finished flow.
FinalFor(x) ==
  flow[x] # None /\ flow'[x] # None /\ Finished(flow[x])
    => /\ flow'[x].state = flow[x].state
       /\ flow'[x].response = flow[x].response
       /\ flow'[x].originalResponse = flow[x].originalResponse
       /\ flow'[x].originalRequest = None <=> flow[x].originalRequest = None

\* A finalizer that runs on a finished flow is a request's.
LEMMA FinalizerIsFinal ==
  ASSUME IInv, NEW x \in Exchanges, NEW s \in Streams, capture[x][s] \in {"open", "queued"},
         NEW body \in Bodies \ {"empty"}, UpdateFlow(x, Final(x, s, body))
  PROVE  FinalFor(x)
<1> SUFFICES ASSUME flow[x] # None, flow'[x] # None, Finished(flow[x]) PROVE FinalFor(x)
  BY DEF FinalFor
<1>0. Types
  BY DEF IInv
<1>1. s = "request"
  BY DEF IInv, LocalOK, Streams
<1>2. flow'[x] = Final(x, s, body)
  BY <1>0, FinalFlow, Updated
<1> QED BY <1>0, <1>1, <1>2, FinalFlow DEF FinalFor

\* A step that leaves the flow alone.
LEMMA SameIsFinal ==
  ASSUME NEW x \in Exchanges, flow'[x] = flow[x]
  PROVE  FinalFor(x)
BY DEF FinalFor

\* The steps of a handler that has not returned: its flow is not finished.
LEMMA HandlerIsFinal ==
  ASSUME IInv, NEW x \in Exchanges, pc[x] # "done"
  PROVE  FinalFor(x)
BY DEF IInv, LocalOK, FinalFor

LEMMA StartIsFinal ==
  ASSUME IInv, NEW x \in Exchanges, NEW s \in Streams, Start(x, s)
  PROVE  FinalFor(x)
<1>1. "size" \in Bodies \ {"empty"}
  BY DEF Bodies
<1> QED BY <1>1, FinalizerIsFinal, SameIsFinal DEF Start

LEMMA EndCaptureJobIsFinal ==
  ASSUME IInv, NEW x \in Exchanges, NEW s \in Streams, EndCaptureJob(x, s)
  PROVE  FinalFor(x)
<1>1. capture[x][s] = "queued" /\ "bytes" \in Bodies \ {"empty"}
  BY DEF IInv, LocalOK, EndCaptureJob, Bodies
<1> QED BY <1>1, FinalizerIsFinal DEF EndCaptureJob

\* Of the steps of an exchange, those of its handler are taken before it returns.
LEMMA StepIsFinal ==
  ASSUME IInv, NEW x \in Exchanges,
         Peers(x) \/ RulesAtOnce(x) \/ Reply(x) \/ EndJob(x) \/ Forget(x)
  PROVE  FinalFor(x)
<1>1. CASE Peers(x)
  <2>1. CASE EndSeen(x)
    BY <2>1, SameIsFinal DEF EndSeen
  <2>2. CASE \E s \in Streams : Start(x, s)
    BY <2>2, StartIsFinal
  <2>3. CASE ~EndSeen(x) /\ ~(\E s \in Streams : Start(x, s))
    <3>1. pc[x] # "done"
      BY <1>1, <2>3 DEF Peers, AcceptStreamed, AcceptBuffered, CollectRequest, Respond,
                        DispatchFails, ReadResponse, ReadFails, ClientLeaves, Awaiting, Computing
    <3> QED BY <3>1, HandlerIsFinal
  <2> QED BY <2>1, <2>2, <2>3
<1>2. CASE RulesAtOnce(x)
  BY <1>2, HandlerIsFinal DEF RulesAtOnce, Rules
<1>3. CASE Reply(x)
  BY <1>3, SameIsFinal DEF Reply
<1>4. CASE EndJob(x)
  <2>1. CASE EndHandlerJob(x)
    <3>1. pc[x] # "done"
      BY <2>1 DEF EndHandlerJob, Continue, Decoded, Inserted, Rules, Mocked, EffectiveRecorded,
                  Transformed, BufferedCompleted
    <3> QED BY <3>1, HandlerIsFinal
  <2>2. CASE EndOrphan(x)
    BY <2>2, SameIsFinal DEF EndOrphan
  <2> QED BY <1>4, <2>1, <2>2, EndCaptureJobIsFinal DEF EndJob
<1>5. CASE Forget(x)
  BY <1>5 DEF Forget, IInv, Types, FinalFor
<1> QED BY <1>1, <1>2, <1>3, <1>4, <1>5

\* A step of one exchange leaves the flows of the others alone.
LEMMA OthersKeep ==
  ASSUME Types, NEW x \in Exchanges,
         Peers(x) \/ RulesAtOnce(x) \/ Reply(x) \/ EndJob(x) \/ Forget(x),
         NEW y \in Exchanges \ {x}
  PROVE  flow'[y] = flow[y]
<1>1. ASSUME NEW f, UpdateFlow(x, f) PROVE flow'[y] = flow[y]
  BY <1>1 DEF UpdateFlow, Types
<1>2. ASSUME Insert(x) PROVE flow'[y] = flow[y]
  BY <1>2 DEF Insert, Types
<1>3. CASE Peers(x)
  BY <1>1, <1>2, <1>3 DEF Peers, AcceptStreamed, AcceptBuffered, CollectRequest, Respond,
     DispatchFails, ReadResponse, ReadFails, ClientLeaves, EndSeen, Start, FinalizeError
<1>4. ASSUME Rules(x) PROVE flow'[y] = flow[y]
  BY <1>1, <1>4 DEF Rules, Blocked, Ruled
<1>5. CASE EndJob(x)
  BY <1>1, <1>2, <1>4, <1>5 DEF EndJob, EndHandlerJob, Continue, Decoded, Inserted, Mocked,
     EffectiveRecorded, Transformed, BufferedCompleted, FinalizeError, EndOrphan, EndCaptureJob
<1>6. CASE RulesAtOnce(x)
  BY <1>4, <1>6 DEF RulesAtOnce
<1>7. CASE Reply(x)
  BY <1>7 DEF Reply
<1>8. CASE Forget(x)
  BY <1>8 DEF Forget, Types
<1> QED BY <1>3, <1>5, <1>6, <1>7, <1>8

LEMMA NextIsFinal ==
  ASSUME IInv, [Next]_vars, NEW x \in Exchanges
  PROVE  FinalFor(x)
<1>1. CASE \E y \in Exchanges :
             Peers(y) \/ RulesAtOnce(y) \/ Reply(y) \/ EndJob(y) \/ Forget(y)
  <2> PICK y \in Exchanges : Peers(y) \/ RulesAtOnce(y) \/ Reply(y) \/ EndJob(y) \/ Forget(y)
    BY <1>1
  <2>1. CASE x = y
    BY <2>1, StepIsFinal
  <2>2. CASE x # y
    BY <2>2, OthersKeep, SameIsFinal DEF IInv
  <2> QED BY <2>1, <2>2
<1>2. CASE \E j \in Jobs : StartJob(j)
  BY <1>2, SameIsFinal DEF StartJob
<1>3. CASE UNCHANGED vars
  BY <1>3, SameIsFinal DEF vars
<1> QED BY <1>1, <1>2, <1>3 DEF Next

\* A flow is finished once: whatever finalizer comes late, it keeps its state,
\* its response and its snapshots' presence.
THEOREM FinishedStaysFinal == Spec => FinishedIsFinal
<1>1. IInv /\ [Next]_vars => [\A x \in Exchanges : FinalFor(x)]_vars
  BY NextIsFinal
<1>2. [\A x \in Exchanges : FinalFor(x)]_vars <=>
        [\A x \in Exchanges :
           flow[x] # None /\ flow'[x] # None /\ Finished(flow[x])
             => /\ flow'[x].state = flow[x].state
                /\ flow'[x].response = flow[x].response
                /\ flow'[x].originalResponse = flow[x].originalResponse
                /\ flow'[x].originalRequest = None <=> flow[x].originalRequest = None]_vars
  BY DEF FinalFor
<1> QED BY <1>1, <1>2, Invariant, PTL DEF Spec, FinishedIsFinal

================================================================================
