------------------------------ MODULE RuleExchange ------------------------------
(***************************************************************************)
(* The rules in the life of one exchange: what handle_proxy_request and    *)
(* handle_captured_request (hamsy-proxy/src/http.rs) give to the rule      *)
(* engine in each phase, what they make of the outcome, which bodies are   *)
(* buffered for it, and what goes upstream.  CapturedExchange is about     *)
(* when this happens, this module about what.  An exchange keeps the rule  *)
(* set it began with, and reads each setting once.                         *)
(***************************************************************************)
EXTENDS Forwarding

CONSTANTS AllSettings,\* what the settings may be
          RuleLists,  \* what the rules may be
          Requests,   \* what clients may send: conn (scheme, authority, version), uri
                      \* (form, url), method, headers, body, resourceType
          Responses,  \* what upstreams may answer: status, headers, body
          Documents,  \* what JSON documents requests may carry, and all they consist of
          Paths       \* paths into JSON documents, as segments

IsList(s) == s \in Seq(Range(s))

\* A cookie header has cookies as value.
IsHeader(h)       == h.name = "cookie" => IsList(h.value)
IsHeaders(headers) == IsList(headers) /\ \A h \in Range(headers) : IsHeader(h)

\* An index is a number, or none that parses.
IsSegment(seg) ==
  IF IsKey(seg) THEN seg = Key(seg.key) ELSE seg = Index(seg.index) /\ seg.index \in Nat \union {-1}
IsPath(path) == IsList(path) /\ \A seg \in Range(path) : IsSegment(seg)

\* An action is one that there is, a delay is a number of milliseconds, and so on.
ActionAssumption(a) ==
  /\ a.type \in ActionTypes
  /\ a.type = "delay" => a.ms \in Nat
  /\ a.type = "setRequestHeader" => IsHeader(a)
  /\ a.type = "jsonPatchRequest" => \A op \in Range(a.ops) : op.op \in JsonOps /\ IsPath(op.path)

RuleAssumption(r) ==
  /\ DOMAIN r.match = MatcherFields
  /\ r.priority \in Int
  /\ IsList(r.actions) /\ \A a \in Range(r.actions) : ActionAssumption(a)

ASSUME RulesAssumption ==
  \A list \in RuleLists : IsList(list) /\ \A r \in Range(list) : RuleAssumption(r)
ASSUME RequestsAssumption ==
  \A r \in Requests :
    /\ r = [x \in {"conn", "uri", "method", "headers", "body", "resourceType"} |-> r[x]]
    /\ r.conn.version \in {"h1", "h2"} /\ IsHeaders(r.headers)
    /\ DOMAIN r.body = {"json"} => r.body.json \in Documents
ASSUME DocumentsAssumption ==
  \A v \in Documents : /\ IsArr(v) => v.arr \in Seq(Documents)
                       /\ IsObj(v) => Range(v.obj) \subseteq Documents
ASSUME PathsAssumption == \A q \in Paths : IsPath(q) /\ BadIndex \notin Range(q)

VARIABLES settings,  \* paused, include, exclude, and proxy: is there an upstream_proxy
          rules,     \* the compiled rule set
          request,   \* the request as it came, its body decoded; its url, once
                     \* it is known
          pc,
          outcome,   \* RequestOutcome, once there is one
          sent,      \* the request given to dispatch, with buffered: was its body read
          wire,      \* the request on the upstream connection
          response,  \* the response as it came
          replied    \* ResponseOutcome, with buffered

vars == <<settings, rules, request, pc, outcome, sent, wire, response, replied>>

Nothing == [none |-> TRUE]

\* A body that a rule changed goes out as it is, not encoded.
Reencoded(headers, body) ==
  SetHeader(WithoutHeader(headers, "content-encoding"), "content-length", body)

\* The context of the response phase: the client's method, but the URL and the
\* headers that were sent.
ResponseContext(body) ==
  [status |-> response.status, headers |-> response.headers, body |-> body,
   request |-> [method |-> request.method, url |-> sent.url, headers |-> sent.headers,
                body |-> IF sent.buffered THEN request.body ELSE NoBody,
                resourceType |-> request.resourceType]]

-----------------------------------------------------------------------------
Init ==
  /\ settings \in AllSettings
  /\ \E list \in RuleLists : rules = RuleSet(list)
  /\ request \in Requests
  /\ pc = "arrived"
  /\ outcome = Nothing /\ sent = Nothing /\ wire = Nothing
  /\ response = Nothing /\ replied = Nothing

Target   == TargetUrl(request.uri, request.conn, request.headers)
Received == Extended([url |-> Target, headers |-> Stripped(request.headers)], request)

\* No URL: 400.  The proxy's own port: 508, "even while paused, or while the
\* host is excluded from capture".
Refused == Target # BadURL => OwnListener(Target.host) = "proxy"

Refuse ==
  /\ pc = "arrived"
  /\ Refused
  /\ pc' = "answered"
  /\ UNCHANGED <<settings, rules, request, outcome, sent, wire, response, replied>>

Admitted(captured) ==
  /\ pc = "arrived"
  /\ ~Refused
  /\ captured <=> OwnListener(Target.host) = "none" /\ ShouldCapture(settings, Target.host)
  /\ request' = Received

\* forward_untouched
ForwardUntouched ==
  /\ Admitted(FALSE)
  /\ sent' = [method |-> request.method, url |-> Target, buffered |-> FALSE, body |-> request.body,
              headers |-> WithHost(Stripped(request.headers), Target.host)]
  /\ pc' = "sent"
  /\ UNCHANGED <<settings, rules, outcome, wire, response, replied>>

Capture ==
  /\ Admitted(TRUE)
  /\ pc' = "request"
  /\ UNCHANGED <<settings, rules, outcome, sent, wire, response, replied>>

Streamed(r) == [r EXCEPT !.body = NoBody]

\* The request phase.  The body is read, and decoded, only if the probe asks
\* for it; an outcome with the body that was read has none.
RunRequestRules ==
  /\ pc = "request"
  /\ \E buffered \in {NeedsRequestBody(rules, Streamed(request))} :
     \E out \in {ApplyRequest(rules, IF buffered THEN request ELSE Streamed(request))} :
       LET changed == out.body \notin {NoBody, request.body} IN
       /\ outcome' = out
       /\ IF out.blocked \/ out.mocked
          THEN pc' = "answered" /\ UNCHANGED sent
          ELSE /\ pc' = "sent"
               /\ sent' = [method |-> out.method, url |-> out.url, buffered |-> buffered,
                           body |-> IF changed THEN out.body ELSE request.body,
                           headers |-> IF changed THEN Reencoded(Outbound(request, out), out.body)
                                       ELSE Outbound(request, out)]
  /\ UNCHANGED <<settings, rules, request, wire, response, replied>>

\* The body cannot be read or decoded: 413 or 502, before any rule has run.
RequestUnreadable ==
  /\ pc = "request"
  /\ NeedsRequestBody(rules, Streamed(request))
  /\ pc' = "answered"
  /\ UNCHANGED <<settings, rules, request, outcome, sent, wire, response, replied>>

\* dispatch: the request is framed for the connection it goes on.
Dispatch ==
  /\ pc = "sent"
  /\ LET version == request.conn.version
         msg     == BuildOutbound(version, sent.url, sent.headers, settings.proxy)
     IN \E v \in Negotiable(version, sent.url) :
          wire' = Adapted(msg, v, settings.proxy, sent.url)
  /\ pc' = "waiting"
  /\ UNCHANGED <<settings, rules, request, outcome, sent, response, replied>>

\* The response to an exchange that is not captured is passed on.
Respond ==
  /\ pc = "waiting"
  /\ response' \in Responses
  /\ pc' = IF outcome = Nothing THEN "answered" ELSE "response"
  /\ UNCHANGED <<settings, rules, request, outcome, sent, wire, replied>>

\* finalize_error, or 502: no response, or one that cannot be read or decoded.
Fail ==
  /\ \/ pc \in {"sent", "waiting"}
     \/ pc = "response" /\ NeedsResponseBody(rules, ResponseContext(NoBody))
  /\ pc' = "answered"
  /\ UNCHANGED <<settings, rules, request, outcome, sent, wire, response, replied>>

\* The response phase.
RunResponseRules ==
  /\ pc = "response"
  /\ LET buffered == NeedsResponseBody(rules, ResponseContext(NoBody))
         out == ApplyResponse(rules, ResponseContext(IF buffered THEN response.body ELSE NoBody))
     IN replied' = [out |-> out, buffered |-> buffered]
  /\ pc' = "answered"
  /\ UNCHANGED <<settings, rules, request, outcome, sent, wire, response>>

Next ==
  \/ Refuse \/ ForwardUntouched \/ Capture
  \/ RunRequestRules \/ RequestUnreadable \/ Dispatch \/ Respond \/ Fail \/ RunResponseRules

Spec == Init /\ [][Next]_vars

-----------------------------------------------------------------------------
Ran   == outcome # Nothing
Ended == replied # Nothing

\* What was recorded is where the exchange stands, and no delay is beyond its
\* integer's range.
TypeOK ==
  /\ \A r \in Range(rules) : /\ DOMAIN r.match = MatcherFields
                             /\ \A a \in Range(r.actions) : a.type \in ActionTypes
  /\ pc \in {"arrived", "request", "sent", "waiting", "response", "answered"}
  /\ pc \in {"sent", "waiting", "response"} => sent # Nothing
  /\ pc = "response" => response \in Responses
  /\ Ran => outcome.delay \in 0..MaxDelay
  /\ Ended => replied.out.delay \in 0..MaxDelay

\* "Rewrites run in the same order as request execution" and the probe stops
\* "before the first required body" (rule.rs): whether the request's body is
\* read or streamed past the rules cannot be told from what the rules did, and
\* no edit of a body is lost because it was not there.
RequestStreamingUnseen ==
  Ran /\ sent # Nothing /\ ~sent.buffered
    => LET full == ApplyRequest(rules, request) IN
       /\ full.body = request.body
       /\ Streamed(full) = outcome

\* What the response phase did, and would have done had every body been read.
Done(reply) == [reply EXCEPT !.body = NoBody, !.request = Nothing]
FullReply ==
  ApplyResponse(rules, [ResponseContext(response.body) EXCEPT !.request.body = request.body])

\* The same for the response phase, which needs the bodies of both.  "A later
\* request rewrite can make an earlier response rule's request body predicate
\* reachable" (rule.rs), and the probe sees to it that the body is there then,
\* as long as the response phase is shown the request that the probe ended
\* with: the probe looks at the method that the rules set, the response phase
\* at the client's.
SameRequest == outcome.method = request.method /\ sent.headers = outcome.headers

ResponseStreamingUnseen ==
  Ended /\ (SameRequest \/ sent.buffered) =>
    /\ ~replied.buffered => FullReply.body = response.body
    /\ Done(FullReply) = Done(replied.out)

\* "connect to the rewrite target, but claim the original origin" (http.rs),
\* whatever protocols the client and the upstream speak: the origin is told the
\* Host that the client sent or a rule set, or else the host of the URL that
\* the request was made to, which HTTP/1 leaves out if its client did and no
\* rule moved it; every cookie reaches it in its order; and the message ends up
\* at the host of the URL that the rules left.  The last fails for one kind of
\* request: when HTTP/2 falls back to HTTP/1 at an upstream proxy, the request
\* line names the origin that is claimed, and the proxy goes by it.
Claimed ==
  CASE outcome = Nothing -> {request.url.host}
    [] outcome # Nothing /\ HostOf(outcome.headers) # {} -> HostOf(outcome.headers)
    [] OTHER -> IF request.conn.version = "h1" /\ outcome.url = request.url THEN {}
                ELSE {request.url.host}

Misrouted == request.conn.version = "h2" /\ Proxied(sent.url, settings.proxy)

ClaimsOrigin ==
  wire # Nothing =>
    /\ Told(wire) = Claimed
    /\ Cookies(wire.headers) = Cookies(sent.headers)
    /\ Destination(wire, sent.url, settings.proxy)
         \in IF Misrouted THEN Claimed ELSE {sent.url.host}

\* modified decides whether the user is shown an original: an exchange that is
\* not marked as modified is what the client and the upstream sent.
UnmodifiedIsOriginal ==
  /\ Ran /\ ~outcome.modified =>
       /\ outcome.method = request.method /\ outcome.url = request.url
       /\ outcome.headers = request.headers
       /\ sent.body = request.body /\ ~outcome.blocked /\ ~outcome.mocked
  /\ Ended /\ ~replied.out.modified =>
       /\ replied.out.status = response.status /\ replied.out.headers = response.headers
       /\ replied.out.body \in {NoBody, response.body}

\* A JSON operation leaves alone what is not on its path, what its path leads
\* to and what leads to it, unless it had to replace a value of another kind
\* on the way, or moved the elements of an array by removing one.
Containers(doc, segments) ==
  \A n \in 0..(Len(segments) - 1) :
    LET at == Lookup(doc, SubSeq(segments, 1, n)) IN
    at = <<>> \/ (IF IsKey(segments[n + 1]) THEN IsObj(at[1]) ELSE IsArr(at[1]))

Related(p, q) == IsPrefix(p, q) \/ IsPrefix(q, p)

Elsewhere(p, op, q) ==
  /\ ~Related(p, q)
  /\ op = "remove" /\ p # <<>> /\ ~IsKey(Last(p)) => ~IsPrefix(Front(p), q)

PatchesAreLocal ==
  DOMAIN request.body = {"json"} =>
    \A i \in DOMAIN rules : \A a \in Range(rules[i].actions) :
      a.type = "jsonPatchRequest" => \A op \in Range(a.ops) :
        LET doc == request.body.json
            p   == Segments(op.path)
            new == JsonApply(doc, op)
        IN /\ \A q \in Paths :
                Lookup(doc, q) # <<>> /\ Containers(doc, p) /\ Elsewhere(p, op.op, q)
                  => Lookup(new, q) = Lookup(doc, q)
           /\ op.op = "set" => Lookup(new, p) = <<op.value>>
           /\ op.op = "remove" /\ p # <<>> /\ IsKey(Last(p)) => Lookup(new, p) = <<>>
=============================================================================
