------------------------------ MODULE RuleEngine ------------------------------
(***************************************************************************)
(* The rule engine: RuleSet::new, apply_request, apply_response and the    *)
(* probes that ask whether a body must be buffered                         *)
(* (hamsy-core/src/rule.rs).                                               *)
(*                                                                         *)
(* A condition on text, whatever its operator, is the set of texts that    *)
(* satisfy it; a template or a replacement is a function of what it is     *)
(* applied to.  A URL is its host, its path and its query pairs; names of  *)
(* headers are in one case; a body is a JSON document or other text.       *)
(***************************************************************************)
EXTENDS Integers, Sequences, FiniteSets, SequencesExt, JsonPatch

CONSTANTS NoBody,    \* Option::None for a body
          NoLimit,   \* Option::None for a throttle
          NoCapture, \* no captures: the matcher's operator is no regex
          BadURL,    \* what does not parse as a URL
          BadPattern,\* a regular expression or glob that does not compile
          MaxDelay   \* u64::MAX

ASSUME DelayAssumption == MaxDelay \in Nat

\* Matcher, with url_op and url_value as urls and captures, and Action.
MatcherFields ==
  {"urls", "captures", "methods", "hostPorts", "statusCodes", "resourceTypes",
   "requestHeaders", "responseHeaders", "requestBody", "responseBody"}
ActionTypes ==
  {"redirect", "rewriteUrl", "setQueryParam", "removeQueryParam", "setMethod", "block",
   "setRequestHeader", "removeRequestHeader", "setResponseHeader", "removeResponseHeader",
   "setRequestBody", "replaceInRequestBody", "jsonPatchRequest", "mockResponse",
   "setResponseBody", "replaceInResponseBody", "jsonPatchResponse", "setStatus",
   "delay", "throttle"}

Text(s) == [text |-> s]
Json(d) == [json |-> d]
Empty   == Text("")

\* Action::RewriteUrl, ReplaceIn...: a replacement leaves what it does not
\* mention.
Replaced(replace, x) == IF x \in DOMAIN replace THEN replace[x] ELSE x

Smaller(a, b) == IF a < b THEN a ELSE b

\* A record with the fields of both; a field that both have is r's.
Extended(r, s) ==
  [x \in DOMAIN r \union DOMAIN s |-> IF x \in DOMAIN r THEN r[x] ELSE s[x]]

\* saturating_add.  Mutant: the sum.
Unsaturated(n) == n
Saturated(n)   == Smaller(n, MaxDelay)

-----------------------------------------------------------------------------
\* Conditions.

\* header_lookup
HeaderLookup(headers, name) == {headers[i].value : i \in {j \in DOMAIN headers : headers[j].name = name}}

\* header_cond_matches: a comparison without a value accepts nothing.
HeaderCondMatches(cond, headers) ==
  LET values == HeaderLookup(headers, cond.name) IN
  CASE cond.op = "exists"  -> values # {}
    [] cond.op = "absent"  -> values = {}
    [] cond.op = "accepts" -> values \intersect cond.values # {}

HeadersMatch(conds, headers) == \A c \in conds : HeaderCondMatches(c, headers)

\* body_cond_matches: no condition is the empty set of them; no body reads as
\* the empty text.
BodyMatches(conds, body) ==
  \A accepted \in conds : (IF body = NoBody THEN Empty ELSE body) \in accepted

\* StatusMatcher.  A spec that does not parse is left out, and leaves a rule
\* whose only spec it is matching nothing.
StatusMatches(spec, status) ==
  CASE spec.kind = "exact" -> status = spec.value
    [] spec.kind = "class" -> (status \div 100) % 256 = spec.value
    [] spec.kind = "range" -> status \in spec.low..spec.high
    [] spec.kind = "bad"   -> FALSE

AnyOr(set, x) == set = {} \/ x \in set

\* matches_request.  s is the request as the rules before this one left it.
MatchesRequest(r, s, probe) ==
  LET m == r.match IN
  /\ s.url \in m.urls
  /\ AnyOr(m.methods, s.method)
  /\ AnyOr(m.hostPorts, s.url.host)
  /\ AnyOr(m.resourceTypes, s.resourceType)
  /\ HeadersMatch(m.requestHeaders, s.headers)
  /\ probe \/ BodyMatches(m.requestBody, s.body)

\* matches_response.  s is the response, with the request under s.request.
MatchesResponse(r, s, probe) ==
  LET m == r.match IN
  /\ MatchesRequest(r, s.request, FALSE)
  /\ m.statusCodes = {} \/ \E spec \in m.statusCodes : StatusMatches(spec, s.status)
  /\ HeadersMatch(m.responseHeaders, s.headers)
  /\ probe \/ BodyMatches(m.responseBody, s.body)

-----------------------------------------------------------------------------
\* Actions.

Changed(s) == [s EXCEPT !.modified = TRUE]

WithoutHeaders(headers, names) == Dropped(headers, {i \in DOMAIN headers : headers[i].name \in names})
WithoutHeader(headers, name)   == WithoutHeaders(headers, {name})
SetHeader(headers, name, value) ==
  Append(WithoutHeader(headers, name), [name |-> name, value |-> value])

WithHeader(s, name, value) == Changed([s EXCEPT !.headers = SetHeader(@, name, value)])
\* Mutant: a header that is removed is no modification.
DropHeaderQuietly(s, name) == [s EXCEPT !.headers = WithoutHeader(@, name)]
DropHeader(s, name) ==
  LET rest == WithoutHeader(s.headers, name) IN
  IF rest = s.headers THEN s ELSE Changed([s EXCEPT !.headers = rest])

\* A URL that does not parse is ignored.
GoTo(s, url) == IF url = BadURL THEN s ELSE Changed([s EXCEPT !.url = url])

\* A body that is replaced by itself is not modified; a patch modifies any
\* JSON document it is applied to, and nothing else.
WithBody(s, body) == Changed([s EXCEPT !.body = body])
ReplaceBody(s, replace) ==
  IF s.body = NoBody \/ Replaced(replace, s.body) = s.body THEN s
  ELSE WithBody(s, Replaced(replace, s.body))
PatchBody(s, ops) ==
  IF s.body = NoBody \/ DOMAIN s.body # {"json"} THEN s
  ELSE WithBody(s, Json(ApplyJsonOps(s.body.json, ops)))
NewBody(s, a) ==
  LET t == WithBody(s, a.body) IN
  IF a.contentType = "" THEN t ELSE WithHeader(t, "content-type", a.contentType)

\* Delay and Throttle, in the phases in which their rule matches.
Paced(s, a) ==
  CASE a.type = "delay"    -> [s EXCEPT !.delay = Saturated(@ + a.ms)]
    [] a.type = "throttle" ->
         [s EXCEPT !.throttle = IF @ = NoLimit THEN a.bps ELSE Smaller(@, a.bps)]
    [] OTHER -> s

\* set_query_param and remove_query_param
WithoutParam(query, name) == SelectSeq(query, LAMBDA q : q[1] # name)
ParamRemoved(s, name) ==
  LET rest == WithoutParam(s.url.query, name) IN
  IF rest = s.url.query THEN s ELSE Changed([s EXCEPT !.url.query = rest])

\* One action of a rule in the request phase; captured is what the matcher's
\* regex captured of the URL it matched, whatever the rule's actions have done
\* to the URL since.
RequestAction(captured, s, a) ==
  CASE a.type = "redirect"    -> GoTo(s, a.to[captured])
    [] a.type = "rewriteUrl"  ->
         LET url == Replaced(a.rewrite[captured], s.url)
         IN IF url = s.url THEN s ELSE GoTo(s, url)
    [] a.type = "setQueryParam" ->
         Changed([s EXCEPT !.url.query = Append(WithoutParam(@, a.name), <<a.name, a.value>>)])
    [] a.type = "removeQueryParam"     -> ParamRemoved(s, a.name)
    [] a.type = "setRequestHeader"     -> WithHeader(s, a.name, a.value)
    [] a.type = "removeRequestHeader"  -> DropHeader(s, a.name)
    [] a.type = "setRequestBody"       -> NewBody(s, a)
    [] a.type = "replaceInRequestBody" -> ReplaceBody(s, a.replace)
    [] a.type = "jsonPatchRequest"     -> PatchBody(s, a.ops)
    [] a.type = "mockResponse"         -> Changed([s EXCEPT !.mocked = TRUE])
    [] a.type = "setMethod"            -> Changed([s EXCEPT !.method = a.method])
    [] a.type = "block"                -> Changed([s EXCEPT !.blocked = TRUE])
    [] OTHER                           -> Paced(s, a)

\* One action in the response phase.  A block only stops the rules after it.
ResponseAction(s, a) ==
  CASE a.type = "setResponseHeader"     -> WithHeader(s, a.name, a.value)
    [] a.type = "removeResponseHeader"  -> DropHeader(s, a.name)
    [] a.type = "setResponseBody"       -> NewBody(s, a)
    [] a.type = "replaceInResponseBody" -> ReplaceBody(s, a.replace)
    [] a.type = "jsonPatchResponse"     -> PatchBody(s, a.ops)
    [] a.type = "setStatus"             -> Changed([s EXCEPT !.status = a.status])
    [] a.type = "block"                 -> [s EXCEPT !.blocked = TRUE]
    [] OTHER                            -> Paced(s, a)

RequestBodyActions  == {"setRequestBody", "replaceInRequestBody", "jsonPatchRequest"}
ResponseBodyActions == {"setResponseBody", "replaceInResponseBody", "jsonPatchResponse"}

HasAction(r, types) == \E i \in DOMAIN r.actions : r.actions[i].type \in types

\* Mutant: a condition on the body does not read it.
EditsRequestBody(r)  == HasAction(r, RequestBodyActions)
ReadsRequestBody(r)  == r.match.requestBody # {} \/ HasAction(r, RequestBodyActions)
ReadsResponseBody(r) == r.match.responseBody # {} \/ HasAction(r, ResponseBodyActions)

-----------------------------------------------------------------------------
\* compile_rule: every pattern of the matcher and of its actions compiles.
Compiles(r) ==
  LET m == r.match IN
  /\ m.urls # BadPattern /\ BadPattern \notin m.hostPorts
  /\ \A c \in m.requestHeaders \union m.responseHeaders :
       c.op = "accepts" => c.values # BadPattern
  /\ BadPattern \notin m.requestBody \union m.responseBody
  /\ \A a \in Range(r.actions) :
       /\ a.type = "rewriteUrl" => a.rewrite # BadPattern
       /\ a.type \in {"replaceInRequestBody", "replaceInResponseBody"} => a.replace # BadPattern

\* RuleSet::new: by priority, then as listed; disabled rules and those with a
\* pattern that does not compile are left out.
Before(list, i, j) ==
  \/ list[i].priority < list[j].priority
  \/ list[i].priority = list[j].priority /\ i < j

RuleSet(list) ==
  LET kept  == {i \in DOMAIN list : list[i].enabled /\ Compiles(list[i])}
      size  == Cardinality(kept)
      order == CHOOSE o \in [1..size -> kept] :
                 \A m, n \in 1..size : m < n => Before(list, o[m], o[n])
  IN [n \in 1..size |-> list[order[n]]]

Captured(r, url) == IF r.match.captures THEN url ELSE NoCapture

\* An outcome begins as its context, with nothing matched.
Begin(ctx) ==
  Extended(ctx, [matched |-> <<>>, modified |-> FALSE, blocked |-> FALSE, mocked |-> FALSE,
                 needsBody |-> FALSE, delay |-> 0, throttle |-> NoLimit])

\* The loop has been left.
Over(s) == s.blocked \/ s.mocked \/ s.needsBody

Match(s, r) == [s EXCEPT !.matched = Append(@, r.id)]

\* The actions of a rule that matches, in their order.
RequestActions(r, s) ==
  LET captured == Captured(r, s.url)
      upto[i \in 0..Len(r.actions)] ==
        IF i = 0 THEN Match(s, r) ELSE RequestAction(captured, upto[i - 1], r.actions[i])
  IN upto[Len(r.actions)]

\* One turn of the loop of apply_request_inner.  A probe stops at the first
\* rule that it reaches and that reads the body.
ApplyToRequest(probe, s, r) ==
  IF Over(s) \/ ~MatchesRequest(r, s, probe) THEN s
  ELSE IF probe /\ ReadsRequestBody(r) THEN [s EXCEPT !.needsBody = TRUE]
  ELSE RequestActions(r, s)

\* apply_request_inner
RequestRun(probe, rules, ctx) ==
  LET upto[i \in 0..Len(rules)] ==
        IF i = 0 THEN Begin(ctx) ELSE ApplyToRequest(probe, upto[i - 1], rules[i])
  IN upto[Len(rules)]

\* Once the loop is through, a rule that it passed over may match the request
\* as the rules left it; the response phase will look at its body condition.
\* Mutant: not looked for.
NothingReachable(rules, s) == FALSE
LaterReachable(rules, s) ==
  /\ ~Over(s)
  /\ \E i \in DOMAIN rules :
       rules[i].match.requestBody # {} /\ MatchesRequest(rules[i], s, TRUE)

ApplyRequest(rules, ctx) == RequestRun(FALSE, rules, ctx)

\* needs_request_body
NeedsRequestBody(rules, ctx) ==
  LET s == RequestRun(TRUE, rules, ctx)
  IN s.needsBody \/ LaterReachable(rules, s)

\* The response phase in the same way.
ResponseActions(r, s) ==
  LET upto[i \in 0..Len(r.actions)] ==
        IF i = 0 THEN Match(s, r) ELSE ResponseAction(upto[i - 1], r.actions[i])
  IN upto[Len(r.actions)]

\* One turn of the loop of apply_response_inner.
ApplyToResponse(probe, s, r) ==
  IF Over(s) \/ ~MatchesResponse(r, s, probe) THEN s
  ELSE IF probe /\ ReadsResponseBody(r) THEN [s EXCEPT !.needsBody = TRUE]
  ELSE ResponseActions(r, s)

ResponseRun(probe, rules, ctx) ==
  LET upto[i \in 0..Len(rules)] ==
        IF i = 0 THEN Begin(ctx) ELSE ApplyToResponse(probe, upto[i - 1], rules[i])
  IN upto[Len(rules)]

ApplyResponse(rules, ctx) == ResponseRun(FALSE, rules, ctx)

\* needs_response_body
NeedsResponseBody(rules, ctx) == ResponseRun(TRUE, rules, ctx).needsBody
=============================================================================
